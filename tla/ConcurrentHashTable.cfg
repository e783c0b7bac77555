\* Two threads, three keys that collide, a table that starts with one bucket.
CONSTANTS
  t1 = t1
  t2 = t2
  k1 = k1
  k2 = k2
  k3 = k3
  v1 = v1
  Threads <- MCThreads
  Keys <- ThreeKeys
  Values = {v1}
  Hash <- MCHash
  InitialCapacity = 1
  Nil = Nil
  NoThread = NoThread
SPECIFICATION FairSpec
INVARIANTS StructureOK FoundStillThere LoadBounded
PROPERTIES Linearizable CallsEnd
