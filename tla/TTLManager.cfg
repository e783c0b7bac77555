CONSTANTS
  t1 = t1
  t2 = t2
  k1 = k1
  k2 = k2
  k3 = k3
  Threads <- MCThreads
  Keys <- ThreeKeys
  Durations = {0, 1}
  Second = 2
  Millisecond = 1
  MaxTime = 2
  Nil = Nil
  NoThread = NoThread
SPECIFICATION Spec
SYMMETRY ThreadsAndKeys
\* A thread that calls set_ttl with 0 waits for the mutex it holds, for ever.
CHECK_DEADLOCK FALSE
INVARIANTS IndexOK CallbackAfterRemoval
PROPERTIES KeepsPromise LoopsEnd
