CONSTANTS
  t1 = t1
  t2 = t2
  k1 = k1
  k2 = k2
  k3 = k3
  Threads <- OneThread
  Keys <- ThreeKeys
  Durations = {1, 2}
  Second = 2
  Millisecond = 1
  MaxTime = 3
  Nil = Nil
  NoThread = NoThread
SPECIFICATION Spec
INVARIANT CheckComplete
