SPECIFICATION Spec
CONSTANTS
  t1 = t1
  t2 = t2
  k1 = k1
  k2 = k2
  v = v
  Threads <- MCThreads
  Keys <- MCKeys
  Values <- MCValues
  Requests <- MCRequests
  MaxCalls = 4
  Nil = Nil
SYMMETRY Symmetric
INVARIANTS Accounted Witnessed CountersAgree
\* The callers may stop calling.
CHECK_DEADLOCK FALSE
