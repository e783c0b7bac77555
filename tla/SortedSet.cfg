SPECIFICATION Spec
CONSTANTS
  Nil = Nil
  NaN = NaN
  t1 = t1
  t2 = t2
  Threads <- TwoThreads
  Members = {0, 1, 2, 3, 4}
  Scores = {1, 2}
  Items <- SomeItems
  MemberLists <- SomeMembers
  MaxString = 3
SYMMETRY Symmetry
INVARIANTS Balanced Indexed Ranks Ranges Accounted
