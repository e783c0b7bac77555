SPECIFICATION FairSpec
CONSTANTS
  c1 = c1
  c2 = c2
  k = k
  v = v
  Clients <- MCClients
  Fds = {1, 2}
  Requests <- MCRequests
  Keys <- MCKeys
  Values <- MCValues
  KMaxMsg = 4
  HeaderSize = 1
  MaxRequests <- MCMaxRequests
  Empty = Empty
  Null = Null
INVARIANTS TypeOK FallsOnlyFor RepliesInOrder
PROPERTY Answered
\* Clients may stop sending, and an assert ends the program.
CHECK_DEADLOCK FALSE
