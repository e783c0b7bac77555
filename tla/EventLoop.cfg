SPECIFICATION FairSpec
CONSTANTS
  t1 = t1
  t2 = t2
  NoThread = NoThread
  NoFd = NoFd
  Threads <- TwoThreads
  ListenFd = 3
  ClientFds <- OneClientFd
  Masks <- ReadOrError
  MaxClients = 2
INVARIANT CalledWhileRegistered
PROPERTY StopHeeded
CHECK_DEADLOCK FALSE
