SPECIFICATION FairSpec
CONSTANTS
  WarmupCount = 2
  MaxRequests = 3
  Executes <- EveryKind
  Cut = TRUE
INVARIANTS NeverLate Populates
PROPERTY CallsEnd
CHECK_DEADLOCK FALSE
