\* Replies that come after the read timeout.
CONSTANTS
  Rcpts = 2
  Sessions <- LateSession
  CapSets <- NoCaps
  MaxLines = 2
SPECIFICATION Spec
INVARIANTS
  SuccessMeansAccepted
CHECK_DEADLOCK FALSE
