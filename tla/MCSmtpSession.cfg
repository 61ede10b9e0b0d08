\* Servers that answer in time, and others that are late, terse, silent or gone.
CONSTANTS
  Rcpts = 2
  Sessions <- AllSessions
  CapSets <- AllCaps
  MaxLines = 2
SPECIFICATION FairSpec
INVARIANTS
  TypeOK
  TimelySuccessMeansAccepted
  TextIsAwaited
  AuthBeforeMail
PROPERTIES
  Terminates
CHECK_DEADLOCK FALSE
