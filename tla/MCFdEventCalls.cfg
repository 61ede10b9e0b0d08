\* All interleavings of interface calls on two fdevents; fd_table grows once.
CONSTANTS
  a = a
  b = b
  shell = shell
  Clients = {a, b}
  Malloced = {a}
  Notify = shell
  MaxFd = 2
  TableStart = 2
  PtrInts = 1
  MaxCalls = 2
  MaxNotes = 1
  Scope = "any"
  BadFds = TRUE
SPECIFICATION CallsSpec
INVARIANTS
  TypeOK
  PendingIsLinked
  PendingHasEvents
  CopiesAgree
  NeverAborts
PROPERTIES
  CallsOnlyLive
  OwnPendingServed
  OwnReadyServed
