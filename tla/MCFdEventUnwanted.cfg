\* What fdevent_set does to a pending fdevent.
CONSTANTS
  a = a
  b = b
  shell = shell
  Clients = {a, b}
  Malloced = {a}
  Notify = shell
  MaxFd = 2
  TableStart = 2
  PtrInts = 1
  MaxCalls = 2
  MaxNotes = 1
  Scope = "any"
  BadFds = FALSE
SPECIFICATION Spec
PROPERTIES
  NoUnwantedSignal
