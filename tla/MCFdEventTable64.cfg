\* fd_table on a build with 8-byte pointers, descriptors in its second half.
CONSTANTS
  a = a
  b = b
  shell = shell
  Clients = {a, b}
  Malloced = {a}
  Notify = shell
  MaxFd = 3
  TableStart = 2
  PtrInts = 2
  MaxCalls = 2
  MaxNotes = 1
  Scope = "any"
  BadFds = TRUE
SPECIFICATION Spec
INVARIANTS
  SlotsHoldFdes
