\* The boot flag, when the writer is faster than the printf thread.
CONSTANTS
  BufSize = 3
  Slack = 2
  Chunks <- PromptsAndLogins
  TtySize = 2
  QueueLen = 2
  ExtMsgs = {}
  MayRestart = TRUE
SPECIFICATION Spec
INVARIANTS
  FlagClearedAfterBoot
CHECK_DEADLOCK FALSE
