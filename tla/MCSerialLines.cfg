\* Text through the three buffers, each of which can be overrun.
CONSTANTS
  BufSize = 3
  Slack = 2
  Chunks <- Words
  TtySize = 3
  QueueLen = 1
  ExtMsgs = {}
  MayRestart = TRUE
SPECIFICATION Spec
INVARIANTS
  TypeOK
  RoomWhenDrained
  SleepsOnlyOnMissedSignal
  NeverIdleOverBytes
PROPERTIES
  ImplementsLineReader
CHECK_DEADLOCK FALSE
