\* Boot prompts, starts and logins around the message queue; every thread runs.
CONSTANTS
  BufSize = 3
  Slack = 2
  Chunks <- AllLines
  TtySize = 2
  QueueLen = 1
  ExtMsgs = {"reboot"}
  MayRestart = FALSE
SPECIFICATION FairSpec
INVARIANTS
  BootRepeatsOnlyAfterReset
PROPERTIES
  AnnouncedIsTaken
  BootIsTyped
CHECK_DEADLOCK FALSE
