\* A mail that fails leaves its temporary files behind.
CONSTANTS
  Considered = {"message"}
  Cap = 4
  Chars = {1, 2}
  Isr = "add"
  PublishLast = FALSE
  CommandLines <- SomeCommandLines
  MsgSettings <- SomeSettings
  Inputs <- SomeInputs
  CodBytes = {0, 10, 13, 26, 63, 64, 65, 130, 255}
  CodMixed = 4
  CodUniform = 60
  TextChars <- SomeChars
  TextBound = 4
  MaxTokenLen = 4
  SllNodes = {n1, n2, n3}
  SllNames = {l1, l2}
  SllValues = {1, 2}
  SllNil = nil
  BlobBytes = {0, 10, 200}
  BlobMost = 3
  MostAddresses = 3
  MostBytes = 3
  LockProcesses = {p1, p2, p3}
  LockFiles = 2
  WsBytes = {0, 10, 13, 65, 200, 255}
  WsMixed = 3
  WsUniform = 225
  WsMasks <- SomeMasks
  WsClients = {w1, w2}
  WsLimit = 2
  WsWindow = 2
  WsRoom = 4
  WsMost = 5
  ConnClients = {k1, k2, k3}
  ConnFds = 2
  PlayFiles <- SomeFiles
  PlayFormats <- SomeFormats
  PlayChunks = {4, 16}
  PlayCount = 50
  PlayRoom = 60
  LengthWidth = 128
SPECIFICATION PartsSpec
INVARIANT TempsAreRemoved
\* every part comes to its end
CHECK_DEADLOCK FALSE
