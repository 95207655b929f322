SPECIFICATION ClientsSpec
CONSTANTS
  Servers = {web}
  Http = {web}
  Requests = {r1}
  MaxChanges = 2
  MaxConns = 2
  MaxFaults = 2
  CleanupQueue = 1
  Chunks <- MCChunks
  MaxChunks = 5
  TokenLetters = {"h", "s"}
  TokenMin <- MCTokenMin
  ValueMin = 2
  VaultValues <- MCVaultValues
  NotedTexts <- MCNotedTexts
  Labels <- MCLabels
  ValueLeast = 2
  LineMost = 3
  ActivityCap = 2
  MaxNotes = 3
  Hearers = {x}
  ChannelCap = 2
  MaxRecorded = 3
  Views = {v, w}
  MaxScreens = 2
  ToolRequests = {q1, q2}
  MaxSlotMoves = 3
  Callers = {y}
  Environments <- MCEnvironments
  SocketLength = 1
  Appended <- MCAppended
  SunPathMax = 6
  MaxVisors = 2
  MaxCalls = 2
  MaxPause = 4
INVARIANTS
  ClientsTypeOK
  AttachmentsAreSound
  TextsAreClean
  DesktopIsReadForItsSession
  RequestsAreOwn
PROPERTIES
  PartsSettle
CHECK_DEADLOCK FALSE
