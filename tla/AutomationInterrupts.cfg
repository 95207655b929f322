SPECIFICATION Spec
CONSTANTS
  Injectors = {r1}
  Controllers = {c1, c2}
  Actions = {"start", "pause", "resume", "stop"}
  Sessions = {s1}
  Closable = {}
  NoSession = NoSession
  MaxChunks = 2
  Timeout = 1
  MayShutdown = FALSE
  Shutdown = Shutdown
  NoOne = NoOne
INVARIANTS
  TypeOK
  PublishedMatches
  PauseHeld
  AtMostOneLateChunk
PROPERTIES
  NothingStaleIsAdmitted
