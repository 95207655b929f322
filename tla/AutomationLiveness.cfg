SPECIFICATION FairSpec
CONSTANTS
  Injectors = {r1}
  Controllers = {c1}
  Actions = {"stop"}
  Sessions = {s1}
  Closable = {s1}
  NoSession = NoSession
  MaxChunks = 1
  Timeout = 1
  MayShutdown = TRUE
  Shutdown = Shutdown
  NoOne = NoOne
PROPERTIES
  ExpiredRunEnds
  WaitersAreServed
