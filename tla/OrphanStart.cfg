SPECIFICATION Spec
CONSTANTS
  Injectors = {r1}
  Controllers = {c1}
  Actions = {"start"}
  Sessions = {s1}
  Closable = {s1}
  NoSession = NoSession
  MaxChunks = 1
  Timeout = 1
  MayShutdown = FALSE
  Shutdown = Shutdown
  NoOne = NoOne
INVARIANTS
  RunningSessionIsOpen
