SPECIFICATION Spec
CONSTANTS
  Injectors = {r1}
  Controllers = {c1}
  Actions = {"start", "pause", "stop"}
  Sessions = {s1, s2}
  Closable = {s1}
  NoSession = NoSession
  MaxChunks = 1
  Timeout = 1
  MayShutdown = TRUE
  Shutdown = Shutdown
  NoOne = NoOne
INVARIANTS
  ClosedSessionLosesGate
PROPERTIES
  CallsAreAccountedFor
