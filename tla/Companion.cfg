SPECIFICATION FairSpec
CONSTANTS
  Sessions = {s1}
  NoSession = NoSession
  Timeout = 1
  DisconnectMisses = 2
  MaxInputs = 2
  MaxClients = 1
  MaxRestarts = 1
  MaxLosses = 1
  MaxResumes = 1
  MaxEvents = 3
PROPERTIES
  UserIsObeyed
  Converges
