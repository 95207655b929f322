SPECIFICATION PartsSpec
CONSTANTS
  Places = {home, away}
  Home = home
  SettleTicks = 1
  HoldTicks = 1
  ConfirmEpochs = 2
  MaxCalls = 2
  MaxUserActs = 1
  MaxResumes = 1
  MaxClients = 1
  MaxEvents = 2
  r1 = r1
  r2 = r2
  v = v
  h1 = h1
  h2 = h2
  m = m
  Requests = {r1, r2}
  Values = {v}
  Short = {}
  Hosts = {h1, h2}
  Models = {m}
  Default = m
  Setups <- MCSetups
  Bodies <- MCBodies
  MaxLaunches = 3
  MaxKeystrokes = 3
  ChunkKeystrokes = 2
  PointerBatch = 2
  MaxFaults = 2
  LiftsFirst = FALSE
  Views = {v1}
  Watches = {w1, w2}
  Images = {a, b}
  FirstImage = a
  MaxChanges = 1
  MaxInputs = 2
  MaxShots = 2
  Pictures = {p1, p2}
  MaxFailures = 4
  RentedSessions = {"s1", "s2"}
  RoutedServers = {"one", "two"}
  Identities <- MCIdentities
  BindingFiles <- MCBindingFiles
  FocusTicks = 1
  RefreshTicks = 1
  ProbeTicks = 1
  MaxTurns = 2
  Dialogs = {"d1", "d2"}
  ProfileNames = {"a", "b"}
  ServerNames = {"x"}
  Commands = {"c1", "c2"}
  Own = "own"
  Project <- MCProject
  MostProfiles = 2
  MaxEdits = 2
  MaxOutsiders = 1
  MaxOps = 2
  Ports = {1}
  Interval = 1
  Expiry = 3
  MaxRotations = 1
  AxisMin <- MCAxisMin
  AxisMax = 6
  MaxTicks = 3
  DragStep = 4
  DragCap = 2
  RootSize <- MCRootSize
  RequestsTried <- MCRequestsTried
  AgentLines <- MCAgentLines
  MaxLines = 3
  MaxCoord = 6
  MaxText = 2
  Screens = {"terminal", "dialogs"}
  ReviewedProfiles = {"p"}
  MaxChangesOfSources = 1
  MaxReviewed = 2
  MaxActions = 3
  MaxSessions = 2
  Keys = {"eyes", "sleep"}
  MenuKeys = {"eyes"}
  MaxClicks = 2
  MaxSaves = 2
  MaxNotices = 2
  MaxKills = 1
  ValueWords = {"here", "there", "blank", "pair"}
  BlankWords = {"blank"}
  Pairs = {"pair"}
  Loopback = {"here"}
  FlagWords = {"--tcp", "--listen", "--fixture", "--fixture-log", "--supervisor-url",
               "--experts", "--route", "--help"}
  MaxWords = 4
  Offered <- MCOffered
  MaxFields = 3
  Names = {1, 2, 3}
  Unfit = {3}
  ListMost = 1
  EntriesMost = 2
INVARIANTS
  PartsTypeOK
  AuditIsTrue
  OneVisorAnswers
  NothingStaysDown
  WatchedFeedIsCurrent
  UserIsToldFromCalls
  DisplayIsGivenBack
  RoutingIsCurrent
  ConfigurationIsSound
  RequestsAreCarriedOut
  TrustIsInformed
  SettingsAreCurrent
PROPERTIES
  PausesForTheUser
  SignInIsSound
CHECK_DEADLOCK FALSE
