\* Eighteen parts of the program, one in each behaviour: see MCSteps.
SPECIFICATION Spec
CONSTANTS
  f1 = f1
  f2 = f2
  t1 = t1
  t2 = t2
  m1 = m1
  m2 = m2
  m3 = m3
  r1 = r1
  c1 = c1
  c2 = c2
  c3 = c3
  p1 = p1
  p2 = p2
  None = None
  Header = Header
  NonUtf8 = NonUtf8
  RagFiles = {f1, f2}
  Texts = {t1, t2}
  Embedders = {m1}
  RagRuns = {r1}
  Clients = {}
  MaxAttempts = 2
  MaxEdits = 1
  MaxFaults = 0
  MaxCrashes = 0
  Chats = {c1, c2}
  NoChat = None
  MaxLooks = 2
  MaxActs = 2
  MaxTitlings = 2
  MaxErrors = 1
  MaxStarts = 1
  Models = {m1, m2}
  NoModel = None
  MaxPulls = 2
  MaxAborts = 1
  MaxTold = 2
  IpcCommands = {"chat", "trace", "list"}
  Trace = "trace"
  LatencyBudget <- TheBudgets
  TimeoutMultiplier = 2
  DefaultTimeout = 2
  Throttle = 3
  HistoryMax = 2
  MaxAsked = 1
  MaxTime = 6
  MaxHides = 1
  Urls <- TheUrls
  Valid = {"home", "home/api", "lan"}
  Clean <- Trimmed
  DefaultUrl = "home"
  MaxTouches = 3
  MaxChecks = 1
  MaxTurns = 1
  Version = 5
  Stores = 2
  Stored = {2, 5}
  MaxSaves = 2
  MaxLapses = 1
  MaxRestarts = 1
  Servers = {"home", "lan"}
  HeldBy <- TheModels
  MaxLists = 2
  MaxDeeds = 2
  MaxFailures = 0
  Projects = {p1, p2}
  NoProject = None
  Paths = {f1, f2}
  NoPath = None
  Holds <- TheFiles
  MaxChoices = 3
  MaxCalls = 4
  Queries = {"q1", "q2", "q3"}
  Blank = ""
  Hits <- TheHits
  MaxRecent = 1
  MaxTyped = 3
  MaxOpens = 2
  Diagrams = {"d1", "d2"}
  Contents = {"", "flow", "xychart", "typo"}
  Empty = ""
  Unsupported = {"xychart"}
  Broken = {"typo"}
  Themes = {"light", "dark"}
  FirstTheme = "light"
  MaxChanges = 4
  Cards = {p1}
  MaxLoads = 1
  MaxCardActs = 2
  MaxVisits = 1
  Words = {"", "hi", "salam"}
  Chars <- TheLengths
  Arabic = {"salam"}
  System = "hi"
  ModelWindow = 10
  Tunings <- TheTunings
  MinReserve = 2
  RagMax = 12
  MaxAsks = 3
  MaxTweaks = 0
  Cmds = {"search", "ask"}
  Shared = {"ask"}
  Features = {"conversation", "rag"}
  MaxCommits = 2
  MaxPushes = 1
  Offered = {m1, m2, m3}
  PickerLists <- TheLists
  MaxKeys = 6
  OldIds = {"a", "b"}
  MaxUpgrades = 3
  SideChats = {c1, c2, c3}
  SideLists <- TheConversations
  Matching = {c1}
  SideShown = 1
  SideMore = 1
  MaxSideDeeds = 3
  Modals = {"settings", "commandPalette"}
  NoModal = "none"
  MaxAdds = 1
INVARIANTS TypeOK  ViewsTellTheStore AskedAndToldOnce SettingsSurvive PromptFits GatesLetNothingThrough RowsAreOfTheirLists AbortsReachThePull UpgradesKeepData
PROPERTIES ReadyIsFresh UserDeedsStay KeysActOnWhatIsShown
CHECK_DEADLOCK FALSE
