SPECIFICATION Spec
CONSTANTS
  Users <- MCUsers
  Clients <- MCClients
  UserOf <- MCUserOf
  MaxRetained = 3
  HighWater = 1
  MaxPending = 1
  MaxEvents = 6
  MaxBeats = 2
  MaxBreaks = 2
  MaxRestarts = 1
  Requests = {"r1", "r2", "r3"}
  Briefs = {"b1"}
  Fields = {"narrative", "watch_items"}
  Texts = {"a", "b"}
  Seeded = "a"
  Blank = "blank"
  Turns = {"k1"}
  Posts = {"p1"}
  Sends = {"s1", "s2", "s3"}
  hello = hello
  bye = bye
  Contents = {hello, bye}
  MaxAttempts = 3
  MaxNow = 1
  Classes = {"low", "high"}
  Budget <- MCBudget
  UsedCounts = {0, 1, 3}
  ChatThreads = {"t1","t2","t3"}
  ThreadsAtFirst = {"t1","t2"}
  TurnScripts <- MCTurnScripts
  PageBudgets <- MCPageBudgets
  MessageHeights <- MCMessageHeights
  EstimatedHeight = 2
  Overscan = 1
  Viewport = 3
  BottomThreshold = 1
  Shells = {"a","b","x"}
  Checkouts <- MCCheckouts
  Tables <- MCSchemaTables
  SeedTables <- MCSeedTables
  ScriptsOf <- MCScriptsOf
  AbortsOf <- MCAbortsOf
  MaxScripts = 4
  Watchers = {"ann", "bob"}
  WatchSubjects = {"x", "y"}
  ListIds = {"l1"}
  DefaultOf <- MCDefaultOf
  MaxWatchCalls = 3
  MaxWatchSignIns = 2
  FolioUsers = {"ann", "bob"}
  FolioIds = {"p1"}
  HoldingIds = {"h1"}
  FolioSubjects = {"x", "theme"}
  HoldingKinds = {"instrument", "listing"}
  KindOf <- MCKindOf
  FolioCalls = {"b1"}
  OverlayRequests <- MCOverlayRequests
  DerivedLists <- MCDerivedLists
  DerivedScreens <- MCDerivedScreens
  DerivedAgents <- MCDerivedAgents
  Universes <- MCUniverses
  MaxUniverseEdits = 1
  UniversesAtFirst <- MCUniversesAtFirst
  HomeUsers = {"ann", "bob"}
  HomeFindings <- MCHomeFindings
  FeedKinds = {"issuer", "listing"}
  HomeAgents <- MCHomeAgents
  CandidateLimit = 3
  CardLimit = 2
  HomeWindow = 0
  HomeListings = {"x", "y"}
  PulseListings <- MCPulseListings
  MoversLimit = 1
  Moves = {2}
  IdRank <- MCIdRank
  MaxDay = 1
  MaxHomeVisits = 1
  MaxHomeChanges = 2
  DesksAtFirst <- MCDesksAtFirst
  EnvNameOf <- MCEnvNameOf
  Tabs = {"t1", "t2"}
  AccessAtFirst <- MCAccess
  Composers = {"turn"}
  LlmFilesAtFirst <- MCFilesAtFirst
  HandEdits <- MCHandEdits
  TypedNames = {"", "deepseek."}
  TypedKeys = {"", "kn"}
  ModelReplies <- MCModelReplies
  ModelListings <- MCModelListings
  AnalystBlocks <- MCBlocks
  OpsOf <- MCOpsOf
  LlmBudgets <- MCBudgets
  Authors = {"ann", "ben"}
  MemoCalls = {"m1", "m2"}
  MemoIds = {1, 2, 3}
  MemosAtFirst <- MCMemosAtFirst
  PageLimit = 1
  TicksPerMs = 2
  MaxMoment = 3
  MaxTemplates = 2
  MaxVersion = 2
  MaxDrafts = 3
  FundIssuers = {"acme", "torn", "sharing", "abroad", "uncharted"}
  CikOf <- MCCikOf
  HasFetcher = TRUE
  MetricClasses <- MCMetricClasses
  Payloads <- MCPayloads
  NewPayloadsOf <- MCNewPayloadsOf
  FailedFetches = {404, 429}
  HeldAtFirst <- MCHeldAtFirst
  FundCalls = {"q1", "q2"}
  FundAsksOf <- MCFundAsksOf
  WithdrawnMetrics = {"eps_diluted"}
  MaxFundFaults = 1
  DetailIssuers = {"apple", "fresh"}
  HasSidecar = TRUE
  RowsAtFirst <- MCRowsAtFirst
  NewListings = {"l0"}
  CikOfIssuer <- MCCikOfIssuer
  SidecarReplies <- MCSidecarReplies
  DetailCalls = {"d1", "d2", "d3"}
  DetailAsksOf <- MCDetailAsksOf
  MaxDetailFaults = 1
INVARIANTS
  TypeOK
  NoSilentGap
  OneWinner
  AnsweredFromItsSeal
  WithinBudget
  HistoryComplete
PROPERTIES
  StreamCatchesUp
  FixedOnceApproved
CHECK_DEADLOCK FALSE
