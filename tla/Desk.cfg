SPECIFICATION Spec
CONSTANTS
  Reviewers = {"ann", "ben"}
  ReviewIds = {"v1", "v2"}
  ReviewTexts = {"c0", "c1"}
  TraysAtFirst <- MCTraysAtFirst
  MaxVerdicts = 2
  MaxReviewMoves = 1
  Analysts = {"ann", "ben"}
  PagePlaybooks <- MCPagePlaybooks
  PageTemplates <- MCPageTemplates
  BaseCategories = {"news"}
  RunsAtFirst <- MCRunsAtFirst
  RunsPerPage = 1
  MaxRuns = 4
  MaxAsks = 3
  MaxFormEdits = 1
  DiffBlocks <- MCDiffBlocks
  SearchTexts = {"", "a", "acme "}
  TrimOf <- MCTrimOf
  PageSubjects <- MCPageSubjects
  MatchesOf <- MCMatchesOf
  LegacyTickers = {"a", "acme"}
  MaxActs = 3
  Requests = {"r1", "r2"}
  InputsOf <- MCInputsOf
  Ids = {"n1"}
  Tools = {"t1"}
  LogRows <- MCLogRows
  Queries <- MCQueries
  Asks = {"a1", "a2"}
  Failing = {"a1"}
  MarketQueriesOf <- MCMarketQueriesOf
  Listings = {"l1"}
  Zone <- MCZone
  Realtime <- MCRealtime
  Dailies <- MCDailies
  Replies <- MCReplies
  Ttl = 1
  DayLength = 2
  SeriesMax = 1
  MaxClock = 2
  Ingesters = {"w1", "w2"}
  Ingestions <- MCIngestions
  Issuers = {"acme"}
  Hosted <- MCHosted
  Served <- MCServed
  Extracted <- MCExtracted
  MaxSources = 2
  MaxIngestFaults = 1
  Readers = {"ann", "ben"}
  Libraries <- MCLibraries
  Asking <- MCAsking
  EvidenceLimit = 2
  MaxCited = 3
  ClusterRuns = {"p1", "p2"}
  EvidenceClaims <- MCEvidenceClaims
  Batches <- MCBatches
  Fetchers = {"f1", "f2", "f3"}
  BucketCapacity = 2
  TicksPerToken = 2
  SetBack = 3
  StepAhead = 2
  MaxTicks = 6
  MaxGranted = 4
  PolygonRows <- MCPolygonRows
  DirectoryRows <- MCDirectoryRows
  FigiRecords <- MCFigiRecords
  LeiRecords <- MCLeiRecords
  SidecarRows <- MCSidecarRows
  GleifPage = 5
  Finders = {"q1", "q2"}
  SubjectQueries <- MCSubjectQueries
  Seeded0 <- MCSeeded0
  LegacyListing <- MCLegacyListing
  RefTables <- MCRefTables
  PulseTickers = {"ACM"}
  VenueCompany <- MCVenueCompany
  NameCompany <- MCNameCompany
  MaxIssuers = 4
  MaxStartups = 2
  MaxAsked = 2
  Registries <- MCRegistries
  PromptBundles = {"calls", "quotes"}
  Routes <- MCRoutes
  Preferred = {"none", "publish", "latest", "fetch"}
  Wired = {"fetch"}
  GateTurns = {"g1"}
  MaxDispatches = 2
  Owners = {"ann"}
  AgentsAtFirst <- MCAgentsAtFirst
  AgentNames = {"b1", "b2"}
  RuleDrafts <- MCRuleDrafts
  ClaimGroups <- MCClaimGroups
  MaxFindings = 1
  MaxFetches = 2
  MaxStaged = 1
  MaxAgentCalls = 1
  Screened <- MCScreened
  Books <- MCBooks
  UniverseChoices <- MCUniverseChoices
  RangeChoices <- MCRangeChoices
  SortChoices <- MCSortChoices
  LimitChoices = {1}
  SavedQueries <- MCSavedQueries
  MaxSearches = 3
  MaxEdits = 1
  MaxRefreshes = 1
  ScreenUsers = {"ann", "bob"}
  ScreenIds = {"s1", "s2"}
  PutIds = {"s2"}
  ScreensAtFirst <- MCScreensAtFirst
  MaxBookCalls = 3
  MaxSignIns = 2
  Actions <- MCActions
  AppRoutes = {"screener", "symbol"}
  HandledOn <- MCHandledOn
  InterruptTtl = 2
  MaxRequests = 2
  MaxReloads = 1
  MaxMoves = 4
  LastTick = 2
  ThemeLinks <- MCThemeLinks
  ThemeSpecs <- MCThemeSpecs
  ThemeRuns = {"h1", "h2"}
  InTransaction = {"h1"}
  MaxCandidates = 2
  ThemePage = 1
  SubjectRank <- MCRank
  MaxThemeTime = 1
  MaxThemeFaults = 1
  MaxHandEdits = 1
INVARIANTS
  TypeOK
  ServedAsAsked
  ExtractedOnce
  CountsMatchMembers
  GrantsWithinRefill
  ShownIsOwn
  AnswersNameOneCompany
  ReferencesKept
  GateHolds
  PanelIsOwn
  ActsOnce
PROPERTIES
  ImplementsStore
  DetailsMoveOn
  AnswersInOrder
CHECK_DEADLOCK FALSE
