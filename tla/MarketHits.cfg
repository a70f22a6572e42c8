SPECIFICATION MarketAlone
CONSTANTS
  Asks = {"a1", "a2"}
  Failing = {"a1"}
  MarketQueriesOf <- MCMarketQueriesOf
  Listings = {"l1"}
  Zone <- MCZone
  Realtime <- MCRealtime
  Dailies <- MCDailies
  Replies <- MCReplies
  Ttl = 1
  DayLength = 2
  SeriesMax = 1
  MaxClock = 2
  Requests = {"r1", "r2"}
  InputsOf <- MCUnreadInputs
  Ids = {"n1"}
  Tools = {"t1"}
  LogRows <- MCLogRows
  Queries <- MCQueries
  Asks = {"a1", "a2"}
  Failing = {"a1"}
  MarketQueriesOf <- MCMarketQueriesOf
  Listings = {"l1"}
  Zone <- MCZone
  Realtime <- MCRealtime
  Dailies <- MCDailies
  Replies <- MCReplies
  Ttl = 1
  DayLength = 2
  SeriesMax = 1
  MaxClock = 2
  PolygonRows <- MCClassRows
  DirectoryRows <- MCNoRows
  FigiRecords <- MCNoRows
  LeiRecords <- MCNoRows
  SidecarRows <- MCNoRows
  GleifPage = 5
  Finders = {"q1"}
  SubjectQueries <- MCClassQueries
  Seeded0 <- MCNothing
  LegacyListing <- MCLegacyListing
  RefTables <- MCRefTables
  PulseTickers = {}
  VenueCompany <- MCClassVenues
  NameCompany <- MCClassNames
  MaxIssuers = 4
  MaxStartups = 1
  MaxAsked = 2
  PolygonRows <- MCClassRows
  DirectoryRows <- MCNoRows
  FigiRecords <- MCNoRows
  LeiRecords <- MCNoRows
  SidecarRows <- MCNoRows
  GleifPage = 5
  Finders = {"q1"}
  SubjectQueries <- MCClassQueries
  Seeded0 <- MCNothing
  LegacyListing <- MCLegacyListing
  RefTables <- MCRefTables
  PulseTickers = {}
  VenueCompany <- MCClassVenues
  NameCompany <- MCClassNames
  MaxIssuers = 4
  MaxStartups = 1
  MaxAsked = 2
CHECK_DEADLOCK FALSE
INVARIANT HitsAreCurrent
