SPECIFICATION Spec
CONSTANTS
  p1 = p1
  p2 = p2
  t1 = t1
  t2 = t2
  t3 = t3
  Guards = {t1, t2}
  Subjects = {"s"}
  Decisions = {"approved"}
  PageSize = 1
  MappingErrors = {"s"}
  Window = 0
  MaxRows = 3
  MaxTime = 1
  Servers = {p1, p2}
  Requests = {t1, t2, t3}
  ServedBy <- MCServedBy
  NoRequest = NoRequest
  AutoApply = TRUE
  MaxFailures = 2
  MaxStops = 1
  MaxDowngrades = 2
  Callers = {t1, t2, t3}
  Interval = 2
  MaxRetries = 1
  CacheTtl = 1
  LastPage = 2
  MaxClock = 5
  MaxRequests = 5
  RegionCodes = {"sido", "sigungu"}
  LocalRegions = {"sigungu"}
  OfficeTypes = {"mayor", "local", "by"}
  MetroOffices = {"mayor"}
  LocalOfficeTypes = {"local"}
  ByElections = {"by"}
  MatchupIds = {"m1", "m2"}
  Subject <- MCSubject
  Merged <- MCMerged
  PollKeys = {"k1", "k2"}
  Syncs = {"y1"}
  NoMatchup = NoMatchup
  MaxDay = 1
  MaxChanges = 2
  Profiles <- MCProfiles
  Registry <- MCRegistry
  TypeCodes <- MCTypeCodes
  ReaderCode = "reader"
  MaxIngests = 3
  MaxRuns = 3
  MaxFaults = 1
  Ingesters = {p1, p2}
  Names = {"name", "unlisted", "noise"}
  Noise = {"noise"}
  Tolerance = 1
  Provinces = {1, 2}
  ScenarioCases <- MCScenarioCases
  ScopeCases <- MCScopeCases
  OptionCases <- MCOptionCases
  YearLength = 4
  ThisYear = 2
  Signals <- MCSignals
  CertainFrom = 80
  Penalty = 25
  LeastSure = 35
  Register <- MCRegister
  Findings <- MCFindings
  Pages <- MCPages
  Summary <- MCSummary
  Policies = {"strict_fail", "allow_estimated_timestamp"}
  FeedLimit = 3
  Target = 3
  Cutoff = 3
  Focuses = {"queue", "schema", "client", "slots", "profile", "records", "collector"}
INVARIANTS
  TypeOK
  DuplicatesBounded
  PagingSkipsNothing
  OpsPageCoherent
  NeverAheadOfRate
  PageNeverHidesPoll
  SlotsFollowSync
  ScenariosSplit
  ScopeSettled
  OptionsMarked
  ProfilePageTruthful
  GapsReported
  ArticlesAccountedFor
  SurveysKeptApart
  DatesJustified
PROPERTY
  SchemaHealsEventually
CHECK_DEADLOCK FALSE
