SPECIFICATION Spec
CONSTANTS
  Names = {"A", "B", "F", "J", "N", "P"}
  Noise = {"N"}
  MapNoise = {"N"}
  FrameNames = {"F"}
  LocalOffices = {"council"}
  Cutoff = 10
  Day = 1
  RecentLimit = 2
  MaxRows = 3
  MaxNow = 6
  Limit = 2
  NameOrder <- MCNameOrder
  TitleOrder <- MCTitleOrder
  RegionOrder <- MCRegionOrder
  MatchupOrder <- MCMatchupOrder
  Sido <- MCSido
  Polls <- MCPolls
  Families <- MCFamilies
INVARIANTS
  SummaryFollowsPolicy
  SpreadIsTheGap
  MapStandsForTheRegion
  IncumbentsOnlyWithoutPoll
  NoCandidateTwice
PROPERTIES
  QualityOnlyAges
  RicherPollStays
CHECK_DEADLOCK FALSE
