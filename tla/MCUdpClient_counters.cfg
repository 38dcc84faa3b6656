SPECIFICATION ClientSpec
CONSTANTS
  MaxValue = 1
  CircularRegion = 0
  SequenceWindow = 1
  Node = {"n", "r"}
  NoNode = "none"
  All = "all"
  Attackers = {"n"}
  AttackType = 8
  RootRank = 1
  MinHopRankInc = 1
  MaxRankInc = 1
  InfiniteRank = 5
  SignificantChange = 1
  DagLifetime = 1
  DisThreshold = 1
  DaoMaxRtx = 2
  LinkCosts = {1}
  LoopErrorDrop = FALSE
  DioRedundancy = FALSE
  Self = "n"
  Dios <- MCClientDios
  HasRoom = {TRUE}
  HbhRanks = {}
  DaoStatusOk = {TRUE}
  StartsRoot = FALSE
  MaxPeriods = 2
  MaxInFlight = 1
INVARIANTS
  ClientTypeOK
  RepliesAnswerRequests
  CountedChangesHappened
PROPERTIES
  FeaturesOfMember
