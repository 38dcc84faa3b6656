SPECIFICATION DaoSpec
CONSTANTS
  MaxValue = 5
  CircularRegion = 2
  SequenceWindow = 2
  Node = {"n", "r", "b"}
  NoNode = "none"
  All = "all"
  Attackers = {}
  AttackType = 1
  RootRank = 1
  MinHopRankInc = 1
  MaxRankInc = 1
  InfiniteRank = 5
  SignificantChange = 0
  DagLifetime = 1
  DisThreshold = 2
  DaoMaxRtx = 3
  LinkCosts = {1}
  LoopErrorDrop = FALSE
  DioRedundancy = FALSE
  Self = "n"
  Dios <- MCDaoParentDios
  HasRoom = {TRUE}
  HbhRanks = {}
  DaoStatusOk = {TRUE}
  StartsRoot = FALSE
  MaxInFlight = 1
  RootHasRoom = {TRUE}
PROPERTIES
  ReachableMeansNoted
