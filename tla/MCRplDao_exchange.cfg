SPECIFICATION FairDaoSpec
CONSTANTS
  MaxValue = 2
  CircularRegion = 1
  SequenceWindow = 1
  Node = {"n", "r"}
  NoNode = "none"
  All = "all"
  Attackers = {}
  AttackType = 1
  RootRank = 1
  MinHopRankInc = 1
  MaxRankInc = 1
  InfiniteRank = 5
  SignificantChange = 0
  DagLifetime = 1
  DisThreshold = 2
  DaoMaxRtx = 2
  LinkCosts = {1}
  LoopErrorDrop = FALSE
  DioRedundancy = FALSE
  Self = "n"
  Dios <- MCDaoParentDios
  HasRoom = {TRUE}
  HbhRanks = {1}
  DaoStatusOk = {TRUE}
  StartsRoot = FALSE
  MaxInFlight = 1
  RootHasRoom = {TRUE, FALSE}
INVARIANTS
  DaoTypeOK
PROPERTIES
  NodeIsRplNode
  RouteIsRefreshed
