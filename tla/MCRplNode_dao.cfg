SPECIFICATION Spec
CONSTANTS
  MaxValue = 1
  CircularRegion = 0
  SequenceWindow = 1
  Node = {"n", "r", "b"}
  NoNode = "none"
  All = "all"
  Attackers = {}
  AttackType = 1
  RootRank = 1
  MinHopRankInc = 1
  MaxRankInc = 1
  InfiniteRank = 5
  SignificantChange = 0
  DagLifetime = 1
  DisThreshold = 2
  DaoMaxRtx = 2
  LinkCosts = {1, 5}
  LoopErrorDrop = FALSE
  DioRedundancy = FALSE
  Self = "n"
  Dios <- MCMembershipDios
  HasRoom = {TRUE, FALSE}
  HbhRanks = {2}
  DaoStatusOk = {TRUE, FALSE}
  StartsRoot = FALSE
PROPERTIES
  DaoNamesCurrentParent
