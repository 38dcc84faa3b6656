SPECIFICATION Spec
CONSTANTS
  MaxValue = 5
  CircularRegion = 2
  SequenceWindow = 2
  Node = {"n", "r"}
  NoNode = "none"
  All = "all"
  Attackers = {}
  AttackType = 1
  RootRank = 1
  MinHopRankInc = 1
  MaxRankInc = 1
  InfiniteRank = 5
  SignificantChange = 1
  DagLifetime = 2
  DisThreshold = 2
  DaoMaxRtx = 2
  LinkCosts = {1, 5}
  LoopErrorDrop = FALSE
  DioRedundancy = FALSE
  Self = "n"
  Dios <- MCRepairDios
  HasRoom = {TRUE}
  HbhRanks = {}
  DaoStatusOk = {}
  StartsRoot = TRUE
INVARIANTS
  RankIncreaseIsBounded
  RootStaysRoot
PROPERTIES
  VersionOnlyAdvances
