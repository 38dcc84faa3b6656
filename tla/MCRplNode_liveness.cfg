SPECIFICATION FairSpec
CONSTANTS
  MaxValue = 2
  CircularRegion = 1
  SequenceWindow = 1
  Node = {"n", "r", "b"}
  NoNode = "none"
  All = "all"
  Attackers = {"n"}
  AttackType = 4
  RootRank = 1
  MinHopRankInc = 1
  MaxRankInc = 1
  InfiniteRank = 5
  SignificantChange = 0
  DagLifetime = 1
  DisThreshold = 2
  DaoMaxRtx = 2
  LinkCosts = {1, 5}
  LoopErrorDrop = FALSE
  DioRedundancy = FALSE
  Self = "n"
  Dios <- MCLivenessDios
  HasRoom = {TRUE}
  HbhRanks = {}
  DaoStatusOk = {TRUE, FALSE}
  StartsRoot = FALSE
PROPERTIES
  OrphanIsResolved
  SwitchIsReported
