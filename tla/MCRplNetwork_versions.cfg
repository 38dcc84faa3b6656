SPECIFICATION FairNetSpec
CONSTANTS
  MaxValue = 5
  CircularRegion = 2
  SequenceWindow = 2
  Node = {"r", "a"}
  NoNode = "none"
  All = "all"
  Attackers = {}
  AttackType = 1
  RootRank = 1
  MinHopRankInc = 1
  MaxRankInc = 1
  InfiniteRank = 5
  SignificantChange = 0
  DagLifetime = 1
  DisThreshold = 2
  DaoMaxRtx = 2
  LinkCosts = {1}
  LoopErrorDrop = FALSE
  DioRedundancy = FALSE
  Root = "r"
  Links <- MCPair
  Upsets = {"expiry", "repair", "reboot"}
  MaxInFlight = 1
  MaxRepairs = 2
  MaxRestarts = 1
INVARIANTS
  NetTypeOK
  NobodyAheadOfRoot
PROPERTIES
  VersionsSpread
  VersionsConverge
