SPECIFICATION Spec
CONSTANTS
  Coords = {0}
  Players = {0, 1, 9}
  Macros <- MCMacros
  MacroOf <- MCMacroOf
  Neighbours <- MCNeighbours
  Distance <- MCDistance
  MacroDistance <- MCMacroDistance
  NearRadius = 0
  LoadRadius = 1
  UnloadRadius = 1
  Layers = {0, 1, 2}
  TERRAIN = 0
  DRAINAGE = 1
  HYDROLOGY = 2
  Deps <- MCDeps
  Reads <- MCReads
  CostOf <- MCCostOf
  Closure <- MCClosure
  Upstream <- MCUpstream
  Domains = {"P", "H"}
  SlowDomains = {"P"}
  Buckets = {0, 1}
  Recipes = {0}
  CellRegions <- MCCellRegions
  Sample <- MCSample
  Steerings = {0}
  NoSteering = 9
  TargetFor <- MCTargetFor
  Sessions = {{}}
  Restored <- MCRestored
  PreserveIds = {1, 2}
  Signature <- MCSignature
  MaxLoads = 2
  MaxRetarget = 2
  MaxConverge = 2
  MaxRegenCost = 8
  MaxFields = 0
  MaxMacros = 1
  Workers = 1
  WorkerPoints = {"idle"}
  Cancellation = TRUE
  MaxOps = 3
  MaxRevision = 1
  Panics = FALSE
INVARIANTS
  StaleIsScheduled
  LowestPreserveWins
  ParkedOwnsNothing
PROPERTIES
  PinnedStandsStill
