SPECIFICATION FairSpec
CONSTANTS
  Coords = {0, 1}
  Players = {0, 9}
  Macros <- MCMacros
  MacroOf <- MCMacroOf
  Neighbours <- MCNeighbours
  Distance <- MCDistance
  MacroDistance <- MCMacroDistance
  NearRadius = 0
  LoadRadius = 1
  UnloadRadius = 1
  Layers = {0, 1, 2}
  TERRAIN = 0
  DRAINAGE = 1
  HYDROLOGY = 2
  Deps <- MCDeps
  Reads <- MCReads
  CostOf <- MCCostOf
  Closure <- MCClosure
  Upstream <- MCUpstream
  Domains = {"P", "H"}
  SlowDomains = {"P"}
  Buckets = {0, 1}
  Recipes = {0}
  CellRegions <- MCCellRegions
  Sample <- MCSample
  Steerings = {0, 1}
  NoSteering = 9
  TargetFor <- MCTargetFor
  Sessions = {{1}}
  Restored <- MCRestored
  PreserveIds = {}
  Signature <- MCSignature
  MaxLoads = 2
  MaxRetarget = 2
  MaxConverge = 2
  MaxRegenCost = 8
  MaxFields = 1
  MaxMacros = 0
  Workers = 1
  WorkerPoints = {"idle", "integrate", "evict", "load", "retarget", "converge", "dispatch", "pass", "final"}
  Cancellation = TRUE
  MaxOps = 1
  MaxRevision = 0
  Panics = TRUE
INVARIANTS
  ReadyIsCanonical
  ProvenanceHonest
PROPERTIES
  PublishIsCurrent
  ImplementsCanonicalTiles
  Settles
