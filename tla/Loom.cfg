SPECIFICATION Spec
CONSTANTS
  Atoms = 4
  MassOne = 4
  MaterialTotal = 2
  TraitCapacity = 2
  RewriteLength = 2
  BirthDeathCost = 1
  Intents <- Plans
  Start <- AllInOne
  Distances = {0, 1, 3}
  MaxCredit = 12
  None = None
  MaxTravel = 12
INVARIANTS
  RouteIsExact
  TravelIsAccounted
  CadenceIsIrrelevant
CHECK_DEADLOCK FALSE
