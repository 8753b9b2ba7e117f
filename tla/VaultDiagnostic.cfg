\* A failing store beside a removal that fails and then succeeds.
SPECIFICATION Spec
CONSTANTS
  Discoveries = {}
  Routes = {r}
  Preserves = {p}
  Chunks = {}
  Regions = {}
  Sessions = {}
  Meta = meta
  Texts = {1}
  MaxSequence = 2
  MaxUsage = 1
  Absent = absent
  Bundles = {}
  MaxIssues = 1
  MaxFaults = 2
CHECK_DEADLOCK FALSE
INVARIANT FailureIsActive
