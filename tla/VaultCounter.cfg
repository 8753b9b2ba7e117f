\* A record is flushed and removed before the header follows, and the process dies.
SPECIFICATION Spec
CONSTANTS
  Discoveries = {}
  Routes = {r}
  Preserves = {}
  Chunks = {}
  Regions = {}
  Sessions = {}
  Meta = meta
  Texts = {1, 2}
  MaxSequence = 2
  MaxUsage = 1
  Absent = absent
  Bundles = {}
  MaxIssues = 1
  MaxFaults = 1
CHECK_DEADLOCK FALSE
INVARIANT CounterIsMonotonic
