\* A route that is recorded, used, removed, imported and recorded again beside the
\* discovered regions and the session, under failing calls, crashes and power losses.
SPECIFICATION FairSpec
CONSTANTS
  Discoveries = {}
  Routes = {r}
  Preserves = {}
  Chunks = {c}
  Regions = {1}
  Sessions = {s}
  Meta = meta
  Texts = {1, 2}
  MaxSequence = 2
  MaxUsage = 1
  Absent = absent
  Bundles <- PeerBundles
  MaxIssues = 1
  MaxFaults = 2
INVARIANTS
  DirtyCoversDisk
  DataPrecedesHeader
  AcknowledgedSurvives
  NoResurrection
PROPERTIES
  EditShows
  Drains
CHECK_DEADLOCK FALSE
