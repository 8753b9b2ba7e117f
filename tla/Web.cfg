SPECIFICATION FairSpec
CONSTANTS
  Pointers = {"p1"}
  Buttons = {"Primary"}
  Toolbar <- Controls
  FailureLimit = 1
  MaxWork = 1
  MaxEvents = 4
  None = None
INVARIANTS
  HeldIsDown
  NothingWaits
PROPERTIES
  Sleeps
CHECK_DEADLOCK FALSE
