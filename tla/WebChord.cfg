SPECIFICATION Spec
CONSTANTS
  Pointers = {"p1"}
  Buttons = {"Primary", "Secondary"}
  Toolbar <- Controls
  FailureLimit = 1
  MaxWork = 1
  MaxEvents = 4
  None = None
INVARIANTS
  HeldIsDown
CHECK_DEADLOCK FALSE
