SPECIFICATION FairSpec
CONSTANTS
  Workers = {w1, w2, w3}
  Submitters = {s1, s2}
  Jobs = {j1, j2, j3, j4}
  NoJob = NoJob
INVARIANTS
  NoLostWakeup
  DroppedIsQuiet
PROPERTIES
  SubmittedEnds
  DropReturns
CHECK_DEADLOCK FALSE
