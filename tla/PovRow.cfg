SPECIFICATION FairSpec
CONSTANTS
  Keys = {k1, k2}
  None = None
  InitialKeys = {None, k1, k2}
  Population <- Row2
  Regions <- Row2
  Cameras <- RowCameras
  RegionSize = 4
  Radius = 0
  UploadsPerFrame = 1
  ChunkSlack = 0
  Inline = FALSE
  MaxJobs = 2
  MaxChanges = 3
INVARIANTS
  ResidentIsDrawn
  OrganismsStand
  HoverIsFresh
PROPERTIES
  Settles
