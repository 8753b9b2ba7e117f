SPECIFICATION FairSpec
CONSTANTS
  Keys = {k1}
  None = None
  InitialKeys = {k1}
  Population = {}
  Regions <- RingRegions
  Cameras <- RingCameras
  RegionSize = 256
  Radius = 3
  UploadsPerFrame = 4
  ChunkSlack = 8
  Inline = TRUE
  MaxJobs = 1
  MaxChanges = 1
PROPERTIES IdleHasSettled
