SPECIFICATION FairSpec
CONSTANTS
  Keys = {k1}
  None = None
  InitialKeys = {k1}
  Population = {}
  Regions <- StripRegions
  Cameras <- StripCameras
  RegionSize = 4
  Radius = 1
  UploadsPerFrame = 4
  ChunkSlack = 8
  Inline = TRUE
  MaxJobs = 1
  MaxChanges = 2
PROPERTIES Settles
