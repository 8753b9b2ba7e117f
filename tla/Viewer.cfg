SPECIFICATION Spec
CONSTANTS
  Places <- Line
  Regions <- TwoRegions
  RegionOf <- Region
  Commands <- SomeCommands
  None = None
  Spacing = 1
  MaxNodes = 2
  MaxCommands = 3
  MaxLosses = 1
  MaxFaults = 1
INVARIANTS
  EveryRequestIsAnswered
  MapMirrorsVault
  RouteWasTravelled
  PovIsBacked
  CameraIsTraveler
PROPERTIES
  PreviewIsExact
