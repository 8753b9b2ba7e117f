SPECIFICATION Spec
CONSTANTS
  Top = "top"
  Root = "root"
  Dirs <- DeepDirs
  Parent <- DeepParent
  Path <- DeepPath
  Starts <- DeepStarts
  Keys = {"disc/1", "disc/2"}
  DirOf <- OneNamespace
  Values = {v1, v2}
  Absent = Absent
  Torn = Torn
INVARIANTS
  AncestorsAreDurable
PROPERTIES
  ImplementsStorage
