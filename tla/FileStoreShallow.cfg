SPECIFICATION Spec
CONSTANTS
  Top = "top"
  Root = "root"
  Dirs <- ShallowDirs
  Parent <- ShallowParent
  Path <- ShallowPath
  Starts <- ShallowStarts
  Keys = {"disc/1", "meta/store"}
  DirOf <- TwoNamespaces
  Values = {v1, v2}
  Absent = Absent
  Torn = Torn
INVARIANTS
  AncestorsAreDurable
