--------------------------- MODULE FileStorageMC ---------------------------
(***************************************************************************)
(* FileStorage on small directory trees.                                    *)
(***************************************************************************)
EXTENDS FileStorage

\* top / base / inner / root / a namespace: the store's root is made below directories
\* that may exist or not, but below one that does.
DeepDirs == {"top", "base", "inner", "root", "disc"}
DeepParent == [d \in DeepDirs |->
  CASE d = "top" -> "top" [] d = "base" -> "top" [] d = "inner" -> "base"
    [] d = "root" -> "inner" [] OTHER -> "root"]
DeepPath == [d \in DeepDirs |->
  CASE d = "top" -> {"top"} [] d = "base" -> {"top", "base"}
    [] d = "inner" -> {"top", "base", "inner"}
    [] d = "root" -> {"top", "base", "inner", "root"}
    [] OTHER -> {"top", "base", "inner", "root", d}]
DeepStarts == {{"top", "base"}, {"top", "base", "inner", "root"}}

\* top / inner / root / namespaces, with nothing but the top: a relative store path of
\* two components, or a directory of "/".
ShallowDirs == {"top", "inner", "root", "disc", "meta"}
ShallowParent == [d \in ShallowDirs |->
  CASE d = "top" -> "top" [] d = "inner" -> "top" [] d = "root" -> "inner" [] OTHER -> "root"]
ShallowPath == [d \in ShallowDirs |->
  CASE d = "top" -> {"top"} [] d = "inner" -> {"top", "inner"}
    [] d = "root" -> {"top", "inner", "root"} [] OTHER -> {"top", "inner", "root", d}]
ShallowStarts == {{"top"}}

\* Two records of one namespace, so that a barrier for one reaches the other.
OneNamespace == [k \in {"disc/1", "disc/2"} |-> "disc"]

\* A record and the store header, each in a namespace of its own.
TwoNamespaces == [k \in {"disc/1", "meta/store"} |-> IF k = "disc/1" THEN "disc" ELSE "meta"]
=============================================================================
