------------------------- MODULE ViewerControllerMC -------------------------
(* Three places a sample apart over two regions; every kind of command.      *)
EXTENDS ViewerController

Line == -1..1
TwoRegions == {-1, 0}
Region(p) == p \div 2
SomeCommands ==
  [do : ServiceCommands \cup {"TogglePrimaryView"}, to : {"Map"}]
    \cup [do : {"SetPresentation"}, to : {"Split"}]
    \cup [do : {"FocusView"}, to : {"Pov"}]
=============================================================================
