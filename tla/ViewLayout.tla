----------------------------- MODULE ViewLayout -----------------------------
(***************************************************************************)
(* What is shown and which view has the focus, and how the four layout       *)
(* actions change it (viewer-host/src/controller.rs, reduce_layout_action).  *)
(* The split ratio is left out.                                             *)
(***************************************************************************)

Modes == {"Map", "Pov", "Split"}
Views == {"Map", "Pov"}
Layouts == [mode : Modes, focused : Views]

LayoutCommands == [do : {"SetPresentation"}, to : Modes]
                    \cup [do : {"FocusView"}, to : Views]
                    \cup [do : {"TogglePrimaryView"}, to : {"Map"}]

MapLayout == [mode |-> "Map", focused |-> "Map"]
OtherView(view) == IF view = "Map" THEN "Pov" ELSE "Map"

IsVisible(shown, view) == shown.mode = "Split" \/ shown.mode = view

\* The view that input goes to.
ActiveView(shown) == IF shown.mode = "Split" THEN shown.focused ELSE shown.mode

Present(shown, able, requested) ==
  LET mode == IF able THEN requested ELSE "Map"
  IN  [mode |-> mode, focused |-> IF mode = "Split" THEN shown.focused ELSE mode]

Reduce(shown, able, c) ==
  CASE c.do = "SetPresentation" -> Present(shown, able, c.to)
    [] c.do = "TogglePrimaryView" /\ shown.mode = "Split" ->
         [shown EXCEPT !.focused = OtherView(@)]
    [] c.do = "TogglePrimaryView" /\ shown.mode # "Split" ->
         Present(shown, able, OtherView(shown.mode))
    [] c.do = "FocusView" /\ IsVisible(shown, c.to) -> [shown EXCEPT !.focused = c.to]
    [] OTHER -> shown
=============================================================================
