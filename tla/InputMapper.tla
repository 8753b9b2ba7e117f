---------------------------- MODULE InputMapper ----------------------------
(***************************************************************************)
(* The mapper both shells put between raw events and the controller          *)
(* (viewer-host/src/input.rs).  A mapper is a record, an event an operator   *)
(* over it that returns the mapper, the actions it queues and whether it     *)
(* took the event.  Where a pointer is, how far it moved and what is left of *)
(* a notch are left out: `look` and `wheel` say that there is something to   *)
(* consume.                                                                  *)
(***************************************************************************)
EXTENDS ViewLayout, Sequences

CONSTANT None   \* no pointer, no view

NavigationKeys == {"KeyW"}
Keys == NavigationKeys \cup {"Tab"}

\* InputContext: a layout and whether the surface has the focus.
ContextOf(shown, surface) ==
  [mode |-> shown.mode, focused |-> shown.focused, surface |-> surface]

IdleMapper ==
  [held |-> {}, drag |-> None, look |-> FALSE, wheel |-> FALSE,
   context |-> ContextOf(MapLayout, FALSE)]

Took(m, queued) == [mapper |-> m, queued |-> queued, handled |-> TRUE]
Passed(m) == [mapper |-> m, queued |-> <<>>, handled |-> FALSE]

SetContext(m, c) ==
  LET leavingPov == /\ ActiveView(m.context) = "Pov"
                    /\ ~c.surface \/ ActiveView(c) # "Pov"
  IN  IF leavingPov \/ ~c.surface
      THEN [m EXCEPT !.context = c, !.drag = None, !.look = FALSE, !.wheel = FALSE]
      ELSE [m EXCEPT !.context = c]

Cleared(m) ==
  [m EXCEPT !.held = {}, !.drag = None, !.look = FALSE, !.wheel = FALSE]

\* The bindings of the two keys: Tab toggles the view or the focus, W navigates.
Bound(key, c) ==
  IF key # "Tab" THEN <<>>
  ELSE IF c.mode = "Split" THEN <<[do |-> "FocusView", to |-> OtherView(c.focused)]>>
  ELSE <<[do |-> "TogglePrimaryView", to |-> "Map"]>>

\* `plain`: neither a repeat nor under Control, Alt or Super.
KeyPressed(m, key, plain) ==
  IF ~m.context.surface THEN Passed(m)
  ELSE Took([m EXCEPT !.held = @ \cup {key}],
            IF plain /\ key \notin m.held THEN Bound(key, m.context) ELSE <<>>)

KeyReleased(m, key) ==
  IF key \in m.held THEN Took([m EXCEPT !.held = @ \ {key}], <<>>) ELSE Passed(m)

\* `turned`, `left`: the sum of what is to be consumed is not zero.
PointerMoved(m, p, view, turned) ==
  IF ~IsVisible(m.context, view) THEN Passed(m)
  ELSE IF m.drag = None THEN Took(m, <<>>)
  ELSE IF m.drag # p \/ view # "Pov" THEN Passed(m)
  ELSE Took([m EXCEPT !.look = turned], <<>>)

ButtonPressed(m, p, button, view) ==
  IF button # "Primary" THEN Passed(m)
  ELSE Took(IF view = "Pov" /\ IsVisible(m.context, view) THEN [m EXCEPT !.drag = p] ELSE m,
            IF m.context.mode = "Split" /\ m.context.focused # view
            THEN <<[do |-> "FocusView", to |-> view]>> ELSE <<>>)

WithoutDrag(m, p) == IF m.drag = p THEN [m EXCEPT !.drag = None] ELSE m

ButtonReleased(m, p, button) ==
  IF button # "Primary" THEN Passed(m) ELSE Took(WithoutDrag(m, p), <<>>)

PointerCancelled(m, p) == Took(WithoutDrag(m, p), <<>>)

WheelTurned(m, view, left) ==
  IF ~m.context.surface \/ view # ActiveView(m.context) THEN Passed(m)
  ELSE IF view = "Map"
  THEN Took(m, IF left THEN <<[do |-> "Zoom", to |-> "Map"]>> ELSE <<>>)
  ELSE Took([m EXCEPT !.wheel = left], <<>>)

FocusChanged(m, on) ==
  LET kept == IF on THEN m ELSE Cleared(m)
  IN  Took([kept EXCEPT !.context.surface = on], <<>>)

HasContinuousInput(m) ==
  m.held \cap NavigationKeys # {} \/ m.drag # None \/ m.look \/ m.wheel

\* take_frame: what a frame samples, and the mapper it leaves.
Moves(m) == m.context.surface /\ m.held \cap NavigationKeys # {}
Steers(m) == /\ m.context.surface /\ ActiveView(m.context) = "Pov"
             /\ m.look \/ m.wheel \/ m.drag # None
Sampled(m) == [m EXCEPT !.look = FALSE, !.wheel = FALSE]
=============================================================================
