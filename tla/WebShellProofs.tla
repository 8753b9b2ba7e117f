--------------------------- MODULE WebShellProofs ---------------------------
(***************************************************************************)
(* Theorems about WebShell for any pointers, buttons, controls and bounds:   *)
(* a key the mapper holds is down, and so is the primary button of a drag if *)
(* no other button can hide its release; the loop sleeps when all is done.     *)
(***************************************************************************)
EXTENDS WebShell, FiniteSetTheorems, SequenceTheorems, WellFoundedInduction, TLAPS

(* The mapper.  Its operators are records with fields replaced.            *)

Fields == {"held", "drag", "look", "wheel", "context"}
IsMapper(m) == m = [field \in Fields |-> m[field]]

\* n holds nothing that m does not hold.
Calmer(m, n) ==
  /\ IsMapper(n) /\ n.held \subseteq m.held /\ n.drag \in {m.drag, None}
  /\ (n.look => m.look) /\ (n.wheel => m.wheel)

LEMMA CalmerIsAPreorder ==
  /\ \A m : IsMapper(m) => Calmer(m, m)
  /\ \A l, m, n : Calmer(l, m) /\ Calmer(m, n) => Calmer(l, n)
BY DEF Calmer

\* A change of context takes at most the drag, and tells the surface's focus.
LEMMA SetContextCalms ==
  ASSUME NEW m, IsMapper(m), NEW c
  PROVE  /\ Calmer(m, SetContext(m, c)) /\ SetContext(m, c).held = m.held
         /\ SetContext(m, c).context = c
BY DEF SetContext, Calmer, IsMapper, Fields

LEMMA ClearedHoldsNothing ==
  ASSUME NEW m, IsMapper(m)
  PROVE  /\ Calmer(m, Cleared(m)) /\ Cleared(m).held = {} /\ Cleared(m).drag = None
BY DEF Cleared, Calmer, IsMapper, Fields

LEMMA SampledHoldsTheSame ==
  ASSUME NEW m, IsMapper(m)
  PROVE  Calmer(m, Sampled(m)) /\ Sampled(m).held = m.held /\ Sampled(m).drag = m.drag
BY DEF Sampled, Calmer, IsMapper, Fields

\* Only a key on a focused surface is held.
LEMMA KeyPressedHolds ==
  ASSUME NEW m, IsMapper(m), NEW key, NEW plain
  PROVE  LET n == KeyPressed(m, key, plain).mapper
         IN  /\ IsMapper(n) /\ n.drag = m.drag
             /\ n.held \subseteq m.held \cup {key}
             /\ ~m.context.surface => n.held = m.held
BY DEF KeyPressed, Took, Passed, IsMapper, Fields

LEMMA KeyReleasedDrops ==
  ASSUME NEW m, IsMapper(m), NEW key
  PROVE  LET n == KeyReleased(m, key).mapper
         IN  IsMapper(n) /\ n.drag = m.drag /\ n.held = m.held \ {key}
BY DEF KeyReleased, Took, Passed, IsMapper, Fields

\* Of the pointer events only a press starts a drag, and it is the pointer's own.
LEMMA PointerMovedKeeps ==
  ASSUME NEW m, IsMapper(m), NEW p, NEW view, NEW turned
  PROVE  LET n == PointerMoved(m, p, view, turned).mapper
         IN  IsMapper(n) /\ n.drag = m.drag /\ n.held = m.held
BY DEF PointerMoved, Took, Passed, IsMapper, Fields

LEMMA ButtonPressedDrags ==
  ASSUME NEW m, IsMapper(m), NEW p, NEW button, NEW view
  PROVE  LET r == ButtonPressed(m, p, button, view)
         IN  /\ IsMapper(r.mapper) /\ r.mapper.held = m.held
             /\ r.handled = (button = "Primary")
             /\ r.mapper.drag \in {m.drag, p}
             /\ button # "Primary" => r.mapper.drag = m.drag
BY DEF ButtonPressed, Took, Passed, IsMapper, Fields

LEMMA ButtonReleasedDrops ==
  ASSUME NEW m, IsMapper(m), NEW p, p # None, NEW button
  PROVE  LET n == ButtonReleased(m, p, button).mapper
         IN  /\ Calmer(m, n) /\ n.held = m.held
             /\ button = "Primary" => n.drag # p
BY DEF ButtonReleased, WithoutDrag, Took, Passed, Calmer, IsMapper, Fields

LEMMA PointerCancelledDrops ==
  ASSUME NEW m, IsMapper(m), NEW p, p # None
  PROVE  LET n == PointerCancelled(m, p).mapper
         IN  Calmer(m, n) /\ n.held = m.held /\ n.drag # p
BY DEF PointerCancelled, WithoutDrag, Took, Calmer, IsMapper, Fields

LEMMA WheelTurnedKeeps ==
  ASSUME NEW m, IsMapper(m), NEW view, NEW left
  PROVE  LET n == WheelTurned(m, view, left).mapper
         IN  IsMapper(n) /\ n.drag = m.drag /\ n.held = m.held
BY DEF WheelTurned, Took, Passed, IsMapper, Fields

LEMMA FocusChangedCalms ==
  ASSUME NEW m, IsMapper(m), NEW on \in BOOLEAN
  PROVE  LET n == FocusChanged(m, on).mapper
         IN  Calmer(m, n) /\ (~on => n.held = {} /\ n.drag = None)
<1>1. DEFINE kept == IF on THEN m ELSE Cleared(m)
<1>2. Calmer(m, kept) /\ (~on => kept.held = {} /\ kept.drag = None)
  BY ClearedHoldsNothing DEF Calmer
<1>3. \A c : LET n == [kept EXCEPT !.context = c]
             IN  IsMapper(n) /\ n.held = kept.held /\ n.drag = kept.drag
  <2> HIDE DEF kept
  <2> QED BY <1>2 DEF Calmer, IsMapper, Fields
<1>4. FocusChanged(m, on).mapper = [kept EXCEPT !.context.surface = on]
  BY DEF FocusChanged, Took
<1> QED BY <1>2, <1>3, <1>4 DEF Calmer
-----------------------------------------------------------------------------
(* Keys.  The surface has the focus only while the page has it, and nothing *)
(* is held without: a release that does not come here finds nothing held.   *)

KeyInv ==
  /\ IsMapper(mapper) /\ mapper.held \subseteq keysDown
  /\ surfaceFocused => windowFocused /\ element = "surface"
  /\ mapper.held # {} => surfaceFocused

LEMMA RoutedCalms ==
  ASSUME IsMapper(mapper)
  PROVE  /\ Calmer(mapper, Routed) /\ Routed.held = mapper.held
         /\ Routed.context.surface = surfaceFocused
<1>1. Context(surfaceFocused).surface = surfaceFocused
  BY DEF Context, ContextOf
<1> QED BY <1>1, SetContextCalms DEF Routed

\* What a frame leaves of the mapper.
LEMMA FrameCalms ==
  ASSUME IsMapper(mapper), NEW ticked, NEW changed, NEW working,
         Frame(Attempt(ticked), changed, working)
  PROVE  Calmer(mapper, mapper')
<1> DEFINE f == Attempt(ticked)
           kept == IF Noticed THEN Cleared(mapper) ELSE mapper
           c == ContextOf(ticked.layout, surfaceFocused)
<1>1. mapper' = EndMapper(f)
  BY DEF Frame
<1>2. f.mapper = SetContext(kept, c)
  BY DEF Attempt
<1>3. Calmer(mapper, kept)
  BY ClearedHoldsNothing DEF Calmer
<1>4. Calmer(mapper, f.mapper)
  <2> HIDE DEF kept, c, f
  <2> QED BY <1>2, <1>3, SetContextCalms DEF Calmer
<1> HIDE DEF kept, c, f
<1>5. Calmer(mapper, Sampled(f.mapper))
  BY <1>4, SampledHoldsTheSame DEF Calmer
<1>6. Calmer(mapper, Cleared(Sampled(f.mapper)))
  BY <1>5, ClearedHoldsNothing DEF Calmer
<1>7. \A d : Calmer(mapper, [Cleared(Sampled(f.mapper)) EXCEPT !.context = d])
  <2>1. \A n, d : Calmer(mapper, n) => Calmer(mapper, [n EXCEPT !.context = d])
    BY DEF Calmer, IsMapper, Fields
  <2> QED BY <1>6, <2>1
<1> QED BY <1>1, <1>5, <1>7 DEF EndMapper

\* Every step but those of the keyboard and the focus.
LEMMA CalmKeepsKeyInv ==
  ASSUME KeyInv, IsMapper(mapper'), mapper'.held \subseteq mapper.held, keysDown' = keysDown,
         \/ UNCHANGED <<surfaceFocused, windowFocused, element>>
         \/ surfaceFocused' /\ windowFocused' /\ element' = "surface"
  PROVE  KeyInv'
BY DEF KeyInv

\* A pointer's handler goes through the mapper, holds no key, and leaves the focus alone.
LEMMA PointersHoldNoKey ==
  ASSUME KeyInv, NEW p \in Pointers, NEW hit, NEW button, NEW turned
  PROVE  /\ Moved(p, hit, turned) => IsMapper(mapper') /\ mapper'.held \subseteq mapper.held
         /\ Pressed(p, button, hit) => IsMapper(mapper') /\ mapper'.held \subseteq mapper.held
         /\ Released(p, button, hit) => IsMapper(mapper') /\ mapper'.held \subseteq mapper.held
         /\ CancelPointer(p) => IsMapper(mapper') /\ mapper'.held \subseteq mapper.held
<1>1. IsMapper(mapper) /\ IsMapper(Routed) /\ Routed.held = mapper.held
  BY RoutedCalms DEF KeyInv, Calmer
<1>2. p # None
  BY WebAssumption DEF WebAssumption
<1>3. ASSUME Moved(p, hit, turned)
      PROVE  IsMapper(mapper') /\ mapper'.held \subseteq mapper.held
  <2>1. \/ mapper' = mapper
        \/ \E view : mapper' = PointerMoved(Routed, p, view, turned).mapper
    BY <1>3 DEF Moved, driver, Handle
  <2> QED BY <1>1, <2>1, PointerMovedKeeps
<1>4. ASSUME Pressed(p, button, hit)
      PROVE  IsMapper(mapper') /\ mapper'.held \subseteq mapper.held
  <2> DEFINE m == IF element # "surface" THEN SetContext(mapper, Context(TRUE)) ELSE mapper
             n == SetContext(m, Context(TRUE))
  <2>1. IsMapper(m) /\ m.held = mapper.held
    BY <1>1, SetContextCalms DEF Calmer
  <2>2. mapper' = m \/ mapper' = ButtonPressed(n, p, button, hit).mapper
    BY <1>4 DEF Pressed
  <2> HIDE DEF m
  <2>3. IsMapper(n) /\ n.held = m.held
    BY <2>1, SetContextCalms DEF Calmer
  <2> HIDE DEF n
  <2> QED BY <2>1, <2>2, <2>3, ButtonPressedDrags
<1>5. ASSUME Released(p, button, hit)
      PROVE  IsMapper(mapper') /\ mapper'.held \subseteq mapper.held
  <2>1. mapper' = mapper \/ mapper' = ButtonReleased(Routed, p, button).mapper
    BY <1>5 DEF Released, driver, Handle
  <2>2. LET n == ButtonReleased(Routed, p, button).mapper
        IN  IsMapper(n) /\ n.held = Routed.held
    BY <1>1 DEF ButtonReleased, WithoutDrag, Took, Passed, IsMapper, Fields
  <2> QED BY <1>1, <2>1, <2>2
<1>6. ASSUME CancelPointer(p)
      PROVE  IsMapper(mapper') /\ mapper'.held \subseteq mapper.held
  <2>1. mapper' = PointerCancelled(Routed, p).mapper
    BY <1>6 DEF CancelPointer, Handle
  <2> QED BY <1>1, <1>2, <2>1, PointerCancelledDrops DEF Calmer
<1> QED BY <1>3, <1>4, <1>5, <1>6

LEMMA KeyKeepsKeyInv ==
  ASSUME KeyInv, Key
  PROVE  KeyInv'
<1>1. IsMapper(mapper) /\ IsMapper(Routed) /\ Routed.held = mapper.held
      /\ Routed.context.surface = surfaceFocused
  BY RoutedCalms DEF KeyInv, Calmer
<1>2. Heard \/ mapper.held = {}
  BY DEF KeyInv, Heard
<1>3. ASSUME NEW key \in Keys, NEW plain, keysDown' = keysDown \cup {key},
             Forward(KeyPressed(Routed, key, plain))
      PROVE  KeyInv'
  <2>1. CASE Heard
    <3>1. mapper' = KeyPressed(Routed, key, plain).mapper
      BY <1>3, <2>1 DEF Forward, Handle
    <3> QED BY <1>1, <1>3, <2>1, <3>1, KeyPressedHolds DEF KeyInv, Forward, Handle
  <2>2. CASE ~Heard
    BY <1>3, <2>2 DEF KeyInv, Forward, driver
  <2> QED BY <2>1, <2>2
<1>4. ASSUME NEW key \in Keys, KeyUp(key)
      PROVE  KeyInv'
  <2>1. CASE Heard
    <3>1. mapper' = KeyReleased(Routed, key).mapper
      BY <1>4, <2>1 DEF KeyUp, Forward, Handle
    <3> QED BY <1>1, <1>4, <2>1, <3>1, KeyReleasedDrops DEF KeyInv, KeyUp, Forward, Handle
  <2>2. CASE ~Heard
    BY <1>2, <1>4, <2>2 DEF KeyInv, KeyUp, Forward, driver
  <2> QED BY <2>1, <2>2
<1>5. ASSUME NEW key \in Keys, KeyRepeat(key)
      PROVE  KeyInv'
  <2>1. keysDown' = keysDown \cup {key}
    BY <1>5 DEF KeyRepeat
  <2> QED BY <1>3, <1>5, <2>1 DEF KeyRepeat
<1>6. ASSUME NEW key \in Keys, NEW plain, KeyDown(key, plain)
      PROVE  KeyInv'
  BY <1>3, <1>6 DEF KeyDown
<1> QED BY <1>4, <1>5, <1>6 DEF Key

\* Losing the focus lets go of every key.
LEMMA FocusKeepsKeyInv ==
  ASSUME KeyInv, Focus
  PROVE  KeyInv'
<1>1. IsMapper(mapper)
  BY DEF KeyInv
<1>2. ASSUME WindowBlur
      PROVE  KeyInv'
  <2>1. mapper' = FocusChanged(SetContext(mapper, Context(FALSE)), FALSE).mapper
    BY <1>2 DEF WindowBlur
  <2>2. IsMapper(mapper') /\ mapper'.held = {}
    BY <1>1, <2>1, SetContextCalms, FocusChangedCalms DEF Calmer
  <2> QED BY <1>2, <2>2 DEF KeyInv, WindowBlur
<1>3. ASSUME WindowFocus
      PROVE  KeyInv'
  <2> DEFINE n == SetContext(mapper, Context(element = "surface"))
  <2>1. mapper' = FocusChanged(n, TRUE).mapper
    BY <1>3 DEF WindowFocus
  <2>2. IsMapper(n) /\ n.held = mapper.held
    BY <1>1, SetContextCalms DEF Calmer
  <2> HIDE DEF n
  <2>3. IsMapper(mapper') /\ mapper'.held \subseteq mapper.held
    BY <2>1, <2>2, FocusChangedCalms DEF Calmer
  <2> QED BY <1>3, <2>3 DEF KeyInv, WindowFocus
<1>4. ASSUME NEW e, FocusElement(e)
      PROVE  KeyInv'
  <2>1. CASE "surface" \in {e, element}
    <3> DEFINE n == IF e = "surface" THEN mapper ELSE Cleared(mapper)
    <3>1. mapper' = SetContext(n, Context(e = "surface")) /\ surfaceFocused' = (e = "surface")
      BY <1>4, <2>1 DEF FocusElement, SetSurfaceFocus
    <3>2. IsMapper(n) /\ n.held \subseteq mapper.held /\ (e # "surface" => n.held = {})
      BY <1>1, ClearedHoldsNothing DEF Calmer
    <3> HIDE DEF n
    <3>3. IsMapper(mapper') /\ mapper'.held = n.held
      BY <3>1, <3>2, SetContextCalms DEF Calmer
    <3> QED BY <1>4, <3>1, <3>2, <3>3 DEF KeyInv, FocusElement
  <2>2. CASE "surface" \notin {e, element}
    BY <1>4, <2>2 DEF KeyInv, FocusElement, driver
  <2> QED BY <2>1, <2>2
<1> QED BY <1>2, <1>3, <1>4 DEF Focus

LEMMA PointerKeepsKeyInv ==
  ASSUME KeyInv, Pointer
  PROVE  KeyInv'
<1> DEFINE Calm == IsMapper(mapper') /\ mapper'.held \subseteq mapper.held
<1>1. ASSUME NEW p \in Pointers, NEW button, NEW hit, Press(p, button, hit)
      PROVE  KeyInv'
  <2>1. Calm /\ keysDown' = keysDown
    BY <1>1, PointersHoldNoKey DEF Press
  <2>2. CASE Pressed(p, button, hit)
    <3>1. surfaceFocused' /\ windowFocused' /\ element' = "surface"
      BY <1>1, <2>2 DEF Press, Pressed
    <3> QED BY <2>1, <3>1, CalmKeepsKeyInv
  <2>3. CASE \E turned : Moved(p, hit, turned) /\ UNCHANGED <<element, captured>>
    <3>1. UNCHANGED <<surfaceFocused, windowFocused, element>>
      BY <1>1, <2>3 DEF Press, Moved, driver, Handle
    <3> QED BY <2>1, <3>1, CalmKeepsKeyInv
  <2> QED BY <1>1, <2>2, <2>3 DEF Press
<1>2. ASSUME NEW p \in Pointers, NEW button, NEW hit, Release(p, button, hit)
      PROVE  KeyInv'
  <2>1. Calm /\ keysDown' = keysDown
    BY <1>2, PointersHoldNoKey DEF Release
  <2>2. UNCHANGED <<surfaceFocused, windowFocused, element>>
    BY <1>2 DEF Release, Released, Moved, driver, Handle
  <2> QED BY <2>1, <2>2, CalmKeepsKeyInv
<1>3. ASSUME NEW p \in Pointers, NEW hit, NEW turned, Move(p, hit, turned)
      PROVE  KeyInv'
  <2>1. Calm /\ keysDown' = keysDown
    BY <1>3, PointersHoldNoKey DEF Move, user
  <2>2. UNCHANGED <<surfaceFocused, windowFocused, element>>
    BY <1>3 DEF Move, Moved, driver, Handle, user
  <2> QED BY <2>1, <2>2, CalmKeepsKeyInv
<1>4. ASSUME NEW p \in Pointers, ReleaseElsewhere(p)
      PROVE  KeyInv'
  BY <1>4 DEF KeyInv, ReleaseElsewhere, driver
<1>5. ASSUME NEW p \in Pointers, CancelPointer(p)
      PROVE  KeyInv'
  <2>1. Calm /\ UNCHANGED <<keysDown, surfaceFocused, windowFocused, element>>
    BY <1>5, PointersHoldNoKey DEF CancelPointer, Handle
  <2> QED BY <2>1, CalmKeepsKeyInv
<1>6. ASSUME NEW p \in Pointers, Leave(p)
      PROVE  KeyInv'
  <2>1. p # None
    BY WebAssumption DEF WebAssumption
  <2>2. mapper' = mapper \/ mapper' = PointerCancelled(Routed, p).mapper
    BY <1>6 DEF Leave, driver, Handle
  <2>3. Calm
    BY <2>1, <2>2, RoutedCalms, PointerCancelledDrops DEF KeyInv, Calmer
  <2>4. UNCHANGED <<keysDown, surfaceFocused, windowFocused, element>>
    BY <1>6 DEF Leave, driver, Handle, user
  <2> QED BY <2>3, <2>4, CalmKeepsKeyInv
<1> QED BY <1>1, <1>2, <1>3, <1>4, <1>5, <1>6 DEF Pointer, Cancel, LoseCapture

\* Neither the page's controls nor the device touch a key; a frame at most lets go.
LEMMA OthersKeepKeyInv ==
  ASSUME KeyInv, Page \/ Device \/ AFrame
  PROVE  KeyInv'
<1>1. IsMapper(mapper)
  BY DEF KeyInv
<1>2. ASSUME NEW hit, NEW left, Wheel(hit, left)
      PROVE  KeyInv'
  <2>1. mapper' = WheelTurned(Routed, hit, left).mapper
    BY <1>2 DEF Wheel, Handle
  <2>2. IsMapper(mapper') /\ mapper'.held \subseteq mapper.held
    BY <1>1, <2>1, RoutedCalms, WheelTurnedKeeps DEF Calmer
  <2>3. UNCHANGED <<keysDown, surfaceFocused, windowFocused, element>>
    BY <1>2 DEF Wheel, Handle, user
  <2> QED BY <2>2, <2>3, CalmKeepsKeyInv
<1>3. ASSUME NEW c, Dispatch(c)
      PROVE  KeyInv'
  BY <1>3 DEF KeyInv, Dispatch, user
<1>4. CASE Resize
  BY <1>4 DEF KeyInv, Resize, user
<1>5. CASE RendererReady
  BY <1>5 DEF KeyInv, RendererReady, user
<1>6. CASE RendererFailed
  <2>1. \E c : mapper' = SetContext(Cleared(mapper), c)
    BY <1>6 DEF RendererFailed
  <2>2. IsMapper(mapper') /\ mapper'.held \subseteq mapper.held
    BY <1>1, <2>1, ClearedHoldsNothing, SetContextCalms DEF Calmer
  <2>3. UNCHANGED <<keysDown, surfaceFocused, windowFocused, element>>
    BY <1>6 DEF RendererFailed, user
  <2> QED BY <2>2, <2>3, CalmKeepsKeyInv
<1>7. CASE LoseDevice
  BY <1>7 DEF KeyInv, LoseDevice, user, driver
<1>8. ASSUME NEW s, ChangeSurface(s)
      PROVE  KeyInv'
  BY <1>8 DEF KeyInv, ChangeSurface, driver
<1>9. CASE AFrame
  <2>1. PICK ticked, changed, working : Frame(Attempt(ticked), changed, working)
    BY <1>9 DEF AFrame
  <2>2. Calmer(mapper, mapper')
    BY <1>1, <2>1, FrameCalms
  <2>3. UNCHANGED <<keysDown, surfaceFocused, windowFocused, element>>
    BY <2>1 DEF Frame
  <2> QED BY <2>2, <2>3, CalmKeepsKeyInv DEF Calmer
<1> QED BY <1>2, <1>3, <1>4, <1>5, <1>6, <1>7, <1>8, <1>9 DEF Page, Device

LEMMA KeyInvHolds == Spec => []KeyInv
<1>1. Init => KeyInv
  <2>1. \A c : IsMapper([held |-> {}, drag |-> None, look |-> FALSE, wheel |-> FALSE,
                         context |-> c])
    BY DEF IsMapper, Fields
  <2>2. IsMapper(IdleMapper) /\ IdleMapper.held = {}
    BY <2>1 DEF IdleMapper
  <2> QED BY <2>2 DEF Init, KeyInv
<1>2. KeyInv /\ [Next]_vars => KeyInv'
  <2>1. KeyInv /\ UNCHANGED vars => KeyInv'
    BY DEF KeyInv, vars, user, driver
  <2> QED BY <2>1, KeyKeepsKeyInv, FocusKeepsKeyInv, PointerKeepsKeyInv, OthersKeepKeyInv DEF Next
<1> QED BY <1>1, <1>2, PTL DEF Spec

\* A key the mapper holds is down, for any pointers, buttons and controls: a release that
\* goes to a control, to another window or to a hidden canvas leaves no key held behind.
THEOREM HeldKeysAreDown == Spec => [](mapper.held \subseteq keysDown)
<1>1. KeyInv => mapper.held \subseteq keysDown
  BY DEF KeyInv
<1> QED BY <1>1, KeyInvHolds, PTL
-----------------------------------------------------------------------------
(* The drag.  It belongs to a captured pointer, whose release comes to the  *)
(* canvas wherever it happens; that the release is heard as one needs that  *)
(* no other button is down.                                                *)

OneButton == Buttons = {"Primary"}

DragInv ==
  /\ buttons \in [Pointers -> SUBSET Buttons] /\ captured \in [Pointers -> Views \cup {None}]
  /\ mapper.drag # None =>
       /\ mapper.drag \in Pointers /\ captured[mapper.drag] # None
       /\ "Primary" \in buttons[mapper.drag]

LEMMA CalmKeepsDragInv ==
  ASSUME DragInv, mapper'.drag \in {mapper.drag, None}, UNCHANGED <<buttons, captured>>
  PROVE  DragInv'
BY DEF DragInv

\* A handler that frees pointer p and ends its drag.
LEMMA FreeKeepsDragInv ==
  ASSUME DragInv, NEW p \in Pointers, NEW held \in SUBSET Buttons,
         mapper'.drag \in {mapper.drag, None}, mapper'.drag # p,
         captured' \in {captured, [captured EXCEPT ![p] = None]},
         buttons' \in {buttons, [buttons EXCEPT ![p] = held]}
  PROVE  DragInv'
BY DEF DragInv

LEMMA PointerKeepsDragInv ==
  ASSUME OneButton, KeyInv, DragInv, Pointer
  PROVE  DragInv'
<1>1. IsMapper(mapper) /\ IsMapper(Routed) /\ Routed.drag \in {mapper.drag, None}
  BY RoutedCalms DEF KeyInv, Calmer
<1>2. \A p \in Pointers : p # None
  BY WebAssumption DEF WebAssumption
<1>3. ASSUME NEW p \in Pointers, NEW hit, NEW turned, Moved(p, hit, turned)
      PROVE  mapper'.drag \in {mapper.drag, None}
  <2>1. \/ mapper' = mapper
        \/ \E view : mapper' = PointerMoved(Routed, p, view, turned).mapper
    BY <1>3 DEF Moved, driver, Handle
  <2> QED BY <1>1, <2>1, PointerMovedKeeps
<1>4. ASSUME NEW p \in Pointers, CancelPointer(p)
      PROVE  mapper'.drag \in {mapper.drag, None} /\ mapper'.drag # p
  <2>1. mapper' = PointerCancelled(Routed, p).mapper
    BY <1>4 DEF CancelPointer, Handle
  <2> QED BY <1>1, <1>2, <2>1, PointerCancelledDrops DEF Calmer
<1>5. ASSUME NEW p \in Pointers, NEW button \in Buttons, NEW hit \in Hits, Press(p, button, hit)
      PROVE  DragInv'
  <2>1. button = "Primary" /\ buttons[p] = {}
    BY <1>5 DEF OneButton, DragInv, Press
  <2>2. buttons' = [buttons EXCEPT ![p] = {"Primary"}] /\ Pressed(p, "Primary", hit)
    BY <1>5, <2>1 DEF Press, DragInv
  <2>3. hit \in Views \cup {None}
    BY DEF Hits
  <2> DEFINE m == IF element # "surface" THEN SetContext(mapper, Context(TRUE)) ELSE mapper
             n == SetContext(m, Context(TRUE))
             r == ButtonPressed(n, p, "Primary", hit)
  <2>4. Calmer(mapper, m)
    BY <1>1, SetContextCalms, CalmerIsAPreorder
  <2>5. CASE hit = None
    <3>1. mapper' = m /\ captured' = captured
      BY <2>2, <2>5 DEF Pressed
    <3>2. mapper'.drag \in {mapper.drag, None}
      BY <2>4, <3>1 DEF Calmer
    <3>3. buttons' \in [Pointers -> SUBSET Buttons]
      BY <2>2 DEF DragInv, OneButton
    <3>4. \A q \in Pointers : buttons[q] \subseteq buttons'[q]
      BY <2>1, <2>2 DEF DragInv
    <3> HIDE DEF m
    <3> QED BY <3>1, <3>2, <3>3, <3>4 DEF DragInv
  <2>6. CASE hit # None
    <3>1. /\ mapper' = r.mapper
          /\ captured' = IF r.handled THEN [captured EXCEPT ![p] = hit] ELSE captured
      BY <2>2, <2>6 DEF Pressed
    <3> HIDE DEF m
    <3>2. Calmer(mapper, n)
      <4>1. IsMapper(m)
        BY <2>4 DEF Calmer
      <4>2. Calmer(m, n)
        BY <4>1, SetContextCalms
      <4> QED BY <2>4, <4>2, CalmerIsAPreorder
    <3> HIDE DEF n
    <3>3. IsMapper(n) /\ n.drag \in {mapper.drag, None}
      BY <3>2 DEF Calmer
    <3>4. r.handled /\ r.mapper.drag \in {n.drag, p}
      BY <3>3, ButtonPressedDrags
    <3> QED BY <2>2, <2>3, <2>6, <3>1, <3>3, <3>4 DEF DragInv, OneButton
  <2> QED BY <2>5, <2>6
<1>6. ASSUME NEW p \in Pointers, NEW button \in Buttons, NEW hit, Release(p, button, hit)
      PROVE  DragInv'
  <2>1. button = "Primary" /\ buttons[p] = {button}
    BY <1>6 DEF OneButton, DragInv, Release
  <2>2. buttons' = [buttons EXCEPT ![p] = {}] /\ Released(p, "Primary", hit)
    BY <1>6, <2>1 DEF Release, DragInv
  <2>3. captured' = [captured EXCEPT ![p] = None]
    BY <2>2 DEF Released
  <2>4. mapper'.drag \in {mapper.drag, None} /\ mapper'.drag # p
    <3>1. CASE hit = None /\ captured[p] = None
      <4>1. mapper' = mapper
        BY <2>2, <3>1 DEF Released, driver
      <4> QED BY <1>2, <3>1, <4>1 DEF DragInv
    <3>2. CASE hit # None \/ captured[p] # None
      <4>1. mapper' = ButtonReleased(Routed, p, "Primary").mapper
        BY <2>2, <3>2 DEF Released, Handle
      <4>2. LET n == ButtonReleased(Routed, p, "Primary").mapper
            IN  n.drag \in {Routed.drag, None} /\ n.drag # p
        BY <1>1, <1>2, ButtonReleasedDrops DEF Calmer
      <4> QED BY <1>1, <4>1, <4>2
    <3> QED BY <3>1, <3>2
  <2> QED BY <2>2, <2>3, <2>4, FreeKeepsDragInv
<1>7. ASSUME NEW p \in Pointers, NEW hit, NEW turned, Move(p, hit, turned)
      PROVE  DragInv'
  <2>1. UNCHANGED <<buttons, captured>>
    BY <1>7 DEF Move, user
  <2> QED BY <1>3, <1>7, <2>1, CalmKeepsDragInv DEF Move
<1>8. ASSUME NEW p \in Pointers, ReleaseElsewhere(p)
      PROVE  DragInv'
  <2>1. mapper' = mapper /\ captured' = captured /\ buttons' = [buttons EXCEPT ![p] = {}]
        /\ captured[p] = None
    BY <1>8 DEF ReleaseElsewhere, driver
  <2>2. mapper.drag # p
    BY <1>2, <2>1 DEF DragInv
  <2> QED BY <2>1, <2>2, FreeKeepsDragInv
<1>9. ASSUME NEW p \in Pointers, Cancel(p) \/ LoseCapture(p)
      PROVE  DragInv'
  <2>1. CancelPointer(p) /\ buttons' \in {buttons, [buttons EXCEPT ![p] = {}]}
    BY <1>9 DEF Cancel, LoseCapture
  <2>2. captured' = [captured EXCEPT ![p] = None]
    BY <2>1 DEF CancelPointer
  <2> QED BY <1>4, <2>1, <2>2, FreeKeepsDragInv
<1>10. ASSUME NEW p \in Pointers, Leave(p)
       PROVE  DragInv'
  <2>1. UNCHANGED <<buttons, captured>>
    BY <1>10 DEF Leave, user
  <2>2. mapper' = mapper \/ mapper' = PointerCancelled(Routed, p).mapper
    BY <1>10 DEF Leave, driver, Handle
  <2>3. PointerCancelled(Routed, p).mapper.drag \in {mapper.drag, None}
    BY <1>1, <1>2, PointerCancelledDrops DEF Calmer
  <2> QED BY <2>1, <2>2, <2>3, CalmKeepsDragInv
<1> QED BY <1>5, <1>6, <1>7, <1>8, <1>9, <1>10 DEF Pointer

LEMMA OthersKeepDragInv ==
  ASSUME KeyInv, DragInv, Key \/ Focus \/ Page \/ Device \/ AFrame
  PROVE  DragInv'
<1>1. IsMapper(mapper) /\ IsMapper(Routed) /\ Routed.drag \in {mapper.drag, None}
  BY RoutedCalms DEF KeyInv, Calmer
<1>2. CASE Key
  <2>1. UNCHANGED <<buttons, captured>>
    BY <1>2 DEF Key, KeyDown, KeyRepeat, KeyUp, Forward
  <2>2. \/ mapper' = mapper
        \/ \E key, plain : mapper' = KeyPressed(Routed, key, plain).mapper
        \/ \E key : mapper' = KeyReleased(Routed, key).mapper
    BY <1>2 DEF Key, KeyDown, KeyRepeat, KeyUp, Forward, driver, Handle
  <2>3. mapper'.drag \in {mapper.drag, None}
    BY <1>1, <2>2, KeyPressedHolds, KeyReleasedDrops
  <2> QED BY <2>1, <2>3, CalmKeepsDragInv
<1>3. CASE Focus
  <2>1. UNCHANGED <<buttons, captured>>
    BY <1>3 DEF Focus, WindowBlur, WindowFocus, FocusElement
  <2>2. \/ mapper' = mapper
        \/ \E on \in BOOLEAN : \E c : mapper' = FocusChanged(SetContext(mapper, c), on).mapper
        \/ \E c : mapper' = SetContext(mapper, c)
        \/ \E c : mapper' = SetContext(Cleared(mapper), c)
    BY <1>3 DEF Focus, WindowBlur, WindowFocus, FocusElement, SetSurfaceFocus, driver
  <2>3. \A c : SetContext(mapper, c).drag \in {mapper.drag, None} /\ IsMapper(SetContext(mapper, c))
    BY <1>1, SetContextCalms DEF Calmer
  <2>4. \A c : SetContext(Cleared(mapper), c).drag \in {mapper.drag, None}
    BY <1>1, SetContextCalms, ClearedHoldsNothing DEF Calmer
  <2>5. \A on \in BOOLEAN : \A c :
          FocusChanged(SetContext(mapper, c), on).mapper.drag \in {mapper.drag, None}
    BY <2>3, FocusChangedCalms DEF Calmer
  <2>6. mapper'.drag \in {mapper.drag, None}
    BY <2>2, <2>3, <2>4, <2>5
  <2> QED BY <2>1, <2>6, CalmKeepsDragInv
<1>4. CASE Page
  <2>1. UNCHANGED <<buttons, captured>>
    BY <1>4 DEF Page, Wheel, Dispatch, Resize, user
  <2>2. mapper' = mapper \/ \E hit, left : mapper' = WheelTurned(Routed, hit, left).mapper
    BY <1>4 DEF Page, Wheel, Dispatch, Resize, Handle
  <2>3. mapper'.drag \in {mapper.drag, None}
    BY <1>1, <2>2, WheelTurnedKeeps
  <2> QED BY <2>1, <2>3, CalmKeepsDragInv
<1>5. CASE Device
  <2>1. UNCHANGED <<buttons, captured>>
    BY <1>5 DEF Device, RendererReady, RendererFailed, LoseDevice, ChangeSurface, user
  <2>2. mapper' = mapper \/ \E c : mapper' = SetContext(Cleared(mapper), c)
    BY <1>5 DEF Device, RendererReady, RendererFailed, LoseDevice, ChangeSurface, driver
  <2>3. mapper'.drag \in {mapper.drag, None}
    BY <1>1, <2>2, SetContextCalms, ClearedHoldsNothing DEF Calmer
  <2> QED BY <2>1, <2>3, CalmKeepsDragInv
<1>6. CASE AFrame
  <2>1. PICK ticked, changed, working : Frame(Attempt(ticked), changed, working)
    BY <1>6 DEF AFrame
  <2>2. mapper'.drag \in {mapper.drag, None}
    BY <1>1, <2>1, FrameCalms DEF Calmer
  <2>3. UNCHANGED <<buttons, captured>>
    BY <2>1 DEF Frame
  <2> QED BY <2>2, <2>3, CalmKeepsDragInv
<1> QED BY <1>2, <1>3, <1>4, <1>5, <1>6

\* No key and no drag outlives its release, for any number of pointers with one button: the
\* view never turns, and the traveler never walks, with nobody touching anything.
THEOREM NothingStaysHeld ==
  ASSUME OneButton
  PROVE  Spec => []HeldIsDown
<1>1. Init => DragInv
  BY DEF Init, DragInv, IdleMapper
<1>2. KeyInv /\ DragInv /\ [Next]_vars => DragInv'
  <2>1. DragInv /\ UNCHANGED vars => DragInv'
    BY DEF DragInv, vars, user, driver
  <2> QED BY <2>1, PointerKeepsDragInv, OthersKeepDragInv DEF Next
<1>3. Spec => []KeyInv
  BY KeyInvHolds
<1>4. KeyInv /\ DragInv => HeldIsDown
  BY DEF KeyInv, DragInv, HeldIsDown
<1> QED BY <1>1, <1>2, <1>3, <1>4, PTL DEF Spec
-----------------------------------------------------------------------------
(* The loop.  Whoever gives it something to do asks for a frame, and a frame *)
(* that leaves something to do asks for the next.                            *)

QuietInv == scheduled \/ Quiet

LEMMA CalmKeepsQuiet ==
  ASSUME QuietInv, Calmer(mapper, mapper'), UNCHANGED <<scheduled, actions, inputs, layout>>
  PROVE  QuietInv'
BY DEF QuietInv, Quiet, HasContinuousInput, Calmer

LEMMA EventsKeepQuiet ==
  ASSUME KeyInv, QuietInv, Key \/ Focus \/ Pointer \/ Page \/ Device
  PROVE  QuietInv'
<1>1. IsMapper(mapper) /\ Calmer(mapper, mapper)
  BY CalmerIsAPreorder DEF KeyInv
<1>2. \A c : Calmer(mapper, SetContext(mapper, c)) /\ Calmer(mapper, SetContext(Cleared(mapper), c))
  <2>1. IsMapper(Cleared(mapper)) /\ Calmer(mapper, Cleared(mapper))
    BY <1>1, ClearedHoldsNothing DEF Calmer
  <2> QED BY <1>1, <2>1, SetContextCalms, CalmerIsAPreorder
<1>3. ASSUME UNCHANGED <<mapper, scheduled, actions, inputs, layout>>
      PROVE  QuietInv'
  BY <1>1, <1>3, CalmKeepsQuiet
<1>4. CASE Key
  <2>1. scheduled' \/ UNCHANGED <<mapper, scheduled, actions, inputs, layout>>
    BY <1>4 DEF Key, KeyDown, KeyRepeat, KeyUp, Forward, ScheduleFrame, driver, viewer
  <2> QED BY <1>3, <2>1 DEF QuietInv
<1>5. CASE Focus
  <2>1. scheduled' \/ UNCHANGED <<scheduled, actions, inputs, layout>>
    BY <1>5 DEF Focus, WindowBlur, WindowFocus, FocusElement, ScheduleFrame, viewer
  <2>2. \/ scheduled' \/ mapper' = mapper
        \/ \E c : mapper' = FocusChanged(SetContext(mapper, c), TRUE).mapper
        \/ \E c : mapper' \in {SetContext(mapper, c), SetContext(Cleared(mapper), c)}
    BY <1>5 DEF Focus, WindowBlur, WindowFocus, FocusElement, SetSurfaceFocus, driver, ScheduleFrame
  <2>3. \A c : Calmer(mapper, FocusChanged(SetContext(mapper, c), TRUE).mapper)
    <3>1. \A c : IsMapper(SetContext(mapper, c)) /\ Calmer(mapper, SetContext(mapper, c))
      BY <1>2 DEF Calmer
    <3> QED BY <3>1, FocusChangedCalms, CalmerIsAPreorder
  <2>4. scheduled' \/ Calmer(mapper, mapper')
    BY <1>1, <1>2, <2>2, <2>3
  <2> QED BY <2>1, <2>4, CalmKeepsQuiet DEF QuietInv
<1>6. ASSUME NEW p, NEW hit, NEW turned, Moved(p, hit, turned), UNCHANGED <<inputs, layout>>
      PROVE  QuietInv'
  <2>1. CASE UNCHANGED <<driver, actions, scheduled>>
    BY <1>3, <1>6, <2>1 DEF driver
  <2>2. ASSUME NEW view, NEW r, r = PointerMoved(Routed, p, view, turned), Handle(r),
               scheduled' = (scheduled \/ r.handled \/ HasContinuousInput(r.mapper))
        PROVE  QuietInv'
    <3>1. r.queued = <<>>
      BY <2>2 DEF PointerMoved, Took, Passed
    <3>2. Quiet => actions' = <<>>
      BY <2>2, <3>1 DEF Quiet, Handle
    <3>3. mapper' = r.mapper
      BY <2>2 DEF Handle
    <3> QED BY <1>6, <2>2, <3>2, <3>3 DEF QuietInv, Quiet
  <2> QED BY <1>6, <2>1, <2>2 DEF Moved
<1>7. CASE Pointer
  <2>1. ASSUME NEW p \in Pointers, NEW button, NEW hit, Press(p, button, hit)
        PROVE  QuietInv'
    <3>1. UNCHANGED <<inputs, layout>>
      BY <2>1 DEF Press, viewer
    <3>2. CASE Pressed(p, button, hit)
      <4>1. CASE hit = None
        <5>1. Calmer(mapper, mapper') /\ UNCHANGED <<scheduled, actions>>
          BY <1>1, <1>2, <3>2, <4>1 DEF Pressed
        <5> QED BY <3>1, <5>1, CalmKeepsQuiet
      <4>2. CASE hit # None
        BY <3>2, <4>2 DEF Pressed, ScheduleFrame, QuietInv
      <4> QED BY <4>1, <4>2
    <3>3. CASE \E turned : Moved(p, hit, turned)
      BY <1>6, <3>1, <3>3
    <3> QED BY <2>1, <3>2, <3>3 DEF Press
  <2>2. ASSUME NEW p \in Pointers, NEW button, NEW hit, Release(p, button, hit)
        PROVE  QuietInv'
    <3>1. UNCHANGED <<inputs, layout>>
      BY <2>2 DEF Release, viewer
    <3>2. scheduled' \/ \E turned : Moved(p, hit, turned)
      BY <2>2 DEF Release, Released, ScheduleFrame
    <3> QED BY <1>6, <3>1, <3>2 DEF QuietInv
  <2>3. ASSUME NEW p \in Pointers, NEW hit, NEW turned, Move(p, hit, turned)
        PROVE  QuietInv'
    BY <1>6, <2>3 DEF Move, viewer
  <2>4. ASSUME NEW p \in Pointers, ReleaseElsewhere(p)
        PROVE  QuietInv'
    BY <1>3, <2>4 DEF ReleaseElsewhere, driver, viewer
  <2>5. ASSUME NEW p \in Pointers, Cancel(p) \/ LoseCapture(p) \/ Leave(p)
        PROVE  QuietInv'
    BY <2>5 DEF Cancel, LoseCapture, CancelPointer, Leave, ScheduleFrame, QuietInv
  <2> QED BY <1>7, <2>1, <2>2, <2>3, <2>4, <2>5 DEF Pointer
<1>8. CASE Page
  BY <1>8 DEF Page, Wheel, Dispatch, Resize, ScheduleFrame, QuietInv
<1>9. CASE Device
  <2>1. scheduled' \/ UNCHANGED <<mapper, scheduled, actions, inputs, layout>>
    BY <1>9 DEF Device, RendererReady, RendererFailed, LoseDevice, ChangeSurface, ScheduleFrame,
                driver, viewer
  <2> QED BY <1>3, <2>1 DEF QuietInv
<1> QED BY <1>4, <1>5, <1>7, <1>8, <1>9

\* A frame that asks for no other has emptied the queues and heard no refusal.
LEMMA FrameKeepsQuiet ==
  ASSUME NEW ticked, NEW changed, NEW working, Frame(Attempt(ticked), changed, working)
  PROVE  QuietInv'
<1> DEFINE f == Attempt(ticked)
<1>1. /\ actions' = <<>> /\ layout' = f.layout
      /\ inputs' = IF GivesUp(f) THEN Append(Refusals, "unavailable") ELSE Refusals
      /\ dirty' = DirtyAfter(f)
      /\ f.showsPov \/ dirty' \/ HasContinuousInput(mapper') => scheduled'
  BY DEF Frame
<1>2. ~dirty' => inputs' = <<>>
  BY <1>1 DEF DirtyAfter
<1>3. ~f.showsPov => f.layout.mode = "Map"
  BY DEF Attempt
<1> QED BY <1>1, <1>2, <1>3 DEF QuietInv, Quiet

LEMMA QuietHolds == Spec => []QuietInv
<1>1. Init => QuietInv
  BY DEF Init, QuietInv
<1>2. KeyInv /\ QuietInv /\ [Next]_vars => QuietInv'
  <2>1. QuietInv /\ UNCHANGED vars => QuietInv'
    BY DEF QuietInv, Quiet, vars, driver, viewer
  <2>2. AFrame => QuietInv'
    BY FrameKeepsQuiet DEF AFrame
  <2> QED BY <2>1, <2>2, EventsKeepQuiet DEF Next
<1> QED BY <1>1, <1>2, KeyInvHolds, PTL DEF Spec
-----------------------------------------------------------------------------
(* Requests.  What waits for an answer is what is refused and not yet heard. *)

Commands ==
  [do : {"SetPresentation", "FocusView", "TogglePrimaryView", "ToggleGpuCompose", "SaveSession",
         "SelectGpu", "Zoom"},
   to : Modes]
Notices == {"available", "unavailable", "failed"}
QueueInv == actions \in Seq(Commands) /\ inputs \in Seq(Notices)

\* What the mapper queues are commands.
LEMMA QueuedAreCommands ==
  /\ \A m, key, plain : KeyPressed(m, key, plain).queued \in Seq(Commands)
  /\ \A m, key : KeyReleased(m, key).queued \in Seq(Commands)
  /\ \A m, p, view, turned : PointerMoved(m, p, view, turned).queued \in Seq(Commands)
  /\ \A m, p, button : \A view \in Views :
       ButtonPressed(m, p, button, view).queued \in Seq(Commands)
  /\ \A m, p, button : ButtonReleased(m, p, button).queued \in Seq(Commands)
  /\ \A m, p : PointerCancelled(m, p).queued \in Seq(Commands)
  /\ \A m, view, left : WheelTurned(m, view, left).queued \in Seq(Commands)
<1>1. <<>> \in Seq(Commands) /\ \A c \in Commands : <<c>> \in Seq(Commands)
  BY EmptySeq
<1>2. \A m, q : Took(m, q).queued = q /\ Passed(m).queued = <<>>
  BY DEF Took, Passed
<1>3. /\ [do |-> "TogglePrimaryView", to |-> "Map"] \in Commands
      /\ [do |-> "Zoom", to |-> "Map"] \in Commands
      /\ \A view \in Views : [do |-> "FocusView", to |-> view] \in Commands
      /\ \A view : OtherView(view) \in Views
  BY DEF Commands, Modes, Views, OtherView
<1>4. \A key, c : Bound(key, c) \in Seq(Commands)
  <2> TAKE key, c
  <2> DEFINE focus == <<[do |-> "FocusView", to |-> OtherView(c.focused)]>>
             toggle == <<[do |-> "TogglePrimaryView", to |-> "Map"]>>
  <2>1. [do |-> "FocusView", to |-> OtherView(c.focused)] \in Commands
    BY <1>3
  <2>2. focus \in Seq(Commands) /\ toggle \in Seq(Commands)
    BY <1>1, <1>3, <2>1
  <2>3. Bound(key, c) \in {<<>>, focus, toggle}
    BY DEF Bound
  <2> HIDE DEF focus, toggle
  <2> QED BY <1>1, <2>2, <2>3
<1>5. \A m, key, plain : KeyPressed(m, key, plain).queued \in {<<>>, Bound(key, m.context)}
  BY <1>2 DEF KeyPressed
<1>6. /\ \A m, key : KeyReleased(m, key).queued = <<>>
      /\ \A m, p, view, turned : PointerMoved(m, p, view, turned).queued = <<>>
      /\ \A m, p, button : ButtonReleased(m, p, button).queued = <<>>
      /\ \A m, p : PointerCancelled(m, p).queued = <<>>
  BY <1>2 DEF KeyReleased, PointerMoved, ButtonReleased, PointerCancelled
<1>7. \A m, p, button, view :
        ButtonPressed(m, p, button, view).queued \in {<<>>, <<[do |-> "FocusView", to |-> view]>>}
  BY <1>2 DEF ButtonPressed
<1>8. \A m, view, left :
        WheelTurned(m, view, left).queued \in {<<>>, <<[do |-> "Zoom", to |-> "Map"]>>}
  BY <1>2 DEF WheelTurned
<1>9. \A m, key, plain : KeyPressed(m, key, plain).queued \in Seq(Commands)
  BY <1>1, <1>4, <1>5
<1>10. \A m, p, button : \A view \in Views :
         ButtonPressed(m, p, button, view).queued \in Seq(Commands)
  <2> TAKE m, p, button
  <2> TAKE view \in Views
  <2> DEFINE focus == <<[do |-> "FocusView", to |-> view]>>
  <2>1. [do |-> "FocusView", to |-> view] \in Commands
    BY <1>3
  <2>2. focus \in Seq(Commands)
    BY <1>1, <2>1
  <2>3. ButtonPressed(m, p, button, view).queued \in {<<>>, focus}
    BY <1>7
  <2> HIDE DEF focus
  <2> QED BY <1>1, <2>2, <2>3
<1>11. \A m, view, left : WheelTurned(m, view, left).queued \in Seq(Commands)
  BY <1>1, <1>3, <1>8
<1> QED BY <1>1, <1>6, <1>9, <1>10, <1>11

LEMMA EventsKeepQueues ==
  ASSUME QueueInv, Key \/ Focus \/ Pointer \/ Page \/ Device
  PROVE  QueueInv'
<1> SUFFICES actions' \in Seq(Commands) /\ inputs' \in Seq(Notices)
  BY DEF QueueInv
<1>1. ASSUME NEW q \in Seq(Commands)
      PROVE  actions \o q \in Seq(Commands)
  BY ConcatProperties DEF QueueInv
<1>2. ASSUME inputs' = inputs,
             actions' = actions \/ \E q \in Seq(Commands) : actions' = actions \o q
      PROVE  actions' \in Seq(Commands) /\ inputs' \in Seq(Notices)
  BY <1>1, <1>2 DEF QueueInv
<1>3. CASE Key
  <2>1. \/ actions' = actions
        \/ \E key, plain : actions' = actions \o KeyPressed(Routed, key, plain).queued
        \/ \E key : actions' = actions \o KeyReleased(Routed, key).queued
    BY <1>3 DEF Key, KeyDown, KeyRepeat, KeyUp, Forward, Handle
  <2>2. inputs' = inputs
    BY <1>3 DEF Key, KeyDown, KeyRepeat, KeyUp, Forward
  <2> QED BY <1>2, <2>1, <2>2, QueuedAreCommands
<1>4. CASE Focus
  BY <1>2, <1>4 DEF Focus, WindowBlur, WindowFocus, FocusElement
<1>5. CASE Pointer
  <2>1. inputs' = inputs
    BY <1>5 DEF Pointer, Press, Release, Move, ReleaseElsewhere, Cancel, LoseCapture, CancelPointer,
                Leave
  <2>2. ASSUME NEW p, NEW hit, NEW turned, Moved(p, hit, turned)
        PROVE  actions' = actions \/ \E q \in Seq(Commands) : actions' = actions \o q
    <3>1. \/ actions' = actions
          \/ \E view : actions' = actions \o PointerMoved(Routed, p, view, turned).queued
      BY <2>2 DEF Moved, Handle
    <3> QED BY <3>1, QueuedAreCommands
  <2>3. ASSUME NEW p, NEW button, NEW hit \in Hits, Pressed(p, button, hit)
        PROVE  actions' = actions \/ \E q \in Seq(Commands) : actions' = actions \o q
    <3>1. \/ actions' = actions
          \/ hit # None /\ \E m : actions' = actions \o ButtonPressed(m, p, button, hit).queued
      BY <2>3 DEF Pressed
    <3>2. hit # None => hit \in Views
      BY DEF Hits
    <3> QED BY <3>1, <3>2, QueuedAreCommands
  <2>4. ASSUME NEW p, NEW button, NEW hit, Released(p, button, hit)
        PROVE  actions' = actions \/ \E q \in Seq(Commands) : actions' = actions \o q
    <3>1. actions' = actions \/ actions' = actions \o ButtonReleased(Routed, p, button).queued
      BY <2>4 DEF Released, Handle
    <3> QED BY <3>1, QueuedAreCommands
  <2>5. ASSUME NEW p, CancelPointer(p) \/ Leave(p)
        PROVE  actions' = actions \/ \E q \in Seq(Commands) : actions' = actions \o q
    <3>1. actions' = actions \/ actions' = actions \o PointerCancelled(Routed, p).queued
      BY <2>5 DEF CancelPointer, Leave, Handle
    <3> QED BY <3>1, QueuedAreCommands
  <2>6. ASSUME NEW p, ReleaseElsewhere(p)
        PROVE  actions' = actions
    BY <2>6 DEF ReleaseElsewhere
  <2>7. actions' = actions \/ \E q \in Seq(Commands) : actions' = actions \o q
    BY <1>5, <2>2, <2>3, <2>4, <2>5, <2>6 DEF Pointer, Press, Release, Move, Cancel, LoseCapture
  <2> QED BY <1>2, <2>1, <2>7
<1>6. CASE Page
  <2>1. ASSUME NEW hit, NEW left, Wheel(hit, left)
        PROVE  actions' \in Seq(Commands) /\ inputs' \in Seq(Notices)
    BY <1>2, <2>1, QueuedAreCommands DEF Wheel, Handle
  <2>2. ASSUME NEW c \in Toolbar, Dispatch(c)
        PROVE  actions' \in Seq(Commands) /\ inputs' \in Seq(Notices)
    <3>1. c \in Commands
      BY WebAssumption
      DEF WebAssumption, ToolbarCommands, LayoutCommands, Commands, Modes, Views
    <3>2. Append(actions, c) \in Seq(Commands)
      BY <3>1, AppendProperties DEF QueueInv
    <3> QED BY <2>2, <3>2 DEF Dispatch, QueueInv
  <2> QED BY <1>2, <1>6, <2>1, <2>2 DEF Page, Resize
<1>7. CASE Device
  <2>1. \A in \in Notices : Append(inputs, in) \in Seq(Notices)
    BY AppendProperties DEF QueueInv
  <2>2. Append(actions, [do |-> "SelectGpu", to |-> "Map"]) \in Seq(Commands)
    <3>1. [do |-> "SelectGpu", to |-> "Map"] \in Commands
      BY DEF Commands, Modes
    <3> QED BY <3>1, AppendProperties DEF QueueInv
  <2>3. CASE RendererReady
    BY <2>1, <2>2, <2>3 DEF RendererReady, Notices
  <2>4. CASE RendererFailed
    BY <2>1, <2>4 DEF RendererFailed, QueueInv, Notices
  <2>5. ASSUME UNCHANGED <<actions, inputs>>
        PROVE  actions' \in Seq(Commands) /\ inputs' \in Seq(Notices)
    BY <2>5 DEF QueueInv
  <2> QED BY <1>7, <2>3, <2>4, <2>5 DEF Device, LoseDevice, ChangeSurface
<1> QED BY <1>3, <1>4, <1>5, <1>6, <1>7

Counted(q) == Cardinality(Failed(q))

LEMMA FailedFacts ==
  /\ \A q \in Seq(Notices) : Counted(q) \in Nat
  /\ \A q \in Seq(Notices), in \in Notices \ {"failed"} : Counted(Append(q, in)) = Counted(q)
  /\ Counted(<<>>) = 0
<1>1. ASSUME NEW q \in Seq(Notices)
      PROVE  Counted(q) \in Nat
  <2>1. Len(q) \in Nat /\ DOMAIN q = 1..Len(q)
    BY LenProperties
  <2>2. IsFiniteSet(1..Len(q))
    BY <2>1, FS_Interval
  <2>3. Failed(q) \subseteq 1..Len(q)
    BY <2>1 DEF Failed
  <2> QED BY <2>2, <2>3, FS_Subset, FS_CardinalityType DEF Counted
<1>2. ASSUME NEW q \in Seq(Notices), NEW in \in Notices, in # "failed"
      PROVE  Failed(Append(q, in)) = Failed(q)
  <2>1. /\ Len(q) \in Nat /\ DOMAIN q = 1..Len(q) /\ DOMAIN Append(q, in) = 1..(Len(q) + 1)
        /\ Append(q, in)[Len(q) + 1] = in
        /\ \A i \in 1..Len(q) : Append(q, in)[i] = q[i]
    BY AppendProperties, LenProperties
  <2>2. \A i : i \in 1..(Len(q) + 1) <=> i \in 1..Len(q) \/ i = Len(q) + 1
    BY <2>1
  <2> QED BY <1>2, <2>1, <2>2 DEF Failed
<1>3. Failed(<<>>) = {}
  BY DEF Failed
<1> QED BY <1>1, <1>2, <1>3, FS_EmptySet DEF Counted

\* The refusals are as many failures as there were requests.
LEMMA RefusalsFacts ==
  ASSUME QueueInv
  PROVE  /\ Refusals \in Seq(Notices) /\ Len(Refusals) \in Nat
         /\ Counted(Refusals) = Len(Refusals)
         /\ Counted(Append(Refusals, "unavailable")) = Len(Refusals)
         /\ Append(Refusals, "unavailable") \in Seq(Notices)
<1> DEFINE saves == {i \in DOMAIN actions : actions[i].do = "SaveSession"}
           n == Cardinality(saves)
<1>1. n \in Nat
  <2>1. Len(actions) \in Nat /\ DOMAIN actions = 1..Len(actions)
    BY LenProperties DEF QueueInv
  <2>2. IsFiniteSet(1..Len(actions))
    BY <2>1, FS_Interval
  <2>3. saves \subseteq 1..Len(actions)
    BY <2>1
  <2> QED BY <2>2, <2>3, FS_Subset, FS_CardinalityType
<1>2. Refusals = [i \in 1..n |-> "failed"]
  BY DEF Refusals
<1> HIDE DEF n
<1>3. Refusals \in Seq(Notices) /\ Len(Refusals) = n /\ DOMAIN Refusals = 1..n
  BY <1>1, <1>2 DEF Notices
<1>4. Failed(Refusals) = 1..n
  BY <1>2, <1>3 DEF Failed
<1>5. Cardinality(1..n) = n
  BY <1>1, FS_Interval
<1>6. Append(Refusals, "unavailable") \in Seq(Notices)
  BY <1>3, AppendProperties DEF Notices
<1>7. Counted(Append(Refusals, "unavailable")) = Counted(Refusals)
  BY <1>3, FailedFacts DEF Notices
<1> QED BY <1>1, <1>3, <1>4, <1>5, <1>6, <1>7 DEF Counted

PendingInv == QueueInv /\ pending = Counted(inputs)

LEMMA PendingHolds == Spec => []PendingInv
<1>1. Init => PendingInv
  BY EmptySeq, FailedFacts DEF Init, PendingInv, QueueInv
<1>2. PendingInv /\ [Next]_vars => PendingInv'
  <2> SUFFICES ASSUME PendingInv, [Next]_vars PROVE PendingInv'
    OBVIOUS
  <2>0. inputs \in Seq(Notices) /\ pending = Counted(inputs) /\ QueueInv
    BY DEF PendingInv, QueueInv
  <2>1. CASE Key \/ Focus \/ Pointer \/ Page \/ Device
    <3>1. pending' = pending
      BY <2>1
      DEF Key, KeyDown, KeyRepeat, KeyUp, Forward, Focus, WindowBlur, WindowFocus, FocusElement,
          Pointer, Press, Release, Move, ReleaseElsewhere, Cancel, LoseCapture, CancelPointer,
          Leave, Page, Wheel, Dispatch, Resize, Device, RendererReady, RendererFailed, LoseDevice,
          ChangeSurface, viewer
    <3>2. inputs' = inputs \/ \E in \in Notices \ {"failed"} : inputs' = Append(inputs, in)
      BY <2>1
      DEF Key, KeyDown, KeyRepeat, KeyUp, Forward, Focus, WindowBlur, WindowFocus, FocusElement,
          Pointer, Press, Release, Move, ReleaseElsewhere, Cancel, LoseCapture, CancelPointer,
          Leave, Page, Wheel, Dispatch, Resize, Device, RendererReady, RendererFailed, LoseDevice,
          ChangeSurface, Notices
    <3>3. Counted(inputs') = Counted(inputs)
      BY <2>0, <3>2, FailedFacts
    <3> QED BY <2>0, <2>1, <3>1, <3>3, EventsKeepQueues DEF PendingInv
  <2>2. CASE AFrame
    <3>1. PICK f, changed, working : Frame(f, changed, working)
      BY <2>2 DEF AFrame
    <3>2. /\ actions' = <<>>
          /\ inputs' = IF GivesUp(f) THEN Append(Refusals, "unavailable") ELSE Refusals
          /\ pending' = pending - Counted(inputs) + Len(Refusals)
      BY <3>1 DEF Frame, Counted
    <3>3. inputs' \in Seq(Notices) /\ Counted(inputs') = Len(Refusals) /\ Len(Refusals) \in Nat
      BY <2>0, <3>2, RefusalsFacts
    <3>4. pending' = Len(Refusals)
      BY <2>0, <3>2, <3>3, FailedFacts
    <3>5. actions' \in Seq(Commands)
      BY <3>2, EmptySeq
    <3> QED BY <3>3, <3>4, <3>5 DEF PendingInv, QueueInv
  <2>3. CASE UNCHANGED vars
    BY <2>0, <2>3 DEF PendingInv, QueueInv, vars, viewer
  <2> QED BY <2>1, <2>2, <2>3 DEF Next
<1> QED BY <1>1, <1>2, PTL DEF Spec
-----------------------------------------------------------------------------
(* The picture.  A frame without anything new leaves the layout as it is; the *)
(* canvas of the processor shows the map unless a frame is bound to redraw it. *)

\* A set of numbers has a least one.
LEMMA LeastExists ==
  ASSUME NEW S \in SUBSET Nat, S # {}
  PROVE  \E n \in S : \A m \in S : n <= m
<1> DEFINE T == {1..m : m \in S}
<1>1. T \subseteq FiniteSubsetsOf(Nat) /\ T # {}
  <2>1. \A m \in S : 1..m \in FiniteSubsetsOf(Nat)
    BY FS_Interval DEF FiniteSubsetsOf
  <2> QED BY <2>1
<1>2. PICK u \in T : \A v \in T : ~(<<v, u>> \in StrictSubsetOrdering(Nat))
  BY <1>1, FS_StrictSubsetOrderingWellFounded, WFMin
<1>3. PICK n \in S : u = 1..n
  BY <1>2
<1>4. ASSUME NEW m \in S, m < n
      PROVE  FALSE
  <2>1. 1..m \subseteq 1..n /\ n \in 1..n /\ n \notin 1..m
    BY <1>4
  <2>2. <<1..m, u>> \in StrictSubsetOrdering(Nat)
    BY <2>1, <1>3 DEF StrictSubsetOrdering
  <2> QED BY <2>2, <1>2
<1> QED BY <1>4

\* What starts at x and keeps x in every step ends at x.
StandsAt(f, x, n) == f[0] = x /\ \A i \in 1..n : f[i - 1] = x => f[i] = x

LEMMA StandingEndsThere ==
  ASSUME NEW f, NEW x, NEW n \in Nat, StandsAt(f, x, n)
  PROVE  f[n] = x
<1> DEFINE S == {i \in 0..n : f[i] # x}
<1> SUFFICES ASSUME S # {} PROVE FALSE
  OBVIOUS
<1>0. S \in SUBSET Nat
  OBVIOUS
<1>1. PICK k \in S : \A m \in S : k <= m
  <2> HIDE DEF S
  <2> QED BY <1>0, LeastExists
<1>2. k \in 1..n /\ k - 1 \in 0..n /\ k - 1 \notin S
  BY <1>1 DEF StandsAt
<1> QED BY <1>1, <1>2 DEF StandsAt

AvailabilityAfter(view, q) == Replay(Availability, view, q)

\* Refusals do not touch the availability of the view.
LEMMA RefusalsStand ==
  ASSUME NEW view, NEW q \in Seq(Notices), \A i \in 1..Len(q) : q[i] = "failed"
  PROVE  AvailabilityAfter(view, q) = view
<1> DEFINE R(f) == f = [i \in 0..Len(q) |-> IF i = 0 THEN view ELSE Availability(f[i - 1], q[i])]
           chosen == CHOOSE f : R(f)
<1>1. AvailabilityAfter(view, q) = chosen[Len(q)]
  BY DEF AvailabilityAfter, Replay
<1>2. Len(q) \in Nat
  BY LenProperties
<1>3. \A i \in 1..Len(q) : \A v : Availability(v, q[i]) = v
  BY DEF Availability
<1>4. R([i \in 0..Len(q) |-> view])
  BY <1>2, <1>3
<1>5. R(chosen)
  BY <1>4
<1> HIDE DEF chosen
<1>6. StandsAt(chosen, view, Len(q))
  <2> DEFINE e(i) == IF i = 0 THEN view ELSE Availability(chosen[i - 1], q[i])
  <2>1. chosen = [i \in 0..Len(q) |-> e(i)]
    BY <1>5
  <2> HIDE DEF e
  <2>2. \A i \in 0..Len(q) : chosen[i] = e(i)
    BY <2>1
  <2>3. chosen[0] = view
    BY <1>2, <2>2 DEF e
  <2>4. \A i \in 1..Len(q) : chosen[i] = Availability(chosen[i - 1], q[i])
    BY <1>2, <2>2 DEF e
  <2> QED BY <1>3, <2>3, <2>4 DEF StandsAt
<1> QED BY <1>1, <1>2, <1>6, StandingEndsThere

LayoutAfter(able, shown, q) == Replay(LAMBDA view, c : Reduce(view, able, c), shown, q)

\* Nor does a request for a service touch the layout.
LEMMA RequestsStand ==
  ASSUME NEW able, NEW shown, NEW q \in Seq(Commands), \A i \in 1..Len(q) : q[i].do = "SaveSession"
  PROVE  LayoutAfter(able, shown, q) = shown
<1> DEFINE R(f) == f = [i \in 0..Len(q) |-> IF i = 0 THEN shown ELSE Reduce(f[i - 1], able, q[i])]
           chosen == CHOOSE f : R(f)
<1>1. LayoutAfter(able, shown, q) = chosen[Len(q)]
  BY DEF LayoutAfter, Replay
<1>2. Len(q) \in Nat
  BY LenProperties
<1>3. \A i \in 1..Len(q) : \A v : Reduce(v, able, q[i]) = v
  BY DEF Reduce
<1>4. R([i \in 0..Len(q) |-> shown])
  BY <1>2, <1>3
<1>5. R(chosen)
  BY <1>4
<1> HIDE DEF chosen
<1>6. StandsAt(chosen, shown, Len(q))
  <2> DEFINE e(i) == IF i = 0 THEN shown ELSE Reduce(chosen[i - 1], able, q[i])
  <2>1. chosen = [i \in 0..Len(q) |-> e(i)]
    BY <1>5
  <2> HIDE DEF e
  <2>2. \A i \in 0..Len(q) : chosen[i] = e(i)
    BY <2>1
  <2>3. chosen[0] = shown
    BY <1>2, <2>2 DEF e
  <2>4. \A i \in 1..Len(q) : chosen[i] = Reduce(chosen[i - 1], able, q[i])
    BY <1>2, <2>2 DEF e
  <2> QED BY <1>3, <2>3, <2>4 DEF StandsAt
<1> QED BY <1>1, <1>2, <1>6, StandingEndsThere

\* A tick that finds neither a notice nor a command shows what was shown.
LEMMA QuietTickStands ==
  ASSUME QueueInv, \A i \in DOMAIN Drained : Drained[i] = "failed",
         \A i \in DOMAIN actions : actions[i].do = "SaveSession"
  PROVE  Preview(Drained).layout = layout
<1> DEFINE view == [layout |-> layout, supported |-> supported]
<1>1. Drained \in Seq(Notices) /\ actions \in Seq(Commands)
  <2>1. Append(inputs, "unavailable") \in Seq(Notices)
    BY AppendProperties DEF QueueInv, Notices
  <2> QED BY <2>1 DEF QueueInv, Drained
<1>2. DOMAIN Drained = 1..Len(Drained) /\ DOMAIN actions = 1..Len(actions)
  BY <1>1, LenProperties
<1>3. AvailabilityAfter(view, Drained) = view
  BY <1>1, <1>2, RefusalsStand
<1>4. LayoutAfter(supported, layout, actions) = layout
  BY <1>1, <1>2, RequestsStand
<1>5. Preview(Drained) = [AvailabilityAfter(view, Drained) EXCEPT !.layout =
                            LayoutAfter(AvailabilityAfter(view, Drained).supported, @, actions)]
  BY DEF Preview, AvailabilityAfter, LayoutAfter
<1>6. Preview(Drained) = [view EXCEPT !.layout = LayoutAfter(view.supported, @, actions)]
  BY <1>3, <1>5
<1> QED BY <1>4, <1>6

\* The map alone is shown, and neither its canvas nor its path is about to change.
CpuInv ==
  layout.mode = "Map" /\ reported \notin {"gpu", "ready"} /\ ~forced /\ ~resizeDirty
    => cpuShows = content
ShownInv == scheduled \/ Shown = content

\* Events change neither canvas; those that make one stale ask for a frame.
LEMMA EventsKeepShown ==
  ASSUME CpuInv, ShownInv, Key \/ Focus \/ Pointer \/ Page \/ Device
  PROVE  CpuInv' /\ ShownInv'
<1>1. ASSUME UNCHANGED <<stage, cpuShows, gpuShows, resizeDirty, layout, content, forced,
                         reported>>,
             scheduled => scheduled'
      PROVE  CpuInv' /\ ShownInv'
  BY <1>1 DEF CpuInv, ShownInv, Shown
<1>2. CASE Key \/ Focus \/ Pointer
  <2>1. UNCHANGED <<stage, cpuShows, gpuShows, resizeDirty, layout, content, forced, reported>>
    BY <1>2
    DEF Key, KeyDown, KeyRepeat, KeyUp, Forward, Focus, WindowBlur, WindowFocus, FocusElement,
        Pointer, Press, Release, Move, ReleaseElsewhere, Cancel, LoseCapture, CancelPointer, Leave,
        canvases, viewer, host
  <2>2. \A p, hit, turned : Moved(p, hit, turned) => (scheduled => scheduled')
    BY DEF Moved
  <2>3. scheduled => scheduled'
    <3>1. CASE Key \/ Focus
      BY <3>1 DEF Key, KeyDown, KeyRepeat, KeyUp, Forward, Focus, WindowBlur, WindowFocus,
                  FocusElement, ScheduleFrame
    <3>2. \A p, button, hit : /\ Pressed(p, button, hit) => (scheduled => scheduled')
                              /\ Released(p, button, hit) => (scheduled => scheduled')
      BY DEF Pressed, Released, ScheduleFrame
    <3>3. CASE Pointer
      BY <2>2, <3>2, <3>3 DEF Pointer, Press, Release, Move, ReleaseElsewhere, Cancel, LoseCapture,
                              CancelPointer, Leave, ScheduleFrame
    <3> QED BY <1>2, <3>1, <3>3
  <2> QED BY <1>1, <2>1, <2>3
<1>3. CASE Page
  <2>1. CASE Resize
    BY <2>1 DEF Resize, ScheduleFrame, CpuInv, ShownInv
  <2>2. CASE ~Resize
    BY <1>1, <1>3, <2>2 DEF Page, Wheel, Dispatch, ScheduleFrame, canvases, viewer, host
  <2> QED BY <2>1, <2>2
<1>4. CASE Device
  <2>1. CASE RendererReady
    BY <2>1 DEF RendererReady, ScheduleFrame, CpuInv, ShownInv
  <2>2. CASE RendererFailed
    BY <2>2 DEF RendererFailed, ScheduleFrame, CpuInv, ShownInv
  <2>3. CASE LoseDevice \/ \E s : ChangeSurface(s)
    BY <1>1, <2>3 DEF LoseDevice, ChangeSurface, canvases, viewer, host
  <2> QED BY <1>4, <2>1, <2>2, <2>3 DEF Device
<1> QED BY <1>2, <1>3, <1>4

\* A frame draws what there is on the canvas it leaves visible, or asks for the next.
LEMMA FrameKeepsShown ==
  ASSUME QueueInv, CpuInv, AFrame
  PROVE  CpuInv' /\ ShownInv'
<1>1. PICK changed \in BOOLEAN, working \in 0..MaxWork : Frame(Attempt(Preview(Drained)), changed, working)
  BY DEF AFrame
<1> DEFINE f == Attempt(Preview(Drained))
<1>2. /\ f.layout = Preview(Drained).layout
      /\ f.showsMap = (f.layout.mode # "Pov") /\ f.showsPov = (f.layout.mode # "Map")
      /\ f.atlas \in BOOLEAN /\ f.mapDrawn \in BOOLEAN
      /\ f.mapDrawn => f.showsMap
  BY DEF Attempt
<1>3. ~TickDirty(f, changed) => f.layout = layout /\ ~changed
  BY <1>2, QuietTickStands DEF TickDirty
<1>4. /\ layout' = f.layout /\ stage' = NextStage(f) /\ forced' = GivesUp(f)
      /\ dirty' = DirtyAfter(f)
      /\ reported' = IF GivesUp(f) THEN "fallback"
                     ELSE IF f.showsMap THEN Reported(f) ELSE ReportedBefore
      /\ f.showsPov \/ TickDirty(f, changed) \/ dirty' => scheduled'
      /\ Draw(f, changed)
  BY <1>1 DEF Frame
<1> DEFINE onCpu == f.showsMap /\ Path(f) = "cpu"
<1>5. /\ content' = IF changed THEN 1 - content ELSE content
      /\ cpuShows' = IF onCpu /\ (MapDirty(f, changed) \/ resizeDirty) THEN content' ELSE cpuShows
      /\ f.mapDrawn => gpuShows' = content'
      /\ resizeDirty' = (resizeDirty /\ ~onCpu /\ ~f.mapDrawn)
  BY <1>4 DEF Draw
<1> HIDE DEF f
<1>6. ASSUME f.layout.mode = "Map", Reported(f) \notin {"gpu", "ready"}
      PROVE  Path(f) = "cpu" /\ cpuShows' = content'
  <2>1. f.showsMap /\ ~f.showsPov /\ ~(f.atlas /\ f.mapDrawn)
    BY <1>2, <1>6 DEF Reported
  <2>2. Path(f) = "cpu"
    BY <2>1 DEF Path
  <2>3. CASE MapDirty(f, changed) \/ resizeDirty
    BY <1>5, <2>1, <2>2, <2>3
  <2>4. CASE ~MapDirty(f, changed) /\ ~resizeDirty
    <3>1. /\ ~TickDirty(f, changed) /\ ~forced /\ ~Noticed /\ Reported(f) = ReportedBefore
      BY <2>1, <2>4 DEF MapDirty
    <3>2. layout.mode = "Map" /\ reported = Reported(f)
      BY <1>3, <1>6, <3>1 DEF ReportedBefore
    <3>3. cpuShows = content
      BY <1>6, <2>4, <3>1, <3>2 DEF CpuInv
    <3>4. cpuShows' = cpuShows
      BY <1>5, <2>4
    <3>5. ~changed
      BY <1>3, <3>1
    <3>6. content' = content
      BY <1>5, <3>5
    <3> QED BY <2>2, <3>3, <3>4, <3>6
  <2> QED BY <2>2, <2>3, <2>4
<1>7. CpuInv'
  <2> SUFFICES ASSUME layout'.mode = "Map", reported' \notin {"gpu", "ready"}, ~forced'
               PROVE  cpuShows' = content'
    BY DEF CpuInv
  <2>1. f.layout.mode = "Map" /\ f.showsMap /\ reported' = Reported(f)
    BY <1>2, <1>4
  <2> QED BY <1>6, <2>1
<1>8. ShownInv'
  <2> SUFFICES ASSUME ~scheduled' PROVE Shown' = content'
    BY DEF ShownInv
  <2>1. ~f.showsPov /\ ~dirty'
    BY <1>4
  <2>2. f.layout.mode = "Map" /\ f.showsMap
    BY <1>2, <2>1
  <2>3. CASE f.atlas /\ f.mapDrawn
    <3>1. stage' = "gpu" /\ gpuShows' = content'
      BY <1>4, <1>5, <2>3 DEF NextStage, Path
    <3> QED BY <3>1 DEF Shown
  <2>4. CASE ~(f.atlas /\ f.mapDrawn)
    <3>1. Reported(f) \notin {"gpu", "ready"}
      BY <2>4 DEF Reported
    <3>2. Path(f) = "cpu" /\ cpuShows' = content'
      BY <1>6, <2>2, <3>1
    <3>3. stage' = "cpu"
      BY <1>4, <2>1, <3>2 DEF NextStage
    <3> QED BY <3>2, <3>3 DEF Shown
  <2> QED BY <2>3, <2>4
<1> QED BY <1>7, <1>8

\* The loop sleeps only over a finished picture: nothing is queued, no request waits, no
\* input goes on, and the visible canvas shows the map as it is; for any pointers,
\* buttons, controls, failures and limits.
THEOREM SleepsWhenDone == Spec => []NothingWaits
<1>1. Init => CpuInv /\ ShownInv
  BY DEF Init, CpuInv, ShownInv
<1>2. PendingInv /\ CpuInv /\ ShownInv /\ [Next]_vars => CpuInv' /\ ShownInv'
  <2>1. CpuInv /\ ShownInv /\ UNCHANGED vars => CpuInv' /\ ShownInv'
    BY DEF CpuInv, ShownInv, Shown, vars, canvases, viewer, host
  <2> QED BY <2>1, EventsKeepShown, FrameKeepsShown DEF Next, PendingInv
<1>3. QuietInv /\ PendingInv /\ ShownInv => NothingWaits
  BY FailedFacts DEF QuietInv, Quiet, PendingInv, ShownInv, NothingWaits
<1> QED BY <1>1, <1>2, <1>3, QuietHolds, PendingHolds, PTL DEF Spec
=============================================================================
