------------------------------ MODULE WebShell ------------------------------
(***************************************************************************)
(* The browser shell (platform-web: src/lib.rs, web/assets/app.js and        *)
(* ui/keys.js): DOM events go through the InputMapper to the controller, and *)
(* a frame runs only if somebody asked for one.  The browser has one thread, *)
(* so a handler, or a frame, is one step; events, frames and what happens to *)
(* the device come in any order.                                             *)
(***************************************************************************)
EXTENDS InputMapper, Naturals, FiniteSets, SequencesExt, Replay

CONSTANTS
  Pointers, Buttons,   \* pointers and the buttons they have, "Primary" among them
  Toolbar,             \* the actions of the page's controls: [do, to]
  FailureLimit,        \* frames in a row that may fail to present (30 in app.js)
  MaxWork,             \* bound: frames the map goes on streaming after a move
  MaxEvents            \* bound: events

ToolbarCommands == LayoutCommands \cup [do : {"ToggleGpuCompose", "SaveSession"}, to : {"Map"}]

ASSUME WebAssumption ==
  /\ "Primary" \in Buttons /\ Toolbar \subseteq ToolbarCommands
  /\ FailureLimit \in Nat /\ MaxWork \in Nat /\ MaxEvents \in Nat
  /\ None \notin Pointers \cup Views

VARIABLES
  windowFocused, element,            \* the page: who has the focus
  keysDown, buttons, surface,        \* the world: keys, buttons, the state of the GPU surface
  scheduled,                         \* viewerFrameHandle
  captured,                          \* capturedPointerViews
  stage, failures,                   \* the visible canvas (gpuStageActive), rendererFailures
  resizeDirty, cpuShows, gpuShows,   \* surfaceResizeDirty, the map each canvas shows
  mapper, surfaceFocused, dirty,     \* BrowserViewerDriver
  layout, supported, backend,        \* the controller: view, POV support, preferred backend
  actions, inputs, pending,          \* its queues and unanswered requests
  content, work,                     \* the map as it is now, the frames it goes on streaming
  renderer,                          \* the slot and renderer_ready in one
  forced, retried, reported,         \* force_cpu_map_redraw, gpu_map_retry_scheduled, the map result
  events                             \* what MaxEvents counts

user == <<windowFocused, element, keysDown, buttons, surface>>
canvases == <<stage, failures, resizeDirty, cpuShows, gpuShows>>
driver == <<mapper, surfaceFocused, dirty>>
viewer == <<layout, supported, backend, pending, content, work>>
host == <<renderer, forced, retried, reported>>
vars == <<user, scheduled, captured, canvases, driver, viewer, actions, inputs, host, events>>

\* The end of initWasm: the first frame is asked for, the renderer being built.
Init ==
  /\ windowFocused = TRUE /\ element = "page" /\ keysDown = {} /\ surface = "fine"
  /\ buttons = [p \in Pointers |-> {}] /\ captured = [p \in Pointers |-> None]
  /\ scheduled = TRUE /\ stage = "cpu" /\ failures = 0
  /\ resizeDirty = TRUE /\ cpuShows = None /\ gpuShows = None
  /\ mapper = IdleMapper /\ surfaceFocused = FALSE /\ dirty = TRUE
  /\ layout = MapLayout /\ supported = FALSE /\ backend = "Cpu"
  /\ actions = <<>> /\ inputs = <<>> /\ pending = 0 /\ content = 0 /\ work = MaxWork
  /\ renderer = "starting" /\ forced = TRUE /\ retried = FALSE /\ reported = "cpu"
  /\ events = 0
-----------------------------------------------------------------------------
(* The driver *)

\* preview_layout: queued inputs first, then queued actions.
Availability(view, in) ==
  CASE in = "available"   -> [view EXCEPT !.supported = TRUE]
    [] in = "unavailable" -> [layout |-> MapLayout, supported |-> FALSE]
    [] OTHER -> view
Preview(queued) ==
  LET drained == Replay(Availability, [layout |-> layout, supported |-> supported], queued)
  IN  [drained EXCEPT !.layout =
         Replay(LAMBDA shown, c : Reduce(shown, drained.supported, c), @, actions)]

Context(on) == ContextOf(Preview(inputs).layout, on)
Routed == SetContext(mapper, Context(surfaceFocused))

Handle(r) ==
  /\ mapper' = r.mapper /\ actions' = actions \o r.queued /\ dirty' = (dirty \/ r.handled)
  /\ UNCHANGED surfaceFocused

\* Fault: a control takes the focus and the keys stay held.
SetSurfaceFocusOnly(on) ==
  /\ surfaceFocused' = on /\ dirty' = TRUE
  /\ mapper' = SetContext(mapper, Context(on))
SetSurfaceFocus(on) ==
  /\ surfaceFocused' = on /\ dirty' = TRUE
  /\ mapper' = SetContext(IF on THEN mapper ELSE Cleared(mapper), Context(on))

ScheduleFrame == scheduled' = TRUE

Event == events < MaxEvents /\ events' = events + 1
-----------------------------------------------------------------------------
(* Keys: keys.js.  A control that has the focus keeps its keys. *)

Heard == windowFocused /\ element # "control"

Forward(r) ==
  /\ IF Heard THEN Handle(r) /\ ScheduleFrame ELSE UNCHANGED <<driver, actions, scheduled>>
  /\ Event
  /\ UNCHANGED <<windowFocused, element, buttons, surface, captured, canvases, viewer, inputs, host>>

KeyDown(key, plain) ==
  /\ key \notin keysDown /\ keysDown' = keysDown \cup {key}
  /\ Forward(KeyPressed(Routed, key, plain))

KeyRepeat(key) ==
  /\ key \in keysDown /\ Heard /\ UNCHANGED keysDown
  /\ Forward(KeyPressed(Routed, key, FALSE))

KeyUp(key) ==
  /\ key \in keysDown /\ keysDown' = keysDown \ {key}
  /\ Forward(KeyReleased(Routed, key))
-----------------------------------------------------------------------------
(* Focus *)

FocusElement(e) ==
  /\ Event /\ windowFocused /\ e # element /\ element' = e
  /\ IF "surface" \in {e, element} THEN SetSurfaceFocus(e = "surface") ELSE UNCHANGED driver
  /\ UNCHANGED <<windowFocused, keysDown, buttons, surface, scheduled, captured, canvases,
                 viewer, actions, inputs, host>>

\* The canvas loses the focus with the window and has it back with the window.
WindowBlur ==
  /\ Event /\ windowFocused /\ windowFocused' = FALSE
  /\ surfaceFocused' = FALSE /\ dirty' = TRUE
  /\ mapper' = FocusChanged(SetContext(mapper, Context(FALSE)), FALSE).mapper
  /\ ScheduleFrame
  /\ UNCHANGED <<element, keysDown, buttons, surface, captured, canvases, viewer, actions, inputs, host>>

WindowFocus ==
  /\ Event /\ ~windowFocused /\ windowFocused' = TRUE
  /\ surfaceFocused' = (element = "surface") /\ dirty' = TRUE
  /\ mapper' = FocusChanged(SetContext(mapper, Context(element = "surface")), TRUE).mapper
  /\ UNCHANGED <<element, keysDown, buttons, surface, scheduled, captured, canvases,
                 viewer, actions, inputs, host>>
-----------------------------------------------------------------------------
(* Pointers.  hit_view asks for the layout of the last frame; None is a point *)
(* of no pane.  The first button that goes down is a pointerdown and the last *)
(* that goes up a pointerup; between them a button is a pointermove.          *)

Hits == {v \in Views : IsVisible(layout, v)} \cup {None}

Moved(p, hit, turned) ==
  LET view == IF captured[p] # None THEN captured[p] ELSE hit
      r == PointerMoved(Routed, p, view, turned)
  IN  IF view = None THEN UNCHANGED <<driver, actions, scheduled>>
      ELSE /\ Handle(r)
           /\ scheduled' = (scheduled \/ r.handled \/ HasContinuousInput(r.mapper))

Pressed(p, button, hit) ==
  LET focusing == element # "surface"
      m == IF focusing THEN SetContext(mapper, Context(TRUE)) ELSE mapper
      r == ButtonPressed(SetContext(m, Context(TRUE)), p, button, hit)
  IN  /\ element' = "surface" /\ surfaceFocused' = TRUE
      /\ IF hit = None
         THEN /\ mapper' = m /\ dirty' = (dirty \/ focusing)
              /\ UNCHANGED <<actions, captured, scheduled>>
         ELSE /\ mapper' = r.mapper /\ actions' = actions \o r.queued
              /\ dirty' = (dirty \/ focusing \/ r.handled)
              /\ captured' = IF r.handled THEN [captured EXCEPT ![p] = hit] ELSE captured
              /\ ScheduleFrame

Released(p, button, hit) ==
  LET view == IF hit # None THEN hit ELSE captured[p]
  IN  /\ IF view # None THEN Handle(ButtonReleased(Routed, p, button))
                        ELSE UNCHANGED <<driver, actions>>
      /\ captured' = [captured EXCEPT ![p] = None] /\ ScheduleFrame

Press(p, button, hit) ==
  /\ Event /\ windowFocused /\ button \notin buttons[p]
  /\ buttons' = [buttons EXCEPT ![p] = @ \cup {button}]
  /\ IF buttons[p] = {} THEN Pressed(p, button, hit)
     ELSE \E turned \in BOOLEAN : Moved(p, hit, turned) /\ UNCHANGED <<element, captured>>
  /\ UNCHANGED <<windowFocused, keysDown, surface, canvases, viewer, inputs, host>>

Release(p, button, hit) ==
  /\ Event /\ button \in buttons[p]
  /\ buttons' = [buttons EXCEPT ![p] = @ \ {button}]
  /\ IF buttons[p] = {button} THEN Released(p, button, hit)
     ELSE \E turned \in BOOLEAN : Moved(p, hit, turned) /\ UNCHANGED captured
  /\ UNCHANGED <<windowFocused, element, keysDown, surface, canvases, viewer, inputs, host>>

Move(p, hit, turned) ==
  /\ Event /\ Moved(p, hit, turned)
  /\ UNCHANGED <<user, captured, canvases, viewer, inputs, host>>

\* A pointer that is not captured is released beside the canvas.
ReleaseElsewhere(p) ==
  /\ Event /\ buttons[p] # {} /\ captured[p] = None
  /\ buttons' = [buttons EXCEPT ![p] = {}]
  /\ UNCHANGED <<windowFocused, element, keysDown, surface, scheduled, captured, canvases, driver,
                 viewer, actions, inputs, host>>

CancelPointer(p) ==
  /\ Handle(PointerCancelled(Routed, p)) /\ captured' = [captured EXCEPT ![p] = None]
  /\ ScheduleFrame /\ UNCHANGED <<windowFocused, element, keysDown, surface, canvases, viewer, inputs, host>>

Cancel(p) ==
  /\ Event /\ buttons[p] # {} /\ buttons' = [buttons EXCEPT ![p] = {}] /\ CancelPointer(p)

LoseCapture(p) == Event /\ captured[p] # None /\ UNCHANGED buttons /\ CancelPointer(p)

\* A captured pointer leaves the shell and its drag goes on.
Leave(p) ==
  /\ Event /\ ScheduleFrame
  /\ IF captured[p] = None THEN Handle(PointerCancelled(Routed, p)) ELSE UNCHANGED <<driver, actions>>
  /\ UNCHANGED <<user, captured, canvases, viewer, inputs, host>>

Wheel(hit, left) ==
  /\ Event /\ Handle(WheelTurned(Routed, hit, left)) /\ ScheduleFrame
  /\ UNCHANGED <<user, captured, canvases, viewer, inputs, host>>
-----------------------------------------------------------------------------
(* The page's controls, its size, and the renderer *)

Dispatch(c) ==
  /\ Event /\ actions' = Append(actions, c) /\ dirty' = TRUE /\ ScheduleFrame
  /\ UNCHANGED <<user, captured, canvases, mapper, surfaceFocused, viewer, inputs, host>>

\* resizeViewerSurface: both canvases are blank, and both dirty flags are set.
Resize ==
  /\ Event /\ resizeDirty' = TRUE /\ cpuShows' = None /\ gpuShows' = None
  /\ forced' = TRUE /\ dirty' = TRUE /\ ScheduleFrame
  /\ UNCHANGED <<user, captured, stage, failures, mapper, surfaceFocused, viewer, actions, inputs,
                 renderer, retried, reported>>

RendererReady ==
  /\ renderer = "starting" /\ renderer' = "up"
  /\ reported' = "ready" /\ retried' = FALSE
  /\ inputs' = Append(inputs, "available")
  /\ actions' = Append(actions, [do |-> "SelectGpu", to |-> "Map"])
  /\ dirty' = TRUE /\ ScheduleFrame
  /\ UNCHANGED <<user, captured, canvases, mapper, surfaceFocused, viewer, forced, events>>

\* renderer_failed, and what WebApp::renderer_unavailable and renderer_lost do besides.
RendererFailed ==
  /\ renderer = "starting" /\ renderer' = "down"
  /\ reported' = "fallback" /\ retried' = FALSE /\ forced' = TRUE
  /\ inputs' = Append(inputs, "unavailable")
  /\ mapper' = SetContext(Cleared(mapper), ContextOf(Preview(inputs').layout, surfaceFocused))
  /\ dirty' = TRUE /\ ScheduleFrame
  /\ UNCHANGED <<user, captured, canvases, surfaceFocused, viewer, actions, events>>

\* The callback only counts; the next frame reads the count.
LoseDevice ==
  /\ Event /\ renderer = "up" /\ renderer' = "dying"
  /\ UNCHANGED <<user, scheduled, captured, canvases, driver, viewer, actions, inputs,
                 forced, retried, reported>>

\* The surface is outdated until the next acquire repairs it, or occluded for a while.
ChangeSurface(s) ==
  /\ Event /\ s # surface /\ surface' = s
  /\ UNCHANGED <<windowFocused, element, keysDown, buttons, scheduled, captured, canvases, driver,
                 viewer, actions, inputs, host>>
-----------------------------------------------------------------------------
(* The frame: viewerFrame around WebApp::frame *)

Noticed == renderer = "dying"

\* The tick's inputs.
Drained == IF Noticed THEN Append(inputs, "unavailable") ELSE inputs

Asks(do) == \E i \in DOMAIN actions : actions[i].do = do
Failed(queue) == {i \in DOMAIN queue : queue[i] = "failed"}

\* Every service a browser cannot give is refused at the end of the frame.
Refusals == LET saves == {i \in DOMAIN actions : actions[i].do = "SaveSession"}
            IN  [i \in 1..Cardinality(saves) |-> "failed"]

Prefer(b, c) == CASE c.do = "SelectGpu" -> "Gpu"
                  [] c.do = "ToggleGpuCompose" -> (IF b = "Cpu" THEN "Gpu" ELSE "Cpu")
                  [] OTHER -> b

\* The one attempt to present what the tick has made of its queues.
Attempt(ticked) ==
  LET showsMap == ticked.layout.mode # "Pov"
      showsPov == ticked.layout.mode # "Map"
      preferred == FoldLeft(Prefer, backend, actions)
      atlas == showsMap /\ preferred = "Gpu" /\ renderer = "up"
      attempted == renderer = "up" /\ (showsPov \/ atlas)
      presented == attempted /\ surface = "fine"
  IN  [layout |-> ticked.layout, supported |-> ticked.supported, backend |-> preferred,
       mapper |-> SetContext(IF Noticed THEN Cleared(mapper) ELSE mapper,
                             ContextOf(ticked.layout, surfaceFocused)),
       showsMap |-> showsMap, showsPov |-> showsPov, atlas |-> atlas,
       attempted |-> attempted, presented |-> presented, mapDrawn |-> presented /\ showsMap]

\* From here on, `f` is the frame's Attempt.
MissesAtlas(f) == f.atlas /\ ~f.mapDrawn
ClaimsRetry(f) == MissesAtlas(f) /\ ~retried
Path(f) == IF (f.showsMap /\ f.showsPov) \/ (f.atlas /\ f.mapDrawn) THEN "gpu" ELSE "cpu"

\* record_map_result
ReportedBefore == IF Noticed THEN "fallback" ELSE reported
Reported(f) ==
  IF f.atlas /\ f.mapDrawn THEN "gpu" ELSE IF f.backend = "Gpu" THEN "fallback" ELSE "cpu"

MovesBy(f) == Moves(f.mapper) \/ Steers(f.mapper)

\* changed: the world or its presentation is not what the last frame showed.
TickDirty(f, changed) ==
  \/ changed \/ MovesBy(f)
  \/ \E i \in DOMAIN Drained : Drained[i] # "failed"
  \/ \E i \in DOMAIN actions : actions[i].do # "SaveSession"
\* The map canvas is also redrawn when what draws it has changed.
MapDirty(f, changed) ==
  \/ TickDirty(f, changed) \/ forced \/ Noticed
  \/ f.showsMap /\ Reported(f) # ReportedBefore
  \/ MissesAtlas(f)
  \/ f.showsMap /\ f.showsPov /\ ~f.mapDrawn

Failing(f) == IF ~f.attempted THEN failures ELSE IF f.presented THEN 0 ELSE failures + 1
GivesUp(f) == f.attempted /\ ~f.presented /\ Failing(f) > FailureLimit

NextStage(f) == IF f.showsPov \/ Path(f) = "gpu" THEN "gpu" ELSE "cpu"
\* syncViewMode moves the focus to the other canvas; a window without it sees no event.
Refocuses(f) == NextStage(f) # stage /\ element = "surface" /\ windowFocused

EndMapper(f) ==
  IF GivesUp(f) \/ Refocuses(f)
  THEN [Cleared(Sampled(f.mapper)) EXCEPT !.context =
          ContextOf(IF GivesUp(f) THEN MapLayout ELSE f.layout, surfaceFocused)]
  ELSE Sampled(f.mapper)

\* Fault: a frame does not take back the flag that asked for it.
DirtyStill(f) == dirty \/ Refusals # <<>> \/ ClaimsRetry(f) \/ GivesUp(f) \/ Refocuses(f)
DirtyAfter(f) == Refusals # <<>> \/ ClaimsRetry(f) \/ GivesUp(f) \/ Refocuses(f)

Draw(f, changed) ==
  LET shown == IF changed THEN 1 - content ELSE content
      onCpu == f.showsMap /\ Path(f) = "cpu"
  IN  /\ content' = shown
      /\ cpuShows' = IF onCpu /\ (MapDirty(f, changed) \/ resizeDirty) THEN shown ELSE cpuShows
      /\ gpuShows' = IF f.mapDrawn THEN shown ELSE IF f.presented THEN None ELSE gpuShows
      /\ resizeDirty' = (resizeDirty /\ ~onCpu /\ ~f.mapDrawn)

\* The map goes on changing for MaxWork frames after the last move.
Frame(f, changed, working) ==
  /\ scheduled
  /\ UNCHANGED <<windowFocused, element, keysDown, buttons, captured, surfaceFocused, events>>
  /\ changed => MovesBy(f) \/ work > 0 \/ Asks("Zoom")
  /\ IF Moves(f.mapper) THEN working <= MaxWork ELSE working = (IF work = 0 THEN 0 ELSE work - 1)
  /\ layout' = f.layout /\ supported' = f.supported /\ backend' = f.backend
  /\ actions' = <<>> /\ work' = working
  /\ inputs' = IF GivesUp(f) THEN Append(Refusals, "unavailable") ELSE Refusals
  /\ pending' = pending - Cardinality(Failed(inputs)) + Len(Refusals)
  /\ Draw(f, changed)
  /\ stage' = NextStage(f) /\ failures' = IF NextStage(f) # stage THEN 0 ELSE Failing(f)
  /\ renderer' = IF Noticed \/ GivesUp(f) THEN "down" ELSE renderer
  /\ forced' = GivesUp(f)
  /\ retried' = IF GivesUp(f) THEN FALSE ELSE IF f.showsMap THEN MissesAtlas(f) ELSE retried /\ ~Noticed
  /\ reported' = IF GivesUp(f) THEN "fallback" ELSE IF f.showsMap THEN Reported(f) ELSE ReportedBefore
  /\ surface' = IF f.attempted /\ surface = "outdated" THEN "fine" ELSE surface
  /\ mapper' = EndMapper(f) /\ dirty' = DirtyAfter(f)
  /\ scheduled' = \/ f.showsPov \/ MovesBy(f) \/ working > 0
                  \/ TickDirty(f, changed) \/ actions # <<>>
                  \/ dirty' \/ HasContinuousInput(mapper')
-----------------------------------------------------------------------------
Key == \E key \in Keys : KeyRepeat(key) \/ KeyUp(key) \/ \E plain \in BOOLEAN : KeyDown(key, plain)
Focus == WindowBlur \/ WindowFocus \/ \E e \in {"surface", "control", "page"} : FocusElement(e)
Pointer ==
  \E p \in Pointers :
    \/ \E hit \in Hits :
         \/ \E button \in Buttons : Press(p, button, hit) \/ Release(p, button, hit)
         \/ \E turned \in BOOLEAN : Move(p, hit, turned)
    \/ ReleaseElsewhere(p) \/ Cancel(p) \/ LoseCapture(p) \/ Leave(p)
Page == \/ \E hit \in Hits \ {None}, left \in BOOLEAN : Wheel(hit, left)
        \/ \E c \in Toolbar : Dispatch(c)
        \/ Resize
Device == \/ RendererReady \/ RendererFailed \/ LoseDevice
          \/ \E s \in {"fine", "outdated", "occluded"} : ChangeSurface(s)
AFrame ==
  \E ticked \in {Preview(Drained)} : \E f \in {Attempt(ticked)} :
    \E changed \in BOOLEAN, working \in 0..MaxWork : Frame(f, changed, working)

Next == Key \/ Focus \/ Pointer \/ Page \/ Device \/ AFrame

Spec == Init /\ [][Next]_vars
\* A browser calls back for the frame it was asked for.
FairSpec == Spec /\ WF_vars(AFrame)
-----------------------------------------------------------------------------
(* Properties *)

TypeOK ==
  /\ {windowFocused, scheduled, resizeDirty, surfaceFocused, dirty, supported, forced, retried}
       \subseteq BOOLEAN
  /\ element \in {"surface", "control", "page"} /\ surface \in {"fine", "outdated", "occluded"}
  /\ keysDown \subseteq Keys /\ buttons \in [Pointers -> SUBSET Buttons]
  /\ captured \in [Pointers -> Views \cup {None}]
  /\ stage \in {"cpu", "gpu"} /\ {cpuShows, gpuShows} \subseteq {0, 1, None}
  /\ mapper.held \subseteq Keys /\ mapper.drag \in Pointers \cup {None}
  /\ layout \in Layouts /\ backend \in {"Cpu", "Gpu"} /\ content \in {0, 1}
  /\ renderer \in {"starting", "up", "dying", "down"}
  /\ {failures, pending, work, events} \subseteq Nat

\* What the mapper holds is down: no key and no drag outlives its release, whether the
\* release comes here, goes to a control, to another window or to a canvas that is gone.
\* Otherwise the traveler would walk on, or the view turn, with nobody touching anything.
HeldIsDown ==
  /\ mapper.held \subseteq keysDown
  /\ mapper.drag # None => "Primary" \in buttons[mapper.drag]

\* The loop may sleep only when nothing is left to do: no queued action, notification or
\* request, no input that goes on, no view that moves by itself, and the map on the
\* visible canvas is the map as it is.  Nothing else would wake the loop.
Quiet ==
  /\ actions = <<>> /\ inputs = <<>>
  /\ ~HasContinuousInput(mapper) /\ layout.mode = "Map"
Shown == IF stage = "gpu" THEN gpuShows ELSE cpuShows
NothingWaits == scheduled \/ (Quiet /\ pending = 0 /\ Shown = content)

\* And it does sleep: over an idle map frames end, whatever has failed on the way.
Sleeps ==
  []<>(~scheduled \/ layout.mode # "Map" \/ keysDown \cap NavigationKeys # {})
=============================================================================
