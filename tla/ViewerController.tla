-------------------------- MODULE ViewerController --------------------------
(***************************************************************************)
(* The native viewer's frame (viewer-host/src/controller.rs, world.rs,      *)
(* platform-native/src/main.rs, world-runtime/src/route.rs): a tick drains  *)
(* the answers of earlier requests and the renderer's notifications, then    *)
(* reduces the queued actions, moves the traveler and updates the world;     *)
(* afterwards the shell serves the effects against the vault and queues     *)
(* their answers for the next tick.  The graphics device may go in between. *)
(***************************************************************************)
EXTENDS ViewLayout, Replay, FiniteSets

CONSTANTS
  Places,        \* where the traveler may stand, along a line
  Regions,       \* regions under those places
  RegionOf(_),   \* RegionCoord::from_world
  Commands,      \* the actions that input may queue: [do, to]
  None,          \* no camera, session or recording
  Spacing,       \* ROUTE_SAMPLE_SPACING
  MaxNodes,      \* MAX_ROUTE_NODES
  MaxCommands, MaxLosses, MaxFaults   \* bounds: actions, device losses, failed services

ServiceCommands == {"SaveSession", "LoadSession", "TogglePreserve",
                    "TogglePathTracking", "ToggleRouteRecording", "ClearRoutes"}

ASSUME ViewerAssumption ==
  /\ Places \subseteq Int /\ 0 \in Places /\ \A p \in Places : RegionOf(p) \in Regions
  /\ Commands \subseteq LayoutCommands \cup [do : ServiceCommands, to : {"Map"}]
  /\ Spacing \in Nat \ {0} /\ MaxNodes \in Nat
  /\ MaxCommands \in Nat /\ MaxLosses \in Nat /\ MaxFaults \in Nat
  /\ None \notin Places

VARIABLES
  phase,                                   \* "idle", "tick" or "serve"
  actions, inputs, effects,                \* the controller's three queues
  pending, nextRequest, lastSequence,      \* its requests and the last input taken
  layout, supported,                       \* what is shown, and whether POV may be
  place, camera,                           \* the traveler, and the POV camera over it
  tracking, recorder, owners,              \* paths, the expedition, preserved regions
  vault,                                   \* [preserves, routes, session]
  renderer, lossPending, lossFrame, ready, \* the device and its recovery
  responseSequence,                        \* the shell's counter
  commands, losses, faults                 \* what the bounds count

queues == <<actions, inputs, effects>>
requests == <<pending, nextRequest, lastSequence>>
screen == <<layout, supported>>
body == <<place, camera>>
world == <<tracking, recorder, owners>>
device == <<renderer, lossPending, lossFrame, ready>>
bounds == <<commands, losses, faults>>
vars == <<phase, queues, requests, screen, body, world, vault, device, responseSequence, bounds>>

(* Preserves: a record is the set of regions it pins, under its content id. *)
Contributions(preserves) == UNION {{p} \X p : p \in preserves}
Overridden == {pair[2] : pair \in owners}
-----------------------------------------------------------------------------
(* The preview of the layout *)

\* preview_layout, one queued input at a time.
PreviewInput(view, in) ==
  IF in.sequence <= view.last THEN view
  ELSE IF in.result.is # "Availability" THEN [view EXCEPT !.last = in.sequence]
  ELSE [last |-> in.sequence, supported |-> in.result.supported,
        layout |-> IF in.result.supported THEN view.layout ELSE MapLayout]

Drained == Replay(PreviewInput,
                  [last |-> lastSequence, supported |-> supported, layout |-> layout], inputs)

\* Fault: the actions are previewed with the support there is before the inputs.
PreviewAheadOfInputs ==
  Replay(LAMBDA shown, c : Reduce(shown, supported, c), layout, actions)
Preview ==
  LET drained == Drained
  IN  Replay(LAMBDA shown, c : Reduce(shown, drained.supported, c), drained.layout, actions)
-----------------------------------------------------------------------------
(* The route recorder.  `walked` is a ghost: where the traveler has been      *)
(* while this expedition was recorded.                                       *)

NewRecorder == [nodes |-> <<>>, last |-> None, accumulated |-> 0, walked |-> {}]

\* The samples one frame's segment from last to p asks for.
Samples(r, p) ==
  LET length == IF p > r.last THEN p - r.last ELSE r.last - p
      side == IF p > r.last THEN 1 ELSE -1
      room == MaxNodes - Len(r.nodes)
      due == (r.accumulated + length) \div Spacing
  IN  [i \in 1..(IF due < room THEN due ELSE room) |->
         r.last + side * (i * Spacing - r.accumulated)]

\* observe: `taken` of the samples lie in resident regions; the first that does
\* not ends the frame's sampling where the last one was taken.
Observe(r, p, taken) ==
  LET samples == Samples(r, p)
      length == IF p > r.last THEN p - r.last ELSE r.last - p
      nodes == r.nodes \o SubSeq(samples, 1, taken)
  IN  IF taken < Len(samples)
      THEN IF taken = 0 THEN r
           ELSE [r EXCEPT !.nodes = nodes, !.last = samples[taken], !.accumulated = 0]
      ELSE [r EXCEPT !.nodes = nodes, !.last = p,
                     !.accumulated = @ + length - taken * Spacing]

\* The recorder after the update at p.
Observed(p) ==
  IF recorder = None THEN {None}
  ELSE LET r == [recorder EXCEPT !.walked = @ \cup {p}]
       IN  IF Len(r.nodes) >= MaxNodes THEN {r}
           ELSE IF r.last = None
           THEN {r, [r EXCEPT !.nodes = Append(@, p), !.last = p]}
           ELSE {Observe(r, p, taken) : taken \in 0..Len(Samples(r, p))}
-----------------------------------------------------------------------------
(* Requests and their answers *)

Answer(id, result) ==
  [sequence |-> responseSequence + 1, request |-> id, result |-> result]

\* pov_availability: notifications take their numbers from the same counter.
Announce(notices) ==
  /\ inputs' = inputs \o [i \in DOMAIN notices |->
       [sequence |-> responseSequence + i, request |-> 0,
        result |-> [is |-> "Availability", supported |-> notices[i]]]]
  /\ responseSequence' = responseSequence + Len(notices)

Matches(kind, result) ==
  CASE result.is = "Failed" -> TRUE
    [] result.is = "Completed" -> kind \in {"SaveSession", "WriteRoute", "ConfigurePathTracking"}
    [] result.is = "SessionLoaded" -> kind = "LoadSession"
    [] result.is \in {"PreserveCreated", "PreserveRemoved"} -> kind = "MutatePreserve"
    [] result.is = "RoutesCleared" -> kind = "ClearRoutes"
    [] OTHER -> FALSE

\* begin_request, and the effect that carries the request, under its number, to the
\* shell.
Ask(kind, effect) ==
  /\ pending' = [id \in DOMAIN pending \cup {nextRequest} |->
                   IF id = nextRequest THEN kind ELSE pending[id]]
  /\ nextRequest' = nextRequest + 1
  /\ effects' = Append(effects, effect)
  /\ UNCHANGED lastSequence

\* After the first frames: the renderer resumed() built has been announced under
\* number 1, and path tracking, which starts off, may have been switched on.
Init ==
  /\ phase = "idle" /\ actions = <<>> /\ effects = <<>>
  /\ pending = <<>> /\ nextRequest = 1 /\ lastSequence = 1
  /\ inputs = <<>> /\ responseSequence = 1
  /\ layout = MapLayout /\ supported = TRUE
  /\ place = 0 /\ camera = None
  /\ tracking \in BOOLEAN /\ recorder = None
  /\ vault = [preserves |-> {}, routes |-> {}, session |-> None] /\ owners = {}
  /\ renderer = "up" /\ lossPending = FALSE /\ lossFrame = FALSE /\ ready = FALSE
  /\ commands = 0 /\ losses = 0 /\ faults = 0
-----------------------------------------------------------------------------
(* Between frames *)

EnqueueAction(c) ==
  /\ phase = "idle" /\ commands < MaxCommands
  /\ actions' = Append(actions, c) /\ commands' = commands + 1
  /\ UNCHANGED <<phase, inputs, effects, requests, screen, body, world, vault, device,
                 responseSequence, losses, faults>>

LoseDevice ==
  /\ phase = "idle" /\ renderer = "up" /\ ~lossPending /\ losses < MaxLosses
  /\ lossPending' = TRUE /\ losses' = losses + 1
  /\ UNCHANGED <<phase, queues, requests, screen, body, world, vault, renderer, lossFrame, ready,
                 responseSequence, commands, faults>>
-----------------------------------------------------------------------------
(* The tick *)

\* Fault: a replacement is announced before the tick of the loss.
EagerNotices(rebuilt) ==
  IF lossPending THEN IF rebuilt THEN <<FALSE, TRUE>> ELSE <<FALSE>> ELSE <<>>
LossNotices(rebuilt) == IF lossPending THEN <<FALSE>> ELSE <<>>
RecoveryNotices == IF ready THEN <<TRUE>> ELSE <<>>

\* recover_lost_renderer.  Without a device the rebuild succeeds, or fails, or is
\* not due yet.
BeginFrame(rebuilt) ==
  /\ phase = "idle" /\ phase' = "tick"
  /\ rebuilt => lossPending \/ renderer = "down"
  /\ renderer' = IF rebuilt THEN "up" ELSE IF lossPending THEN "down" ELSE renderer
  /\ ready' = IF lossPending THEN rebuilt ELSE ready \/ rebuilt
  /\ lossFrame' = lossPending /\ lossPending' = FALSE
  /\ Announce(LossNotices(rebuilt))
  /\ UNCHANGED <<actions, effects, requests, screen, body, world, vault, bounds>>

\* restore_session
RestoredTracking(loaded) == IF loaded.routes THEN loaded.session.tracking ELSE tracking
\* Fault: an expedition under way survives the load.
RecorderOutlivesLoad(loaded) == IF recorder # None THEN recorder ELSE loaded.session.recorder
RestoredRecorder(loaded) == IF loaded.routes THEN loaded.session.recorder ELSE None
\* Fault: the new map starts without the preserves.
OwnersForgotten(loaded) == {}
RestoredOwners(loaded) == Contributions(loaded.preserves)
\* Fault: the camera stays behind.
CameraStays(player) == camera
RestoredCamera(player) == IF camera = None THEN None ELSE player

\* apply_service_result for the three answers that change the world.
Apply(result) ==
  CASE result.is = "SessionLoaded" ->
         /\ place' = result.session.player
         /\ camera' = RestoredCamera(result.session.player)
         /\ tracking' = RestoredTracking(result)
         /\ recorder' = RestoredRecorder(result)
         /\ owners' = RestoredOwners(result)
    [] result.is = "PreserveCreated" ->
         /\ owners' = owners \cup Contributions({result.preserve})
         /\ UNCHANGED <<body, tracking, recorder>>
    [] result.is = "PreserveRemoved" ->
         /\ owners' = owners \ Contributions({result.preserve})
         /\ UNCHANGED <<body, tracking, recorder>>
    [] OTHER -> UNCHANGED <<body, world>>

\* set_pov_supported
DegradedLayout(on) == IF ~on /\ layout.mode # "Map" THEN MapLayout ELSE layout

\* drain_service_inputs, one input.
Drain ==
  /\ phase = "tick" /\ inputs # <<>> /\ inputs' = Tail(inputs)
  /\ LET in == Head(inputs)
         answers == /\ in.request \in DOMAIN pending
                    /\ Matches(pending[in.request], in.result)
     IN  IF in.sequence <= lastSequence
         THEN UNCHANGED <<requests, screen, body, world>>
         ELSE /\ lastSequence' = in.sequence
              /\ UNCHANGED nextRequest
              /\ IF in.result.is = "Availability"
                 THEN /\ supported' = in.result.supported
                      /\ layout' = DegradedLayout(in.result.supported)
                      /\ UNCHANGED <<pending, body, world>>
                 ELSE IF answers
                 THEN /\ pending' = [id \in DOMAIN pending \ {in.request} |-> pending[id]]
                      /\ Apply(in.result) /\ UNCHANGED screen
                 ELSE UNCHANGED <<pending, screen, body, world>>
  /\ UNCHANGED <<phase, actions, effects, vault, device, responseSequence, bounds>>

\* One action of the queue, once the inputs are drained.
Act(do) ==
  /\ phase = "tick" /\ inputs = <<>> /\ actions # <<>> /\ Head(actions).do = do
  /\ actions' = Tail(actions)
  /\ UNCHANGED <<phase, inputs, supported, body, vault, device, responseSequence, bounds>>

ReduceLayout ==
  /\ \E do \in {"SetPresentation", "FocusView", "TogglePrimaryView"} : Act(do)
  /\ layout' = Reduce(layout, supported, Head(actions))
  /\ UNCHANGED <<effects, requests, world>>

SaveSession ==
  /\ Act("SaveSession")
  /\ LET session == [player |-> place, tracking |-> tracking, recorder |-> recorder]
     IN  Ask("SaveSession", [id |-> nextRequest, do |-> "PersistSession", session |-> session])
  /\ UNCHANGED <<layout, world>>

LoadSession ==
  /\ Act("LoadSession") /\ Ask("LoadSession", [id |-> nextRequest, do |-> "LoadSession"])
  /\ UNCHANGED <<layout, world>>

\* request_preserve_mutation.  Which settled, pinned regions there are is the
\* map's business (RegionStream), and so is which owner has the lowest id.
TogglePreserve ==
  /\ Act("TogglePreserve")
  /\ \/ \E p \in {pair[1] : pair \in {o \in owners : o[2] = RegionOf(place)}} :
          Ask("MutatePreserve", [id |-> nextRequest, do |-> "RemovePreserve", preserve |-> p])
     \/ /\ RegionOf(place) \notin Overridden
        /\ \E settled \in SUBSET (Regions \ Overridden) :
             IF settled = {} THEN UNCHANGED <<effects, requests>>
             ELSE Ask("MutatePreserve",
                      [id |-> nextRequest, do |-> "CreatePreserve", preserve |-> settled])
  /\ UNCHANGED <<layout, world>>

RecorderWithTracking(on) == IF on THEN recorder ELSE None

TogglePathTracking ==
  /\ Act("TogglePathTracking")
  /\ tracking' = ~tracking
  /\ recorder' = RecorderWithTracking(~tracking)
  /\ Ask("ConfigurePathTracking", [id |-> nextRequest, do |-> "ConfigurePathTracking"])
  /\ UNCHANGED <<layout, owners>>

ToggleRouteRecording ==
  /\ Act("ToggleRouteRecording")
  /\ recorder' = IF tracking /\ recorder = None THEN NewRecorder
                 ELSE IF tracking THEN None ELSE recorder
  /\ IF tracking /\ recorder # None /\ Len(recorder.nodes) >= 2
     THEN LET route == [nodes |-> recorder.nodes, walked |-> recorder.walked]
          IN  Ask("WriteRoute", [id |-> nextRequest, do |-> "WriteRoute", route |-> route])
     ELSE UNCHANGED <<effects, requests>>
  /\ UNCHANGED <<layout, tracking, owners>>

ClearRoutes ==
  /\ Act("ClearRoutes") /\ recorder' = None
  /\ Ask("ClearRoutes", [id |-> nextRequest, do |-> "ClearRoutes"])
  /\ UNCHANGED <<layout, tracking, owners>>

\* prepare_pov_camera, apply_continuous_input and the world's update; what was
\* recovered before the tick is announced after it.
EnteredCamera == IF layout.mode # "Map" /\ camera = None THEN place ELSE camera

Move(step) ==
  IF layout.focused = "Map"
  THEN /\ place' = place + step
       /\ camera' = IF EnteredCamera = None THEN None ELSE EnteredCamera + step
  ELSE /\ camera' = IF EnteredCamera = None THEN None ELSE EnteredCamera + step
       /\ place' = IF EnteredCamera = None THEN place ELSE EnteredCamera + step

Update(step) ==
  /\ phase = "tick" /\ inputs = <<>> /\ actions = <<>> /\ phase' = "serve"
  /\ Move(step) /\ place' \in Places
  /\ recorder' \in Observed(place')
  /\ ready' = FALSE
  /\ Announce(RecoveryNotices)
  /\ UNCHANGED <<actions, effects, requests, screen, tracking, owners, vault,
                 renderer, lossPending, lossFrame, bounds>>
-----------------------------------------------------------------------------
(* handle_effects: the shell serves one effect and queues its answer *)

Serving(do) == phase = "serve" /\ effects # <<>> /\ Head(effects).do = do

Respond(result) ==
  /\ effects' = Tail(effects)
  /\ inputs' = Append(inputs, Answer(Head(effects).id, result))
  /\ responseSequence' = responseSequence + 1
  /\ UNCHANGED <<phase, actions, requests, screen, body, world, device, commands, losses>>

Succeed(result) == Respond(result) /\ UNCHANGED faults

\* A service fails: the store reports an error, or the vault refuses the record.
\* Fault: a failure is logged, and the request never answered.
FailSilently ==
  /\ faults < MaxFaults /\ faults' = faults + 1
  /\ effects' = Tail(effects)
  /\ UNCHANGED <<phase, actions, inputs, requests, screen, body, world, device, commands, losses,
                 responseSequence>>
Fail == /\ faults < MaxFaults /\ faults' = faults + 1
        /\ Respond([is |-> "Failed"])

\* persist_session: a failed flush leaves the snapshot in the vault's memory.
ServePersist ==
  /\ Serving("PersistSession")
  /\ LET kept == [vault EXCEPT !.session = Head(effects).session]
     IN  \/ Succeed([is |-> "Completed"]) /\ vault' = kept
         \/ Fail /\ vault' \in {vault, kept}

\* load_session_result: a session saved under other settings is incompatible.
ServeLoad ==
  /\ Serving("LoadSession") /\ UNCHANGED vault
  /\ IF vault.session = None THEN Succeed([is |-> "Failed"])
     ELSE Succeed([is |-> "SessionLoaded", session |-> vault.session,
                   routes |-> vault.session.tracking = tracking, preserves |-> vault.preserves])

ServeCreate ==
  /\ Serving("CreatePreserve")
  /\ LET p == Head(effects).preserve
     IN  \/ /\ Succeed([is |-> "PreserveCreated", preserve |-> p])
            /\ vault' = [vault EXCEPT !.preserves = @ \cup {p}]
         \/ Fail /\ UNCHANGED vault

ServeRemove ==
  /\ Serving("RemovePreserve")
  /\ LET p == Head(effects).preserve
     IN  \/ /\ p \notin vault.preserves
            /\ Succeed([is |-> "Failed"]) /\ UNCHANGED vault
         \/ /\ p \in vault.preserves
            /\ \/ /\ Succeed([is |-> "PreserveRemoved", preserve |-> p])
                  /\ vault' = [vault EXCEPT !.preserves = @ \ {p}]
               \/ Fail /\ UNCHANGED vault

ServeRoute ==
  /\ Serving("WriteRoute")
  /\ \/ /\ Succeed([is |-> "Completed"])
        /\ vault' = [vault EXCEPT !.routes = @ \cup {Head(effects).route}]
     \/ Fail /\ UNCHANGED vault

\* clear_routes_result stops at the first removal that fails.
ServeClear ==
  /\ Serving("ClearRoutes")
  /\ \E left \in SUBSET vault.routes :
       /\ vault' = [vault EXCEPT !.routes = left]
       /\ Respond([is |-> "RoutesCleared"])
       /\ IF left = {} THEN UNCHANGED faults
          ELSE faults < MaxFaults /\ faults' = faults + 1

ServeTracking ==
  /\ Serving("ConfigurePathTracking") /\ Succeed([is |-> "Completed"]) /\ UNCHANGED vault

Serve == ServePersist \/ ServeLoad \/ ServeCreate \/ ServeRemove \/ ServeRoute
           \/ ServeClear \/ ServeTracking

EndFrame ==
  /\ phase = "serve" /\ effects = <<>> /\ phase' = "idle"
  /\ UNCHANGED <<queues, requests, screen, body, world, vault, device, responseSequence, bounds>>
-----------------------------------------------------------------------------
Tick == \/ Drain \/ ReduceLayout \/ SaveSession \/ LoadSession \/ TogglePreserve
        \/ TogglePathTracking \/ ToggleRouteRecording \/ ClearRoutes
        \/ \E step \in {-1, 0, 1} : Update(step)
Frame == (\E rebuilt \in BOOLEAN : BeginFrame(rebuilt)) \/ Tick \/ Serve \/ EndFrame

Next == (\E c \in Commands : EnqueueAction(c)) \/ LoseDevice \/ Frame

Spec == Init /\ [][Next]_vars
-----------------------------------------------------------------------------
(* Properties *)

ExpeditionOK(r) ==
  r = None \/ /\ r.nodes \in Seq(Places) /\ Len(r.nodes) <= MaxNodes
              /\ r.last \in Places \cup {None} /\ r.walked \subseteq Places

\* The controller's types: what is shown, where the traveler is, what is recorded.
TypeOK ==
  /\ phase \in {"idle", "tick", "serve"} /\ layout \in Layouts
  /\ supported \in BOOLEAN /\ place \in Places /\ camera \in Places \cup {None}
  /\ tracking \in BOOLEAN /\ ExpeditionOK(recorder)
  /\ renderer \in {"up", "down"} /\ \A b \in {lossPending, lossFrame, ready} : b \in BOOLEAN
  /\ nextRequest \in Nat \ {0} /\ lastSequence \in Nat /\ responseSequence \in Nat

\* Every request that was begun has exactly one effect or one answer under way,
\* every queued answer names a pending request and fits it, and the numbers of
\* the queued inputs rise beyond the last one taken: none of the three warnings
\* of drain_service_inputs and apply_service_response can come up, whatever
\* order requests, failures and notifications come in.
EveryRequestIsAnswered ==
  /\ \A id \in DOMAIN pending :
       Cardinality({i \in DOMAIN effects : effects[i].id = id})
         + Cardinality({i \in DOMAIN inputs : inputs[i].request = id}) = 1
  /\ \A i \in DOMAIN inputs :
       /\ inputs[i].sequence > (IF i = 1 THEN lastSequence ELSE inputs[i - 1].sequence)
       /\ inputs[i].result.is = "Availability"
            \/ /\ inputs[i].request \in DOMAIN pending
               /\ Matches(pending[inputs[i].request], inputs[i].result)

\* The preserves the map will hold once the queued answers are in are those of
\* the vault: a load, a creation and a removal may be under way at once, one of
\* them may fail, and none is lost on the map or left there.
Held(held, in) ==
  CASE in.result.is = "SessionLoaded" -> Contributions(in.result.preserves)
    [] in.result.is = "PreserveCreated" -> held \cup Contributions({in.result.preserve})
    [] in.result.is = "PreserveRemoved" -> held \ Contributions({in.result.preserve})
    [] OTHER -> held
MapMirrorsVault == Replay(Held, owners, inputs) = Contributions(vault.preserves)

\* An expedition, open or recorded as a route, has nodes only where the traveler
\* went while it was recorded, also when sessions are saved and loaded under it,
\* and none is open while path tracking is off.
RouteWasTravelled ==
  /\ recorder # None => /\ tracking
                        /\ \A i \in DOMAIN recorder.nodes : recorder.nodes[i] \in recorder.walked
  /\ \A route \in vault.routes :
       \A i \in DOMAIN route.nodes : route.nodes[i] \in route.walked

\* Once the queue is drained POV is available exactly if there is a device whose
\* recovery is announced: a loss is never missed and a recovery never forgotten.
\* When a frame is drawn, POV is on the screen only over a device, and never in
\* the frame of a loss, even if the replacement is there and the player asks.
PovIsBacked ==
  /\ Drained.supported <=> renderer = "up" /\ ~ready
  /\ phase = "serve" /\ layout.mode # "Map" => renderer = "up" /\ ~lossFrame

\* Once there is a camera it stands where the traveler stands, whichever view
\* moves them and through loads; otherwise the next frame in POV would drag the
\* traveler back to it.
CameraIsTraveler == camera \in {None, place}

\* The layout that input was decoded against, with the queued inputs and actions
\* previewed, is the one the tick arrives at.
PreviewIsExact == [][phase = "tick" => Preview' = Preview]_vars
=============================================================================
