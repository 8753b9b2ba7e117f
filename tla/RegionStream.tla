---------------------------- MODULE RegionStream ----------------------------
(***************************************************************************)
(* The streaming map of world-runtime (stream.rs, RegionMap): the window   *)
(* of regions around the player, the possibility state each one holds, and *)
(* the generation jobs that turn that state into cached tiles on worker    *)
(* threads.  The main thread runs `update' once per frame; workers run jobs *)
(* at any time and send results back; between frames the host adds and      *)
(* removes preserves and bumps layer revisions.                            *)
(*                                                                         *)
(* A dependency hash is modelled by the set of facts it folds, so two       *)
(* hashes are equal exactly when everything they stand for is equal.  A     *)
(* tile's content is the set of facts it was really computed from.          *)
(***************************************************************************)
EXTENDS Integers, FiniteSets

CONSTANTS
  \* ---- geometry
  Coords,        \* level-0 region coordinates, a finite set of integers
  Macros,        \* macro coordinates
  MacroOf,       \* [Coords -> Macros]: macro_coord_for
  Neighbours,    \* [Coords -> SUBSET Coords]: the 3x3 halo of a region, itself included
  Players,       \* positions the player can be at
  Distance,      \* [Players -> [Coords -> Nat]]: center_distance
  MacroDistance, \* [Players -> [Macros -> Nat]]: distance between macro cells
  NearRadius, LoadRadius, UnloadRadius,
  \* ---- layers
  Layers,        \* layer ids, a finite set of naturals
  TERRAIN, DRAINAGE, HYDROLOGY,
  Deps,          \* [Layers -> SUBSET Layers]: declared inputs
  Reads,         \* [Layers -> SUBSET Domains]: domains read directly
  CostOf,        \* [SUBSET Layers -> Nat]: declared generation cost of a set of layers
  Closure,       \* [Layers -> SUBSET Layers]: dependents_closure
  Upstream,      \* [Layers -> SUBSET Layers]: layers folded into a layer's key
  \* ---- possibility state
  Domains,       \* possibility domains
  SlowDomains,   \* the terrain pair: Planetary and Geology
  Buckets,       \* quantized values of one domain, integers
  Recipes,       \* possibility field recipes
  CellRegions,   \* [Recipes -> Nat]: the lattice spacing folded into macro keys
  Sample,        \* [Recipes -> [Coords -> Vectors]]: the field's own value
  Steerings,     \* bias and anchors as one value: steering_signature
  TargetFor,     \* [Recipes -> [Steerings -> [Coords -> Vectors]]]: target_for
  NoSteering,    \* steer_signature before the first frame
  Sessions,      \* sets of regions a session may restore, {} for a new world
  Restored,      \* realized states a restored region may have, a subset of Vectors
  PreserveIds,   \* content ids of preserves, naturals
  Signature,     \* [PreserveIds -> [Coords -> Vectors]]: buckets a preserve pins
  \* ---- budgets, capacities and switches of the code
  MaxLoads, MaxRetarget, MaxConverge, MaxRegenCost,
  MaxFields,     \* max_field_cache_bytes in whole region payloads
  MaxMacros,     \* max_macro_cache_bytes in whole macro tiles
  Workers,       \* worker threads
  WorkerPoints,  \* passes during which the model lets workers step
  Cancellation,  \* set_cancellation_enabled
  \* ---- bounds of the model
  MaxOps,        \* steps of the environment: inputs that change, API calls, job panics
  MaxRevision,   \* run-local revision bumps of one layer
  Panics         \* whether jobs may panic

VARIABLES
  regions,       \* coordinates that hold authority (the keys of RegionMap::regions)
  status,        \* [Coords -> GenerationStatus]; "Unloaded" is parked or absent
  current,       \* [Coords -> Vectors]: realized buckets
  target,        \* [Coords -> Vectors]
  dirty,         \* [Coords -> SUBSET Layers]: dirty_layers
  contributors,  \* [Coords -> SUBSET PreserveIds]: preserve_contributors
  store,         \* [Keys -> Tile or NoTile]: RegionCache and MacroCache
  inFlight,      \* [Keys -> InFlightJob or NoJob]
  nextJobId,
  jobs,          \* jobs handed to the executor and not finished
  results,       \* the results channel
  fieldRecipe, revisionBumps, steerSignature,
  input,         \* arguments of the frame in progress: player and steering
  pc,            \* pass of `update' the main thread is in, "idle" between frames
  todo,          \* regions the dispatch pass in progress has not visited
  dispatched,    \* dispatched_this_pass
  spent,         \* stats.regen_cost_spent
  ops            \* environment steps taken (bound of the model)

mapVars   == <<regions, status, current, target, dirty, contributors>>
jobVars   == <<store, inFlight, nextJobId, jobs, results>>
envVars   == <<fieldRecipe, revisionBumps, steerSignature, input>>
frameVars == <<pc, todo, dispatched, spent>>
vars == <<mapVars, jobVars, envVars, frameVars, ops>>

-----------------------------------------------------------------------------
(* Keys, vectors and the facts a dependency hash folds.                    *)

Vectors    == [Domains -> Buckets]
TileLayers == Layers \ {DRAINAGE}
TileKeys   == Coords \X TileLayers
MacroKeys  == Macros \X {DRAINAGE}
Keys       == TileKeys \cup MacroKeys

ASSUME GeometryAssumption ==
  /\ Coords \subseteq Int /\ IsFiniteSet(Coords)
  /\ Macros \subseteq Int
  /\ MacroOf \in [Coords -> Macros]
  /\ Neighbours \in [Coords -> SUBSET Coords]
  /\ Distance \in [Players -> [Coords -> Nat]]
  /\ MacroDistance \in [Players -> [Macros -> Nat]]
  /\ NearRadius <= LoadRadius /\ LoadRadius <= UnloadRadius

\* What the declaration table guarantees (GraphFitsTheMap of RegionStreamProofs shows it
\* of every table whose inputs have lower ids): the closures contain every layer whose
\* key a change of the layer can reach.
ASSUME LayerAssumption ==
  /\ Layers \subseteq Nat /\ IsFiniteSet(Layers)
  /\ {TERRAIN, DRAINAGE, HYDROLOGY} \subseteq Layers /\ TERRAIN # DRAINAGE
  /\ Deps \in [Layers -> SUBSET Layers]
  /\ Reads \in [Layers -> SUBSET Domains]
  /\ CostOf \in [SUBSET Layers -> Nat]
  /\ Closure \in [Layers -> SUBSET Layers]
  /\ \A l \in Layers :
       Upstream[l] = IF l = DRAINAGE THEN {l}
                     ELSE {l} \cup UNION {Upstream[d] : d \in Deps[l]}
  /\ \A l \in Layers : \A u \in Upstream[l] : u \in Layers /\ l \in Closure[u]
  /\ \A l \in Layers : DRAINAGE \in Upstream[l] => l \in Closure[TERRAIN]

ASSUME StateAssumption ==
  /\ SlowDomains \subseteq Domains
  /\ Buckets \subseteq Int /\ Buckets # {}
  /\ CellRegions \in [Recipes -> Int]
  /\ Sample \in [Recipes -> [Coords -> Vectors]]
  /\ TargetFor \in [Recipes -> [Steerings -> [Coords -> Vectors]]]
  /\ Sessions \subseteq SUBSET Coords
  /\ Restored \subseteq Vectors
  /\ Signature \in [PreserveIds -> [Coords -> Vectors]]

\* Content ids are totally ordered: every set of contributors has a lowest one.
ASSUME PreserveAssumption ==
  /\ PreserveIds \subseteq Nat
  /\ \A ids \in SUBSET PreserveIds : ids # {} => \E i \in ids : \A j \in ids : i <= j

ASSUME BudgetAssumption ==
  /\ MaxLoads \in Nat /\ MaxRetarget \in Nat /\ MaxConverge \in Nat
  /\ MaxRegenCost \in Nat /\ MaxFields \in Nat /\ MaxMacros \in Nat
  /\ MaxOps \in Nat /\ MaxRevision \in Nat
  /\ Cancellation \in BOOLEAN /\ Panics \in BOOLEAN

NoTile == [none |-> "tile"]
NoJob  == [none |-> "job"]

Statuses == {"Unloaded", "Generating", "Ready"}

\* The key under which layer d is an input of region c.
InputKey(c, d) == IF d = DRAINAGE THEN <<MacroOf[c], DRAINAGE>> ELSE <<c, d>>

\* The cached inputs a generation job snapshots; a macro job reads no tile.
InputKeys(k) ==
  IF k[2] = DRAINAGE THEN {} ELSE {InputKey(k[1], d) : d \in Deps[k[2]]}

Slow(v) == [d \in SlowDomains |-> v[d]]

\* effective_terrain_pair: resident authority, parked included, else the recipe.
TerrainPair(c) ==
  IF c \in regions THEN Slow(current[c]) ELSE Slow(Sample[fieldRecipe][c])

RevisionFact(l) == <<"revision", l, revisionBumps[l]>>

\* What a layer's own fold adds to its inputs: terrain_dep_hash reads the halo,
\* drainage_dep_hash the terrain algorithm and the lattice spacing, layer_dep_hash
\* the buckets of the domains the layer declares.
OwnFacts(k) ==
  LET l == k[2] IN
  {RevisionFact(l)} \cup
  CASE l = TERRAIN  -> {<<"pair", s, TerrainPair(s)>> : s \in Neighbours[k[1]]}
    [] l = DRAINAGE -> {RevisionFact(TERRAIN), <<"cell", 0, CellRegions[fieldRecipe]>>}
    [] OTHER        -> {<<"bucket", d, current[k[1]][d]>> : d \in Reads[l]}

\* expected_layer_hash and expected_macro_hash: what the key of k is now.
ExpectedHash(k) ==
  IF k[2] = DRAINAGE THEN OwnFacts(k)
  ELSE UNION {OwnFacts(InputKey(k[1], u)) : u \in Upstream[k[2]]}

\* What generate_layer computes at dispatch: its own reads and the snapshot of
\* the cached inputs, whatever those hold.
GeneratedContent(k) == OwnFacts(k) \cup UNION {store[i].content : i \in InputKeys(k)}

-----------------------------------------------------------------------------
(* Shared helpers.                                                         *)

Active(c) == status[c] # "Unloaded"       \* field_active

Preserved(c) == contributors[c] # {}

\* effective_preserve: the lowest content id owns the region.
Winner(ids) == CHOOSE i \in ids : \A j \in ids : i <= j
EffectiveSignature(c, ids) == Signature[Winner(ids)][c]

Dist(c) == Distance[input.player][c]
Near(c) == Dist(c) <= NearRadius

\* The first n of S in nearest-first (farthest-first) order, ties by coordinate.
NearestOf(dist, S, n) ==
  {a \in S : Cardinality({b \in S : \/ dist[b] < dist[a]
                                    \/ dist[b] = dist[a] /\ b < a}) < n}

FarthestOf(dist, S, n) ==
  {a \in S : Cardinality({b \in S : \/ dist[b] > dist[a]
                                    \/ dist[b] = dist[a] /\ b < a}) < n}

DomainDirtyMask(flipped) == UNION {Closure[l] : l \in {m \in Layers : Reads[m] \cap flipped # {}}}

\* Fault: only rising buckets count as flips.
FlipsRising(v, w) == {d \in Domains : v[d] < w[d]}

Flips(v, w) == {d \in Domains : v[d] # w[d]}

\* Fault: only the region that moved, not its halo.
TerrainMarksCentre(c, moved) == IF Active(c) /\ c \in moved THEN Closure[TERRAIN] ELSE {}

\* Layers to mark in c when the terrain pairs of `moved' changed:
\* invalidate_terrain_consumers reaches admitted regions only.
TerrainMarks(c, moved) ==
  IF Active(c) /\ Neighbours[c] \cap moved # {} THEN Closure[TERRAIN] ELSE {}

KeysOf(marks) == {k \in TileKeys : k[2] \in marks[k[1]]}

\* jobs after the tokens of the retired entries are flipped (retire_in_flight).
CancelTokens(retired) ==
  {IF Cancellation /\ (\E k \in retired : inFlight[k] # NoJob /\ inFlight[k].id = j.id)
   THEN [j EXCEPT !.cancelled = TRUE] ELSE j : j \in jobs}

Forget(retired) == [k \in Keys |-> IF k \in retired THEN NoJob ELSE inFlight[k]]

\* Dirty marks[c] in every c, let Ready regions that got a mark regenerate, and
\* retire the jobs of the marked layers together with the keys in `also'.
Invalidate(marks, also) ==
  /\ dirty'  = [c \in Coords |-> dirty[c] \cup marks[c]]
  /\ status' = [c \in Coords |-> IF marks[c] # {} /\ status[c] = "Ready"
                                 THEN "Generating" ELSE status[c]]
  /\ inFlight' = Forget(KeysOf(marks) \cup also)
  /\ jobs' = CancelTokens(KeysOf(marks) \cup also)

EnvStep == ops < MaxOps /\ ops' = ops + 1

-----------------------------------------------------------------------------
(* Initial states: an empty map, or the regions of a restored session, which *)
(* restore_region inserts parked with any realized buckets.                 *)

Blank == [d \in Domains |-> CHOOSE b \in Buckets : TRUE]

Init ==
  /\ regions \in Sessions
  /\ status = [c \in Coords |-> "Unloaded"]
  /\ current \in [Coords -> Restored \cup {Blank}]
  /\ \A c \in Coords : c \notin regions => current[c] = Blank
  /\ \A c \in regions : current[c] \in Restored
  /\ target = current
  /\ dirty = [c \in Coords |-> {}]
  /\ contributors = [c \in Coords |-> {}]
  /\ store = [k \in Keys |-> NoTile]
  /\ inFlight = [k \in Keys |-> NoJob]
  /\ nextJobId = 0
  /\ jobs = {}
  /\ results = {}
  /\ fieldRecipe \in Recipes
  /\ revisionBumps = [l \in Layers |-> 0]
  /\ steerSignature = NoSteering
  /\ input \in [player : Players, steering : Steerings]
  /\ pc = "idle"
  /\ todo = {}
  /\ dispatched = FALSE
  /\ spent = 0
  /\ ops = 0

-----------------------------------------------------------------------------
(* Calls of the host between two frames.                                    *)

\* The effect of a changed contributor set on one region (reconcile_preserve_winner,
\* apply_effective_preserve_signature): a new effective signature snaps a resident
\* region; an equal one, and losing the last contributor, change nothing.
Reconcile(c, ids) ==
  LET new   == EffectiveSignature(c, ids)
      snap  == /\ c \in regions
               /\ ids # {}
               /\ contributors[c] # {} => new # EffectiveSignature(c, contributors[c])
      moved == IF snap /\ Slow(current[c]) # Slow(new) THEN {c} ELSE {}
      mask  == IF snap THEN DomainDirtyMask(Flips(current[c], new)) ELSE {}
  IN  /\ contributors' = [contributors EXCEPT ![c] = ids]
      /\ current' = IF snap THEN [current EXCEPT ![c] = new] ELSE current
      /\ target'  = IF snap THEN [target EXCEPT ![c] = new] ELSE target
      /\ Invalidate([x \in Coords |-> TerrainMarks(x, moved) \cup
                                      IF x = c THEN mask ELSE {}], {})

ApplyPreserves(c, ids) ==
  /\ pc = "idle"
  /\ EnvStep
  /\ ids # {}
  /\ Reconcile(c, contributors[c] \cup ids)
  /\ UNCHANGED <<regions, store, nextJobId, results, envVars, frameVars>>

\* Fault: releasing a preserve forgets to hand over to the next contributor.
RemovePreserveSilently(c, id) ==
  /\ pc = "idle"
  /\ EnvStep
  /\ contributors' = [contributors EXCEPT ![c] = @ \ {id}]
  /\ UNCHANGED <<regions, status, current, target, dirty, jobVars, envVars, frameVars>>

RemovePreserve(c, id) ==
  /\ pc = "idle"
  /\ EnvStep
  /\ id \in contributors[c]
  /\ Reconcile(c, contributors[c] \ {id})
  /\ UNCHANGED <<regions, store, nextJobId, results, envVars, frameVars>>

BumpLayerRevision(l) ==
  /\ pc = "idle"
  /\ EnvStep
  /\ revisionBumps[l] < MaxRevision
  /\ revisionBumps' = [revisionBumps EXCEPT ![l] = @ + 1]
  /\ Invalidate([c \in Coords |-> IF c \in regions THEN Closure[l] ELSE {}],
                IF DRAINAGE \in Closure[l] THEN MacroKeys ELSE {})
  /\ UNCHANGED <<regions, current, target, contributors, store, nextJobId, results,
                 fieldRecipe, steerSignature, input, frameVars>>

-----------------------------------------------------------------------------
(* The worker threads.  A cancelled job is discarded only if its token is    *)
(* already set when the worker looks; a job that started always reports.     *)

StartJob(j) ==
  /\ ~j.started
  /\ Cardinality({i \in jobs : i.started}) < Workers
  /\ jobs' = (jobs \ {j}) \cup (IF j.cancelled THEN {} ELSE {[j EXCEPT !.started = TRUE]})
  /\ UNCHANGED <<mapVars, store, inFlight, nextJobId, results, envVars, frameVars, ops>>

Report(j, ok) ==
  /\ j.started
  /\ jobs' = jobs \ {j}
  /\ results' = results \cup
       {[key |-> j.key, id |-> j.id, hash |-> j.hash, content |-> j.content, ok |-> ok]}
  /\ UNCHANGED <<mapVars, store, inFlight, nextJobId, envVars, frameVars>>

FinishJob(j) == Report(j, TRUE) /\ UNCHANGED ops

\* catch_unwind turns a panic into a failure result.
FailJob(j) == Panics /\ Report(j, FALSE) /\ EnvStep

-----------------------------------------------------------------------------
(* The frame: update() as the sequence of its passes.                       *)

\* A new recipe moves the macro key and the halo every terrain key folds.
RecipeMarks(changed) ==
  [c \in Coords |-> IF changed /\ Active(c) THEN Closure[TERRAIN] ELSE {}]

\* synchronize_field_recipe, and the arguments of this frame.
BeginFrame(p, s, r) ==
  LET changed == r # fieldRecipe IN
  /\ pc = "idle"
  /\ IF changed \/ input # [player |-> p, steering |-> s] THEN EnvStep ELSE UNCHANGED ops
  /\ pc' = "integrate"
  /\ input' = [player |-> p, steering |-> s]
  /\ fieldRecipe' = r
  /\ target' = [c \in Coords |-> IF changed /\ c \in regions /\ ~Preserved(c)
                                 THEN TargetFor[r][s][c] ELSE target[c]]
  /\ Invalidate(RecipeMarks(changed), IF changed THEN MacroKeys ELSE {})
  /\ UNCHANGED <<regions, current, contributors, store, nextJobId, results,
                 revisionBumps, steerSignature, todo, dispatched, spent>>

\* ---- integrate_finished: one result of the channel per step ----

Integrating == pc \in {"integrate", "dispatch", "final"}

Owned(r) == inFlight[r.key] # NoJob /\ inFlight[r.key].id = r.id

\* Fault: every successful result is published (the gate before ADR 0019).
PublishableAlways(r) == r.ok

\* ADR 0019: the result must carry the key of its dispatch and the key of now.
Publishable(r) ==
  /\ Owned(r)
  /\ r.ok
  /\ r.hash = inFlight[r.key].hash
  /\ r.hash = ExpectedHash(r.key)

DropLateResult(r) ==
  /\ Integrating
  /\ ~Owned(r)
  /\ results' = results \ {r}
  /\ UNCHANGED <<mapVars, store, inFlight, nextJobId, jobs, envVars, frameVars, ops>>

\* Regions that read macro tile m: mark_macro_dependents_dirty covers parked ones.
Covered(m) == {c \in regions : MacroOf[c] = m}

\* reject_generated_result, reject_macro_result and the two reject_failed_... .
RejectResult(r) ==
  /\ Integrating
  /\ Owned(r)
  /\ ~Publishable(r)
  /\ results' = results \ {r}
  /\ Invalidate([c \in Coords |->
                   CASE r.key[2] = DRAINAGE /\ c \in Covered(r.key[1]) -> Closure[DRAINAGE]
                     [] r.key[2] # DRAINAGE /\ r.key[1] = c /\ c \in regions -> Closure[r.key[2]]
                     [] OTHER -> {}],
                {r.key})
  /\ UNCHANGED <<regions, current, target, contributors, store, nextJobId, envVars,
                 frameVars, ops>>

Changes(r) == store[r.key] = NoTile \/ store[r.key].hash # r.hash

AcceptMacro(r) ==
  /\ Integrating
  /\ Publishable(r)
  /\ r.key[2] = DRAINAGE
  /\ results' = results \ {r}
  /\ store' = [store EXCEPT ![r.key] = [hash |-> r.hash, content |-> r.content]]
  /\ Invalidate([c \in Coords |-> IF Changes(r) /\ c \in Covered(r.key[1])
                                  THEN {HYDROLOGY} ELSE {}],
                {r.key})
  /\ UNCHANGED <<regions, current, target, contributors, nextJobId, envVars, frameVars, ops>>

\* refresh_status of c, over the new dirty bits and in-flight entries.
RefreshedStatus(c) ==
  IF ~Active(c) THEN status[c]
  ELSE IF dirty'[c] = {} /\ (\A l \in TileLayers : inFlight'[<<c, l>>] = NoJob)
       THEN "Ready" ELSE "Generating"

AcceptTile(r) ==
  LET c == r.key[1]
      l == r.key[2]
      dependents == IF Changes(r) THEN Closure[l] \ {l} ELSE {}
      retired == {<<c, d>> : d \in dependents \ {DRAINAGE}}
  IN  /\ Integrating
      /\ Publishable(r)
      /\ l # DRAINAGE
      /\ results' = results \ {r}
      /\ store' = [store EXCEPT ![r.key] = [hash |-> r.hash, content |-> r.content]]
      /\ dirty' = [dirty EXCEPT ![c] = (@ \ {l}) \cup dependents]
      /\ inFlight' = Forget(retired \cup {r.key})
      /\ jobs' = CancelTokens(retired)
      /\ status' = [status EXCEPT ![c] = RefreshedStatus(c)]
      /\ UNCHANGED <<regions, current, target, contributors, nextJobId, envVars,
                     frameVars, ops>>

\* Fault: the cost budget is not refilled for the next frame.
ChannelDrainedNoRefill ==
  /\ Integrating
  /\ results = {}
  /\ pc' = CASE pc = "integrate" -> "evict"
             [] pc = "dispatch"  -> "pass"
             [] pc = "final"     -> "idle"
  /\ todo' = IF pc = "dispatch" THEN {c \in Coords : Active(c)} ELSE {}
  /\ dispatched' = FALSE
  /\ UNCHANGED <<mapVars, jobVars, envVars, spent, ops>>

\* The channel is empty: the first drain goes on to evict, a drain of the dispatch
\* loop to a pass over the active regions, the last one ends the frame.
ChannelDrained ==
  /\ Integrating
  /\ results = {}
  /\ pc' = CASE pc = "integrate" -> "evict"
             [] pc = "dispatch"  -> "pass"
             [] pc = "final"     -> "idle"
  /\ todo' = IF pc = "dispatch" THEN {c \in Coords : Active(c)} ELSE {}
  /\ dispatched' = FALSE
  /\ spent' = IF pc = "final" THEN 0 ELSE spent
  /\ UNCHANGED <<mapVars, jobVars, envVars, ops>>

\* ---- evict: radius sweep, capacity, and the caches nothing active reads ----

\* Regions charged to the field target: near and preserved ones are exempt.
Disposable(S) == {c \in S : Active(c) /\ ~Near(c) /\ ~Preserved(c)}

\* Fault: only what the cache holds is dropped.
ParkedKeysCached(cleared) == {k \in TileKeys : k[1] \in cleared /\ store[k] # NoTile}

\* Every dispatch of a parked region is cancelled with it.
ParkedKeys(cleared) == {k \in TileKeys : k[1] \in cleared}

Evict ==
  LET dist    == Distance[input.player]
      gone    == {c \in regions : dist[c] > UnloadRadius}
      charged == Disposable(regions \ gone)
      parked  == FarthestOf(dist, charged, Cardinality(charged) - MaxFields)
      cleared == gone \cup parked
      moved   == {c \in gone : Slow(current[c]) # Slow(Sample[fieldRecipe][c])}
      marks   == [c \in Coords |-> IF c \in cleared THEN {} ELSE TerrainMarks(c, moved)]
      served  == {c \in Coords \ cleared : Active(c)}
      orphans == IF cleared = {} THEN {} ELSE Macros \ {MacroOf[c] : c \in served}
      wanted  == {MacroOf[c] : c \in {x \in served : HYDROLOGY \in dirty[x] \cup marks[x]}}
      cached  == {m \in Macros : store[<<m, DRAINAGE>>] # NoTile}
      trimmed == FarthestOf(MacroDistance[input.player], cached \ wanted,
                            Cardinality(cached) - MaxMacros)
      retired == ParkedKeys(cleared) \cup KeysOf(marks) \cup (orphans \X {DRAINAGE})
  IN  /\ pc = "evict"
      /\ pc' = "load"
      /\ regions' = regions \ gone
      /\ current' = [c \in Coords |-> IF c \in gone THEN Blank ELSE current[c]]
      /\ target'  = [c \in Coords |-> IF c \in gone THEN Blank ELSE target[c]]
      /\ dirty'   = [c \in Coords |-> IF c \in cleared THEN {} ELSE dirty[c] \cup marks[c]]
      /\ status'  = [c \in Coords |->
                       IF c \in cleared THEN "Unloaded"
                       ELSE IF marks[c] # {} /\ status[c] = "Ready" THEN "Generating"
                       ELSE status[c]]
      /\ store' = [k \in Keys |->
                     IF k[2] = DRAINAGE
                     THEN IF k[1] \in orphans \cup trimmed THEN NoTile ELSE store[k]
                     ELSE IF k[1] \in cleared THEN NoTile ELSE store[k]]
      /\ inFlight' = Forget(retired)
      /\ jobs' = CancelTokens(retired)
      /\ UNCHANGED <<contributors, nextJobId, results, envVars, todo, dispatched, spent, ops>>

\* ---- load: create parked authority, then admit field working sets ----

\* target_for with the steering of this frame.
Goal(c) == TargetFor[fieldRecipe][input.steering][c]

Load ==
  LET dist    == Distance[input.player]
      created == NearestOf(dist, {c \in Coords \ regions : dist[c] <= LoadRadius}, MaxLoads)
      fresh   == [c \in Coords |-> IF Preserved(c) THEN EffectiveSignature(c, contributors[c])
                                   ELSE Goal(c)]
      moved   == {c \in created : Slow(fresh[c]) # Slow(Sample[fieldRecipe][c])}
      parked  == {c \in regions \cup created :
                    ~Active(c) /\ (dist[c] <= LoadRadius \/ Preserved(c))}
      exempt  == {c \in parked : Near(c) \/ Preserved(c)}
      room    == MaxFields - Cardinality(Disposable(regions))
      admitted == exempt \cup NearestOf(dist, parked \ exempt, room)
  IN  /\ pc = "load"
      /\ pc' = "retarget"
      /\ regions' = regions \cup created
      /\ current' = [c \in Coords |-> IF c \in created THEN fresh[c] ELSE current[c]]
      /\ target' = [c \in Coords |->
                      IF c \in admitted \cup created
                      THEN IF Preserved(c) THEN current'[c] ELSE Goal(c)
                      ELSE target[c]]
      /\ dirty' = [c \in Coords |-> IF c \in admitted THEN Layers
                                     ELSE dirty[c] \cup TerrainMarks(c, moved)]
      /\ status' = [c \in Coords |->
                      IF c \in admitted \/ TerrainMarks(c, moved) # {} THEN "Generating"
                      ELSE status[c]]
      /\ inFlight' = Forget(KeysOf([c \in Coords |-> TerrainMarks(c, moved)]))
      /\ jobs' = CancelTokens(KeysOf([c \in Coords |-> TerrainMarks(c, moved)]))
      /\ UNCHANGED <<contributors, store, nextJobId, results, envVars, todo, dispatched,
                     spent, ops>>

\* ---- retarget: targets only; changed steering refreshes all of them, otherwise
\* MaxRetarget of them per frame (which ones is the cursor's business) ----

Retarget(refreshed) ==
  /\ pc = "retarget"
  /\ pc' = "converge"
  /\ IF input.steering # steerSignature \/ Cardinality(regions) <= MaxRetarget
     THEN refreshed = regions
     ELSE Cardinality(refreshed) = MaxRetarget
  /\ steerSignature' = input.steering
  /\ target' = [c \in Coords |-> IF c \notin regions THEN target[c]
                                  ELSE IF Preserved(c) THEN current[c]
                                  ELSE IF c \in refreshed THEN Goal(c) ELSE target[c]]
  /\ UNCHANGED <<regions, status, current, dirty, contributors, jobVars, fieldRecipe,
                 revisionBumps, input, todo, dispatched, spent, ops>>

\* ---- converge: unpinned regions step toward their targets, farthest first; only
\* travel fuels it, so a frame that moves anything is a step of the environment ----

\* One lerp step of a region: every domain ends somewhere between where it was and
\* its target; the rate is travel and resonance, which the model leaves open.
Between(v, w, g) ==
  \A d \in Domains : \/ v[d] <= w[d] /\ w[d] <= g[d]
                     \/ g[d] <= w[d] /\ w[d] <= v[d]

\* Fault: near regions converge too.
EligibleEverywhere == {c \in regions : ~Preserved(c) /\ current[c] # target[c]}

\* stability < 1: outside the near radius and not preserved.
Eligible == {c \in regions : ~Near(c) /\ ~Preserved(c) /\ current[c] # target[c]}

Converge(next) ==
  LET moving == FarthestOf(Distance[input.player], Eligible, MaxConverge)
      moved  == {c \in moving : Slow(next[c]) # Slow(current[c])}
  IN  /\ pc = "converge"
      /\ pc' = "dispatch"
      /\ IF next # current THEN EnvStep ELSE UNCHANGED ops
      /\ \A c \in Coords : IF c \in moving THEN Between(current[c], next[c], target[c])
                            ELSE next[c] = current[c]
      /\ current' = next
      /\ Invalidate([c \in Coords |-> DomainDirtyMask(Flips(current[c], next[c]))
                                       \cup TerrainMarks(c, moved)], {})
      /\ UNCHANGED <<regions, target, contributors, store, nextJobId, results, envVars,
                     todo, dispatched, spent>>

\* ---- dispatch: one visit per dirty active region, nearest first ----

FreshKey(k) == store[k] # NoTile /\ store[k].hash = ExpectedHash(k)

PendingCurrent(k)  == inFlight[k] # NoJob /\ inFlight[k].hash = ExpectedHash(k)
PendingObsolete(k) == inFlight[k] # NoJob /\ inFlight[k].hash # ExpectedHash(k)

Visiting(c) ==
  /\ pc = "pass"
  /\ {c} = NearestOf(Distance[input.player], {x \in todo : dirty[x] # {}}, 1)

\* Regions the pass reaches after c; nearer ones are not revisited in this pass.
After(c) ==
  {x \in todo : Dist(x) > Dist(c) \/ (Dist(x) = Dist(c) /\ x > c)}

\* repair_missing_dependencies: one turn of its loop, over one input of one dirty
\* consumer.  It runs until no turn changes anything.
Repairs(c, consumer, d) ==
  LET k == InputKey(c, d) IN
  /\ consumer \in dirty[c] \ {DRAINAGE}
  /\ d \in Deps[consumer]
  /\ \/ PendingObsolete(k)
     \/ ~FreshKey(k) /\ ~PendingCurrent(k) /\ d \notin dirty[c]

RepairDependency(c, consumer, d) ==
  LET k == InputKey(c, d)
      rebuilt(x) == d = DRAINAGE /\ PendingObsolete(k) /\ ~FreshKey(k)
                      /\ x \in Covered(MacroOf[c])
  IN  /\ Visiting(c)
      /\ Repairs(c, consumer, d)
      /\ Invalidate([x \in Coords |-> (IF rebuilt(x) THEN Closure[DRAINAGE] ELSE {})
                                      \cup (IF x = c /\ ~FreshKey(k) THEN {d} ELSE {})],
                    IF PendingObsolete(k) THEN {k} ELSE {})
      /\ todo' = {c} \cup After(c)
      /\ UNCHANGED <<regions, current, target, contributors, store, nextJobId, results,
                     envVars, pc, dispatched, spent, ops>>

\* The layers submitted when `stale' is scanned in id order under the frame's cost
\* budget: one that does not fit is deferred and the scan goes on.
Affordable(stale, chosen) ==
  \A l \in stale :
    l \in chosen <=> spent + CostOf[{k \in chosen : k < l} \cup {l}] <= MaxRegenCost

\* Fault: an input need only be present.
InputsFreshPresent(flight, k) == \A i \in InputKeys(k) : store[i] # NoTile

\* inputs_fresh: every input holds its key of now and has no pending replacement.
InputsFresh(flight, k) == \A i \in InputKeys(k) : flight[i] = NoJob /\ FreshKey(i)

\* The scan of dispatch_region, check_macro and submit_layer: retire obsolete work,
\* clear false-positive hints, submit every stale layer whose inputs are fresh.
ScanRegion(c) ==
  LET key(l)   == InputKey(c, l)
      obsolete == {l \in dirty[c] : PendingObsolete(key(l))}
      marks    == [x \in Coords |->
                     (IF DRAINAGE \in obsolete /\ x \in Covered(MacroOf[c])
                      THEN Closure[DRAINAGE] ELSE {})
                     \cup (IF x = c THEN UNION {Closure[l] : l \in obsolete \ {DRAINAGE}}
                           ELSE {})]
      retired  == KeysOf(marks) \cup {key(l) : l \in obsolete}
      flight   == Forget(retired)
      ready    == {l \in dirty[c] \cup marks[c] :
                     flight[key(l)] = NoJob /\ InputsFresh(flight, key(l))}
      clean    == {l \in ready : FreshKey(key(l))}
  IN  /\ Visiting(c)
      /\ ~ \E consumer, d \in Layers : Repairs(c, consumer, d)
      /\ \E chosen \in SUBSET (ready \ clean) :
           LET id(l) == nextJobId + Cardinality({m \in chosen : m < l}) IN
           /\ Affordable(ready \ clean, chosen)
           /\ dirty' = [x \in Coords |->
                          IF x = c THEN ((dirty[c] \cup marks[c]) \ clean)
                                          \ (chosen \ {DRAINAGE})
                          ELSE dirty[x] \cup marks[x]]
           /\ inFlight' = [k \in Keys |->
                             IF \E l \in chosen : key(l) = k
                             THEN [id   |-> id(CHOOSE l \in chosen : key(l) = k),
                                   hash |-> ExpectedHash(k)]
                             ELSE flight[k]]
           /\ jobs' = CancelTokens(retired) \cup
                {[key |-> key(l), id |-> id(l), hash |-> ExpectedHash(key(l)),
                  content |-> GeneratedContent(key(l)),
                  started |-> FALSE, cancelled |-> FALSE] : l \in chosen}
           /\ nextJobId' = nextJobId + Cardinality(chosen)
           /\ spent' = spent + CostOf[chosen]
           /\ dispatched' = (dispatched \/ chosen \ {DRAINAGE} # {})
           /\ status' = [x \in Coords |->
                           IF x = c /\ clean \cup (chosen \ {DRAINAGE}) # {}
                           THEN RefreshedStatus(c)
                           ELSE IF marks[x] # {} /\ status[x] = "Ready"
                                THEN "Generating" ELSE status[x]]
      /\ todo' = After(c)
      /\ UNCHANGED <<regions, current, target, contributors, store, results, envVars,
                     pc, ops>>

\* Another turn of the loop as long as a pass submitted region work.
EndPass ==
  /\ pc = "pass"
  /\ \A c \in todo : dirty[c] = {}
  /\ pc' = IF dispatched THEN "dispatch" ELSE "final"
  /\ todo' = {}
  /\ UNCHANGED <<mapVars, jobVars, envVars, dispatched, spent, ops>>

-----------------------------------------------------------------------------

Integrate == \E r \in results :
               DropLateResult(r) \/ RejectResult(r) \/ AcceptMacro(r) \/ AcceptTile(r)

DispatchPass ==
  \/ \E c \in todo :
       \/ \E consumer \in dirty[c] : \E d \in Deps[consumer] : RepairDependency(c, consumer, d)
       \/ ScanRegion(c)
  \/ EndPass

\* The passes of update after its arguments are in.
FramePass ==
  \/ Integrate
  \/ ChannelDrained
  \/ Evict
  \/ Load
  \/ \E refreshed \in SUBSET regions : Retarget(refreshed)
  \/ \E next \in [Coords -> Vectors] : Converge(next)
  \/ DispatchPass

Frame ==
  \/ \E p \in Players, s \in Steerings, r \in Recipes : BeginFrame(p, s, r)
  \/ FramePass

WorkerStep ==
  /\ pc \in WorkerPoints
  /\ \E j \in jobs : StartJob(j) \/ FinishJob(j) \/ FailJob(j)

HostCall ==
  \/ \E c \in Coords : \E ids \in SUBSET PreserveIds : ApplyPreserves(c, ids)
  \/ \E c \in Coords : \E id \in contributors[c] : RemovePreserve(c, id)
  \/ \E l \in Layers : BumpLayerRevision(l)

Next == Frame \/ WorkerStep \/ HostCall

Spec == Init /\ [][Next]_vars

\* The host's frame loop keeps calling update and every pass terminates; every
\* worker keeps taking jobs and a job that started returns.
Fairness ==
  /\ WF_vars(FramePass)
  /\ WF_vars(\E p \in Players, s \in Steerings, r \in Recipes : BeginFrame(p, s, r))
  /\ WF_vars(pc \in WorkerPoints /\ \E j \in jobs : StartJob(j) \/ FinishJob(j))

FairSpec == Spec /\ Fairness

-----------------------------------------------------------------------------
(* Properties.                                                              *)

Facts == {"revision"} \X Layers \X Int
           \cup {"cell"} \X {0} \X Int
           \cup {"bucket"} \X Domains \X Buckets
           \cup {"pair"} \X Coords \X [SlowDomains -> Buckets]

Tile        == [hash : SUBSET Facts, content : SUBSET Facts]
InFlightJob == [id : Nat, hash : SUBSET Facts]
Job         == [key : Keys, id : Nat, hash : SUBSET Facts, content : SUBSET Facts,
                started : BOOLEAN, cancelled : BOOLEAN]
Result      == [key : Keys, id : Nat, hash : SUBSET Facts, content : SUBSET Facts,
                ok : BOOLEAN]

\* Every variable holds a value of the program's type.
TypeOK ==
  /\ regions \subseteq Coords
  /\ status \in [Coords -> Statuses]
  /\ current \in [Coords -> Vectors]
  /\ target \in [Coords -> Vectors]
  /\ dirty \in [Coords -> SUBSET Layers]
  /\ contributors \in [Coords -> SUBSET PreserveIds]
  /\ store \in [Keys -> Tile \cup {NoTile}]
  /\ inFlight \in [Keys -> InFlightJob \cup {NoJob}]
  /\ nextJobId \in Nat
  /\ jobs \subseteq Job
  /\ results \subseteq Result
  /\ fieldRecipe \in Recipes
  /\ revisionBumps \in [Layers -> 0 .. MaxRevision]
  /\ steerSignature \in Steerings \cup {NoSteering}
  /\ input \in [player : Players, steering : Steerings]
  /\ pc \in {"idle", "integrate", "evict", "load", "retarget", "converge",
             "dispatch", "pass", "final"}
  /\ todo \subseteq Coords
  /\ dispatched \in BOOLEAN
  /\ spent \in Nat
  /\ ops \in 0 .. MaxOps

\* A Ready region shows exactly the tiles that its possibility state, the revisions
\* and the field recipe of this moment generate: whatever was dispatched, cancelled,
\* failed, evicted or delivered late before (ADR 0018, ADR 0008).
ReadyIsCanonical ==
  \A c \in regions : status[c] = "Ready" =>
    \A l \in TileLayers :
      store[<<c, l>>] # NoTile /\ store[<<c, l>>].content = ExpectedHash(<<c, l>>)

\* A dependency hash is honest: every cached tile and every unfinished job was
\* computed from exactly the facts its hash stands for (ADR 0008).
ProvenanceHonest ==
  /\ \A k \in Keys : store[k] # NoTile => store[k].content = store[k].hash
  /\ \A j \in jobs \cup results : j.content = j.hash

\* A stale layer of an admitted region is never forgotten: it is dirty or on its way,
\* so clean regions may skip the hash checks.
StaleIsScheduled ==
  \A c \in regions : Active(c) =>
    \A l \in TileLayers :
      FreshKey(<<c, l>>) \/ l \in dirty[c] \/ inFlight[<<c, l>>] # NoJob

\* Invalidation is exact: a dispatch that is still registered was made for the key of
\* this moment, so the integration gate never has to reject a successful result.
InFlightIsCurrent == \A k \in Keys : inFlight[k] # NoJob => inFlight[k].hash = ExpectedHash(k)

\* Parked or absent regions own no tile and no dispatch, and nothing arriving late
\* gives them one (ADR 0023).
ParkedOwnsNothing ==
  \A c \in Coords : ~Active(c) =>
    \A l \in TileLayers : store[<<c, l>>] = NoTile /\ inFlight[<<c, l>>] = NoJob

\* A preserved resident region holds the signature of its lowest contributor
\* whatever the order preserves came and went in (ADR 0020).
LowestPreserveWins ==
  \A c \in regions : \A i \in contributors[c] :
    (\A j \in contributors[c] : i <= j) => current[c] = Signature[i][c]

\* The map implements CanonicalTiles: readers see the tiles of Ready regions.
ExpectedTiles(c) == [l \in TileLayers |-> ExpectedHash(<<c, l>>)]

NoTiles == [l \in {} |-> {}]

Abstract == INSTANCE CanonicalTiles WITH
  Regions <- Coords,
  Nothing <- NoTiles,
  key     <- [c \in Coords |-> ExpectedTiles(c)],
  shown   <- [c \in Coords |-> IF status[c] = "Ready"
                               THEN [l \in TileLayers |-> store[<<c, l>>].content]
                               ELSE NoTiles]

\* Every step of frames, workers and host calls is a step of the abstract map, or
\* invisible in it.
ImplementsCanonicalTiles == Abstract!Spec

\* A frame never moves the realized state of a near or preserved region that stays
\* resident; only a preserve call may.
PinnedStandsStill ==
  [][ \A c \in regions \cap regions' :
        current'[c] # current[c] => pc = "idle" \/ ~(Near(c) \/ Preserved(c)) ]_vars

\* A tile enters the cache only while its key is the key of that moment, and only for
\* an admitted region or a macro cell.
PublishIsCurrent ==
  [][ \A k \in Keys : store'[k] # store[k] /\ store'[k] # NoTile =>
        /\ store'[k].hash = ExpectedHash(k)
        /\ k \in TileKeys => Active(k[1]) ]_vars

\* The map settles (ADR 0018): the inputs change only finitely often, so from some
\* point on every admitted region is Ready and none is generating.
Settles == <>[](\A c \in Coords : status[c] # "Generating")
=============================================================================
