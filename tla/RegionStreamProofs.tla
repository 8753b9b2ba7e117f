------------------------- MODULE RegionStreamProofs -------------------------
(***************************************************************************)
(* Theorems about RegionStream, for every geometry, layer table, field,     *)
(* budget and number of workers that satisfies the named assumptions.       *)
(* The last part is about LayerGraph: that the tables of the code satisfy   *)
(* what is assumed of the layers.                                           *)
(***************************************************************************)
EXTENDS RegionStream, LayerGraphFacts, FiniteSetTheorems, WellFoundedInduction, TLAPS

-----------------------------------------------------------------------------
(* Operators and their types.                                               *)

\* A winner is one of the contributors.
LEMMA WinnerIsContributor ==
  ASSUME NEW ids \in SUBSET PreserveIds, ids # {}
  PROVE  Winner(ids) \in ids /\ \A j \in ids : Winner(ids) <= j
<1>1. \E i \in ids : \A j \in ids : i <= j
  BY PreserveAssumption DEF PreserveAssumption
<1> QED BY <1>1 DEF Winner

LEMMA SignatureType ==
  ASSUME NEW c \in Coords, NEW ids \in SUBSET PreserveIds, ids # {}
  PROVE  EffectiveSignature(c, ids) \in Vectors
BY WinnerIsContributor, StateAssumption DEF EffectiveSignature, StateAssumption

LEMMA BlankType == Blank \in Vectors
BY StateAssumption DEF Blank, Vectors, StateAssumption

\* The sets of layers that the code marks are sets of layers.
LEMMA MarksType ==
  ASSUME TypeOK, NEW c \in Coords, NEW moved, NEW flipped
  PROVE  TerrainMarks(c, moved) \in SUBSET Layers /\ DomainDirtyMask(flipped) \in SUBSET Layers
<1>1. TERRAIN \in Layers /\ \A l \in Layers : Closure[l] \subseteq Layers
  BY LayerAssumption DEF LayerAssumption
<1>2. TerrainMarks(c, moved) \in SUBSET Layers
  BY <1>1 DEF TerrainMarks
<1>3. DomainDirtyMask(flipped) \in SUBSET Layers
  BY <1>1 DEF DomainDirtyMask
<1> QED BY <1>2, <1>3

\* Keys of inputs are keys.
LEMMA KeyTypes ==
  ASSUME NEW c \in Coords, NEW l \in Layers
  PROVE  /\ InputKey(c, l) \in Keys
         /\ l # DRAINAGE => InputKey(c, l) = <<c, l>> /\ <<c, l>> \in TileKeys
         /\ l = DRAINAGE => InputKey(c, l) = <<MacroOf[c], DRAINAGE>>
                            /\ <<MacroOf[c], DRAINAGE>> \in MacroKeys
BY GeometryAssumption DEF InputKey, Keys, TileKeys, MacroKeys, TileLayers, GeometryAssumption

\* A key is a tile key of a region and a layer, or a macro key.
LEMMA KeyCases ==
  ASSUME NEW k \in Keys
  PROVE  /\ k = <<k[1], k[2]>> /\ k[2] \in Layers
         /\ k[2] = DRAINAGE <=> k \in MacroKeys
         /\ k[2] # DRAINAGE <=> k \in TileKeys
         /\ k \in TileKeys => k[1] \in Coords /\ k[2] \in TileLayers
         /\ k \in MacroKeys => k[1] \in Macros
BY LayerAssumption DEF Keys, TileKeys, MacroKeys, TileLayers, LayerAssumption

LEMMA SlowType ==
  ASSUME NEW v \in Vectors
  PROVE  Slow(v) \in [SlowDomains -> Buckets]
BY StateAssumption DEF Slow, Vectors, StateAssumption

LEMMA TerrainPairType ==
  ASSUME TypeOK, NEW c \in Coords
  PROVE  TerrainPair(c) \in [SlowDomains -> Buckets]
<1>1. current[c] \in Vectors /\ Sample[fieldRecipe][c] \in Vectors
  BY StateAssumption DEF TypeOK, StateAssumption
<1> QED BY <1>1, SlowType DEF TerrainPair

LEMMA OwnFactsType ==
  ASSUME TypeOK, NEW k \in Keys
  PROVE  OwnFacts(k) \subseteq Facts
<1>1. \A l \in Layers : RevisionFact(l) \in Facts
  BY BudgetAssumption DEF RevisionFact, Facts, TypeOK, BudgetAssumption
<1>2. ASSUME k[2] = TERRAIN
      PROVE  {<<"pair", s, TerrainPair(s)>> : s \in Neighbours[k[1]]} \subseteq Facts
  <2>1. k \in TileKeys
    BY <1>2, KeyCases, LayerAssumption DEF LayerAssumption
  <2>2. Neighbours[k[1]] \subseteq Coords
    BY <2>1, KeyCases, GeometryAssumption DEF GeometryAssumption
  <2> QED BY <2>2, TerrainPairType DEF Facts
<1>3. <<"cell", 0, CellRegions[fieldRecipe]>> \in Facts
  BY StateAssumption DEF Facts, TypeOK, StateAssumption
<1>4. ASSUME k[2] # DRAINAGE
      PROVE  {<<"bucket", d, current[k[1]][d]>> : d \in Reads[k[2]]} \subseteq Facts
  <2>1. k[1] \in Coords /\ k[2] \in Layers
    BY <1>4, KeyCases
  <2>2. current[k[1]] \in [Domains -> Buckets] /\ Reads[k[2]] \subseteq Domains
    BY <2>1, LayerAssumption DEF TypeOK, Vectors, LayerAssumption
  <2> QED BY <2>2 DEF Facts
<1>5. CASE k[2] = TERRAIN
  <2>1. OwnFacts(k) = {RevisionFact(k[2])}
                        \cup {<<"pair", s, TerrainPair(s)>> : s \in Neighbours[k[1]]}
    BY <1>5, LayerAssumption DEF OwnFacts, LayerAssumption
  <2> QED BY <1>1, <1>2, <1>5, <2>1, KeyCases
<1>6. CASE k[2] = DRAINAGE
  BY <1>1, <1>3, <1>6, LayerAssumption DEF OwnFacts, LayerAssumption
<1>7. CASE k[2] \notin {TERRAIN, DRAINAGE}
  BY <1>1, <1>4, <1>7, KeyCases DEF OwnFacts
<1> QED BY <1>5, <1>6, <1>7

LEMMA ExpectedHashType ==
  ASSUME TypeOK, NEW k \in Keys
  PROVE  ExpectedHash(k) \in SUBSET Facts
<1>1. CASE k[2] = DRAINAGE
  BY <1>1, OwnFactsType DEF ExpectedHash
<1>2. CASE k[2] # DRAINAGE
  <2>1. \A u \in Upstream[k[2]] : InputKey(k[1], u) \in Keys
    BY <1>2, KeyCases, KeyTypes, LayerAssumption DEF LayerAssumption
  <2> QED BY <1>2, <2>1, OwnFactsType DEF ExpectedHash
<1> QED BY <1>1, <1>2

-----------------------------------------------------------------------------
(* Type correctness.                                                        *)

LEMMA ForgetType ==
  ASSUME TypeOK, NEW retired
  PROVE  Forget(retired) \in [Keys -> InFlightJob \cup {NoJob}]
BY DEF Forget, TypeOK

LEMMA CancelTokensType ==
  ASSUME TypeOK, NEW retired
  PROVE  CancelTokens(retired) \subseteq Job
<1> SUFFICES ASSUME NEW j \in jobs
    PROVE  j \in Job /\ [j EXCEPT !.cancelled = TRUE] \in Job
  BY DEF CancelTokens
<1> QED BY DEF TypeOK, Job

\* Invalidating layers keeps every variable it changes in its type.
LEMMA InvalidateType ==
  ASSUME TypeOK, NEW marks \in [Coords -> SUBSET Layers], NEW also,
         Invalidate(marks, also)
  PROVE  /\ dirty' \in [Coords -> SUBSET Layers]
         /\ status' \in [Coords -> Statuses]
         /\ inFlight' \in [Keys -> InFlightJob \cup {NoJob}]
         /\ jobs' \subseteq Job
<1>1. dirty' \in [Coords -> SUBSET Layers]
  BY DEF Invalidate, TypeOK
<1>2. status' \in [Coords -> Statuses]
  BY DEF Invalidate, TypeOK, Statuses
<1> QED BY <1>1, <1>2, ForgetType, CancelTokensType DEF Invalidate

LEMMA TypeInit == Init => TypeOK
<1> SUFFICES ASSUME Init PROVE TypeOK
  OBVIOUS
<1>1. Restored \cup {Blank} \subseteq Vectors
  BY BlankType, StateAssumption DEF StateAssumption
<1>2. regions \subseteq Coords /\ current \in [Coords -> Vectors] /\ target \in [Coords -> Vectors]
  BY <1>1, StateAssumption DEF Init, StateAssumption
<1>3. status \in [Coords -> Statuses] /\ dirty \in [Coords -> SUBSET Layers]
      /\ contributors \in [Coords -> SUBSET PreserveIds]
  BY DEF Init, Statuses
<1>4. /\ store \in [Keys -> Tile \cup {NoTile}]
      /\ inFlight \in [Keys -> InFlightJob \cup {NoJob}]
      /\ nextJobId \in Nat /\ jobs \subseteq Job /\ results \subseteq Result
  BY DEF Init
<1>5. /\ revisionBumps \in [Layers -> 0 .. MaxRevision]
      /\ ops \in 0 .. MaxOps /\ spent \in Nat
  BY BudgetAssumption DEF Init, BudgetAssumption
<1> QED
  BY <1>2, <1>3, <1>4, <1>5 DEF Init, TypeOK

LEMMA ReconcileType ==
  ASSUME TypeOK, NEW c \in Coords, NEW ids \in SUBSET PreserveIds, Reconcile(c, ids)
  PROVE  /\ contributors' \in [Coords -> SUBSET PreserveIds]
         /\ current' \in [Coords -> Vectors]
         /\ target' \in [Coords -> Vectors]
         /\ dirty' \in [Coords -> SUBSET Layers]
         /\ status' \in [Coords -> Statuses]
         /\ inFlight' \in [Keys -> InFlightJob \cup {NoJob}]
         /\ jobs' \subseteq Job
<1> DEFINE new   == EffectiveSignature(c, ids)
           snap  == /\ c \in regions
                    /\ ids # {}
                    /\ contributors[c] # {} => new # EffectiveSignature(c, contributors[c])
           moved == IF snap /\ Slow(current[c]) # Slow(new) THEN {c} ELSE {}
           mask  == IF snap THEN DomainDirtyMask(Flips(current[c], new)) ELSE {}
           marks == [x \in Coords |-> TerrainMarks(x, moved) \cup IF x = c THEN mask ELSE {}]
<1>1. /\ contributors' = [contributors EXCEPT ![c] = ids]
      /\ current' = IF snap THEN [current EXCEPT ![c] = new] ELSE current
      /\ target'  = IF snap THEN [target EXCEPT ![c] = new] ELSE target
      /\ Invalidate(marks, {})
  BY DEF Reconcile
<1>2. snap => new \in Vectors
  BY SignatureType
<1>3. marks \in [Coords -> SUBSET Layers]
  BY MarksType
<1> HIDE DEF new, snap, marks
<1> QED BY <1>1, <1>2, <1>3, InvalidateType DEF TypeOK

LEMMA TypeHost ==
  ASSUME TypeOK, HostCall
  PROVE  TypeOK'
<1>1. ops < MaxOps /\ ops' = ops + 1 => ops' \in 0 .. MaxOps
  BY BudgetAssumption DEF TypeOK, BudgetAssumption
<1>2. ASSUME NEW c \in Coords, NEW ids \in SUBSET PreserveIds, ApplyPreserves(c, ids)
      PROVE  TypeOK'
  <2>1. contributors[c] \cup ids \in SUBSET PreserveIds
    BY DEF TypeOK
  <2>2. Reconcile(c, contributors[c] \cup ids)
    BY <1>2 DEF ApplyPreserves
  <2> QED BY <1>1, <1>2, <2>1, <2>2, ReconcileType
         DEF ApplyPreserves, EnvStep, envVars, frameVars, TypeOK
<1>3. ASSUME NEW c \in Coords, NEW id \in contributors[c], RemovePreserve(c, id)
      PROVE  TypeOK'
  <2>1. contributors[c] \ {id} \in SUBSET PreserveIds
    BY DEF TypeOK
  <2>2. Reconcile(c, contributors[c] \ {id})
    BY <1>3 DEF RemovePreserve
  <2> QED BY <1>1, <1>3, <2>1, <2>2, ReconcileType
         DEF RemovePreserve, EnvStep, envVars, frameVars, TypeOK
<1>4. ASSUME NEW l \in Layers, BumpLayerRevision(l)
      PROVE  TypeOK'
  <2> DEFINE marks == [c \in Coords |-> IF c \in regions THEN Closure[l] ELSE {}]
             also  == IF DRAINAGE \in Closure[l] THEN MacroKeys ELSE {}
  <2>1. marks \in [Coords -> SUBSET Layers]
    BY LayerAssumption DEF LayerAssumption
  <2>2. Invalidate(marks, also)
    BY <1>4 DEF BumpLayerRevision
  <2>3. revisionBumps' \in [Layers -> 0 .. MaxRevision]
    BY <1>4, BudgetAssumption DEF BumpLayerRevision, TypeOK, BudgetAssumption
  <2> HIDE DEF marks, also
  <2> QED BY <1>1, <1>4, <2>1, <2>2, <2>3, InvalidateType
         DEF BumpLayerRevision, EnvStep, frameVars, TypeOK
<1> QED BY <1>2, <1>3, <1>4 DEF HostCall

LEMMA TypeWorker ==
  ASSUME TypeOK, WorkerStep
  PROVE  TypeOK'
<1> PICK j \in jobs : StartJob(j) \/ FinishJob(j) \/ FailJob(j)
  BY DEF WorkerStep
<1>1. j \in Job /\ [j EXCEPT !.started = TRUE] \in Job
  BY DEF TypeOK, Job
<1>2. ops < MaxOps /\ ops' = ops + 1 => ops' \in 0 .. MaxOps
  BY BudgetAssumption DEF TypeOK, BudgetAssumption
<1>3. CASE StartJob(j)
  <2>1. jobs' \subseteq Job
    BY <1>1, <1>3 DEF StartJob, TypeOK
  <2> QED BY <1>3, <2>1 DEF StartJob, mapVars, envVars, frameVars, TypeOK
<1>4. ASSUME NEW ok \in BOOLEAN, Report(j, ok), ops' \in 0 .. MaxOps
      PROVE  TypeOK'
  <2>1. jobs' \subseteq Job
    BY <1>4 DEF Report, TypeOK
  <2>2. [key |-> j.key, id |-> j.id, hash |-> j.hash, content |-> j.content, ok |-> ok] \in Result
    BY <1>1 DEF Job, Result
  <2>3. results' \subseteq Result
    BY <1>4, <2>2 DEF Report, TypeOK
  <2> QED BY <1>4, <2>1, <2>3 DEF Report, mapVars, envVars, frameVars, TypeOK
<1>5. CASE FinishJob(j)
  BY <1>4, <1>5 DEF FinishJob, TypeOK
<1>6. CASE FailJob(j)
  BY <1>2, <1>4, <1>6 DEF FailJob, EnvStep
<1> QED BY <1>3, <1>5, <1>6

LEMMA GoalType ==
  ASSUME TypeOK, NEW r \in Recipes, NEW s \in Steerings, NEW c \in Coords
  PROVE  TargetFor[r][s][c] \in Vectors
BY StateAssumption DEF StateAssumption

LEMMA TypeBegin ==
  ASSUME TypeOK, NEW p \in Players, NEW s \in Steerings, NEW r \in Recipes,
         BeginFrame(p, s, r)
  PROVE  TypeOK'
<1> DEFINE changed == r # fieldRecipe
           also    == IF changed THEN MacroKeys ELSE {}
<1>1. ops' \in 0 .. MaxOps
  BY BudgetAssumption DEF BeginFrame, EnvStep, TypeOK, BudgetAssumption
<1>2. RecipeMarks(changed) \in [Coords -> SUBSET Layers]
  BY LayerAssumption DEF RecipeMarks, LayerAssumption
<1>3. Invalidate(RecipeMarks(changed), also)
  BY DEF BeginFrame
<1>4. target' \in [Coords -> Vectors]
  BY GoalType DEF BeginFrame, TypeOK
<1>5. input' \in [player : Players, steering : Steerings]
  BY DEF BeginFrame
<1> HIDE DEF changed, also
<1> QED BY <1>1, <1>2, <1>3, <1>4, <1>5, InvalidateType DEF BeginFrame, TypeOK

\* What the actions of integrate_finished make of one result.
LEMMA TypeIntegrate ==
  ASSUME TypeOK, Integrate
  PROVE  TypeOK'
<1> PICK r \in results :
      DropLateResult(r) \/ RejectResult(r) \/ AcceptMacro(r) \/ AcceptTile(r)
  BY DEF Integrate
<1>1. r \in Result /\ r.key \in Keys /\ [hash |-> r.hash, content |-> r.content] \in Tile
  BY DEF TypeOK, Result, Tile
<1>2. [store EXCEPT ![r.key] = [hash |-> r.hash, content |-> r.content]]
        \in [Keys -> Tile \cup {NoTile}]
  BY <1>1 DEF TypeOK
<1>3. \A l \in Layers : Closure[l] \subseteq Layers
  BY LayerAssumption DEF LayerAssumption
<1>4. CASE DropLateResult(r)
  BY <1>4 DEF DropLateResult, mapVars, envVars, frameVars, TypeOK
<1>5. CASE RejectResult(r)
  <2> DEFINE marks == [c \in Coords |->
                   CASE r.key[2] = DRAINAGE /\ c \in Covered(r.key[1]) -> Closure[DRAINAGE]
                     [] r.key[2] # DRAINAGE /\ r.key[1] = c /\ c \in regions -> Closure[r.key[2]]
                     [] OTHER -> {}]
  <2>1. Invalidate(marks, {r.key})
    BY <1>5 DEF RejectResult
  <2>2. marks \in [Coords -> SUBSET Layers]
    BY <1>1, <1>3, KeyCases, LayerAssumption DEF LayerAssumption
  <2> HIDE DEF marks
  <2> QED BY <1>5, <2>1, <2>2, InvalidateType DEF RejectResult, envVars, frameVars, TypeOK
<1>6. CASE AcceptMacro(r)
  <2> DEFINE marks == [c \in Coords |-> IF Changes(r) /\ c \in Covered(r.key[1])
                                        THEN {HYDROLOGY} ELSE {}]
  <2>1. Invalidate(marks, {r.key})
    BY <1>6 DEF AcceptMacro
  <2>2. marks \in [Coords -> SUBSET Layers]
    BY LayerAssumption DEF LayerAssumption
  <2> HIDE DEF marks
  <2> QED BY <1>2, <1>6, <2>1, <2>2, InvalidateType DEF AcceptMacro, envVars, frameVars, TypeOK
<1>7. CASE AcceptTile(r)
  <2> DEFINE c == r.key[1]
             l == r.key[2]
             dependents == IF Changes(r) THEN Closure[l] \ {l} ELSE {}
             retired == {<<c, d>> : d \in dependents \ {DRAINAGE}}
  <2>1. c \in Coords /\ l \in Layers
    BY <1>1, <1>7, KeyCases DEF AcceptTile
  <2>2. dirty' \in [Coords -> SUBSET Layers]
    <3>1. dependents \subseteq Layers
      BY <1>3, <2>1
    <3>2. dirty' = [dirty EXCEPT ![c] = (@ \ {l}) \cup dependents]
      BY <1>7 DEF AcceptTile
    <3> HIDE DEF dependents
    <3> QED BY <2>1, <3>1, <3>2 DEF TypeOK
  <2>3. status' \in [Coords -> Statuses]
    <3>1. RefreshedStatus(c) \in Statuses
      BY <2>1 DEF RefreshedStatus, Statuses, TypeOK
    <3> QED BY <1>7, <2>1, <3>1 DEF AcceptTile, TypeOK
  <2>4. inFlight' \in [Keys -> InFlightJob \cup {NoJob}] /\ jobs' \subseteq Job
    BY <1>7, ForgetType, CancelTokensType DEF AcceptTile
  <2>5. /\ store' \in [Keys -> Tile \cup {NoTile}]
        /\ results' \subseteq Result
    BY <1>2, <1>7 DEF AcceptTile, TypeOK
  <2>6. UNCHANGED <<regions, current, target, contributors, nextJobId, envVars, frameVars, ops>>
    BY <1>7 DEF AcceptTile
  <2> QED BY <2>2, <2>3, <2>4, <2>5, <2>6 DEF envVars, frameVars, TypeOK
<1> QED BY <1>4, <1>5, <1>6, <1>7

LEMMA TypeDrained ==
  ASSUME TypeOK, ChannelDrained
  PROVE  TypeOK'
<1>1. pc' \in {"evict", "pass", "idle"} /\ todo' \subseteq Coords
      /\ dispatched' \in BOOLEAN /\ spent' \in Nat
  BY DEF ChannelDrained, Integrating, TypeOK
<1> QED BY <1>1 DEF ChannelDrained, mapVars, jobVars, envVars, TypeOK

LEMMA TypeEvict ==
  ASSUME TypeOK, Evict
  PROVE  TypeOK'
<1> DEFINE gone    == {c \in regions : Distance[input.player][c] > UnloadRadius}
           charged == Disposable(regions \ gone)
           parked  == FarthestOf(Distance[input.player], charged, Cardinality(charged) - MaxFields)
           cleared == gone \cup parked
           moved   == {c \in gone : Slow(current[c]) # Slow(Sample[fieldRecipe][c])}
           marks   == [c \in Coords |-> IF c \in cleared THEN {} ELSE TerrainMarks(c, moved)]
<1>1. marks \in [Coords -> SUBSET Layers]
  BY MarksType
<1>2. regions' \subseteq Coords
  BY DEF Evict, TypeOK
<1>3. current' \in [Coords -> Vectors] /\ target' \in [Coords -> Vectors]
  <2>1. /\ current' = [c \in Coords |-> IF c \in gone THEN Blank ELSE current[c]]
        /\ target'  = [c \in Coords |-> IF c \in gone THEN Blank ELSE target[c]]
    BY DEF Evict
  <2> HIDE DEF gone
  <2> QED BY <2>1, BlankType DEF TypeOK
<1>4. dirty' \in [Coords -> SUBSET Layers] /\ status' \in [Coords -> Statuses]
  <2>1. /\ dirty' = [c \in Coords |-> IF c \in cleared THEN {} ELSE dirty[c] \cup marks[c]]
        /\ status' = [c \in Coords |->
                       IF c \in cleared THEN "Unloaded"
                       ELSE IF marks[c] # {} /\ status[c] = "Ready" THEN "Generating"
                       ELSE status[c]]
    BY DEF Evict
  <2> HIDE DEF cleared, marks
  <2> QED BY <1>1, <2>1 DEF TypeOK, Statuses
<1>5. store' \in [Keys -> Tile \cup {NoTile}]
  BY DEF Evict, TypeOK
<1>6. inFlight' \in [Keys -> InFlightJob \cup {NoJob}] /\ jobs' \subseteq Job
  BY ForgetType, CancelTokensType DEF Evict
<1>7. pc' = "load" /\ UNCHANGED <<contributors, nextJobId, results, envVars, todo, dispatched, spent, ops>>
  BY DEF Evict
<1> QED BY <1>2, <1>3, <1>4, <1>5, <1>6, <1>7 DEF envVars, TypeOK

LEMMA TypeLoad ==
  ASSUME TypeOK, Load
  PROVE  TypeOK'
<1> DEFINE dist    == Distance[input.player]
           created == NearestOf(dist, {c \in Coords \ regions : dist[c] <= LoadRadius}, MaxLoads)
           fresh   == [c \in Coords |-> IF Preserved(c) THEN EffectiveSignature(c, contributors[c])
                                        ELSE Goal(c)]
           moved   == {c \in created : Slow(fresh[c]) # Slow(Sample[fieldRecipe][c])}
           parked  == {c \in regions \cup created :
                         ~Active(c) /\ (dist[c] <= LoadRadius \/ Preserved(c))}
           exempt  == {c \in parked : Near(c) \/ Preserved(c)}
           room    == MaxFields - Cardinality(Disposable(regions))
           admitted == exempt \cup NearestOf(dist, parked \ exempt, room)
<1>1. created \subseteq Coords
  BY DEF NearestOf
<1>2. \A c \in Coords : Goal(c) \in Vectors
  BY GoalType DEF Goal, TypeOK
<1>3. fresh \in [Coords -> Vectors]
  <2>1. \A c \in Coords : Preserved(c) => EffectiveSignature(c, contributors[c]) \in Vectors
    BY SignatureType DEF Preserved, TypeOK
  <2> QED BY <1>2, <2>1
<1>4. current' \in [Coords -> Vectors]
  <2>1. current' = [c \in Coords |-> IF c \in created THEN fresh[c] ELSE current[c]]
    BY DEF Load
  <2> HIDE DEF created, fresh
  <2> QED BY <1>3, <2>1 DEF TypeOK
<1>5. target' \in [Coords -> Vectors]
  <2>1. target' = [c \in Coords |->
                      IF c \in admitted \cup created
                      THEN IF Preserved(c) THEN current'[c] ELSE Goal(c)
                      ELSE target[c]]
    BY DEF Load
  <2> HIDE DEF created, admitted
  <2> QED BY <1>2, <1>4, <2>1 DEF TypeOK
<1>6. dirty' \in [Coords -> SUBSET Layers] /\ status' \in [Coords -> Statuses]
  <2>1. /\ dirty' = [c \in Coords |-> IF c \in admitted THEN Layers
                                       ELSE dirty[c] \cup TerrainMarks(c, moved)]
        /\ status' = [c \in Coords |->
                        IF c \in admitted \/ TerrainMarks(c, moved) # {} THEN "Generating"
                        ELSE status[c]]
    BY DEF Load
  <2>2. \A c \in Coords : TerrainMarks(c, moved) \subseteq Layers
    BY MarksType
  <2> HIDE DEF admitted, moved
  <2> QED BY <2>1, <2>2 DEF TypeOK, Statuses
<1>7. regions' \subseteq Coords
  BY <1>1 DEF Load, TypeOK
<1>8. inFlight' \in [Keys -> InFlightJob \cup {NoJob}] /\ jobs' \subseteq Job
  BY ForgetType, CancelTokensType DEF Load
<1>9. pc' = "retarget" /\ UNCHANGED <<contributors, store, nextJobId, results, envVars, todo,
                                      dispatched, spent, ops>>
  BY DEF Load
<1> QED BY <1>4, <1>5, <1>6, <1>7, <1>8, <1>9 DEF envVars, TypeOK

LEMMA TypeRetarget ==
  ASSUME TypeOK, NEW refreshed \in SUBSET regions, Retarget(refreshed)
  PROVE  TypeOK'
<1>1. target' \in [Coords -> Vectors]
  BY GoalType DEF Retarget, Goal, TypeOK
<1>2. steerSignature' \in Steerings
  BY DEF Retarget, TypeOK
<1> QED BY <1>1, <1>2 DEF Retarget, jobVars, TypeOK

LEMMA TypeConverge ==
  ASSUME TypeOK, NEW next \in [Coords -> Vectors], Converge(next)
  PROVE  TypeOK'
<1> DEFINE moving == FarthestOf(Distance[input.player], Eligible, MaxConverge)
           moved  == {c \in moving : Slow(next[c]) # Slow(current[c])}
           marks  == [c \in Coords |-> DomainDirtyMask(Flips(current[c], next[c]))
                                       \cup TerrainMarks(c, moved)]
<1>1. marks \in [Coords -> SUBSET Layers]
  BY MarksType
<1>2. Invalidate(marks, {})
  BY DEF Converge
<1>3. ops' \in 0 .. MaxOps
  BY BudgetAssumption DEF Converge, EnvStep, TypeOK, BudgetAssumption
<1>4. /\ current' = next /\ pc' = "dispatch"
      /\ UNCHANGED <<regions, target, contributors, store, nextJobId, results, envVars,
                     todo, dispatched, spent>>
  BY DEF Converge
<1> HIDE DEF marks
<1> QED BY <1>1, <1>2, <1>3, <1>4, InvalidateType DEF envVars, TypeOK

LEMMA TypeRepair ==
  ASSUME TypeOK, NEW c \in Coords, NEW consumer \in Layers, NEW d \in Layers,
         RepairDependency(c, consumer, d)
  PROVE  TypeOK'
<1> DEFINE k == InputKey(c, d)
           rebuilt(x) == d = DRAINAGE /\ PendingObsolete(k) /\ ~FreshKey(k)
                           /\ x \in Covered(MacroOf[c])
           marks == [x \in Coords |-> (IF rebuilt(x) THEN Closure[DRAINAGE] ELSE {})
                                      \cup (IF x = c /\ ~FreshKey(k) THEN {d} ELSE {})]
           also  == IF PendingObsolete(k) THEN {k} ELSE {}
<1>1. Invalidate(marks, also)
  BY DEF RepairDependency
<1>2. marks \in [Coords -> SUBSET Layers]
  BY LayerAssumption DEF LayerAssumption
<1>3. todo' \subseteq Coords
  BY DEF RepairDependency, After, TypeOK
<1>4. UNCHANGED <<regions, current, target, contributors, store, nextJobId, results,
                  envVars, pc, dispatched, spent, ops>>
  BY DEF RepairDependency
<1> HIDE DEF marks, also
<1> QED BY <1>1, <1>2, <1>3, <1>4, InvalidateType DEF envVars, TypeOK

\* What a job computes from fresh inputs is a set of facts.
LEMMA GeneratedType ==
  ASSUME TypeOK, NEW k \in Keys, NEW flight, InputsFresh(flight, k)
  PROVE  GeneratedContent(k) \in SUBSET Facts
<1>1. ASSUME NEW i \in InputKeys(k)
      PROVE  i \in Keys
  <2>1. k[2] # DRAINAGE
    BY DEF InputKeys
  <2>2. k[1] \in Coords /\ k[2] \in Layers
    BY <2>1, KeyCases
  <2>3. PICK d \in Deps[k[2]] : i = InputKey(k[1], d)
    BY <2>1 DEF InputKeys
  <2>4. d \in Layers
    BY <2>2, LayerAssumption DEF LayerAssumption
  <2> QED BY <2>2, <2>3, <2>4, KeyTypes
<1>2. \A i \in InputKeys(k) : store[i] \in Tile
  BY <1>1 DEF InputsFresh, FreshKey, TypeOK
<1>3. \A i \in InputKeys(k) : store[i].content \subseteq Facts
  BY <1>2 DEF Tile
<1> QED BY <1>3, OwnFactsType DEF GeneratedContent

LEMMA TypeScan ==
  ASSUME TypeOK, NEW c \in Coords, ScanRegion(c)
  PROVE  TypeOK'
<1> DEFINE key(l)   == InputKey(c, l)
           obsolete == {l \in dirty[c] : PendingObsolete(key(l))}
           marks    == [x \in Coords |->
                          (IF DRAINAGE \in obsolete /\ x \in Covered(MacroOf[c])
                           THEN Closure[DRAINAGE] ELSE {})
                          \cup (IF x = c THEN UNION {Closure[l] : l \in obsolete \ {DRAINAGE}}
                                ELSE {})]
           retired  == KeysOf(marks) \cup {key(l) : l \in obsolete}
           flight   == Forget(retired)
           ready    == {l \in dirty[c] \cup marks[c] :
                          flight[key(l)] = NoJob /\ InputsFresh(flight, key(l))}
           clean    == {l \in ready : FreshKey(key(l))}
<1>1. PICK chosen \in SUBSET (ready \ clean) :
        LET id(l) == nextJobId + Cardinality({m \in chosen : m < l}) IN
        /\ dirty' = [x \in Coords |->
                       IF x = c THEN ((dirty[c] \cup marks[c]) \ clean) \ (chosen \ {DRAINAGE})
                       ELSE dirty[x] \cup marks[x]]
        /\ inFlight' = [k \in Keys |->
                          IF \E l \in chosen : key(l) = k
                          THEN [id   |-> id(CHOOSE l \in chosen : key(l) = k),
                                hash |-> ExpectedHash(k)]
                          ELSE flight[k]]
        /\ jobs' = CancelTokens(retired) \cup
             {[key |-> key(l), id |-> id(l), hash |-> ExpectedHash(key(l)),
               content |-> GeneratedContent(key(l)),
               started |-> FALSE, cancelled |-> FALSE] : l \in chosen}
        /\ nextJobId' = nextJobId + Cardinality(chosen)
        /\ spent' = spent + CostOf[chosen]
        /\ dispatched' = (dispatched \/ chosen \ {DRAINAGE} # {})
        /\ status' = [x \in Coords |->
                        IF x = c /\ clean \cup (chosen \ {DRAINAGE}) # {}
                        THEN RefreshedStatus(c)
                        ELSE IF marks[x] # {} /\ status[x] = "Ready"
                             THEN "Generating" ELSE status[x]]
  BY DEF ScanRegion
<1>2. /\ todo' = After(c)
      /\ UNCHANGED <<regions, current, target, contributors, store, results, envVars, pc, ops>>
  BY DEF ScanRegion
<1>3. marks \in [Coords -> SUBSET Layers]
  <2>1. DRAINAGE \in Layers /\ \A l \in Layers : Closure[l] \subseteq Layers
    BY LayerAssumption DEF LayerAssumption
  <2>2. UNION {Closure[l] : l \in obsolete \ {DRAINAGE}} \subseteq Layers
    BY <2>1 DEF TypeOK
  <2> QED BY <2>1, <2>2
<1>4. chosen \subseteq Layers /\ \A l \in chosen : InputsFresh(flight, key(l))
  BY <1>3 DEF TypeOK
<1> HIDE DEF marks, retired, flight, ready, clean
<1> DEFINE id(l) == nextJobId + Cardinality({m \in chosen : m < l})
<1>5. Cardinality(chosen) \in Nat /\ \A l \in chosen : id(l) \in Nat
  <2>1. \A S : S \subseteq Layers => Cardinality(S) \in Nat
    BY LayerAssumption, FS_Subset, FS_CardinalityType DEF LayerAssumption
  <2>2. \A l : {m \in chosen : m < l} \subseteq Layers
    BY <1>4
  <2> QED BY <1>4, <2>1, <2>2 DEF TypeOK
<1>6. \A l \in chosen : key(l) \in Keys
  BY <1>4, KeyTypes
<1>7. dirty' \in [Coords -> SUBSET Layers]
  BY <1>1, <1>3 DEF TypeOK
<1>8. inFlight' \in [Keys -> InFlightJob \cup {NoJob}]
  <2>1. \A k \in Keys : flight[k] \in InFlightJob \cup {NoJob}
    BY ForgetType DEF flight
  <2>2. ASSUME NEW k \in Keys, \E l \in chosen : key(l) = k
        PROVE  [id |-> id(CHOOSE l \in chosen : key(l) = k), hash |-> ExpectedHash(k)] \in InFlightJob
    <3>1. (CHOOSE l \in chosen : key(l) = k) \in chosen
      BY <2>2
    <3> QED BY <1>5, <3>1, ExpectedHashType DEF InFlightJob
  <2> QED BY <1>1, <2>1, <2>2
<1>9. jobs' \subseteq Job
  <2>1. ASSUME NEW l \in chosen
        PROVE  [key |-> key(l), id |-> id(l), hash |-> ExpectedHash(key(l)),
                content |-> GeneratedContent(key(l)),
                started |-> FALSE, cancelled |-> FALSE] \in Job
    BY <1>4, <1>5, <1>6, ExpectedHashType, GeneratedType DEF Job
  <2>2. CancelTokens(retired) \subseteq Job
    BY CancelTokensType
  <2> QED BY <1>1, <2>1, <2>2
<1>10. nextJobId' \in Nat /\ spent' \in Nat
  <2>1. CostOf[chosen] \in Nat
    BY <1>4, LayerAssumption DEF LayerAssumption
  <2> QED BY <1>1, <1>5, <2>1 DEF TypeOK
<1>11. status' \in [Coords -> Statuses]
  <2>1. RefreshedStatus(c) \in Statuses
    BY DEF RefreshedStatus, Statuses, TypeOK
  <2> QED BY <1>1, <2>1 DEF TypeOK, Statuses
<1>12. todo' \subseteq Coords /\ dispatched' \in BOOLEAN
  BY <1>1, <1>2 DEF After, TypeOK
<1> QED BY <1>2, <1>7, <1>8, <1>9, <1>10, <1>11, <1>12 DEF envVars, TypeOK

LEMMA TypeEndPass ==
  ASSUME TypeOK, EndPass
  PROVE  TypeOK'
BY DEF EndPass, mapVars, jobVars, envVars, TypeOK

LEMMA TypeDispatch ==
  ASSUME TypeOK, DispatchPass
  PROVE  TypeOK'
<1>1. todo \subseteq Coords /\ \A c \in Coords : dirty[c] \subseteq Layers
  BY DEF TypeOK
<1>2. \A l \in Layers : Deps[l] \subseteq Layers
  BY LayerAssumption DEF LayerAssumption
<1> QED BY <1>1, <1>2, TypeRepair, TypeScan, TypeEndPass DEF DispatchPass

LEMMA TypeNext ==
  ASSUME TypeOK, [Next]_vars
  PROVE  TypeOK'
<1>1. CASE Frame
  BY <1>1, TypeBegin, TypeIntegrate, TypeDrained, TypeEvict, TypeLoad, TypeRetarget,
     TypeConverge, TypeDispatch DEF Frame, FramePass
<1>2. CASE WorkerStep
  BY <1>2, TypeWorker
<1>3. CASE HostCall
  BY <1>3, TypeHost
<1>4. CASE UNCHANGED vars
  BY <1>4 DEF vars, mapVars, jobVars, envVars, frameVars, TypeOK
<1> QED BY <1>1, <1>2, <1>3, <1>4 DEF Next

\* Every variable keeps the type of the field or argument it stands for.
THEOREM TypeCorrect == Spec => []TypeOK
<1>1. Init => TypeOK
  BY TypeInit
<1>2. TypeOK /\ [Next]_vars => TypeOK'
  BY TypeNext
<1> QED BY <1>1, <1>2, PTL DEF Spec

-----------------------------------------------------------------------------
(* Preserves.                                                               *)

LEMMA WinnerIsLowest ==
  ASSUME NEW ids \in SUBSET PreserveIds, NEW i \in ids, \A j \in ids : i <= j
  PROVE  Winner(ids) = i
<1>1. Winner(ids) \in ids /\ Winner(ids) <= i /\ i <= Winner(ids)
  BY WinnerIsContributor
<1>2. \A x \in ids : x \in Nat
  BY PreserveAssumption DEF PreserveAssumption
<1> DEFINE w == Winner(ids)
<1>3. w \in Nat /\ i \in Nat /\ w <= i /\ i <= w
  BY <1>1, <1>2
<1> HIDE DEF w
<1>4. w = i
  BY <1>3
<1> QED BY <1>4 DEF w

\* The same property in the terms of effective_preserve.
WinnerHolds ==
  \A c \in regions : Preserved(c) => current[c] = EffectiveSignature(c, contributors[c])

LEMMA WinnerHoldsIsLowest == TypeOK => (WinnerHolds <=> LowestPreserveWins)
<1> SUFFICES ASSUME TypeOK PROVE WinnerHolds <=> LowestPreserveWins
  OBVIOUS
<1>1. \A c \in regions : contributors[c] \in SUBSET PreserveIds
  BY DEF TypeOK
<1>2. ASSUME WinnerHolds PROVE LowestPreserveWins
  BY <1>1, <1>2, WinnerIsLowest DEF WinnerHolds, LowestPreserveWins, Preserved, EffectiveSignature
<1>3. ASSUME LowestPreserveWins PROVE WinnerHolds
  BY <1>1, <1>3, WinnerIsContributor
     DEF WinnerHolds, LowestPreserveWins, Preserved, EffectiveSignature
<1> QED BY <1>2, <1>3

LEMMA WinnerReconcile ==
  ASSUME TypeOK, WinnerHolds, NEW c \in Coords, NEW ids \in SUBSET PreserveIds,
         Reconcile(c, ids), regions' = regions
  PROVE  WinnerHolds'
<1> DEFINE new  == EffectiveSignature(c, ids)
           snap == /\ c \in regions
                   /\ ids # {}
                   /\ contributors[c] # {} => new # EffectiveSignature(c, contributors[c])
<1>1. /\ contributors' = [contributors EXCEPT ![c] = ids]
      /\ current' = IF snap THEN [current EXCEPT ![c] = new] ELSE current
  BY DEF Reconcile
<1> SUFFICES ASSUME NEW x \in regions, contributors'[x] # {}
             PROVE  current'[x] = EffectiveSignature(x, contributors'[x])
  BY DEF WinnerHolds, Preserved, EffectiveSignature
<1>2. x \in Coords
  BY DEF TypeOK
<1>3. CASE x = c
  <2>1. contributors'[c] = ids /\ ids # {}
    BY <1>1, <1>3 DEF TypeOK
  <2>2. CASE snap
    <3> HIDE DEF new
    <3>1. current'[c] = new
      BY <1>1, <2>2 DEF TypeOK
    <3> QED BY <1>3, <2>1, <3>1 DEF new
  <2>3. CASE ~snap
    <3>1. contributors[c] # {} /\ new = EffectiveSignature(c, contributors[c])
      BY <1>3, <2>1, <2>3
    <3>2. current'[c] = current[c] /\ current[c] = EffectiveSignature(c, contributors[c])
      BY <1>1, <1>3, <2>3, <3>1 DEF WinnerHolds, Preserved
    <3> QED BY <1>3, <2>1, <3>1, <3>2
  <2> QED BY <2>2, <2>3
<1>4. CASE x # c
  <2>1. contributors'[x] = contributors[x] /\ current'[x] = current[x]
    BY <1>1, <1>2, <1>4 DEF TypeOK
  <2> QED BY <2>1 DEF WinnerHolds, Preserved
<1> QED BY <1>3, <1>4

LEMMA WinnerNext ==
  ASSUME TypeOK, WinnerHolds, [Next]_vars
  PROVE  WinnerHolds'
<1>1. ASSUME regions' \subseteq regions, UNCHANGED contributors,
             \A c \in regions' : Preserved(c) => current'[c] = current[c]
      PROVE  WinnerHolds'
  BY <1>1 DEF WinnerHolds, Preserved, EffectiveSignature
<1>2. CASE Evict
  <2>1. /\ regions' \subseteq regions /\ UNCHANGED contributors
        /\ \A c \in regions' : c \in Coords => current'[c] = current[c]
    BY <1>2 DEF Evict
  <2> QED BY <1>1, <2>1 DEF TypeOK
<1>3. CASE Load
  <2> SUFFICES ASSUME NEW c \in regions', contributors[c] # {}
               PROVE  current'[c] = EffectiveSignature(c, contributors[c])
    BY <1>3 DEF Load, WinnerHolds, Preserved, EffectiveSignature
  <2> DEFINE dist    == Distance[input.player]
             created == NearestOf(dist, {x \in Coords \ regions : dist[x] <= LoadRadius}, MaxLoads)
             fresh   == [x \in Coords |-> IF Preserved(x) THEN EffectiveSignature(x, contributors[x])
                                          ELSE Goal(x)]
  <2>1. /\ regions' = regions \cup created
        /\ current' = [x \in Coords |-> IF x \in created THEN fresh[x] ELSE current[x]]
    BY <1>3 DEF Load
  <2>2. created \subseteq Coords
    BY DEF NearestOf
  <2>3. c \in Coords
    BY <2>1, <2>2 DEF TypeOK
  <2>4. fresh[c] = EffectiveSignature(c, contributors[c])
    BY <2>3 DEF Preserved
  <2> HIDE DEF created, fresh
  <2>5. CASE c \in created
    BY <2>1, <2>3, <2>4, <2>5
  <2>6. CASE c \notin created
    BY <2>1, <2>3, <2>6 DEF WinnerHolds, Preserved
  <2> QED BY <2>5, <2>6
<1>4. ASSUME NEW next \in [Coords -> Vectors], Converge(next)
      PROVE  WinnerHolds'
  <2>1. \A c \in regions : Preserved(c) => c \in Coords /\ c \notin Eligible
    BY DEF Eligible, TypeOK
  <2>2. \A c \in regions : Preserved(c) => next[c] = current[c]
    BY <1>4, <2>1 DEF Converge, FarthestOf
  <2> QED BY <1>1, <1>4, <2>2 DEF Converge
<1>5. CASE UNCHANGED <<regions, contributors, current>>
  BY <1>1, <1>5
<1>6. CASE FramePass
  <2>1. Integrate \/ ChannelDrained \/ (\E refreshed \in SUBSET regions : Retarget(refreshed))
          \/ DispatchPass => UNCHANGED <<regions, contributors, current>>
    BY DEF Integrate, DropLateResult, RejectResult, AcceptMacro, AcceptTile, ChannelDrained,
           Retarget, DispatchPass, RepairDependency, ScanRegion, EndPass, mapVars
  <2> QED BY <1>2, <1>3, <1>4, <1>5, <1>6, <2>1 DEF FramePass
<1>7. CASE \E p \in Players, s \in Steerings, r \in Recipes : BeginFrame(p, s, r)
  BY <1>5, <1>7 DEF BeginFrame
<1>8. CASE WorkerStep \/ UNCHANGED vars
  BY <1>5, <1>8 DEF WorkerStep, StartJob, FinishJob, FailJob, Report, vars, mapVars
<1>9. ASSUME NEW c \in Coords, NEW ids \in SUBSET PreserveIds, ApplyPreserves(c, ids)
      PROVE  WinnerHolds'
  <2>1. contributors[c] \cup ids \in SUBSET PreserveIds
    BY DEF TypeOK
  <2> QED BY <1>9, <2>1, WinnerReconcile DEF ApplyPreserves
<1>10. ASSUME NEW c \in Coords, NEW id \in contributors[c], RemovePreserve(c, id)
       PROVE  WinnerHolds'
  <2>1. contributors[c] \ {id} \in SUBSET PreserveIds
    BY DEF TypeOK
  <2> QED BY <1>10, <2>1, WinnerReconcile DEF RemovePreserve
<1>11. \A l \in Layers : BumpLayerRevision(l) => UNCHANGED <<regions, contributors, current>>
  BY DEF BumpLayerRevision
<1> QED BY <1>5, <1>6, <1>7, <1>8, <1>9, <1>10, <1>11 DEF Next, Frame, HostCall

\* A preserved resident region holds the signature of its lowest contributor, in
\* whatever order preserves come, go and meet loads and evictions (reconcile_preserve_winner).
THEOREM LowestPreserveOwns == Spec => []LowestPreserveWins
<1>1. Init => WinnerHolds
  BY TypeInit DEF Init, TypeOK, WinnerHolds, Preserved
<1>2. TypeOK /\ WinnerHolds /\ [Next]_vars => WinnerHolds'
  BY WinnerNext
<1>3. TypeOK /\ WinnerHolds => LowestPreserveWins
  BY WinnerHoldsIsLowest
<1> QED BY <1>1, <1>2, <1>3, TypeCorrect, PTL DEF Spec

\* No frame moves the realized state of a near or preserved region that stays
\* resident (the eligibility test of converge).
THEOREM PinnedRegionsStandStill == Spec => PinnedStandsStill
<1>1. ASSUME TypeOK, [Next]_vars, NEW c \in regions \cap regions', current'[c] # current[c]
      PROVE  pc = "idle" \/ ~(Near(c) \/ Preserved(c))
  <2>0. c \in Coords
    BY <1>1 DEF TypeOK
  <2>1. ~Evict /\ ~Load
    <3>1. ASSUME Evict PROVE current'[c] = current[c]
      BY <1>1, <2>0, <3>1 DEF Evict
    <3>2. ASSUME Load PROVE current'[c] = current[c]
      <4> DEFINE dist    == Distance[input.player]
                 created == NearestOf(dist, {x \in Coords \ regions : dist[x] <= LoadRadius}, MaxLoads)
                 fresh   == [x \in Coords |-> IF Preserved(x) THEN EffectiveSignature(x, contributors[x])
                                              ELSE Goal(x)]
      <4>1. current' = [x \in Coords |-> IF x \in created THEN fresh[x] ELSE current[x]]
        BY <3>2 DEF Load
      <4>2. c \notin created
        BY <1>1 DEF NearestOf
      <4> QED
        <5> HIDE DEF created, fresh
        <5> QED BY <2>0, <4>1, <4>2
    <3> QED BY <1>1, <3>1, <3>2
  <2>2. ASSUME NEW next \in [Coords -> Vectors], Converge(next)
        PROVE  ~(Near(c) \/ Preserved(c))
    <3>1. c \in Eligible
      BY <1>1, <2>0, <2>2 DEF Converge, FarthestOf
    <3> QED BY <3>1 DEF Eligible
  <2>3. CASE HostCall
    BY <2>3 DEF HostCall, ApplyPreserves, RemovePreserve, BumpLayerRevision
  <2>4. Integrate \/ ChannelDrained \/ (\E refreshed \in SUBSET regions : Retarget(refreshed))
          \/ DispatchPass => UNCHANGED current
    BY DEF Integrate, DropLateResult, RejectResult, AcceptMacro, AcceptTile, ChannelDrained,
           Retarget, DispatchPass, RepairDependency, ScanRegion, EndPass, mapVars
  <2>5. (\E p \in Players, s \in Steerings, r \in Recipes : BeginFrame(p, s, r))
          \/ WorkerStep \/ UNCHANGED vars => UNCHANGED current
    BY DEF BeginFrame, WorkerStep, StartJob, FinishJob, FailJob, Report, vars, mapVars
  <2> QED BY <1>1, <2>1, <2>2, <2>3, <2>4, <2>5 DEF Next, Frame, FramePass
<1>2. TypeOK /\ [Next]_vars =>
        [\A c \in regions \cap regions' :
           current'[c] # current[c] => pc = "idle" \/ ~(Near(c) \/ Preserved(c))]_vars
  BY <1>1
<1> QED BY <1>2, TypeCorrect, PTL DEF Spec, PinnedStandsStill
-----------------------------------------------------------------------------
(* What readers see: a Ready region is canonical, hashes are honest,        *)
(* nothing stale is forgotten, a parked region owns nothing.                *)
(*                                                                         *)
(* None of them is inductive alone.  A tile is canonical because its hash   *)
(* is the key of now (StaleIsScheduled with ReadyIsClean) and its content   *)
(* is what its hash says (ProvenanceHonest); invalidation finds every key   *)
(* it has to find because parked regions own nothing (ParkedOwnsNothing),   *)
(* and the dispatch pass publishes for admitted regions only (TodoIsActive).*)

\* Only resident regions are admitted.
ActiveIsResident == \A c \in Coords : Active(c) => c \in regions

\* A Ready region has no dirty layer and no dispatch.
ReadyIsClean ==
  \A c \in Coords : status[c] = "Ready" =>
    /\ dirty[c] = {}
    /\ \A l \in TileLayers : inFlight[<<c, l>>] = NoJob

\* A dispatch pass visits admitted regions, and no pass is left half done.
TodoIsActive ==
  /\ pc # "pass" => todo = {}
  /\ \A c \in todo : Active(c)

\* What the tile side of an action has to keep, and the inductive invariant.
TileInv ==
  /\ ActiveIsResident
  /\ StaleIsScheduled
  /\ ReadyIsClean
  /\ ParkedOwnsNothing
  /\ InFlightIsCurrent

IInv == TypeOK /\ ProvenanceHonest /\ TodoIsActive /\ TileInv

-----------------------------------------------------------------------------
(* Keys and hashes.                                                         *)

LEMMA NotNone ==
  /\ \A i, h : [id |-> i, hash |-> h] # NoJob
  /\ \A h, t : [hash |-> h, content |-> t] # NoTile
BY DEF NoJob, NoTile

\* A layer reaches itself, and what its key folds reaches it.
LEMMA UpstreamReaches ==
  ASSUME NEW l \in Layers
  PROVE  /\ l \in Upstream[l] /\ l \in Closure[l] /\ Closure[l] \subseteq Layers
         /\ \A u \in Upstream[l] : u \in Layers /\ l \in Closure[u]
         /\ DRAINAGE \in Upstream[l] => l \in Closure[TERRAIN]
         /\ DRAINAGE \in Closure[TERRAIN] /\ DRAINAGE \in Closure[DRAINAGE]
<1>1. \A m \in Layers : m \in Upstream[m]
  BY LayerAssumption DEF LayerAssumption
<1> QED BY <1>1, LayerAssumption DEF LayerAssumption

LEMMA TileKey ==
  ASSUME NEW c \in Coords, NEW l \in TileLayers
  PROVE  /\ <<c, l>> \in TileKeys /\ <<c, l>> \in Keys /\ InputKey(c, l) = <<c, l>>
         /\ l \in Layers /\ l # DRAINAGE
         /\ \A m \in Macros : <<c, l>> # <<m, DRAINAGE>>
         /\ <<c, l>> \notin MacroKeys
BY DEF Keys, TileKeys, TileLayers, InputKey, MacroKeys

\* A layer's own facts move only with its revision, the halo, the recipe or its buckets.
LEMMA OwnFactsFrame ==
  ASSUME NEW k, k[2] \in Layers,
         revisionBumps'[k[2]] = revisionBumps[k[2]],
         k[2] = DRAINAGE => /\ revisionBumps'[TERRAIN] = revisionBumps[TERRAIN]
                            /\ CellRegions[fieldRecipe'] = CellRegions[fieldRecipe],
         k[2] = TERRAIN => \A s \in Neighbours[k[1]] : TerrainPair(s)' = TerrainPair(s),
         k[2] \notin {TERRAIN, DRAINAGE} =>
           \A d \in Reads[k[2]] : current'[k[1]][d] = current[k[1]][d]
  PROVE  OwnFacts(k)' = OwnFacts(k)
<1>0. TERRAIN # DRAINAGE
  BY LayerAssumption DEF LayerAssumption
<1>1. CASE k[2] = DRAINAGE
  BY <1>0, <1>1 DEF OwnFacts, RevisionFact
<1>2. CASE k[2] = TERRAIN
  <2>1. {<<"pair", s, TerrainPair(s)'>> : s \in Neighbours[k[1]]}
          = {<<"pair", s, TerrainPair(s)>> : s \in Neighbours[k[1]]}
    BY <1>2
  <2> QED BY <1>2, <2>1 DEF OwnFacts, RevisionFact
<1>3. CASE k[2] \notin {TERRAIN, DRAINAGE}
  <2>1. {<<"bucket", d, current'[k[1]][d]>> : d \in Reads[k[2]]}
          = {<<"bucket", d, current[k[1]][d]>> : d \in Reads[k[2]]}
    BY <1>3
  <2> QED BY <1>3, <2>1 DEF OwnFacts, RevisionFact
<1> QED BY <1>1, <1>2, <1>3

\* So a tile's key stands while the facts of everything it folds stand.
LEMMA HashFrame ==
  ASSUME NEW x \in Coords, NEW l \in TileLayers,
         \A u \in Upstream[l] : revisionBumps'[u] = revisionBumps[u],
         DRAINAGE \in Upstream[l] => /\ revisionBumps'[TERRAIN] = revisionBumps[TERRAIN]
                                     /\ CellRegions[fieldRecipe'] = CellRegions[fieldRecipe],
         TERRAIN \in Upstream[l] => \A s \in Neighbours[x] : TerrainPair(s)' = TerrainPair(s),
         \A u \in Upstream[l] \ {TERRAIN, DRAINAGE} :
           \A d \in Reads[u] : current'[x][d] = current[x][d]
  PROVE  ExpectedHash(<<x, l>>)' = ExpectedHash(<<x, l>>)
<1>1. ASSUME NEW u \in Upstream[l]
      PROVE  OwnFacts(InputKey(x, u))' = OwnFacts(InputKey(x, u))
  <2> DEFINE k == InputKey(x, u)
  <2>1. u \in Layers
    BY UpstreamReaches DEF TileLayers
  <2>2. k[2] = u /\ (u # DRAINAGE => k[1] = x)
    BY DEF InputKey
  <2>3. TERRAIN # DRAINAGE
    BY LayerAssumption DEF LayerAssumption
  <2> HIDE DEF k
  <2>4. OwnFacts(k)' = OwnFacts(k)
    BY <2>1, <2>2, <2>3, OwnFactsFrame
  <2> QED BY <2>4 DEF k
<1> QED BY <1>1 DEF ExpectedHash, TileLayers

\* The marks of a change of authority cover every admitted tile whose key it moves:
\* `moved' are the regions with a new terrain pair, `flipped' the domains of x that
\* have a new bucket.
LEMMA DriftFrame ==
  ASSUME NEW x \in Coords, NEW l \in TileLayers, Active(x), NEW moved, NEW flipped,
         TypeOK,
         UNCHANGED <<fieldRecipe, revisionBumps>>,
         \A s \in Coords : s \notin moved => TerrainPair(s)' = TerrainPair(s),
         \A d \in Domains : d \notin flipped => current'[x][d] = current[x][d],
         l \notin TerrainMarks(x, moved),
         l \notin DomainDirtyMask(flipped)
  PROVE  ExpectedHash(<<x, l>>)' = ExpectedHash(<<x, l>>)
<1>1. l \in Layers /\ \A u \in Upstream[l] : u \in Layers /\ l \in Closure[u]
  BY UpstreamReaches DEF TileLayers
<1>2. ASSUME TERRAIN \in Upstream[l], NEW s \in Neighbours[x]
      PROVE  TerrainPair(s)' = TerrainPair(s)
  <2>1. s \in Coords
    BY GeometryAssumption DEF GeometryAssumption
  <2>2. s \notin moved
    BY <1>1, <1>2 DEF TerrainMarks
  <2> QED BY <2>1, <2>2
<1>3. ASSUME NEW u \in Upstream[l], NEW d \in Reads[u]
      PROVE  current'[x][d] = current[x][d]
  <2>1. d \in Domains
    BY <1>1, LayerAssumption DEF LayerAssumption
  <2>2. d \notin flipped
    BY <1>1 DEF DomainDirtyMask
  <2> QED BY <2>1, <2>2
<1> QED BY <1>2, <1>3, HashFrame

\* The key of a macro tile moves with two revisions and the lattice spacing.
LEMMA MacroHashFrame ==
  ASSUME NEW m \in Macros,
         revisionBumps'[DRAINAGE] = revisionBumps[DRAINAGE],
         revisionBumps'[TERRAIN] = revisionBumps[TERRAIN],
         CellRegions[fieldRecipe'] = CellRegions[fieldRecipe]
  PROVE  ExpectedHash(<<m, DRAINAGE>>)' = ExpectedHash(<<m, DRAINAGE>>)
<1>1. TERRAIN # DRAINAGE
  BY LayerAssumption DEF LayerAssumption
<1> QED BY <1>1 DEF ExpectedHash, OwnFacts, RevisionFact

\* A step that leaves authority, recipe and revisions alone moves no key.
LEMMA HashStands ==
  ASSUME UNCHANGED <<regions, current, fieldRecipe, revisionBumps>>
  PROVE  \A k \in Keys : ExpectedHash(k)' = ExpectedHash(k)
BY DEF ExpectedHash, OwnFacts, RevisionFact, TerrainPair

-----------------------------------------------------------------------------
(* What invalidation keeps.                                                 *)

\* An unchanged working set keeps the invariant.
LEMMA TilesStand ==
  ASSUME TypeOK, TileInv,
         UNCHANGED <<regions, status, current, dirty, store, inFlight, fieldRecipe, revisionBumps>>
  PROVE  TileInv'
<1>1. \A k \in Keys : FreshKey(k)' = FreshKey(k) /\ ExpectedHash(k)' = ExpectedHash(k)
  BY HashStands DEF FreshKey
<1>2. ActiveIsResident' /\ ReadyIsClean' /\ ParkedOwnsNothing'
  BY DEF TileInv, ActiveIsResident, ReadyIsClean, ParkedOwnsNothing, Active
<1>3. StaleIsScheduled'
  <2>1. StaleIsScheduled /\ UNCHANGED <<regions, status, dirty, inFlight>>
    BY DEF TileInv
  <2>2. \A c \in regions : Active(c) => c \in Coords
    BY DEF TypeOK
  <2>3. \A c \in regions, l \in TileLayers :
          Active(c) => FreshKey(<<c, l>>)' = FreshKey(<<c, l>>)
    BY <1>1, <2>2, TileKey
  <2>4. \A c \in regions : Active(c)' = Active(c)
    BY <2>1 DEF Active
  <2> QED BY <2>1, <2>3, <2>4 DEF StaleIsScheduled
<1>4. InFlightIsCurrent'
  BY <1>1 DEF TileInv, InFlightIsCurrent
<1> QED BY <1>2, <1>3, <1>4 DEF TileInv

\* Flipping tokens changes no provenance.
LEMMA TokensAreHonest ==
  ASSUME NEW retired, \A j \in jobs : j.content = j.hash, TypeOK
  PROVE  \A j \in CancelTokens(retired) : j.content = j.hash
<1> SUFFICES ASSUME NEW j \in jobs
             PROVE  [j EXCEPT !.cancelled = TRUE].content = [j EXCEPT !.cancelled = TRUE].hash
  BY DEF CancelTokens
<1>1. j \in Job /\ j.content = j.hash
  BY DEF TypeOK
<1> QED BY <1>1 DEF Job

\* Invalidate keeps the invariant if `marks' has every admitted tile whose key moves
\* or whose dispatch is forgotten, and `also' every macro tile whose key moves.
LEMMA InvalidateKeeps ==
  ASSUME TypeOK, TileInv, NEW marks \in [Coords -> SUBSET Layers], NEW also,
         Invalidate(marks, also),
         regions' = regions,
         \A k \in TileKeys : store'[k] = store[k],
         \A x \in Coords, l \in TileLayers :
           Active(x) /\ l \notin marks[x] =>
             ExpectedHash(<<x, l>>)' = ExpectedHash(<<x, l>>),
         \A x \in Coords, l \in TileLayers :
           <<x, l>> \in also => l \in marks[x] \/ FreshKey(<<x, l>>) \/ ~Active(x),
         \A k \in MacroKeys : k \notin also => ExpectedHash(k)' = ExpectedHash(k)
  PROVE  TileInv'
<1>1. /\ dirty'  = [c \in Coords |-> dirty[c] \cup marks[c]]
      /\ status' = [c \in Coords |-> IF marks[c] # {} /\ status[c] = "Ready"
                                     THEN "Generating" ELSE status[c]]
      /\ inFlight' = Forget(KeysOf(marks) \cup also)
  BY DEF Invalidate
<1>2. \A c \in Coords : Active(c)' <=> Active(c)
  BY <1>1 DEF Active
<1>3. \A k \in Keys : /\ k \in KeysOf(marks) \cup also => inFlight'[k] = NoJob
                      /\ k \notin KeysOf(marks) \cup also => inFlight'[k] = inFlight[k]
  BY <1>1 DEF Forget
<1>4. \A c \in Coords, l \in TileLayers : <<c, l>> \in KeysOf(marks) <=> l \in marks[c]
  BY TileKey DEF KeysOf
<1>5. ActiveIsResident'
  BY <1>2 DEF TileInv, ActiveIsResident
<1>6. StaleIsScheduled'
  <2> SUFFICES ASSUME NEW c \in regions', Active(c)', NEW l \in TileLayers
               PROVE  FreshKey(<<c, l>>)' \/ l \in dirty'[c] \/ inFlight'[<<c, l>>] # NoJob
    BY DEF StaleIsScheduled
  <2>1. c \in Coords /\ c \in regions /\ Active(c)
    BY <1>2 DEF TypeOK
  <2>2. FreshKey(<<c, l>>) \/ l \in dirty[c] \/ inFlight[<<c, l>>] # NoJob
    BY <2>1 DEF TileInv, StaleIsScheduled
  <2>3. l \in marks[c] \/ l \in dirty[c] => l \in dirty'[c]
    BY <1>1, <2>1
  <2>4. ASSUME l \notin marks[c]
        PROVE  FreshKey(<<c, l>>)' = FreshKey(<<c, l>>)
    <3>1. ExpectedHash(<<c, l>>)' = ExpectedHash(<<c, l>>) /\ store'[<<c, l>>] = store[<<c, l>>]
      BY <2>1, <2>4, TileKey
    <3> QED BY <3>1 DEF FreshKey
  <2>5. ASSUME l \notin marks[c], ~FreshKey(<<c, l>>)
        PROVE  inFlight'[<<c, l>>] = inFlight[<<c, l>>]
    BY <1>3, <1>4, <2>1, <2>5, TileKey
  <2> QED BY <2>2, <2>3, <2>4, <2>5
<1>7. ReadyIsClean'
  <2> SUFFICES ASSUME NEW c \in Coords, status'[c] = "Ready"
               PROVE  dirty'[c] = {} /\ \A l \in TileLayers : inFlight'[<<c, l>>] = NoJob
    BY DEF ReadyIsClean
  <2>1. status[c] = "Ready" /\ marks[c] = {}
    BY <1>1
  <2> QED BY <1>1, <1>3, <2>1, TileKey DEF TileInv, ReadyIsClean
<1>8. ParkedOwnsNothing'
  BY <1>2, <1>3, TileKey DEF TileInv, ParkedOwnsNothing
<1>9. InFlightIsCurrent'
  <2> SUFFICES ASSUME NEW k \in Keys, inFlight'[k] # NoJob
               PROVE  inFlight'[k].hash = ExpectedHash(k)'
    BY DEF InFlightIsCurrent
  <2>1. k \notin KeysOf(marks) \cup also /\ inFlight'[k] = inFlight[k]
        /\ inFlight[k].hash = ExpectedHash(k)
    BY <1>3 DEF TileInv, InFlightIsCurrent
  <2>2. CASE k \in MacroKeys
    BY <2>1, <2>2
  <2>3. CASE k \in TileKeys
    <3>1. k = <<k[1], k[2]>> /\ k[1] \in Coords /\ k[2] \in TileLayers
      BY <2>3, KeyCases
    <3>2. k[2] \notin marks[k[1]]
      BY <1>4, <2>1, <3>1
    <3>3. Active(k[1])
      BY <2>1, <3>1 DEF TileInv, ParkedOwnsNothing
    <3> QED BY <2>1, <3>1, <3>2, <3>3
  <2> QED BY <2>2, <2>3 DEF Keys
<1> QED BY <1>5, <1>6, <1>7, <1>8, <1>9 DEF TileInv

-----------------------------------------------------------------------------
(* One lemma per action: it keeps TileInv.                                  *)

LEMMA TileReconcile ==
  ASSUME TypeOK, TileInv, NEW c \in Coords, NEW ids \in SUBSET PreserveIds, Reconcile(c, ids),
         UNCHANGED <<regions, store, fieldRecipe, revisionBumps>>
  PROVE  TileInv'
<1> DEFINE new   == EffectiveSignature(c, ids)
           snap  == /\ c \in regions
                    /\ ids # {}
                    /\ contributors[c] # {} => new # EffectiveSignature(c, contributors[c])
           moved == IF snap /\ Slow(current[c]) # Slow(new) THEN {c} ELSE {}
           mask  == IF snap THEN DomainDirtyMask(Flips(current[c], new)) ELSE {}
           marks == [x \in Coords |-> TerrainMarks(x, moved) \cup IF x = c THEN mask ELSE {}]
<1>1. current' = (IF snap THEN [current EXCEPT ![c] = new] ELSE current) /\ Invalidate(marks, {})
  BY DEF Reconcile
<1>2. marks \in [Coords -> SUBSET Layers]
  BY MarksType
<1>3. ASSUME NEW s \in Coords, s \notin moved
      PROVE  TerrainPair(s)' = TerrainPair(s)
  <2>1. CASE snap /\ s = c
    BY <1>1, <1>3, <2>1 DEF TerrainPair, TypeOK
  <2>2. CASE ~(snap /\ s = c)
    <3>1. current'[s] = current[s]
      BY <1>1, <2>2 DEF TypeOK
    <3> QED BY <3>1 DEF TerrainPair
  <2> QED BY <2>1, <2>2
<1>4. ASSUME NEW x \in Coords, NEW l \in TileLayers, Active(x), l \notin marks[x]
      PROVE  ExpectedHash(<<x, l>>)' = ExpectedHash(<<x, l>>)
  <2> DEFINE flipped == IF x = c /\ snap THEN Flips(current[c], new) ELSE {}
  <2>1. l \notin TerrainMarks(x, moved) /\ l \notin DomainDirtyMask(flipped)
    <3>1. l \notin TerrainMarks(x, moved) /\ (x = c => l \notin mask)
      BY <1>4
    <3>2. DomainDirtyMask({}) = {}
      BY DEF DomainDirtyMask
    <3> QED BY <3>1, <3>2
  <2>2. \A d \in Domains : d \notin flipped => current'[x][d] = current[x][d]
    BY <1>1 DEF TypeOK, Flips
  <2> HIDE DEF flipped, moved, marks
  <2> QED BY <1>3, <1>4, <2>1, <2>2, DriftFrame
<1>5. \A k \in MacroKeys : ExpectedHash(k)' = ExpectedHash(k)
  <2> SUFFICES ASSUME NEW m \in Macros
               PROVE  ExpectedHash(<<m, DRAINAGE>>)' = ExpectedHash(<<m, DRAINAGE>>)
    BY DEF MacroKeys
  <2> QED BY MacroHashFrame
<1> HIDE DEF marks
<1> QED BY <1>1, <1>2, <1>4, <1>5, InvalidateKeeps

LEMMA TileBump ==
  ASSUME TypeOK, TileInv, NEW l0 \in Layers, BumpLayerRevision(l0)
  PROVE  TileInv'
<1> DEFINE marks == [c \in Coords |-> IF c \in regions THEN Closure[l0] ELSE {}]
           also  == IF DRAINAGE \in Closure[l0] THEN MacroKeys ELSE {}
<1>1. /\ Invalidate(marks, also)
      /\ revisionBumps' = [revisionBumps EXCEPT ![l0] = revisionBumps[l0] + 1]
      /\ UNCHANGED <<regions, current, store, fieldRecipe>>
  BY DEF BumpLayerRevision
<1>2. marks \in [Coords -> SUBSET Layers]
  BY LayerAssumption DEF LayerAssumption
<1>3. \A m \in Layers : m # l0 => revisionBumps'[m] = revisionBumps[m]
  BY <1>1 DEF TypeOK
<1>4. TERRAIN \in Layers /\ DRAINAGE \in Layers
  BY LayerAssumption DEF LayerAssumption
<1>5. ASSUME NEW x \in Coords, NEW l \in TileLayers, Active(x), l \notin marks[x]
      PROVE  ExpectedHash(<<x, l>>)' = ExpectedHash(<<x, l>>)
  <2>1. l \notin Closure[l0]
    BY <1>5 DEF TileInv, ActiveIsResident
  <2>2. \A u \in Upstream[l] : u \in Layers /\ u # l0
    BY <2>1, UpstreamReaches, TileKey
  <2>3. DRAINAGE \in Upstream[l] => TERRAIN # l0
    BY <2>1, UpstreamReaches, TileKey
  <2>4. \A s \in Neighbours[x] : TerrainPair(s)' = TerrainPair(s)
    BY <1>1 DEF TerrainPair
  <2> QED BY <1>1, <1>3, <1>4, <2>2, <2>3, <2>4, HashFrame
<1>6. ASSUME NEW k \in MacroKeys, k \notin also
      PROVE  ExpectedHash(k)' = ExpectedHash(k)
  <2>1. PICK m \in Macros : k = <<m, DRAINAGE>>
    BY DEF MacroKeys
  <2>2. l0 # DRAINAGE /\ l0 # TERRAIN
    BY <1>4, <1>6, UpstreamReaches
  <2> QED BY <1>1, <1>3, <1>4, <2>1, <2>2, MacroHashFrame
<1>7. \A x \in Coords, l \in TileLayers : <<x, l>> \notin also
  BY TileKey
<1> HIDE DEF marks, also
<1> QED BY <1>1, <1>2, <1>5, <1>6, <1>7, InvalidateKeeps

LEMMA TileHost ==
  ASSUME TypeOK, TileInv, HostCall
  PROVE  TileInv'
<1>1. ASSUME NEW c \in Coords, NEW ids \in SUBSET PreserveIds, ApplyPreserves(c, ids)
      PROVE  TileInv'
  <2>1. contributors[c] \cup ids \in SUBSET PreserveIds
    BY DEF TypeOK
  <2> QED BY <1>1, <2>1, TileReconcile DEF ApplyPreserves, envVars
<1>2. ASSUME NEW c \in Coords, NEW id \in contributors[c], RemovePreserve(c, id)
      PROVE  TileInv'
  <2>1. contributors[c] \ {id} \in SUBSET PreserveIds
    BY DEF TypeOK
  <2> QED BY <1>2, <2>1, TileReconcile DEF RemovePreserve, envVars
<1> QED BY <1>1, <1>2, TileBump DEF HostCall

LEMMA TileBegin ==
  ASSUME TypeOK, TileInv, NEW p \in Players, NEW s \in Steerings, NEW r \in Recipes,
         BeginFrame(p, s, r)
  PROVE  TileInv'
<1> DEFINE changed == r # fieldRecipe
           marks   == RecipeMarks(changed)
           also    == IF changed THEN MacroKeys ELSE {}
<1>1. /\ Invalidate(marks, also)
      /\ fieldRecipe' = r
      /\ UNCHANGED <<regions, current, store, revisionBumps>>
  BY DEF BeginFrame
<1>2. marks \in [Coords -> SUBSET Layers]
  BY LayerAssumption DEF LayerAssumption, RecipeMarks
<1>3. ~changed => \A k \in Keys : ExpectedHash(k)' = ExpectedHash(k)
  BY <1>1, HashStands
<1>4. ASSUME NEW x \in Coords, NEW l \in TileLayers, Active(x), l \notin marks[x]
      PROVE  ExpectedHash(<<x, l>>)' = ExpectedHash(<<x, l>>)
  <2>1. CASE ~changed
    BY <1>3, <2>1, TileKey
  <2>2. CASE changed
    <3>1. l \notin Closure[TERRAIN]
      BY <1>4, <2>2 DEF RecipeMarks
    <3>2. TERRAIN \notin Upstream[l] /\ DRAINAGE \notin Upstream[l]
      BY <3>1, UpstreamReaches, TileKey
    <3> QED BY <1>1, <3>2, HashFrame
  <2> QED BY <2>1, <2>2
<1>5. \A k \in MacroKeys : k \notin also => ExpectedHash(k)' = ExpectedHash(k)
  BY <1>3 DEF Keys
<1>6. \A x \in Coords, l \in TileLayers : <<x, l>> \notin also
  BY TileKey
<1> HIDE DEF marks, also
<1> QED BY <1>1, <1>2, <1>4, <1>5, <1>6, InvalidateKeeps

LEMMA TileConverge ==
  ASSUME TypeOK, TileInv, NEW next \in [Coords -> Vectors], Converge(next)
  PROVE  TileInv'
<1> DEFINE moving == FarthestOf(Distance[input.player], Eligible, MaxConverge)
           moved  == {c \in moving : Slow(next[c]) # Slow(current[c])}
           marks  == [c \in Coords |-> DomainDirtyMask(Flips(current[c], next[c]))
                                       \cup TerrainMarks(c, moved)]
<1>1. /\ Invalidate(marks, {})
      /\ current' = next
      /\ \A c \in Coords : c \notin moving => next[c] = current[c]
      /\ UNCHANGED <<regions, store, fieldRecipe, revisionBumps>>
  BY DEF Converge, envVars
<1>2. marks \in [Coords -> SUBSET Layers]
  BY MarksType
<1>3. ASSUME NEW s \in Coords, s \notin moved
      PROVE  TerrainPair(s)' = TerrainPair(s)
  <2>1. Slow(next[s]) = Slow(current[s])
    BY <1>1, <1>3
  <2> QED BY <1>1, <2>1 DEF TerrainPair
<1>4. ASSUME NEW x \in Coords, NEW l \in TileLayers, Active(x), l \notin marks[x]
      PROVE  ExpectedHash(<<x, l>>)' = ExpectedHash(<<x, l>>)
  <2>1. l \notin TerrainMarks(x, moved) /\ l \notin DomainDirtyMask(Flips(current[x], next[x]))
    BY <1>4
  <2>2. \A d \in Domains : d \notin Flips(current[x], next[x]) => current'[x][d] = current[x][d]
    BY <1>1 DEF Flips
  <2> HIDE DEF moved, marks
  <2> QED BY <1>1, <1>3, <1>4, <2>1, <2>2, DriftFrame
<1>5. \A k \in MacroKeys : ExpectedHash(k)' = ExpectedHash(k)
  <2> SUFFICES ASSUME NEW m \in Macros
               PROVE  ExpectedHash(<<m, DRAINAGE>>)' = ExpectedHash(<<m, DRAINAGE>>)
    BY DEF MacroKeys
  <2> QED BY <1>1, MacroHashFrame
<1> HIDE DEF marks
<1> QED BY <1>1, <1>2, <1>4, <1>5, InvalidateKeeps

LEMMA TileRepair ==
  ASSUME TypeOK, TileInv, NEW c \in Coords, NEW consumer \in Layers, NEW d \in Layers,
         RepairDependency(c, consumer, d)
  PROVE  TileInv'
<1> DEFINE k == InputKey(c, d)
           rebuilt(x) == d = DRAINAGE /\ PendingObsolete(k) /\ ~FreshKey(k)
                           /\ x \in Covered(MacroOf[c])
           marks == [x \in Coords |-> (IF rebuilt(x) THEN Closure[DRAINAGE] ELSE {})
                                      \cup (IF x = c /\ ~FreshKey(k) THEN {d} ELSE {})]
           also  == IF PendingObsolete(k) THEN {k} ELSE {}
<1>1. /\ Invalidate(marks, also)
      /\ UNCHANGED <<regions, current, store, fieldRecipe, revisionBumps>>
  BY DEF RepairDependency, envVars
<1>2. marks \in [Coords -> SUBSET Layers]
  BY LayerAssumption DEF LayerAssumption
<1>3. \A i \in Keys : ExpectedHash(i)' = ExpectedHash(i)
  BY <1>1, HashStands
<1>4. ASSUME NEW x \in Coords, NEW l \in TileLayers, <<x, l>> \in also
      PROVE  l \in marks[x] \/ FreshKey(<<x, l>>)
  <2>1. k = <<x, l>>
    BY <1>4
  <2>2. x = c /\ l = d
    <3>1. d # DRAINAGE
      BY <2>1, TileKey DEF InputKey
    <3> QED BY <2>1, <3>1 DEF InputKey
  <2> QED BY <2>1, <2>2
<1> HIDE DEF marks, also
<1> QED BY <1>1, <1>2, <1>3, <1>4, TileKey, InvalidateKeeps DEF Keys

LEMMA TileReject ==
  ASSUME TypeOK, TileInv, NEW r \in results, RejectResult(r)
  PROVE  TileInv'
<1> DEFINE marks == [c \in Coords |->
                   CASE r.key[2] = DRAINAGE /\ c \in Covered(r.key[1]) -> Closure[DRAINAGE]
                     [] r.key[2] # DRAINAGE /\ r.key[1] = c /\ c \in regions -> Closure[r.key[2]]
                     [] OTHER -> {}]
<1>1. /\ Invalidate(marks, {r.key})
      /\ UNCHANGED <<regions, current, store, fieldRecipe, revisionBumps>>
  BY DEF RejectResult, envVars
<1>2. r.key \in Keys /\ r.key[2] \in Layers
  BY KeyCases DEF TypeOK, Result
<1>3. marks \in [Coords -> SUBSET Layers]
  BY <1>2, LayerAssumption DEF LayerAssumption
<1>4. \A k \in Keys : ExpectedHash(k)' = ExpectedHash(k)
  BY <1>1, HashStands
<1>5. ASSUME NEW x \in Coords, NEW l \in TileLayers, <<x, l>> = r.key, Active(x)
      PROVE  l \in marks[x]
  <2>1. x \in regions /\ r.key[1] = x /\ r.key[2] = l /\ l # DRAINAGE
    BY <1>5, TileKey DEF TileInv, ActiveIsResident
  <2>2. marks[x] = Closure[l]
    BY <2>1
  <2> QED BY <2>2, UpstreamReaches, TileKey
<1> HIDE DEF marks
<1> QED BY <1>1, <1>3, <1>4, <1>5, TileKey, InvalidateKeeps DEF Keys

LEMMA TileAcceptMacro ==
  ASSUME TypeOK, TileInv, NEW r \in results, AcceptMacro(r)
  PROVE  TileInv'
<1> DEFINE marks == [c \in Coords |-> IF Changes(r) /\ c \in Covered(r.key[1])
                                      THEN {HYDROLOGY} ELSE {}]
<1>1. /\ Invalidate(marks, {r.key})
      /\ store' = [store EXCEPT ![r.key] = [hash |-> r.hash, content |-> r.content]]
      /\ r.key[2] = DRAINAGE
      /\ UNCHANGED <<regions, current, fieldRecipe, revisionBumps>>
  BY DEF AcceptMacro, envVars
<1>2. marks \in [Coords -> SUBSET Layers]
  BY LayerAssumption DEF LayerAssumption
<1>3. \A k \in Keys : ExpectedHash(k)' = ExpectedHash(k)
  BY <1>1, HashStands
<1>4. \A k \in TileKeys : k # r.key
  BY <1>1, KeyCases DEF Keys
<1>5. \A k \in TileKeys : store'[k] = store[k]
  BY <1>1, <1>4 DEF TypeOK, Keys
<1> HIDE DEF marks
<1> QED BY <1>1, <1>2, <1>3, <1>4, <1>5, TileKey, InvalidateKeeps DEF Keys

LEMMA TileAcceptTile ==
  ASSUME TypeOK, TileInv, NEW r \in results, AcceptTile(r)
  PROVE  TileInv'
<1> DEFINE c == r.key[1]
           l == r.key[2]
           dependents == IF Changes(r) THEN Closure[l] \ {l} ELSE {}
           retired == {<<c, d>> : d \in dependents \ {DRAINAGE}}
<1>1. r.key \in Keys /\ c \in Coords /\ l \in TileLayers /\ r.key = <<c, l>>
      /\ l \in Layers /\ l # DRAINAGE
  BY KeyCases DEF TypeOK, Result, AcceptTile
<1>2. /\ Publishable(r)
      /\ store' = [store EXCEPT ![r.key] = [hash |-> r.hash, content |-> r.content]]
      /\ dirty' = [dirty EXCEPT ![c] = (dirty[c] \ {l}) \cup dependents]
      /\ inFlight' = Forget(retired \cup {r.key})
      /\ status' = [status EXCEPT ![c] = RefreshedStatus(c)]
      /\ UNCHANGED <<regions, current, fieldRecipe, revisionBumps>>
  BY DEF AcceptTile, envVars
<1>3. \A k \in Keys : ExpectedHash(k)' = ExpectedHash(k)
  BY <1>2, HashStands
<1>4. inFlight[r.key] # NoJob /\ r.hash = ExpectedHash(r.key)
  BY <1>2 DEF Publishable, Owned
<1>5. Active(c) /\ c \in regions
  BY <1>1, <1>4 DEF TileInv, ParkedOwnsNothing, ActiveIsResident
<1>6. \A k \in Keys : /\ k \in retired \cup {r.key} => inFlight'[k] = NoJob
                      /\ k \notin retired \cup {r.key} => inFlight'[k] = inFlight[k]
  BY <1>2 DEF Forget
<1>7. /\ \A x \in Coords : x # c => status'[x] = status[x] /\ dirty'[x] = dirty[x]
      /\ status'[c] \in {"Ready", "Generating"}
      /\ dirty'[c] = (dirty[c] \ {l}) \cup dependents
      /\ status'[c] = RefreshedStatus(c)
  BY <1>1, <1>2, <1>5 DEF RefreshedStatus, TypeOK
<1>8. \A x \in Coords : Active(x)' <=> Active(x)
  BY <1>5, <1>7 DEF Active
<1>9. FreshKey(r.key)'
  <2>1. store'[r.key] = [hash |-> r.hash, content |-> r.content]
    BY <1>1, <1>2 DEF TypeOK
  <2> QED BY <1>1, <1>3, <1>4, <2>1, NotNone DEF FreshKey
<1>10. \A k \in Keys : k # r.key => store'[k] = store[k] /\ FreshKey(k)' = FreshKey(k)
  BY <1>1, <1>2, <1>3 DEF FreshKey, TypeOK
<1>11. ASSUME NEW x \in Coords, NEW m \in TileLayers, <<x, m>> \in retired
       PROVE  x = c /\ m \in dependents
  BY <1>11
<1>12. ActiveIsResident'
  BY <1>2, <1>8 DEF TileInv, ActiveIsResident
<1>13. StaleIsScheduled'
  <2> SUFFICES ASSUME NEW x \in regions', Active(x)', NEW m \in TileLayers
               PROVE  FreshKey(<<x, m>>)' \/ m \in dirty'[x] \/ inFlight'[<<x, m>>] # NoJob
    BY DEF StaleIsScheduled
  <2>1. x \in Coords /\ x \in regions /\ Active(x) /\ <<x, m>> \in Keys
    BY <1>2, <1>8, TileKey DEF TypeOK
  <2>2. FreshKey(<<x, m>>) \/ m \in dirty[x] \/ inFlight[<<x, m>>] # NoJob
    BY <2>1 DEF TileInv, StaleIsScheduled
  <2>3. CASE <<x, m>> = r.key
    BY <1>9, <2>3
  <2>4. CASE <<x, m>> # r.key
    <3>1. FreshKey(<<x, m>>)' = FreshKey(<<x, m>>)
      BY <1>10, <2>1, <2>4
    <3>2. m \in dirty[x] => m \in dirty'[x]
      BY <1>1, <1>7, <2>1, <2>4
    <3>3. CASE <<x, m>> \in retired
      BY <1>7, <1>11, <2>1, <3>3
    <3>4. CASE <<x, m>> \notin retired
      BY <1>6, <2>1, <2>2, <2>4, <3>1, <3>2, <3>4
    <3> QED BY <3>3, <3>4
  <2> QED BY <2>3, <2>4
<1>14. ReadyIsClean'
  <2> SUFFICES ASSUME NEW x \in Coords, status'[x] = "Ready"
               PROVE  dirty'[x] = {} /\ \A m \in TileLayers : inFlight'[<<x, m>>] = NoJob
    BY DEF ReadyIsClean
  <2>1. CASE x = c
    BY <1>5, <1>7, <2>1 DEF RefreshedStatus
  <2>2. CASE x # c
    <3>1. dirty[x] = {} /\ \A m \in TileLayers : inFlight[<<x, m>>] = NoJob
      BY <1>7, <2>2 DEF TileInv, ReadyIsClean
    <3> QED BY <1>6, <1>7, <2>2, <3>1, TileKey
  <2> QED BY <2>1, <2>2
<1>15. ParkedOwnsNothing'
  <2> SUFFICES ASSUME NEW x \in Coords, ~Active(x)', NEW m \in TileLayers
               PROVE  store'[<<x, m>>] = NoTile /\ inFlight'[<<x, m>>] = NoJob
    BY DEF ParkedOwnsNothing
  <2>1. ~Active(x) /\ x # c
    BY <1>5, <1>8
  <2>2. store[<<x, m>>] = NoTile /\ inFlight[<<x, m>>] = NoJob
    BY <2>1 DEF TileInv, ParkedOwnsNothing
  <2>3. <<x, m>> \in Keys /\ <<x, m>> # r.key
    BY <1>1, <2>1, TileKey
  <2> QED BY <1>6, <1>10, <2>2, <2>3
<1>16. InFlightIsCurrent'
  BY <1>3, <1>6 DEF TileInv, InFlightIsCurrent
<1> QED BY <1>12, <1>13, <1>14, <1>15, <1>16 DEF TileInv

LEMMA TileEvict ==
  ASSUME TypeOK, TileInv, Evict
  PROVE  TileInv'
<1> DEFINE gone    == {c \in regions : Distance[input.player][c] > UnloadRadius}
           charged == Disposable(regions \ gone)
           parked  == FarthestOf(Distance[input.player], charged, Cardinality(charged) - MaxFields)
           cleared == gone \cup parked
           moved   == {c \in gone : Slow(current[c]) # Slow(Sample[fieldRecipe][c])}
           marks   == [c \in Coords |-> IF c \in cleared THEN {} ELSE TerrainMarks(c, moved)]
           served  == {c \in Coords \ cleared : Active(c)}
           orphans == IF cleared = {} THEN {} ELSE Macros \ {MacroOf[c] : c \in served}
           retired == ParkedKeys(cleared) \cup KeysOf(marks) \cup (orphans \X {DRAINAGE})
<1>1. /\ regions' = regions \ gone
      /\ current' = [c \in Coords |-> IF c \in gone THEN Blank ELSE current[c]]
      /\ dirty'   = [c \in Coords |-> IF c \in cleared THEN {} ELSE dirty[c] \cup marks[c]]
      /\ status'  = [c \in Coords |->
                       IF c \in cleared THEN "Unloaded"
                       ELSE IF marks[c] # {} /\ status[c] = "Ready" THEN "Generating"
                       ELSE status[c]]
      /\ inFlight' = Forget(retired)
      /\ UNCHANGED <<fieldRecipe, revisionBumps>>
  BY DEF Evict, envVars
<1>2. \A k \in TileKeys : store'[k] = IF k[1] \in cleared THEN NoTile ELSE store[k]
  BY KeyCases DEF Evict, Keys
<1>3. gone \subseteq cleared
  OBVIOUS
<1>4. \A x \in Coords : x \notin cleared => marks[x] = TerrainMarks(x, moved)
  OBVIOUS
<1>5. ASSUME NEW x \in Coords, NEW l \in TileLayers
      PROVE  /\ <<x, l>> \in Keys
             /\ x \in cleared => store'[<<x, l>>] = NoTile /\ inFlight'[<<x, l>>] = NoJob
             /\ x \notin cleared => store'[<<x, l>>] = store[<<x, l>>]
             /\ x \notin cleared /\ l \notin marks[x] => inFlight'[<<x, l>>] = inFlight[<<x, l>>]
  <2>1. <<x, l>> \in TileKeys /\ <<x, l>> \in Keys /\ l # DRAINAGE
    BY TileKey
  <2>2. x \in cleared => <<x, l>> \in retired
    BY <2>1 DEF ParkedKeys
  <2>3. x \notin cleared /\ l \notin marks[x] => <<x, l>> \notin retired
    BY <2>1 DEF ParkedKeys, KeysOf
  <2> HIDE DEF retired, cleared, marks
  <2> QED BY <1>1, <1>2, <2>1, <2>2, <2>3 DEF Forget
<1>6. \A k \in Keys : inFlight'[k] # NoJob => inFlight'[k] = inFlight[k] /\ k \notin retired
  BY <1>1 DEF Forget
<1>7. ASSUME NEW s \in Coords, s \notin moved
      PROVE  TerrainPair(s)' = TerrainPair(s)
  <2>1. CASE s \in gone
    BY <1>1, <1>7, <2>1 DEF TerrainPair
  <2>2. CASE s \notin gone
    BY <1>1, <2>2 DEF TerrainPair
  <2> QED BY <2>1, <2>2
<1> HIDE DEF gone, parked, cleared, moved, marks, orphans
<1>8. ASSUME NEW x \in Coords, NEW l \in TileLayers, Active(x), x \notin cleared, l \notin marks[x]
      PROVE  ExpectedHash(<<x, l>>)' = ExpectedHash(<<x, l>>)
  <2>1. current'[x] = current[x]
    BY <1>1, <1>3, <1>8
  <2>2. l \notin TerrainMarks(x, moved) /\ l \notin DomainDirtyMask({})
    BY <1>4, <1>8 DEF DomainDirtyMask
  <2> QED BY <1>1, <1>7, <1>8, <2>1, <2>2, DriftFrame
<1>9. \A x \in Coords : Active(x)' <=> Active(x) /\ x \notin cleared
  BY <1>1 DEF Active
<1>10. ActiveIsResident'
  BY <1>1, <1>3, <1>9 DEF TileInv, ActiveIsResident
<1>11. StaleIsScheduled'
  <2> SUFFICES ASSUME NEW x \in regions', Active(x)', NEW l \in TileLayers
               PROVE  FreshKey(<<x, l>>)' \/ l \in dirty'[x] \/ inFlight'[<<x, l>>] # NoJob
    BY DEF StaleIsScheduled
  <2>1. x \in Coords /\ x \in regions /\ Active(x) /\ x \notin cleared
    BY <1>1, <1>9 DEF TypeOK
  <2>2. FreshKey(<<x, l>>) \/ l \in dirty[x] \/ inFlight[<<x, l>>] # NoJob
    BY <2>1 DEF TileInv, StaleIsScheduled
  <2>3. l \in marks[x] \/ l \in dirty[x] => l \in dirty'[x]
    BY <1>1, <2>1
  <2>4. l \notin marks[x] => FreshKey(<<x, l>>)' = FreshKey(<<x, l>>)
    BY <1>5, <1>8, <2>1 DEF FreshKey
  <2> QED BY <1>5, <2>1, <2>2, <2>3, <2>4
<1>12. ReadyIsClean'
  <2> SUFFICES ASSUME NEW x \in Coords, status'[x] = "Ready", NEW l \in TileLayers
               PROVE  dirty'[x] = {} /\ inFlight'[<<x, l>>] = NoJob
    <3>1. TileLayers # {}
      BY LayerAssumption DEF LayerAssumption, TileLayers
    <3> QED BY <3>1 DEF ReadyIsClean
  <2>1. x \notin cleared /\ status[x] = "Ready" /\ marks[x] = {}
    BY <1>1
  <2>2. dirty[x] = {} /\ inFlight[<<x, l>>] = NoJob
    BY <2>1 DEF TileInv, ReadyIsClean
  <2> QED BY <1>1, <1>5, <2>1, <2>2
<1>13. ParkedOwnsNothing'
  <2> SUFFICES ASSUME NEW x \in Coords, ~Active(x)', NEW l \in TileLayers
               PROVE  store'[<<x, l>>] = NoTile /\ inFlight'[<<x, l>>] = NoJob
    BY DEF ParkedOwnsNothing
  <2>1. CASE x \in cleared
    BY <1>5, <2>1
  <2>2. CASE x \notin cleared
    <3>1. store[<<x, l>>] = NoTile /\ inFlight[<<x, l>>] = NoJob
      BY <1>9, <2>2 DEF TileInv, ParkedOwnsNothing
    <3> QED BY <1>5, <1>6, <2>2, <3>1
  <2> QED BY <2>1, <2>2
<1>14. InFlightIsCurrent'
  <2> SUFFICES ASSUME NEW k \in Keys, inFlight'[k] # NoJob
               PROVE  inFlight'[k].hash = ExpectedHash(k)'
    BY DEF InFlightIsCurrent
  <2>1. inFlight'[k] = inFlight[k] /\ k \notin retired /\ inFlight[k].hash = ExpectedHash(k)
    BY <1>6 DEF TileInv, InFlightIsCurrent
  <2>2. CASE k \in MacroKeys
    <3>1. PICK m \in Macros : k = <<m, DRAINAGE>>
      BY <2>2 DEF MacroKeys
    <3> QED BY <1>1, <2>1, <3>1, MacroHashFrame
  <2>3. CASE k \in TileKeys
    <3>1. k = <<k[1], k[2]>> /\ k[1] \in Coords /\ k[2] \in TileLayers
      BY <2>3, KeyCases
    <3>2. Active(k[1])
      BY <2>1, <3>1 DEF TileInv, ParkedOwnsNothing
    <3>3. k[1] \notin cleared /\ k[2] \notin marks[k[1]]
      BY <2>1, <2>3, <3>1 DEF ParkedKeys, KeysOf
    <3> QED BY <1>8, <2>1, <3>1, <3>2, <3>3
  <2> QED BY <2>2, <2>3 DEF Keys
<1> QED BY <1>10, <1>11, <1>12, <1>13, <1>14 DEF TileInv

LEMMA TileLoad ==
  ASSUME TypeOK, TileInv, Load
  PROVE  TileInv'
<1> DEFINE dist    == Distance[input.player]
           created == NearestOf(dist, {c \in Coords \ regions : dist[c] <= LoadRadius}, MaxLoads)
           fresh   == [c \in Coords |-> IF Preserved(c) THEN EffectiveSignature(c, contributors[c])
                                        ELSE Goal(c)]
           moved   == {c \in created : Slow(fresh[c]) # Slow(Sample[fieldRecipe][c])}
           parked  == {c \in regions \cup created :
                         ~Active(c) /\ (dist[c] <= LoadRadius \/ Preserved(c))}
           exempt  == {c \in parked : Near(c) \/ Preserved(c)}
           room    == MaxFields - Cardinality(Disposable(regions))
           admitted == exempt \cup NearestOf(dist, parked \ exempt, room)
           marks   == [c \in Coords |-> TerrainMarks(c, moved)]
<1>1. /\ regions' = regions \cup created
      /\ current' = [c \in Coords |-> IF c \in created THEN fresh[c] ELSE current[c]]
      /\ dirty' = [c \in Coords |-> IF c \in admitted THEN Layers
                                     ELSE dirty[c] \cup TerrainMarks(c, moved)]
      /\ status' = [c \in Coords |->
                      IF c \in admitted \/ TerrainMarks(c, moved) # {} THEN "Generating"
                      ELSE status[c]]
      /\ inFlight' = Forget(KeysOf(marks))
      /\ UNCHANGED <<store, fieldRecipe, revisionBumps>>
  BY DEF Load, envVars
<1>2. /\ created \subseteq Coords /\ created \cap regions = {}
      /\ admitted \subseteq regions \cup created
      /\ \A c \in Coords : marks[c] = TerrainMarks(c, moved)
  BY DEF NearestOf
<1>3. ASSUME NEW s \in Coords, s \notin moved
      PROVE  TerrainPair(s)' = TerrainPair(s)
  <2>1. CASE s \in created
    <3>1. s \notin regions /\ s \in regions' /\ current'[s] = fresh[s]
      BY <1>1, <1>2, <2>1
    <3>2. Slow(fresh[s]) = Slow(Sample[fieldRecipe][s])
      BY <1>3, <2>1
    <3> HIDE DEF fresh, created
    <3> QED BY <1>1, <3>1, <3>2 DEF TerrainPair
  <2>2. CASE s \notin created
    BY <1>1, <2>2 DEF TerrainPair
  <2> QED BY <2>1, <2>2
<1>4. \A c \in Coords : TerrainMarks(c, moved) # {} => Active(c)
  BY DEF TerrainMarks
<1> HIDE DEF created, fresh, moved, admitted
<1>5. \A c \in Coords : Active(c)' <=> Active(c) \/ c \in admitted
  BY <1>1, <1>4 DEF Active
<1>6. ASSUME NEW x \in Coords, NEW l \in TileLayers, Active(x), l \notin marks[x]
      PROVE  ExpectedHash(<<x, l>>)' = ExpectedHash(<<x, l>>)
  <2>1. x \in regions
    BY <1>6 DEF TileInv, ActiveIsResident
  <2>2. current'[x] = current[x]
    BY <1>1, <1>2, <2>1
  <2>3. l \notin TerrainMarks(x, moved) /\ l \notin DomainDirtyMask({})
    BY <1>2, <1>6 DEF DomainDirtyMask
  <2> QED BY <1>1, <1>3, <1>6, <2>2, <2>3, DriftFrame
<1>7. ASSUME NEW x \in Coords, NEW l \in TileLayers
      PROVE  /\ <<x, l>> \in Keys
             /\ l \in marks[x] => inFlight'[<<x, l>>] = NoJob
             /\ l \notin marks[x] => inFlight'[<<x, l>>] = inFlight[<<x, l>>]
  BY <1>1, TileKey DEF Forget, KeysOf
<1>8. \A k \in Keys : inFlight'[k] # NoJob => inFlight'[k] = inFlight[k] /\ k \notin KeysOf(marks)
  BY <1>1 DEF Forget
<1> HIDE DEF marks
<1>9. ActiveIsResident'
  BY <1>1, <1>2, <1>5 DEF TileInv, ActiveIsResident
<1>10. StaleIsScheduled'
  <2> SUFFICES ASSUME NEW x \in regions', Active(x)', NEW l \in TileLayers
               PROVE  FreshKey(<<x, l>>)' \/ l \in dirty'[x] \/ inFlight'[<<x, l>>] # NoJob
    BY DEF StaleIsScheduled
  <2>1. x \in Coords
    BY <1>1, <1>2 DEF TypeOK
  <2>2. CASE x \in admitted
    BY <1>1, <2>1, <2>2, TileKey
  <2>3. CASE x \notin admitted
    <3>1. Active(x) /\ x \in regions
      BY <1>5, <2>1, <2>3 DEF TileInv, ActiveIsResident
    <3>2. FreshKey(<<x, l>>) \/ l \in dirty[x] \/ inFlight[<<x, l>>] # NoJob
      BY <3>1 DEF TileInv, StaleIsScheduled
    <3>3. l \in marks[x] \/ l \in dirty[x] => l \in dirty'[x]
      BY <1>1, <1>2, <2>1, <2>3
    <3>4. l \notin marks[x] => FreshKey(<<x, l>>)' = FreshKey(<<x, l>>)
      BY <1>1, <1>6, <2>1, <3>1 DEF FreshKey
    <3> QED BY <1>7, <2>1, <3>2, <3>3, <3>4
  <2> QED BY <2>2, <2>3
<1>11. ReadyIsClean'
  <2> SUFFICES ASSUME NEW x \in Coords, status'[x] = "Ready"
               PROVE  dirty'[x] = {} /\ \A l \in TileLayers : inFlight'[<<x, l>>] = NoJob
    BY DEF ReadyIsClean
  <2>1. x \notin admitted /\ status[x] = "Ready" /\ TerrainMarks(x, moved) = {}
    BY <1>1
  <2>2. dirty[x] = {} /\ \A l \in TileLayers : inFlight[<<x, l>>] = NoJob
    BY <2>1 DEF TileInv, ReadyIsClean
  <2> QED BY <1>1, <1>2, <1>7, <2>1, <2>2
<1>12. ParkedOwnsNothing'
  <2> SUFFICES ASSUME NEW x \in Coords, ~Active(x)', NEW l \in TileLayers
               PROVE  store'[<<x, l>>] = NoTile /\ inFlight'[<<x, l>>] = NoJob
    BY DEF ParkedOwnsNothing
  <2>1. store[<<x, l>>] = NoTile /\ inFlight[<<x, l>>] = NoJob
    BY <1>5 DEF TileInv, ParkedOwnsNothing
  <2> QED BY <1>1, <1>7, <2>1
<1>13. InFlightIsCurrent'
  <2> SUFFICES ASSUME NEW k \in Keys, inFlight'[k] # NoJob
               PROVE  inFlight'[k].hash = ExpectedHash(k)'
    BY DEF InFlightIsCurrent
  <2>1. inFlight'[k] = inFlight[k] /\ k \notin KeysOf(marks) /\ inFlight[k].hash = ExpectedHash(k)
    BY <1>8 DEF TileInv, InFlightIsCurrent
  <2>2. CASE k \in MacroKeys
    <3>1. PICK m \in Macros : k = <<m, DRAINAGE>>
      BY <2>2 DEF MacroKeys
    <3> QED BY <1>1, <2>1, <3>1, MacroHashFrame
  <2>3. CASE k \in TileKeys
    <3>1. k = <<k[1], k[2]>> /\ k[1] \in Coords /\ k[2] \in TileLayers
      BY <2>3, KeyCases
    <3>2. Active(k[1])
      BY <2>1, <3>1 DEF TileInv, ParkedOwnsNothing
    <3>3. k[2] \notin marks[k[1]]
      BY <2>1, <2>3 DEF KeysOf
    <3> QED BY <1>6, <2>1, <3>1, <3>2, <3>3
  <2> QED BY <2>2, <2>3 DEF Keys
<1> QED BY <1>9, <1>10, <1>11, <1>12, <1>13 DEF TileInv

\* Nothing pending is obsolete, so a scan retires nothing: it clears false hints and
\* turns dirty layers into dispatches for the keys of now.
LEMMA ScanShape ==
  ASSUME TypeOK, TileInv, NEW c \in Coords, ScanRegion(c)
  PROVE  \E clean \in SUBSET dirty[c], chosen \in SUBSET dirty[c] :
           /\ \A l \in clean : FreshKey(InputKey(c, l))
           /\ \A l \in chosen : InputsFresh(inFlight, InputKey(c, l))
           /\ dirty' = [x \in Coords |-> IF x = c THEN (dirty[c] \ clean) \ (chosen \ {DRAINAGE})
                                         ELSE dirty[x]]
           /\ \A k \in Keys :
                \/ /\ \E l \in chosen : InputKey(c, l) = k
                   /\ inFlight'[k] # NoJob /\ inFlight'[k].hash = ExpectedHash(k)
                \/ /\ \A l \in chosen : InputKey(c, l) # k
                   /\ inFlight'[k] = inFlight[k]
           /\ \A j \in jobs' : \/ j \in CancelTokens({})
                              \/ \E l \in chosen : /\ j.hash = ExpectedHash(InputKey(c, l))
                                                   /\ j.content = GeneratedContent(InputKey(c, l))
           /\ status' = [x \in Coords |-> IF x = c /\ clean \cup (chosen \ {DRAINAGE}) # {}
                                          THEN RefreshedStatus(c) ELSE status[x]]
<1> DEFINE key(l)   == InputKey(c, l)
           obsolete == {l \in dirty[c] : PendingObsolete(key(l))}
           marks    == [x \in Coords |->
                          (IF DRAINAGE \in obsolete /\ x \in Covered(MacroOf[c])
                           THEN Closure[DRAINAGE] ELSE {})
                          \cup (IF x = c THEN UNION {Closure[l] : l \in obsolete \ {DRAINAGE}}
                                ELSE {})]
           retired  == KeysOf(marks) \cup {key(l) : l \in obsolete}
           flight   == Forget(retired)
           ready    == {l \in dirty[c] \cup marks[c] :
                          flight[key(l)] = NoJob /\ InputsFresh(flight, key(l))}
           clean    == {l \in ready : FreshKey(key(l))}
<1>1. PICK chosen \in SUBSET (ready \ clean) :
        LET id(l) == nextJobId + Cardinality({m \in chosen : m < l}) IN
        /\ dirty' = [x \in Coords |->
                       IF x = c THEN ((dirty[c] \cup marks[c]) \ clean) \ (chosen \ {DRAINAGE})
                       ELSE dirty[x] \cup marks[x]]
        /\ inFlight' = [k \in Keys |->
                          IF \E l \in chosen : key(l) = k
                          THEN [id   |-> id(CHOOSE l \in chosen : key(l) = k),
                                hash |-> ExpectedHash(k)]
                          ELSE flight[k]]
        /\ jobs' = CancelTokens(retired) \cup
             {[key |-> key(l), id |-> id(l), hash |-> ExpectedHash(key(l)),
               content |-> GeneratedContent(key(l)),
               started |-> FALSE, cancelled |-> FALSE] : l \in chosen}
        /\ status' = [x \in Coords |->
                        IF x = c /\ clean \cup (chosen \ {DRAINAGE}) # {}
                        THEN RefreshedStatus(c)
                        ELSE IF marks[x] # {} /\ status[x] = "Ready"
                             THEN "Generating" ELSE status[x]]
  BY DEF ScanRegion
<1>2. dirty[c] \subseteq Layers
  BY DEF TypeOK
<1>3. obsolete = {}
  <2>1. \A l \in dirty[c] : key(l) \in Keys
    BY <1>2, KeyTypes
  <2> QED BY <2>1 DEF PendingObsolete, TileInv, InFlightIsCurrent
<1>4. \A x \in Coords : marks[x] = {}
  BY <1>3
<1>5. retired = {}
  BY <1>3, <1>4, KeyCases DEF KeysOf, Keys
<1>6. flight = inFlight
  BY <1>5 DEF Forget, TypeOK
<1> DEFINE id(l) == nextJobId + Cardinality({m \in chosen : m < l})
<1> HIDE DEF obsolete, marks, retired, flight
<1>7. clean \in SUBSET dirty[c] /\ chosen \in SUBSET dirty[c]
  BY <1>4
<1>8. \A l \in clean : FreshKey(key(l))
  OBVIOUS
<1>9. \A l \in chosen : InputsFresh(inFlight, key(l))
  BY <1>6
<1> HIDE DEF ready, clean
<1>10. dirty' = [x \in Coords |-> IF x = c THEN (dirty[c] \ clean) \ (chosen \ {DRAINAGE})
                                  ELSE dirty[x]]
  BY <1>1, <1>4
<1>11. ASSUME NEW k \in Keys
       PROVE  \/ /\ \E l \in chosen : key(l) = k
                 /\ inFlight'[k] # NoJob /\ inFlight'[k].hash = ExpectedHash(k)
              \/ /\ \A l \in chosen : key(l) # k
                 /\ inFlight'[k] = inFlight[k]
  <2>1. inFlight'[k] = IF \E l \in chosen : key(l) = k
                       THEN [id   |-> id(CHOOSE l \in chosen : key(l) = k),
                             hash |-> ExpectedHash(k)]
                       ELSE flight[k]
    BY <1>1
  <2> HIDE DEF key, id
  <2> QED BY <1>6, <2>1, NotNone
<1>12. ASSUME NEW j \in jobs'
       PROVE  \/ j \in CancelTokens({})
              \/ \E l \in chosen : /\ j.hash = ExpectedHash(key(l))
                                   /\ j.content = GeneratedContent(key(l))
  <2>1. \/ j \in CancelTokens(retired)
        \/ \E l \in chosen : j = [key |-> key(l), id |-> id(l), hash |-> ExpectedHash(key(l)),
                                  content |-> GeneratedContent(key(l)),
                                  started |-> FALSE, cancelled |-> FALSE]
    BY <1>1, <1>12
  <2> HIDE DEF key, id
  <2> QED BY <1>5, <2>1
<1>13. status' = [x \in Coords |-> IF x = c /\ clean \cup (chosen \ {DRAINAGE}) # {}
                                   THEN RefreshedStatus(c) ELSE status[x]]
  BY <1>1, <1>4
<1> QED BY <1>7, <1>8, <1>9, <1>10, <1>11, <1>12, <1>13

LEMMA TileScan ==
  ASSUME TypeOK, TileInv, NEW c \in Coords, Active(c), ScanRegion(c)
  PROVE  TileInv'
<1> PICK clean \in SUBSET dirty[c], chosen \in SUBSET dirty[c] :
      /\ \A l \in clean : FreshKey(InputKey(c, l))
      /\ dirty' = [x \in Coords |-> IF x = c THEN (dirty[c] \ clean) \ (chosen \ {DRAINAGE})
                                    ELSE dirty[x]]
      /\ \A k \in Keys :
           \/ /\ \E l \in chosen : InputKey(c, l) = k
              /\ inFlight'[k] # NoJob /\ inFlight'[k].hash = ExpectedHash(k)
           \/ /\ \A l \in chosen : InputKey(c, l) # k
              /\ inFlight'[k] = inFlight[k]
      /\ status' = [x \in Coords |-> IF x = c /\ clean \cup (chosen \ {DRAINAGE}) # {}
                                     THEN RefreshedStatus(c) ELSE status[x]]
  BY ScanShape
<1>1. UNCHANGED <<regions, current, store, fieldRecipe, revisionBumps>>
  BY DEF ScanRegion, envVars
<1>2. \A k \in Keys : ExpectedHash(k)' = ExpectedHash(k) /\ FreshKey(k)' = FreshKey(k)
  BY <1>1, HashStands DEF FreshKey
<1>3. dirty[c] # {} /\ dirty[c] \subseteq Layers
  BY DEF ScanRegion, Visiting, NearestOf, TypeOK
<1>4. ASSUME NEW x \in Coords, NEW l \in TileLayers, NEW m \in dirty[c], InputKey(c, m) = <<x, l>>
      PROVE  x = c /\ m = l
  <2>1. m # DRAINAGE
    BY <1>4, TileKey DEF InputKey
  <2> QED BY <1>4, <2>1 DEF InputKey
<1>5. \A x \in Coords : x # c => dirty'[x] = dirty[x] /\ status'[x] = status[x]
  OBVIOUS
<1>6. RefreshedStatus(c) \in {"Ready", "Generating"}
  BY DEF RefreshedStatus
<1>7. \A x \in Coords : Active(x)' <=> Active(x)
  BY <1>6 DEF Active
<1>8. \A x \in Coords, l \in TileLayers : x # c => inFlight'[<<x, l>>] = inFlight[<<x, l>>]
  BY <1>4, TileKey
<1>9. ActiveIsResident'
  BY <1>1, <1>7 DEF TileInv, ActiveIsResident
<1>10. StaleIsScheduled'
  <2> SUFFICES ASSUME NEW x \in regions', Active(x)', NEW l \in TileLayers
               PROVE  FreshKey(<<x, l>>)' \/ l \in dirty'[x] \/ inFlight'[<<x, l>>] # NoJob
    BY DEF StaleIsScheduled
  <2>1. x \in Coords /\ x \in regions /\ Active(x) /\ <<x, l>> \in Keys
        /\ l # DRAINAGE /\ InputKey(x, l) = <<x, l>>
    BY <1>1, <1>7, TileKey DEF TypeOK
  <2>2. FreshKey(<<x, l>>) \/ l \in dirty[x] \/ inFlight[<<x, l>>] # NoJob
    BY <2>1 DEF TileInv, StaleIsScheduled
  <2>3. inFlight[<<x, l>>] # NoJob => inFlight'[<<x, l>>] # NoJob
    BY <2>1
  <2>4. CASE x # c
    BY <1>2, <1>5, <2>1, <2>2, <2>3, <2>4
  <2>5. CASE x = c
    <3>1. l \in chosen => inFlight'[<<x, l>>] # NoJob
      BY <2>1, <2>5
    <3>2. l \in clean => FreshKey(<<x, l>>)
      BY <2>1, <2>5
    <3>3. l \in dirty[x] => l \in dirty'[x] \/ l \in clean \/ l \in chosen
      BY <2>5
    <3> QED BY <1>2, <2>1, <2>2, <2>3, <3>1, <3>2, <3>3
  <2> QED BY <2>4, <2>5
<1>11. ReadyIsClean'
  <2> SUFFICES ASSUME NEW x \in Coords, status'[x] = "Ready"
               PROVE  dirty'[x] = {} /\ \A l \in TileLayers : inFlight'[<<x, l>>] = NoJob
    BY DEF ReadyIsClean
  <2>1. CASE x = c
    <3>1. status[c] # "Ready"
      BY <1>3 DEF TileInv, ReadyIsClean
    <3>2. RefreshedStatus(c) = "Ready"
      BY <2>1, <3>1
    <3> QED BY <2>1, <3>2 DEF RefreshedStatus
  <2>2. CASE x # c
    BY <1>5, <1>8, <2>2 DEF TileInv, ReadyIsClean
  <2> QED BY <2>1, <2>2
<1>12. ParkedOwnsNothing'
  BY <1>1, <1>7, <1>8 DEF TileInv, ParkedOwnsNothing
<1>13. InFlightIsCurrent'
  BY <1>2 DEF TileInv, InFlightIsCurrent
<1> QED BY <1>9, <1>10, <1>11, <1>12, <1>13 DEF TileInv

LEMMA TileNext ==
  ASSUME TypeOK, TodoIsActive, TileInv, [Next]_vars
  PROVE  TileInv'
<1>1. CASE FramePass
  <2>1. CASE Integrate
    <3>1. PICK r \in results :
            DropLateResult(r) \/ RejectResult(r) \/ AcceptMacro(r) \/ AcceptTile(r)
      BY <2>1 DEF Integrate
    <3>2. CASE DropLateResult(r)
      BY <3>2, TilesStand DEF DropLateResult, mapVars, envVars
    <3> QED BY <3>1, <3>2, TileReject, TileAcceptMacro, TileAcceptTile
  <2>2. CASE ChannelDrained
    BY <2>2, TilesStand DEF ChannelDrained, mapVars, jobVars, envVars
  <2>3. ASSUME NEW refreshed \in SUBSET regions, Retarget(refreshed)
        PROVE  TileInv'
    BY <2>3, TilesStand DEF Retarget, jobVars
  <2>4. CASE DispatchPass
    <3>1. todo \subseteq Coords /\ \A c \in Coords : dirty[c] \subseteq Layers
      BY DEF TypeOK
    <3>2. \A l \in Layers : Deps[l] \subseteq Layers
      BY LayerAssumption DEF LayerAssumption
    <3>3. \A c \in todo : Active(c)
      BY DEF TodoIsActive
    <3>4. CASE EndPass
      BY <3>4, TilesStand DEF EndPass, mapVars, jobVars, envVars
    <3> QED BY <2>4, <3>1, <3>2, <3>3, <3>4, TileRepair, TileScan DEF DispatchPass
  <2> QED BY <1>1, <2>1, <2>2, <2>3, <2>4, TileEvict, TileLoad, TileConverge DEF FramePass
<1>2. CASE WorkerStep
  BY <1>2, TilesStand
     DEF WorkerStep, StartJob, FinishJob, FailJob, Report, mapVars, envVars
<1>3. CASE UNCHANGED vars
  BY <1>3, TilesStand DEF vars, mapVars, jobVars, envVars
<1> QED BY <1>1, <1>2, <1>3, TileBegin, TileHost DEF Next, Frame

-----------------------------------------------------------------------------
(* Provenance.                                                              *)

\* Honest inputs that are fresh make an honest tile: what a job computes from its
\* snapshot is what the key of its dispatch stands for.
LEMMA GeneratedIsExpected ==
  ASSUME TypeOK, NEW flight, NEW c \in Coords, NEW l \in Layers,
         \A k \in Keys : store[k] # NoTile => store[k].content = store[k].hash,
         InputsFresh(flight, InputKey(c, l))
  PROVE  GeneratedContent(InputKey(c, l)) = ExpectedHash(InputKey(c, l))
<1>1. CASE l = DRAINAGE
  <2>1. InputKey(c, l)[2] = DRAINAGE
    BY <1>1 DEF InputKey
  <2>2. InputKeys(InputKey(c, l)) = {}
    BY <2>1 DEF InputKeys
  <2> QED BY <2>1, <2>2 DEF GeneratedContent, ExpectedHash
<1>2. CASE l # DRAINAGE
  <2> DEFINE k == <<c, l>>
             F(u) == OwnFacts(InputKey(c, u))
             inputs == InputKeys(k)
  <2>1. InputKey(c, l) = k /\ k[1] = c /\ k[2] = l
    BY <1>2 DEF InputKey
  <2>2. inputs = {InputKey(c, d) : d \in Deps[l]}
    BY <1>2 DEF InputKeys
  <2>3. Upstream[l] = {l} \cup UNION {Upstream[d] : d \in Deps[l]}
        /\ Deps[l] \subseteq Layers /\ Upstream[DRAINAGE] = {DRAINAGE}
    BY <1>2, LayerAssumption DEF LayerAssumption
  <2>4. ExpectedHash(k) = UNION {F(u) : u \in Upstream[l]}
    BY <1>2 DEF ExpectedHash
  <2>5. ASSUME NEW d \in Deps[l]
        PROVE  store[InputKey(c, d)].content = UNION {F(u) : u \in Upstream[d]}
    <3>1. d \in Layers /\ InputKey(c, d) \in Keys
      BY <2>3, KeyTypes
    <3>2. FreshKey(InputKey(c, d))
      BY <2>1, <2>2 DEF InputsFresh
    <3>3. store[InputKey(c, d)].content = ExpectedHash(InputKey(c, d))
      BY <3>1, <3>2 DEF FreshKey
    <3>4. CASE d = DRAINAGE
      <4>1. ExpectedHash(InputKey(c, d)) = F(d)
        BY <3>4 DEF ExpectedHash, InputKey
      <4>2. Upstream[d] = {d}
        BY <2>3, <3>4
      <4> QED BY <3>3, <4>1, <4>2
    <3>5. CASE d # DRAINAGE
      <4>1. InputKey(c, d)[1] = c /\ InputKey(c, d)[2] = d
        BY <3>5 DEF InputKey
      <4>2. ExpectedHash(InputKey(c, d)) = UNION {F(u) : u \in Upstream[d]}
        BY <3>5, <4>1 DEF ExpectedHash
      <4> QED BY <3>3, <4>2
    <3> QED BY <3>4, <3>5
  <2>6. GeneratedContent(k) = F(l) \cup UNION {store[i].content : i \in inputs}
    BY <2>1 DEF GeneratedContent
  <2> HIDE DEF F, inputs, k
  <2>7. UNION {store[i].content : i \in inputs} = UNION {UNION {F(u) : u \in Upstream[d]} : d \in Deps[l]}
    BY <2>2, <2>5
  <2>8. UNION {F(u) : u \in Upstream[l]}
          = F(l) \cup UNION {UNION {F(u) : u \in Upstream[d]} : d \in Deps[l]}
    BY <2>3
  <2> QED BY <2>1, <2>4, <2>6, <2>7, <2>8
<1> QED BY <1>1, <1>2

LEMMA ProvenanceNext ==
  ASSUME TypeOK, TileInv, ProvenanceHonest, [Next]_vars
  PROVE  ProvenanceHonest'
<1> DEFINE Honest(S) == \A j \in S : j.content = j.hash
           StoreHonest == \A k \in Keys : store[k] # NoTile => store[k].content = store[k].hash
<1>1. Honest(jobs) /\ Honest(results) /\ StoreHonest
  BY DEF ProvenanceHonest
<1>2. Honest(jobs') /\ Honest(results') /\ StoreHonest' => ProvenanceHonest'
  BY DEF ProvenanceHonest
<1>3. \A marks, also : Invalidate(marks, also) => Honest(jobs')
  BY <1>1, TokensAreHonest DEF Invalidate
<1>4. \A retired : Honest(CancelTokens(retired))
  BY <1>1, TokensAreHonest
<1>5. CASE Integrate
  <2>1. PICK r \in results :
          DropLateResult(r) \/ RejectResult(r) \/ AcceptMacro(r) \/ AcceptTile(r)
    BY <1>5 DEF Integrate
  <2>2. results' \subseteq results /\ r.key \in Keys /\ r.content = r.hash
    BY <1>1, <2>1 DEF DropLateResult, RejectResult, AcceptMacro, AcceptTile, TypeOK, Result
  <2>3. Honest(jobs')
    BY <1>1, <1>3, <1>4, <2>1 DEF DropLateResult, RejectResult, AcceptMacro, AcceptTile
  <2>4. StoreHonest'
    <3>1. store' = store \/ store' = [store EXCEPT ![r.key] = [hash |-> r.hash, content |-> r.content]]
      BY <2>1 DEF DropLateResult, RejectResult, AcceptMacro, AcceptTile
    <3> QED BY <1>1, <2>2, <3>1 DEF TypeOK
  <2> QED BY <1>1, <1>2, <2>2, <2>3, <2>4
<1>6. CASE Evict
  <2>1. Honest(jobs') /\ results' = results
    BY <1>4, <1>6 DEF Evict
  <2>2. \A k \in Keys : store'[k] \in {store[k], NoTile}
    BY <1>6 DEF Evict
  <2> QED BY <1>1, <1>2, <2>1, <2>2
<1>7. CASE DispatchPass
  <2>1. ASSUME NEW c \in Coords, ScanRegion(c)
        PROVE  Honest(jobs')
    <3>1. PICK clean \in SUBSET dirty[c], chosen \in SUBSET dirty[c] :
            /\ \A l \in chosen : InputsFresh(inFlight, InputKey(c, l))
            /\ \A j \in jobs' : \/ j \in CancelTokens({})
                               \/ \E l \in chosen : /\ j.hash = ExpectedHash(InputKey(c, l))
                                                    /\ j.content = GeneratedContent(InputKey(c, l))
      BY <2>1, ScanShape
    <3>2. chosen \subseteq Layers
      BY DEF TypeOK
    <3>3. \A l \in chosen : GeneratedContent(InputKey(c, l)) = ExpectedHash(InputKey(c, l))
      BY <1>1, <3>1, <3>2, GeneratedIsExpected
    <3> QED BY <1>4, <3>1, <3>3
  <2>2. \A c, consumer, d : RepairDependency(c, consumer, d) => Honest(jobs')
    BY <1>3 DEF RepairDependency
  <2>3. Honest(jobs')
    BY <1>1, <1>7, <2>1, <2>2 DEF DispatchPass, EndPass, jobVars, TypeOK
  <2>4. UNCHANGED <<store, results>>
    BY <1>7 DEF DispatchPass, RepairDependency, ScanRegion, EndPass, jobVars
  <2> QED BY <1>1, <1>2, <2>3, <2>4
<1>8. CASE WorkerStep
  <2>1. PICK j \in jobs : StartJob(j) \/ FinishJob(j) \/ FailJob(j)
    BY <1>8 DEF WorkerStep
  <2>2. j \in Job /\ j.content = j.hash
    BY <1>1 DEF TypeOK
  <2>3. [j EXCEPT !.started = TRUE].content = j.content
        /\ [j EXCEPT !.started = TRUE].hash = j.hash
    BY <2>2 DEF Job
  <2>4. CASE StartJob(j)
    BY <1>1, <1>2, <2>2, <2>3, <2>4 DEF StartJob
  <2>5. ASSUME NEW ok \in BOOLEAN, Report(j, ok)
        PROVE  ProvenanceHonest'
    BY <1>1, <1>2, <2>2, <2>5 DEF Report
  <2> QED BY <2>1, <2>4, <2>5 DEF FinishJob, FailJob
<1>9. ASSUME UNCHANGED <<store, results>>, UNCHANGED jobs \/ Honest(jobs')
      PROVE  ProvenanceHonest'
  BY <1>1, <1>2, <1>9
<1>10. CASE ChannelDrained \/ \E refreshed \in SUBSET regions : Retarget(refreshed)
  BY <1>9, <1>10 DEF ChannelDrained, Retarget, jobVars
<1>11. CASE Load
  BY <1>4, <1>9, <1>11 DEF Load
<1>12. CASE \E next \in [Coords -> Vectors] : Converge(next)
  BY <1>3, <1>9, <1>12 DEF Converge
<1>13. CASE \E p \in Players, s \in Steerings, r \in Recipes : BeginFrame(p, s, r)
  BY <1>3, <1>9, <1>13 DEF BeginFrame
<1>14. CASE HostCall
  <2>1. \A c, ids : Reconcile(c, ids) => Honest(jobs')
    BY <1>3 DEF Reconcile
  <2>2. \A l : BumpLayerRevision(l) => Honest(jobs')
    BY <1>3 DEF BumpLayerRevision
  <2> QED BY <1>9, <1>14, <2>1, <2>2 DEF HostCall, ApplyPreserves, RemovePreserve, BumpLayerRevision
<1>15. CASE UNCHANGED vars
  BY <1>9, <1>15 DEF vars, jobVars
<1> QED BY <1>5, <1>6, <1>7, <1>8, <1>10, <1>11, <1>12, <1>13, <1>14, <1>15
        DEF Next, Frame, FramePass

-----------------------------------------------------------------------------
(* The dispatch pass.                                                       *)

LEMMA TodoNext ==
  ASSUME TypeOK, TileInv, TodoIsActive, [Next]_vars
  PROVE  TodoIsActive'
<1>1. ASSUME todo' \subseteq todo, pc # "pass" \/ pc' = "pass" \/ todo' = {},
             \A c \in todo : Active(c)' <=> Active(c)
      PROVE  TodoIsActive'
  BY <1>1 DEF TodoIsActive
<1>2. \A marks, also : Invalidate(marks, also) => \A c \in todo : Active(c)' <=> Active(c)
  BY DEF Invalidate, Active, TypeOK
<1>3. UNCHANGED status => \A c \in todo : Active(c)' <=> Active(c)
  BY DEF Active
<1>4. CASE Integrate
  <2>1. PICK r \in results :
          DropLateResult(r) \/ RejectResult(r) \/ AcceptMacro(r) \/ AcceptTile(r)
    BY <1>4 DEF Integrate
  <2>2. UNCHANGED <<todo, pc>>
    BY <2>1 DEF DropLateResult, RejectResult, AcceptMacro, AcceptTile, frameVars
  <2>3. pc # "pass"
    BY <2>1 DEF DropLateResult, RejectResult, AcceptMacro, AcceptTile, Integrating
  <2> QED BY <2>2, <2>3 DEF TodoIsActive
<1>5. CASE ChannelDrained
  <2>1. UNCHANGED status /\ pc \in {"integrate", "dispatch", "final"}
    BY <1>5 DEF ChannelDrained, Integrating, mapVars
  <2>2. CASE pc = "dispatch"
    <3>1. pc' = "pass" /\ todo' = {c \in Coords : Active(c)}
      BY <1>5, <2>2 DEF ChannelDrained
    <3> QED BY <2>1, <3>1 DEF TodoIsActive, Active
  <2>3. CASE pc # "dispatch"
    BY <1>5, <2>3 DEF ChannelDrained, TodoIsActive
  <2> QED BY <2>2, <2>3
<1>6. CASE Evict \/ Load
  BY <1>6 DEF Evict, Load, TodoIsActive
<1>7. CASE (\E refreshed \in SUBSET regions : Retarget(refreshed))
           \/ (\E next \in [Coords -> Vectors] : Converge(next))
  BY <1>7 DEF Retarget, Converge, TodoIsActive
<1>8. CASE DispatchPass
  <2>1. CASE EndPass
    BY <2>1 DEF EndPass, TodoIsActive
  <2>2. ASSUME NEW c \in todo, NEW consumer, NEW d, RepairDependency(c, consumer, d)
        PROVE  TodoIsActive'
    <3>1. todo' \subseteq todo /\ pc' = pc
      BY <2>2 DEF RepairDependency, After
    <3>2. \A x \in todo : Active(x)' <=> Active(x)
      BY <1>2, <2>2 DEF RepairDependency
    <3> QED BY <1>1, <3>1, <3>2
  <2>3. ASSUME NEW c \in todo, ScanRegion(c)
        PROVE  TodoIsActive'
    <3>1. todo' \subseteq todo /\ pc' = pc
      BY <2>3 DEF ScanRegion, After
    <3>2. c \in Coords /\ Active(c)
      BY DEF TypeOK, TodoIsActive
    <3>3. PICK clean \in SUBSET dirty[c], chosen \in SUBSET dirty[c] :
            status' = [x \in Coords |-> IF x = c /\ clean \cup (chosen \ {DRAINAGE}) # {}
                                       THEN RefreshedStatus(c) ELSE status[x]]
      BY <2>3, <3>2, ScanShape
    <3>4. RefreshedStatus(c) \in {"Ready", "Generating"}
      BY <3>2 DEF RefreshedStatus
    <3>5. \A x \in todo : Active(x)' <=> Active(x)
      BY <3>2, <3>3, <3>4 DEF Active, TypeOK
    <3> QED BY <1>1, <3>1, <3>5
  <2> QED BY <1>8, <2>1, <2>2, <2>3 DEF DispatchPass
<1>9. CASE \E p \in Players, s \in Steerings, r \in Recipes : BeginFrame(p, s, r)
  BY <1>9 DEF BeginFrame, TodoIsActive
<1>10. CASE WorkerStep
  <2>1. UNCHANGED <<todo, pc, status>>
    BY <1>10 DEF WorkerStep, StartJob, FinishJob, FailJob, Report, mapVars, frameVars
  <2> QED BY <1>1, <1>3, <2>1
<1>11. CASE HostCall
  <2>1. UNCHANGED <<todo, pc>> /\ pc = "idle"
    BY <1>11 DEF HostCall, ApplyPreserves, RemovePreserve, BumpLayerRevision, frameVars
  <2> QED BY <2>1 DEF TodoIsActive
<1>12. CASE UNCHANGED vars
  BY <1>1, <1>3, <1>12 DEF vars, mapVars, frameVars
<1> QED BY <1>4, <1>5, <1>6, <1>7, <1>8, <1>9, <1>10, <1>11, <1>12
        DEF Next, Frame, FramePass

-----------------------------------------------------------------------------
(* The theorems.                                                            *)

LEMMA InvInit == Init => IInv
<1> SUFFICES ASSUME Init PROVE IInv
  OBVIOUS
<1>1. TypeOK
  BY TypeInit
<1>2. \A c \in Coords : ~Active(c) /\ status[c] # "Ready"
  BY DEF Init, Active
<1>3. /\ store = [k \in Keys |-> NoTile] /\ inFlight = [k \in Keys |-> NoJob]
      /\ jobs = {} /\ results = {} /\ todo = {}
  BY DEF Init
<1>4. ProvenanceHonest /\ TodoIsActive
  BY <1>3 DEF ProvenanceHonest, TodoIsActive
<1>5. ActiveIsResident /\ StaleIsScheduled /\ ReadyIsClean
  BY <1>1, <1>2 DEF ActiveIsResident, StaleIsScheduled, ReadyIsClean, TypeOK
<1>6. ParkedOwnsNothing /\ InFlightIsCurrent
  BY <1>3, TileKey DEF ParkedOwnsNothing, InFlightIsCurrent
<1> QED BY <1>1, <1>4, <1>5, <1>6 DEF IInv, TileInv

LEMMA InvNext ==
  ASSUME IInv, [Next]_vars
  PROVE  IInv'
BY TypeNext, TileNext, ProvenanceNext, TodoNext DEF IInv

LEMMA Inductive == Spec => []IInv
<1>1. IInv /\ [Next]_vars => IInv'
  BY InvNext
<1> QED BY <1>1, InvInit, PTL DEF Spec

\* Every cached tile, job and result was computed from exactly the facts its hash
\* stands for (submit_layer's snapshot, inputs_fresh and integrate_finished).
THEOREM HashesAreHonest == Spec => []ProvenanceHonest
<1>1. IInv => ProvenanceHonest
  BY DEF IInv
<1> QED BY <1>1, Inductive, PTL

\* Every tile layer of an admitted region is fresh, dirty or in flight: the hint-driven
\* dispatch pass may skip regions without hints.
THEOREM NothingStaleIsForgotten == Spec => []StaleIsScheduled
<1>1. IInv => StaleIsScheduled
  BY DEF IInv, TileInv
<1> QED BY <1>1, Inductive, PTL

\* Invalidation is exact: what is registered in flight is for the key of now, so the
\* integration gate rejects no successful result.
THEOREM DispatchesAreCurrent == Spec => []InFlightIsCurrent
<1>1. IInv => InFlightIsCurrent
  BY DEF IInv, TileInv
<1> QED BY <1>1, Inductive, PTL

\* Parking and eviction leave no tile and no dispatch behind, and nothing arriving
\* late brings one back.  (A parked region may keep dirty bits.)
THEOREM ParkedIsEmpty == Spec => []ParkedOwnsNothing
<1>1. IInv => ParkedOwnsNothing
  BY DEF IInv, TileInv
<1> QED BY <1>1, Inductive, PTL

LEMMA CanonicalNow == IInv => ReadyIsCanonical
<1> SUFFICES ASSUME IInv, NEW c \in regions, status[c] = "Ready", NEW l \in TileLayers
             PROVE  store[<<c, l>>] # NoTile /\ store[<<c, l>>].content = ExpectedHash(<<c, l>>)
  BY DEF ReadyIsCanonical
<1>1. c \in Coords /\ Active(c) /\ <<c, l>> \in Keys
  BY TileKey DEF IInv, TypeOK, Active
<1>2. l \notin dirty[c] /\ inFlight[<<c, l>>] = NoJob
  BY <1>1 DEF IInv, TileInv, ReadyIsClean
<1>3. FreshKey(<<c, l>>)
  BY <1>1, <1>2 DEF IInv, TileInv, StaleIsScheduled
<1> QED BY <1>1, <1>3 DEF IInv, ProvenanceHonest, FreshKey

\* A Ready region shows exactly what its state, the revisions and the recipe of this
\* moment generate, whatever was dispatched, cancelled, failed, evicted or late.
THEOREM ReadyRegionsAreCanonical == Spec => []ReadyIsCanonical
BY CanonicalNow, Inductive, PTL

\* A tile is published under the key of that moment only, and for an admitted region
\* or a macro cell only (the gate of integrate_finished).
THEOREM PublicationsAreCurrent == Spec => PublishIsCurrent
<1>1. ASSUME IInv, [Next]_vars, NEW k \in Keys, store'[k] # store[k], store'[k] # NoTile
      PROVE  store'[k].hash = ExpectedHash(k) /\ (k \in TileKeys => Active(k[1]))
  <2>1. CASE \E r \in results : AcceptMacro(r) \/ AcceptTile(r)
    <3>1. PICK r \in results : AcceptMacro(r) \/ AcceptTile(r)
      BY <2>1
    <3>2. /\ Publishable(r) /\ r.key \in Keys
          /\ store' = [store EXCEPT ![r.key] = [hash |-> r.hash, content |-> r.content]]
      <4>1. CASE AcceptMacro(r)
        BY <1>1, <4>1 DEF AcceptMacro, IInv, TypeOK, Result
      <4>2. CASE AcceptTile(r)
        BY <1>1, <4>2 DEF AcceptTile, IInv, TypeOK, Result
      <4> QED BY <3>1, <4>1, <4>2
    <3>3. k = r.key /\ store'[k] = [hash |-> r.hash, content |-> r.content]
      BY <1>1, <3>2 DEF IInv, TypeOK
    <3>4. inFlight[k] # NoJob /\ r.hash = ExpectedHash(k)
      BY <3>2, <3>3 DEF Publishable, Owned
    <3>5. ASSUME k \in TileKeys
          PROVE  Active(k[1])
      <4>1. k = <<k[1], k[2]>> /\ k[1] \in Coords /\ k[2] \in TileLayers
        BY <3>5, KeyCases
      <4> QED BY <1>1, <3>4, <4>1 DEF IInv, TileInv, ParkedOwnsNothing
    <3> QED BY <3>3, <3>4, <3>5
  <2>2. CASE Evict
    BY <1>1, <2>2 DEF Evict
  <2>3. CASE UNCHANGED store
    BY <1>1, <2>3
  <2>4. FramePass => \/ \E r \in results : AcceptMacro(r) \/ AcceptTile(r)
                     \/ Evict
                     \/ UNCHANGED store
    BY DEF FramePass, Integrate, DropLateResult, RejectResult, ChannelDrained, Load, Retarget,
           Converge, DispatchPass, RepairDependency, ScanRegion, EndPass, jobVars
  <2>5. (\E p \in Players, s \in Steerings, r \in Recipes : BeginFrame(p, s, r)) => UNCHANGED store
    BY DEF BeginFrame
  <2>6. WorkerStep \/ HostCall \/ UNCHANGED vars => UNCHANGED store
    BY DEF WorkerStep, StartJob, FinishJob, FailJob, Report, HostCall, ApplyPreserves,
           RemovePreserve, BumpLayerRevision, vars, jobVars
  <2> QED BY <1>1, <2>1, <2>2, <2>3, <2>4, <2>5, <2>6 DEF Next, Frame
<1>2. IInv /\ [Next]_vars =>
        [\A k \in Keys : store'[k] # store[k] /\ store'[k] # NoTile =>
           /\ store'[k].hash = ExpectedHash(k)
           /\ k \in TileKeys => Active(k[1])]_vars
  BY <1>1
<1> QED BY <1>2, Inductive, PTL DEF Spec, PublishIsCurrent

-----------------------------------------------------------------------------
(* The streaming map implements CanonicalTiles.                             *)

\* Only a delivered tile or a scan makes a region Ready; neither moves authority nor
\* touches the status of another region.
LEMMA BecomesReady ==
  ASSUME IInv, [Next]_vars, NEW c \in Coords, status[c] # "Ready", status'[c] = "Ready"
  PROVE  /\ UNCHANGED <<regions, current, fieldRecipe, revisionBumps>>
         /\ \A x \in Coords : x # c => status'[x] = status[x]
<1>0. TypeOK /\ TileInv
  BY DEF IInv
<1>1. \A marks, also : ~Invalidate(marks, also)
  BY DEF Invalidate
<1>2. status' # status
  OBVIOUS
<1>3. CASE Integrate
  <2>1. PICK r \in results : AcceptTile(r)
    BY <1>1, <1>2, <1>3 DEF Integrate, DropLateResult, RejectResult, AcceptMacro, mapVars
  <2>2. r.key[1] \in Coords
    BY <1>0, <2>1, KeyCases DEF AcceptTile, TypeOK, Result
  <2>3. /\ status' = [status EXCEPT ![r.key[1]] = RefreshedStatus(r.key[1])]
        /\ UNCHANGED <<regions, current, fieldRecipe, revisionBumps>>
    BY <2>1 DEF AcceptTile, envVars
  <2> QED BY <1>0, <2>2, <2>3 DEF TypeOK
<1>4. CASE DispatchPass
  <2>1. PICK x \in todo : ScanRegion(x)
    BY <1>1, <1>2, <1>4 DEF DispatchPass, RepairDependency, EndPass, mapVars
  <2>2. x \in Coords
    BY <1>0 DEF TypeOK
  <2>3. PICK clean \in SUBSET dirty[x], chosen \in SUBSET dirty[x] :
          status' = [y \in Coords |-> IF y = x /\ clean \cup (chosen \ {DRAINAGE}) # {}
                                     THEN RefreshedStatus(x) ELSE status[y]]
    BY <1>0, <2>1, <2>2, ScanShape
  <2>4. UNCHANGED <<regions, current, fieldRecipe, revisionBumps>>
    BY <2>1 DEF ScanRegion, envVars
  <2> QED BY <2>3, <2>4
<1>5. ~ChannelDrained /\ ~WorkerStep /\ ~(UNCHANGED vars)
      /\ ~(\E refreshed \in SUBSET regions : Retarget(refreshed))
  BY <1>2 DEF ChannelDrained, WorkerStep, StartJob, FinishJob, FailJob, Report, Retarget, vars, mapVars
<1>6. ~Evict /\ ~Load
  <2>1. ASSUME Evict
        PROVE  FALSE
    <3>1. \/ status'[c] \in {"Unloaded", "Generating"}
          \/ status'[c] = status[c]
      BY <2>1 DEF Evict
    <3> QED BY <3>1
  <2>2. ASSUME Load
        PROVE  FALSE
    <3>1. status'[c] = "Generating" \/ status'[c] = status[c]
      BY <2>2 DEF Load
    <3> QED BY <3>1
  <2> QED BY <2>1, <2>2
<1>7. /\ ~(\E next \in [Coords -> Vectors] : Converge(next))
      /\ ~(\E p \in Players, s \in Steerings, r \in Recipes : BeginFrame(p, s, r))
      /\ ~HostCall
  BY <1>1 DEF Converge, BeginFrame, HostCall, ApplyPreserves, RemovePreserve, BumpLayerRevision,
              Reconcile
<1> QED BY <1>3, <1>4, <1>5, <1>6, <1>7 DEF Next, Frame, FramePass

\* A region that stays Ready keeps its tiles.
LEMMA StaysReady ==
  ASSUME IInv, [Next]_vars, NEW c \in Coords, status[c] = "Ready", status'[c] = "Ready",
         NEW l \in TileLayers
  PROVE  store'[<<c, l>>] = store[<<c, l>>]
<1> DEFINE k == <<c, l>>
<1>1. inFlight[k] = NoJob /\ k \in Keys /\ k[1] = c /\ k[2] # DRAINAGE
  BY TileKey DEF IInv, TileInv, ReadyIsClean
<1>2. CASE \E r \in results : AcceptMacro(r) \/ AcceptTile(r)
  <2>1. PICK r \in results : AcceptMacro(r) \/ AcceptTile(r)
    BY <1>2
  <2>2. Publishable(r)
        /\ store' = [store EXCEPT ![r.key] = [hash |-> r.hash, content |-> r.content]]
    BY <2>1 DEF AcceptMacro, AcceptTile
  <2>3. r.key # k
    BY <1>1, <2>2 DEF Publishable, Owned
  <2> QED BY <1>1, <2>2, <2>3 DEF IInv, TypeOK
<1>3. CASE Evict
  <2> DEFINE gone    == {x \in regions : Distance[input.player][x] > UnloadRadius}
             charged == Disposable(regions \ gone)
             parked  == FarthestOf(Distance[input.player], charged, Cardinality(charged) - MaxFields)
             cleared == gone \cup parked
  <2>1. c \notin cleared
    BY <1>3 DEF Evict
  <2>2. store'[k] = IF c \in cleared THEN NoTile ELSE store[k]
    BY <1>1, <1>3 DEF Evict
  <2> QED BY <2>1, <2>2
<1>4. FramePass => \/ \E r \in results : AcceptMacro(r) \/ AcceptTile(r)
                   \/ Evict
                   \/ UNCHANGED store
  BY DEF FramePass, Integrate, DropLateResult, RejectResult, ChannelDrained, Load, Retarget,
         Converge, DispatchPass, RepairDependency, ScanRegion, EndPass, jobVars
<1>5. (\E p \in Players, s \in Steerings, r \in Recipes : BeginFrame(p, s, r)) => UNCHANGED store
  BY DEF BeginFrame
<1>6. WorkerStep \/ HostCall \/ UNCHANGED vars => UNCHANGED store
  BY DEF WorkerStep, StartJob, FinishJob, FailJob, Report, HostCall, ApplyPreserves,
         RemovePreserve, BumpLayerRevision, vars, jobVars
<1> QED BY <1>2, <1>3, <1>4, <1>5, <1>6 DEF Next, Frame

\* What readers see of a region.
Shown(c) == IF status[c] = "Ready" THEN [l \in TileLayers |-> store[<<c, l>>].content]
            ELSE NoTiles

LEMMA ShownIsExpected ==
  ASSUME IInv, NEW c \in Coords, status[c] = "Ready"
  PROVE  Shown(c) = ExpectedTiles(c)
<1>1. c \in regions
  BY DEF IInv, TileInv, ActiveIsResident, Active
<1>2. \A l \in TileLayers : store[<<c, l>>].content = ExpectedHash(<<c, l>>)
  BY <1>1, CanonicalNow DEF ReadyIsCanonical
<1> QED BY <1>2 DEF Shown, ExpectedTiles

ShownInv == \A c \in Coords : status[c] = "Ready" => Shown(c) = ExpectedTiles(c)

\* The streaming map implements CanonicalTiles: state and what is shown change together.
THEOREM MapImplementsCanonicalTiles == Spec => ImplementsCanonicalTiles
<1> DEFINE K  == [c \in Coords |-> ExpectedTiles(c)]
           Sh == [c \in Coords |-> IF status[c] = "Ready"
                                  THEN [l \in TileLayers |-> store[<<c, l>>].content]
                                  ELSE NoTiles]
<1>1. Init => Abstract!Init
  BY DEF Init, Abstract!Init
<1>2. IInv => ShownInv
  BY ShownIsExpected DEF ShownInv
<1>3. ASSUME IInv, ShownInv, ShownInv', [Next]_vars
      PROVE  [Abstract!Next]_<<K, Sh>>
  <2>1. \A c \in Coords :
          /\ Sh[c] = IF status[c] = "Ready" THEN K[c] ELSE NoTiles
          /\ Sh'[c] = IF status'[c] = "Ready" THEN K'[c] ELSE NoTiles
    BY <1>3 DEF ShownInv, Shown
  <2>2. CASE \E c \in Coords : status[c] # "Ready" /\ status'[c] = "Ready"
    <3>1. PICK c \in Coords : status[c] # "Ready" /\ status'[c] = "Ready"
      BY <2>2
    <3>2. /\ UNCHANGED <<regions, current, fieldRecipe, revisionBumps>>
          /\ \A x \in Coords : x # c => status'[x] = status[x]
      BY <1>3, <3>1, BecomesReady
    <3>3. K' = K
      <4>1. \A x \in Coords, l \in TileLayers :
              ExpectedHash(<<x, l>>)' = ExpectedHash(<<x, l>>)
        BY <3>2, HashStands, TileKey
      <4> QED BY <4>1 DEF ExpectedTiles
    <3>4. Sh[c] = NoTiles /\ Sh' = [Sh EXCEPT ![c] = K[c]]
      <4>1. Sh[c] = NoTiles /\ Sh'[c] = K[c]
        BY <2>1, <3>1, <3>3
      <4>2. \A x \in Coords : x # c => Sh'[x] = Sh[x]
        BY <2>1, <3>2, <3>3
      <4>3. Sh' = [x \in Coords |-> Sh'[x]] /\ Sh = [x \in Coords |-> Sh[x]]
        OBVIOUS
      <4> HIDE DEF Sh, K
      <4> QED BY <4>1, <4>2, <4>3
    <3>5. Abstract!Publish(c)
      BY <3>3, <3>4 DEF Abstract!Publish
    <3> QED BY <3>1, <3>5 DEF Abstract!Next
  <2>3. CASE \A c \in Coords : status'[c] = "Ready" => status[c] = "Ready"
    <3>1. ASSUME NEW c \in Coords, status'[c] = "Ready"
          PROVE  Sh'[c] = Sh[c] /\ K'[c] = K[c]
      <4>1. status[c] = "Ready"
        BY <2>3, <3>1
      <4>2. \A l \in TileLayers : store'[<<c, l>>] = store[<<c, l>>]
        BY <1>3, <3>1, <4>1, StaysReady
      <4>3. Sh'[c] = Sh[c]
        BY <3>1, <4>1, <4>2
      <4> QED BY <2>1, <3>1, <4>1, <4>3
    <3>2. \A c \in Coords : Sh'[c] = NoTiles \/ (Sh'[c] = Sh[c] /\ K'[c] = K[c])
      BY <2>1, <3>1
    <3>3. Sh' = [c \in Coords |-> Sh'[c]]
      OBVIOUS
    <3>4. Abstract!Move
      BY <3>2, <3>3 DEF Abstract!Move
    <3> QED BY <3>4 DEF Abstract!Next
  <2> QED BY <2>2, <2>3
<1> QED BY <1>1, <1>2, <1>3, Inductive, PTL DEF Spec, ImplementsCanonicalTiles, Abstract!Spec
-----------------------------------------------------------------------------
(* Recursive functions over an interval, for the algorithms of LayerGraph     *)

\* A set of numbers has a least one.
LEMMA LeastExists ==
  ASSUME NEW S \in SUBSET Nat, S # {}
  PROVE  \E n \in S : \A m \in S : n <= m
<1> DEFINE T == {1..m : m \in S}
<1>1. T \subseteq FiniteSubsetsOf(Nat) /\ T # {}
  <2>1. \A m \in S : 1..m \in FiniteSubsetsOf(Nat)
    BY FS_Interval DEF FiniteSubsetsOf
  <2> QED BY <2>1
<1>2. PICK u \in T : \A v \in T : ~(<<v, u>> \in StrictSubsetOrdering(Nat))
  BY <1>1, FS_StrictSubsetOrderingWellFounded, WFMin
<1>3. PICK n \in S : u = 1..n
  BY <1>2
<1>4. ASSUME NEW m \in S, m < n
      PROVE  FALSE
  <2>1. 1..m \subseteq 1..n
    BY <1>4
  <2>2. n \in 1..n /\ n \notin 1..m
    BY <1>4
  <2>3. <<1..m, u>> \in StrictSubsetOrdering(Nat)
    BY <2>1, <2>2, <1>3 DEF StrictSubsetOrdering
  <2> QED BY <2>3, <1>2
<1> QED BY <1>4

\* T is closed under the next number, up to n.
Closed(T, lo, n) == lo \in T /\ \A i \in lo..(n - 1) : i \in T => i + 1 \in T

\* What holds of the first number and is passed on holds of all.
LEMMA Everyone ==
  ASSUME NEW lo \in Nat, NEW n \in Nat, NEW T, Closed(T, lo, n)
  PROVE  \A i \in lo..n : i \in T
<1> DEFINE S == {i \in lo..n : i \notin T}
<1> SUFFICES ASSUME S # {} PROVE FALSE
  OBVIOUS
<1>0. S \in SUBSET Nat
  OBVIOUS
<1>1. PICK k \in S : \A m \in S : k <= m
  <2> HIDE DEF S
  <2> QED BY <1>0, LeastExists
<1>2. k # lo
  BY DEF Closed
<1>3. k - 1 \in lo..(n - 1) /\ k - 1 \notin S /\ (k - 1) + 1 = k
  BY <1>1, <1>2
<1> QED BY <1>1, <1>3 DEF Closed

\* f starts as start and goes on as g says.
Follows(f, g, start, lo, n) ==
  f[lo] = start /\ \A i \in (lo + 1)..n : f[i] = g[<<f[i - 1], i>>]

\* Such a function exists.
LEMMA RecursionExists ==
  ASSUME NEW lo \in Nat, NEW n \in Nat, lo <= n, NEW S, NEW start \in S,
         NEW g \in [S \X (lo..n) -> S]
  PROVE  \E f \in [lo..n -> S] : Follows(f, g, start, lo, n)
<1> DEFINE T == {k \in lo..n : \E f \in [lo..k -> S] : Follows(f, g, start, lo, k)}
<1>1. lo \in T
  <2> DEFINE f == [i \in lo..lo |-> start]
  <2>1. f \in [lo..lo -> S] /\ Follows(f, g, start, lo, lo)
    BY DEF Follows
  <2> QED BY <2>1
<1>2. ASSUME NEW k \in lo..(n - 1), k \in T
      PROVE  k + 1 \in T
  <2>1. PICK f \in [lo..k -> S] : Follows(f, g, start, lo, k)
    BY <1>2
  <2> DEFINE e == g[<<f[k], k + 1>>]
             h == [i \in lo..(k + 1) |-> IF i = k + 1 THEN e ELSE f[i]]
  <2>2. k + 1 \in lo..n /\ k \in lo..k /\ e \in S
    BY <1>2
  <2>3. h \in [lo..(k + 1) -> S] /\ h[k + 1] = e /\ \A i \in lo..k : h[i] = f[i]
    BY <1>2, <2>2
  <2> HIDE DEF h
  <2>4. h[lo] = start
    BY <2>1, <2>3, <1>2 DEF Follows
  <2>5. ASSUME NEW i \in (lo + 1)..(k + 1) PROVE h[i] = g[<<h[i - 1], i>>]
    <3>1. i - 1 \in lo..k /\ h[i - 1] = f[i - 1]
      BY <2>3
    <3>2. CASE i = k + 1
      BY <3>1, <3>2, <2>3
    <3>3. CASE i # k + 1
      <4>1. i \in (lo + 1)..k /\ i \in lo..k
        BY <3>3
      <4>2. h[i] = f[i] /\ f[i] = g[<<f[i - 1], i>>]
        BY <4>1, <2>1, <2>3 DEF Follows
      <4> QED BY <4>2, <3>1
    <3> QED BY <3>2, <3>3
  <2>6. Follows(h, g, start, lo, k + 1)
    BY <2>4, <2>5 DEF Follows
  <2> QED BY <2>2, <2>3, <2>6
<1>3. n \in T
  <2>1. Closed(T, lo, n)
    <3> HIDE DEF T
    <3> QED BY <1>1, <1>2 DEF Closed
  <2> HIDE DEF T
  <2>2. n \in lo..n
    OBVIOUS
  <2> QED BY <2>1, <2>2, Everyone
<1> QED BY <1>3
-----------------------------------------------------------------------------
(* The layer graph: closures and keys of every table with lower inputs          *)

LEMMA LegalDomain ==
  ASSUME NEW table, NEW drainage, LegalTable(table, drainage)
  PROVE  \E n \in Nat : DOMAIN table = 0..(n - 1)
<1>1. Cardinality(DOMAIN table) \in Nat
  BY FS_CardinalityType DEF LegalTable
<1> QED BY <1>1 DEF LegalTable

\* pass is the ascending pass of dependents_closure over n layers.
IsPass(pass, table, layer, n) ==
  /\ pass \in [0..n -> SUBSET (DOMAIN table)]
  /\ pass[0] = {layer}
  /\ \A i \in 1..n : pass[i] = pass[i - 1] \cup {l \in {i - 1} : table[l].deps \cap pass[i - 1] # {}}

\* The pass exists, and its last state is the closure.
LEMMA ClosureIsPassed ==
  ASSUME NEW table, NEW n \in Nat, DOMAIN table = 0..(n - 1), NEW layer \in DOMAIN table
  PROVE  \E pass : IsPass(pass, table, layer, n) /\ DependentsClosure(table, layer) = pass[n]
<1> DEFINE D == DOMAIN table
           e(f, i) == IF i = 0 THEN {layer}
                      ELSE f[i - 1] \cup {l \in {i - 1} : table[l].deps \cap f[i - 1] # {}}
           R(f) == f = [i \in 0..n |-> e(f, i)]
           chosen == CHOOSE f : R(f)
           g == [x \in (SUBSET D) \X (0..n) |->
                   IF x[2] = 0 THEN {layer}
                   ELSE x[1] \cup {l \in {x[2] - 1} : table[l].deps \cap x[1] # {}}]
<1>0. Cardinality(D) = n
  <2>1. 0 \in Int /\ n - 1 \in Int
    OBVIOUS
  <2>2. Cardinality(0..(n - 1)) = IF 0 > n - 1 THEN 0 ELSE (n - 1) - 0 + 1
    BY <2>1, FS_Interval
  <2> QED BY <2>2
<1>1. DependentsClosure(table, layer) = chosen[n]
  BY <1>0 DEF DependentsClosure
<1>2. g \in [(SUBSET D) \X (0..n) -> SUBSET D]
  <2>1. \A i \in 1..n : i - 1 \in D
    OBVIOUS
  <2>2. ASSUME NEW x \in (SUBSET D) \X (0..n)
        PROVE  (IF x[2] = 0 THEN {layer}
                ELSE x[1] \cup {l \in {x[2] - 1} : table[l].deps \cap x[1] # {}}) \in SUBSET D
    BY <2>1
  <2> QED BY <2>2
<1>3. PICK f \in [0..n -> SUBSET D] : Follows(f, g, {layer}, 0, n)
  <2>1. 0 \in Nat /\ {layer} \in SUBSET D /\ 0 <= n
    OBVIOUS
  <2> HIDE DEF g, D
  <2> QED BY <1>2, <2>1, RecursionExists
<1>4. \A i \in 0..n : f[i] = e(f, i)
  <2> TAKE i \in 0..n
  <2>1. CASE i = 0
    BY <2>1, <1>3 DEF Follows
  <2>2. CASE i # 0
    <3>1. i \in (0 + 1)..n /\ i - 1 \in 0..n
      BY <2>2
    <3>2. f[i] = g[<<f[i - 1], i>>] /\ f[i - 1] \in SUBSET D
      BY <3>1, <1>3 DEF Follows
    <3>3. g[<<f[i - 1], i>>] = f[i - 1] \cup {l \in {i - 1} : table[l].deps \cap f[i - 1] # {}}
      BY <3>2, <2>2
    <3> QED BY <3>2, <3>3, <2>2
  <2> QED BY <2>1, <2>2
<1>5. R(f)
  <2>1. f = [i \in 0..n |-> f[i]]
    BY <1>3
  <2> QED BY <2>1, <1>4
<1>6. R(chosen)
  <2> HIDE DEF R
  <2> QED BY <1>5
<1>7. chosen = [i \in 0..n |-> e(chosen, i)]
  BY <1>6
<1> HIDE DEF chosen
<1>8. \A i \in 0..n : chosen[i] = e(chosen, i)
  BY <1>7
<1>81. chosen[0] = {layer}
  <2>1. 0 \in 0..n
    OBVIOUS
  <2>2. chosen[0] = e(chosen, 0)
    <3> HIDE DEF e
    <3> QED BY <2>1, <1>8
  <2> QED BY <2>2
<1>82. ASSUME NEW i \in 1..n
          PROVE  chosen[i] = chosen[i - 1] \cup {l \in {i - 1} : table[l].deps \cap chosen[i - 1] # {}}
  <2>1. i \in 0..n /\ i # 0
    OBVIOUS
  <2>2. chosen[i] = e(chosen, i)
    <3> HIDE DEF e
    <3> QED BY <2>1, <1>8
  <2> QED BY <2>1, <2>2
<1> DEFINE T == {i \in 0..n : chosen[i] \in SUBSET D}
<1>9. \A i \in 0..n : i \in T
  <2>1. 0 \in T
    BY <1>81
  <2>2. ASSUME NEW i \in 0..(n - 1), i \in T PROVE i + 1 \in T
    <3>1. i + 1 \in 1..n /\ i + 1 \in 0..n /\ (i + 1) - 1 = i /\ i \in D
      OBVIOUS
    <3>2. chosen[i + 1] = chosen[i] \cup {l \in {i} : table[l].deps \cap chosen[i] # {}}
      BY <3>1, <1>82
    <3> QED BY <3>1, <3>2, <2>2
  <2>3. Closed(T, 0, n)
    <3> HIDE DEF T
    <3> QED BY <2>1, <2>2 DEF Closed
  <2> HIDE DEF T
  <2> QED BY <2>3, Everyone
<1>10. IsPass(chosen, table, layer, n)
  <2>1. chosen \in [0..n -> SUBSET D]
    <3>1. \A i \in 0..n : chosen[i] \in SUBSET D
      BY <1>9
    <3>2. chosen = [i \in 0..n |-> chosen[i]]
      BY <1>7, <1>8
    <3> HIDE DEF D
    <3> QED BY <3>1, <3>2
  <2> HIDE DEF D
  <2> QED BY <2>1, <1>81, <1>82 DEF IsPass, D
<1> QED BY <1>1, <1>10

\* The pass only grows, and after layer i it adds only layers from i on.
LEMMA PassGrows ==
  ASSUME NEW table, NEW n \in Nat, DOMAIN table = 0..(n - 1), NEW layer \in DOMAIN table,
         NEW pass, IsPass(pass, table, layer, n), NEW i \in 0..n
  PROVE  /\ layer \in pass[i] /\ pass[i] \subseteq pass[n]
         /\ pass[n] \subseteq pass[i] \cup i..(n - 1)
<1>1. \A j \in 0..n : layer \in pass[j]
  <2> DEFINE T == {j \in 0..n : layer \in pass[j]}
  <2>1. 0 \in T
    BY DEF IsPass
  <2>2. ASSUME NEW j \in 0..(n - 1), j \in T PROVE j + 1 \in T
    <3>1. j + 1 \in 1..n /\ (j + 1) - 1 = j /\ j + 1 \in 0..n
      OBVIOUS
    <3> QED BY <3>1, <2>2 DEF IsPass
  <2>3. Closed(T, 0, n)
    <3> HIDE DEF T
    <3> QED BY <2>1, <2>2 DEF Closed
  <2>4. \A j \in 0..n : j \in T
    <3> HIDE DEF T
    <3> QED BY <2>3, Everyone
  <2> QED BY <2>4
<1> DEFINE U == {j \in i..n : pass[i] \subseteq pass[j] /\ pass[j] \subseteq pass[i] \cup i..(j - 1)}
<1>2. i \in U
  OBVIOUS
<1>3. ASSUME NEW j \in i..(n - 1), j \in U PROVE j + 1 \in U
  <2>1. j + 1 \in 1..n /\ (j + 1) - 1 = j /\ j + 1 \in i..n /\ j \in i..j /\ i..(j - 1) \subseteq i..j
    OBVIOUS
  <2>2. pass[j + 1] = pass[j] \cup {l \in {j} : table[l].deps \cap pass[j] # {}}
    BY <2>1 DEF IsPass
  <2>3. pass[i] \subseteq pass[j] /\ pass[j] \subseteq pass[i] \cup i..(j - 1)
    BY <1>3
  <2>4. pass[i] \subseteq pass[j + 1] /\ pass[j + 1] \subseteq pass[i] \cup i..j
    BY <2>1, <2>2, <2>3
  <2> QED BY <2>1, <2>4
<1>4. n \in U
  <2>1. Closed(U, i, n)
    <3> HIDE DEF U
    <3> QED BY <1>2, <1>3 DEF Closed
  <2> HIDE DEF U
  <2>2. i \in Nat /\ n \in i..n
    OBVIOUS
  <2> QED BY <2>1, <2>2, Everyone
<1> QED BY <1>1, <1>4

\* One ascending pass suffices because inputs have lower ids: dependents_closure is the
\* least set that holds the layer and whatever reads a layer of the set.
THEOREM OnePassIsTheClosure ==
  ASSUME NEW table, NEW drainage, LegalTable(table, drainage)
  PROVE  ClosureIsLeast(table)
<1>1. PICK n \in Nat : DOMAIN table = 0..(n - 1)
  BY LegalDomain
<1> SUFFICES ASSUME NEW layer \in DOMAIN table
             PROVE  LET closure == DependentsClosure(table, layer) IN
                    /\ layer \in closure /\ ClosedUnderDependents(table, closure)
                    /\ \A S \in SUBSET (DOMAIN table) :
                         layer \in S /\ ClosedUnderDependents(table, S) => closure \subseteq S
  BY DEF ClosureIsLeast
<1> DEFINE closure == DependentsClosure(table, layer)
<1>2. PICK pass : IsPass(pass, table, layer, n) /\ closure = pass[n]
  BY <1>1, ClosureIsPassed
<1> HIDE DEF closure
<1>3. n \in 0..n
  OBVIOUS
<1>4. layer \in closure
  BY <1>1, <1>2, <1>3, PassGrows
<1>5. ClosedUnderDependents(table, closure)
  <2> SUFFICES ASSUME NEW l \in DOMAIN table, NEW d \in table[l].deps, d \in closure
               PROVE  l \in closure
    BY DEF ClosedUnderDependents
  <2>1. d \in 0..(l - 1) /\ l \in 0..(n - 1)
    BY <1>1 DEF LegalTable
  <2>2. l \in 0..n /\ l + 1 \in 0..n /\ l + 1 \in 1..n /\ (l + 1) - 1 = l /\ d \notin l..(n - 1)
    BY <2>1
  <2>3. d \in pass[l]
    BY <1>1, <1>2, <2>2, PassGrows
  <2>4. l \in pass[l + 1]
    <3>1. pass[l + 1] = pass[l] \cup {k \in {l} : table[k].deps \cap pass[l] # {}}
      BY <1>2, <2>2 DEF IsPass
    <3>2. table[l].deps \cap pass[l] # {}
      BY <2>3
    <3> QED BY <3>1, <3>2
  <2>5. pass[l + 1] \subseteq pass[n]
    BY <1>1, <1>2, <2>2, PassGrows
  <2> QED BY <2>4, <2>5, <1>2
<1>6. ASSUME NEW S \in SUBSET (DOMAIN table), layer \in S, ClosedUnderDependents(table, S)
      PROVE  closure \subseteq S
  <2> DEFINE T == {i \in 0..n : pass[i] \subseteq S}
  <2>1. 0 \in T
    BY <1>2, <1>6 DEF IsPass
  <2>2. ASSUME NEW i \in 0..(n - 1), i \in T PROVE i + 1 \in T
    <3>1. i + 1 \in 1..n /\ (i + 1) - 1 = i /\ i + 1 \in 0..n /\ i \in DOMAIN table
      BY <1>1
    <3>2. pass[i + 1] = pass[i] \cup {l \in {i} : table[l].deps \cap pass[i] # {}}
      BY <1>2, <3>1 DEF IsPass
    <3>3. table[i].deps \cap pass[i] # {} => i \in S
      BY <3>1, <2>2, <1>6 DEF ClosedUnderDependents
    <3> QED BY <3>1, <3>2, <3>3, <2>2
  <2>3. Closed(T, 0, n)
    <3> HIDE DEF T
    <3> QED BY <2>1, <2>2 DEF Closed
  <2>4. n \in T
    <3> HIDE DEF T
    <3> QED BY <2>3, <1>3, Everyone
  <2> QED BY <2>4, <1>2
<1> QED BY <1>4, <1>5, <1>6 DEF closure

\* What a key folds by its rule, given what the keys of lower layers fold.
KeyRule(table, drainage, up, l) ==
  IF l = drainage THEN {l} ELSE {l} \cup UNION {up[d] : d \in table[l].deps}

\* A key folds what its inputs' keys fold: the recursion of expected_layer_hash ends,
\* because inputs have lower ids.
LEMMA KeyLayersFollow ==
  ASSUME NEW table, NEW drainage, LegalTable(table, drainage)
  PROVE  \A l \in DOMAIN table :
           KeyLayers(table, drainage)[l] = KeyRule(table, drainage, KeyLayers(table, drainage), l)
<1> DEFINE D == DOMAIN table
           S == [D -> SUBSET D]
           none == [l \in D |-> {}]
           next(h, k) == [l \in D |-> IF l = k THEN KeyRule(table, drainage, h, l) ELSE h[l]]
           g == [x \in S \X (0..Cardinality(D)) |-> IF x[2] = 0 THEN x[1] ELSE next(x[1], x[2] - 1)]
<1>1. PICK n \in Nat : D = 0..(n - 1)
  BY LegalDomain
<1>0. Cardinality(D) = n
  <2>1. 0 \in Int /\ n - 1 \in Int
    OBVIOUS
  <2>2. Cardinality(0..(n - 1)) = IF 0 > n - 1 THEN 0 ELSE (n - 1) - 0 + 1
    BY <2>1, FS_Interval
  <2> QED BY <2>2, <1>1
<1>2. \A l \in D : table[l].deps \subseteq D /\ \A d \in table[l].deps : d < l
  <2> TAKE l \in D
  <2>1. table[l].deps \subseteq 0..(l - 1) /\ l \in 0..(n - 1)
    BY <1>1 DEF LegalTable
  <2> QED BY <2>1, <1>1
<1>3. \A h \in S, k \in D : next(h, k) \in S
  <2> TAKE h \in S, k \in D
  <2>1. ASSUME NEW l \in D PROVE KeyRule(table, drainage, h, l) \in SUBSET D
    <3>1. \A d \in table[l].deps : h[d] \subseteq D
      BY <1>2
    <3> QED BY <3>1 DEF KeyRule
  <2> QED BY <2>1
<1>4. g \in [S \X (0..n) -> S]
  <2>1. ASSUME NEW x \in S \X (0..n)
        PROVE  (IF x[2] = 0 THEN x[1] ELSE next(x[1], x[2] - 1)) \in S
    <3>1. x[1] \in S /\ (x[2] # 0 => x[2] - 1 \in D)
      BY <1>1
    <3> HIDE DEF S, next
    <3> QED BY <3>1, <1>3
  <2> HIDE DEF S, next
  <2> QED BY <2>1, <1>0
<1>5. PICK f \in [0..n -> S] : Follows(f, g, none, 0, n)
  <2>1. 0 \in Nat /\ none \in S /\ 0 <= n
    OBVIOUS
  <2> HIDE DEF g, S, none
  <2> QED BY <1>4, <2>1, RecursionExists
<1>6. \A i \in 0..(n - 1) : f[i] \in S /\ f[i + 1] = next(f[i], i)
  <2> TAKE i \in 0..(n - 1)
  <2>1. i \in 0..n /\ i + 1 \in (0 + 1)..n /\ (i + 1) - 1 = i /\ i + 1 # 0 /\ i + 1 \in 0..n
    OBVIOUS
  <2>2. f[i] \in S /\ f[i + 1] = g[<<f[i], i + 1>>]
    BY <2>1, <1>5 DEF Follows
  <2>3. <<f[i], i + 1>> \in S \X (0..Cardinality(D))
    BY <2>1, <2>2, <1>0
  <2> HIDE DEF S, next
  <2> QED BY <2>1, <2>2, <2>3
<1> DEFINE T == {i \in 0..n : \A l \in 0..(i - 1) : f[i][l] = KeyRule(table, drainage, f[i], l)}
<1>7. 0 \in T
  OBVIOUS
<1>8. ASSUME NEW i \in 0..(n - 1), i \in T PROVE i + 1 \in T
  <2>1. i + 1 \in 0..n /\ i \in D
    BY <1>1
  <2>2. f[i + 1] = next(f[i], i)
    BY <1>6
  <2>3. \A l \in D : f[i + 1][l] = IF l = i THEN KeyRule(table, drainage, f[i], l) ELSE f[i][l]
    BY <2>2
  <2>4. ASSUME NEW l \in 0..((i + 1) - 1)
        PROVE  f[i + 1][l] = KeyRule(table, drainage, f[i + 1], l)
    <3>1. l \in D /\ l <= i
      BY <2>1, <1>1
    <3>2. \A d \in table[l].deps : d \in D /\ d # i
      BY <3>1, <1>2, <1>1
    <3>3. \A d \in table[l].deps : f[i + 1][d] = f[i][d]
      BY <3>2, <2>3
    <3>4. {f[i + 1][d] : d \in table[l].deps} = {f[i][d] : d \in table[l].deps}
      BY <3>3
    <3>5. KeyRule(table, drainage, f[i + 1], l) = KeyRule(table, drainage, f[i], l)
      BY <3>4 DEF KeyRule
    <3>6. l # i => l \in 0..(i - 1)
      BY <3>1
    <3>7. l # i => f[i][l] = KeyRule(table, drainage, f[i], l)
      BY <3>6, <1>8
    <3> QED BY <3>1, <3>5, <3>7, <2>3
  <2> QED BY <2>1, <2>4
<1>9. n \in T
  <2>1. Closed(T, 0, n)
    <3> HIDE DEF T
    <3> QED BY <1>7, <1>8 DEF Closed
  <2>2. n \in 0..n
    OBVIOUS
  <2> HIDE DEF T
  <2> QED BY <2>1, <2>2, Everyone
<1> DEFINE R(u) == u = [l \in D |-> IF l = drainage THEN {l}
                                    ELSE {l} \cup UNION {u[d] : d \in table[l].deps}]
           chosen == CHOOSE u : R(u)
<1>10. R(f[n])
  <2>1. f[n] \in S /\ \A l \in D : f[n][l] = KeyRule(table, drainage, f[n], l)
    BY <1>9, <1>1, <1>5
  <2>2. f[n] = [l \in D |-> f[n][l]]
    BY <2>1
  <2>3. f[n] = [l \in D |-> KeyRule(table, drainage, f[n], l)]
    BY <2>1, <2>2
  <2> QED BY <2>3 DEF KeyRule
<1>11. R(chosen)
  <2> HIDE DEF R
  <2> QED BY <1>10
<1>12. chosen = [l \in D |-> KeyRule(table, drainage, chosen, l)]
  <2>1. chosen = [l \in D |-> IF l = drainage THEN {l}
                              ELSE {l} \cup UNION {chosen[d] : d \in table[l].deps}]
    BY <1>11
  <2> HIDE DEF chosen
  <2> QED BY <2>1 DEF KeyRule
<1>13. KeyLayers(table, drainage) = chosen
  BY DEF KeyLayers
<1> HIDE DEF chosen
<1> QED BY <1>12, <1>13

\* What a drift or a revision marks is what it changes: the closure of a layer holds
\* every layer whose key folds it, of terrain every layer whose key folds the macro key.
THEOREM ClosuresReachTheKeys ==
  ASSUME NEW table, NEW drainage, LegalTable(table, drainage)
  PROVE  ClosuresCoverKeys(table, drainage)
<1> DEFINE up == KeyLayers(table, drainage)
           D == DOMAIN table
           reached(u) == DependentsClosure(table, u)
           Good(l) == \A u \in up[l] : u \in D /\ l \in reached(u)
           bad == {l \in D : ~Good(l)}
<1>1. \A l \in D : up[l] = KeyRule(table, drainage, up, l)
  BY KeyLayersFollow
<1>2. \A u \in D : u \in reached(u) /\ ClosedUnderDependents(table, reached(u))
  BY OnePassIsTheClosure DEF ClosureIsLeast
<1>3. \A u \in D, S \in SUBSET D : u \in S /\ ClosedUnderDependents(table, S) => reached(u) \subseteq S
  BY OnePassIsTheClosure DEF ClosureIsLeast
<1>4. \A l \in D : l \in Nat /\ table[l].deps \subseteq D /\ \A d \in table[l].deps : d < l
  <2> TAKE l \in D
  <2>1. PICK n \in Nat : D = 0..(n - 1)
    BY LegalDomain
  <2>2. table[l].deps \subseteq 0..(l - 1) /\ l \in 0..(n - 1)
    BY <2>1 DEF LegalTable
  <2> QED BY <2>1, <2>2
<1> HIDE DEF up, reached
<1>5. bad = {}
  <2> SUFFICES ASSUME bad # {} PROVE FALSE
    OBVIOUS
  <2>1. PICK l \in bad : \A k \in bad : l <= k
    <3>1. bad \in SUBSET Nat
      BY <1>4
    <3> HIDE DEF bad
    <3> QED BY <3>1, LeastExists
  <2>2. \A d \in table[l].deps : d \in D /\ Good(d)
    BY <1>4, <2>1
  <2>3. ASSUME NEW u \in up[l] PROVE u \in D /\ l \in reached(u)
    <3>1. CASE u = l
      BY <3>1, <1>2, <2>1
    <3>2. CASE u # l
      <4>0. l \in D
        BY <2>1
      <4>1. up[l] = KeyRule(table, drainage, up, l)
        BY <4>0, <1>1
      <4>2. u \in UNION {up[d] : d \in table[l].deps}
        BY <4>1, <3>2, <2>3 DEF KeyRule
      <4>3. PICK d \in table[l].deps : u \in up[d]
        BY <4>2
      <4>4. u \in D /\ d \in reached(u)
        BY <4>3, <2>2
      <4> QED BY <4>0, <4>4, <1>2 DEF ClosedUnderDependents
    <3> QED BY <3>1, <3>2
  <2> QED BY <2>1, <2>3
<1>6. \A l \in D : \A u \in up[l] : u \in D /\ l \in reached(u)
  BY <1>5
<1>7. ASSUME NEW l \in D, drainage \in up[l] PROVE l \in reached(0)
  <2>1. drainage \in D /\ 0 \in table[drainage].deps
    BY DEF LegalTable
  <2>2. 0 \in D
    BY <2>1, <1>4
  <2>3. drainage \in reached(0)
    BY <2>1, <2>2, <1>2 DEF ClosedUnderDependents
  <2>4. ClosedUnderDependents(table, D)
    BY DEF ClosedUnderDependents
  <2>5. reached(0) \subseteq D
    BY <2>2, <2>4, <1>3
  <2>6. reached(drainage) \subseteq reached(0)
    BY <2>1, <2>2, <2>3, <2>5, <1>2, <1>3
  <2> QED BY <1>6, <1>7, <2>6
<1> QED BY <1>6, <1>7 DEF ClosuresCoverKeys, up, reached

\* domain_dirty_mask marks every layer whose key folds a layer that reads a flipped
\* domain, and none that no reader of one reaches (ADR 0007).
THEOREM MasksAreExact ==
  ASSUME NEW table, NEW drainage, LegalTable(table, drainage)
  PROVE  DirtyMaskIsExact(table, drainage)
<1> DEFINE up == KeyLayers(table, drainage)
<1>1. \A l \in DOMAIN table : \A u \in up[l] : u \in DOMAIN table /\ l \in DependentsClosure(table, u)
  BY ClosuresReachTheKeys DEF ClosuresCoverKeys
<1> HIDE DEF up
<1> SUFFICES ASSUME NEW flipped, NEW l \in DOMAIN table
             PROVE  /\ (\E u \in up[l] : table[u].domains \cap flipped # {}) => l \in DirtyMask(table, flipped)
                    /\ l \in DirtyMask(table, flipped) =>
                         \E u \in DOMAIN table : /\ table[u].domains \cap flipped # {}
                                                 /\ l \in DependentsClosure(table, u)
  BY DEF DirtyMaskIsExact, up
<1> QED BY <1>1 DEF DirtyMask, DomainReaders

\* The declared nine layers keep the rule.
THEOREM DeclaredTableIsLegal == LegalTable(LAYERS, LAYER_DRAINAGE)
<1>1. DOMAIN LAYERS = 0..8
  BY DEF LAYERS, LayerIds, LAYER_COUNT
<1>2. \A l \in 0..8 : LAYERS[l].deps =
        CASE l = 0 -> {} [] l = 1 -> {} [] l = 2 -> {0} [] l = 3 -> {0} [] l = 4 -> {0, 2, 3}
          [] l = 5 -> {0, 1, 3, 4} [] l = 6 -> {0, 3, 4, 5} [] l = 7 -> {3, 5, 6}
          [] l = 8 -> {3, 5, 6, 7}
  BY DEF LAYERS, LayerIds, LAYER_COUNT, Decl, LAYER_TERRAIN, LAYER_GEOLOGY, LAYER_DRAINAGE,
     LAYER_CLIMATE, LAYER_HYDROLOGY, LAYER_SOILS, LAYER_BIOME, LAYER_VEGETATION, LAYER_ECOLOGY
<1>3. \A l \in 0..8 : LAYERS[l].deps \subseteq 0..(l - 1)
  BY <1>2
<1>4. LAYER_DRAINAGE \in 0..8 /\ 0 \in LAYERS[LAYER_DRAINAGE].deps
  BY <1>2 DEF LAYER_DRAINAGE
<1>5. IsFiniteSet(DOMAIN LAYERS) /\ DOMAIN LAYERS = 0..(Cardinality(DOMAIN LAYERS) - 1)
  <2>1. 0 \in Int /\ 8 \in Int
    OBVIOUS
  <2>2. IsFiniteSet(0..8) /\ Cardinality(0..8) = IF 0 > 8 THEN 0 ELSE 8 - 0 + 1
    BY <2>1, FS_Interval
  <2> QED BY <2>2, <1>1
<1>6. \A l \in DOMAIN LAYERS : LAYERS[l].deps \subseteq 0..(l - 1)
  BY <1>1, <1>3
<1>7. LAYER_DRAINAGE \in DOMAIN LAYERS
  BY <1>1, <1>4
<1> QED BY <1>4, <1>5, <1>6, <1>7 DEF LegalTable

\* What LayerAssumption takes for granted holds of the closures and keys that the code
\* computes from any table in which inputs have lower ids and drainage reads terrain,
\* layer 0; and the map's dirty mask is then domain_dirty_mask.
THEOREM GraphFitsTheMap ==
  ASSUME NEW table, LegalTable(table, DRAINAGE), TERRAIN = 0, Layers = DOMAIN table,
         Deps = [l \in Layers |-> table[l].deps], Reads = [l \in Layers |-> table[l].domains],
         Closure = [l \in Layers |-> DependentsClosure(table, l)],
         Upstream = KeyLayers(table, DRAINAGE)
  PROVE  /\ Layers \subseteq Nat /\ IsFiniteSet(Layers)
         /\ Deps \in [Layers -> SUBSET Layers] /\ Closure \in [Layers -> SUBSET Layers]
         /\ \A l \in Layers :
              Upstream[l] = IF l = DRAINAGE THEN {l} ELSE {l} \cup UNION {Upstream[d] : d \in Deps[l]}
         /\ \A l \in Layers : \A u \in Upstream[l] : u \in Layers /\ l \in Closure[u]
         /\ \A l \in Layers : DRAINAGE \in Upstream[l] => l \in Closure[TERRAIN]
         /\ \A flipped : DomainDirtyMask(flipped) = DirtyMask(table, flipped)
<1>1. PICK n \in Nat : Layers = 0..(n - 1)
  BY LegalDomain
<1>2. Layers \subseteq Nat /\ IsFiniteSet(Layers)
  <2>1. 0 \in Int /\ n - 1 \in Int
    OBVIOUS
  <2> QED BY <1>1, <2>1, FS_Interval
<1>3. \A l \in Layers : Deps[l] = table[l].deps /\ Deps[l] \subseteq Layers
  <2> TAKE l \in Layers
  <2>1. table[l].deps \subseteq 0..(l - 1) /\ l \in 0..(n - 1)
    BY <1>1 DEF LegalTable
  <2>2. 0..(l - 1) \subseteq 0..(n - 1)
    BY <2>1
  <2> QED BY <2>1, <2>2, <1>1
<1>4. Deps \in [Layers -> SUBSET Layers]
  BY <1>3
<1>5. \A l \in Layers : DependentsClosure(table, l) \subseteq Layers
  <2>1. ClosedUnderDependents(table, Layers)
    BY DEF ClosedUnderDependents
  <2>2. ClosureIsLeast(table)
    BY OnePassIsTheClosure
  <2> QED BY <2>1, <2>2 DEF ClosureIsLeast
<1>6. \A l \in Layers : Closure[l] = DependentsClosure(table, l)
  OBVIOUS
<1>7. Closure \in [Layers -> SUBSET Layers]
  BY <1>5
<1>8. \A l \in Layers :
        Upstream[l] = IF l = DRAINAGE THEN {l} ELSE {l} \cup UNION {Upstream[d] : d \in Deps[l]}
  <2> TAKE l \in Layers
  <2>1. Upstream[l] = KeyRule(table, DRAINAGE, Upstream, l)
    BY KeyLayersFollow
  <2> QED BY <2>1, <1>3 DEF KeyRule
<1>9. ClosuresCoverKeys(table, DRAINAGE)
  BY ClosuresReachTheKeys
<1>10. \A l \in Layers : \A u \in Upstream[l] : u \in Layers /\ l \in DependentsClosure(table, u)
  BY <1>9 DEF ClosuresCoverKeys
<1>11. \A l \in Layers : DRAINAGE \in Upstream[l] => l \in DependentsClosure(table, 0)
  BY <1>9 DEF ClosuresCoverKeys
<1>12. TERRAIN \in Layers
  <2>1. DRAINAGE \in Layers /\ 0 \in table[DRAINAGE].deps
    BY DEF LegalTable
  <2> QED BY <2>1, <1>3
<1>13. \A flipped : DomainDirtyMask(flipped) = DirtyMask(table, flipped)
  <2> TAKE flipped
  <2> DEFINE readers == {m \in Layers : Reads[m] \cap flipped # {}}
  <2>1. \A m \in Layers : Reads[m] = table[m].domains
    OBVIOUS
  <2>2. readers = UNION {DomainReaders(table, d) : d \in flipped}
    BY <2>1 DEF DomainReaders
  <2>3. readers \subseteq Layers
    OBVIOUS
  <2> HIDE DEF readers
  <2>4. {Closure[l] : l \in readers} = {DependentsClosure(table, l) : l \in readers}
    BY <2>3, <1>6
  <2>5. DomainDirtyMask(flipped) = UNION {Closure[l] : l \in readers}
    BY DEF DomainDirtyMask, readers
  <2> QED BY <2>2, <2>4, <2>5 DEF DirtyMask
<1> QED BY <1>2, <1>4, <1>6, <1>7, <1>8, <1>10, <1>11, <1>12, <1>13
=============================================================================
