--------------------------- MODULE PovChunksProofs ---------------------------
(***************************************************************************)
(* Theorems about PovChunks, for any regions, cameras, window, limits and   *)
(* numbers of jobs and changes.                                             *)
(***************************************************************************)
EXTENDS PovChunks, FiniteSetTheorems, FunctionTheorems, SequenceTheorems, TLAPS

-----------------------------------------------------------------------------
(* The window walked in order                                               *)

\* R puts the elements of S in a strict order; those before x.
Orders(R, S) ==
  /\ \A x \in S : <<x, x>> \notin R
  /\ \A x, y, z \in S : <<x, y>> \in R /\ <<y, z>> \in R => <<x, z>> \in R
  /\ \A x, y \in S : x # y => <<x, y>> \in R \/ <<y, x>> \in R
Before(R, S, x) == {y \in S : <<y, x>> \in R}

\* In a finite set with a strict order, there is an element of every rank.
LEMMA EveryRankIsTaken ==
  ASSUME NEW S, IsFiniteSet(S), NEW R, Orders(R, S), NEW i \in 1..Cardinality(S)
  PROVE  \E x \in S : Cardinality(Before(R, S, x)) = i - 1
<1> USE DEF Orders, Before
<1> DEFINE Below(x) == Before(R, S, x)
           n == Cardinality(S)
           rank == [x \in S |-> Cardinality(Below(x))]
<1>1. n \in Nat
  BY FS_CardinalityType
<1>2. \A x \in S : IsFiniteSet(Below(x)) /\ Cardinality(Below(x)) \in 0..(n - 1)
  <2> TAKE x \in S
  <2>1. IsFiniteSet(S \ {x}) /\ Cardinality(S \ {x}) = n - 1
    BY FS_RemoveElement
  <2>2. Below(x) \in SUBSET (S \ {x})
    OBVIOUS
  <2> HIDE DEF Below
  <2>3. IsFiniteSet(Below(x)) /\ Cardinality(Below(x)) <= n - 1
    BY <2>1, <2>2, FS_Subset
  <2>4. Cardinality(Below(x)) \in Nat
    BY <2>3, FS_CardinalityType
  <2> HIDE DEF n
  <2> QED BY <2>3, <2>4, <1>1
<1>3. \A x, y \in S : <<x, y>> \in R => Cardinality(Below(x)) < Cardinality(Below(y))
  <2> SUFFICES ASSUME NEW x \in S, NEW y \in S, <<x, y>> \in R
               PROVE  Cardinality(Below(x)) < Cardinality(Below(y))
    OBVIOUS
  <2>1. Below(x) \subseteq Below(y) /\ x \in Below(y) /\ x \notin Below(x)
    OBVIOUS
  <2>2. Cardinality(Below(x)) <= Cardinality(Below(y)) /\ Cardinality(Below(x)) # Cardinality(Below(y))
    BY <2>1, <1>2, FS_Subset
  <2> HIDE DEF Below, n
  <2> QED BY <2>2, <1>2, <1>1
<1>4. rank \in [S -> 0..(n - 1)]
  BY <1>2
<1>5. rank \in Injection(S, 0..(n - 1))
  <2>1. ASSUME NEW x \in S, NEW y \in S, x # y
        PROVE  rank[x] # rank[y]
    <3>1. CASE <<x, y>> \in R
      <4>1. Cardinality(Below(x)) < Cardinality(Below(y))
        BY <3>1, <1>3
      <4> HIDE DEF Below, n
      <4> QED BY <4>1, <1>2, <1>1
    <3>2. CASE <<y, x>> \in R
      <4>1. Cardinality(Below(y)) < Cardinality(Below(x))
        BY <3>2, <1>3
      <4> HIDE DEF Below, n
      <4> QED BY <4>1, <1>2, <1>1
    <3> QED BY <3>1, <3>2, <2>1
  <2> HIDE DEF rank, n
  <2> QED BY <2>1, <1>4 DEF Injection, IsInjective
<1>6. IsFiniteSet(0..(n - 1)) /\ Cardinality(0..(n - 1)) = n
  <2> HIDE DEF n
  <2>1. IsFiniteSet(0..(n - 1)) /\ Cardinality(0..(n - 1)) = IF 0 > n - 1 THEN 0 ELSE (n - 1) - 0 + 1
    BY <1>1, FS_Interval
  <2> QED BY <2>1, <1>1
<1>7. rank \in Surjection(S, 0..(n - 1))
  <2> HIDE DEF rank
  <2> QED BY <1>5, <1>6, FS_Injection
<1>8. i - 1 \in 0..(n - 1)
  <2> HIDE DEF n
  <2>1. i \in 1..n
    BY DEF n
  <2> QED BY <2>1, <1>1
<1>9. PICK x \in S : rank[x] = i - 1
  <2> HIDE DEF rank, n
  <2> QED BY <1>7, <1>8 DEF Surjection
<1> QED BY <1>9

\* The regions the window walk schedules are finitely many.
LEMMA StaleIsFinite == 
  ASSUME TypeOK
  PROVE  IsFiniteSet(Stale)
<1> DEFINE side(k) == (CameraRegion[k] - Radius)..(CameraRegion[k] + Radius)
<1>1. CameraRegion[1] \in Int /\ CameraRegion[2] \in Int /\ Radius \in Nat
  BY GeometryAssumption DEF CameraRegion, TypeOK, GeometryAssumption
<1>2. IsFiniteSet(side(1)) /\ IsFiniteSet(side(2))
  <2>1. ASSUME NEW c \in Int
        PROVE  IsFiniteSet((c - Radius)..(c + Radius))
    <3>1. c - Radius \in Int /\ c + Radius \in Int
      BY <1>1
    <3> QED BY <3>1, FS_Interval
  <2> QED BY <2>1, <1>1
<1>3. IsFiniteSet(side(1) \X side(2))
  BY <1>2, FS_Product
<1>4. ASSUME NEW r \in Stale
      PROVE  r \in side(1) \X side(2)
  <2>1. r \in Int \X Int /\ r[1] - CameraRegion[1] \in -Radius..Radius
                         /\ r[2] - CameraRegion[2] \in -Radius..Radius
    BY GeometryAssumption DEF Stale, InWindow, GeometryAssumption
  <2>2. r[1] \in side(1) /\ r[2] \in side(2)
    BY <2>1, <1>1
  <2> HIDE DEF side
  <2> QED BY <2>1, <2>2
<1> HIDE DEF side
<1> QED BY <1>3, <1>4, FS_Subset

\* What an inline executor sends is one mesh for every stale region.
LEMMA MeshedType ==
  ASSUME TypeOK
  PROVE  Meshed(Stale) \in Seq(Meshes)
<1> DEFINE R == {p \in Stale \X Stale : RowMajor(p[1], p[2])}
           Chosen(i) == CHOOSE r \in Stale :
                          Cardinality({s \in Stale : RowMajor(s, r)}) = i - 1
<1>1. IsFiniteSet(Stale) /\ Cardinality(Stale) \in Nat
  BY StaleIsFinite, FS_CardinalityType
<1>2. Stale \subseteq Int \X Int
  BY GeometryAssumption DEF GeometryAssumption, Stale
<1>3. ASSUME NEW i \in 1..Cardinality(Stale)
      PROVE  Chosen(i) \in Stale
  <2>1. \A x, y \in Stale : <<x, y>> \in R <=> RowMajor(x, y)
    OBVIOUS
  <2>2. \A x \in Stale : <<x, x>> \notin R
    BY <2>1, <1>2 DEF RowMajor
  <2>3. \A x, y, z \in Stale : <<x, y>> \in R /\ <<y, z>> \in R => <<x, z>> \in R
    BY <2>1, <1>2 DEF RowMajor
  <2>4. \A x, y \in Stale : x # y => <<x, y>> \in R \/ <<y, x>> \in R
    BY <2>1, <1>2 DEF RowMajor
  <2> HIDE DEF R
  <2>5. Orders(R, Stale)
    BY <2>2, <2>3, <2>4 DEF Orders
  <2>6. PICK r \in Stale : Cardinality(Before(R, Stale, r)) = i - 1
    BY <2>5, <1>1, EveryRankIsTaken
  <2>7. Before(R, Stale, r) = {s \in Stale : RowMajor(s, r)}
    BY <2>1 DEF Before
  <2> QED BY <2>6, <2>7
<1> HIDE DEF Chosen
<1>4. \A r \in Stale : Mesh(Job(r)) \in Meshes
  BY DEF Stale, Mesh, Job, Meshes, TypeOK
<1>5. \A i \in 1..Cardinality(Stale) : Mesh(Job(Chosen(i))) \in Meshes
  BY <1>3, <1>4
<1>6. Meshed(Stale) = [i \in 1..Cardinality(Stale) |-> Mesh(Job(Chosen(i)))]
  BY DEF Meshed, Chosen
<1> QED BY <1>1, <1>5, <1>6, IsASeq

-----------------------------------------------------------------------------
(* Types                                                                    *)

LEMMA InitTypes == Init => TypeOK
<1> SUFFICES ASSUME Init PROVE TypeOK
  OBVIOUS
<1>1. provenance \in [Regions -> Keys \cup {None}] /\ organisms \subseteq Regions
  BY LimitsAssumption DEF Init, LimitsAssumption
<1>2. changes \in 0..MaxChanges
  BY LimitsAssumption DEF Init, LimitsAssumption
<1>3. chunks \in [Regions -> Chunk \cup {None}]
  BY DEF Init
<1>4. inFlight \in [Regions -> [key : Keys, token : 1..MaxJobs] \cup {None}]
  BY DEF Init
<1>5. /\ uploads \in Seq(Drawn) /\ pending \in Seq(Meshes) /\ channel \in Seq(Meshes)
      /\ jobs = {} /\ standing = {} /\ gpuChunks = {} /\ gpuOrganisms = {}
      /\ nextHandle = 1 /\ generation = 0 /\ visualGeneration = 0
  BY EmptySeq DEF Init
<1>6. camera \in Cameras /\ shown \in BOOLEAN /\ phase = "idle" /\ initialized \in BOOLEAN
  BY DEF Init
<1> QED BY <1>1, <1>2, <1>3, <1>4, <1>5, <1>6 DEF TypeOK

LEMMA EntriesType ==
  ASSUME TypeOK, \A r \in Stale : Tokens(r) # {}
  PROVE  Entries \in [Regions -> [key : Keys, token : 1..MaxJobs] \cup {None}]
<1>1. \A r \in Stale : FreshToken(r) \in 1..MaxJobs
  BY DEF FreshToken, Tokens
<1>2. \A r \in Stale : r \in Regions /\ provenance[r] \in Keys
  BY DEF Stale, TypeOK
<1> QED BY <1>1, <1>2 DEF Entries, TypeOK

LEMMA JobsType ==
  ASSUME TypeOK, \A r \in Stale : Tokens(r) # {}
  PROVE  CancelRetired \cup {Job(r) : r \in Stale}
           \subseteq [region : Regions, token : 1..MaxJobs, key : Keys,
                      cancelled : BOOLEAN, running : BOOLEAN]
<1>1. \A r \in Stale : /\ FreshToken(r) \in 1..MaxJobs
                        /\ r \in Regions /\ provenance[r] \in Keys
  BY DEF FreshToken, Tokens, Stale, TypeOK
<1>2. \A r \in Stale : Job(r) \in [region : Regions, token : 1..MaxJobs, key : Keys,
                                    cancelled : BOOLEAN, running : BOOLEAN]
  BY <1>1 DEF Job
<1>3. \A j \in jobs :
        [j EXCEPT !.cancelled = @ \/ (j.region \in Retired /\ inFlight[j.region].token = j.token)]
          \in [region : Regions, token : 1..MaxJobs, key : Keys,
              cancelled : BOOLEAN, running : BOOLEAN]
  BY DEF TypeOK
<1> QED BY <1>2, <1>3 DEF CancelRetired

LEMMA FrameTypes == TypeOK /\ Frame => TypeOK'
<1> SUFFICES ASSUME TypeOK, Frame PROVE TypeOK'
  OBVIOUS
<1> USE DEF world, manager, presentation
<1>1. CASE BeginSync
  BY <1>1 DEF BeginSync, TypeOK
<1>2. CASE Receive
  BY <1>2 DEF Receive, TypeOK
<1>3. CASE Schedule
  <2>1. inFlight' \in [Regions -> [key : Keys, token : 1..MaxJobs] \cup {None}]
    BY <1>3, EntriesType DEF Schedule
  <2>2. /\ channel' \in Seq(Meshes)
        /\ jobs' \subseteq [region : Regions, token : 1..MaxJobs, key : Keys,
                            cancelled : BOOLEAN, running : BOOLEAN]
    BY <1>3, JobsType, MeshedType DEF Schedule, TypeOK
  <2> QED BY <1>3, <2>1, <2>2 DEF Schedule, TypeOK
<1>4. CASE Collect
  BY <1>4 DEF Collect, TypeOK
<1>5. CASE DropSuperseded
  BY <1>5 DEF DropSuperseded, TypeOK
<1>6. CASE Integrate
  <2> DEFINE m == Head(pending)
             chunk == [key |-> m.key, handle |-> HandleOf(m.region)]
  <2>1. m \in Meshes
    BY <1>6 DEF Integrate, TypeOK
  <2>2. chunk \in Chunk
    BY <2>1 DEF HandleOf, TypeOK, Meshes, Chunk
  <2>3. [region |-> m.region, chunk |-> chunk] \in Drawn
    BY <2>1, <2>2 DEF Drawn, Meshes
  <2>4. /\ pending' = Tail(pending)
        /\ inFlight' = [inFlight EXCEPT ![m.region] = None]
        /\ chunks' = [chunks EXCEPT ![m.region] = chunk]
        /\ nextHandle' \in {nextHandle, nextHandle + 1}
        /\ uploads' = Append(uploads, [region |-> m.region, chunk |-> chunk])
        /\ pending # <<>>
        /\ UNCHANGED <<world, phase, generation, jobs, channel, presentation>>
    BY <1>6 DEF Integrate
  <2> HIDE DEF m, chunk
  <2>5. chunks' \in [Regions -> Chunk \cup {None}]
    BY <2>2, <2>4 DEF TypeOK
  <2>6. uploads' \in Seq(Drawn)
    BY <2>3, <2>4, AppendProperties DEF TypeOK
  <2> QED BY <2>4, <2>5, <2>6 DEF TypeOK
<1>7. CASE Publish
  <2>1. Kept \in [Regions -> Chunk \cup {None}]
    BY DEF Kept, TypeOK
  <2>2. StandingOn(Kept) \subseteq Stands
    BY <2>1 DEF StandingOn, Stands, TypeOK, Chunk
  <2>3. Applied \subseteq Drawn
    BY DEF Applied, TypeOK
  <2>4. NextGeneration \in Nat
    BY DEF NextGeneration, TypeOK
  <2> QED BY <1>7, <2>1, <2>2, <2>3, <2>4 DEF Publish, TypeOK
<1> QED BY <1>1, <1>2, <1>3, <1>4, <1>5, <1>6, <1>7 DEF Frame

LEMMA ChangesAreBounded == TypeOK /\ Changes => changes' \in 0..MaxChanges
BY LimitsAssumption DEF Changes, TypeOK, LimitsAssumption

LEMMA OtherTypes == TypeOK /\ (Work \/ Change \/ UNCHANGED vars) => TypeOK'
<1> SUFFICES ASSUME TypeOK, Work \/ Change \/ UNCHANGED vars PROVE TypeOK'
  OBVIOUS
<1> USE DEF world, manager, presentation
<1>1. ASSUME NEW j \in jobs, StartJob(j) \/ FinishJob(j) \/ AbandonJob(j)
      PROVE  TypeOK'
  <2>1. Mesh(j) \in Meshes
    BY DEF Mesh, Meshes, TypeOK
  <2>2. CASE StartJob(j)
    <3>1. jobs' \subseteq [region : Regions, token : 1..MaxJobs, key : Keys,
                           cancelled : BOOLEAN, running : BOOLEAN]
      BY <2>2 DEF StartJob, TypeOK
    <3> QED BY <2>2, <3>1 DEF StartJob, TypeOK
  <2>3. CASE FinishJob(j)
    <3>1. jobs' \subseteq jobs /\ channel' = Append(channel, Mesh(j))
      BY <2>3 DEF FinishJob
    <3> QED BY <2>1, <2>3, <3>1 DEF FinishJob, TypeOK
  <2>4. CASE AbandonJob(j)
    BY <2>4 DEF AbandonJob, TypeOK
  <2> QED BY <1>1, <2>2, <2>3, <2>4
<1>2. ASSUME NEW r \in Population, ChangeOrganism(r)
      PROVE  TypeOK'
  BY <1>2, ChangesAreBounded, LimitsAssumption DEF ChangeOrganism, TypeOK, LimitsAssumption
<1>3. ASSUME NEW r \in Regions, NEW key \in Keys \cup {None}, ChangeTiles(r, key)
      PROVE  TypeOK'
  BY <1>3, ChangesAreBounded DEF ChangeTiles, TypeOK
<1>4. ASSUME NEW c \in Cameras, MoveCamera(c)
      PROVE  TypeOK'
  BY <1>4, ChangesAreBounded DEF MoveCamera, TypeOK
<1>5. CASE LeavePov
  BY <1>5, ChangesAreBounded DEF LeavePov, TypeOK
<1>6. CASE EnterPov
  BY <1>6 DEF EnterPov, TypeOK
<1>7. CASE LoseDevice
  <2>1. chunks' \in [Regions -> Chunk \cup {None}]
    BY <1>7 DEF LoseDevice
  <2>2. inFlight' \in [Regions -> [key : Keys, token : 1..MaxJobs] \cup {None}]
    BY <1>7 DEF LoseDevice
  <2>3. /\ pending' \in Seq(Meshes) /\ channel' \in Seq(Meshes)
        /\ jobs' = {} /\ standing' = {} /\ gpuChunks' = {} /\ gpuOrganisms' = {}
        /\ nextHandle' = 1 /\ generation' = 0 /\ visualGeneration' = 0
        /\ initialized' \in BOOLEAN /\ shown' \in BOOLEAN
    BY <1>7, EmptySeq DEF LoseDevice
  <2>4. changes' \in 0..MaxChanges /\ phase = "idle"
    BY <1>7, ChangesAreBounded DEF LoseDevice, Changes
  <2>5. UNCHANGED <<provenance, camera, organisms, phase, uploads>>
    BY <1>7 DEF LoseDevice
  <2> QED BY <2>1, <2>2, <2>3, <2>4, <2>5, <1>7 DEF TypeOK, LoseDevice, Changes
<1>8. CASE UNCHANGED vars
  BY <1>8 DEF vars, TypeOK
<1> QED BY <1>1, <1>2, <1>3, <1>4, <1>5, <1>6, <1>7, <1>8 DEF Work, Change

\* Every variable of the first-person view keeps its type.
THEOREM PovTypes == Spec => []TypeOK
<1>1. TypeOK /\ [Next]_vars => TypeOK'
  BY FrameTypes, OtherTypes DEF Next
<1> QED BY <1>1, InitTypes, PTL DEF Spec
-----------------------------------------------------------------------------
(* The invariant.  Handles are given out in order, so those in use are below *)
(* the next one.  While a frame integrates, the uploads of a region carry    *)
(* its handle and the last of them its chunk; a chunk without an upload is    *)
(* drawn as it is.  Organisms stand on the chunks there were when the frame  *)
(* began, and the cached observation tells what a ray would have met then,   *)
(* until an upload changes the ground.                                       *)

HandlesAreNumbered ==
  /\ \A r \in Resident : chunks[r].handle < nextHandle
  /\ \A d \in gpuChunks : d.chunk.handle < nextHandle

UploadsMatch ==
  /\ phase # "publishing" => uploads = <<>>
  /\ \A i \in DOMAIN uploads :
       /\ uploads[i].region \in Resident
       /\ uploads[i].chunk.handle = chunks[uploads[i].region].handle

\* The drawing, or the last upload, of the chunk of r.
DrawnAs(r) == [region |-> r, chunk |-> chunks[r]]
ChunksAreCarried ==
  \A r \in Resident :
    \/ /\ DrawnAs(r) \in gpuChunks
       /\ \A i \in DOMAIN uploads : uploads[i].region # r
    \/ \E i \in DOMAIN uploads :
         /\ uploads[i] = DrawnAs(r)
         /\ \A j \in DOMAIN uploads : j > i => uploads[j].region # r

StandingIsGrounded ==
  /\ gpuOrganisms = standing
  /\ phase # "publishing" =>
       \A o \in standing : o.region \in Resident /\ chunks[o.region].key = o.ground

\* Raycast from another place.
RaycastFrom(place, ground, stand) ==
  LET region == <<place[1] \div RegionSize, place[2] \div RegionSize>>
  IN  IF region \notin Regions THEN None
      ELSE [terrain |-> ground[region], organism |-> {o \in stand : o.region = region}]

HoverIsRemembered ==
  hover.key # None =>
    /\ hover.key = [camera |-> hover.key.camera, terrain |-> generation,
                    organisms |-> visualGeneration]
    /\ uploads = <<>> => hover.hit = RaycastFrom(hover.key.camera, chunks, standing)

ChunkInv == HandlesAreNumbered /\ HandlesAreUnique /\ UploadsMatch /\ ChunksAreCarried
ViewInv == StandingIsGrounded /\ HoverIsRemembered

LEMMA QuietStep ==
  ASSUME ChunkInv, ViewInv,
         UNCHANGED <<chunks, uploads, nextHandle, generation, presentation>>,
         phase' # "publishing" => phase # "publishing"
  PROVE  ChunkInv' /\ ViewInv'
<1> USE DEF presentation, Resident
<1>1. HandlesAreNumbered' /\ HandlesAreUnique'
  BY DEF ChunkInv, HandlesAreNumbered, HandlesAreUnique
<1>2. UploadsMatch' /\ ChunksAreCarried'
  BY DEF ChunkInv, UploadsMatch, ChunksAreCarried, DrawnAs
<1>3. StandingIsGrounded' /\ HoverIsRemembered'
  BY DEF ViewInv, StandingIsGrounded, HoverIsRemembered, RaycastFrom
<1> QED BY <1>1, <1>2, <1>3 DEF ChunkInv, ViewInv

LEMMA StartOver ==
  ASSUME chunks' = [r \in Regions |-> None], uploads' = <<>>, gpuChunks' = {},
         gpuOrganisms' = {}, standing' = {}, hover' = NoObservation
  PROVE  ChunkInv' /\ ViewInv'
<1>1. Resident' = {} /\ DOMAIN uploads' = {}
  BY DEF Resident
<1>2. hover'.key = None
  BY DEF NoObservation
<1> QED BY <1>1, <1>2 DEF ChunkInv, ViewInv, HandlesAreNumbered, HandlesAreUnique, UploadsMatch,
           ChunksAreCarried, StandingIsGrounded, HoverIsRemembered

LEMMA InitChunks == Init => ChunkInv /\ ViewInv
<1> SUFFICES ASSUME Init PROVE ChunkInv /\ ViewInv
  OBVIOUS
<1>1. Resident = {} /\ DOMAIN uploads = {}
  BY DEF Init, Resident
<1>2. hover.key = None
  BY DEF Init, NoObservation
<1> QED BY <1>1, <1>2 DEF Init, ChunkInv, ViewInv, HandlesAreNumbered, HandlesAreUnique,
           UploadsMatch, ChunksAreCarried, StandingIsGrounded, HoverIsRemembered

\* A mesh integrated: the chunk of its region and the upload that carries it.
LEMMA IntegrateChunks ==
  ASSUME TypeOK, ChunkInv, Integrate
  PROVE  ChunkInv'
<1> DEFINE m == Head(pending)
           chunk == [key |-> m.key, handle |-> HandleOf(m.region)]
           upload == [region |-> m.region, chunk |-> chunk]
<1>1. m.region \in Regions /\ chunk \in Chunk
  <2>1. m \in Meshes
    BY DEF Integrate, TypeOK
  <2> QED BY <2>1 DEF HandleOf, TypeOK, Meshes, Chunk
<1>2. /\ chunks' = [chunks EXCEPT ![m.region] = chunk]
      /\ nextHandle' = IF chunk.handle = nextHandle THEN nextHandle + 1 ELSE nextHandle
      /\ uploads' = Append(uploads, upload)
      /\ phase = "publishing" /\ phase' = phase /\ gpuChunks' = gpuChunks
  BY DEF Integrate, presentation
<1>3. chunk.handle = IF chunks[m.region] = None THEN nextHandle ELSE chunks[m.region].handle
  BY DEF HandleOf
<1> DEFINE r0 == m.region
<1>4. chunk # None
  BY <1>1, LimitsAssumption DEF LimitsAssumption, Chunk
<1>5. /\ r0 \in Regions /\ chunk \in Chunk /\ upload.region = r0 /\ upload.chunk = chunk
  BY <1>1
<1> HIDE DEF m, chunk, upload, r0
<1>6. /\ chunks'[r0] = chunk
      /\ \A r \in Regions : r # r0 => chunks'[r] = chunks[r]
      /\ Resident' = Resident \cup {r0}
  BY <1>2, <1>4, <1>5 DEF r0, Resident, TypeOK
<1>7. /\ nextHandle \in Nat /\ nextHandle' \in Nat /\ nextHandle <= nextHandle'
      /\ chunk.handle \in Nat /\ chunk.handle < nextHandle'
  <2>1. r0 \in Resident => chunks[r0].handle < nextHandle /\ chunks[r0].handle \in Nat
    BY DEF ChunkInv, HandlesAreNumbered, Resident, TypeOK, Chunk
  <2>2. nextHandle \in Nat
    BY DEF TypeOK
  <2> QED BY <2>1, <2>2, <1>2, <1>3, <1>5 DEF r0, Resident, Chunk
<1>8. \A r \in Resident : chunks[r].handle \in Nat /\ chunks[r].handle < nextHandle
  BY DEF ChunkInv, HandlesAreNumbered, Resident, TypeOK, Chunk
<1>9. \A r \in Resident : r # r0 => chunks[r].handle # chunk.handle
  <2> SUFFICES ASSUME NEW r \in Resident, r # r0 PROVE chunks[r].handle # chunk.handle
    OBVIOUS
  <2>1. CASE r0 \in Resident
    <3>1. chunk.handle = chunks[r0].handle
      BY <2>1, <1>3 DEF r0, Resident
    <3> QED BY <3>1, <2>1 DEF ChunkInv, HandlesAreUnique
  <2>2. CASE r0 \notin Resident
    <3>1. chunk.handle = nextHandle
      BY <2>2, <1>3, <1>5 DEF r0, Resident
    <3> QED BY <3>1, <1>7, <1>8
  <2> QED BY <2>1, <2>2
<1>10. HandlesAreNumbered'
  <2>1. \A d \in gpuChunks : d.chunk.handle \in Nat /\ d.chunk.handle < nextHandle
    BY DEF ChunkInv, HandlesAreNumbered, TypeOK, Drawn, Chunk
  <2>2. \A d \in gpuChunks : d.chunk.handle < nextHandle'
    BY <2>1, <1>7
  <2>3. \A r \in Resident' : chunks'[r].handle < nextHandle'
    BY <1>6, <1>7, <1>8, <1>5 DEF Resident
  <2> QED BY <1>2, <2>2, <2>3 DEF HandlesAreNumbered
<1>11. HandlesAreUnique'
  <2>1. \A r, s \in Resident' : r # s => chunks'[r].handle # chunks'[s].handle
    BY <1>6, <1>9, <1>5 DEF ChunkInv, HandlesAreUnique, Resident
  <2> QED BY <2>1, <1>2 DEF ChunkInv, HandlesAreUnique
<1>12. /\ Len(uploads) \in Nat /\ DOMAIN uploads = 1..Len(uploads)
       /\ DOMAIN uploads' = 1..(Len(uploads) + 1)
       /\ \A i \in DOMAIN uploads : uploads'[i] = uploads[i]
       /\ uploads'[Len(uploads) + 1] = upload
  <2>1. uploads \in Seq(Drawn) /\ upload \in Drawn
    BY <1>5 DEF TypeOK, Drawn, upload, r0
  <2> QED BY <2>1, <1>2, AppendProperties, LenProperties
<1>13. UploadsMatch'
  <2>1. ASSUME NEW i \in DOMAIN uploads'
        PROVE  /\ uploads'[i].region \in Resident'
               /\ uploads'[i].chunk.handle = chunks'[uploads'[i].region].handle
    <3>1. CASE i = Len(uploads) + 1
      BY <3>1, <1>12, <1>5, <1>6
    <3>2. CASE i \in DOMAIN uploads
      <4>1. /\ uploads[i].region \in Resident
            /\ uploads[i].chunk.handle = chunks[uploads[i].region].handle
        BY <3>2 DEF ChunkInv, UploadsMatch
      <4>2. r0 \in Resident => chunk.handle = chunks[r0].handle
        BY <1>3 DEF r0, Resident
      <4> QED BY <4>1, <4>2, <3>2, <1>12, <1>6 DEF Resident
    <3> QED BY <3>1, <3>2, <1>12, <2>1
  <2> QED BY <2>1, <1>2 DEF UploadsMatch
<1>14. ChunksAreCarried'
  <2> SUFFICES ASSUME NEW r \in Resident'
               PROVE  \/ /\ DrawnAs(r)' \in gpuChunks'
                         /\ \A i \in DOMAIN uploads' : uploads'[i].region # r
                      \/ \E i \in DOMAIN uploads' :
                           /\ uploads'[i] = DrawnAs(r)'
                           /\ \A j \in DOMAIN uploads' : j > i => uploads'[j].region # r
    BY DEF ChunksAreCarried
  <2>1. CASE r = r0
    <3>1. upload = DrawnAs(r)'
      BY <2>1, <1>6 DEF DrawnAs, upload, r0
    <3> QED BY <3>1, <1>12
  <2>2. CASE r # r0
    <3>1. r \in Resident /\ DrawnAs(r)' = DrawnAs(r) /\ upload.region # r
      BY <2>2, <1>5, <1>6 DEF DrawnAs, Resident
    <3>2. CASE DrawnAs(r) \in gpuChunks /\ \A i \in DOMAIN uploads : uploads[i].region # r
      BY <3>1, <3>2, <1>12, <1>2
    <3>3. CASE \E i \in DOMAIN uploads :
                 /\ uploads[i] = DrawnAs(r)
                 /\ \A j \in DOMAIN uploads : j > i => uploads[j].region # r
      BY <3>1, <3>3, <1>12
    <3> QED BY <3>1, <3>2, <3>3 DEF ChunkInv, ChunksAreCarried
  <2> QED BY <2>1, <2>2
<1> QED BY <1>10, <1>11, <1>13, <1>14 DEF ChunkInv

LEMMA IntegrateView ==
  ASSUME TypeOK, ViewInv, Integrate
  PROVE  ViewInv'
<1>1. /\ UNCHANGED <<standing, gpuOrganisms, hover, generation, visualGeneration>>
      /\ phase' = "publishing"
  BY DEF Integrate, presentation
<1>2. uploads' # <<>>
  <2>1. PICK u : uploads' = Append(uploads, u)
    BY DEF Integrate
  <2> QED BY <2>1 DEF TypeOK
<1>3. StandingIsGrounded'
  BY <1>1 DEF ViewInv, StandingIsGrounded
<1>4. HoverIsRemembered'
  BY <1>1, <1>2 DEF ViewInv, HoverIsRemembered
<1> QED BY <1>3, <1>4 DEF ViewInv

\* Evictions and uploads applied: what is kept is drawn.
LEMMA PublishChunks ==
  ASSUME TypeOK, ChunkInv, Publish
  PROVE  ChunkInv'
<1>1. /\ chunks' = Kept /\ gpuChunks' = Applied /\ uploads' = <<>> /\ phase' = "idle"
      /\ nextHandle' = nextHandle
  BY DEF Publish
<1>2. /\ \A r \in Regions : chunks'[r] = IF r \in Evicted THEN None ELSE chunks[r]
      /\ Evicted \subseteq Resident
  BY <1>1 DEF Kept, Evicted
<1>3. Resident' = Resident \ Evicted
  BY <1>2 DEF Resident
<1>4. \A r \in Resident' : r \in Resident /\ r \notin Evicted /\ chunks'[r] = chunks[r]
  BY <1>2, <1>3 DEF Resident
<1> DEFINE removed == {chunks[r].handle : r \in Evicted}
           uploaded == {uploads[i].chunk.handle : i \in DOMAIN uploads}
           last == {i \in DOMAIN uploads :
                      \A j \in DOMAIN uploads :
                        j > i => uploads[j].chunk.handle # uploads[i].chunk.handle}
<1>5. gpuChunks' = {d \in gpuChunks : d.chunk.handle \notin removed \cup uploaded}
                     \cup {uploads[i] : i \in last}
  BY <1>1 DEF Applied
<1>6. DOMAIN uploads \subseteq Nat
  BY DEF TypeOK
<1>7. \A i \in DOMAIN uploads :
        uploads[i].region \in Resident
          /\ uploads[i].chunk.handle = chunks[uploads[i].region].handle
  BY DEF ChunkInv, UploadsMatch
<1>8. \A r, s \in Resident : r # s => chunks[r].handle # chunks[s].handle
  BY DEF ChunkInv, HandlesAreUnique
<1>9. HandlesAreNumbered'
  <2>1. \A i \in DOMAIN uploads : uploads[i].chunk.handle < nextHandle
    BY <1>7 DEF ChunkInv, HandlesAreNumbered
  <2>2. \A d \in gpuChunks' : d.chunk.handle < nextHandle
    BY <2>1, <1>5 DEF ChunkInv, HandlesAreNumbered
  <2>3. \A r \in Resident' : chunks'[r].handle < nextHandle
    BY <1>4 DEF ChunkInv, HandlesAreNumbered
  <2> QED BY <1>1, <2>2, <2>3 DEF HandlesAreNumbered
<1>10. HandlesAreUnique'
  <2>1. \A r, s \in Resident' : r # s => chunks'[r].handle # chunks'[s].handle
    BY <1>4, <1>8
  <2>2. \A i, j \in last : uploads[i].chunk.handle = uploads[j].chunk.handle => i = j
    BY <1>6
  <2>3. \A d, e \in gpuChunks : d # e => d.chunk.handle # e.chunk.handle
    BY DEF ChunkInv, HandlesAreUnique
  <2>4. \A d, e \in gpuChunks' : d # e => d.chunk.handle # e.chunk.handle
    BY <2>2, <2>3, <1>5
  <2> QED BY <2>1, <2>4 DEF HandlesAreUnique
<1>11. UploadsMatch'
  BY <1>1 DEF UploadsMatch
<1>12. \A r \in Resident' : DrawnAs(r)' \in gpuChunks'
  <2> SUFFICES ASSUME NEW r \in Resident' PROVE DrawnAs(r) \in gpuChunks'
    BY <1>4 DEF DrawnAs
  <2>1. r \in Resident /\ r \notin Evicted
    BY <1>4
  <2>2. \A i \in DOMAIN uploads :
          uploads[i].chunk.handle = chunks[r].handle => uploads[i].region = r
    BY <2>1, <1>7, <1>8
  <2>3. CASE DrawnAs(r) \in gpuChunks /\ \A i \in DOMAIN uploads : uploads[i].region # r
    <3>1. chunks[r].handle \notin uploaded
      BY <2>2, <2>3
    <3>2. chunks[r].handle \notin removed
      BY <2>1, <1>2, <1>8
    <3> QED BY <3>1, <3>2, <2>3, <1>5 DEF DrawnAs
  <2>4. ASSUME NEW i \in DOMAIN uploads, uploads[i] = DrawnAs(r),
               \A j \in DOMAIN uploads : j > i => uploads[j].region # r
        PROVE  DrawnAs(r) \in gpuChunks'
    <3>1. uploads[i].chunk.handle = chunks[r].handle
      BY <2>4 DEF DrawnAs
    <3>2. i \in last
      BY <3>1, <2>2, <2>4
    <3> HIDE DEF last
    <3> QED BY <3>2, <2>4, <1>5
  <2> QED BY <2>1, <2>3, <2>4 DEF ChunkInv, ChunksAreCarried
<1>13. ChunksAreCarried'
  BY <1>1, <1>12 DEF ChunksAreCarried
<1> QED BY <1>9, <1>10, <1>11, <1>13 DEF ChunkInv

\* Nothing uploaded, evicted or rebuilt leaves the ground, the organisms and so
\* the cached observation as they were; anything else changes its key.
LEMMA PublishView ==
  ASSUME TypeOK, ViewInv, Publish
  PROVE  ViewInv'
<1> DEFINE stand == StandingOn(Kept)
<1>1. /\ chunks' = Kept /\ standing' = stand /\ phase' = "idle" /\ uploads' = <<>>
      /\ generation' = NextGeneration /\ camera' = camera
      /\ visualGeneration' = IF Rebuild(stand) THEN visualGeneration + 1 ELSE visualGeneration
      /\ gpuOrganisms' = IF Rebuild(stand) THEN stand ELSE gpuOrganisms
      /\ hover' = Observed(Kept, stand, generation', visualGeneration')
  BY DEF Publish, world
<1>2. gpuOrganisms' = stand
  BY <1>1 DEF Rebuild, ViewInv, StandingIsGrounded
<1>3. StandingIsGrounded'
  <2>1. \A o \in stand : o.region \in Regions /\ Kept[o.region] # None
                           /\ Kept[o.region].key = o.ground
    BY DEF StandingOn, TypeOK
  <2> HIDE DEF stand
  <2> QED BY <1>1, <1>2, <2>1 DEF StandingIsGrounded, Resident
<1> HIDE DEF stand
<1>4. Raycast(Kept, stand) = RaycastFrom(camera, Kept, stand)
  BY DEF Raycast, RaycastFrom, CameraRegion
<1>5. HoverIsRemembered'
  <2>1. CASE hover' = [key |-> GeometryKey(generation', visualGeneration'),
                       hit |-> Raycast(Kept, stand)]
    BY <2>1, <1>1, <1>4 DEF HoverIsRemembered, GeometryKey
  <2>2. CASE hover' = hover /\ hover.key = GeometryKey(generation', visualGeneration')
    <3> SUFFICES ASSUME hover.key # None PROVE HoverIsRemembered'
      BY <2>2 DEF HoverIsRemembered
    <3>1. /\ hover.key.terrain = generation /\ hover.key.organisms = visualGeneration
          /\ uploads = <<>> => hover.hit = RaycastFrom(hover.key.camera, chunks, standing)
      BY DEF ViewInv, HoverIsRemembered
    <3>2. /\ generation' = generation /\ visualGeneration' = visualGeneration
          /\ hover.key.camera = camera
      BY <2>2, <3>1 DEF GeometryKey
    <3>3. uploads = <<>> /\ Evicted = {} /\ ~Rebuild(stand)
      BY <3>2, <1>1 DEF NextGeneration, TypeOK
    <3>4. Kept = chunks /\ stand = standing
      BY <3>3 DEF Kept, Rebuild, TypeOK
    <3> QED BY <2>2, <3>1, <3>2, <3>3, <3>4, <1>1 DEF HoverIsRemembered, GeometryKey
  <2> QED BY <2>1, <2>2, <1>1 DEF Observed
<1> QED BY <1>3, <1>5 DEF ViewInv

LEMMA NextChunks == TypeOK /\ ChunkInv /\ ViewInv /\ [Next]_vars => ChunkInv' /\ ViewInv'
<1> SUFFICES ASSUME TypeOK, ChunkInv, ViewInv, [Next]_vars PROVE ChunkInv' /\ ViewInv'
  OBVIOUS
<1> USE DEF world, manager
<1>1. CASE BeginSync \/ Receive \/ Schedule \/ Collect \/ DropSuperseded
  BY <1>1, QuietStep DEF BeginSync, Receive, Schedule, Collect, DropSuperseded
<1>2. CASE Integrate
  BY <1>2, IntegrateChunks, IntegrateView
<1>3. CASE Publish
  BY <1>3, PublishChunks, PublishView
<1>4. CASE Work
  BY <1>4, QuietStep DEF Work, StartJob, FinishJob, AbandonJob
<1>5. CASE LoseDevice
  <2>1. uploads' = <<>>
    BY <1>5 DEF LoseDevice, Changes, ChunkInv, UploadsMatch
  <2> QED BY <2>1, <1>5, StartOver DEF LoseDevice
<1>6. CASE Change /\ ~LoseDevice
  BY <1>6, QuietStep DEF Change, ChangeOrganism, ChangeTiles, MoveCamera, LeavePov, EnterPov,
                        Changes
<1>7. CASE UNCHANGED vars
  BY <1>7, QuietStep DEF vars
<1> QED BY <1>1, <1>2, <1>3, <1>4, <1>5, <1>6, <1>7 DEF Next, Frame

\* Between frames every resident chunk is drawn with the mesh the CPU picks and
\* stands on, and no buffer is shared, whatever is meshed, integrated, evicted
\* and lost with the device.
THEOREM ResidentChunksAreDrawn == Spec => []ResidentIsDrawn
<1>1. ChunkInv => ResidentIsDrawn
  <2> SUFFICES ASSUME ChunkInv, phase = "idle", NEW r \in Resident
               PROVE  DrawnAs(r) \in gpuChunks
    BY DEF ChunkInv, ResidentIsDrawn, DrawnAs
  <2>1. DOMAIN uploads = {}
    BY DEF ChunkInv, UploadsMatch
  <2> QED BY <2>1 DEF ChunkInv, ChunksAreCarried
<1> QED BY <1>1, InitChunks, NextChunks, PovTypes, PTL DEF Spec

\* Every organism that is drawn stands on the terrain that is drawn below it.
THEOREM DrawnOrganismsStand == Spec => []OrganismsStand
<1>1. TypeOK /\ ViewInv /\ ResidentIsDrawn => OrganismsStand
  <2> SUFFICES ASSUME TypeOK, ViewInv, ResidentIsDrawn, phase = "idle", NEW o \in gpuOrganisms
               PROVE  \E d \in gpuChunks : d.region = o.region /\ d.chunk.key = o.ground
                                             /\ chunks[o.region] = d.chunk
    BY DEF OrganismsStand
  <2>1. o.region \in Resident /\ chunks[o.region].key = o.ground
    BY DEF ViewInv, StandingIsGrounded
  <2>2. DrawnAs(o.region) \in gpuChunks
    BY <2>1 DEF ResidentIsDrawn, DrawnAs
  <2> QED BY <2>1, <2>2 DEF DrawnAs
<1> QED BY <1>1, ResidentChunksAreDrawn, InitChunks, NextChunks, PovTypes, PTL DEF Spec

\* The observation the pointer is shown is what a ray cast now would find.
THEOREM HoverStaysFresh == Spec => []HoverIsFresh
<1>1. ChunkInv /\ ViewInv => HoverIsFresh
  BY DEF ChunkInv, UploadsMatch, ViewInv, StandingIsGrounded, HoverIsRemembered, HoverIsFresh,
         Raycast, RaycastFrom, CameraRegion
<1> QED BY <1>1, InitChunks, NextChunks, PovTypes, PTL DEF Spec
=============================================================================
