----------------------------- MODULE PovChunks -----------------------------
(***************************************************************************)
(* The first-person view: terrain chunks are meshed by jobs, integrated a   *)
(* few per frame, mirrored in GPU buffers, and read by organisms that stand *)
(* on them and by the pointer (pov-host/src/lib.rs, viewer-host/inspect.rs, *)
(* renderer/src/pov.rs).  A frame receives what the workers sent, walks the  *)
(* window, receives again, integrates mesh by mesh and publishes; workers   *)
(* step in between, the world only between frames.                          *)
(***************************************************************************)
EXTENDS Integers, Sequences, FiniteSets, SequencesExt

CONSTANTS
  Regions,          \* <<x, y>> of the regions whose tiles may settle
  Cameras,          \* <<x, y>> of the places of the camera, in world units
  Keys,             \* provenance keys
  InitialKeys,      \* what the tiles may be at first
  Population,       \* regions that may have an organism
  None,             \* no key, chunk, entry or observation
  RegionSize,       \* REGION_SIZE
  Radius,           \* window of regions around the camera
  UploadsPerFrame,  \* POV_UPLOADS_PER_FRAME
  ChunkSlack,       \* POV_CHUNK_SLACK
  Inline,           \* jobs run inside submit (InlineExecutor) or on workers
  MaxJobs,          \* bound: jobs of one region at a time
  MaxChanges        \* bound: changes of the world, the camera and the device

ASSUME GeometryAssumption ==
  /\ Regions \subseteq Int \X Int /\ Cameras \subseteq Int \X Int /\ Cameras # {}
  /\ RegionSize \in Nat \ {0} /\ Radius \in Nat
ASSUME LimitsAssumption ==
  /\ UploadsPerFrame \in Nat \ {0} /\ ChunkSlack \in Nat /\ MaxJobs \in Nat /\ MaxChanges \in Nat
  /\ Inline \in BOOLEAN /\ None \notin Keys
  /\ None \notin [key : Keys, handle : Nat \ {0}]
  /\ InitialKeys \subseteq Keys \cup {None} /\ Population \subseteq Regions

VARIABLES
  provenance, camera, organisms, shown, changes,                 \* the world around
  phase, uploads,                                                \* the frame in progress
  chunks, inFlight, pending, nextHandle, generation,             \* PovChunkManager
  jobs, channel,                                                 \* its mesh jobs
  standing, initialized, visualGeneration,                       \* PovOrganismManager
  hover,                                                         \* PovHoverCache
  gpuChunks, gpuOrganisms                                        \* the renderer's buffers

world == <<provenance, camera, organisms, shown, changes>>
manager == <<chunks, inFlight, pending, nextHandle, generation>>
presentation == <<standing, initialized, visualGeneration, hover, gpuChunks, gpuOrganisms>>
vars == <<world, phase, uploads, manager, jobs, channel, presentation>>
-----------------------------------------------------------------------------
(* Geometry *)

CameraRegion == <<camera[1] \div RegionSize, camera[2] \div RegionSize>>
InWindow(r) == /\ r[1] - CameraRegion[1] \in -Radius..Radius
               /\ r[2] - CameraRegion[2] \in -Radius..Radius

\* Twice the distance of the centre of r from the camera, squared.
Distance(r) ==
  LET dx == (2 * r[1] + 1) * RegionSize - 2 * camera[1]
      dy == (2 * r[2] + 1) * RegionSize - 2 * camera[2]
  IN  dx * dx + dy * dy

\* farthest_region's order: by distance, then by coordinate.
Farther(r, s) ==
  \/ Distance(r) > Distance(s)
  \/ /\ Distance(r) = Distance(s)
     /\ r[1] > s[1] \/ (r[1] = s[1] /\ r[2] > s[2])

RowMajor(r, s) == r[2] < s[2] \/ (r[2] = s[2] /\ r[1] < s[1])

Capacity == (2 * Radius + 1) * (2 * Radius + 1) + ChunkSlack
Resident == {r \in Regions : chunks[r] # None}
-----------------------------------------------------------------------------
NoObservation == [key |-> None, hit |-> None]
\* PovChunkManager::new, PovOrganismManager::new, PovHoverCache::new.
Init ==
  /\ provenance \in [Regions -> InitialKeys]
  /\ camera \in Cameras
  /\ organisms = Population
  /\ shown = TRUE /\ changes = 0
  /\ phase = "idle" /\ uploads = <<>>
  /\ chunks = [r \in Regions |-> None]
  /\ inFlight = [r \in Regions |-> None]
  /\ pending = <<>> /\ channel = <<>> /\ jobs = {}
  /\ nextHandle = 1 /\ generation = 0
  /\ standing = {} /\ initialized = FALSE /\ visualGeneration = 0
  /\ hover = NoObservation
  /\ gpuChunks = {} /\ gpuOrganisms = {}
-----------------------------------------------------------------------------
(* sync, first half: drain, walk the window, cancel what left it. *)

InFlightAs(r, key) == inFlight[r] # None /\ inFlight[r].key = key

Stale == {r \in Regions : /\ InWindow(r) /\ provenance[r] # None
                          /\ chunks[r] = None \/ chunks[r].key # provenance[r]
                          /\ ~InFlightAs(r, provenance[r])}

\* The entries whose token is cancelled: superseded, or out of the window.
Retired == {r \in Regions : inFlight[r] # None /\ (r \in Stale \/ ~InWindow(r))}

Tokens(r) == {t \in 1..MaxJobs : \A j \in jobs : j.region = r => j.token # t}

\* An identity for the next job of r: its cancellation token.
FreshToken(r) == CHOOSE t \in Tokens(r) : TRUE

Job(r) == [region |-> r, token |-> FreshToken(r), key |-> provenance[r],
           cancelled |-> FALSE, running |-> FALSE]
Mesh(j) == [region |-> j.region, key |-> j.key]

\* What an inline executor sends while the window is walked, row by row.
Meshed(walked) ==
  [i \in 1..Cardinality(walked) |->
     Mesh(Job(CHOOSE r \in walked : Cardinality({s \in walked : RowMajor(s, r)}) = i - 1))]

CancelRetired ==
  {[j EXCEPT !.cancelled = @ \/ (j.region \in Retired /\ inFlight[j.region].token = j.token)] :
     j \in jobs}

\* Fault: an entry outlives the job that was cancelled under it.
EntriesOfJobs ==
  LET stale == Stale
  IN  [r \in Regions |->
         IF r \in stale THEN [key |-> provenance[r], token |-> FreshToken(r)] ELSE inFlight[r]]

Entries ==
  LET stale == Stale
  IN  [r \in Regions |->
         IF r \in stale THEN [key |-> provenance[r], token |-> FreshToken(r)]
         ELSE IF ~InWindow(r) THEN None ELSE inFlight[r]]

BeginSync ==
  /\ phase = "idle" /\ shown
  /\ phase' = "draining"
  /\ UNCHANGED <<world, uploads, manager, jobs, channel, presentation>>

\* drain, one mesh: kept if it is the one in flight.
Receive ==
  /\ phase \in {"draining", "walked"} /\ channel # <<>>
  /\ channel' = Tail(channel)
  /\ LET m == Head(channel)
     IN  pending' = IF InFlightAs(m.region, m.key) THEN Append(pending, m) ELSE pending
  /\ UNCHANGED <<world, phase, uploads, chunks, inFlight, nextHandle, generation, jobs,
                 presentation>>

Schedule ==
  /\ phase = "draining" /\ channel = <<>>
  /\ \A r \in Stale : Tokens(r) # {}
  /\ phase' = "walked"
  /\ inFlight' = Entries
  /\ IF Inline
     THEN channel' = Meshed(Stale) /\ jobs' = CancelRetired
     ELSE UNCHANGED channel /\ jobs' = CancelRetired \cup {Job(r) : r \in Stale}
  /\ UNCHANGED <<world, uploads, chunks, pending, nextHandle, generation, presentation>>
-----------------------------------------------------------------------------
(* sync, second half: drain again, integrate up to the cap, evict. *)

Collect ==
  /\ phase = "walked" /\ channel = <<>>
  /\ phase' = "publishing"
  /\ UNCHANGED <<world, uploads, manager, jobs, channel, presentation>>

\* An entry of another key means that a newer job is wanted; no entry, that the
\* region left the window: integrated all the same.
Superseded(m) == inFlight[m.region] # None /\ inFlight[m.region].key # m.key

DropSuperseded ==
  /\ phase = "publishing" /\ Len(uploads) < UploadsPerFrame /\ pending # <<>>
  /\ Superseded(Head(pending))
  /\ pending' = Tail(pending)
  /\ UNCHANGED <<world, phase, uploads, chunks, inFlight, nextHandle, generation, jobs,
                 channel, presentation>>

HandleOf(r) == IF chunks[r] = None THEN nextHandle ELSE chunks[r].handle

Integrate ==
  /\ phase = "publishing" /\ Len(uploads) < UploadsPerFrame /\ pending # <<>>
  /\ LET m == Head(pending)
         chunk == [key |-> m.key, handle |-> HandleOf(m.region)]
     IN  /\ ~Superseded(m)
         /\ pending' = Tail(pending)
         /\ inFlight' = [inFlight EXCEPT ![m.region] = None]
         /\ chunks' = [chunks EXCEPT ![m.region] = chunk]
         /\ nextHandle' = IF chunk.handle = nextHandle THEN nextHandle + 1 ELSE nextHandle
         /\ uploads' = Append(uploads, [region |-> m.region, chunk |-> chunk])
  /\ UNCHANGED <<world, phase, generation, jobs, channel, presentation>>

\* The farthest residents over capacity.
Evicted ==
  LET excess == Cardinality(Resident) - Capacity
  IN  {r \in Resident :
         excess > 0 /\ Cardinality({s \in Resident : Farther(s, r)}) < excess}

Kept == LET evicted == Evicted
        IN  [r \in Regions |-> IF r \in evicted THEN None ELSE chunks[r]]

\* Fault: a handle that is known keeps what its buffer holds.
AppliedOnce ==
  {d \in gpuChunks : d.chunk.handle \notin {chunks[r].handle : r \in Evicted}}
    \cup {u \in Range(uploads) : \A d \in gpuChunks : d.chunk.handle # u.chunk.handle}

\* Pov::apply: first the removals, then the uploads in their order.
Applied ==
  LET removed == {chunks[r].handle : r \in Evicted}
      uploaded == {uploads[i].chunk.handle : i \in DOMAIN uploads}
      last == {i \in DOMAIN uploads :
                 \A j \in DOMAIN uploads :
                   j > i => uploads[j].chunk.handle # uploads[i].chunk.handle}
  IN  {d \in gpuChunks : d.chunk.handle \notin removed \cup uploaded}
        \cup {uploads[i] : i \in last}

\* PovOrganismManager::sync: an organism in reach stands on the chunk below it,
\* or waits until there is one.
StandingOn(ground) ==
  {[region |-> r, ground |-> ground[r].key] :
     r \in {r \in organisms : InWindow(r) /\ ground[r] # None}}

\* What the pointer, at rest on the middle of the pane, depends on and meets.
GeometryKey(g, v) == [camera |-> camera, terrain |-> g, organisms |-> v]
Raycast(ground, stand) ==
  IF CameraRegion \notin Regions THEN None
  ELSE [terrain |-> ground[CameraRegion],
        organism |-> {o \in stand : o.region = CameraRegion}]

\* Fault: any key of this camera will do.
ObservedOnce(ground, stand, g, v) ==
  IF hover.key # None /\ hover.key.camera = camera THEN hover
  ELSE [key |-> GeometryKey(g, v), hit |-> Raycast(ground, stand)]
\* PovHoverCache::update.
Observed(ground, stand, g, v) ==
  IF hover.key = GeometryKey(g, v) THEN hover
  ELSE [key |-> GeometryKey(g, v), hit |-> Raycast(ground, stand)]

\* Fault: the visual key leaves the ground out.
RebuildByIdentity(stand) ==
  ~initialized \/ {o.region : o \in stand} # {o.region : o \in standing}

NextGeneration == IF uploads # <<>> \/ Evicted # {} THEN generation + 1 ELSE generation
Rebuild(stand) == ~initialized \/ stand # standing

Publish ==
  /\ phase = "publishing" /\ (Len(uploads) = UploadsPerFrame \/ pending = <<>>)
  /\ phase' = "idle" /\ uploads' = <<>>
  /\ chunks' = Kept
  /\ generation' = NextGeneration
  /\ gpuChunks' = Applied
  /\ LET stand == StandingOn(Kept)
         rebuilt == Rebuild(stand)
     IN  /\ standing' = stand /\ initialized' = TRUE
         /\ visualGeneration' = IF rebuilt THEN visualGeneration + 1 ELSE visualGeneration
         /\ gpuOrganisms' = IF rebuilt THEN stand ELSE gpuOrganisms
         /\ hover' = Observed(Kept, stand, generation', visualGeneration')
  /\ UNCHANGED <<world, inFlight, pending, nextHandle, jobs, channel>>
-----------------------------------------------------------------------------
(* Workers: the token is read when a job starts and between batches of rows. *)

StartJob(j) ==
  /\ ~j.running
  /\ jobs' = (jobs \ {j}) \cup IF j.cancelled THEN {} ELSE {[j EXCEPT !.running = TRUE]}
  /\ UNCHANGED <<world, phase, uploads, manager, channel, presentation>>

FinishJob(j) ==
  /\ j.running
  /\ jobs' = jobs \ {j}
  /\ channel' = Append(channel, Mesh(j))
  /\ UNCHANGED <<world, phase, uploads, manager, presentation>>

AbandonJob(j) ==
  /\ j.running /\ j.cancelled
  /\ jobs' = jobs \ {j}
  /\ UNCHANGED <<world, phase, uploads, manager, channel, presentation>>
-----------------------------------------------------------------------------
(* Between frames *)

Changes == phase = "idle" /\ changes < MaxChanges /\ changes' = changes + 1

\* The world's tiles under a chunk settle, change or go.
ChangeTiles(r, key) ==
  /\ Changes /\ key # provenance[r]
  /\ provenance' = [provenance EXCEPT ![r] = key]
  /\ UNCHANGED <<camera, organisms, shown, phase, uploads, manager, jobs, channel, presentation>>

MoveCamera(c) ==
  /\ Changes /\ c # camera
  /\ camera' = c
  /\ UNCHANGED <<provenance, organisms, shown, phase, uploads, manager, jobs, channel,
                 presentation>>

ChangeOrganism(r) ==
  /\ Changes
  /\ organisms' = IF r \in organisms THEN organisms \ {r} ELSE organisms \cup {r}
  /\ UNCHANGED <<provenance, camera, shown, phase, uploads, manager, jobs, channel,
                 presentation>>

LeavePov ==
  /\ shown /\ Changes
  /\ shown' = FALSE
  /\ UNCHANGED <<provenance, camera, organisms, phase, uploads, manager, jobs, channel,
                 presentation>>

EnterPov ==
  /\ ~shown /\ phase = "idle"
  /\ shown' = TRUE
  /\ UNCHANGED <<provenance, camera, organisms, changes, phase, uploads, manager, jobs,
                 channel, presentation>>

\* recover_lost_renderer, renderer_failed: the buffers are gone with the device
\* and the managers start over; jobs of the old manager send to a closed channel.
LoseDevice ==
  /\ Changes
  /\ chunks' = [r \in Regions |-> None] /\ inFlight' = [r \in Regions |-> None]
  /\ pending' = <<>> /\ channel' = <<>> /\ jobs' = {}
  /\ nextHandle' = 1 /\ generation' = 0
  /\ standing' = {} /\ initialized' = FALSE /\ visualGeneration' = 0
  /\ hover' = NoObservation
  /\ gpuChunks' = {} /\ gpuOrganisms' = {}
  /\ shown' = FALSE
  /\ UNCHANGED <<provenance, camera, organisms, phase, uploads>>

Frame == BeginSync \/ Receive \/ Schedule \/ Collect \/ DropSuperseded \/ Integrate \/ Publish
Work == \E j \in jobs : StartJob(j) \/ FinishJob(j) \/ AbandonJob(j)
Change ==
  \/ \E r \in Population : ChangeOrganism(r)
  \/ \E r \in Regions, key \in Keys \cup {None} : ChangeTiles(r, key)
  \/ \E c \in Cameras : MoveCamera(c)
  \/ LeavePov \/ EnterPov \/ LoseDevice
Next == Frame \/ Work \/ Change

Spec == Init /\ [][Next]_vars
\* Frames go on while the view is shown; the executor runs what was submitted.
FairSpec == Spec /\ WF_vars(Frame) /\ WF_vars(Work)
-----------------------------------------------------------------------------
Chunk == [key : Keys, handle : Nat \ {0}]
Drawn == [region : Regions, chunk : Chunk]
Meshes == [region : Regions, key : Keys]
Stands == [region : Regions, ground : Keys]

TypeOK ==
  /\ provenance \in [Regions -> Keys \cup {None}] /\ camera \in Cameras
  /\ organisms \subseteq Regions /\ shown \in BOOLEAN /\ changes \in 0..MaxChanges
  /\ phase \in {"idle", "draining", "walked", "publishing"} /\ uploads \in Seq(Drawn)
  /\ chunks \in [Regions -> Chunk \cup {None}]
  /\ inFlight \in [Regions -> [key : Keys, token : 1..MaxJobs] \cup {None}]
  /\ pending \in Seq(Meshes) /\ channel \in Seq(Meshes)
  /\ jobs \subseteq [region : Regions, token : 1..MaxJobs, key : Keys,
                     cancelled : BOOLEAN, running : BOOLEAN]
  /\ nextHandle \in Nat \ {0} /\ generation \in Nat /\ visualGeneration \in Nat
  /\ standing \subseteq Stands /\ initialized \in BOOLEAN
  /\ gpuChunks \subseteq Drawn /\ gpuOrganisms \subseteq Stands

\* Between frames every resident chunk is drawn, with the mesh the CPU picks and stands
\* on, and no buffer is shared: handles tell resident chunks, and drawn ones, apart.
HandlesAreUnique ==
  /\ \A r, s \in Resident : r # s => chunks[r].handle # chunks[s].handle
  /\ \A d, e \in gpuChunks : d # e => d.chunk.handle # e.chunk.handle
ResidentIsDrawn ==
  /\ HandlesAreUnique
  /\ phase = "idle" => \A r \in Resident : [region |-> r, chunk |-> chunks[r]] \in gpuChunks

\* Every organism that is drawn stands on the terrain that is drawn below it.
OrganismsStand ==
  phase = "idle" =>
    \A o \in gpuOrganisms :
      \E d \in gpuChunks : d.region = o.region /\ d.chunk.key = o.ground
                             /\ chunks[o.region] = d.chunk

\* The cached observation is what a ray cast now would find.
HoverIsFresh ==
  phase = "idle" /\ hover.key # None /\ hover.key.camera = camera =>
    hover.hit = Raycast(chunks, gpuOrganisms)

IsIdle == pending = <<>> /\ \A r \in Regions : inFlight[r] = None
Current(r) == chunks[r] # None /\ chunks[r].key = provenance[r]
Wanted == {r \in Regions : InWindow(r) /\ provenance[r] # None}
Settled == IsIdle /\ \A r \in Wanted : Current(r)

\* Fewer than Capacity residents are nearer, so eviction never comes to r.  The others
\* are crowded out: residents outside the window may be nearer than its corners.
HasRoom(r) == Cardinality({s \in Resident : Farther(r, s)}) < Capacity

\* Once the world and the camera rest and no region of the window is crowded out, a shown
\* view has the mesh of now for all of them, whatever was under way before, and then has
\* nothing left to do.
Settles ==
  <>[](shown /\ \A r \in Wanted : HasRoom(r)) => <>[](phase = "idle" => Settled)

\* With an inline executor a frame that ends with nothing in flight or queued
\* has settled the ring.
IdleHasSettled ==
  [][Inline /\ phase = "publishing" /\ phase' = "idle" /\ IsIdle' => Settled']_vars

\* Only resident chunks are drawn: an evicted chunk gives its buffer back.
DrawnIsResident == phase = "idle" => \A d \in gpuChunks : chunks[d.region] = d.chunk

\* A chunk in the window whose tiles stay the same stays as it is.
CurrentStays ==
  [][phase = "publishing" =>
       \A r \in Regions : InWindow(r) /\ Current(r) => chunks'[r] = chunks[r]]_vars
=============================================================================
