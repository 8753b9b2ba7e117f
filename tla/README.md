# WER: a TLA+ development of the world runtime

WER is a Rust workspace that generates an endless world around a player.  What
the player sees is derived, deterministically, from a small *possibility state*
held per region; everything else is a cache that may be dropped and computed
again.  This directory holds TLA+ models of the parts where that promise is hard
to keep, the TLC runs that check them on small instances and the TLAPS proofs
that hold for every value of the constants.

Paths below are relative to `crates/` of the repository.

## 1. The system

### Components, their state, their operations

| component | state | operations | correct when |
|---|---|---|---|
| streaming map (`world-runtime/src/stream.rs`) | regions, their possibility state and dirty layers; tile, macro and roster caches; in-flight table; preserve contributors; field recipe and revision bumps | `update` (once per frame: recipe, integrate, evict, load, retarget, converge, dispatch loop, realize), `apply_preserves`, `remove_preserve`, `bump_layer_revision`, `restore_region` | a ready region shows exactly what its state generates, whatever the schedule; stale work is never lost; budgets and capacities hold; it settles |
| layer graph (`world-core/src/layer.rs`) | none: a static table | `dependents_closure`, `domain_readers`, `domain_dirty_mask`, `max_layer_cost` | the closures reach every key a change reaches |
| dependency hashes (`world-core/src/dephash.rs`) | none | folds of revisions, buckets and input hashes | equal hashes mean equal inputs |
| generation jobs and executors (`world-runtime/src/task.rs`, `tools/src/executor.rs`) | three lanes, a shutdown flag, worker threads | `submit`, worker loop, drop | every job of a live executor runs at most once, the best lane first, none sleeps through work or shutdown |
| vault (`world-runtime/src/vault.rs`) | records by content id, dirty set, sequence counter, issues | open, record, import, export, remove, flush | what was reported durable survives a crash; a removal is final; a local edit outranks what is there; data precedes the header |
| records (`world-core/src/record.rs`) | none: immutable body, mutable presentation | merge, encode, decode | vaults that exchanged the same edits agree, whatever the order |
| file storage (`tools/src/filestore.rs`) | directory tree, directories waiting for a sync | store, remove, list | a write is all or nothing across a crash, and durable once it returns |
| realization (`world-runtime/src/realize.rs`, `rostercache.rs`) | realized organisms per region, roster working set | realize, retire, resonance | an organism set matches the tiles it was realized from |
| loom (`loom-core`, `loom-transport`, `loom-world`) | packets, transport plans, host state | normalize, plan, verify, advance | a plan is optimal by its own certificate, and mass is conserved |
| viewer host (`viewer-host`), native shell (`platform-native`) | queues of actions, inputs and effects; pending requests; layout; traveler and camera; the recorder; the device | tick (drain, reduce, update), serve, lose and rebuild the device | every request is answered once; the map and the vault agree; POV is shown only over a device |
| point-of-view host (`pov-host`, `renderer/src/pov.rs`) | chunks, in-flight table, pending meshes, organisms, hover cache, GPU buffers | sync, worker jobs, device loss | what is drawn is what is resident; what stands or is picked is on it; a window that is not crowded out settles |
| web shell (`platform-web`, `viewer-host/src/input.rs`) | DOM listeners, the input mapper, the request for an animation frame, two canvases, the slot of the renderer | key, pointer, focus and resize handlers, `WebApp::frame`, canvas swap, renderer ready, failed, lost | the frame loop sleeps only over a finished picture, and does sleep; nothing stays held that was released |
| generators, ecology, possibility field (`world-core`) | none: numeric kernels | sample, generate | pure functions of their arguments |
| renderer, tools | GPU buffers, command lines | presentation and test drivers | |

### How they interact

The **main thread** owns the map.  Each frame it calls `RegionMap::update`, which
runs its passes to the end before it returns; between frames the host calls
`apply_preserves`, `remove_preserve` and `bump_layer_revision`.  A pass that finds
a stale layer with fresh inputs copies those inputs into a job and hands the job
to the **executor**.  **Workers** run jobs at any time and send the result through
a channel; only the main thread reads it, at three points of the frame.  A shared
cancellation token per job is set by the main thread and read by a worker once,
when it takes the job.  The **vault** is driven by the host between frames and
writes through a **storage** backend; a restored session re-enters the map through
`restore_region` before the first frame.

The **viewer controller** turns input into actions, and actions into effects; the **shell**
serves the effects against the vault and queues the answers for the next tick.  After the
tick, the **point-of-view manager** reads the map's tiles, submits mesh jobs of its own and
hands uploads and removals to the **renderer**.  A lost device takes the renderer and the
manager with it.  In a browser the same controller runs inside a page: DOM events pass the
**input mapper**, and a frame runs only if a handler or the frame before asked for one.  The **loom** is an experiment beside all of this: it has a host of its
own and shares no state with the map.

### What is hard here

* a job takes its inputs at one moment and is judged at another: between the two
  travel, a preserve, a revision, a recipe, an eviction or a neighbour's eviction
  can change what the tile ought to be (`stream.rs` 1721, 527, 2618);
* dirtiness is a hint, and a region without hints is not looked at again, so a
  single missing hint is a tile that is wrong for ever (`stream.rs` 2381);
* cancellation races the worker that takes the job (`stream.rs` 2998), panics come
  back as results (3001), and results arrive in any order (1755);
* capacity limits park regions whose jobs are still running (1919, 2171);
* one layer is shared by all regions of a macro cell, so its jobs have many
  consumers and its cache entry can be trimmed under them (2043, 2498);
* a submitter pushes and notifies in two steps, a shutdown or another submitter can fall
  between them, and a worker tests the lanes before it sleeps (`executor.rs` 171);
* bundles of records reach a vault late, twice and through third vaults, and races between
  edits and imports are decided by a counter that a crash may leave behind (`vault.rs` 680,
  1129, `record.rs` 800);
* a flush ends anywhere, by budget, failure or crash, and the next one must go on without
  ever putting the header before the data (`vault.rs` 1138, 1167);
* meshes return late, out of order, for regions that left the window and came back, while a
  frame integrates a few and evicts others (`pov-host/src/lib.rs` 2036, 2139);
* requests are answered a frame later, by a service that may fail, while loads replace the
  world and the device goes (`controller.rs` 816, 1251, `main.rs` 1848);
* a web frame that asks for no other sleeps until the next event, so one forgotten flag is a picture
  that stays wrong; a surface that fails to present must be tried again, but not for ever
  (`platform-web/src/lib.rs` 1341, 1872);
* a key or a button may be released where the canvas does not hear of it: over a control, in another
  window, on the canvas that was just swapped out (`platform-web/src/lib.rs` 1214);
* a crash can fall between any two file operations of a store or of a flush, and what it
  leaves half done is what the next process takes for granted (`filestore.rs` 54, 221).

`PROJECT.json` lists each hazard at its line with the properties that cover it.

## 2. Modules

| module | what it is |
|---|---|
| `LayerGraph` | the declared nine-layer table and the algorithms over it |
| `LayerGraphFacts` | what those algorithms compute, against reference definitions; TLC evaluates them on small tables |
| `RegionStream` | the streaming map, its jobs, its workers and its host |
| `CanonicalTiles` | what the map promises its readers; `RegionStream` refines it |
| `RegionStreamMC` | small geometries and a reduced table for `RegionStream` |
| `RegionStreamProofs` | types, preserves, pinned regions, the inductive invariant of the map with its safety theorems, the refinement; the algorithms of the layer graph |
| `LaneExecutor` | the native executor: lanes, condition variable, workers, shutdown |
| `LaneExecutorProofs` | theorems about `LaneExecutor` for any number of threads and jobs |
| `Storage` | what the `Storage` trait promises of a backend |
| `FileStorage` | the native file-tree backend, one action per file operation; it refines `Storage` |
| `FileStorageMC` | two small directory trees for `FileStorage` |
| `FileStorageProofs` | types, durable ancestors and the refinement, for every directory tree |
| `AtlasMerge` | shareable records and the merge of two copies |
| `Vault` | one vault over `Storage`: memory, dirty set, counter, diagnostics, flush, crash, open |
| `VaultMC` | the bundles a peer offers |
| `VaultProofs` | the merge is a join; same edits, same records, for any number of vaults; the vault's two-sided invariant and five of the properties its run checks |
| `AtlasExchange` | several vaults that exchange bundles |
| `AtlasExchangeMC` | its symmetry |
| `PovChunks` | terrain chunks, their mesh jobs, organisms, pointer and GPU buffers, frame by frame |
| `PovChunksMC` | a row of regions, and the native window |
| `PovChunksProofs` | what is drawn, stands and is picked, for every window, limit and schedule |
| `ViewerController` | the controller, the shell's services, the recorder and the device |
| `ViewerControllerMC` | three places over two regions, every kind of command |
| `ViewerControllerProofs` | the requests, the vault, the layout and the recorder, for every world and number of commands |
| `ViewLayout` | presentation mode and focus, and the actions that change them |
| `Replay` | what a queue of actions or events leaves of a value, as a recursive function |
| `InputMapper` | raw events into actions and per-frame input |
| `WebShell` | the browser shell: events, frames, canvases and the renderer's life |
| `WebShellMC` | the page's controls |
| `WebShellProofs` | what is held is down, and the loop sleeps only over a finished picture |
| `Loom` | lowering, the mode solver, planning and travel |
| `LoomMC` | four atoms and six intents |
| `LoomProofs` | every probe resolves, routes are as short as routes can be, travel is accounted however it is cut |

`Vault` composes with the disk through `Storage`, which `FileStorage` implements; the map's
jobs run on what `LaneExecutor` promises; `ViewerController` holds of the vault and of the
map what its own decisions read, and leaves their insides to `Vault` and `RegionStream`.
`ViewerController` and `WebShell` share the layout reducer, `ViewLayout`, and the replay of queues, `Replay`; `WebShell` is `InputMapper`
between a page and what a frame needs of the controller.

### RegionStream and the code

State: `regions` is the key set of `RegionMap::regions`; `status`, `current`,
`target`, `dirty` are the fields of `Region` of the same names; `contributors`
is `preserve_contributors`; `store` is the region cache and the macro cache in one
function over keys; `inFlight` is `in_flight` and `in_flight_macro`; `jobs` are
the closures in the executor, `results` the channel.  `status = "Unloaded"` is a
parked or an absent region (the code's `field_active` is its negation).

Time: `pc` is the pass `update` is in.  One action is one pass, and a pass is split
only where worker steps or results can fall between its parts: `integrate_finished`
takes one result per step (`DropLateResult`, `RejectResult`, `AcceptMacro`,
`AcceptTile`, `ChannelDrained`), and a dispatch pass visits one region per step
(`RepairDependency` until it has nothing to repair, then `ScanRegion`, and
`EndPass`).  `Evict`, `Load`, `Retarget` and `Converge` are one step each.
`BeginFrame` is the entry of `update` with `synchronize_field_recipe`.  Workers are
`StartJob`, `FinishJob` and `FailJob`.  Host calls are `ApplyPreserves`,
`RemovePreserve` and `BumpLayerRevision`.

Abstractions, each chosen so that the properties still see the difference:

* A **dependency hash** is the set of facts it folds (revisions, buckets, terrain
  pairs of the halo, lattice spacing), so hashes are equal exactly when those facts
  are; collisions of the 64-bit hash and the wrap of the 16-bit revision are left out.
* A **tile** is its hash together with the facts it was really computed from.  The
  two are written by different code paths, and `ProvenanceHonest` says that they
  agree.
* The **realized state** of a region is its vector of buckets.  One convergence step
  moves every bucket somewhere between where it was and its target: the rate depends
  on travel and on resonance, and every rate is allowed.  Drift inside one bucket is
  invisible, as it is to the hashes.
* The **possibility field** is a constant: `Sample` for the recipe's own value and
  `TargetFor` for the steered target of a region.
* The **channel** is a set: a result may be taken in any order, which includes the
  order of the code and every schedule of the workers.
* **Nearest first** and **farthest first** selections are by distance with the tie
  broken by coordinate, as the code sorts them.
* `RejectResult` is defensive in the code and unreachable for a successful result:
  theorem `DispatchesAreCurrent` shows that.  Failed results take it.

### LaneExecutor and the code

`queues` and `shutdown` are the fields of `Lanes` behind the mutex; `worker` is where a
thread of `worker_loop` is (at the lock, in `Condvar::wait`, in a job, gone) and `job`
the closure it runs; `workerPanics` is the counter of that name.  `moved` and `ended`
are ghosts that count what `submit` was given and what returned, panicked or was
dropped unrun.

One critical section of the mutex is one action: `Submit` (which refuses after
shutdown), `Turn` (a worker tests shutdown and the lanes and waits, leaves or takes
the oldest job of the best lane), `BeginShutdown` (sets the flag and clears the lanes).
What the code does outside the lock is an action of its own, so everything can fall
between: `NotifyOne`, `Run`, `NotifyAll`, `Join`.  `WakeSpuriously` is the freedom
`std::sync::Condvar` documents.  The executor and the map are separate modules: the
map relies only on a submitted job running at most once at any later time, which is
what `StartJob` and `FinishJob` of `RegionStream` allow.

### Storage, FileStorage and the code

`Storage` is the trait's contract, with three facts per key: what `load` returns now, the
contents of which a power loss leaves one, and what the last successful call left.  A call
that returned Ok leaves one survivor; one that did not adds a survivor.

`FileStorage` keeps the disk and the process apart.  `dirs` and `file` are what a process
sees; `anchored` are the directories whose entry a barrier made durable, `kept` the contents
of a file a power loss may leave.  `knownDirs` and `pendingSync` are the fields of the
instance; `call`, `pc` and `temp` are where a call is.  One action is one method of
`FileOps` that succeeds, with the code up to the next one:

| code | actions |
|---|---|
| `open_with_ops` | `OpenStore` (nearest existing directory, its barrier), then the directories, then `Opened` |
| `durable_create_dir_all` | `MakeDir` (`create_dir`), `AnchorDir` (the barrier, or trust), walking from the deepest known directory down |
| `store` | `BeginStore`, the directories, `CreateTemp`, `WriteTemp`, `SyncTemp`, `Rename`, `Stored` (the last barrier) |
| `remove` | `Unlink`, `Removed` (barrier of the nearest existing directory) |

`Fail` is any operation that fails: the call returns its error, and what was done stays.
`Kill` ends the process anywhere, `PowerLoss` also forgets: each entry without a barrier and
each file name may or may not have reached the medium, and a file whose bytes were not
synchronized may come back torn.  Temp files are hidden from listing, so only the bytes of
the current one matter, and their cleanup is left out; so are collisions of their names.
One process at a time uses the store, and no one else changes its tree.

### Vault, AtlasExchange and the code

`mem` is the vault's maps under one roof: a key is a record id, a chunk of the discovered
regions, the session or the header.  `dirty`, `issues` and `sequence` are the fields of those
names.  A record is reduced to what `mutable_rank` and the merge read: its sequence number, the
hash of its text and its traversal count; its immutable body is its id.  The backend is module
`Storage`: `Stored` for a call that returned Ok, `Landed` for one that failed or was cut short
and took effect all the same.

| code | action |
|---|---|
| `record_discovery`, `record_route`, `record_preserve` | `Record`: next number, merge into the copy there is, queue record and header |
| `snapshot_session`, `bump_route_usage`, `mark_seen` | `SnapshotSession`, `BumpRouteUsage`, `MarkSeen` |
| `remove_route`, `remove_preserve` | `Remove`, `RemoveFails`: backend first, memory after success |
| `import` | `Import`: honest records join, the counter catches up, the rest are reported |
| `flush` | `FlushKey` and `FlushFails`, one key each, in `DirtyKey`'s order; a budget may end the call after any of them |
| `open` | `Open`: the counter heals to the highest number of the store |
| the process or the power | `Crash`, `PowerLoss` |

`issued`, `removed`, `doubtful`, `failing` and `highest` are history: what this run numbered,
which removals were reported, which failed and may have landed, what failed to be stored since
it was last tried, and the highest number made durable.  Decoding is modelled by its outcome: a
record of a bundle is honest or is reported.  After a crash between a write that landed and its
barrier, the reopened vault takes the record for clean although the medium may still lose it;
`AcknowledgedSurvives` therefore speaks only of what a call has reported.  A removal that took effect and
then failed leaves a record in memory that nothing writes again: `DirtyCoversDisk` allows that one
difference (`doubtful`) and no other, neither a record that memory has forgotten nor an older copy;
`DataPrecedesHeader` and `AcknowledgedSurvives` leave such keys out until they are stored or
removed again.

`AtlasExchange` has several such vaults without their disks; its actions are `RecordAt`, `BumpUsage`, `RemoveAt`,
`Export` and `ImportAt`.  A bundle, once exported, exists for
ever and may be imported anywhere, any number of times, in any order.  `known` is a ghost: the
edits a shelf descends from.

### PovChunks and the code

A frame is `BeginSync`, `Receive` for each mesh the first drain of `PovChunkManager::sync` takes from
the channel, `Schedule` (walk the window, submit, cancel), `Receive` again for the second drain,
`Collect`, `Integrate` and `DropSuperseded` for each pending mesh, and `Publish` (eviction, `Pov::apply`, `PovOrganismManager::sync`, `PovHoverCache::update`).  Workers
are `StartJob`, `FinishJob` and `AbandonJob`; they step between the parts of a frame.  The world
changes between frames: `ChangeTiles`, `MoveCamera`, `ChangeOrganism`, `LeavePov`, `EnterPov` and
`LoseDevice`.

A mesh is its provenance key.  An organism stands where the chunk of its region is, so its visual
key is region and ground; its reach is approximated by the window.  The pointer rests in the middle
of the pane, over the region of the camera.  Tokens are numbered per region and bounded by
`MaxJobs`.  What the meshes look like, ray casting, camera movement and the script driver are left
out.

### ViewerController and the code

`actions`, `inputs` and `effects` are the three queues of the controller and the shell;
`pending` is the request table.  A frame is `BeginFrame` (`recover_lost_renderer`, its
notifications), `Drain` for each input, one action of the model for each queued action, `Update`
(camera, movement, recorder), one `Serve...` per effect and `EndFrame`.  Between frames input is
queued (`EnqueueAction`) and the device may be lost (`LoseDevice`).

The vault is the records the controller can tell apart: preserves, routes and one session.  The
traveler moves along a line.  The recorder is complete: spacing, accumulated length, the node
limit, samples in regions that are not resident.  `walked` is a ghost.  The initial state is the one
after the first frames.  Left out: anchors and discoveries, the tracker of route legs and usage,
bias, map preferences, warnings, panels.  The branches of `Drain` that reject an answer are
unreachable: `EveryRequestIsAnswered` shows that.

Three behaviours of that left-out part were met while reading and are not modelled: an answer
about a discovery is attached to whatever expedition is open when it arrives; legs are restored for
routes that were removed, and across switches of path tracking; and two summons in one frame are
both carried out.

### WebShell, InputMapper and the code

A browser has one thread: a DOM handler is one step, and so is a frame (`viewerFrame` around
`WebApp::frame`).  What is interleaved are the events, the frames, and what happens to the device.

| code | definitions |
|---|---|
| `keys.js`, the `focus` and `blur` listeners of canvas and window | `KeyDown`, `KeyRepeat`, `KeyUp`; `FocusElement`; `WindowBlur`, `WindowFocus` |
| the canvas's pointer listeners | `Press`, `Release`, `Move`, `ReleaseElsewhere`, `Cancel`, `LoseCapture`, `Leave`, `Wheel` |
| the page's controls, its size | `Dispatch`, `Resize` |
| `renderer_ready`, `renderer_failed`, the device-lost callback, the surface | `RendererReady`, `RendererFailed`, `LoseDevice`, `ChangeSurface` |
| `preview_layout`, which routes events by what is still queued | `Preview` |
| `WebApp::frame`: tick, upload, present | `Attempt` (what one frame tries), `TickDirty`, `MapDirty`, `Draw`, `Frame` |
| `viewerFrame`: failures, `syncViewMode`, whether to ask again | `Failing`, `GivesUp`, `NextStage`, `Refocuses`, `scheduled'` in `Frame` |

`scheduled` is `viewerFrameHandle`, `dirty` the driver's flag of that name; `stage` says which
canvas is visible, `cpuShows` and `gpuShows` which version of the map each holds.  `content` is the
version there is; it changes with movement, zoom and streaming, which goes on for `MaxWork` frames after a move.
`windowFocused`, `element`, `keysDown`, `buttons` and `surface` are the world outside.  One button is
distinguished, Primary: the first button to go down is a `pointerdown` and the last to come up a
`pointerup`, between them buttons are `pointermove`s, as the DOM has it.

The mapper is a value and its operators return what they queue, because both shells embed it.
Left out: pointer positions, bindings other than Tab and W, panels, storage in IndexedDB (the session
service always refuses, as the driver does), the worker probe, the benchmark, the tiles of the atlas, and the
fallback of `prepare_render` to the CPU for a channel the GPU path does not support.  `TickDirty` takes any
change of the world or its presentation for a reason to redraw, a little more than `output.dirty.map` does.
Two assumptions about the browser: a focused page gets the `keyup` of a key it saw going down (a
system that swallows them under Meta breaks `HeldIsDown`), and a lost device is noticed in the next
frame only, so over an idle map it is noticed when something else asks for a frame.  Met while
reading and kept as they are: the focus moves with a canvas swap and clears what is held, and
the key's repeat holds it again.

### Loom and the code

`Plan` is `probe_with_execution` and the selection of a mode; `Update` is the host's `update` with
`advance`.  The solver is there as it is: the lowering of interactions with holds, the tempered
control, `adjust` from the lowest atom, the two projections and the dual dynamic program of both
laws, whose rows are `Best`; sums (`Upto`), wishes and rows are recursive functions.  One level of the state is active; which mode is the default is left open; packet codecs,
certificates, planet topology, face realization and transition documents are left out.  With several
levels `restore_total` may move material from one to another; nothing here speaks of that.

### Bounds

Bounds of the model and nothing else: `MaxOps` (steps in which the environment
changes something: an argument of `update`, a host call, a panic, a frame in which
travel moves a region), `MaxRevision`, and `WorkerPoints` (passes during which
workers may step) for the map; `MaxFaults` (failing calls and crashes), `MaxSequence` and
`MaxUsage` for the vault, where the last two are the maxima of their integer types, made small so
that the run meets them; `MaxBundles` for the exchange; `MaxChanges` and `MaxJobs` for the chunks;
`MaxCommands`, `MaxLosses` and `MaxFaults` for the viewer; `MaxEvents` and `MaxWork` for the web
shell, whose `FailureLimit` is 30 in the code and 1 in the run; `MaxTravel` for the loom.

## 3. Runs

Every cfg of the map fixes a strip of one or two regions, macro cells of two regions, and a
reduced layer table with the shape of the declared one (`MCTable`: a layer that
reads the halo, a macro layer, a layer that reads both), unless stated.

| run | question | what makes the case happen |
|---|---|---|
| `StreamDrift` | is a ready region canonical, are hashes honest, is nothing stale published, does the map implement `CanonicalTiles` and settle? | two neighbours, one restored off its target; a step of travel, steering or a panic; workers in every pass; no room for macro tiles, so each is trimmed as soon as no hydrology waits for it |
| `StreamHosts` | do preserves commute with loads, evictions, revisions and each other? | one region, two preserves with different signatures, three calls in any order |
| `Lanes` | is a wakeup or a job lost in some interleaving, does every submitted job end, does drop return? | three workers, two submitters, four jobs, panics, a shutdown at any point |
| `FileStore` | does the file protocol implement `Storage`, and are the directories above a record durable? | two records of one namespace; a root that exists or lies two directories below one that does; failures, kills and power losses without limit |
| `FileStoreShallow` | the same for a root two levels below `.` or `/`: refuted, see below | nothing exists but the top |
| `Vault` | do memory, disk, header and counter agree, is what was acknowledged kept, does the queue drain? | a route, a chunk and the session; copies of a peer that are ahead, behind and dishonest; two failures or crashes; one diagnostic |
| `AtlasExchange` | do vaults that met the same edits hold the same records? | three vaults, one id, two texts, two bundles |
| `PovRow` | is what is drawn resident, does what stands and is picked lie on it, does a window that is not crowded out settle? | two regions seen through a window of one, two jobs per region, three changes |
| `PovGhosts` | is only what is resident drawn?  Refuted, see below | the native window with its real limits |
| `Viewer` | are requests, map, vault, expedition, layout and device in step? | three actions of any kind, two moves of the camera, a failing service, a lost device |
| `Web` | does the frame loop sleep only over a finished picture, does it sleep, is what is held down? | four events of any kind, frames and the device between them, surfaces that fail, one pointer with its primary button |
| `Loom` | is a route optimal, is travel accounted, does cadence matter? | four atoms, six intents, births and deaths cheaper than a long move |

The bounds are enough in this sense.  In the map, a violation needs a dispatch, one change of
what the dispatch folded, and the landing of the result; two regions give a halo and a shared macro
cell, and three layers give an input, a shared input and a consumer.  In the vault, it needs an edit,
a call that lands or not, a crash and what is there afterwards, and a second failure after the first;
with two numbers the counter reaches its limit.  In the exchange, three vaults give a detour, two
bundles a race.  In the chunks, three changes are enough for a key to change and change back while
a job runs, with one more change besides.  In the viewer, three actions, one loss and one failure fall
into the same or different frames in every way.  In the web shell, a stuck key needs a press, a
change of focus or canvas, and a release elsewhere; a sleeping loop needs a change and one failure to
present; two failures in a row pass the limit.  In the loom, the measures are small but the
program is the real one, and the primal it is compared with is computed from scratch.

The algorithms of `LayerGraph` have no run of their own: `LayerGraphFacts` states that the closures
are the least ones and cover the keys, and that the dirty mask of a domain is exact, for the declared
table and all 2048 tables of four layers and two domains with ascending ids.  TLC evaluates these assumptions at the start
of `StreamDrift` and `StreamHosts`; section 4 has the proof for every table.

Constants beside those bounds are the code's own where they matter: `PovGhosts`, `PovRing` use the
native radius 3, a slack of 8 chunks, four uploads per frame and regions of 256 units; the loom uses a
birth that costs 1 against a chain of length 3.

`FileStore` has no bound: its state is finite as it is.  Two keys in a namespace let the
barrier of one reach the other, and two directories to make let an open stop between them.

`FileStoreShallow` is expected to fail.  The module documentation of `filestore.rs` says "A
successful write has durably created its ancestors" (lines 11-12).  `open_with_ops` skips the
barrier of the nearest existing directory if that directory is not the root and lies directly
below `.` or `/`.  A first open of `./inner/root` that makes `inner` and is interrupted before
the barrier leaves `inner` visible and not durable; the next open trusts it, and stores return
Ok above a directory entry that nothing ever synchronized.

`PovGhosts` is expected to fail.  Where a chunk is evicted, `pov-host/src/lib.rs` promises that "the handle
returns the buffer to the pool" (lines 2134-2135).  When one `sync` integrates a chunk and evicts it
again, the handle is in both lists; `Pov::apply` (`renderer/src/pov.rs` 1903) runs the removals first,
where the handle is still unknown, and then the upload.  The buffer is drawn from then on, and nobody
names its handle again.  `ResidentIsDrawn` holds: nothing that ought to be drawn is missing, and no
two chunks share a buffer.

Deadlock is checked in the runs of the map, where a frame can always begin, in the
runs of `FileStorage`, where a store can always be opened, in those of `PovChunks`, and in `Viewer`, where
a frame always ends.  `Lanes` does not check it: an executor that was dropped has stopped, which
`DroppedIsQuiet` and `DropReturns` are about.  `Vault`, `AtlasExchange` and `Loom` stop where a bound
does, and `Web` where its bound does and the page sleeps.

Each property is also run against a *seeded fault*: an operator whose comment
starts with `Fault:` stands before the definition it would replace
(`PROJECT.json`, `mutants`), and TLC finds the property violated with it.

### Fairness

`Settles` needs three things of the world around the map (`Fairness`): passes of a
frame end, which holds because `update` is a loop over finite collections; the
host calls `update` again, which its frame loop does; and some job proceeds as long
as there is one, which holds because a worker loop sleeps only on empty lanes and a
job is a terminating pure function.  Nothing is assumed of which job goes first and
nothing of panics.  `StreamDrift` gives the macro cache no room (`MaxMacros = 0`, as the repository's
`zero_macro_target_recovers_hydrology_chain_to_roomy_fixed_point` does), so that a macro tile lives only
while hydrology waits for it: were it trimmed before the hydrology is dispatched, it would be generated
again for ever.  Inputs that change for ever would keep a map from settling, so
the claim is about a map whose inputs rest; `MaxOps` makes them rest.

`LaneExecutor` assumes that threads are scheduled (weak fairness of a worker's turn, of a
submitter past its push, of the owner in drop) and that a job returns or panics.  It does
not assume that anybody submits, that the owner drops, or that a waiter wakes without a
notification: a lost wakeup would therefore show.

`Drains` assumes that a closed store is opened again and that the shell goes on calling `flush`, which the
native frame loop does in every frame.  It assumes nothing of the backend but that failures end,
and claims nothing while the user goes on editing.

`Settles` of `PovChunks` assumes that frames go on while the view is shown, which the native
redraw chain sees to (`main.rs` 2563), and that the executor runs what was submitted, which
`SubmittedEnds` shows of the native one.  It claims nothing of a view that is hidden again and again, and
nothing of a window that stays crowded out (`HasRoom`): when `Capacity` residents are nearer than a region
of the window, which with the limits of the native shell takes residents outside the window that are nearer
than one of its corners, eviction takes that region every time it arrives and the view never settles
(`PovRing` below).  In `PovRow` the hypothesis always holds, because the camera's own region is the nearest; what the
run puts to the test is what was under way when the world came to rest.  `PovWindow.cfg`, kept beside the
runs, checks `Settles` over a window of nine and the code's slack of 8, with meshes inline, while the camera
walks past more regions than stay resident: chunks are evicted in mid-walk, and there too the hypothesis
holds.  A crowded window is not checked for liveness: each remesh of what was evicted takes a new
handle, so its states are not finite.

`Sleeps` assumes that a browser calls back for the animation frame it was asked for, and nothing of
users, devices or surfaces.

`AtlasExchange`, `ViewerController` and `Loom` have no liveness: nobody owes a bundle, an action or a
segment of travel.

### Observations

Five more configurations are kept beside the runs.  Each states something a comment says, and TLC shows a
behaviour in which it does not hold.

* `VaultDiagnostic` (`FailureIsActive`).  `active_persistence_issue` is documented as "The one active
  persistence diagnostic, if a retryable mutation is currently failing" (`vault.rs` 744-745).  One entry
  stands for all failing mutations: a flush fails on a route, a removal of a preserve fails and replaces
  the entry (548), the removal is tried again with success and clears it (889).  The route is still dirty,
  its store has failed since it was last tried, and no diagnostic is active until a flush tries it again.
* `VaultCounter` (`CounterIsMonotonic`).  `StoreMeta.sequence` is documented as a store-local monotonic
  counter that readers heal from the records (`record.rs` 983-986).  A record that was flushed and then
  removed before the header followed leaves no trace of its number: after a crash the counter heals to a
  lower value and the number is handed out again.  `EditShows`, which is what the number is for, holds.
* `PovRing` (`IdleHasSettled`).  `is_idle` is documented as "Whether nothing is in flight or awaiting
  integration — with an inline executor, repeated `sync` calls until `idle` fully settle the ring"
  (`pov-host/src/lib.rs` 1877-1879).  Eviction takes the farthest chunk over capacity without sparing the
  window (2136-2147): with the native radius and a camera that has walked two regions along a row, the
  chunks it left are nearer than a corner of the window, so the corner is evicted in the frame that
  integrates it, and `sync` reports idle with a hole in the window.
* `PovFlap` (`CurrentStays`).  `chunk_provenance` promises "Steady state: same tiles and same halo => same key
  => zero remesh traffic" (1692-1694).  When a key changes and changes back before the job of the change
  ends, the walk passes over the region (2036) with the job still in flight; its mesh replaces the current
  chunk, is drawn for at least a frame, and the region is meshed once more.  `Settles` shows that it ends.
* `WebChord` (`HeldIsDown` with two buttons).  `app.js` 559-561 releases a captured pointer "so drag state
  always clears", and `docs/plans/prototype/native-web-alignment.md` 42-43 has "POV look occurs only while
  the primary mouse button is held".  With both buttons down the release of the primary one is a
  `pointermove`, and the `pointerup` that comes last carries the other button, which the mapper ignores
  (`input.rs` 1148); the drag stays, and the view turns with the bare pointer.  With one button `HeldIsDown` holds,
  which is what `Web` checks.

## 4. Proofs

All theorems hold for every geometry, table, budget, number of workers and schedule that
satisfy the named assumptions of the module.

### The streaming map

`TypeCorrect` (`RegionStreamProofs`) is inductive as it stands: one lemma per action, and
lemmas about keys, hashes and `Invalidate` for what several actions share.

The second half of the module proves the properties the runs check of what readers see.  None of them
is inductive alone, and they need each other; the invariant is

    IInv == TypeOK /\ ProvenanceHonest /\ TodoIsActive
            /\ ActiveIsResident /\ StaleIsScheduled /\ ReadyIsClean
            /\ ParkedOwnsNothing /\ InFlightIsCurrent

* `ReadyIsCanonical` follows: a `Ready` region has no dirty layer and no dispatch
  (`ReadyIsClean`), so nothing in it is stale (`StaleIsScheduled`), so each tile's hash is
  the key of now, and its content is what the hash says (`ProvenanceHonest`).
* `StaleIsScheduled` needs that an invalidation marks every layer whose key the change
  reaches.  `HashFrame` says when a key stands (the facts it folds stand) and
  `LayerAssumption` that the closures name every other key.  Parked regions are not
  marked, so an admission has to start from nothing: `ParkedOwnsNothing`.
* `ProvenanceHonest` needs that a job copies only fresh inputs (`InputsFresh`), by the
  hash it puts into the job; which is the scan's own order of layers.
* `InFlightIsCurrent` needs that whatever changes a key also retires its dispatch; it is
  why `RejectResult` is unreachable for a successful result.
* `TodoIsActive` says that no region is parked between the start of a dispatch pass and
  its scan: the pass may publish `Ready` for regions of `todo` without a second look.

The proof that a step keeps `IInv` has one lemma per action for the tiles and one for
provenance.  `PublicationsAreCurrent` is an action property from the same invariant.
`MapImplementsCanonicalTiles` is the refinement: under `IInv` a `Ready` region shows
`ExpectedTiles`, a step that changes a key leaves no region it reaches `Ready`, and a step
that makes a region `Ready` shows the key of the new state.

`LowestPreserveOwns` is inductive once said with `effective_preserve`'s own choice
(`WinnerHolds`): a reconciliation snaps exactly when the winner's signature changes, a load
takes the winner's signature, an eviction removes the region, convergence leaves preserved
regions out.  `PinnedRegionsStandStill` needs types only.

### The layer graph

`LegalTable` is the one rule of the declarations: ids are dense and inputs have lower ones (and drainage reads terrain).
`OnePassIsTheClosure` says that under it one ascending pass is enough: after layer i the pass adds
only layers from i on (`PassGrows`), so when a layer is visited all its inputs that will ever be in are in.
`KeyLayersFollow` says that the recursion of the keys ends; it builds the function layer by layer.  `ClosuresReachTheKeys`
looks at the lowest layer that would violate it, and `MasksAreExact` follows.  These are the facts that TLC evaluates
on the declared table and on all small ones; here they are shown for every table, and `GraphFitsTheMap` gives them to the map.

### The executor

`WakeupsKept` strengthens `NoLostWakeup` by types and by the fact that shutdown leaves no
job queued: while a worker sleeps, the
queued jobs are at most the workers at the lock plus the notifications to be sent.  A push
adds one to each side; a notification moves one worker over; a worker that takes a job
subtracts one from each; and a worker goes to sleep only on empty lanes.  The argument is
about cardinalities of finite sets.  `DropLeavesNothing` carries, besides, that after
shutdown the lanes are empty and that every job that was moved has ended, is queued or is
held by a running worker.

### The file store

`FileStorageTypes` holds as it stands.  The other two have the hypothesis `FirstLevelExists`:
the directories directly below the top exist durably before the store.  `FileStoreShallow`
shows why it is needed, and it makes precise when the promise of the documentation is kept.
The invariant has three parts.  `TreeInv`: a directory is made only below directories that
are durable.  `KnownInv`: the path of a known directory is durable, and an open meets no
directory below its baseline that it did not make itself, so it has a barrier pending.
`FileInv`: no file is torn, and there is no file below a directory that could be lost.
`AncestorsStay` follows.  For `FilesKeepTheContract`, `FileInv` makes the survivors of a key
exactly what is kept of it; a barrier is then a `Settled` or a `Stored` step, `Rename` and
`Unlink` are `Landed` steps, everything else up to `PowerLoss` stutters.

### Records and their exchange (`VaultProofs`)

`JoinIsASemilattice`: rank is a total order of (sequence, text), a count is a maximum, and a product of
such maxima is a join.  For `AtlasExchange` the invariant says of every shelf and of every bundle that the
copy *descends* from its edits: it is above all of them, and each of its fields comes from one of them.
That determines the copy (`DescendsUnique`), so equal edits mean equal records; it is kept by a join
(`DescendsJoin`); and it is `NothingForgotten` once more.  Beside it the counter is at least as high as
every edit in the shelf, which gives `EditPrevails`.  That the counter's maximum exists is
`GreatestExists`, from the well-foundedness of finite subsets.

### The vault

The invariant of `VaultProofs` has two halves.  `DiskInv` holds also while the vault is closed: the header
that loads is the newest that may survive (`NewestLoads`), survivors retain what was acknowledged and
nothing of what was removed survives.  `MemInv` relates an open vault to the disk: the
counter leads every entry of memory and every header on disk (`CounterLeads`); what this run numbered is in
memory, and on disk unless it waits (`IssuedKept`); clean entries are the disk's; memory retains what
was acknowledged and holds nothing that was removed.

* `DataPrecedesHeader` needs `IssuedKept` and the order of the queue: when the header's turn comes nothing
  else is dirty (`HeaderIsLast`), so everything numbered so far is on disk.
* `AcknowledgedSurvives` needs both halves: a write that lands puts memory's entry beside the survivors, so
  memory must retain what was acknowledged before; `Open` takes what survived into memory, so
  the survivors must.  That retention is transitive comes from the merge lemmas.
* `NoResurrection` holds because no write is ever under way for a key whose removal was reported: `Remove`
  takes the key out of the queue.
* `EditShows` is `CounterLeads`, after `HealedLeads` for opening and `CaughtUpLeads` for an import.

The steps of memory are all instances of one (`MemoryStep`: entries only grow, what changes is queued, a new
number is beyond the counter), so the invariant is shown once for them; the steps of the disk have a lemma each.

### The web shell

`KeyInv` is what makes a lost `keyup` harmless: the surface has the focus only while the page and the canvas
have it, a key is held only under that focus, and each way of losing it lets go of every key.  `DragInv` adds that a drag
belongs to a captured pointer, so that its release comes to the canvas wherever it happens; that the
release is heard as one needs `OneButton` (`NothingStaysHeld`), and `WebChord` is the behaviour without it.

`SleepsWhenDone` is that a page which asks for no frame owes none.  Its invariant `ShownInv` has four parts:

* `QuietInv`: while no frame is asked for, the mapper is calm, the queues are empty and nothing is pending.
* `QueueInv`: what a queue holds is of the kinds the handlers put there.
* `PendingInv`: `pending` counts the requests among the queued answers.  A tick drops one for each
  answer it drains and adds one for each effect it refuses.
* `CpuInv`: while the map alone is shown by the processor, without a device that could, nothing forces a
  present and the size stands, the visible canvas holds the map of now.

The step that needs all four is `Frame`: a frame that asks for no other had a tick that was not dirty
(`QuietTickStands`), so no action of its queue changed the layout or the map.  That the fold over the queue then returns
the layout it started from is shown by the least number at which it would not (`LeastExists`,
`StandingEndsThere`), since induction itself is out of reach; so the canvas that is visible afterwards is the one that
was visible before (`FrameKeepsShown`).

### The chunks

`ChunkInv` has four parts: handles were given out in order (`HandlesAreNumbered`) and name one chunk each
(`HandlesAreUnique`); an upload of this frame is that of the chunk that now carries its handle (`UploadsMatch`);
and every resident chunk is in a buffer, or in an upload that will reach one (`ChunksAreCarried`).
`ResidentChunksAreDrawn` follows where the frame ends, when no upload is left.  Removal before upload, which lets `PovGhosts` find a
buffer of nobody, does no harm here: a removed handle is never the handle of a chunk.  An inline
executor answers in the order of the walk; that this order is one, `EveryRankIsTaken` shows of every strict order.
`ViewInv` says that whatever stands was grounded on the chunk of the last publication, and that the pointer
remembers the answer for the key it was asked with; `DrawnOrganismsStand` and `HoverStaysFresh` follow from it with `ChunkInv`.

### The viewer

Between two frames the queues hold decisions whose reasons are gone, so the invariants say what every queue entry
still means:

* `Answering` is for the requests: numbers grow along the queue of inputs (`Sequenced`); an effect or an answer that carries
  a pending request is of its kind, no request is carried twice, and every pending one is carried (`Answerable`).  That is
  `EveryRequestIsAnswered`, and that no drained answer is ever out of order or of the wrong kind.
* `MapMirrorsVault` replays the queued answers over the map's contributions and says that the result is what the vault holds.
  It is inductive beside `Answering`: serving an effect changes the vault and appends the answer that repeats it.
* `Backed` replays the inputs over the layout: once they are drained POV is available exactly if there is a device
  whose recovery is announced, and the layout is never one that needs more than there is.
  `PovNeedsADevice` follows, and `PreviewIsWhatIsShown` from it with the replay of the queued actions.
* `Travelled`: every node of an expedition, of a session that carries one and of a route, in the recorder, in the
  vault or in a queue, is a place of its `walked`; and so is the way from its last node to the traveler.

`CameraIsTraveler` is part of the types: every step that moves one moves both.  The replays are recursive functions.  The lemmas
about them (what one more entry adds, what taking the first one leaves) look at the least length at which two replays
would differ, or at which one would not exist; that there is a least one comes from the well-foundedness of finite subsets.

### The loom

What is hard here is not the host but its solver, a dynamic program over potentials.  `TransportCostIs` says that it
attains what `PrimalCost` defines without it: the cheapest way of moving one measure into the other.  For both laws
one direction is weak duality (`WeakDuality`): along the chain, whatever a plan moves or varies pays for the potential it
gains, since neighbouring potentials differ by at most one and none is above the cost of birth and death.  The other
direction needs a plan that pays no more.

* Material, whose first potential is held at zero: `MaterialDuality`.  The plan that carries every surplus on is the only
  one that leaves nothing; the potentials that follow the signs of its carries are `Atoms - 1` at most, so the program tries them.
* Traits, which may also be born and die: `TraitDuality`.  The value of the program after each atom is concave in the last
  potential (`EasedConcave`), its slopes are bounded by the masses met so far (`EasedSloped`), and a supporting
  slope is a carry: `EasedSupport` and `EdgeSupport` take it apart into what went on before and what is born or dies at an
  end of the range, where the slope may exceed what the chain carries.  `AllAttained` does so atom after atom.

The second half is about the projection.  `TakenIs`, `FillIs` and `DrainIs` say that `adjust` hands out what it is given, all of it
and nothing beyond the masses; so `EndpointIs` a packet of the same inventory, whatever was wished for, and
`ProbeResolves` whatever the vocabulary.  `ModesAreExact` puts the two halves together.

The invariant `Inv` is that the host holds a packet, that a selected route is exact for that packet and for no
other, and that travel is what was spent and what is credit.  It is inductive because a commit keeps a route only if it leads
where the host already is, and such a route has no length: the cost of no change is zero, and the trait law does not change.
`CadenceDoesNotMatter` needs the same: only after a commit of no length is there a route for the second segment to take.

Sums, wishes and the program itself are recursive functions over an interval.  `Everyone` (what holds of the first
number and is handed on holds of all) and `RecursionExists` (such a function exists) are proved here from the
well-foundedness of finite subsets, since the library's induction theorems take an operator.

### Assumptions

`TreeAssumption` says that `Parent` and `Path` describe a tree, and that namespaces are
directories directly below the root, as the vault's keys make them.  The assumptions on constants are what the code guarantees of its tables and its geometry.
`LayerAssumption` is the interface to `LayerGraph`: the closures contain every layer whose
key a change can reach.  `GraphFitsTheMap` shows it of every legal table, and `DeclaredTableIsLegal` that
the declared one is legal.  `PreserveAssumption` is the order of preserve ids.  `ThreadAssumption` is
that threads are finitely many.

`ViewerAssumption` and `WebAssumption` give the constants their sets and bounds.  `GeometryAssumption` and
`LimitsAssumption` say that windows are finite sets of regions, that limits are numbers, and that `None` is not a chunk.
`KeysAreDistinct` is that the namespaces of the vault are disjoint, `BundlesOfferRecords` that a decoded bundle
holds records, `TextsAreRanked` that content hashes are ordered.  `LoomAssumption` gives the loom its masses and costs as
numbers and its intents as finite sets of interactions; hosts start with a packet (`StatePacket::normalize`).

### Model-checked only

* Liveness: `Settles` of the map and of the chunks, `SubmittedEnds`, `DropReturns`, `Drains`, `Sleeps`: fairness and
  ENABLED are beyond the provers used here.

Every other invariant and action property of a passing run is a theorem.  The type invariants of `RegionStream`,
`LaneExecutor`, `FileStorage`, `PovChunks` and `Loom` are theorems; those of `Vault`, `AtlasExchange` and `ViewerController`
are part of their invariants; those of the other modules state the types for the reader and were checked on the instances of
their runs, and the proofs state the parts they need.

## 5. Not modelled

* Organism realization, resonance and the roster cache; buffer pools and telemetry.
* The numeric kernels (generators, ecology, possibility field, meshing, ray casting): pure functions whose
  results are constants or keys here.
* Byte codecs of records and packets, and the migration of version 1 records.
* The renderer but for the buffers of chunks and organisms; windows, panels, the web shell's storage,
  benchmark and worker probe, and the decoding of keys other than those the mapper tells apart.
* Of the viewer: anchors, discoveries, route legs and their usage, bias and preferences.
* Of the loom: certificates, planet topology, face realization and transition documents.

`PROJECT.json`, `components`, has the list with the reason for each.

## 6. Plan

1. `RegionStream`, `LayerGraph`, `CanonicalTiles`, `LaneExecutor`, `Storage`, `FileStorage`; `Vault`, `AtlasMerge`,
   `AtlasExchange`; `PovChunks`, `ViewerController`, `InputMapper`, `WebShell`, `Loom`, with their theorems (here).
2. `MapUploads`: the raster map's texture uploads and their eviction beside `PovChunks`.
3. `Realization`: organism keys and the roster working set beside `RegionStream`.
4. Anchors, discoveries and route legs in `ViewerController`.
5. `Vault` over `FileStorage` in one module, so that the whole path from an edit to the medium is one behaviour.
