---------------------------- MODULE FileStorage ----------------------------
(***************************************************************************)
(* The native file-tree backend (tools/src/filestore.rs) over a file system *)
(* that forgets: directory entries and file bytes reach the medium only     *)
(* when they are synchronized, a file operation may fail, the process may   *)
(* be killed between any two of them, and the power may fail at any time.   *)
(*                                                                         *)
(* One action is one file operation and the code after it up to the next    *)
(* one.  A write goes through a hidden temp file that listing skips: of it  *)
(* only the state of the current one's bytes matters.                       *)
(***************************************************************************)

CONSTANTS
  Dirs,        \* directories on the paths to the keys
  Top,         \* "/" or ".", its own parent
  Parent,      \* [Dirs -> Dirs]: parent_or_dot
  Path,        \* [Dirs -> the directory and all directories above it]
  Root,        \* the root directory of the store
  Keys,
  DirOf,       \* [Keys -> Dirs]: the namespace directory of a key
  Values,      \* encoded records
  Absent,      \* no file
  Torn,        \* a file whose bytes are not the ones that were written
  Starts       \* the sets of directories that may exist, durably, at the beginning

ASSUME TreeAssumption ==
  /\ Top \in Dirs /\ Root \in Dirs
  /\ Parent \in [Dirs -> Dirs] /\ Parent[Top] = Top
  /\ Path \in [Dirs -> SUBSET Dirs] /\ Path[Top] = {Top}
  /\ \A d \in Dirs \ {Top} : Path[d] = {d} \cup Path[Parent[d]] /\ d \notin Path[Parent[d]]
  /\ \A d \in Dirs : \A e \in Path[d] : Path[e] \subseteq Path[d]
  /\ DirOf \in [Keys -> Dirs] /\ \A k \in Keys : Parent[DirOf[k]] = Root
  /\ \A s \in Starts : s \subseteq Dirs /\ Top \in s /\ \A d \in s : Path[d] \subseteq s

ASSUME ContentAssumption == Absent \notin Values /\ Torn \notin Values /\ Absent # Torn

VARIABLES
  dirs,        \* directories a process can see
  anchored,    \* directories whose entry in their parent is durable
  file,        \* [Keys -> what a process reads there]
  kept,        \* [Keys -> contents of which a power loss leaves one, if the directory stays]
  knownDirs,   \* known_dirs
  pendingSync, \* pending_dir_sync
  pc,          \* "closed" (no instance), "ready", or the stage of the call
  call,        \* the call in progress
  temp,        \* bytes of the temp file: "none", "empty", "written", "synced"
  committed    \* [Keys -> what the last call on the key that returned Ok left] (history)

diskVars    == <<dirs, anchored, file, kept>>
processVars == <<knownDirs, pendingSync, pc, call, temp>>
vars        == <<diskVars, processVars, committed>>

Contents == Values \cup {Absent, Torn}

Open        == [op |-> "open"]
Store(k, v) == [op |-> "store", key |-> k, value |-> v]
Remove(k)   == [op |-> "remove", key |-> k]

\* nearest_existing_dir: the deepest directory above d, or d, that exists.
NearestExisting(a, d) ==
  /\ a \in Path[d] \cap dirs
  /\ \A b \in Path[d] \cap dirs : b \in Path[a]

Init ==
  /\ dirs \in Starts
  /\ anchored = dirs
  /\ file = [k \in Keys |-> Absent]
  /\ kept = [k \in Keys |-> {Absent}]
  /\ knownDirs = {} /\ pendingSync = {}
  /\ pc = "closed" /\ call = Open /\ temp = "none"
  /\ committed = [k \in Keys |-> Absent]

\* sync_dir succeeds: the entries of p are durable as a process sees them now.  It does
\* not write the bytes of the files in p.
SyncDir(p) ==
  /\ anchored' = anchored \cup {d \in dirs : Parent[d] = p}
  /\ kept' = [k \in Keys |-> IF DirOf[k] = p THEN {file[k]} \cup (kept[k] \cap {Torn})
                                             ELSE kept[k]]
  /\ UNCHANGED <<dirs, file>>

\* The instance is ready for the next call.
Return ==
  /\ pc' = "ready"
  /\ call' = Open
  /\ temp' = "none"

-----------------------------------------------------------------------------
(* open_with_ops, then durable_create_dir_all from the root.                *)

\* The parent of the nearest existing directory is synchronized unless that is deeper
\* than the top and is not the root itself.
BaselineNeedsSync(baseline) ==
  LET above == Parent[baseline]
  IN  above # baseline /\ (baseline = Root \/ Parent[above] # above)

OpenStore(baseline) ==
  /\ pc = "closed"
  /\ NearestExisting(baseline, Root)
  /\ pc' = "dirs"
  /\ call' = Open
  /\ knownDirs' = {baseline}
  /\ IF BaselineNeedsSync(baseline) THEN SyncDir(Parent[baseline]) ELSE UNCHANGED diskVars
  /\ UNCHANGED <<pendingSync, temp, committed>>

Opened ==
  /\ pc = "dirs" /\ call = Open
  /\ Root \in knownDirs
  /\ Return
  /\ UNCHANGED <<diskVars, knownDirs, pendingSync, committed>>

-----------------------------------------------------------------------------
(* durable_create_dir_all walks up to the nearest known directory and works *)
(* down again.                                                              *)

Target == IF call.op = "store" THEN DirOf[call.key] ELSE Root

\* Directories between the deepest known one and the target.
Unmade == {d \in Path[Target] : \A a \in Path[Target] \cap knownDirs : d \notin Path[a]}

AtDir(d) ==
  /\ pc = "dirs"
  /\ d \in Unmade
  /\ \A e \in Unmade : d \in Path[e]

\* Fault: a directory of an earlier process is trusted.
NeedsSyncPending(d) == d \in pendingSync

NeedsSync(d) == d \in pendingSync \/ (call.op = "store" /\ Parent[d] # d)

\* A directory that is there: the barrier, unless it is one to trust.
AnchorDir(d) ==
  /\ AtDir(d)
  /\ d \in dirs
  /\ IF NeedsSync(d) THEN SyncDir(Parent[d]) ELSE UNCHANGED diskVars
  /\ knownDirs' = knownDirs \cup {d}
  /\ pendingSync' = pendingSync \ {d}
  /\ UNCHANGED <<pc, call, temp, committed>>

\* create_dir; its barrier is the next step, and is still pending when that fails.
MakeDir(d) ==
  /\ AtDir(d)
  /\ d \notin dirs
  /\ dirs' = dirs \cup {d}
  /\ pendingSync' = pendingSync \cup {d}
  /\ UNCHANGED <<anchored, file, kept, knownDirs, pc, call, temp, committed>>

-----------------------------------------------------------------------------
(* store.                                                                   *)

BeginStore(k, v) ==
  /\ pc = "ready"
  /\ pc' = "dirs"
  /\ call' = Store(k, v)
  /\ UNCHANGED <<diskVars, knownDirs, pendingSync, temp, committed>>

CreateTemp ==
  /\ pc = "dirs" /\ call.op = "store"
  /\ Unmade = {}
  /\ pc' = "temp"
  /\ temp' = "empty"
  /\ UNCHANGED <<diskVars, knownDirs, pendingSync, call, committed>>

WriteTemp ==
  /\ pc = "temp" /\ temp = "empty"
  /\ temp' = "written"
  /\ UNCHANGED <<diskVars, knownDirs, pendingSync, pc, call, committed>>

SyncTemp ==
  /\ pc = "temp" /\ temp = "written"
  /\ temp' = "synced"
  /\ UNCHANGED <<diskVars, knownDirs, pendingSync, pc, call, committed>>

\* The name changes hands at once; a file that was not synchronized may keep its name
\* and lose its bytes.
Replace(k, v) ==
  /\ file' = [file EXCEPT ![k] = v]
  /\ kept' = [kept EXCEPT ![k] = @ \cup {v} \cup (IF temp = "synced" THEN {} ELSE {Torn})]
  /\ UNCHANGED <<dirs, anchored>>

\* Fault: the temp file is renamed before its bytes are synchronized.
RenameUnsynced ==
  /\ pc = "temp" /\ temp = "written"
  /\ Replace(call.key, call.value)
  /\ pc' = "barrier"
  /\ UNCHANGED <<knownDirs, pendingSync, call, temp, committed>>

Rename ==
  /\ pc = "temp" /\ temp = "synced"
  /\ Replace(call.key, call.value)
  /\ pc' = "barrier"
  /\ UNCHANGED <<knownDirs, pendingSync, call, temp, committed>>

\* The directory of the new name is synchronized, and store returns Ok.
Stored ==
  /\ pc = "barrier"
  /\ SyncDir(DirOf[call.key])
  /\ committed' = [committed EXCEPT ![call.key] = call.value]
  /\ Return
  /\ UNCHANGED <<knownDirs, pendingSync>>

-----------------------------------------------------------------------------
(* remove.                                                                  *)

\* remove_file succeeds, or finds nothing there.
Unlink(k) ==
  /\ pc = "ready"
  /\ pc' = "absence"
  /\ call' = Remove(k)
  /\ file' = [file EXCEPT ![k] = Absent]
  /\ kept' = [kept EXCEPT ![k] = @ \cup {Absent}]
  /\ UNCHANGED <<dirs, anchored, knownDirs, pendingSync, temp, committed>>

\* sync_nearest_existing_dir, and remove returns Ok.
Removed(nearest) ==
  /\ pc = "absence"
  /\ NearestExisting(nearest, DirOf[call.key])
  /\ SyncDir(nearest)
  /\ committed' = [committed EXCEPT ![call.key] = Absent]
  /\ Return
  /\ UNCHANGED <<knownDirs, pendingSync>>

-----------------------------------------------------------------------------
(* Failure.                                                                 *)

\* A file operation fails and the call returns its error; open returns no instance.
Fail ==
  /\ pc \notin {"closed", "ready"}
  /\ IF call = Open
     THEN pc' = "closed" /\ temp' = "none" /\ knownDirs' = {} /\ pendingSync' = {}
          /\ UNCHANGED call
     ELSE Return /\ UNCHANGED <<knownDirs, pendingSync>>
  /\ UNCHANGED <<diskVars, committed>>

\* The instance is dropped, or the process dies between two operations.
Exit ==
  /\ pc' = "closed" /\ call' = Open /\ temp' = "none"
  /\ knownDirs' = {} /\ pendingSync' = {}

Kill ==
  /\ pc # "closed"
  /\ Exit
  /\ UNCHANGED <<diskVars, committed>>

\* Of the entries that are not durable some (lucky) made it all the same.  A directory
\* stays with the entries on its path, and a file with its directory.
PowerLoss(lucky) ==
  /\ dirs' = {d \in dirs : Path[d] \subseteq anchored \cup lucky}
  /\ anchored' = dirs'
  /\ file' \in [Keys -> Contents]
  /\ \A k \in Keys : IF DirOf[k] \in dirs' THEN file'[k] \in kept[k] ELSE file'[k] = Absent
  /\ kept' = [k \in Keys |-> {file'[k]}]
  /\ Exit
  /\ UNCHANGED committed

-----------------------------------------------------------------------------

Next ==
  \/ \E d \in Dirs : OpenStore(d) \/ AnchorDir(d) \/ MakeDir(d) \/ Removed(d)
  \/ \E k \in Keys, v \in Values : BeginStore(k, v)
  \/ \E k \in Keys : Unlink(k)
  \/ Opened \/ CreateTemp \/ WriteTemp \/ SyncTemp \/ Rename \/ Stored
  \/ Fail \/ Kill
  \/ \E lucky \in SUBSET (dirs \ anchored) : PowerLoss(lucky)

Spec == Init /\ [][Next]_vars

-----------------------------------------------------------------------------
(* Properties.                                                              *)

TypeOK ==
  /\ dirs \subseteq Dirs /\ anchored \subseteq dirs
  /\ file \in [Keys -> Contents]
  /\ kept \in [Keys -> SUBSET Contents]
  /\ knownDirs \subseteq dirs /\ pendingSync \subseteq dirs
  /\ pc \in {"closed", "ready", "dirs", "temp", "barrier", "absence"}
  /\ call \in {Open} \cup {Store(k, v) : k \in Keys, v \in Values} \cup {Remove(k) : k \in Keys}
  /\ temp \in {"none", "empty", "written", "synced"}
  /\ committed \in [Keys -> Values \cup {Absent}]

\* A successful write has durably created its ancestors (the module documentation):
\* no power loss takes a directory above a record that store acknowledged.
AncestorsAreDurable ==
  \A k \in Keys : committed[k] # Absent => Path[DirOf[k]] \subseteq anchored

\* What a power loss may leave of a key.
Survivors(k) == IF Path[DirOf[k]] \subseteq anchored THEN kept[k] ELSE kept[k] \cup {Absent}

Contract == INSTANCE Storage WITH
  readable  <- file,
  survivors <- [k \in Keys |-> Survivors(k)]

\* store and remove keep the contract of the Storage trait through failing operations,
\* kills and power losses: whole values only, and what returned Ok stays.
ImplementsStorage == Contract!Spec
=============================================================================
