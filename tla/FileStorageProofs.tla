------------------------- MODULE FileStorageProofs -------------------------
(***************************************************************************)
(* FileStorage proved for every directory tree, every placement of the keys *)
(* and every set of values: its types without a condition, the durability   *)
(* of ancestors and the contract of the Storage trait where the directories *)
(* directly below the top are there before the store (FirstLevelExists).    *)
(***************************************************************************)
EXTENDS FileStorage, TLAPS

Stores  == {Store(k, v) : k \in Keys, v \in Values}
Removes == {Remove(k) : k \in Keys}

\* The call in progress is of the kind its stage belongs to.
CallFits ==
  /\ pc \in {"temp", "barrier"} => call \in Stores
  /\ pc = "absence" => call \in Removes
  /\ pc = "dirs" => call \in {Open} \cup Stores

TypeInv == TypeOK /\ CallFits

LEMMA CallKinds ==
  TypeOK => /\ call.op = "store" => call \in Stores
            /\ call \in Stores => call.op = "store" /\ call.key \in Keys /\ call.value \in Values
            /\ call \in Removes => call.op = "remove" /\ call.key \in Keys
            /\ call = Open => call.op = "open"
  BY DEF TypeOK, Stores, Removes, Store, Remove, Open

\* What a barrier leaves alone, and that it only adds to what is durable.
LEMMA Barrier ==
  ASSUME NEW p \in Dirs, TypeOK, SyncDir(p)
  PROVE  /\ dirs' = dirs /\ file' = file
         /\ anchored \subseteq anchored' /\ anchored' \subseteq dirs
         /\ kept' \in [Keys -> SUBSET Contents]
         /\ \A d \in dirs : Parent[d] = p => d \in anchored'
  BY DEF SyncDir, TypeOK, Contents

LEMMA TypeInvInductive ==
  ASSUME TypeInv, [Next]_vars
  PROVE  TypeInv'
<1> USE TreeAssumption DEF TypeInv, TypeOK, CallFits
<1>1. ASSUME NEW d \in Dirs, OpenStore(d) PROVE TypeInv'
  <2>1. Parent[d] \in Dirs /\ d \in dirs
    BY <1>1 DEF OpenStore, NearestExisting
  <2>2. CASE SyncDir(Parent[d])
    BY <1>1, <2>1, <2>2, Barrier DEF OpenStore
  <2>3. CASE UNCHANGED diskVars
    BY <1>1, <2>1, <2>3 DEF OpenStore, diskVars
  <2>4. QED
    BY <1>1, <2>2, <2>3 DEF OpenStore
<1>2. ASSUME NEW d \in Dirs, AnchorDir(d) PROVE TypeInv'
  <2>1. CASE SyncDir(Parent[d])
    BY <1>2, <2>1, Barrier DEF AnchorDir, AtDir
  <2>2. CASE UNCHANGED diskVars
    BY <1>2, <2>2 DEF AnchorDir, AtDir, diskVars
  <2>3. QED
    BY <1>2, <2>1, <2>2 DEF AnchorDir
<1>3. ASSUME NEW d \in Dirs, MakeDir(d) PROVE TypeInv'
  BY <1>3 DEF MakeDir, AtDir
<1>4. ASSUME NEW d \in Dirs, Removed(d) PROVE TypeInv'
  <2>1. call.key \in Keys
    BY <1>4, CallKinds DEF Removed
  <2>2. TypeOK'
    BY <1>4, <2>1, Barrier DEF Removed, Return
  <2>3. QED
    BY <1>4, <2>2 DEF Removed, Return
<1>5. ASSUME NEW k \in Keys, NEW v \in Values, BeginStore(k, v) PROVE TypeInv'
  BY <1>5 DEF BeginStore, diskVars, Stores
<1>6. ASSUME NEW k \in Keys, Unlink(k) PROVE TypeInv'
  BY <1>6 DEF Unlink, Contents, Removes
<1>7. CASE Opened
  BY <1>7 DEF Opened, Return, diskVars
<1>8. CASE CreateTemp
  BY <1>8, CallKinds DEF CreateTemp, diskVars
<1>9. CASE WriteTemp
  BY <1>9 DEF WriteTemp, diskVars
<1>10. CASE SyncTemp
  BY <1>10 DEF SyncTemp, diskVars
<1>11. CASE Rename
  <2>1. call \in Stores /\ call.key \in Keys /\ call.value \in Values
    BY <1>11, CallKinds DEF Rename
  <2>2. QED
    BY <1>11, <2>1 DEF Rename, Replace, Contents
<1>12. CASE Stored
  <2>1. call.key \in Keys /\ call.value \in Values
    BY <1>12, CallKinds DEF Stored
  <2>2. DirOf[call.key] \in Dirs
    BY <2>1
  <2>3. QED
    BY <1>12, <2>1, <2>2, Barrier DEF Stored, Return
<1>13. CASE Fail
  BY <1>13 DEF Fail, Return, diskVars
<1>14. CASE Kill
  BY <1>14 DEF Kill, Exit, diskVars
<1>15. ASSUME NEW lucky, PowerLoss(lucky) PROVE TypeInv'
  BY <1>15 DEF PowerLoss, Exit
<1>16. CASE UNCHANGED vars
  BY <1>16 DEF vars, diskVars, processVars
<1>17. QED
  BY <1>1, <1>2, <1>3, <1>4, <1>5, <1>6, <1>7, <1>8, <1>9, <1>10, <1>11, <1>12, <1>13, <1>14,
     <1>15, <1>16 DEF Next

LEMMA TypeInvHolds == Spec => []TypeInv
<1>1. Init => TypeInv
  BY TreeAssumption, ContentAssumption DEF Init, TypeInv, TypeOK, CallFits, Contents
<1>2. QED
  BY <1>1, TypeInvInductive, PTL DEF Spec

\* Every variable of the store and of the disk keeps its type (TypeOK), for every tree.
THEOREM FileStorageTypes == Spec => []TypeOK
  BY TypeInvHolds, PTL DEF TypeInv

-----------------------------------------------------------------------------
(* Durability.                                                              *)

\* The directories directly below "/" or "." that the store needs are there, durably,
\* before it.  Without this the run FileStoreShallow shows how open loses one.
FirstLevelExists == \A s \in Starts : \A d \in Dirs : Parent[d] = Top => d \in s

\* A directory is made only below directories whose entries are durable.
TreeInv ==
  /\ \A d \in Dirs : Parent[d] = Top => d \in anchored
  /\ \A d \in dirs : Path[Parent[d]] \subseteq anchored

\* What the instance knows is durable, and open meets no directory below the baseline
\* that it did not make itself.
KnownInv ==
  /\ \A a \in knownDirs : Path[a] \subseteq anchored
  /\ pc = "dirs" /\ call = Open => Unmade \cap dirs \subseteq pendingSync
  /\ pc \in {"temp", "barrier"} => Path[DirOf[call.key]] \subseteq anchored

\* No file is torn, and there is none in a directory that a power loss could take.
FileInv ==
  /\ \A k \in Keys : file[k] # Torn /\ Torn \notin kept[k]
  /\ \A k \in Keys : \/ Path[DirOf[k]] \subseteq anchored
                      \/ (file[k] = Absent /\ kept[k] = {Absent} /\ committed[k] = Absent)
  /\ pc = "barrier" => file[call.key] = call.value
  /\ pc = "absence" => file[call.key] = Absent

DurInv == TreeInv /\ KnownInv /\ FileInv

LEMMA Tree ==
  ASSUME NEW d \in Dirs
  PROVE  /\ d \in Path[d] /\ Path[d] \subseteq Dirs /\ Parent[d] \in Dirs
         /\ d # Top => Path[d] = {d} \cup Path[Parent[d]] /\ Parent[d] # d
         /\ \A e \in Path[d] : Path[e] \subseteq Path[d]
<1>1. CASE d = Top
  BY <1>1, TreeAssumption
<1>2. CASE d # Top
  <2>1. Path[d] = {d} \cup Path[Parent[d]] /\ d \notin Path[Parent[d]]
    BY <1>2, TreeAssumption
  <2>2. QED
    BY <2>1, TreeAssumption
<1>3. QED
  BY <1>1, <1>2

\* A directory that durable_create_dir_all is at has a known, so durable, path above it.
LEMMA AboveIsDurable ==
  ASSUME TypeOK, DurInv, NEW d \in Dirs, AtDir(d)
  PROVE  d # Top => Path[Parent[d]] \subseteq anchored
<1> SUFFICES ASSUME d # Top PROVE Path[Parent[d]] \subseteq anchored
  OBVIOUS
<1>1. Target \in Dirs
  BY TreeAssumption, CallKinds DEF Target, TypeOK
<1>2. d \in Path[Target] /\ Parent[d] \in Path[d] /\ d \notin Path[Parent[d]]
  BY Tree, TreeAssumption DEF AtDir, Unmade
<1>3. Parent[d] \in Path[Target]
  BY <1>1, <1>2, Tree
<1>4. Parent[d] \notin Unmade
  BY <1>2 DEF AtDir
<1>5. PICK a \in Path[Target] \cap knownDirs : Parent[d] \in Path[a]
  BY <1>3, <1>4 DEF Unmade
<1>6. a \in Dirs /\ Path[a] \subseteq anchored
  BY <1>5 DEF DurInv, KnownInv, TypeOK
<1>7. QED
  BY <1>5, <1>6, Tree

\* A step that only adds durable entries, and neither directories nor files.
LEMMA TreeGrows ==
  ASSUME TypeOK, TreeInv, dirs' = dirs, anchored \subseteq anchored'
  PROVE  TreeInv'
  BY DEF TreeInv

\* A barrier keeps what is known of the files.
LEMMA BarrierFiles ==
  ASSUME TypeOK, FileInv, NEW p \in Dirs, SyncDir(p), committed' = committed
  PROVE  /\ \A k \in Keys : file'[k] # Torn /\ Torn \notin kept'[k]
         /\ \A k \in Keys :
               \/ Path[DirOf[k]] \subseteq anchored'
               \/ (file'[k] = Absent /\ kept'[k] = {Absent} /\ committed'[k] = Absent)
<1>1. ASSUME NEW k \in Keys
      PROVE  kept'[k] = {file[k]} \/ kept'[k] = kept[k]
  BY <1>1 DEF SyncDir, FileInv
<1>2. QED
  BY <1>1, Barrier DEF FileInv

LEMMA DurInvInductive ==
  ASSUME TypeInv, TypeInv', DurInv, [Next]_vars
  PROVE  DurInv'
<1> USE DEF TypeInv, DurInv
<1>1. ASSUME NEW b \in Dirs, OpenStore(b) PROVE DurInv'
  <2>1. b \in dirs /\ b \in Path[Root] /\ Root \in Dirs /\ Parent[b] \in Dirs
    BY <1>1, TreeAssumption DEF OpenStore, NearestExisting
  <2>2. /\ dirs' = dirs /\ file' = file /\ anchored \subseteq anchored'
        /\ committed' = committed
    BY <1>1, <2>1, Barrier DEF OpenStore, diskVars, TypeOK
  <2>3. b \in anchored'
    <3>1. CASE BaselineNeedsSync(b)
      BY <1>1, <2>1, <3>1, Barrier DEF OpenStore
    <3>2. CASE ~BaselineNeedsSync(b)
      <4>1. Parent[b] = b \/ Parent[Parent[b]] = Parent[b]
        BY <3>2 DEF BaselineNeedsSync
      <4>2. Parent[b] = Top
        BY <4>1, <2>1, Tree, TreeAssumption
      <4>3. QED
        BY <4>2, <2>2 DEF TreeInv
    <3>3. QED
      BY <3>1, <3>2
  <2>4. Path[b] \subseteq anchored'
    BY <2>1, <2>2, <2>3, Tree, TreeAssumption DEF TreeInv
  <2>5. TreeInv'
    BY <2>2, TreeGrows
  <2>6. Unmade' \cap dirs' \subseteq {}
    <3>1. Unmade' = {d \in Path[Root] : \A a \in Path[Root] \cap {b} : d \notin Path[a]}
      BY <1>1 DEF OpenStore, Unmade, Target, Open
    <3>2. QED
      BY <1>1, <2>1, <2>2, <3>1 DEF OpenStore, NearestExisting
  <2>7. KnownInv'
    BY <1>1, <2>4, <2>6 DEF OpenStore, KnownInv
  <2>8. FileInv'
    <3>1. CASE SyncDir(Parent[b])
      BY <1>1, <2>1, <2>2, <3>1, BarrierFiles DEF OpenStore, FileInv
    <3>2. CASE UNCHANGED diskVars
      BY <1>1, <2>2, <3>2 DEF OpenStore, FileInv, diskVars
    <3>3. QED
      BY <1>1, <3>1, <3>2 DEF OpenStore
  <2>9. QED
    BY <2>5, <2>7, <2>8
<1>2. ASSUME NEW d \in Dirs, AnchorDir(d) PROVE DurInv'
  <2>1. d \in dirs /\ Parent[d] \in Dirs /\ pc = "dirs" /\ pc' = "dirs" /\ call' = call
    BY <1>2, TreeAssumption DEF AnchorDir, AtDir
  <2>2. /\ dirs' = dirs /\ file' = file /\ anchored \subseteq anchored'
        /\ committed' = committed
    BY <1>2, <2>1, Barrier DEF AnchorDir, diskVars, TypeOK
  <2>3. d \in anchored'
    <3>1. CASE NeedsSync(d)
      BY <1>2, <2>1, <3>1, Barrier DEF AnchorDir
    <3>2. CASE ~NeedsSync(d)
      <4>1. CASE d = Top
        BY <4>1, <2>2, TreeAssumption DEF TreeInv
      <4>2. CASE d # Top
        <5>1. Parent[d] # d
          BY <4>2, Tree
        <5>2. call = Open
          <6>1. call.op # "store"
            BY <3>2, <5>1 DEF NeedsSync
          <6>2. call \in {Open} \cup Stores
            BY <1>2 DEF AnchorDir, AtDir, CallFits
          <6>3. QED
            BY <6>1, <6>2, CallKinds
        <5>3. d \in pendingSync
          BY <1>2, <2>1, <5>2 DEF KnownInv, AnchorDir, AtDir
        <5>4. QED
          BY <3>2, <5>3 DEF NeedsSync
      <4>3. QED
        BY <4>1, <4>2
    <3>3. QED
      BY <3>1, <3>2
  <2>4. Path[d] \subseteq anchored'
    BY <1>2, <2>2, <2>3, AboveIsDurable, Tree, TreeAssumption DEF AnchorDir
  <2>5. TreeInv'
    BY <2>2, TreeGrows
  <2>6. KnownInv'
    <3>1. \A a \in knownDirs' : Path[a] \subseteq anchored'
      BY <1>2, <2>2, <2>4 DEF AnchorDir, KnownInv
    <3>2. Unmade' \subseteq Unmade \ {d}
      BY <1>2, <2>1, Tree DEF AnchorDir, AtDir, Unmade, Target
    <3>3. QED
      BY <1>2, <2>1, <2>2, <3>1, <3>2 DEF AnchorDir, KnownInv
  <2>7. FileInv'
    <3>1. CASE SyncDir(Parent[d])
      BY <2>1, <2>2, <3>1, BarrierFiles DEF FileInv
    <3>2. CASE UNCHANGED diskVars
      BY <2>1, <2>2, <3>2 DEF FileInv, diskVars
    <3>3. QED
      BY <1>2, <3>1, <3>2 DEF AnchorDir
  <2>8. QED
    BY <2>5, <2>6, <2>7
<1>3. ASSUME NEW d \in Dirs, MakeDir(d) PROVE DurInv'
  <2>1. d # Top
    BY <1>3, TreeAssumption DEF MakeDir, TreeInv, TypeOK
  <2>2. Path[Parent[d]] \subseteq anchored
    BY <1>3, <2>1, AboveIsDurable DEF MakeDir
  <2>3. TreeInv'
    BY <1>3, <2>2 DEF MakeDir, TreeInv
  <2>4. KnownInv'
    BY <1>3 DEF MakeDir, AtDir, KnownInv, Unmade, Target
  <2>5. FileInv'
    BY <1>3 DEF MakeDir, AtDir, FileInv
  <2>6. QED
    BY <2>3, <2>4, <2>5
<1>4. ASSUME NEW d \in Dirs, Removed(d) PROVE DurInv'
  <2>1. call.key \in Keys /\ SyncDir(d) /\ pc' = "ready"
    BY <1>4, CallKinds DEF Removed, CallFits, Return
  <2>2. dirs' = dirs /\ file' = file /\ anchored \subseteq anchored'
    BY <2>1, Barrier
  <2>3. \A k \in Keys : committed'[k] = committed[k] \/ committed'[k] = Absent
    BY <1>4 DEF Removed, TypeOK
  <2>4. \A k \in Keys : kept'[k] = {file[k]} \/ kept'[k] = kept[k]
    BY <2>1 DEF SyncDir, FileInv
  <2>5. FileInv'
    BY <2>1, <2>2, <2>3, <2>4 DEF FileInv
  <2>6. KnownInv'
    BY <1>4, <2>1, <2>2 DEF Removed, KnownInv
  <2>7. QED
    BY <2>2, <2>5, <2>6, TreeGrows
<1>5. ASSUME NEW k \in Keys, NEW v \in Values, BeginStore(k, v) PROVE DurInv'
  <2>1. Store(k, v) # Open
    BY DEF Store, Open
  <2>2. QED
    BY <1>5, <2>1 DEF BeginStore, diskVars, TreeInv, KnownInv, FileInv
<1>6. ASSUME NEW k \in Keys, Unlink(k) PROVE DurInv'
  <2>1. TreeInv' /\ KnownInv'
    BY <1>6 DEF Unlink, TreeInv, KnownInv
  <2>2. Absent # Torn
    BY ContentAssumption
  <2>3. FileInv'
    BY <1>6, <2>2 DEF Unlink, FileInv, TypeOK, Remove
  <2>4. QED
    BY <2>1, <2>3
<1>7. CASE Opened
  BY <1>7 DEF Opened, Return, diskVars, TreeInv, KnownInv, FileInv
<1>8. CASE CreateTemp
  <2>1. call.key \in Keys /\ Target = DirOf[call.key] /\ DirOf[call.key] \in Dirs
    BY <1>8, CallKinds, TreeAssumption DEF CreateTemp, Target
  <2>2. PICK a \in Path[Target] \cap knownDirs : Target \in Path[a]
    BY <1>8, <2>1, Tree DEF CreateTemp, Unmade
  <2>3. Path[DirOf[call.key]] \subseteq anchored
    BY <2>1, <2>2, Tree DEF KnownInv, TypeOK
  <2>4. QED
    BY <1>8, <2>3 DEF CreateTemp, diskVars, TreeInv, KnownInv, FileInv
<1>9. CASE WriteTemp
  BY <1>9 DEF WriteTemp, diskVars, TreeInv, KnownInv, FileInv
<1>10. CASE SyncTemp
  BY <1>10 DEF SyncTemp, diskVars, TreeInv, KnownInv, FileInv
<1>11. CASE Rename
  <2>1. call.key \in Keys /\ call.value \in Values /\ call.value # Torn
    BY <1>11, CallKinds, ContentAssumption DEF Rename, CallFits
  <2>2. Path[DirOf[call.key]] \subseteq anchored
    BY <1>11 DEF Rename, KnownInv
  <2>3. TreeInv' /\ KnownInv'
    BY <1>11 DEF Rename, Replace, TreeInv, KnownInv
  <2>4. FileInv'
    BY <1>11, <2>1, <2>2 DEF Rename, Replace, FileInv, TypeOK
  <2>5. QED
    BY <2>3, <2>4
<1>12. CASE Stored
  <2>1. call.key \in Keys /\ DirOf[call.key] \in Dirs /\ pc' = "ready"
    BY <1>12, CallKinds, TreeAssumption DEF Stored, CallFits, Return
  <2>2. dirs' = dirs /\ file' = file /\ anchored \subseteq anchored'
    BY <1>12, <2>1, Barrier DEF Stored
  <2>3. \A k \in Keys : committed'[k] = committed[k] \/ k = call.key
    BY <1>12 DEF Stored, TypeOK
  <2>4. \A k \in Keys : kept'[k] = {file[k]} \/ kept'[k] = kept[k]
    BY <1>12 DEF Stored, SyncDir, FileInv
  <2>5. Path[DirOf[call.key]] \subseteq anchored
    BY <1>12 DEF Stored, KnownInv
  <2>6. FileInv'
    BY <2>1, <2>2, <2>3, <2>4, <2>5 DEF FileInv
  <2>7. KnownInv'
    BY <1>12, <2>1, <2>2 DEF Stored, KnownInv
  <2>8. QED
    BY <2>2, <2>6, <2>7, TreeGrows
<1>13. CASE Fail
  BY <1>13 DEF Fail, Return, diskVars, TreeInv, KnownInv, FileInv
<1>14. CASE Kill
  BY <1>14 DEF Kill, Exit, diskVars, TreeInv, KnownInv, FileInv
<1>15. ASSUME NEW lucky, PowerLoss(lucky) PROVE DurInv'
  <2>1. /\ dirs' = {d \in dirs : Path[d] \subseteq anchored \cup lucky} /\ anchored' = dirs'
        /\ pc' = "closed" /\ knownDirs' = {} /\ committed' = committed
    BY <1>15 DEF PowerLoss, Exit
  <2>2. ASSUME NEW D, D \subseteq anchored, \A e \in D : Path[e] \subseteq D
        PROVE  D \subseteq dirs'
    BY <2>1, <2>2 DEF TypeOK
  <2>3. ASSUME NEW d \in Dirs, Path[d] \subseteq anchored PROVE Path[d] \subseteq dirs'
    BY <2>2, <2>3, Tree
  <2>4. TreeInv'
    <3>1. ASSUME NEW d \in Dirs, Parent[d] = Top PROVE d \in dirs'
      <4>1. Path[d] \subseteq {d, Top} /\ Top \in anchored /\ d \in anchored
        BY <3>1, Tree, TreeAssumption DEF TreeInv
      <4>2. QED
        BY <2>3, <4>1, Tree
    <3>2. ASSUME NEW d \in dirs' PROVE Path[Parent[d]] \subseteq dirs'
      <4>1. d \in dirs /\ Parent[d] \in Dirs /\ Path[Parent[d]] \subseteq anchored
        BY <2>1, <3>2, Tree DEF TreeInv, TypeOK
      <4>2. QED
        BY <2>3, <4>1
    <3>3. QED
      BY <2>1, <3>1, <3>2 DEF TreeInv
  <2>5. KnownInv'
    BY <2>1 DEF KnownInv
  <2>6. FileInv'
    <3>1. ASSUME NEW k \in Keys
          PROVE  /\ file'[k] # Torn /\ kept'[k] = {file'[k]}
                 /\ \/ Path[DirOf[k]] \subseteq dirs'
                    \/ (file'[k] = Absent /\ committed[k] = Absent)
      <4>1. DirOf[k] \in Dirs /\ kept'[k] = {file'[k]}
        BY <1>15, TreeAssumption DEF PowerLoss
      <4>2. file'[k] \in kept[k] \/ file'[k] = Absent
        BY <1>15 DEF PowerLoss
      <4>3. file'[k] # Torn
        BY <4>2, ContentAssumption DEF FileInv
      <4>4. CASE Path[DirOf[k]] \subseteq anchored
        BY <2>3, <4>1, <4>3, <4>4
      <4>5. CASE kept[k] = {Absent} /\ committed[k] = Absent
        BY <4>1, <4>2, <4>3, <4>5
      <4>6. QED
        BY <4>4, <4>5 DEF FileInv
    <3>2. QED
      BY <2>1, <3>1 DEF FileInv
  <2>7. QED
    BY <2>4, <2>5, <2>6
<1>16. CASE UNCHANGED vars
  BY <1>16 DEF vars, diskVars, processVars, TreeInv, KnownInv, FileInv, Unmade, Target
<1>17. QED
  BY <1>1, <1>2, <1>3, <1>4, <1>5, <1>6, <1>7, <1>8, <1>9, <1>10, <1>11, <1>12, <1>13, <1>14,
     <1>15, <1>16 DEF Next

LEMMA DurInvHolds ==
  ASSUME FirstLevelExists
  PROVE  Spec => [](TypeInv /\ DurInv)
<1>1. Init => DurInv
  <2> SUFFICES ASSUME Init PROVE DurInv
    OBVIOUS
  <2>1. TreeInv
    BY FirstLevelExists, Tree, TreeAssumption DEF Init, TreeInv, FirstLevelExists
  <2>2. KnownInv /\ FileInv
    BY ContentAssumption DEF Init, KnownInv, FileInv
  <2>3. QED
    BY <2>1, <2>2 DEF DurInv
<1>2. QED
  BY <1>1, TypeInvHolds, DurInvInductive, PTL DEF Spec

\* No power loss takes a directory above a record that store acknowledged, for every tree
\* whose first level is there (AncestorsAreDurable).
THEOREM AncestorsStay ==
  ASSUME FirstLevelExists
  PROVE  Spec => []AncestorsAreDurable
<1>1. DurInv => AncestorsAreDurable
  BY DEF DurInv, FileInv, AncestorsAreDurable
<1>2. QED
  BY <1>1, DurInvHolds, PTL

-----------------------------------------------------------------------------
(* The contract of the Storage trait.                                       *)

\* A barrier settles the files of its directory.
LEMMA BarrierSettles ==
  ASSUME TypeOK, FileInv, NEW p \in Dirs, SyncDir(p)
  PROVE  kept' = [k \in Keys |-> IF k \in {j \in Keys : DirOf[j] = p} THEN {file[k]} ELSE kept[k]]
  BY DEF TypeOK, FileInv, SyncDir

\* nearest_existing_dir returns the directory itself when that exists.
LEMMA NearestIsItself ==
  ASSUME TypeOK, NEW d \in dirs, NEW a \in Dirs, NearestExisting(a, d)
  PROVE  a = d
<1>1. d \in Dirs /\ a \in Path[d] /\ d \in Path[a]
  BY Tree DEF NearestExisting, TypeOK
<1>2. SUFFICES ASSUME a # d PROVE FALSE
  OBVIOUS
<1>3. CASE d = Top
  BY <1>1, <1>2, <1>3, TreeAssumption
<1>4. CASE d # Top
  <2>1. a \in Path[Parent[d]] /\ d \notin Path[Parent[d]]
    BY <1>1, <1>2, <1>4, TreeAssumption
  <2>2. Path[a] \subseteq Path[Parent[d]]
    BY <2>1, <1>1, Tree
  <2>3. QED
    BY <2>1, <2>2, <1>1
<1>5. QED
  BY <1>3, <1>4

LEMMA StepKeepsContract ==
  ASSUME TypeInv, TypeInv', DurInv, DurInv', [Next]_vars
  PROVE  [Contract!Next]_(Contract!storageVars)
<1> DEFINE S == [k \in Keys |-> Survivors(k)]
\* What a power loss may leave of a file is what is kept of it: its path is durable, or
\* there is nothing to lose.
<1>1. S = kept /\ S' = kept'
  <2>1. \A k \in Keys : Survivors(k) = kept[k] /\ Survivors(k)' = kept'[k]
    BY DEF DurInv, FileInv, Survivors
  <2>2. QED
    BY <2>1 DEF TypeInv, TypeOK
<1> HIDE DEF S
<1> USE DEF TypeInv, DurInv
<1>2. ASSUME NEW p \in Dirs, SyncDir(p), committed' = committed
      PROVE  \E s \in SUBSET Keys : Contract!Settled(s)
  <2>1. /\ {j \in Keys : DirOf[j] = p} \in SUBSET Keys
        /\ file' = file
        /\ S' = [k \in Keys |-> IF k \in {j \in Keys : DirOf[j] = p} THEN {file[k]} ELSE S[k]]
    BY <1>1, <1>2, BarrierSettles, Barrier
  <2>2. QED
    BY <1>2, <2>1 DEF Contract!Settled, S
<1>3. ASSUME file' = file, kept' = kept, committed' = committed
      PROVE  UNCHANGED Contract!storageVars
  BY <1>1, <1>3 DEF Contract!storageVars, S
<1>4. ASSUME NEW k \in Keys, NEW v \in Values \cup {Absent}, committed' = committed,
             file' = [file EXCEPT ![k] = v], kept' = [kept EXCEPT ![k] = @ \cup {v}]
      PROVE  Contract!Landed(k, v)
  BY <1>1, <1>4 DEF Contract!Landed, S
<1>5. ASSUME NEW k \in Keys, NEW v \in Values \cup {Absent}, NEW p \in Dirs, SyncDir(p),
             file[k] = v, kept'[k] = {v}, committed' = [committed EXCEPT ![k] = v]
      PROVE  \E s \in SUBSET Keys : Contract!Stored(k, v, s)
  <2>1. file' = [file EXCEPT ![k] = v]
    BY <1>5, Barrier DEF TypeOK
  <2>2. /\ {j \in Keys : DirOf[j] = p} \in SUBSET Keys
        /\ S' = [j \in Keys |-> IF j = k THEN {v}
                               ELSE IF j \in {i \in Keys : DirOf[i] = p} THEN {file[j]} ELSE S[j]]
    BY <1>1, <1>5, BarrierSettles
  <2>3. QED
    BY <1>5, <2>1, <2>2 DEF Contract!Stored, S
<1> USE DEF Contract!Next, Contract!Contents
<1>6. ASSUME NEW d \in Dirs, OpenStore(d) PROVE Contract!Next \/ UNCHANGED Contract!storageVars
  BY <1>2, <1>3, <1>6, TreeAssumption DEF OpenStore, diskVars
<1>7. ASSUME NEW d \in Dirs, AnchorDir(d) PROVE Contract!Next \/ UNCHANGED Contract!storageVars
  BY <1>2, <1>3, <1>7, TreeAssumption DEF AnchorDir, diskVars
<1>8. ASSUME NEW d \in Dirs, MakeDir(d) PROVE UNCHANGED Contract!storageVars
  BY <1>3, <1>8 DEF MakeDir
<1>9. ASSUME NEW d \in Dirs, Removed(d) PROVE Contract!Next
  <2>1. /\ call.key \in Keys /\ DirOf[call.key] \in Dirs /\ SyncDir(d)
        /\ committed' = [committed EXCEPT ![call.key] = Absent]
        /\ file[call.key] = Absent
    BY <1>9, CallKinds, TreeAssumption DEF Removed, CallFits, FileInv
  <2>2. kept'[call.key] = {Absent}
    <3>1. CASE DirOf[call.key] \in dirs
      BY <1>9, <2>1, <3>1, NearestIsItself, BarrierSettles DEF Removed
    <3>2. CASE DirOf[call.key] \notin dirs
      <4>1. kept[call.key] = {Absent}
        BY <2>1, <3>2, Tree DEF FileInv, TypeOK
      <4>2. QED
        BY <2>1, <4>1, BarrierSettles
    <3>3. QED
      BY <3>1, <3>2
  <2>3. QED
    BY <1>5, <2>1, <2>2
<1>10. ASSUME NEW k \in Keys, NEW v \in Values, BeginStore(k, v)
       PROVE  UNCHANGED Contract!storageVars
  BY <1>3, <1>10 DEF BeginStore, diskVars
<1>11. ASSUME NEW k \in Keys, Unlink(k) PROVE Contract!Next
  BY <1>4, <1>11 DEF Unlink
<1>12. CASE Opened \/ CreateTemp \/ WriteTemp \/ SyncTemp \/ Fail \/ Kill
  BY <1>3, <1>12 DEF Opened, CreateTemp, WriteTemp, SyncTemp, Fail, Kill, diskVars
<1>13. CASE Rename
  <2>1. call.key \in Keys /\ call.value \in Values
    BY <1>13, CallKinds DEF Rename, CallFits
  <2>2. kept' = [kept EXCEPT ![call.key] = @ \cup {call.value}]
    BY <1>13, <2>1 DEF Rename, Replace, TypeOK
  <2>3. QED
    BY <1>4, <1>13, <2>1, <2>2 DEF Rename, Replace
<1>14. CASE Stored
  <2>1. /\ call.key \in Keys /\ call.value \in Values /\ DirOf[call.key] \in Dirs
        /\ file[call.key] = call.value
    BY <1>14, CallKinds, TreeAssumption DEF Stored, CallFits, FileInv
  <2>2. kept'[call.key] = {call.value}
    BY <1>14, <2>1, BarrierSettles DEF Stored
  <2>3. QED
    BY <1>5, <1>14, <2>1, <2>2 DEF Stored
<1>15. ASSUME NEW lucky, PowerLoss(lucky) PROVE Contract!Next
  <2>1. \A k \in Keys : file'[k] \in kept[k]
    <3>1. ASSUME NEW k \in Keys, DirOf[k] \notin dirs' PROVE kept[k] = {Absent}
      <4>1. DirOf[k] \in Dirs
        BY TreeAssumption
      <4>2. CASE Path[DirOf[k]] \subseteq anchored
        BY <1>15, <3>1, <4>1, <4>2, Tree DEF PowerLoss, TypeOK
      <4>3. QED
        BY <4>2 DEF FileInv
    <3>2. QED
      BY <1>15, <3>1 DEF PowerLoss
  <2>2. file' \in [Keys -> UNION {S[k] : k \in Keys}]
    <3>1. file' = [k \in Keys |-> file'[k]]
      BY DEF TypeOK, FileInv
    <3>2. \A k \in Keys : file'[k] \in UNION {S[j] : j \in Keys}
      BY <1>1, <2>1
    <3>3. QED
      BY <3>1, <3>2
  <2>3. S' = [k \in Keys |-> {file'[k]}]
    BY <1>1, <1>15 DEF PowerLoss
  <2>4. Contract!PowerLoss
    BY <1>1, <1>15, <2>1, <2>2, <2>3 DEF PowerLoss, Contract!PowerLoss, S
  <2>5. QED
    BY <2>4
<1>16. CASE UNCHANGED vars
  BY <1>3, <1>16 DEF vars, diskVars
<1>17. QED
  BY <1>6, <1>7, <1>8, <1>9, <1>10, <1>11, <1>12, <1>13, <1>14, <1>15, <1>16 DEF Next

\* Whatever fails, is killed or loses power between two file operations, store and remove
\* keep the contract of the Storage trait (ImplementsStorage).
THEOREM FilesKeepTheContract ==
  ASSUME FirstLevelExists
  PROVE  Spec => ImplementsStorage
<1>1. Init => Contract!Init
  <2> SUFFICES ASSUME Init PROVE Contract!Init
    OBVIOUS
  <2>1. [k \in Keys |-> Survivors(k)] = [k \in Keys |-> {Absent}]
    BY DEF Init, Survivors
  <2>2. QED
    BY <2>1 DEF Init, Contract!Init
<1>2. QED
  BY <1>1, DurInvHolds, StepKeepsContract, PTL DEF Spec, ImplementsStorage, Contract!Spec
=============================================================================
