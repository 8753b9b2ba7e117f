------------------------------- MODULE Vault -------------------------------
(***************************************************************************)
(* The vault (world-runtime/src/vault.rs): every record in memory, the set  *)
(* of keys whose entry on disk is behind, a store-local sequence counter,   *)
(* and a flush that writes one dirty key after the other.  The backend is   *)
(* module Storage: a failing call may have taken effect, and what no        *)
(* successful call has settled may still be lost with the power.            *)
(***************************************************************************)
EXTENDS AtlasMerge, FiniteSets

CONSTANTS
  Discoveries, Routes, Preserves,  \* record ids of each namespace
  Chunks,       \* chunks of the discovered-region set
  Regions,      \* regions of a chunk
  Sessions,     \* {the session key}, or {} to leave the session out
  Meta,         \* the key of the store header
  Bundles,      \* bundles a peer may offer: ids to [record, honest]
  MaxIssues,    \* MAX_VAULT_ISSUES
  MaxFaults     \* bound: failing backend calls and crashes of a behaviour

Ids == Discoveries \cup Routes \cup Preserves
Keys == Ids \cup Chunks \cup Sessions \cup {Meta}

ASSUME KeysAreDistinct ==
  /\ IsFiniteSet(Keys)
  /\ Discoveries \cap (Routes \cup Preserves) = {} /\ Routes \cap Preserves = {}
  /\ Ids \cap (Chunks \cup Sessions) = {} /\ Chunks \cap Sessions = {}
  /\ Meta \notin Ids \cup Chunks \cup Sessions
ASSUME BundlesOfferRecords ==
  \A b \in Bundles : /\ DOMAIN b \subseteq Ids
                     /\ \A id \in DOMAIN b : b[id] \in [record : Records, honest : BOOLEAN]
ASSUME BoundsAreNatural == MaxIssues \in Nat \ {0} /\ MaxFaults \in Nat

Counters == [sequence : 0..MaxSequence]   \* a session or header, by its sequence
Bitmaps == [regions : SUBSET Regions]     \* a chunk of the discovered-region set
Entries == Records \cup Counters \cup Bitmaps

ASSUME AbsentIsNoEntry == Absent \notin Entries

VARIABLES
  mem,        \* [Keys -> the entry in memory, or Absent]
  dirty,      \* keys waiting to be flushed
  issues,     \* identities of the retained diagnostics
  open,       \* the vault is open; FALSE between a crash and the next open
  readable, survivors, committed,  \* the backend (Storage)
  faults,     \* failures the environment has left
  issued,     \* history: last sequence this run gave the entry of a key, else 0
  removed,    \* history: ids whose removal succeeded, not recorded since
  doubtful,   \* history: ids whose last removal failed, not stored since
  failing,    \* history: dirty keys whose last store failed
  highest     \* history: the last sequence number a successful call stored

disk == <<readable, survivors, committed>>
history == <<issued, removed, doubtful, failing, highest>>
vars == <<mem, dirty, issues, open, disk, faults, history>>

Disk == INSTANCE Storage WITH Values <- Entries

sequence == mem[Meta].sequence
-----------------------------------------------------------------------------
(* Diagnostics.  Which of several fills the last place, and which is given   *)
(* up for a persistence failure, follows their order, left open here.        *)

Failure(op, k) == [kind |-> "persistence", op |-> op, key |-> k]
Rejection(id) == [kind |-> "import", op |-> "import", key |-> id]
Active(list) == {i \in list : i.kind = "persistence"}

\* record_issue of each of new: known ones are counted, the rest fill the list.
Reported(list, new) ==
  {list \cup s : s \in {s \in SUBSET (new \ list) :
     \/ s = new \ list /\ Cardinality(list \cup s) <= MaxIssues
     \/ Cardinality(list \cup s) = MaxIssues}}

\* record_persistence_failure: one failure is retained, whatever it displaces.
WithFailure(list, i) ==
  LET others == list \ Active(list)
  IN  IF Cardinality(others) < MaxIssues THEN {others \cup {i}}
      ELSE {(others \ {o}) \cup {i} : o \in others}
-----------------------------------------------------------------------------
(* Opening *)

\* load_namespace of every namespace, the session and the header; a missing
\* header is a fresh store.
Loaded == [k \in Keys |-> IF k = Meta /\ readable[Meta] = Absent
                          THEN [sequence |-> 0] ELSE readable[k]]

\* The counter heals: no record of the store may be ahead of it.
Sequenced(entries) == {k \in Ids \cup Sessions : entries[k] # Absent}

\* Fault: the header is trusted as it was stored.
HealedNever(entries) == entries

Healed(entries) ==
  LET seen == {entries[Meta].sequence} \cup {entries[k].sequence : k \in Sequenced(entries)}
  IN  [entries EXCEPT ![Meta] = [sequence |-> CHOOSE n \in seen : \A m \in seen : m <= n]]

Open ==
  /\ ~open
  /\ mem' = Healed(Loaded)
  /\ open' = TRUE
  /\ issued' = [k \in Keys |-> 0]
  /\ UNCHANGED <<dirty, issues, disk, faults, removed, doubtful, failing, highest>>

Init ==
  /\ Disk!Init
  /\ mem = [k \in Keys |-> IF k = Meta THEN [sequence |-> 0] ELSE Absent]
  /\ dirty = {} /\ issues = {} /\ open = TRUE
  /\ faults = MaxFaults
  /\ issued = [k \in Keys |-> 0]
  /\ removed = {} /\ doubtful = {} /\ failing = {} /\ highest = 0
-----------------------------------------------------------------------------
(* Local edits *)

\* next_sequence refuses, before anything changes, when no number is left.
CanSequence == open /\ sequence < MaxSequence

Edited(k, entry) ==
  /\ mem' = [mem EXCEPT ![k] = entry, ![Meta] = [sequence |-> sequence + 1]]
  /\ dirty' = dirty \cup {Meta} \cup IF entry = mem[k] THEN {} ELSE {k}
  /\ issued' = [issued EXCEPT ![k] = sequence + 1]
  /\ removed' = removed \ {k}
  /\ UNCHANGED <<issues, open, disk, faults, doubtful, failing, highest>>

\* record_discovery, record_route, record_preserve: the same capture again
\* merges into the record it made before.
Record(id, text) ==
  /\ CanSequence
  /\ Edited(id, Join(mem[id], [sequence |-> sequence + 1, text |-> text, usage |-> 0]))

SnapshotSession(k) ==
  /\ CanSequence
  /\ Edited(k, [sequence |-> sequence + 1])

BumpRouteUsage(id) ==
  /\ open /\ mem[id] # Absent
  /\ mem' = [mem EXCEPT ![id].usage = IF @ = MaxUsage THEN @ ELSE @ + 1]
  /\ dirty' = dirty \cup {id}
  /\ UNCHANGED <<issues, open, disk, faults, history>>

SeenRegions(c) == IF mem[c] = Absent THEN {} ELSE mem[c].regions

MarkSeen(c, r) ==
  /\ open
  /\ mem' = [mem EXCEPT ![c] = [regions |-> SeenRegions(c) \cup {r}]]
  /\ dirty' = IF r \in SeenRegions(c) THEN dirty ELSE dirty \cup {c}
  /\ UNCHANGED <<issues, open, disk, faults, history>>
-----------------------------------------------------------------------------
(* Removal: the backend first, memory only after it succeeded. *)

Removable == {id \in Routes \cup Preserves : mem[id] # Absent}

\* Fault: a record that waits to be flushed is taken to have nothing on disk.
RemoveUnwritten(id) ==
  /\ open /\ id \in Removable
  /\ IF id \in dirty THEN UNCHANGED disk ELSE Disk!Stored(id, Absent, {})
  /\ mem' = [mem EXCEPT ![id] = Absent]
  /\ dirty' = dirty \ {id}
  /\ issues' = issues \ {Failure("remove", id), Failure("store", id)}
  /\ issued' = [issued EXCEPT ![id] = 0]
  /\ removed' = removed \cup {id}
  /\ doubtful' = doubtful \ {id}
  /\ failing' = failing \ {id}
  /\ UNCHANGED <<open, faults, highest>>

Remove(id) ==
  /\ open /\ id \in Removable
  /\ Disk!Stored(id, Absent, {})
  /\ mem' = [mem EXCEPT ![id] = Absent]
  /\ dirty' = dirty \ {id}
  /\ issues' = issues \ {Failure("remove", id), Failure("store", id)}
  /\ issued' = [issued EXCEPT ![id] = 0]
  /\ removed' = removed \cup {id}
  /\ doubtful' = doubtful \ {id}
  /\ failing' = failing \ {id}
  /\ UNCHANGED <<open, faults, highest>>

\* A failing or interrupted call on k may have left entry there.
MayLand(k, entry) == Disk!Landed(k, entry) \/ UNCHANGED disk

\* Fault: memory forgets the record before the backend has answered.
RemoveFailsForgetting(id) ==
  /\ open /\ id \in Removable
  /\ faults > 0 /\ faults' = faults - 1
  /\ MayLand(id, Absent)
  /\ mem' = [mem EXCEPT ![id] = Absent] /\ dirty' = dirty \ {id}
  /\ issues' \in WithFailure(issues, Failure("remove", id))
  /\ doubtful' = doubtful \cup {id} /\ failing' = failing \ {id}
  /\ UNCHANGED <<open, issued, removed, highest>>

RemoveFails(id) ==
  /\ open /\ id \in Removable
  /\ faults > 0 /\ faults' = faults - 1
  /\ MayLand(id, Absent)
  /\ issues' \in WithFailure(issues, Failure("remove", id))
  /\ doubtful' = doubtful \cup {id}
  /\ UNCHANGED <<mem, dirty, open, issued, removed, failing, highest>>
-----------------------------------------------------------------------------
(* import: every honest record of a bundle joins its copy; the counter is    *)
(* never behind a record that was met, changed or not.                       *)

Honest(bundle) == {id \in DOMAIN bundle : bundle[id].honest}
\* Fault: the peer's copy replaces the local one.
ImportedOver(bundle) == [id \in Honest(bundle) |-> bundle[id].record]
Imported(bundle) == [id \in Honest(bundle) |-> Join(mem[id], bundle[id].record)]
CaughtUp(bundle) ==
  LET met == {sequence} \cup {Imported(bundle)[id].sequence : id \in Honest(bundle)}
  IN  CHOOSE n \in met : \A m \in met : m <= n

Import(bundle) ==
  /\ open
  /\ mem' = [k \in Keys |-> IF k \in Honest(bundle) THEN Imported(bundle)[k]
                            ELSE IF k = Meta THEN [sequence |-> CaughtUp(bundle)] ELSE mem[k]]
  /\ dirty' = dirty \cup {k \in Honest(bundle) \cup {Meta} : mem'[k] # mem[k]}
  /\ issues' \in Reported(issues, {Rejection(id) : id \in DOMAIN bundle \ Honest(bundle)})
  /\ removed' = removed \ Honest(bundle)
  /\ UNCHANGED <<open, disk, faults, issued, doubtful, failing, highest>>
-----------------------------------------------------------------------------
(* flush, one key at a time: a budget may end the call after any of them.    *)

\* Fault: the header sorts before the records.
FlushRankHeaderFirst(k) == IF k = Meta THEN 0 ELSE 1

\* DirtyKey's order; keys of one kind by id, left open here.
FlushRank(k) == CASE k \in Sessions -> 0 [] k \in Discoveries -> 1 [] k \in Routes -> 2
                  [] k \in Preserves -> 3 [] k \in Chunks -> 4 [] OTHER -> 5
NextDirty(k) == k \in dirty /\ \A j \in dirty : FlushRank(k) <= FlushRank(j)

\* Fault: a key whose failure is the active diagnostic is not tried again.
FlushKeyOnce(k) ==
  /\ open /\ NextDirty(k) /\ mem[k] # Absent /\ Failure("store", k) \notin issues
  /\ Disk!Stored(k, mem[k], {})
  /\ dirty' = dirty \ {k}
  /\ doubtful' = doubtful \ {k}
  /\ failing' = failing \ {k}
  /\ highest' = IF k \in Ids \cup Sessions THEN Larger(highest, mem[k].sequence) ELSE highest
  /\ UNCHANGED <<mem, issues, open, faults, issued, removed>>

FlushKey(k) ==
  /\ open /\ NextDirty(k) /\ mem[k] # Absent
  /\ Disk!Stored(k, mem[k], {})
  /\ dirty' = dirty \ {k}
  /\ issues' = issues \ {Failure("store", k)}
  /\ doubtful' = doubtful \ {k}
  /\ failing' = failing \ {k}
  /\ highest' = IF k \in Ids \cup Sessions THEN Larger(highest, mem[k].sequence) ELSE highest
  /\ UNCHANGED <<mem, open, faults, issued, removed>>

\* The call ends at the first error; the key stays dirty.
FlushFails(k) ==
  /\ open /\ NextDirty(k) /\ mem[k] # Absent
  /\ faults > 0 /\ faults' = faults - 1
  /\ MayLand(k, mem[k])
  /\ issues' \in WithFailure(issues, Failure("store", k))
  /\ failing' = failing \cup {k}
  /\ UNCHANGED <<mem, dirty, open, issued, removed, doubtful, highest>>
-----------------------------------------------------------------------------
(* The environment: the process dies, perhaps inside a call of the backend,  *)
(* and the power may fail while it is down.                                  *)

Crash ==
  /\ open /\ faults > 0 /\ faults' = faults - 1
  /\ \/ UNCHANGED disk /\ UNCHANGED doubtful
     \/ \E k \in Keys : NextDirty(k) /\ Disk!Landed(k, mem[k]) /\ UNCHANGED doubtful
     \/ \E k \in Removable : Disk!Landed(k, Absent) /\ doubtful' = doubtful \cup {k}
  /\ mem' = [k \in Keys |-> Absent]
  /\ dirty' = {} /\ issues' = {} /\ open' = FALSE /\ failing' = {}
  /\ UNCHANGED <<issued, removed, highest>>

PowerLoss ==
  /\ ~open
  /\ Disk!PowerLoss
  /\ UNCHANGED <<mem, dirty, issues, open, faults, history>>

UserStep ==
  \/ \E id \in Ids, t \in Texts : Record(id, t)
  \/ \E k \in Sessions : SnapshotSession(k)
  \/ \E id \in Routes : BumpRouteUsage(id)
  \/ \E c \in Chunks, r \in Regions : MarkSeen(c, r)
  \/ \E id \in Routes \cup Preserves : Remove(id) \/ RemoveFails(id)
  \/ \E b \in Bundles : Import(b)

Flush == \E k \in Keys : FlushKey(k)

Next ==
  \/ UserStep
  \/ Flush
  \/ \E k \in Keys : FlushFails(k)
  \/ Crash
  \/ PowerLoss
  \/ Open

Spec == Init /\ [][Next]_vars

\* The shell reopens a store and calls flush every frame.
FairSpec == Spec /\ WF_vars(Open) /\ WF_vars(Flush)
-----------------------------------------------------------------------------
(* What the vault promises *)

EntryOf(k) == IF k \in Ids THEN Records ELSE IF k \in Chunks THEN Bitmaps ELSE Counters

\* Each key holds an entry of its kind; a dirty key has one to write; and the
\* diagnostics stay bounded with at most one persistence failure among them.
TypeOK ==
  /\ mem \in [Keys -> Entries \cup {Absent}]
  /\ \A k \in Keys : /\ mem[k] \in EntryOf(k) \cup {Absent}
                     /\ readable[k] \in survivors[k]
                     /\ survivors[k] \subseteq EntryOf(k) \cup {Absent}
                     /\ committed[k] \in EntryOf(k) \cup {Absent}
  /\ open \in BOOLEAN /\ (open => mem[Meta] # Absent)
  /\ dirty \in SUBSET Keys /\ (\A k \in dirty : open /\ mem[k] # Absent)
  /\ issues \in SUBSET ({Failure(op, k) : op \in {"store", "remove"}, k \in Keys}
                        \cup {Rejection(id) : id \in Ids})
  /\ Cardinality(issues) <= MaxIssues /\ Cardinality(Active(issues)) <= 1
  /\ faults \in 0..MaxFaults /\ highest \in 0..MaxSequence
  /\ issued \in [Keys -> 0..MaxSequence]
  /\ removed \in SUBSET Ids /\ doubtful \in SUBSET Ids /\ failing \in SUBSET dirty

\* An entry that is not waiting to be flushed is what the backend holds, so a
\* clean vault that closes reopens as it was.  A removal that failed keeps its entry in
\* memory and may have emptied its key, but leaves nothing else there; the header may
\* be behind after it healed.
DirtyCoversDisk ==
  open => \A k \in Keys \ ({Meta} \cup dirty) :
            readable[k] = mem[k] \/ (k \in doubtful /\ readable[k] = Absent)

\* Whatever header a power loss leaves, the records numbered up to it in this
\* run are on disk: data precedes metadata across budgets, failures and crashes.
DataPrecedesHeader ==
  \A header \in survivors[Meta], k \in Keys \ doubtful :
    header # Absent /\ 0 < issued[k] /\ issued[k] <= header.sequence
      => \A e \in survivors[k] : e # Absent /\ issued[k] <= e.sequence

\* e holds at least what a successful call has made durable as d.
Retains(k, e, d) ==
  \/ d = Absent
  \/ /\ e # Absent
     /\ k \in Ids => Covers(e, d)
     /\ k \in Chunks => d.regions \subseteq e.regions
     /\ k \in Sessions \cup {Meta} => d.sequence <= e.sequence

\* What a flush reported as written is never lost or taken back by an older
\* value: not by failing calls, a crash, a power loss, a reopen or an import.
AcknowledgedSurvives ==
  \A k \in Keys \ doubtful :
    /\ \A e \in survivors[k] : Retains(k, e, committed[k])
    /\ open => Retains(k, mem[k], committed[k])

\* A removal that succeeded is final: neither a write that was pending, nor a
\* crash, nor a power loss brings the record back.
NoResurrection ==
  \A id \in removed : survivors[id] = {Absent} /\ (open => mem[id] = Absent)

\* The next local edit is newer than every copy the vault holds, also after a
\* crash that left the header behind and after an import from ahead: the text
\* just recorded is the text shown.
EditShows ==
  [][\A id \in Ids, t \in Texts : Record(id, t) => mem'[id].text = t]_vars

\* Once the user rests, everything is flushed, whatever failed before.
Drains == <>[][~UserStep]_vars => <>[](open /\ dirty = {})

\* While a store is failing there is an active persistence diagnostic.
FailureIsActive == failing # {} => Active(issues) # {}

\* The store-local counter never falls behind a number already made durable.
CounterIsMonotonic == open => highest <= sequence
=============================================================================
