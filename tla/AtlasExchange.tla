--------------------------- MODULE AtlasExchange ---------------------------
(***************************************************************************)
(* Vaults that exchange bundles (Vault::export and Vault::import): a bundle *)
(* is a file, so it may reach a vault late, twice, out of order or never.   *)
(* What is on disk is module Vault's subject; here a vault is its records   *)
(* in memory and its sequence counter.                                      *)
(***************************************************************************)
EXTENDS AtlasMerge, FiniteSets

CONSTANTS
  Peers,       \* vaults
  SharedIds,   \* ids of shareable records
  MaxBundles   \* bound: bundles ever exported

ASSUME BundleBoundIsNatural == MaxBundles \in Nat

VARIABLES
  shelf,    \* [Peers -> [SharedIds -> record or Absent]]
  counter,  \* [Peers -> last sequence number handed out or met]
  bundles,  \* every bundle exported so far: [record, news], functions on SharedIds
  known     \* history: [Peers -> [SharedIds -> the edits this shelf descends from]]

exchangeVars == <<shelf, counter, bundles, known>>

ExchangeInit ==
  /\ shelf = [p \in Peers |-> [id \in SharedIds |-> Absent]]
  /\ counter = [p \in Peers |-> 0]
  /\ bundles = {}
  /\ known = [p \in Peers |-> [id \in SharedIds |-> {}]]

Edit(text, sequence) == [sequence |-> sequence, text |-> text, usage |-> 0]

\* record_discovery, record_route, record_preserve.
RecordAt(p, id, text) ==
  LET edit == Edit(text, counter[p] + 1)
  IN  /\ counter[p] < MaxSequence
      /\ counter' = [counter EXCEPT ![p] = @ + 1]
      /\ shelf' = [shelf EXCEPT ![p][id] = Join(@, edit)]
      /\ known' = [known EXCEPT ![p][id] = @ \cup {edit}]
      /\ UNCHANGED bundles

\* bump_route_usage; a count is an edit without a new sequence number.
BumpUsage(p, id) ==
  /\ shelf[p][id] # Absent /\ shelf[p][id].usage < MaxUsage
  /\ shelf' = [shelf EXCEPT ![p][id].usage = @ + 1]
  /\ known' = [known EXCEPT ![p][id] = @ \cup {shelf'[p][id]}]
  /\ UNCHANGED <<counter, bundles>>

\* remove_route, remove_preserve: local only, a bundle may bring the record back.
RemoveAt(p, id) ==
  /\ shelf[p][id] # Absent
  /\ shelf' = [shelf EXCEPT ![p][id] = Absent]
  /\ known' = [known EXCEPT ![p][id] = {}]
  /\ UNCHANGED <<counter, bundles>>

Export(p) ==
  /\ Cardinality(bundles) < MaxBundles
  /\ bundles' = bundles \cup {[record |-> shelf[p], news |-> known[p]]}
  /\ UNCHANGED <<shelf, counter, known>>

\* Fault: only records the vault did not hold yet advance the counter.
MetNew(p, b) == {counter[p]} \cup {b.record[id].sequence :
                  id \in {id \in SharedIds : b.record[id] # Absent /\ shelf[p][id] = Absent}}

Met(p, b) == {counter[p]} \cup {Join(shelf[p][id], b.record[id]).sequence :
                                  id \in {id \in SharedIds : b.record[id] # Absent}}

ImportAt(p, b) ==
  /\ shelf' = [shelf EXCEPT ![p] = [id \in SharedIds |-> Join(@[id], b.record[id])]]
  /\ counter' = [counter EXCEPT ![p] = CHOOSE n \in Met(p, b) : \A m \in Met(p, b) : m <= n]
  /\ known' = [known EXCEPT ![p] = [id \in SharedIds |-> @[id] \cup b.news[id]]]
  /\ UNCHANGED bundles

ExchangeNext ==
  \/ \E p \in Peers, id \in SharedIds, t \in Texts : RecordAt(p, id, t)
  \/ \E p \in Peers, id \in SharedIds : BumpUsage(p, id) \/ RemoveAt(p, id)
  \/ \E p \in Peers : Export(p) \/ \E b \in bundles : ImportAt(p, b)

ExchangeSpec == ExchangeInit /\ [][ExchangeNext]_exchangeVars
-----------------------------------------------------------------------------
Shelves == [SharedIds -> Records \cup {Absent}]
News == [SharedIds -> SUBSET Records]

ExchangeTypeOK ==
  /\ shelf \in [Peers -> Shelves]
  /\ counter \in [Peers -> 0..MaxSequence]
  /\ bundles \in SUBSET [record : Shelves, news : News]
  /\ known \in [Peers -> News]

\* Two vaults whose records descend from the same edits hold the same records,
\* in whatever order, how often and through whom the bundles came (ADR 0014).
SameNewsSameShelf ==
  \A p, q \in Peers, id \in SharedIds : known[p][id] = known[q][id] => shelf[p][id] = shelf[q][id]

\* No edit is lost on the way: a record is at least as new, in each field, as every
\* edit it descends from.
NothingForgotten ==
  \A p \in Peers, id \in SharedIds : \A e \in known[p][id] :
    shelf[p][id] # Absent /\ Covers(shelf[p][id], e)

\* An edit outranks every edit its author had met, so it prevails wherever both
\* arrive: the counter catches up with a bundle before the next edit.
EditPrevails ==
  [][\A p \in Peers, id \in SharedIds, t \in Texts :
       RecordAt(p, id, t) => \A e \in known[p][id] : Outranks(Edit(t, counter'[p]), e)]_exchangeVars
=============================================================================
