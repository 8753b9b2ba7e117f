---------------------------- MODULE AtlasMerge -----------------------------
(***************************************************************************)
(* Shareable atlas records and the rules by which two copies of one merge   *)
(* (world-core/src/record.rs, ADR 0014).  A record is named by the content  *)
(* hash of its immutable body, so copies of one id differ only in what is   *)
(* kept here.                                                               *)
(***************************************************************************)
EXTENDS Naturals

CONSTANTS
  Texts,        \* name and journal of a record, as the hash that ranks them
  MaxSequence,  \* the last sequence number there is (u64::MAX in the code)
  MaxUsage,     \* where a traversal count saturates (its type's maximum)
  Absent        \* no record under this id

ASSUME TextsAreRanked == Texts \subseteq Nat
ASSUME CountersAreNatural == MaxSequence \in Nat /\ MaxUsage \in Nat
ASSUME AbsentIsNoRecord == Absent \notin [sequence : Nat, text : Nat, usage : Nat]

Records == [sequence : 0..MaxSequence, text : Texts, usage : 0..MaxUsage]

Larger(m, n) == IF m >= n THEN m ELSE n

\* Fault: equal sequences leave the local copy in place.
OutranksBySequence(r, s) == r.sequence > s.sequence

\* mutable_rank: the sequence decides, the content hash breaks a tie.
Outranks(r, s) ==
  \/ r.sequence > s.sequence
  \/ r.sequence = s.sequence /\ r.text > s.text

\* Fault: the newer copy brings its own traversal count.
MergeWhole(r, s) == IF Outranks(s, r) THEN s ELSE r

\* merge_from: presentation fields by rank, the traversal count by maximum.
Merge(r, s) ==
  LET newest == IF Outranks(s, r) THEN s ELSE r
  IN  [newest EXCEPT !.usage = Larger(r.usage, s.usage)]

\* The copy a store holds after it met r while it held s; either may be absent.
Join(s, r) == IF s = Absent THEN r ELSE IF r = Absent THEN s ELSE Merge(s, r)

\* r is at least as new as s in every field.
Covers(r, s) == ~Outranks(s, r) /\ s.usage <= r.usage
=============================================================================
