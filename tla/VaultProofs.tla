---------------------------- MODULE VaultProofs ----------------------------
(***************************************************************************)
(* Records, their exchange and the vault that keeps them, for any ids,       *)
(* limits, bundles and numbers of failures and crashes.  First what a merge  *)
(* does; then that vaults which met the same edits hold the same records: a  *)
(* shelf is the join of the edits it descends from, which determines it, and *)
(* the counter is never behind them.  Last, that a vault keeps what it       *)
(* acknowledged; the invariant there has two halves: what is on disk, which  *)
(* holds also while the vault is closed, and how an open vault's memory      *)
(* stands to it.                                                            *)
(***************************************************************************)
EXTENDS Vault, AtlasExchange, Integers, FiniteSetTheorems, WellFoundedInduction, TLAPS

-----------------------------------------------------------------------------
(* The merge of two copies of a record is a join: commutative, associative, *)
(* idempotent, and above both (ADR 0014), for any texts and limits.          *)

\* What a shelf holds under an id.
Copies == Records \cup {Absent}

\* An absent entry is told apart from every record.
LEMMA RecordIsPresent == \A r \in Records : r # Absent
  <1>1. 0..MaxSequence \subseteq Nat /\ 0..MaxUsage \subseteq Nat
    OBVIOUS
  <1>2. Records \subseteq [sequence : Nat, text : Nat, usage : Nat]
    BY <1>1, TextsAreRanked DEF Records
  <1>3. QED
    BY <1>2, AbsentIsNoRecord

\* A record is its three fields, all natural numbers.
LEMMA RecordFields ==
  ASSUME NEW r \in Records
  PROVE  /\ r.sequence \in Nat /\ r.sequence <= MaxSequence
         /\ r.text \in Nat /\ r.text \in Texts
         /\ r.usage \in Nat /\ r.usage <= MaxUsage
         /\ r = [sequence |-> r.sequence, text |-> r.text, usage |-> r.usage]
  <1>1. r.sequence \in 0..MaxSequence /\ r.text \in Texts /\ r.usage \in 0..MaxUsage
    BY DEF Records
  <1>2. r = [sequence |-> r.sequence, text |-> r.text, usage |-> r.usage]
    BY DEF Records
  <1>3. QED
    BY <1>1, <1>2, TextsAreRanked, CountersAreNatural

\* The fields of a merge: rank by sequence and text, the larger count.
LEMMA MergeFields ==
  ASSUME NEW r \in Records, NEW s \in Records
  PROVE  /\ Merge(r, s) \in Records
         /\ Merge(r, s).sequence = IF Outranks(s, r) THEN s.sequence ELSE r.sequence
         /\ Merge(r, s).text = IF Outranks(s, r) THEN s.text ELSE r.text
         /\ Merge(r, s).usage = Larger(r.usage, s.usage)
  <1> DEFINE newest == IF Outranks(s, r) THEN s ELSE r
  <1>1. newest \in Records
    OBVIOUS
  <1>2. Larger(r.usage, s.usage) \in 0..MaxUsage
    BY RecordFields, CountersAreNatural DEF Larger
  <1>3. Merge(r, s) = [newest EXCEPT !.usage = Larger(r.usage, s.usage)]
    BY DEF Merge
  <1>4. QED
    BY <1>1, <1>2, <1>3 DEF Records

\* Two records with the same fields are the same record.
LEMMA SameFields ==
  ASSUME NEW r \in Records, NEW s \in Records,
         r.sequence = s.sequence, r.text = s.text, r.usage = s.usage
  PROVE  r = s
  BY RecordFields

\* It does not matter which of two copies was held and which arrived.
LEMMA MergeCommutes ==
  ASSUME NEW r \in Records, NEW s \in Records
  PROVE  Merge(r, s) = Merge(s, r)
  <1>1. /\ Merge(r, s).sequence = Merge(s, r).sequence
        /\ Merge(r, s).text = Merge(s, r).text
        /\ Merge(r, s).usage = Merge(s, r).usage
    BY MergeFields, RecordFields DEF Outranks, Larger
  <1>2. QED
    BY <1>1, MergeFields, SameFields

\* Nor does it matter which two of three copies met first.
LEMMA MergeAssociates ==
  ASSUME NEW q \in Records, NEW r \in Records, NEW s \in Records
  PROVE  Merge(Merge(q, r), s) = Merge(q, Merge(r, s))
  <1>1. /\ Merge(q, r) \in Records /\ Merge(r, s) \in Records
        /\ Merge(Merge(q, r), s) \in Records /\ Merge(q, Merge(r, s)) \in Records
    BY MergeFields
  <1>2. /\ q.sequence \in Nat /\ q.text \in Nat /\ q.usage \in Nat
        /\ r.sequence \in Nat /\ r.text \in Nat /\ r.usage \in Nat
        /\ s.sequence \in Nat /\ s.text \in Nat /\ s.usage \in Nat
    BY RecordFields
  <1>3. Merge(Merge(q, r), s).usage = Merge(q, Merge(r, s)).usage
    BY <1>1, <1>2, MergeFields DEF Larger
  <1>4. /\ Merge(Merge(q, r), s).sequence = Merge(q, Merge(r, s)).sequence
        /\ Merge(Merge(q, r), s).text = Merge(q, Merge(r, s)).text
    BY <1>1, <1>2, MergeFields DEF Outranks
  <1>5. QED
    BY <1>1, <1>3, <1>4, SameFields

\* Meeting the same copy again changes nothing.
LEMMA MergeIdempotent ==
  ASSUME NEW r \in Records
  PROVE  Merge(r, r) = r
  BY MergeFields, SameFields, RecordFields DEF Larger, Outranks
-----------------------------------------------------------------------------
(* Join: the same with absent entries                                       *)

\* Bundles may arrive late, twice, in any order and through third vaults: what a
\* shelf holds in the end is the join of what it met.
THEOREM JoinIsASemilattice ==
  /\ \A r, s \in Copies : Join(r, s) \in Copies /\ Join(r, s) = Join(s, r)
  /\ \A q, r, s \in Copies : Join(Join(q, r), s) = Join(q, Join(r, s))
  /\ \A r \in Copies : Join(r, r) = r
  <1>1. ASSUME NEW r \in Copies, NEW s \in Copies
        PROVE  Join(r, s) \in Copies /\ Join(r, s) = Join(s, r)
    BY MergeFields, MergeCommutes DEF Join, Copies
  <1>2. ASSUME NEW q \in Copies, NEW r \in Copies, NEW s \in Copies
        PROVE  Join(Join(q, r), s) = Join(q, Join(r, s))
    <2>1. CASE q = Absent
      BY <2>1, <1>1 DEF Join
    <2>2. CASE r = Absent
      BY <2>2 DEF Join
    <2>3. CASE s = Absent
      BY <2>3 DEF Join
    <2>4. CASE q \in Records /\ r \in Records /\ s \in Records
      <3>1. /\ Merge(q, r) \in Records /\ Merge(r, s) \in Records
        BY <2>4, MergeFields
      <3>2. QED
        BY <2>4, <3>1, RecordIsPresent, MergeAssociates DEF Join
    <2>5. QED
      BY <2>1, <2>2, <2>3, <2>4 DEF Copies
  <1>3. ASSUME NEW r \in Copies
        PROVE  Join(r, r) = r
    BY MergeIdempotent DEF Join, Copies
  <1>4. QED
    BY <1>1, <1>2, <1>3

\* Newness in every field is a preorder.
LEMMA CoversTransitive ==
  ASSUME NEW q \in Records, NEW r \in Records, NEW s \in Records, Covers(q, r), Covers(r, s)
  PROVE  Covers(q, s)
  BY RecordFields DEF Covers, Outranks

LEMMA CoversItself ==
  ASSUME NEW r \in Records
  PROVE  Covers(r, r)
  BY RecordFields DEF Covers, Outranks

\* A join is at least as new as both copies.
LEMMA JoinCovers ==
  ASSUME NEW r \in Copies, NEW s \in Copies
  PROVE  /\ (r # Absent \/ s # Absent) => Join(r, s) \in Records
         /\ r # Absent => Covers(Join(r, s), r)
         /\ s # Absent => Covers(Join(r, s), s)
  <1>1. CASE r = Absent \/ s = Absent
    BY <1>1, CoversItself DEF Join, Copies
  <1>2. CASE r \in Records /\ s \in Records
    <2>1. Join(r, s) = Merge(r, s)
      BY <1>2, RecordIsPresent DEF Join
    <2>2. QED
      BY <1>2, <2>1, MergeFields, RecordFields DEF Covers, Outranks, Larger
  <1>3. QED
    BY <1>1, <1>2 DEF Copies
-----------------------------------------------------------------------------
(* The counter takes the greatest of what it met                            *)

\* A bounded set of numbers has a greatest one.
LEMMA GreatestExists ==
  ASSUME NEW S \in SUBSET Nat, S # {}, NEW b \in Nat, \A m \in S : m <= b
  PROVE  \E n \in S : \A m \in S : m <= n
  <1> DEFINE T == {1..(b - m) : m \in S}
  <1>1. T \subseteq FiniteSubsetsOf(Nat) /\ T # {}
    <2>1. \A m \in S : 1..(b - m) \in FiniteSubsetsOf(Nat)
      BY FS_Interval DEF FiniteSubsetsOf
    <2>2. QED
      BY <2>1
  <1>2. PICK u \in T : \A v \in T : ~(<<v, u>> \in StrictSubsetOrdering(Nat))
    BY <1>1, FS_StrictSubsetOrderingWellFounded, WFMin
  <1>3. PICK n \in S : u = 1..(b - n)
    BY <1>2
  <1>4. ASSUME NEW m \in S
        PROVE  m <= n
    <2>1. SUFFICES ASSUME m > n PROVE FALSE
      OBVIOUS
    <2>2. 1..(b - m) \subseteq 1..(b - n)
      BY <2>1
    <2>3. b - n \in 1..(b - n) /\ b - n \notin 1..(b - m)
      BY <2>1
    <2>4. <<1..(b - m), u>> \in StrictSubsetOrdering(Nat)
      BY <2>2, <2>3, <1>3 DEF StrictSubsetOrdering
    <2>5. QED
      BY <2>4, <1>2
  <1>5. QED
    BY <1>4
-----------------------------------------------------------------------------
(* The exchange: a copy and the edits it descends from                       *)

\* s is the join of the edits in N, said without computing it: it is above all of
\* them, and each of its fields comes from one of them.
Descends(s, N) ==
  /\ s \in Copies /\ N \in SUBSET Records
  /\ s = Absent <=> N = {}
  /\ s # Absent => /\ \A e \in N : Covers(s, e)
                   /\ \E e \in N : e.sequence = s.sequence /\ e.text = s.text
                   /\ \E e \in N : e.usage = s.usage

\* The edits determine the copy.
LEMMA DescendsUnique ==
  ASSUME NEW s, NEW t, NEW N, Descends(s, N), Descends(t, N)
  PROVE  s = t
  <1>1. CASE N = {}
    BY <1>1 DEF Descends
  <1>2. CASE N # {}
    <2>1. s \in Records /\ t \in Records /\ N \subseteq Records
      BY <1>2 DEF Descends, Copies
    <2>2. \A e \in N : Covers(s, e) /\ Covers(t, e)
      BY <1>2 DEF Descends
    <2>3. PICK a \in N : a.sequence = s.sequence /\ a.text = s.text
      BY <1>2 DEF Descends
    <2>4. PICK b \in N : b.sequence = t.sequence /\ b.text = t.text
      BY <1>2 DEF Descends
    <2>5. PICK c \in N : c.usage = s.usage
      BY <1>2 DEF Descends
    <2>6. PICK d \in N : d.usage = t.usage
      BY <1>2 DEF Descends
    <2>7. s.usage = t.usage
      BY <2>1, <2>2, <2>5, <2>6, RecordFields DEF Covers
    <2>8. s.sequence = t.sequence /\ s.text = t.text
      BY <2>1, <2>2, <2>3, <2>4, RecordFields DEF Covers, Outranks
    <2>9. QED
      BY <2>1, <2>7, <2>8, SameFields
  <1>3. QED
    BY <1>1, <1>2

\* A single edit descends from itself.
LEMMA DescendsEdit ==
  ASSUME NEW e \in Records
  PROVE  Descends(e, {e})
  BY CoversItself, RecordIsPresent DEF Descends, Copies

\* Joining two copies unites their edits.
LEMMA DescendsJoin ==
  ASSUME NEW s, NEW t, NEW M, NEW N, Descends(s, M), Descends(t, N)
  PROVE  Descends(Join(s, t), M \cup N)
  <1>1. CASE s = Absent
    <2>1. Join(s, t) = t /\ M \cup N = N
      BY <1>1 DEF Join, Descends
    <2>2. QED
      BY <2>1
  <1>2. CASE t = Absent
    <2>1. Join(s, t) = s /\ M \cup N = M
      BY <1>2 DEF Join, Descends
    <2>2. QED
      BY <2>1
  <1>3. CASE s # Absent /\ t # Absent
    <2>1. s \in Records /\ t \in Records /\ M \subseteq Records /\ N \subseteq Records
      BY <1>3 DEF Descends, Copies
    <2> DEFINE j == Merge(s, t)
    <2>2. Join(s, t) = j /\ j \in Records /\ Covers(j, s) /\ Covers(j, t)
      BY <1>3, <2>1, JoinCovers, MergeFields DEF Join, Copies
    <2>3. \A e \in M \cup N : Covers(j, e)
      <3>1. ASSUME NEW e \in M PROVE Covers(j, e)
        BY <1>3, <2>1, <2>2, CoversTransitive DEF Descends
      <3>2. ASSUME NEW e \in N PROVE Covers(j, e)
        BY <1>3, <2>1, <2>2, CoversTransitive DEF Descends
      <3>3. QED
        BY <3>1, <3>2
    <2>4. \E e \in M \cup N : e.sequence = j.sequence /\ e.text = j.text
      <3>1. \/ j.sequence = s.sequence /\ j.text = s.text
            \/ j.sequence = t.sequence /\ j.text = t.text
        BY <2>1, MergeFields
      <3>2. QED
        BY <1>3, <3>1 DEF Descends
    <2>5. \E e \in M \cup N : e.usage = j.usage
      <3>1. j.usage \in {s.usage, t.usage}
        BY <2>1, MergeFields DEF Larger
      <3>2. QED
        BY <1>3, <3>1 DEF Descends
    <2>6. M \cup N # {} /\ j # Absent
      BY <1>3, <2>2, RecordIsPresent DEF Descends
    <2>7. QED
      BY <2>1, <2>2, <2>3, <2>4, <2>5, <2>6 DEF Descends, Copies
  <1>4. QED
    BY <1>1, <1>2, <1>3
-----------------------------------------------------------------------------
(* The inductive invariant                                                  *)

ShelfDescends == \A p \in Peers, id \in SharedIds : Descends(shelf[p][id], known[p][id])
BundleDescends == \A b \in bundles, id \in SharedIds : Descends(b.record[id], b.news[id])
CounterAhead == \A p \in Peers, id \in SharedIds : \A e \in known[p][id] : e.sequence <= counter[p]

ExchangeInv == ExchangeTypeOK /\ ShelfDescends /\ BundleDescends /\ CounterAhead

\* Empty shelves descend from no edits.
LEMMA StartsDescended == ExchangeInit => ExchangeInv
  <1> SUFFICES ASSUME ExchangeInit PROVE ExchangeInv
    OBVIOUS
  <1>1. Descends(Absent, {})
    BY DEF Descends, Copies
  <1>2. ExchangeTypeOK
    BY CountersAreNatural DEF ExchangeInit, ExchangeTypeOK, Shelves, News
  <1>3. QED
    BY <1>1, <1>2 DEF ExchangeInit, ExchangeInv, ShelfDescends, BundleDescends, CounterAhead

\* Recording: the edit joins what the shelf holds.
LEMMA RecordAtKeeps ==
  ASSUME ExchangeInv, NEW p \in Peers, NEW id \in SharedIds, NEW t \in Texts, RecordAt(p, id, t)
  PROVE  ExchangeInv'
  <1> DEFINE edit == Edit(t, counter[p] + 1)
  <1> USE DEF ExchangeInv
  <1>1. /\ counter[p] \in Nat /\ counter[p] < MaxSequence /\ edit \in Records
        /\ edit.sequence = counter[p] + 1
    BY CountersAreNatural DEF ExchangeTypeOK, RecordAt, Edit, Records
  <1>2. /\ shelf' = [shelf EXCEPT ![p][id] = Join(shelf[p][id], edit)]
        /\ known' = [known EXCEPT ![p][id] = known[p][id] \cup {edit}]
        /\ counter' = [counter EXCEPT ![p] = counter[p] + 1]
        /\ UNCHANGED bundles
    BY DEF RecordAt
  <1>3. Descends(Join(shelf[p][id], edit), known[p][id] \cup {edit})
    BY <1>1, DescendsEdit, DescendsJoin DEF ShelfDescends
  <1>4. Join(shelf[p][id], edit) \in Copies /\ known[p][id] \cup {edit} \in SUBSET Records
    BY <1>3 DEF Descends
  <1>5. ExchangeTypeOK'
    BY <1>1, <1>2, <1>4, CountersAreNatural DEF ExchangeTypeOK, Shelves, News, Copies
  <1>6. ShelfDescends'
    BY <1>2, <1>3 DEF ShelfDescends, ExchangeTypeOK, Shelves, News
  <1>7. BundleDescends'
    BY <1>2 DEF BundleDescends
  <1>8. CounterAhead'
    <2> SUFFICES ASSUME NEW q \in Peers, NEW i \in SharedIds, NEW e \in known'[q][i]
                 PROVE  e.sequence <= counter'[q]
      BY DEF CounterAhead
    <2>1. counter[q] \in Nat /\ counter'[q] = IF q = p THEN counter[q] + 1 ELSE counter[q]
      BY <1>2 DEF ExchangeTypeOK
    <2>2. CASE e \in known[q][i]
      <3>1. e.sequence \in Nat /\ e.sequence <= counter[q]
        BY <2>2, RecordFields DEF CounterAhead, ExchangeTypeOK, News
      <3>2. QED
        BY <2>1, <3>1
    <2>3. CASE e \notin known[q][i]
      <3>1. q = p /\ e = edit
        BY <2>3, <1>2 DEF ExchangeTypeOK, News
      <3>2. QED
        BY <3>1, <2>1, <1>1
    <2>4. QED
      BY <2>2, <2>3
  <1>9. QED
    BY <1>5, <1>6, <1>7, <1>8

\* Counting: the counted copy is itself the newest edit.
LEMMA BumpUsageKeeps ==
  ASSUME ExchangeInv, NEW p \in Peers, NEW id \in SharedIds, BumpUsage(p, id)
  PROVE  ExchangeInv'
  <1> DEFINE s == shelf[p][id]
             c == [s EXCEPT !.usage = s.usage + 1]
  <1> USE DEF ExchangeInv
  <1>1. s \in Records /\ known[p][id] \in SUBSET Records
    BY DEF ExchangeTypeOK, Shelves, News, BumpUsage
  <1>2. /\ c \in Records /\ c.sequence = s.sequence /\ c.text = s.text /\ c.usage = s.usage + 1
    BY <1>1, CountersAreNatural DEF Records, BumpUsage
  <1>3. /\ shelf' = [shelf EXCEPT ![p][id] = c]
        /\ UNCHANGED <<counter, bundles>>
    BY DEF BumpUsage
  <1>4. shelf'[p][id] = c
    BY <1>3 DEF ExchangeTypeOK, Shelves
  <1>5. known' = [known EXCEPT ![p][id] = known[p][id] \cup {c}]
    BY <1>4 DEF BumpUsage
  <1>6. Descends(c, known[p][id] \cup {c})
    <2>1. Covers(c, s)
      BY <1>1, <1>2, RecordFields DEF Covers, Outranks
    <2>2. \A e \in known[p][id] : Covers(s, e)
      BY <1>1, RecordIsPresent DEF ShelfDescends, Descends
    <2>3. \A e \in known[p][id] \cup {c} : Covers(c, e)
      BY <1>1, <1>2, <2>1, <2>2, CoversTransitive, CoversItself
    <2>4. QED
      BY <1>1, <1>2, <2>3, RecordIsPresent DEF Descends, Copies
  <1>7. ExchangeTypeOK'
    BY <1>1, <1>2, <1>3, <1>5 DEF ExchangeTypeOK, Shelves, News
  <1>8. ShelfDescends'
    BY <1>3, <1>5, <1>6 DEF ShelfDescends, ExchangeTypeOK, Shelves, News
  <1>9. BundleDescends'
    BY <1>3 DEF BundleDescends
  <1>10. c.sequence <= counter[p]
    <2>1. PICK e \in known[p][id] : e.sequence = s.sequence
      BY <1>1, RecordIsPresent DEF ShelfDescends, Descends
    <2>2. QED
      BY <1>2, <2>1 DEF CounterAhead
  <1>11. CounterAhead'
    BY <1>3, <1>5, <1>10 DEF CounterAhead, ExchangeTypeOK, News
  <1>12. QED
    BY <1>7, <1>8, <1>9, <1>11

\* Removal forgets the copy and its edits.
LEMMA RemoveAtKeeps ==
  ASSUME ExchangeInv, NEW p \in Peers, NEW id \in SharedIds, RemoveAt(p, id)
  PROVE  ExchangeInv'
  <1> USE DEF ExchangeInv
  <1>1. /\ shelf' = [shelf EXCEPT ![p][id] = Absent]
        /\ known' = [known EXCEPT ![p][id] = {}]
        /\ UNCHANGED <<counter, bundles>>
    BY DEF RemoveAt
  <1>2. Descends(Absent, {})
    BY DEF Descends, Copies
  <1>3. ExchangeTypeOK'
    BY <1>1 DEF ExchangeTypeOK, Shelves, News
  <1>4. ShelfDescends'
    BY <1>1, <1>2 DEF ShelfDescends, ExchangeTypeOK, Shelves, News
  <1>5. BundleDescends'
    BY <1>1 DEF BundleDescends
  <1>6. CounterAhead'
    BY <1>1 DEF CounterAhead, ExchangeTypeOK, News
  <1>7. QED
    BY <1>3, <1>4, <1>5, <1>6

\* A bundle carries the shelf and its edits as they are.
LEMMA ExportKeeps ==
  ASSUME ExchangeInv, NEW p \in Peers, Export(p)
  PROVE  ExchangeInv'
  <1> USE DEF ExchangeInv
  <1> DEFINE b == [record |-> shelf[p], news |-> known[p]]
  <1>1. bundles' = bundles \cup {b} /\ UNCHANGED <<shelf, counter, known>>
    BY DEF Export
  <1>2. ExchangeTypeOK'
    BY <1>1 DEF ExchangeTypeOK
  <1>3. BundleDescends'
    BY <1>1 DEF BundleDescends, ShelfDescends
  <1>4. ShelfDescends' /\ CounterAhead'
    BY <1>1 DEF ShelfDescends, CounterAhead
  <1>5. QED
    BY <1>2, <1>3, <1>4

\* An import joins every record of the bundle and catches up with it.
LEMMA ImportAtKeeps ==
  ASSUME ExchangeInv, NEW p \in Peers, NEW b \in bundles, ImportAt(p, b)
  PROVE  ExchangeInv'
  <1> USE DEF ExchangeInv
  <1> DEFINE joined == [id \in SharedIds |-> Join(shelf[p][id], b.record[id])]
             united == [id \in SharedIds |-> known[p][id] \cup b.news[id]]
             top == CHOOSE n \in Met(p, b) : \A m \in Met(p, b) : m <= n
  <1>1. /\ shelf' = [shelf EXCEPT ![p] = joined]
        /\ known' = [known EXCEPT ![p] = united]
        /\ counter' = [counter EXCEPT ![p] = top]
        /\ UNCHANGED bundles
    BY DEF ImportAt
  <1>2. ASSUME NEW id \in SharedIds
        PROVE  /\ Descends(shelf[p][id], known[p][id]) /\ Descends(b.record[id], b.news[id])
               /\ Descends(joined[id], united[id])
               /\ joined[id] \in Copies /\ united[id] \in SUBSET Records
    <2>1. Descends(shelf[p][id], known[p][id]) /\ Descends(b.record[id], b.news[id])
      BY DEF ShelfDescends, BundleDescends
    <2>2. Descends(joined[id], united[id])
      BY <2>1, DescendsJoin
    <2>3. QED
      BY <2>1, <2>2 DEF Descends
  <1>3. counter[p] \in 0..MaxSequence
    BY DEF ExchangeTypeOK
  <1>4. ASSUME NEW id \in SharedIds, b.record[id] # Absent
        PROVE  /\ joined[id] \in Records /\ joined[id].sequence \in 0..MaxSequence
               /\ Covers(joined[id], b.record[id])
    <2>1. b.record[id] \in Copies /\ shelf[p][id] \in Copies
      BY <1>2 DEF Descends
    <2>2. joined[id] \in Records /\ Covers(joined[id], b.record[id])
      BY <1>4, <2>1, JoinCovers
    <2>3. QED
      BY <2>2 DEF Records
  <1>5. Met(p, b) \in SUBSET (0..MaxSequence) /\ counter[p] \in Met(p, b)
    BY <1>3, <1>4 DEF Met
  <1>6. top \in Met(p, b) /\ \A m \in Met(p, b) : m <= top
    <2>1. Met(p, b) \in SUBSET Nat /\ Met(p, b) # {} /\ \A m \in Met(p, b) : m <= MaxSequence
      BY <1>5
    <2>2. \E n \in Met(p, b) : \A m \in Met(p, b) : m <= n
      BY <2>1, CountersAreNatural, GreatestExists
    <2>3. QED
      BY <2>2
  <1>7. ExchangeTypeOK'
    <2>1. joined \in Shelves /\ united \in News
      BY <1>2 DEF Shelves, News, Copies
    <2>2. top \in 0..MaxSequence
      BY <1>5, <1>6
    <2>3. QED
      BY <1>1, <2>1, <2>2 DEF ExchangeTypeOK
  <1>8. ShelfDescends'
    <2> SUFFICES ASSUME NEW q \in Peers, NEW id \in SharedIds
                 PROVE  Descends(shelf'[q][id], known'[q][id])
      BY DEF ShelfDescends
    <2>1. CASE q = p
      <3>1. shelf'[q][id] = joined[id] /\ known'[q][id] = united[id]
        BY <1>1, <2>1 DEF ExchangeTypeOK
      <3>2. QED
        BY <3>1, <1>2
    <2>2. CASE q # p
      BY <1>1, <2>2 DEF ShelfDescends, ExchangeTypeOK
    <2>3. QED
      BY <2>1, <2>2
  <1>9. BundleDescends'
    BY <1>1 DEF BundleDescends
  <1>10. CounterAhead'
    <2> SUFFICES ASSUME NEW q \in Peers, NEW id \in SharedIds, NEW e \in known'[q][id]
                 PROVE  e.sequence <= counter'[q]
      BY DEF CounterAhead
    <2>1. CASE q # p
      BY <1>1, <2>1 DEF CounterAhead, ExchangeTypeOK
    <2>2. CASE q = p
      <3>1. counter'[q] = top /\ e \in united[id] /\ e \in Records
        BY <1>1, <1>2, <2>2 DEF ExchangeTypeOK
      <3>2. top \in Nat /\ counter[p] <= top /\ e.sequence \in Nat /\ counter[p] \in Nat
        BY <1>3, <1>5, <1>6, <3>1, RecordFields
      <3>3. CASE e \in known[p][id]
        <4>1. e.sequence <= counter[p]
          BY <3>3 DEF CounterAhead
        <4>2. QED
          BY <3>1, <3>2, <4>1
      <3>4. CASE e \in b.news[id]
        <4>1. b.record[id] # Absent /\ b.record[id] \in Records /\ Covers(b.record[id], e)
          BY <3>4, <1>2 DEF Descends, Copies
        <4>2. joined[id] \in Records /\ Covers(joined[id], e)
          BY <4>1, <1>4, <3>1, CoversTransitive
        <4>3. joined[id].sequence \in Met(p, b)
          BY <4>1 DEF Met
        <4>4. joined[id].sequence <= top
          BY <4>3, <1>6
        <4>5. QED
          BY <4>2, <4>4, <3>1, <3>2, RecordFields DEF Covers, Outranks
      <3>5. QED
        BY <3>1, <3>3, <3>4
    <2>3. QED
      BY <2>1, <2>2
  <1>11. QED
    BY <1>7, <1>8, <1>9, <1>10

LEMMA ExchangeKeeps == ExchangeInv /\ [ExchangeNext]_exchangeVars => ExchangeInv'
  <1> SUFFICES ASSUME ExchangeInv, [ExchangeNext]_exchangeVars PROVE ExchangeInv'
    OBVIOUS
  <1>1. CASE UNCHANGED exchangeVars
    BY <1>1 DEF exchangeVars, ExchangeInv, ExchangeTypeOK, ShelfDescends, BundleDescends, CounterAhead
  <1>2. CASE ExchangeNext
    BY <1>2, RecordAtKeeps, BumpUsageKeeps, RemoveAtKeeps, ExportKeeps, ImportAtKeeps DEF ExchangeNext
  <1>3. QED
    BY <1>1, <1>2

\* Every shelf is the join of the edits it descends from.
THEOREM ExchangeInvariant == ExchangeSpec => []ExchangeInv
  BY StartsDescended, ExchangeKeeps, PTL DEF ExchangeSpec

\* Two vaults whose records descend from the same edits hold the same records
\* (Vault::import), for any number of vaults, records, texts and bundles.
THEOREM SameEditsSameRecords == ExchangeSpec => []SameNewsSameShelf
  <1>1. ExchangeInv => SameNewsSameShelf
    <2> SUFFICES ASSUME ExchangeInv, NEW p \in Peers, NEW q \in Peers, NEW id \in SharedIds,
                        known[p][id] = known[q][id]
                 PROVE  shelf[p][id] = shelf[q][id]
      BY DEF SameNewsSameShelf
    <2>1. /\ Descends(shelf[p][id], known[p][id])
          /\ Descends(shelf[q][id], known[p][id])
      BY DEF ExchangeInv, ShelfDescends
    <2>2. QED
      BY <2>1, DescendsUnique
  <1>2. QED
    BY <1>1, ExchangeInvariant, PTL

\* A record is at least as new as every edit it descends from: merge_from loses none.
THEOREM NoEditForgotten == ExchangeSpec => []NothingForgotten
  <1>1. ExchangeInv => NothingForgotten
    BY DEF ExchangeInv, ShelfDescends, Descends, NothingForgotten
  <1>2. QED
    BY <1>1, ExchangeInvariant, PTL

\* next_sequence is ahead of every edit the vault has met, so the edit it numbers
\* outranks them all.
THEOREM LocalEditsPrevail == ExchangeSpec => EditPrevails
  <1> DEFINE Prevails == \A p \in Peers, id \in SharedIds, t \in Texts :
               RecordAt(p, id, t) => \A e \in known[p][id] : Outranks(Edit(t, counter'[p]), e)
  <1>1. ExchangeInv => Prevails
    <2> SUFFICES ASSUME ExchangeInv, NEW p \in Peers, NEW id \in SharedIds, NEW t \in Texts,
                        RecordAt(p, id, t), NEW e \in known[p][id]
                 PROVE  Outranks(Edit(t, counter'[p]), e)
      OBVIOUS
    <2>1. counter[p] \in Nat /\ counter'[p] = counter[p] + 1
      BY DEF ExchangeInv, ExchangeTypeOK, RecordAt
    <2>2. e.sequence \in Nat /\ e.sequence <= counter[p]
      BY RecordFields DEF ExchangeInv, ExchangeTypeOK, News, CounterAhead
    <2>3. QED
      BY <2>1, <2>2 DEF Outranks, Edit
  <1>2. [][Prevails]_exchangeVars => EditPrevails
    BY DEF EditPrevails
  <1>3. QED
    BY <1>1, <1>2, ExchangeInvariant, PTL
-----------------------------------------------------------------------------
(* The vault: what its keys hold on disk and in memory                       *)

Numbered == Ids \cup Sessions
AtLeast(e, n) == e # Absent /\ n <= e.sequence

\* Every key of the disk holds entries of its kind, and what loads may survive.
DiskTyped ==
  /\ readable \in [Keys -> Entries \cup {Absent}]
  /\ survivors \in [Keys -> SUBSET (Entries \cup {Absent})]
  /\ committed \in [Keys -> Entries \cup {Absent}]
  /\ issued \in [Keys -> 0..MaxSequence]
  /\ \A k \in Keys : /\ survivors[k] \subseteq EntryOf(k) \cup {Absent}
                     /\ readable[k] \in survivors[k]
                     /\ committed[k] \in EntryOf(k) \cup {Absent}
                     /\ k \notin Numbered => issued[k] = 0
  /\ removed \in SUBSET Ids /\ doubtful \in SUBSET Ids

\* The header that loads is the newest that may survive.
NewestLoads ==
  \A h \in survivors[Meta] : h # Absent => AtLeast(readable[Meta], h.sequence)

CommittedSurvives ==
  \A k \in Keys \ doubtful : \A e \in survivors[k] : Retains(k, e, committed[k])

RemovedStays == \A id \in removed : survivors[id] = {Absent}

DiskInv == DiskTyped /\ NewestLoads /\ DataPrecedesHeader /\ CommittedSurvives /\ RemovedStays

\* Memory holds entries of their kind, and dirty keys hold one.
MemTyped ==
  /\ mem \in [Keys -> Entries \cup {Absent}]
  /\ open \in BOOLEAN
  /\ \A k \in Keys : mem[k] \in EntryOf(k) \cup {Absent}
  /\ open => mem[Meta] # Absent
  /\ dirty \in SUBSET Keys
  /\ \A k \in dirty : open /\ mem[k] # Absent

\* The counter is never behind an entry in memory, nor behind a header on disk.
CounterLeads ==
  open => /\ \A k \in Numbered : mem[k] # Absent => mem[k].sequence <= mem[Meta].sequence
          /\ \A h \in survivors[Meta] : h # Absent => h.sequence <= mem[Meta].sequence

\* What this run numbered is in memory, and on disk unless it waits.
IssuedKept ==
  open => \A k \in Numbered : 0 < issued[k] =>
            /\ AtLeast(mem[k], issued[k])
            /\ k \notin dirty \cup doubtful => \A e \in survivors[k] : AtLeast(e, issued[k])

CommittedHeld == open => \A k \in Keys \ doubtful : Retains(k, mem[k], committed[k])

RemovedAbsent == open => \A id \in removed : mem[id] = Absent

MemInv == /\ MemTyped /\ CounterLeads /\ IssuedKept
          /\ DirtyCoversDisk /\ CommittedHeld /\ RemovedAbsent

IInv == DiskInv /\ MemInv
-----------------------------------------------------------------------------
(* Keys and entries                                                         *)

LEMMA Kinds ==
  /\ Meta \in Keys /\ Ids \subseteq Keys /\ Chunks \subseteq Keys /\ Sessions \subseteq Keys
  /\ Numbered \subseteq Keys /\ Meta \notin Numbered
  /\ \A k \in Ids : EntryOf(k) = Records
  /\ \A k \in Chunks : EntryOf(k) = Bitmaps
  /\ \A k \in Sessions \cup {Meta} : EntryOf(k) = Counters
  /\ \A k \in Keys : EntryOf(k) \subseteq Entries /\ Absent \notin EntryOf(k)
  BY KeysAreDistinct, AbsentIsNoEntry DEF Keys, Numbered, EntryOf, Entries

\* The sequence number of an entry that has one.
LEMMA Sequences ==
  ASSUME NEW k \in Numbered \cup {Meta}, NEW e \in EntryOf(k)
  PROVE  e.sequence \in Nat /\ e.sequence <= MaxSequence /\ e.sequence \in 0..MaxSequence
  <1>1. CASE k \in Ids
    BY <1>1, Kinds, RecordFields
  <1>2. CASE k \in Sessions \cup {Meta}
    <2>1. e \in Counters
      BY <1>2, Kinds
    <2>2. e.sequence \in 0..MaxSequence
      BY <2>1 DEF Counters
    <2>3. QED
      BY <2>2, CountersAreNatural
  <1>3. QED
    BY <1>1, <1>2 DEF Numbered

LEMMA RetainsItself ==
  ASSUME NEW k \in Keys, NEW e \in EntryOf(k) \cup {Absent}
  PROVE  Retains(k, e, e)
  <1>1. CASE e # Absent
    <2>1. k \in Ids => Covers(e, e)
      BY <1>1, Kinds, CoversItself
    <2>2. k \in Sessions \cup {Meta} => e.sequence <= e.sequence
      <3>1. k \in Sessions \cup {Meta} => e.sequence \in Nat
        BY <1>1, Sequences DEF Numbered
      <3>2. QED
        BY <3>1
    <2>3. QED
      BY <1>1, <2>1, <2>2 DEF Retains
  <1>2. QED
    BY <1>1 DEF Retains

LEMMA RetainsTransitive ==
  ASSUME NEW k \in Keys, NEW c \in EntryOf(k) \cup {Absent}, NEW d \in EntryOf(k) \cup {Absent},
         NEW e \in EntryOf(k) \cup {Absent}, Retains(k, e, d), Retains(k, d, c)
  PROVE  Retains(k, e, c)
  <1>1. CASE c # Absent
    <2>1. d # Absent /\ e # Absent
      BY <1>1 DEF Retains
    <2>2. k \in Ids => Covers(e, c)
      <3>1. k \in Ids => Covers(e, d) /\ Covers(d, c)
        BY <1>1, <2>1 DEF Retains
      <3>2. QED
        BY <1>1, <2>1, <3>1, Kinds, CoversTransitive
    <2>3. k \in Chunks => c.regions \subseteq e.regions
      BY <1>1, <2>1 DEF Retains
    <2>4. k \in Sessions \cup {Meta} => c.sequence <= e.sequence
      <3>1. k \in Sessions \cup {Meta} => d.sequence <= e.sequence /\ c.sequence <= d.sequence
        BY <1>1, <2>1 DEF Retains
      <3>2. k \in Sessions \cup {Meta} =>
              c.sequence \in Nat /\ d.sequence \in Nat /\ e.sequence \in Nat
        BY <1>1, <2>1, Sequences DEF Numbered
      <3>3. QED
        BY <3>1, <3>2
    <2>5. QED
      BY <2>1, <2>2, <2>3, <2>4 DEF Retains
  <1>2. QED
    BY <1>1 DEF Retains

\* What retains a numbered entry is numbered at least as high.
LEMMA RetainsSequence ==
  ASSUME NEW k \in Numbered \cup {Meta}, NEW d \in EntryOf(k), NEW e \in EntryOf(k) \cup {Absent},
         Retains(k, e, d)
  PROVE  e \in EntryOf(k) /\ e # Absent /\ d.sequence <= e.sequence
  <1>1. d # Absent /\ e # Absent /\ e \in EntryOf(k)
    <2>1. k \in Keys
      BY Kinds
    <2>2. QED
      BY <2>1, Kinds DEF Retains
  <1>2. d.sequence \in Nat /\ e.sequence \in Nat
    BY <1>1, Sequences
  <1>3. CASE k \in Ids
    <2>1. Covers(e, d)
      BY <1>1, <1>3 DEF Retains
    <2>2. QED
      BY <1>1, <1>2, <2>1 DEF Covers, Outranks
  <1>4. CASE k \in Sessions \cup {Meta}
    BY <1>1, <1>4 DEF Retains
  <1>5. QED
    BY <1>1, <1>3, <1>4 DEF Numbered
-----------------------------------------------------------------------------
(* Steps of memory: nothing reaches the disk, what changes only grows, is    *)
(* queued and stays within the counter, and a new number is beyond it.      *)

MemoryStep ==
  /\ open /\ open' = open
  /\ UNCHANGED disk /\ doubtful' = doubtful
  /\ mem' \in [Keys -> Entries \cup {Absent}]
  /\ \A k \in Keys : mem'[k] \in EntryOf(k) \cup {Absent} /\ Retains(k, mem'[k], mem[k])
  /\ dirty' \in SUBSET Keys /\ dirty \subseteq dirty'
  /\ \A k \in dirty' : mem'[k] # Absent
  /\ \A k \in Keys \ {Meta} : mem'[k] # mem[k] => k \in dirty'
  /\ \A k \in Numbered : mem'[k] # Absent => mem'[k].sequence <= mem'[Meta].sequence
  /\ issued' \in [Keys -> 0..MaxSequence]
  /\ \A k \in Keys : \/ issued'[k] = issued[k]
                     \/ /\ k \in Numbered /\ k \in dirty' /\ AtLeast(mem'[k], issued'[k])
                        /\ mem[Meta].sequence < issued'[k]
  /\ removed' \subseteq removed /\ \A id \in removed' : mem'[id] = mem[id]

LEMMA MemoryStepKeeps ==
  ASSUME IInv, MemoryStep
  PROVE  IInv'
  <1> USE DEF IInv, DiskInv, MemInv
  <1>1. UNCHANGED <<readable, survivors, committed>> /\ open /\ open' /\ doubtful' = doubtful
    BY DEF MemoryStep, disk
  <1>2. /\ mem[Meta] \in EntryOf(Meta) /\ mem'[Meta] \in EntryOf(Meta)
        /\ mem[Meta].sequence \in Nat /\ mem'[Meta].sequence \in Nat
        /\ mem[Meta].sequence <= mem'[Meta].sequence
    <2>1. mem[Meta] \in EntryOf(Meta)
      BY <1>1, Kinds DEF MemTyped
    <2>2. mem'[Meta] \in EntryOf(Meta) \cup {Absent} /\ Retains(Meta, mem'[Meta], mem[Meta])
      BY Kinds DEF MemoryStep
    <2>3. QED
      BY <2>1, <2>2, RetainsSequence, Sequences
  <1>3. DiskTyped'
    <2>1. \A k \in Keys : k \notin Numbered => issued'[k] = 0
      BY DEF MemoryStep, DiskTyped
    <2>2. QED
      BY <1>1, <2>1 DEF DiskTyped, MemoryStep
  <1>4. NewestLoads' /\ CommittedSurvives' /\ RemovedStays'
    BY <1>1 DEF NewestLoads, CommittedSurvives, RemovedStays, MemoryStep
  <1>5. \A h \in survivors[Meta] : h # Absent => h.sequence \in Nat /\ h.sequence <= mem[Meta].sequence
    <2>1. \A h \in survivors[Meta] : h # Absent => h \in EntryOf(Meta)
      BY Kinds DEF DiskTyped
    <2>2. QED
      BY <1>1, <2>1, Sequences DEF CounterLeads
  <1>6. DataPrecedesHeader'
    <2> SUFFICES ASSUME NEW h \in survivors[Meta], NEW k \in Keys \ doubtful, h # Absent,
                        0 < issued'[k], issued'[k] <= h.sequence, NEW e \in survivors[k]
                 PROVE  e # Absent /\ issued'[k] <= e.sequence
      BY <1>1 DEF DataPrecedesHeader
    <2>1. issued'[k] \in Nat /\ h.sequence \in Nat /\ h.sequence <= mem[Meta].sequence
      BY <1>5 DEF MemoryStep
    <2>2. issued'[k] = issued[k]
      BY <1>2, <2>1 DEF MemoryStep
    <2>3. QED
      BY <2>2 DEF DataPrecedesHeader
  <1>7. MemTyped'
    BY <1>1, <1>2, Kinds DEF MemTyped, MemoryStep
  <1>8. CounterLeads'
    BY <1>1, <1>2, <1>5 DEF CounterLeads, MemoryStep
  <1>9. IssuedKept'
    <2> SUFFICES ASSUME NEW k \in Numbered, 0 < issued'[k]
                 PROVE  /\ AtLeast(mem'[k], issued'[k])
                        /\ k \notin dirty' \cup doubtful =>
                             \A e \in survivors[k] : AtLeast(e, issued'[k])
      BY <1>1 DEF IssuedKept
    <2>1. k \in Keys
      BY Kinds
    <2>2. CASE issued'[k] # issued[k]
      BY <2>1, <2>2 DEF MemoryStep
    <2>3. CASE issued'[k] = issued[k]
      <3>1. /\ AtLeast(mem[k], issued[k])
            /\ k \notin dirty \cup doubtful => \A e \in survivors[k] : AtLeast(e, issued[k])
        BY <1>1, <2>3 DEF IssuedKept
      <3>2. mem[k] \in EntryOf(k) /\ mem'[k] \in EntryOf(k) \cup {Absent}
        BY <2>1, <3>1 DEF MemTyped, AtLeast, MemoryStep
      <3>3. /\ mem'[k] # Absent /\ mem[k].sequence <= mem'[k].sequence
            /\ mem[k].sequence \in Nat /\ mem'[k].sequence \in Nat
        BY <2>1, <3>2, RetainsSequence, Sequences DEF MemoryStep
      <3>4. issued[k] \in Nat
        BY <2>1 DEF DiskTyped
      <3>5. AtLeast(mem'[k], issued'[k])
        BY <2>3, <3>1, <3>3, <3>4 DEF AtLeast
      <3>6. QED
        BY <2>3, <3>1, <3>5 DEF MemoryStep
    <2>4. QED
      BY <2>2, <2>3
  <1>10. DirtyCoversDisk'
    BY <1>1 DEF DirtyCoversDisk, MemoryStep
  <1>11. CommittedHeld'
    <2> SUFFICES ASSUME NEW k \in Keys \ doubtful
                 PROVE  Retains(k, mem'[k], committed[k])
      BY <1>1 DEF CommittedHeld
    <2>1. Retains(k, mem[k], committed[k]) /\ Retains(k, mem'[k], mem[k])
      BY <1>1 DEF CommittedHeld, MemoryStep
    <2>2. QED
      BY <2>1, RetainsTransitive DEF MemTyped, DiskTyped, MemoryStep
  <1>12. RemovedAbsent'
    BY <1>1 DEF RemovedAbsent, MemoryStep
  <1>13. QED
    BY <1>3, <1>4, <1>6, <1>7, <1>8, <1>9, <1>10, <1>11, <1>12
-----------------------------------------------------------------------------
(* The actions that change memory                                           *)

\* The counter of an open vault, and the number the next edit takes.
LEMMA NextNumber ==
  ASSUME IInv, open
  PROVE  /\ mem[Meta] \in Counters /\ sequence \in Nat /\ sequence <= MaxSequence
         /\ CanSequence => /\ sequence + 1 \in 0..MaxSequence
                           /\ [sequence |-> sequence + 1] \in Counters
  <1>1. mem[Meta] \in Counters
    BY Kinds DEF IInv, MemInv, MemTyped
  <1>2. sequence \in Nat /\ sequence <= MaxSequence
    BY <1>1, Kinds, Sequences DEF sequence
  <1>3. CanSequence => sequence + 1 \in 0..MaxSequence
    BY <1>2, CountersAreNatural DEF CanSequence
  <1>4. QED
    BY <1>1, <1>2, <1>3 DEF Counters

LEMMA EditedKeeps ==
  ASSUME IInv, CanSequence, NEW k \in Numbered, NEW entry \in EntryOf(k),
         Retains(k, entry, mem[k]), entry.sequence = sequence + 1, Edited(k, entry)
  PROVE  IInv'
  <1> DEFINE header == [sequence |-> sequence + 1]
  <1>1. open /\ k \in Keys /\ Meta \in Keys /\ k # Meta /\ entry # Absent /\ entry \in Entries
    BY Kinds DEF CanSequence
  <1>2. /\ sequence \in Nat /\ sequence + 1 \in 0..MaxSequence
        /\ header \in Counters /\ header \in EntryOf(Meta) /\ header \in Entries /\ header # Absent
    BY <1>1, NextNumber, Kinds
  <1>3. /\ mem \in [Keys -> Entries \cup {Absent}] /\ dirty \in SUBSET Keys
        /\ \A j \in dirty : mem[j] # Absent
        /\ \A j \in Keys : mem[j] \in EntryOf(j) \cup {Absent}
        /\ issued \in [Keys -> 0..MaxSequence]
    BY DEF IInv, MemInv, MemTyped, DiskInv, DiskTyped
  <1>4. /\ mem' \in [Keys -> Entries \cup {Absent}]
        /\ mem'[k] = entry /\ mem'[Meta] = header
        /\ \A j \in Keys \ {k, Meta} : mem'[j] = mem[j]
    BY <1>1, <1>2, <1>3 DEF Edited
  <1>5. /\ issued' \in [Keys -> 0..MaxSequence] /\ issued'[k] = sequence + 1
        /\ \A j \in Keys \ {k} : issued'[j] = issued[j]
    BY <1>1, <1>2, <1>3 DEF Edited
  <1>6. entry # mem[k]
    BY <1>1, <1>2 DEF IInv, MemInv, CounterLeads, sequence
  <1>7. dirty' = dirty \cup {Meta, k}
    BY <1>6 DEF Edited
  <1>8. ASSUME NEW j \in Keys
        PROVE  mem'[j] \in EntryOf(j) \cup {Absent} /\ Retains(j, mem'[j], mem[j])
    <2>1. CASE j = k
      BY <2>1, <1>4
    <2>2. CASE j = Meta
      <3>1. mem[Meta].sequence <= header.sequence
        BY <1>2 DEF sequence
      <3>2. QED
        BY <2>2, <3>1, <1>2, <1>4, Kinds, KeysAreDistinct DEF Retains
    <2>3. CASE j \notin {k, Meta}
      BY <2>3, <1>3, <1>4, RetainsItself
    <2>4. QED
      BY <2>1, <2>2, <2>3
  <1>9. \A j \in Numbered : mem'[j] # Absent => mem'[j].sequence <= mem'[Meta].sequence
    <2> SUFFICES ASSUME NEW j \in Numbered, mem'[j] # Absent, j # k
                 PROVE  mem'[j].sequence <= mem'[Meta].sequence
      BY <1>2, <1>4
    <2>1. j \in Keys /\ j # Meta /\ mem[j] \in EntryOf(j)
      BY <1>3, <1>4, Kinds
    <2>2. mem[j].sequence \in Nat /\ mem[j].sequence <= sequence
      BY <2>1, <1>1, <1>4, Sequences DEF IInv, MemInv, CounterLeads, sequence
    <2>3. QED
      BY <2>1, <2>2, <1>2, <1>4
  <1>10. \A j \in Keys : \/ issued'[j] = issued[j]
                         \/ /\ j \in Numbered /\ j \in dirty' /\ AtLeast(mem'[j], issued'[j])
                            /\ mem[Meta].sequence < issued'[j]
    BY <1>1, <1>2, <1>4, <1>5, <1>7 DEF AtLeast, sequence
  <1>11. removed' \subseteq removed /\ \A id \in removed' : mem'[id] = mem[id]
    <2>1. removed \subseteq Ids
      BY DEF IInv, DiskInv, DiskTyped
    <2>2. QED
      BY <2>1, <1>4, Kinds DEF Edited, Numbered
  <1>12. /\ open' = open /\ UNCHANGED disk /\ doubtful' = doubtful
         /\ dirty' \in SUBSET Keys /\ dirty \subseteq dirty'
         /\ \A j \in dirty' : mem'[j] # Absent
         /\ \A j \in Keys \ {Meta} : mem'[j] # mem[j] => j \in dirty'
    BY <1>1, <1>2, <1>3, <1>4, <1>7 DEF Edited
  <1>13. MemoryStep
    BY <1>1, <1>4, <1>5, <1>8, <1>9, <1>10, <1>11, <1>12 DEF MemoryStep
  <1>14. QED
    BY <1>13, MemoryStepKeeps

\* The next local edit outranks every copy in memory, so its text is the one held.
LEMMA EditOutranks ==
  ASSUME IInv, CanSequence, NEW id \in Ids, NEW t \in Texts
  PROVE  LET new == [sequence |-> sequence + 1, text |-> t, usage |-> 0]
             entry == Join(mem[id], new)
         IN  /\ entry \in Records /\ entry.sequence = sequence + 1 /\ entry.text = t
             /\ mem[id] # Absent => Covers(entry, mem[id])
  <1> DEFINE new == [sequence |-> sequence + 1, text |-> t, usage |-> 0]
  <1>1. new \in Records /\ open
    BY NextNumber, CountersAreNatural DEF Records, CanSequence
  <1>2. mem[id] \in Copies
    BY Kinds DEF IInv, MemInv, MemTyped, Copies
  <1>3. CASE mem[id] = Absent
    BY <1>1, <1>3 DEF Join
  <1>4. CASE mem[id] # Absent
    <2>1. mem[id] \in Records /\ Join(mem[id], new) = Merge(mem[id], new)
      BY <1>1, <1>2, <1>4, RecordIsPresent DEF Join, Copies
    <2>2. mem[id].sequence \in Nat /\ mem[id].sequence <= sequence /\ sequence \in Nat
      BY <1>1, <1>4, <2>1, RecordFields, NextNumber
         DEF IInv, MemInv, CounterLeads, Numbered, sequence
    <2>3. Outranks(new, mem[id])
      BY <2>2 DEF Outranks
    <2>4. /\ Merge(mem[id], new) \in Records
          /\ Merge(mem[id], new).sequence = new.sequence /\ Merge(mem[id], new).text = new.text
      BY <1>1, <2>1, <2>3, MergeFields
    <2>5. Covers(Join(mem[id], new), mem[id])
      BY <1>1, <1>2, <1>4, JoinCovers, RecordIsPresent DEF Copies
    <2>6. QED
      BY <2>1, <2>4, <2>5
  <1>5. QED
    BY <1>3, <1>4

LEMMA RecordKeeps ==
  ASSUME IInv, NEW id \in Ids, NEW t \in Texts, Record(id, t)
  PROVE  IInv'
  <1> DEFINE entry == Join(mem[id], [sequence |-> sequence + 1, text |-> t, usage |-> 0])
  <1>1. CanSequence /\ Edited(id, entry)
    BY DEF Record
  <1>2. /\ entry \in Records /\ entry.sequence = sequence + 1
        /\ mem[id] # Absent => Covers(entry, mem[id])
    BY <1>1, EditOutranks
  <1>3. id \in Numbered /\ entry \in EntryOf(id) /\ entry # Absent
    BY <1>2, Kinds, RecordIsPresent DEF Numbered
  <1>4. Retains(id, entry, mem[id])
    BY <1>2, <1>3, KeysAreDistinct DEF Retains
  <1> HIDE DEF entry
  <1>5. QED
    BY <1>1, <1>2, <1>3, <1>4, EditedKeeps

LEMMA SnapshotKeeps ==
  ASSUME IInv, NEW k \in Sessions, SnapshotSession(k)
  PROVE  IInv'
  <1> DEFINE entry == [sequence |-> sequence + 1]
  <1>1. CanSequence /\ open /\ Edited(k, entry)
    BY DEF SnapshotSession, CanSequence
  <1>2. entry \in Counters /\ sequence \in Nat
    BY <1>1, NextNumber
  <1>3. k \in Numbered /\ k \in Keys /\ entry \in EntryOf(k) /\ entry # Absent
    BY <1>2, Kinds DEF Numbered
  <1>4. mem[k] # Absent => mem[k].sequence \in Nat /\ mem[k].sequence <= sequence
    <2>1. mem[k] \in EntryOf(k) \cup {Absent}
      BY <1>3 DEF IInv, MemInv, MemTyped
    <2>2. QED
      BY <2>1, <1>1, <1>3, Sequences DEF IInv, MemInv, CounterLeads, sequence
  <1>5. Retains(k, entry, mem[k])
    BY <1>2, <1>3, <1>4, KeysAreDistinct DEF Retains
  <1>6. entry.sequence = sequence + 1
    OBVIOUS
  <1> HIDE DEF entry
  <1>7. QED
    BY <1>1, <1>3, <1>5, <1>6, EditedKeeps

\* A change of one entry that is no numbered edit: the traversal count of a route
\* or a region of a chunk.
LEMMA ChangedKeeps ==
  ASSUME IInv, open, NEW k \in Ids \cup Chunks, NEW entry \in EntryOf(k),
         Retains(k, entry, mem[k]),
         k \in Ids => mem[k] # Absent /\ entry.sequence = mem[k].sequence,
         mem' = [mem EXCEPT ![k] = entry],
         dirty' \in {dirty, dirty \cup {k}}, entry # mem[k] => k \in dirty',
         UNCHANGED <<open, disk, history>>
  PROVE  IInv'
  <1>1. k \in Keys /\ k # Meta /\ entry # Absent /\ entry \in Entries
    BY Kinds, KeysAreDistinct
  <1>2. /\ mem \in [Keys -> Entries \cup {Absent}] /\ dirty \in SUBSET Keys
        /\ \A j \in dirty : mem[j] # Absent
        /\ \A j \in Keys : mem[j] \in EntryOf(j) \cup {Absent}
        /\ issued \in [Keys -> 0..MaxSequence] /\ removed \subseteq Ids
    BY DEF IInv, MemInv, MemTyped, DiskInv, DiskTyped
  <1>3. /\ mem' \in [Keys -> Entries \cup {Absent}] /\ mem'[k] = entry
        /\ \A j \in Keys \ {k} : mem'[j] = mem[j]
    BY <1>1, <1>2
  <1>4. /\ UNCHANGED <<issued, removed, doubtful>> /\ UNCHANGED disk /\ open' = open
    BY DEF history
  <1>5. \A j \in Keys : mem'[j] \in EntryOf(j) \cup {Absent} /\ Retains(j, mem'[j], mem[j])
    BY <1>2, <1>3, RetainsItself
  <1>6. \A j \in Numbered : mem'[j] # Absent => mem'[j].sequence <= mem'[Meta].sequence
    <2>1. k \in Numbered => k \in Ids
      BY KeysAreDistinct DEF Numbered
    <2>2. \A j \in Numbered : mem[j] # Absent => mem[j].sequence <= mem[Meta].sequence
      BY DEF IInv, MemInv, CounterLeads
    <2>3. QED
      BY <1>1, <1>3, <2>1, <2>2, Kinds
  <1>7. \A id \in removed' : mem'[id] = mem[id]
    <2>1. \A id \in removed : mem[id] = Absent /\ id \in Keys
      BY <1>2, Kinds DEF IInv, MemInv, RemovedAbsent
    <2>2. k \notin removed
      BY <1>2, <2>1, KeysAreDistinct
    <2>3. QED
      BY <1>3, <1>4, <2>1, <2>2
  <1>8. /\ dirty' \in SUBSET Keys /\ dirty \subseteq dirty'
        /\ \A j \in dirty' : mem'[j] # Absent
        /\ \A j \in Keys \ {Meta} : mem'[j] # mem[j] => j \in dirty'
    BY <1>1, <1>2, <1>3
  <1>9. MemoryStep
    BY <1>2, <1>3, <1>4, <1>5, <1>6, <1>7, <1>8 DEF MemoryStep
  <1>10. QED
    BY <1>9, MemoryStepKeeps

LEMMA BumpKeeps ==
  ASSUME IInv, NEW id \in Routes, BumpRouteUsage(id)
  PROVE  IInv'
  <1> DEFINE usage == IF mem[id].usage = MaxUsage THEN mem[id].usage ELSE mem[id].usage + 1
             entry == [mem[id] EXCEPT !.usage = usage]
  <1>1. open /\ mem[id] # Absent /\ id \in Ids /\ id \in Keys
    BY Kinds DEF BumpRouteUsage, Ids
  <1>2. mem[id] \in Records /\ mem \in [Keys -> Entries \cup {Absent}]
    BY <1>1, Kinds DEF IInv, MemInv, MemTyped
  <1>3. usage \in 0..MaxUsage /\ mem[id].usage \in Nat /\ mem[id].usage <= usage
    BY <1>2, RecordFields, CountersAreNatural
  <1>4. /\ entry \in Records /\ entry.usage = usage
        /\ entry.sequence = mem[id].sequence /\ entry.text = mem[id].text
    BY <1>2, <1>3 DEF Records
  <1>5. entry \in EntryOf(id) /\ entry # Absent
    BY <1>1, <1>4, Kinds
  <1>6. Covers(entry, mem[id])
    BY <1>2, <1>3, <1>4, RecordFields DEF Covers, Outranks
  <1>7. Retains(id, entry, mem[id])
    BY <1>1, <1>5, <1>6, KeysAreDistinct DEF Retains
  <1>8. mem' = [mem EXCEPT ![id] = entry]
    BY <1>1, <1>2 DEF BumpRouteUsage
  <1>9. dirty' = dirty \cup {id} /\ UNCHANGED <<open, disk, history>>
    BY DEF BumpRouteUsage
  <1> HIDE DEF usage, entry
  <1>10. QED
    BY <1>1, <1>4, <1>5, <1>7, <1>8, <1>9, ChangedKeeps

LEMMA MarkKeeps ==
  ASSUME IInv, NEW c \in Chunks, NEW r \in Regions, MarkSeen(c, r)
  PROVE  IInv'
  <1> DEFINE entry == [regions |-> SeenRegions(c) \cup {r}]
  <1>1. open /\ c \in Keys /\ c \notin Ids /\ c \notin Sessions \cup {Meta}
    BY Kinds, KeysAreDistinct DEF MarkSeen
  <1>2. mem[c] \in Bitmaps \cup {Absent}
    BY <1>1, Kinds DEF IInv, MemInv, MemTyped
  <1>3. mem[c] # Absent => /\ mem[c].regions = SeenRegions(c)
                           /\ mem[c] = [regions |-> SeenRegions(c)]
    BY <1>2 DEF SeenRegions, Bitmaps
  <1>4. SeenRegions(c) \subseteq Regions
    BY <1>2 DEF SeenRegions, Bitmaps
  <1>5. entry \in EntryOf(c) /\ entry # Absent /\ entry.regions = SeenRegions(c) \cup {r}
    BY <1>1, <1>4, Kinds DEF Bitmaps
  <1>6. Retains(c, entry, mem[c])
    BY <1>1, <1>3, <1>5 DEF Retains
  <1>7. /\ dirty' \in {dirty, dirty \cup {c}} /\ (entry # mem[c] => c \in dirty')
    <2>1. CASE r \in SeenRegions(c)
      <3>1. SeenRegions(c) \cup {r} = SeenRegions(c) /\ mem[c] # Absent
        BY <2>1 DEF SeenRegions
      <3>2. dirty' = dirty
        BY <2>1 DEF MarkSeen
      <3>3. entry = mem[c]
        BY <1>3, <3>1
      <3>4. QED
        BY <3>2, <3>3
    <2>2. CASE r \notin SeenRegions(c)
      BY <2>2 DEF MarkSeen
    <2>3. QED
      BY <2>1, <2>2
  <1>8. mem' = [mem EXCEPT ![c] = entry] /\ UNCHANGED <<open, disk, history>>
    BY DEF MarkSeen
  <1> HIDE DEF entry
  <1>9. QED
    BY <1>1, <1>5, <1>6, <1>7, <1>8, ChangedKeeps

\* What an import may store: the join of both copies, which keeps what was held.
LEMMA ImportedCopies ==
  ASSUME IInv, NEW bundle \in Bundles
  PROVE  /\ Honest(bundle) \subseteq Ids
         /\ \A id \in Honest(bundle) :
              /\ Imported(bundle)[id] \in Records /\ Imported(bundle)[id] # Absent
              /\ Imported(bundle)[id].sequence \in 0..MaxSequence
              /\ Retains(id, Imported(bundle)[id], mem[id])
  <1>1. Honest(bundle) \subseteq Ids /\ \A id \in Honest(bundle) : bundle[id].record \in Records
    BY BundlesOfferRecords DEF Honest
  <1> SUFFICES ASSUME NEW id \in Honest(bundle)
               PROVE  LET copy == Imported(bundle)[id]
                      IN  /\ copy \in Records /\ copy # Absent
                          /\ copy.sequence \in 0..MaxSequence
                          /\ Retains(id, copy, mem[id])
    BY <1>1
  <1> DEFINE copy == Join(mem[id], bundle[id].record)
  <1>2. Imported(bundle)[id] = copy
    BY DEF Imported
  <1>3. id \in Keys /\ id \notin Chunks /\ id \notin Sessions \cup {Meta}
    BY <1>1, Kinds, KeysAreDistinct
  <1>4. mem[id] \in Copies /\ bundle[id].record \in Copies /\ bundle[id].record # Absent
    BY <1>1, <1>3, Kinds, RecordIsPresent DEF IInv, MemInv, MemTyped, Copies
  <1>5. copy \in Records /\ (mem[id] # Absent => Covers(copy, mem[id]))
    BY <1>4, JoinCovers
  <1>6. copy # Absent /\ copy.sequence \in 0..MaxSequence
    BY <1>5, RecordIsPresent DEF Records
  <1>7. Retains(id, copy, mem[id])
    BY <1>3, <1>5, <1>6 DEF Retains
  <1>8. QED
    BY <1>2, <1>5, <1>6, <1>7

\* The counter takes a number of those met that none of them exceeds.
LEMMA CaughtUpLeads ==
  ASSUME IInv, open, NEW bundle \in Bundles
  PROVE  /\ CaughtUp(bundle) \in 0..MaxSequence /\ sequence <= CaughtUp(bundle)
         /\ \A id \in Honest(bundle) : Imported(bundle)[id].sequence <= CaughtUp(bundle)
  <1> DEFINE met == {sequence} \cup {Imported(bundle)[id].sequence : id \in Honest(bundle)}
  <1>1. sequence \in 0..MaxSequence
    BY NextNumber
  <1>2. met \subseteq 0..MaxSequence /\ met # {}
    BY <1>1, ImportedCopies
  <1>3. met \in SUBSET Nat /\ \A m \in met : m <= MaxSequence
    BY <1>2, CountersAreNatural
  <1>4. \E n \in met : \A m \in met : m <= n
    BY <1>2, <1>3, CountersAreNatural, GreatestExists
  <1>5. CaughtUp(bundle) = CHOOSE n \in met : \A m \in met : m <= n
    BY DEF CaughtUp
  <1>6. CaughtUp(bundle) \in met /\ \A m \in met : m <= CaughtUp(bundle)
    BY <1>4, <1>5
  <1>7. QED
    BY <1>2, <1>6

LEMMA ImportKeeps ==
  ASSUME IInv, NEW bundle \in Bundles, Import(bundle)
  PROVE  IInv'
  <1> DEFINE header == [sequence |-> CaughtUp(bundle)]
  <1>1. open
    BY DEF Import
  <1>2. Honest(bundle) \subseteq Ids /\ Honest(bundle) \subseteq Keys /\ Meta \notin Honest(bundle)
    BY ImportedCopies, Kinds, KeysAreDistinct
  <1>3. /\ CaughtUp(bundle) \in 0..MaxSequence /\ sequence <= CaughtUp(bundle)
        /\ sequence \in Nat
    BY <1>1, CaughtUpLeads, NextNumber
  <1>4. /\ header \in EntryOf(Meta) /\ header \in Entries /\ header # Absent
        /\ header.sequence = CaughtUp(bundle)
    BY <1>3, Kinds DEF Counters
  <1>5. /\ mem \in [Keys -> Entries \cup {Absent}] /\ dirty \in SUBSET Keys
        /\ \A j \in dirty : mem[j] # Absent
        /\ \A j \in Keys : mem[j] \in EntryOf(j) \cup {Absent}
        /\ issued \in [Keys -> 0..MaxSequence] /\ removed \subseteq Ids
    BY DEF IInv, MemInv, MemTyped, DiskInv, DiskTyped
  <1>6. /\ \A k \in Honest(bundle) : mem'[k] = Imported(bundle)[k]
        /\ mem'[Meta] = header
        /\ \A k \in Keys \ (Honest(bundle) \cup {Meta}) : mem'[k] = mem[k]
    BY <1>2, Kinds DEF Import
  <1>7. ASSUME NEW k \in Keys
        PROVE  /\ mem'[k] \in EntryOf(k) \cup {Absent} /\ Retains(k, mem'[k], mem[k])
               /\ k \in Honest(bundle) \cup {Meta} => mem'[k] # Absent
    <2>1. CASE k \in Honest(bundle)
      BY <2>1, <1>2, <1>6, ImportedCopies, Kinds
    <2>2. CASE k = Meta
      BY <2>2, <1>3, <1>4, <1>6, Kinds, KeysAreDistinct DEF Retains, sequence
    <2>3. CASE k \notin Honest(bundle) \cup {Meta}
      BY <2>3, <1>5, <1>6, RetainsItself
    <2>4. QED
      BY <2>1, <2>2, <2>3
  <1>8. mem' \in [Keys -> Entries \cup {Absent}]
    <2>1. \A k \in Keys : mem'[k] \in Entries \cup {Absent}
      BY <1>7, Kinds
    <2>2. DOMAIN mem' = Keys /\ mem' = [k \in Keys |-> mem'[k]]
      BY DEF Import
    <2>3. QED
      BY <2>1, <2>2
  <1>9. ASSUME NEW k \in Numbered, mem'[k] # Absent
        PROVE  mem'[k].sequence <= mem'[Meta].sequence
    <2>1. CASE k \in Honest(bundle)
      BY <2>1, <1>1, <1>4, <1>6, CaughtUpLeads
    <2>2. CASE k \notin Honest(bundle)
      <3>1. k \in Keys /\ mem'[k] = mem[k] /\ mem[k] \in EntryOf(k)
        BY <2>2, <1>5, <1>6, <1>9, Kinds
      <3>2. mem[k].sequence \in Nat /\ mem[k].sequence <= sequence
        BY <3>1, <1>1, <1>9, Sequences DEF IInv, MemInv, CounterLeads, sequence
      <3>3. QED
        BY <3>1, <3>2, <1>3, <1>4, <1>6
    <2>3. QED
      BY <2>1, <2>2
  <1>10. /\ dirty' \in SUBSET Keys /\ dirty \subseteq dirty'
         /\ \A k \in dirty' : mem'[k] # Absent
         /\ \A k \in Keys \ {Meta} : mem'[k] # mem[k] => k \in dirty'
    <2>1. dirty' = dirty \cup {k \in Honest(bundle) \cup {Meta} : mem'[k] # mem[k]}
      BY DEF Import
    <2>2. \A k \in dirty : mem'[k] # Absent
      BY <1>5, <1>6, <1>7
    <2>3. QED
      BY <2>1, <2>2, <1>2, <1>5, <1>6, <1>7, Kinds
  <1>11. removed' \subseteq removed /\ \A id \in removed' : mem'[id] = mem[id]
    BY <1>5, <1>6, Kinds DEF Import, Numbered
  <1>12. open' = open /\ UNCHANGED disk /\ doubtful' = doubtful /\ issued' = issued
    BY DEF Import
  <1>13. MemoryStep
    BY <1>1, <1>5, <1>7, <1>8, <1>9, <1>10, <1>11, <1>12 DEF MemoryStep
  <1>14. QED
    BY <1>13, MemoryStepKeeps
-----------------------------------------------------------------------------
(* The actions that reach the disk                                          *)

\* What a call leaves on the disk: one key differs.
LEMMA StoredKey ==
  ASSUME DiskTyped, NEW k \in Keys, NEW v \in EntryOf(k) \cup {Absent}, Disk!Stored(k, v, {})
  PROVE  /\ readable' \in [Keys -> Entries \cup {Absent}]
         /\ survivors' \in [Keys -> SUBSET (Entries \cup {Absent})]
         /\ committed' \in [Keys -> Entries \cup {Absent}]
         /\ readable'[k] = v /\ survivors'[k] = {v} /\ committed'[k] = v
         /\ \A j \in Keys \ {k} : /\ readable'[j] = readable[j] /\ survivors'[j] = survivors[j]
                                  /\ committed'[j] = committed[j]
  <1>1. v \in Entries \cup {Absent}
    BY Kinds
  <1>2. QED
    BY <1>1 DEF DiskTyped, Disk!Stored

LEMMA LandedKey ==
  ASSUME DiskTyped, NEW k \in Keys, NEW v \in EntryOf(k) \cup {Absent}, Disk!Landed(k, v)
  PROVE  /\ readable' \in [Keys -> Entries \cup {Absent}]
         /\ survivors' \in [Keys -> SUBSET (Entries \cup {Absent})]
         /\ committed' = committed
         /\ readable'[k] = v /\ survivors'[k] = survivors[k] \cup {v}
         /\ \A j \in Keys \ {k} : readable'[j] = readable[j] /\ survivors'[j] = survivors[j]
  <1>1. v \in Entries \cup {Absent}
    BY Kinds
  <1>2. QED
    BY <1>1 DEF DiskTyped, Disk!Landed

\* The header is flushed last: when its turn comes nothing else is dirty.
LEMMA HeaderIsLast ==
  NextDirty(Meta) => dirty \subseteq {Meta} \/ ~(dirty \subseteq Keys)
  <1>1. FlushRank(Meta) = 5
    BY KeysAreDistinct DEF FlushRank, Ids
  <1>2. \A j \in Keys : j # Meta => FlushRank(j) \in 0..4
    BY DEF FlushRank, Keys, Ids
  <1>3. QED
    BY <1>1, <1>2 DEF NextDirty

\* A record whose removal succeeded is not there to be written or removed.
LEMMA RemovedIsGone ==
  ASSUME IInv, open, NEW k \in Keys, mem[k] # Absent
  PROVE  k \notin removed
  BY DEF IInv, MemInv, RemovedAbsent

\* What an open vault holds of a numbered entry, as it may reach the disk.
LEMMA PendingIsNumbered ==
  ASSUME IInv, open, NEW k \in Keys, mem[k] # Absent, 0 < issued[k]
  PROVE  k \in Numbered /\ issued[k] <= mem[k].sequence
  BY DEF IInv, DiskInv, DiskTyped, MemInv, IssuedKept, AtLeast

\* Once the header may be written, every number up to it is on disk.
LEMMA NumberedIsWritten ==
  ASSUME IInv, open, NextDirty(Meta), NEW j \in Keys \ doubtful, 0 < issued[j]
  PROVE  \A e \in survivors[j] : e # Absent /\ issued[j] <= e.sequence
  <1>1. j \in Numbered /\ j # Meta
    BY Kinds DEF IInv, DiskInv, DiskTyped
  <1>2. j \notin dirty
    BY <1>1, HeaderIsLast DEF IInv, MemInv, MemTyped
  <1>3. QED
    BY <1>1, <1>2 DEF IInv, MemInv, IssuedKept, AtLeast

\* A write that took effect without being reported.
LEMMA WriteLands ==
  ASSUME IInv, open, NEW k \in Keys, NextDirty(k), Disk!Landed(k, mem[k]),
         UNCHANGED <<issued, removed, doubtful>>
  PROVE  DiskInv'
  <1> USE DEF IInv, DiskInv
  <1>1. mem[k] # Absent /\ mem[k] \in EntryOf(k) /\ k \notin removed
    BY RemovedIsGone DEF MemInv, MemTyped, NextDirty
  <1>2. /\ readable' \in [Keys -> Entries \cup {Absent}]
        /\ survivors' \in [Keys -> SUBSET (Entries \cup {Absent})]
        /\ committed' = committed
        /\ readable'[k] = mem[k] /\ survivors'[k] = survivors[k] \cup {mem[k]}
        /\ \A j \in Keys \ {k} : readable'[j] = readable[j] /\ survivors'[j] = survivors[j]
    BY <1>1, LandedKey
  <1>3. DiskTyped'
    BY <1>1, <1>2 DEF DiskTyped
  <1>4. NewestLoads'
    <2>1. CASE k = Meta
      <3>1. \A h \in survivors[Meta] : h # Absent => h.sequence <= mem[Meta].sequence
        BY DEF MemInv, CounterLeads
      <3>2. mem[Meta].sequence \in Nat
        BY NextNumber DEF sequence
      <3>3. QED
        BY <2>1, <3>1, <3>2, <1>1, <1>2 DEF NewestLoads, AtLeast
    <2>2. CASE k # Meta
      BY <2>2, <1>2, Kinds DEF NewestLoads
    <2>3. QED
      BY <2>1, <2>2
  <1>5. DataPrecedesHeader'
    <2> SUFFICES ASSUME NEW h \in survivors'[Meta], NEW j \in Keys \ doubtful, h # Absent,
                        0 < issued[j], issued[j] <= h.sequence, NEW e \in survivors'[j]
                 PROVE  e # Absent /\ issued[j] <= e.sequence
      BY DEF DataPrecedesHeader
    <2>1. CASE j = k /\ e = mem[k]
      BY <2>1, <1>1, PendingIsNumbered
    <2>2. CASE e \in survivors[j] /\ h \in survivors[Meta]
      BY <2>2 DEF DataPrecedesHeader
    <2>3. CASE e \in survivors[j] /\ k = Meta
      BY <2>3, NumberedIsWritten
    <2>4. QED
      BY <2>1, <2>2, <2>3, <1>2, Kinds
  <1>6. CommittedSurvives'
    BY <1>2 DEF CommittedSurvives, MemInv, CommittedHeld
  <1>7. RemovedStays'
    BY <1>1, <1>2, Kinds DEF RemovedStays, DiskTyped
  <1>8. QED
    BY <1>3, <1>4, <1>5, <1>6, <1>7

\* A removal that was not reported, whether it took effect or not.
LEMMA RemovalLands ==
  ASSUME IInv, open, NEW id \in Removable, MayLand(id, Absent),
         doubtful' = doubtful \cup {id}, UNCHANGED <<issued, removed>>
  PROVE  /\ DiskInv'
         /\ UNCHANGED committed
         /\ readable'[id] \in {readable[id], Absent}
         /\ \A j \in Keys \ {id} : readable'[j] = readable[j] /\ survivors'[j] = survivors[j]
  <1> USE DEF IInv, DiskInv
  <1>1. id \in Ids /\ id \in Keys /\ id # Meta /\ mem[id] # Absent /\ id \notin removed
    <2>1. id \in Ids /\ mem[id] # Absent
      BY DEF Removable, Ids
    <2>2. QED
      BY <2>1, Kinds, KeysAreDistinct, RemovedIsGone
  <1>2. /\ readable' \in [Keys -> Entries \cup {Absent}]
        /\ survivors' \in [Keys -> SUBSET (Entries \cup {Absent})]
        /\ committed' = committed
        /\ survivors'[id] \subseteq survivors[id] \cup {Absent} /\ readable'[id] \in survivors'[id]
        /\ readable'[id] \in {readable[id], Absent}
        /\ \A j \in Keys \ {id} : readable'[j] = readable[j] /\ survivors'[j] = survivors[j]
    <2>1. CASE Disk!Landed(id, Absent)
      BY <2>1, <1>1, LandedKey
    <2>2. CASE UNCHANGED disk
      BY <2>2, <1>1 DEF disk, DiskTyped
    <2>3. QED
      BY <2>1, <2>2 DEF MayLand
  <1>3. DiskTyped'
    BY <1>1, <1>2 DEF DiskTyped
  <1>4. NewestLoads'
    BY <1>1, <1>2, Kinds DEF NewestLoads
  <1>5. DataPrecedesHeader'
    BY <1>1, <1>2, Kinds DEF DataPrecedesHeader
  <1>6. CommittedSurvives'
    BY <1>2 DEF CommittedSurvives
  <1>7. RemovedStays'
    BY <1>1, <1>2, Kinds DEF RemovedStays, DiskTyped
  <1>8. QED
    BY <1>2, <1>3, <1>4, <1>5, <1>6, <1>7

LEMMA FlushKeyKeeps ==
  ASSUME IInv, NEW k \in Keys, FlushKey(k)
  PROVE  IInv'
  <1> USE DEF IInv, DiskInv, MemInv
  <1>1. /\ open /\ open' /\ NextDirty(k) /\ mem[k] # Absent /\ mem[k] \in EntryOf(k)
        /\ mem' = mem /\ dirty' = dirty \ {k} /\ doubtful' = doubtful \ {k}
        /\ UNCHANGED <<issued, removed>>
    BY DEF FlushKey, MemTyped
  <1>2. /\ readable' \in [Keys -> Entries \cup {Absent}]
        /\ survivors' \in [Keys -> SUBSET (Entries \cup {Absent})]
        /\ committed' \in [Keys -> Entries \cup {Absent}]
        /\ readable'[k] = mem[k] /\ survivors'[k] = {mem[k]} /\ committed'[k] = mem[k]
        /\ \A j \in Keys \ {k} : /\ readable'[j] = readable[j] /\ survivors'[j] = survivors[j]
                                 /\ committed'[j] = committed[j]
    BY <1>1, StoredKey DEF FlushKey
  <1>3. k \notin removed
    BY <1>1, RemovedIsGone
  <1>4. Meta \in Keys /\ Meta \notin doubtful
    BY Kinds, KeysAreDistinct DEF DiskTyped
  <1>5. DiskTyped'
    BY <1>1, <1>2 DEF DiskTyped
  <1>6. mem[Meta].sequence \in Nat
    BY <1>1, NextNumber DEF sequence
  <1>7. NewestLoads'
    <2>1. CASE k = Meta
      BY <2>1, <1>1, <1>2, <1>6 DEF NewestLoads, AtLeast
    <2>2. CASE k # Meta
      BY <2>2, <1>2, <1>4 DEF NewestLoads
    <2>3. QED
      BY <2>1, <2>2
  <1>8. DataPrecedesHeader'
    <2> SUFFICES ASSUME NEW h \in survivors'[Meta], NEW j \in Keys \ doubtful', h # Absent,
                        0 < issued[j], issued[j] <= h.sequence, NEW e \in survivors'[j]
                 PROVE  e # Absent /\ issued[j] <= e.sequence
      BY <1>1 DEF DataPrecedesHeader
    <2>1. CASE j = k
      <3>1. e = mem[k]
        BY <2>1, <1>2
      <3>2. QED
        BY <2>1, <3>1, <1>1, PendingIsNumbered
    <2>2. CASE j # k /\ k = Meta
      BY <2>2, <1>1, <1>2, NumberedIsWritten
    <2>3. CASE j # k /\ k # Meta
      BY <2>3, <1>1, <1>2, <1>4 DEF DataPrecedesHeader
    <2>4. QED
      BY <2>1, <2>2, <2>3
  <1>9. CommittedSurvives'
    BY <1>1, <1>2, RetainsItself DEF CommittedSurvives
  <1>10. RemovedStays'
    BY <1>1, <1>2, <1>3, Kinds DEF RemovedStays, DiskTyped
  <1>11. MemTyped'
    BY <1>1 DEF MemTyped
  <1>12. CounterLeads'
    BY <1>1, <1>2, <1>4, <1>6 DEF CounterLeads
  <1>13. IssuedKept'
    <2> SUFFICES ASSUME NEW j \in Numbered, 0 < issued[j]
                 PROVE  /\ AtLeast(mem[j], issued[j])
                        /\ j \notin dirty' \cup doubtful' =>
                             \A e \in survivors'[j] : AtLeast(e, issued[j])
      BY <1>1 DEF IssuedKept
    <2>1. j \in Keys /\ AtLeast(mem[j], issued[j])
      BY <1>1, Kinds DEF IssuedKept
    <2>2. CASE j = k
      BY <2>1, <2>2, <1>2
    <2>3. CASE j # k
      BY <2>1, <2>3, <1>1, <1>2 DEF IssuedKept
    <2>4. QED
      BY <2>2, <2>3
  <1>14. DirtyCoversDisk'
    BY <1>1, <1>2 DEF DirtyCoversDisk
  <1>15. CommittedHeld'
    BY <1>1, <1>2, RetainsItself DEF CommittedHeld
  <1>16. RemovedAbsent'
    BY <1>1 DEF RemovedAbsent
  <1>17. QED
    BY <1>5, <1>7, <1>8, <1>9, <1>10, <1>11, <1>12, <1>13, <1>14, <1>15, <1>16

LEMMA FlushFailsKeeps ==
  ASSUME IInv, NEW k \in Keys, FlushFails(k)
  PROVE  IInv'
  <1>1. /\ open /\ open' = open /\ NextDirty(k) /\ mem[k] # Absent /\ k \in dirty
        /\ mem' = mem /\ dirty' = dirty /\ UNCHANGED <<issued, removed, doubtful>>
    BY DEF FlushFails, NextDirty
  <1>2. CASE UNCHANGED disk
    BY <1>1, <1>2 DEF IInv, DiskInv, MemInv, disk, DiskTyped, NewestLoads, DataPrecedesHeader,
         CommittedSurvives, RemovedStays, MemTyped, CounterLeads, IssuedKept,
         DirtyCoversDisk, CommittedHeld, RemovedAbsent
  <1>3. CASE Disk!Landed(k, mem[k])
    <2>1. DiskInv'
      BY <1>1, <1>3, WriteLands
    <2>2. /\ survivors'[k] = survivors[k] \cup {mem[k]} /\ committed' = committed
          /\ \A j \in Keys \ {k} : readable'[j] = readable[j] /\ survivors'[j] = survivors[j]
      BY <1>1, <1>3, LandedKey DEF IInv, DiskInv, MemInv, MemTyped
    <2>3. mem[Meta].sequence \in Nat
      BY <1>1, NextNumber DEF sequence
    <2> USE DEF IInv, MemInv
    <2>4. MemTyped' /\ CommittedHeld' /\ RemovedAbsent'
      BY <1>1, <2>2 DEF MemTyped, CommittedHeld, RemovedAbsent
    <2>5. CounterLeads'
      BY <1>1, <2>2, <2>3, Kinds DEF CounterLeads
    <2>6. IssuedKept' /\ DirtyCoversDisk'
      BY <1>1, <2>2, Kinds DEF IssuedKept, DirtyCoversDisk
    <2>7. QED
      BY <2>1, <2>4, <2>5, <2>6
  <1>4. QED
    BY <1>2, <1>3 DEF FlushFails, MayLand

LEMMA RemoveKeeps ==
  ASSUME IInv, NEW id \in Routes \cup Preserves, Remove(id)
  PROVE  IInv'
  <1> USE DEF IInv, DiskInv, MemInv
  <1>1. /\ open /\ open' = open /\ mem[id] # Absent
        /\ dirty' = dirty \ {id} /\ doubtful' = doubtful \ {id} /\ removed' = removed \cup {id}
    BY DEF Remove, Removable
  <1>2. id \in Ids /\ id \in Keys /\ id # Meta /\ Meta \in Keys
    BY Kinds, KeysAreDistinct DEF Ids
  <1>3. /\ readable' \in [Keys -> Entries \cup {Absent}]
        /\ survivors' \in [Keys -> SUBSET (Entries \cup {Absent})]
        /\ committed' \in [Keys -> Entries \cup {Absent}]
        /\ readable'[id] = Absent /\ survivors'[id] = {Absent} /\ committed'[id] = Absent
        /\ \A j \in Keys \ {id} : /\ readable'[j] = readable[j] /\ survivors'[j] = survivors[j]
                                  /\ committed'[j] = committed[j]
    BY <1>2, StoredKey DEF Remove
  <1>4. /\ mem' \in [Keys -> Entries \cup {Absent}] /\ mem'[id] = Absent
        /\ \A j \in Keys \ {id} : mem'[j] = mem[j]
    BY <1>2 DEF Remove, MemTyped
  <1>5. /\ issued' \in [Keys -> 0..MaxSequence] /\ issued'[id] = 0
        /\ \A j \in Keys \ {id} : issued'[j] = issued[j]
    BY <1>2, CountersAreNatural DEF Remove, DiskTyped
  <1>6. DiskTyped'
    BY <1>1, <1>2, <1>3, <1>5 DEF DiskTyped
  <1>7. NewestLoads'
    BY <1>2, <1>3 DEF NewestLoads
  <1>8. DataPrecedesHeader'
    BY <1>1, <1>2, <1>3, <1>5 DEF DataPrecedesHeader
  <1>9. CommittedSurvives'
    <2>1. \A e : Retains(id, e, Absent)
      BY DEF Retains
    <2>2. QED
      BY <1>1, <1>2, <1>3, <2>1 DEF CommittedSurvives
  <1>10. RemovedStays'
    BY <1>1, <1>2, <1>3, Kinds DEF RemovedStays, DiskTyped
  <1>11. MemTyped'
    BY <1>1, <1>2, <1>4 DEF MemTyped
  <1>12. CounterLeads'
    BY <1>1, <1>2, <1>3, <1>4, Kinds DEF CounterLeads
  <1>13. IssuedKept'
    BY <1>1, <1>3, <1>4, <1>5, Kinds DEF IssuedKept
  <1>14. DirtyCoversDisk'
    BY <1>1, <1>2, <1>3, <1>4 DEF DirtyCoversDisk
  <1>15. CommittedHeld'
    <2>1. Retains(id, Absent, Absent)
      BY DEF Retains
    <2>2. QED
      BY <1>1, <1>2, <1>3, <1>4, <2>1 DEF CommittedHeld
  <1>16. RemovedAbsent'
    BY <1>1, <1>2, <1>4, Kinds DEF RemovedAbsent, DiskTyped
  <1>17. QED
    BY <1>6, <1>7, <1>8, <1>9, <1>10, <1>11, <1>12, <1>13, <1>14, <1>15, <1>16

LEMMA RemoveFailsKeeps ==
  ASSUME IInv, NEW id \in Routes \cup Preserves, RemoveFails(id)
  PROVE  IInv'
  <1> USE DEF IInv, MemInv
  <1>1. /\ open /\ open' = open /\ id \in Removable /\ MayLand(id, Absent)
        /\ mem' = mem /\ dirty' = dirty /\ doubtful' = doubtful \cup {id}
        /\ UNCHANGED <<issued, removed>>
    BY DEF RemoveFails
  <1>2. /\ DiskInv'
        /\ UNCHANGED committed
        /\ readable'[id] \in {readable[id], Absent}
        /\ \A j \in Keys \ {id} : readable'[j] = readable[j] /\ survivors'[j] = survivors[j]
    BY <1>1, RemovalLands
  <1>3. Meta \in Keys /\ id # Meta /\ Numbered \subseteq Keys
    BY Kinds, KeysAreDistinct DEF Ids
  <1>4. MemTyped' /\ RemovedAbsent' /\ CommittedHeld'
    BY <1>1, <1>2 DEF MemTyped, RemovedAbsent, CommittedHeld
  <1>5. CounterLeads' /\ IssuedKept' /\ DirtyCoversDisk'
    BY <1>1, <1>2, <1>3 DEF CounterLeads, IssuedKept, DirtyCoversDisk
  <1>6. QED
    BY <1>2, <1>4, <1>5
-----------------------------------------------------------------------------
(* The environment, and opening again                                       *)

LEMMA CrashKeeps ==
  ASSUME IInv, Crash
  PROVE  IInv'
  <1>1. /\ open /\ open' = FALSE /\ dirty' = {} /\ UNCHANGED <<issued, removed>>
        /\ mem' = [k \in Keys |-> Absent]
    BY DEF Crash
  <1>2. DiskInv'
    <2>1. CASE UNCHANGED disk /\ UNCHANGED doubtful
      BY <2>1, <1>1 DEF IInv, DiskInv, disk, DiskTyped, NewestLoads, DataPrecedesHeader,
           CommittedSurvives, RemovedStays
    <2>2. CASE \E k \in Keys : NextDirty(k) /\ Disk!Landed(k, mem[k]) /\ UNCHANGED doubtful
      BY <2>2, <1>1, WriteLands
    <2>3. CASE \E k \in Removable : Disk!Landed(k, Absent) /\ doubtful' = doubtful \cup {k}
      BY <2>3, <1>1, RemovalLands DEF MayLand
    <2>4. QED
      BY <2>1, <2>2, <2>3 DEF Crash
  <1>3. MemTyped'
    BY <1>1 DEF MemTyped
  <1>4. QED
    BY <1>1, <1>2, <1>3
       DEF IInv, MemInv, CounterLeads, IssuedKept, DirtyCoversDisk, CommittedHeld, RemovedAbsent

LEMMA PowerLossKeeps ==
  ASSUME IInv, PowerLoss
  PROVE  IInv'
  <1> USE DEF IInv, DiskInv
  <1>1. ~open /\ UNCHANGED <<mem, dirty, open, issued, removed, doubtful>>
    BY DEF PowerLoss, history
  <1>2. /\ readable' \in [Keys -> UNION {survivors[k] : k \in Keys}]
        /\ \A k \in Keys : readable'[k] \in survivors[k]
        /\ survivors' = [k \in Keys |-> {readable'[k]}]
        /\ committed' = committed
    BY DEF PowerLoss, Disk!PowerLoss
  <1>3. /\ readable' \in [Keys -> Entries \cup {Absent}]
        /\ survivors' \in [Keys -> SUBSET (Entries \cup {Absent})]
    <2>1. \A k \in Keys : readable'[k] \in Entries \cup {Absent}
      BY <1>2 DEF DiskTyped
    <2>2. QED
      BY <1>2, <2>1
  <1>4. \A k \in Keys : survivors'[k] = {readable'[k]} /\ survivors'[k] \subseteq survivors[k]
    BY <1>2
  <1>5. DiskTyped'
    BY <1>1, <1>2, <1>3, <1>4 DEF DiskTyped
  <1>6. NewestLoads'
    <2>1. Meta \in Keys /\ (readable'[Meta] # Absent => readable'[Meta] \in EntryOf(Meta))
      BY <1>4, Kinds DEF DiskTyped
    <2>2. readable'[Meta] # Absent => readable'[Meta].sequence \in Nat
      BY <2>1, Sequences
    <2>3. QED
      BY <1>4, <2>1, <2>2 DEF NewestLoads, AtLeast
  <1>7. DataPrecedesHeader' /\ CommittedSurvives'
    BY <1>1, <1>2, <1>4, Kinds DEF DataPrecedesHeader, CommittedSurvives
  <1>8. RemovedStays'
    BY <1>1, <1>4, Kinds DEF RemovedStays, DiskTyped
  <1>9. MemInv'
    BY <1>1 DEF MemInv, MemTyped, CounterLeads, IssuedKept, DirtyCoversDisk, CommittedHeld,
         RemovedAbsent
  <1>10. QED
    BY <1>5, <1>6, <1>7, <1>8, <1>9

\* The healed counter takes a number of the store that none exceeds.
LEMMA HealedLeads ==
  ASSUME DiskTyped
  PROVE  /\ \A k \in Keys \ {Meta} : Healed(Loaded)[k] = readable[k]
         /\ Healed(Loaded) \in [Keys -> Entries \cup {Absent}]
         /\ Healed(Loaded)[Meta] \in Counters
         /\ readable[Meta] # Absent => readable[Meta].sequence <= Healed(Loaded)[Meta].sequence
         /\ \A k \in Numbered :
              readable[k] # Absent => readable[k].sequence <= Healed(Loaded)[Meta].sequence
  <1> DEFINE seen == {Loaded[Meta].sequence} \cup {Loaded[k].sequence : k \in Sequenced(Loaded)}
             greatest == CHOOSE n \in seen : \A m \in seen : m <= n
  <1>1. Meta \in Keys /\ Meta \notin Numbered /\ Numbered \subseteq Keys
    BY Kinds
  <1>2. /\ Loaded[Meta] = IF readable[Meta] = Absent THEN [sequence |-> 0] ELSE readable[Meta]
        /\ \A k \in Keys \ {Meta} : Loaded[k] = readable[k]
        /\ DOMAIN Loaded = Keys /\ Loaded = [k \in Keys |-> Loaded[k]]
    BY <1>1 DEF Loaded
  <1>3. \A k \in Keys : readable[k] \in EntryOf(k) \cup {Absent}
    BY DEF DiskTyped
  <1>4. Loaded[Meta] \in EntryOf(Meta)
    <2>1. [sequence |-> 0] \in EntryOf(Meta)
      <3>1. [sequence |-> 0] \in Counters
        BY CountersAreNatural DEF Counters
      <3>2. EntryOf(Meta) = Counters
        BY Kinds
      <3>3. QED
        BY <3>1, <3>2
    <2>2. readable[Meta] \in EntryOf(Meta) \cup {Absent}
      BY <1>1, <1>3
    <2>3. QED
      BY <1>2, <2>1, <2>2
  <1>5. /\ Sequenced(Loaded) \subseteq Numbered
        /\ \A k \in Sequenced(Loaded) : Loaded[k] \in EntryOf(k)
    BY <1>1, <1>2, <1>3 DEF Sequenced, Numbered
  <1>6. seen \subseteq 0..MaxSequence /\ seen # {}
    BY <1>4, <1>5, Sequences
  <1>7. seen \in SUBSET Nat /\ \A m \in seen : m <= MaxSequence
    BY <1>6, CountersAreNatural
  <1>8. \E n \in seen : \A m \in seen : m <= n
    BY <1>6, <1>7, CountersAreNatural, GreatestExists
  <1>9. greatest \in seen /\ \A m \in seen : m <= greatest
    BY <1>8
  <1>10. Healed(Loaded) = [Loaded EXCEPT ![Meta] = [sequence |-> greatest]]
    BY DEF Healed
  <1>11. /\ Healed(Loaded)[Meta] = [sequence |-> greatest]
         /\ \A k \in Keys \ {Meta} : Healed(Loaded)[k] = readable[k]
    BY <1>1, <1>2, <1>10
  <1>12. [sequence |-> greatest] \in Counters
    BY <1>6, <1>9 DEF Counters
  <1>13. Healed(Loaded) \in [Keys -> Entries \cup {Absent}]
    <2>1. [sequence |-> greatest] \in Entries
      BY <1>12 DEF Entries
    <2>2. Loaded \in [Keys -> Entries \cup {Absent}]
      <3>1. \A k \in Keys : Loaded[k] \in Entries \cup {Absent}
        BY <1>2, <1>3, <1>4, Kinds
      <3>2. QED
        BY <1>2, <3>1
    <2>3. QED
      BY <2>1, <2>2, <1>10
  <1>14. ASSUME NEW k \in Numbered, readable[k] # Absent
         PROVE  readable[k].sequence <= greatest
    <2>1. k \in Sequenced(Loaded) /\ Loaded[k] = readable[k]
      BY <1>1, <1>2, <1>14 DEF Sequenced, Numbered
    <2>2. QED
      BY <2>1, <1>9
  <1>15. readable[Meta] # Absent => readable[Meta].sequence <= greatest
    BY <1>2, <1>9
  <1>16. Healed(Loaded)[Meta].sequence = greatest
    BY <1>11
  <1> HIDE DEF seen, greatest
  <1>17. QED
    BY <1>11, <1>12, <1>13, <1>14, <1>15, <1>16

LEMMA OpenKeeps ==
  ASSUME IInv, Open
  PROVE  IInv'
  <1> USE DEF IInv, DiskInv
  <1> DEFINE healed == Healed(Loaded)
  <1>1. /\ ~open /\ open' /\ mem' = healed /\ issued' = [k \in Keys |-> 0]
        /\ UNCHANGED <<dirty, removed, doubtful, readable, survivors, committed>>
    BY DEF Open, disk
  <1>2. /\ \A k \in Keys \ {Meta} : healed[k] = readable[k]
        /\ healed \in [Keys -> Entries \cup {Absent}]
        /\ healed[Meta] \in Counters
        /\ readable[Meta] # Absent => readable[Meta].sequence <= healed[Meta].sequence
        /\ \A k \in Numbered :
             readable[k] # Absent => readable[k].sequence <= healed[Meta].sequence
    BY HealedLeads
  <1> HIDE DEF healed
  <1>3. /\ Meta \in Keys /\ Meta \notin Numbered /\ Numbered \subseteq Keys
        /\ healed[Meta] \in EntryOf(Meta) /\ healed[Meta] # Absent
    BY <1>2, Kinds
  <1>4. \A h \in survivors[Meta] : h # Absent => h.sequence <= healed[Meta].sequence
    <2> SUFFICES ASSUME NEW h \in survivors[Meta], h # Absent
                 PROVE  h.sequence <= healed[Meta].sequence
      OBVIOUS
    <2>1. readable[Meta] # Absent /\ h.sequence <= readable[Meta].sequence
      BY DEF NewestLoads, AtLeast
    <2>2. h \in EntryOf(Meta) /\ readable[Meta] \in EntryOf(Meta)
      BY <2>1, <1>3 DEF DiskTyped
    <2>3. h.sequence \in Nat /\ readable[Meta].sequence \in Nat /\ healed[Meta].sequence \in Nat
      BY <2>2, <1>3, Sequences
    <2>4. QED
      BY <2>1, <2>3, <1>2
  <1>5. DiskInv'
    <2>1. DiskTyped'
      BY <1>1, CountersAreNatural DEF DiskTyped
    <2>2. NewestLoads' /\ CommittedSurvives' /\ RemovedStays'
      BY <1>1 DEF NewestLoads, CommittedSurvives, RemovedStays
    <2>3. DataPrecedesHeader'
      BY <1>1 DEF DataPrecedesHeader
    <2>4. QED
      BY <2>1, <2>2, <2>3
  <1>6. MemTyped'
    BY <1>1, <1>2, <1>3 DEF MemTyped, MemInv, DiskTyped
  <1>7. CounterLeads'
    BY <1>1, <1>2, <1>3, <1>4 DEF CounterLeads
  <1>8. IssuedKept' /\ DirtyCoversDisk'
    BY <1>1, <1>2, <1>3 DEF IssuedKept, DirtyCoversDisk
  <1>9. CommittedHeld'
    <2> SUFFICES ASSUME NEW k \in Keys \ doubtful
                 PROVE  Retains(k, healed[k], committed[k])
      BY <1>1 DEF CommittedHeld
    <2>1. Retains(k, readable[k], committed[k])
      BY DEF CommittedSurvives, DiskTyped
    <2>2. CASE k = Meta
      <3>1. CASE committed[Meta] = Absent
        BY <3>1, <2>2 DEF Retains
      <3>2. CASE committed[Meta] # Absent
        <4>1. /\ readable[Meta] # Absent /\ readable[Meta] \in EntryOf(Meta)
              /\ committed[Meta] \in EntryOf(Meta)
              /\ committed[Meta].sequence <= readable[Meta].sequence
          <5>1. committed[Meta] \in EntryOf(Meta) /\ readable[Meta] \in EntryOf(Meta) \cup {Absent}
            BY <3>2, <1>3 DEF DiskTyped
          <5>2. QED
            BY <2>1, <2>2, <3>2, <5>1, RetainsSequence
        <4>2. committed[Meta].sequence <= healed[Meta].sequence
          BY <4>1, <1>2, <1>3, Sequences
        <4>3. QED
          BY <2>2, <3>2, <4>2, <1>3, Kinds, KeysAreDistinct DEF Retains
      <3>3. QED
        BY <3>1, <3>2
    <2>3. CASE k # Meta
      BY <2>1, <2>3, <1>2
    <2>4. QED
      BY <2>2, <2>3
  <1>10. RemovedAbsent'
    <2> SUFFICES ASSUME NEW id \in removed
                 PROVE  healed[id] = Absent
      BY <1>1 DEF RemovedAbsent
    <2>1. id \in Keys /\ id # Meta
      BY Kinds, KeysAreDistinct DEF DiskTyped
    <2>2. readable[id] = Absent
      BY <2>1 DEF RemovedStays, DiskTyped
    <2>3. QED
      BY <2>1, <2>2, <1>2
  <1>11. QED
    BY <1>5, <1>6, <1>7, <1>8, <1>9, <1>10 DEF MemInv
-----------------------------------------------------------------------------
(* The whole specification                                                  *)

LEMMA InitKeeps ==
  ASSUME Init
  PROVE  IInv
  <1> DEFINE header == [sequence |-> 0]
  <1>1. /\ readable = [k \in Keys |-> Absent] /\ survivors = [k \in Keys |-> {Absent}]
        /\ committed = [k \in Keys |-> Absent]
        /\ mem = [k \in Keys |-> IF k = Meta THEN header ELSE Absent]
        /\ dirty = {} /\ open = TRUE /\ issued = [k \in Keys |-> 0]
        /\ removed = {} /\ doubtful = {}
    BY DEF Init, Disk!Init
  <1>2. /\ Meta \in Keys /\ header \in EntryOf(Meta) /\ header \in Entries /\ header # Absent
        /\ Numbered \subseteq Keys /\ Meta \notin Numbered
    <2>1. header \in Counters
      BY CountersAreNatural DEF Counters
    <2>2. EntryOf(Meta) = Counters
      BY Kinds
    <2>3. QED
      BY <2>1, <2>2, Kinds
  <1> HIDE DEF header
  <1>3. DiskTyped
    <2>1. 0 \in 0..MaxSequence
      BY CountersAreNatural
    <2>2. QED
      BY <1>1, <2>1 DEF DiskTyped
  <1>4. NewestLoads /\ DataPrecedesHeader /\ CommittedSurvives /\ RemovedStays
    BY <1>1, <1>2 DEF NewestLoads, DataPrecedesHeader, CommittedSurvives, RemovedStays, Retains
  <1>5. MemTyped
    BY <1>1, <1>2 DEF MemTyped
  <1>6. CounterLeads /\ IssuedKept /\ DirtyCoversDisk /\ CommittedHeld /\ RemovedAbsent
    BY <1>1, <1>2
       DEF CounterLeads, IssuedKept, DirtyCoversDisk, CommittedHeld, RemovedAbsent, Retains
  <1>7. QED
    BY <1>3, <1>4, <1>5, <1>6 DEF IInv, DiskInv, MemInv

LEMMA NextKeeps ==
  ASSUME IInv, [Next]_vars
  PROVE  IInv'
  <1>1. CASE UserStep
    BY <1>1, RecordKeeps, SnapshotKeeps, BumpKeeps, MarkKeeps, RemoveKeeps, RemoveFailsKeeps,
       ImportKeeps DEF UserStep
  <1>2. CASE Flush
    BY <1>2, FlushKeyKeeps DEF Flush
  <1>3. CASE \E k \in Keys : FlushFails(k)
    BY <1>3, FlushFailsKeeps
  <1>4. CASE Crash
    BY <1>4, CrashKeeps
  <1>5. CASE PowerLoss
    BY <1>5, PowerLossKeeps
  <1>6. CASE Open
    BY <1>6, OpenKeeps
  <1>7. CASE UNCHANGED vars
    BY <1>7 DEF vars, disk, history, IInv, DiskInv, MemInv, DiskTyped, NewestLoads,
         DataPrecedesHeader, CommittedSurvives, RemovedStays, MemTyped, CounterLeads,
         IssuedKept, DirtyCoversDisk, CommittedHeld, RemovedAbsent
  <1>8. QED
    BY <1>1, <1>2, <1>3, <1>4, <1>5, <1>6, <1>7 DEF Next

\* The two halves hold in every reachable state.
THEOREM VaultInvariant == Spec => []IInv
  <1>1. Init => IInv
    BY InitKeeps
  <1>2. IInv /\ [Next]_vars => IInv'
    BY NextKeeps
  <1>3. QED
    BY <1>1, <1>2, PTL DEF Spec

\* An entry that does not wait to be flushed is what the backend holds, or its removal
\* failed and the backend holds nothing.
THEOREM CleanIsStored == Spec => []DirtyCoversDisk
  <1>1. IInv => DirtyCoversDisk
    BY DEF IInv, MemInv
  <1>2. QED
    BY <1>1, VaultInvariant, PTL

\* Whatever header a power loss leaves, the records numbered up to it are on disk.
THEOREM HeaderNeverLeads == Spec => []DataPrecedesHeader
  <1>1. IInv => DataPrecedesHeader
    BY DEF IInv, DiskInv
  <1>2. QED
    BY <1>1, VaultInvariant, PTL

\* What a call reported as written outlives failures, crashes and power losses.
THEOREM WritesAreKept == Spec => []AcknowledgedSurvives
  <1>1. IInv => AcknowledgedSurvives
    BY DEF IInv, DiskInv, MemInv, CommittedSurvives, CommittedHeld, AcknowledgedSurvives
  <1>2. QED
    BY <1>1, VaultInvariant, PTL

\* A removal that was reported is final.
THEOREM RemovalsAreFinal == Spec => []NoResurrection
  <1>1. IInv => NoResurrection
    BY DEF IInv, DiskInv, MemInv, RemovedStays, RemovedAbsent, NoResurrection
  <1>2. QED
    BY <1>1, VaultInvariant, PTL

\* The text just recorded is the text shown, also after a crash left the header
\* behind or an import came from ahead.
THEOREM EditsPrevail == Spec => EditShows
  <1>1. ASSUME IInv, NEW id \in Ids, NEW t \in Texts, Record(id, t)
        PROVE  mem'[id].text = t
    <2>1. CanSequence /\ mem \in [Keys -> Entries \cup {Absent}] /\ id \in Keys /\ id # Meta
      BY <1>1, Kinds, KeysAreDistinct DEF Record, IInv, MemInv, MemTyped
    <2>2. mem'[id] = Join(mem[id], [sequence |-> sequence + 1, text |-> t, usage |-> 0])
      BY <1>1, <2>1 DEF Record, Edited
    <2>3. QED
      BY <1>1, <2>1, <2>2, EditOutranks
  <1>2. IInv => [\A id \in Ids, t \in Texts : Record(id, t) => mem'[id].text = t]_vars
    BY <1>1
  <1>3. QED
    BY <1>2, VaultInvariant, PTL DEF EditShows
=============================================================================
