-------------------------------- MODULE Loom --------------------------------
(***************************************************************************)
(* The World Loom experiment (loom-core, loom-transport, loom-world): a      *)
(* host holds one state packet, probes it for routes that would carry out    *)
(* an intent, and commits the selected route once the traveler has covered   *)
(* its length.  A packet has two measures over the atoms of a chain: the     *)
(* material, whose total is conserved, and the traits, up to a capacity.     *)
(***************************************************************************)
EXTENDS Integers, Sequences, FiniteSets, SequencesExt

CONSTANTS
  Atoms,           \* number of atoms (MAX_ATOMS); one level is active
  MassOne,         \* MASS_ONE
  MaterialTotal, TraitCapacity,
  Start,           \* packets a host may be created with
  RewriteLength,   \* REWRITE_LENGTH
  BirthDeathCost,  \* BIRTH_DEATH_COST
  Intents,         \* sets of interactions that may be planned together
  Distances,       \* what a segment may add, in micro-lengths
  MaxCredit,       \* u64::MAX
  None,
  MaxTravel        \* bound: what is travelled in all

Atom == 1..Atoms
Measures == [Atom -> 0..MassOne]
\* Habitat and organism traits share the trait atoms, not the holds.
Subjects == {"material", "habitat", "organism"}
LawOf(subject) == IF subject = "material" THEN "material" ELSE "trait"
Interactions == [subject : Subjects, atom : Atom, influence : {"accentuate", "repress", "hold"},
                 amount : 0..MassOne, weight : Nat]
Signatures == {"direct", "reverse"}

\* Upto(m)[n] is the sum of the first n entries of a measure.
Upto(m) ==
  LET sum[n \in 0..Atoms] == IF n = 0 THEN 0 ELSE sum[n - 1] + m[n] IN sum
Total(m) == Upto(m)[Atoms]

\* What StatePacket::normalize accepts; an atom of no mass is no entry.
IsPacket(p) == /\ p.material \in Measures /\ p.trait \in Measures
               /\ Total(p.material) = MaterialTotal
               /\ Total(p.trait) <= TraitCapacity

ASSUME LoomAssumption ==
  /\ Atoms \in Nat \ {0} /\ MassOne \in Nat \ {0}
  /\ MaterialTotal \in 0..MassOne /\ TraitCapacity \in 0..MassOne
  /\ RewriteLength \in Nat /\ BirthDeathCost \in Nat
  /\ \A intent \in Intents : intent \subseteq Interactions /\ IsFiniteSet(intent)
  /\ \A p \in Start : IsPacket(p)
  /\ Distances \subseteq Nat /\ MaxCredit \in Nat /\ MaxTravel \in Nat

VARIABLES
  packet,      \* [material, trait]: the masses
  selected,    \* the route under way, or None
  credit,      \* unused travel
  travelled, spent   \* ghosts: accepted travel, and the lengths committed

vars == <<packet, selected, credit, travelled, spent>>

Lesser(a, b) == IF a < b THEN a ELSE b
Greater(a, b) == IF a > b THEN a ELSE b
Magnitude(a) == IF a < 0 THEN -a ELSE a
\* Rust's division by a positive number rounds toward zero.
Quotient(a, b) == IF a < 0 THEN -((-a) \div b) ELSE a \div b

-----------------------------------------------------------------------------
(* Intents: lower_interactions.  The terms are applied in the order of their   *)
(* content hashes: some order, the same for equal intents.                     *)

Held(intent, i) ==
  i.influence # "hold" /\ \E o \in intent :
    o.subject = i.subject /\ o.atom = i.atom /\ o.influence = "hold"

Delta(intent, i) ==
  LET whole == CASE i.influence = "accentuate" -> i.amount
                 [] i.influence = "repress" -> -i.amount
                 [] i.influence = "hold" -> 0
  IN  IF Held(intent, i) THEN Quotient(whole, 4) ELSE whole

Terms(intent) == SetToSeq({[law |-> LawOf(i.subject), atom |-> i.atom, delta |-> Delta(intent, i),
                            weight |-> i.weight, id |-> i] : i \in intent})
-----------------------------------------------------------------------------
(* The solver: solve_mode and what it calls *)

\* The full control, or the tempered one at half its strength.
Strength(term, signature) ==
  Quotient(term.delta * term.weight * (IF signature = "direct" THEN 2 ELSE 1), 2)

Clamp(x) == Lesser(Greater(x, 0), MassOne)
Pull(w, term, law, signature) ==
  IF term.law = law THEN [w EXCEPT ![term.atom] = Clamp(@ + Strength(term, signature))] ELSE w
Wished(m, terms, law, signature) ==
  LET wish[n \in 0..Len(terms)] ==
        IF n = 0 THEN m ELSE Pull(wish[n - 1], terms[n], law, signature)
  IN  wish[Len(terms)]

\* adjust: the lowest atoms take or give what they can.
Adjust(m, amount, room, side) ==
  [a \in Atom |-> m[a] + side * Lesser(room[a], Greater(amount - Upto(room)[a - 1], 0))]
Fill(m, amount) == Adjust(m, amount, [a \in Atom |-> MassOne - m[a]], 1)
Drain(m, amount) == Adjust(m, amount, m, -1)

RestoreTotal(m) ==
  LET sum == Total(m)
  IN  IF sum < MaterialTotal THEN Fill(m, MaterialTotal - sum)
      ELSE Drain(m, sum - MaterialTotal)
CapTotal(m) ==
  LET sum == Total(m) IN IF sum > TraitCapacity THEN Drain(m, sum - TraitCapacity) ELSE m

\* Target masses: what is wished for, projected back onto the two laws.
Endpoint(p, intent, signature) ==
  LET terms == Terms(intent)
  IN  [material |-> RestoreTotal(Wished(p.material, terms, "material", signature)),
       trait |-> CapTotal(Wished(p.trait, terms, "trait", signature))]

\* maximize_chain_dual: the dynamic program over potentials that differ by at
\* most one from atom to atom; `anchored` holds the first one at zero.
\* Fault: only the neighbours of the prior potential are considered.
PriorsApart(p, bound) == {q \in {p - 1, p + 1} : q \in -bound..bound}
Priors(p, bound) == {q \in (p - 1)..(p + 1) : q \in -bound..bound}

NoValue == -(2 * Atoms * Atoms * MassOne * (BirthDeathCost + 1) + 1)
Highest(S) == CHOOSE x \in S : \A y \in S : x >= y
Best(delta, bound, anchored) ==
  LET best[a \in Atom] ==
        IF a = 1 THEN [p \in -bound..bound |->
                         IF anchored /\ p # 0 THEN NoValue ELSE delta[1] * p]
        ELSE LET prior == best[a - 1]
             IN  [p \in -bound..bound |->
                    Highest({prior[q] : q \in Priors(p, bound)} \cup {NoValue}) + delta[a] * p]
  IN  best
ChainDual(delta, bound, anchored) ==
  Highest({Best(delta, bound, anchored)[Atoms][p] : p \in -bound..bound})

Gain(from, to) == [a \in Atom |-> to[a] - from[a]]
TransportCost(from, to) ==
  ChainDual(Gain(from.material, to.material), Atoms - 1, TRUE)
    + ChainDual(Gain(from.trait, to.trait), BirthDeathCost, FALSE)

\* trait_rewrite_active: the trait law survives normalization while it has mass.
RewriteActive(p) == \E a \in Atom : p.trait[a] # 0
NeedsRewrite(p, intent) ==
  ~RewriteActive(p) /\ \E i \in intent : LawOf(i.subject) = "trait" /\ i.weight > 0 /\ Delta(intent, i) > 0

Solve(p, intent, endpoint) ==
  LET toll == IF NeedsRewrite(p, intent) /\ RewriteActive(endpoint) THEN RewriteLength ELSE 0
  IN  [endpoint |-> endpoint, length |-> TransportCost(p, endpoint) + toll]

\* probe_with_execution.  A mode whose endpoint no packet can hold, or whose
\* material does not balance, leaves the whole probe unresolved.
Complete(p, intent) ==
  \A signature \in Signatures : IsPacket(Endpoint(p, intent, signature))
Modes(p, intent) == {Solve(p, intent, Endpoint(p, intent, signature)) : signature \in Signatures}
-----------------------------------------------------------------------------
(* The host *)

Init == /\ packet \in Start
        /\ selected = None /\ credit = 0 /\ travelled = 0 /\ spent = 0

\* plan: a mode of this probe, the default or one named by its id, or an id of
\* an earlier probe, which names none any more and leaves nothing selected.
Plan(intent) ==
  /\ Complete(packet, intent)
  /\ selected' \in Modes(packet, intent) \cup {None}
  /\ UNCHANGED <<packet, credit, travelled, spent>>

\* advance, within update: nothing before the whole length is covered.
\* Fault: what is left over lapses with the commit.
CommitLapsing(host, total) ==
  [packet |-> host.selected.endpoint, credit |-> 0,
   selected |-> IF host.selected.endpoint = host.packet THEN host.selected ELSE None]
Commit(host, total) ==
  [packet |-> host.selected.endpoint, credit |-> total - host.selected.length,
   selected |-> IF host.selected.endpoint = host.packet THEN host.selected ELSE None]
\* Fault: the segment has to cover the length by itself.
AfterOneSegment(host, d) ==
  IF host.selected # None /\ d >= host.selected.length THEN Commit(host, host.credit + d)
  ELSE [host EXCEPT !.credit = @ + d]
AfterTravel(host, d) ==
  IF host.selected # None /\ host.credit + d >= host.selected.length
  THEN Commit(host, host.credit + d)
  ELSE [host EXCEPT !.credit = @ + d]

Host == [packet |-> packet, selected |-> selected, credit |-> credit]

\* update: a segment that does not start at the traveler, or whose credit would
\* overflow, is refused and changes nothing.
Update(d) ==
  /\ travelled + d <= MaxTravel
  /\ credit + d <= MaxCredit
  /\ LET host == AfterTravel(Host, d)
     IN  /\ packet' = host.packet /\ selected' = host.selected /\ credit' = host.credit
         /\ spent' = IF host.packet = packet THEN spent ELSE spent + selected.length
  /\ travelled' = travelled + d

Next == (\E intent \in Intents : Plan(intent)) \/ (\E d \in Distances : Update(d))

Spec == Init /\ [][Next]_vars
-----------------------------------------------------------------------------
(* Properties *)

\* The least cost of turning delta into nothing by moving units along the chain,
\* one per step, and, where the law allows it, by birth and death: what the dual
\* program has to attain.  carry[a] units, never more than there are, go from atom
\* a to the next; Left is what is born or dies.
Carries(mass) == [1..(Atoms - 1) -> -mass..mass]
Left(delta, carry) ==
  [a \in Atom |-> delta[a] + (IF a > 1 THEN carry[a - 1] ELSE 0)
                          - (IF a < Atoms THEN carry[a] ELSE 0)]
Moved(carry) == Total([a \in Atom |-> IF a < Atoms THEN Magnitude(carry[a]) ELSE 0])
Varied(left) == Total([a \in Atom |-> Magnitude(left[a])])
PrimalCosts(delta, mass, mayVary) ==
  {Moved(c) + BirthDeathCost * Varied(Left(delta, c)) :
     c \in {c \in Carries(mass) : mayVary \/ Varied(Left(delta, c)) = 0}}
PrimalCost(delta, mass, mayVary) ==
  LET costs == PrimalCosts(delta, mass, mayVary)
  IN  CHOOSE x \in costs : \A y \in costs : x <= y

\* Types: the host holds a packet, the counters stay in their ranges.
TypeOK ==
  /\ IsPacket(packet) /\ credit \in 0..MaxCredit /\ travelled \in Nat /\ spent \in Nat
  /\ selected # None => selected.length \in Nat

\* Whatever was planned, committed and planned again, the selected route starts at
\* the packet the host holds, leads to a packet of the same inventory, and has the
\* least length there is, with the toll exactly if it switches the trait law on;
\* and the probe resolves every intent of the host's vocabulary.
RouteIsExact ==
  /\ \A intent \in Intents : Complete(packet, intent)
  /\ selected # None =>
       LET to == selected.endpoint
       IN  /\ IsPacket(to)
           /\ selected.length =
                PrimalCost(Gain(packet.material, to.material), MaterialTotal, FALSE)
                  + PrimalCost(Gain(packet.trait, to.trait), TraitCapacity, TRUE)
                  + (IF RewriteActive(to) /\ ~RewriteActive(packet) THEN RewriteLength ELSE 0)

\* Every micro-length travelled is spent on a committed route or still credit: a
\* new plan, an unknown mode and a route to where the host is cost nothing.
TravelIsAccounted == travelled = spent + credit

\* However a distance is cut into segments, the host ends up the same.
CadenceIsIrrelevant ==
  \A d, e \in Distances :
    AfterTravel(AfterTravel(Host, d), e) = AfterTravel(Host, d + e)
=============================================================================
