----------------------------- MODULE LoomProofs -----------------------------
(***************************************************************************)
(* Theorems about Loom, for any number of atoms, masses, costs and intents: *)
(* every probe resolves, the routes it offers are as short as a route can   *)
(* be, and what is travelled is accounted for however it is cut.            *)
(***************************************************************************)
EXTENDS Loom, FiniteSetTheorems, WellFoundedInduction, TLAPS

-----------------------------------------------------------------------------
(* Recursive functions over an interval                                      *)

\* A set of numbers has a least one.
LEMMA LeastExists ==
  ASSUME NEW S \in SUBSET Nat, S # {}
  PROVE  \E n \in S : \A m \in S : n <= m
<1> DEFINE T == {1..m : m \in S}
<1>1. T \subseteq FiniteSubsetsOf(Nat) /\ T # {}
  <2>1. \A m \in S : 1..m \in FiniteSubsetsOf(Nat)
    BY FS_Interval DEF FiniteSubsetsOf
  <2> QED BY <2>1
<1>2. PICK u \in T : \A v \in T : ~(<<v, u>> \in StrictSubsetOrdering(Nat))
  BY <1>1, FS_StrictSubsetOrderingWellFounded, WFMin
<1>3. PICK n \in S : u = 1..n
  BY <1>2
<1>4. ASSUME NEW m \in S, m < n
      PROVE  FALSE
  <2>1. 1..m \subseteq 1..n
    BY <1>4
  <2>2. n \in 1..n /\ n \notin 1..m
    BY <1>4
  <2>3. <<1..m, u>> \in StrictSubsetOrdering(Nat)
    BY <2>1, <2>2, <1>3 DEF StrictSubsetOrdering
  <2> QED BY <2>3, <1>2
<1> QED BY <1>4

\* T is closed under the next number, up to n.
Closed(T, lo, n) == lo \in T /\ \A i \in lo..(n - 1) : i \in T => i + 1 \in T

\* What holds of the first number and is passed on holds of all.
LEMMA Everyone ==
  ASSUME NEW lo \in Nat, NEW n \in Nat, NEW T, Closed(T, lo, n)
  PROVE  \A i \in lo..n : i \in T
<1> DEFINE S == {i \in lo..n : i \notin T}
<1> SUFFICES ASSUME S # {} PROVE FALSE
  OBVIOUS
<1>0. S \in SUBSET Nat
  OBVIOUS
<1>1. PICK k \in S : \A m \in S : k <= m
  <2> HIDE DEF S
  <2> QED BY <1>0, LeastExists
<1>2. k # lo
  BY DEF Closed
<1>3. k - 1 \in lo..(n - 1) /\ k - 1 \notin S /\ (k - 1) + 1 = k
  BY <1>1, <1>2
<1> QED BY <1>1, <1>3 DEF Closed

\* f starts as start and goes on as g says.
Follows(f, g, start, lo, n) ==
  f[lo] = start /\ \A i \in (lo + 1)..n : f[i] = g[<<f[i - 1], i>>]

\* Such a function exists.
LEMMA RecursionExists ==
  ASSUME NEW lo \in Nat, NEW n \in Nat, lo <= n, NEW S, NEW start \in S,
         NEW g \in [S \X (lo..n) -> S]
  PROVE  \E f \in [lo..n -> S] : Follows(f, g, start, lo, n)
<1> DEFINE T == {k \in lo..n : \E f \in [lo..k -> S] : Follows(f, g, start, lo, k)}
<1>1. lo \in T
  <2> DEFINE f == [i \in lo..lo |-> start]
  <2>1. f \in [lo..lo -> S] /\ Follows(f, g, start, lo, lo)
    BY DEF Follows
  <2> QED BY <2>1
<1>2. ASSUME NEW k \in lo..(n - 1), k \in T
      PROVE  k + 1 \in T
  <2>1. PICK f \in [lo..k -> S] : Follows(f, g, start, lo, k)
    BY <1>2
  <2> DEFINE e == g[<<f[k], k + 1>>]
             h == [i \in lo..(k + 1) |-> IF i = k + 1 THEN e ELSE f[i]]
  <2>2. k + 1 \in lo..n /\ k \in lo..k /\ e \in S
    BY <1>2
  <2>3. h \in [lo..(k + 1) -> S] /\ h[k + 1] = e /\ \A i \in lo..k : h[i] = f[i]
    BY <1>2, <2>2
  <2> HIDE DEF h
  <2>4. h[lo] = start
    BY <2>1, <2>3, <1>2 DEF Follows
  <2>5. ASSUME NEW i \in (lo + 1)..(k + 1) PROVE h[i] = g[<<h[i - 1], i>>]
    <3>1. i - 1 \in lo..k /\ h[i - 1] = f[i - 1]
      BY <2>3
    <3>2. CASE i = k + 1
      BY <3>1, <3>2, <2>3
    <3>3. CASE i # k + 1
      <4>1. i \in (lo + 1)..k /\ i \in lo..k
        BY <3>3
      <4>2. h[i] = f[i] /\ f[i] = g[<<f[i - 1], i>>]
        BY <4>1, <2>1, <2>3 DEF Follows
      <4> QED BY <4>2, <3>1
    <3> QED BY <3>2, <3>3
  <2>6. Follows(h, g, start, lo, k + 1)
    BY <2>4, <2>5 DEF Follows
  <2> QED BY <2>2, <2>3, <2>6
<1>3. n \in T
  <2>1. Closed(T, lo, n)
    <3> HIDE DEF T
    <3> QED BY <1>1, <1>2 DEF Closed
  <2> HIDE DEF T
  <2>2. n \in lo..n
    OBVIOUS
  <2> QED BY <2>1, <2>2, Everyone
<1> QED BY <1>3

-----------------------------------------------------------------------------
(* Sums                                                                      *)

LEMMA AtomsAre == Atoms \in Nat /\ Atoms >= 1 /\ Atom = 1..Atoms
BY LoomAssumption DEF LoomAssumption, Atom

\* The sum of the first n entries is theirs, one after the other.
LEMMA UptoIs ==
  ASSUME NEW m \in [Atom -> Int]
  PROVE  /\ Upto(m)[0] = 0
         /\ \A a \in Atom : Upto(m)[a] = Upto(m)[a - 1] + m[a]
         /\ \A n \in 0..Atoms : Upto(m)[n] \in Int
<1> DEFINE e(f, n) == IF n = 0 THEN 0 ELSE f[n - 1] + m[n]
           R(f) == f = [n \in 0..Atoms |-> e(f, n)]
           chosen == CHOOSE f : R(f)
           g == [x \in Int \X (0..Atoms) |-> IF x[2] = 0 THEN 0 ELSE x[1] + m[x[2]]]
<1>0. Atoms \in Nat /\ Atom = 1..Atoms
  BY AtomsAre
<1>1. Upto(m) = chosen
  BY DEF Upto
<1>2. g \in [Int \X (0..Atoms) -> Int]
  BY <1>0
<1>3. PICK f \in [0..Atoms -> Int] : Follows(f, g, 0, 0, Atoms)
  <2>1. 0 \in Nat /\ 0 \in Int /\ 0 <= Atoms
    BY <1>0
  <2> HIDE DEF g
  <2> QED BY <1>0, <1>2, <2>1, RecursionExists
<1>4. \A n \in 0..Atoms : f[n] = e(f, n)
  <2> TAKE n \in 0..Atoms
  <2>1. CASE n = 0
    BY <2>1, <1>3 DEF Follows
  <2>2. CASE n # 0
    <3>1. n \in (0 + 1)..Atoms /\ n - 1 \in 0..Atoms /\ f[n - 1] \in Int
      BY <2>2, <1>0, <1>3
    <3>2. f[n] = g[<<f[n - 1], n>>]
      BY <3>1, <1>3 DEF Follows
    <3>3. <<f[n - 1], n>> \in Int \X (0..Atoms)
      BY <3>1
    <3> QED BY <3>2, <3>3, <2>2
  <2> QED BY <2>1, <2>2
<1> HIDE DEF g
<1>5. R(f)
  <2> HIDE DEF e
  <2> QED BY <1>3, <1>4
<1>6. R(chosen)
  <2> HIDE DEF R
  <2> QED BY <1>5
<1> HIDE DEF chosen
<1>7. \A n \in 0..Atoms : chosen[n] = e(chosen, n)
  <2> HIDE DEF e
  <2> QED BY <1>6
<1>8. chosen[0] = 0 /\ \A a \in Atom : chosen[a] = chosen[a - 1] + m[a]
  <2>1. 0 \in 0..Atoms /\ \A a \in Atom : a \in 0..Atoms /\ a # 0
    BY <1>0
  <2> QED BY <2>1, <1>7
<1>9. \A n \in 0..Atoms : chosen[n] \in Int
  <2> DEFINE T == {n \in 0..Atoms : chosen[n] \in Int}
  <2>1. Closed(T, 0, Atoms)
    <3>1. 0 \in T
      BY <1>0, <1>8
    <3>2. ASSUME NEW i \in 0..(Atoms - 1), i \in T PROVE i + 1 \in T
      <4>1. i + 1 \in 0..Atoms /\ i + 1 \in Atom /\ (i + 1) - 1 = i
        BY <1>0
      <4> QED BY <4>1, <3>2, <1>8
    <3> HIDE DEF T
    <3> QED BY <3>1, <3>2 DEF Closed
  <2>2. \A i \in 0..Atoms : i \in T
    <3> HIDE DEF T
    <3> QED BY <1>0, <2>1, Everyone
  <2> QED BY <2>2
<1> QED BY <1>1, <1>8, <1>9

LEMMA TotalIs == \A m \in [Atom -> Int] : Total(m) = Upto(m)[Atoms] /\ Total(m) \in Int
<1> TAKE m \in [Atom -> Int]
<1>1. Atoms \in 0..Atoms
  BY AtomsAre
<1> QED BY <1>1, UptoIs DEF Total

\* Sums of what is alike are alike.
LEMMA UptoAgrees ==
  ASSUME NEW m \in [Atom -> Int], NEW k \in [Atom -> Int], NEW n \in 0..Atoms,
         \A a \in 1..n : m[a] = k[a]
  PROVE  \A i \in 0..n : Upto(m)[i] = Upto(k)[i]
<1> DEFINE T == {i \in 0..n : Upto(m)[i] = Upto(k)[i]}
<1>0. Atoms \in Nat /\ Atom = 1..Atoms /\ n \in Nat
  BY AtomsAre
<1>1. 0 \in T
  BY <1>0, UptoIs
<1>2. ASSUME NEW i \in 0..(n - 1), i \in T PROVE i + 1 \in T
  <2>1. i + 1 \in Atom /\ i + 1 \in 1..n /\ i + 1 \in 0..n /\ (i + 1) - 1 = i
    BY <1>0
  <2>2. Upto(m)[i + 1] = Upto(m)[i] + m[i + 1] /\ Upto(k)[i + 1] = Upto(k)[i] + k[i + 1]
    BY <2>1, UptoIs
  <2> QED BY <2>1, <2>2, <1>2
<1> HIDE DEF T
<1>3. \A i \in 0..n : i \in T
  BY <1>0, <1>1, <1>2, Everyone DEF Closed
<1> QED BY <1>3 DEF T

\* The sum of what is gained is what the sum gains.
LEMMA UptoGain ==
  ASSUME NEW m \in [Atom -> Int], NEW k \in [Atom -> Int]
  PROVE  /\ Gain(m, k) \in [Atom -> Int]
         /\ \A i \in 0..Atoms : Upto(Gain(m, k))[i] = Upto(k)[i] - Upto(m)[i]
<1> DEFINE T == {i \in 0..Atoms : Upto(Gain(m, k))[i] = Upto(k)[i] - Upto(m)[i]}
<1>0. Atoms \in Nat /\ Atom = 1..Atoms
  BY AtomsAre
<1>1. Gain(m, k) \in [Atom -> Int] /\ \A a \in Atom : Gain(m, k)[a] = k[a] - m[a]
  BY DEF Gain
<1>2. 0 \in T
  <2>1. Upto(Gain(m, k))[0] = 0 /\ Upto(k)[0] = 0 /\ Upto(m)[0] = 0 /\ 0 \in 0..Atoms
    BY <1>0, <1>1, UptoIs
  <2> QED BY <2>1
<1>3. ASSUME NEW i \in 0..(Atoms - 1), i \in T PROVE i + 1 \in T
  <2>1. i + 1 \in Atom /\ i \in 0..Atoms /\ i + 1 \in 0..Atoms /\ (i + 1) - 1 = i
    BY <1>0
  <2>2. /\ Upto(m)[i + 1] = Upto(m)[i] + m[i + 1] /\ Upto(k)[i + 1] = Upto(k)[i] + k[i + 1]
        /\ Upto(Gain(m, k))[i + 1] = Upto(Gain(m, k))[i] + Gain(m, k)[i + 1]
    BY <2>1, <1>1, UptoIs
  <2>3. /\ Upto(m)[i] \in Int /\ Upto(k)[i] \in Int /\ m[i + 1] \in Int /\ k[i + 1] \in Int
    BY <2>1, UptoIs
  <2>4. Upto(Gain(m, k))[i] = Upto(k)[i] - Upto(m)[i] /\ Gain(m, k)[i + 1] = k[i + 1] - m[i + 1]
    BY <1>3, <2>1, <1>1
  <2> QED BY <2>1, <2>2, <2>3, <2>4
<1> HIDE DEF T
<1>4. \A i \in 0..Atoms : i \in T
  BY <1>0, <1>2, <1>3, Everyone DEF Closed
<1> QED BY <1>1, <1>4 DEF T

\* Sums of masses grow.
LEMMA UptoGrows ==
  ASSUME NEW m \in [Atom -> Int], \A a \in Atom : m[a] >= 0
  PROVE  \A i, j \in 0..Atoms : i <= j => 0 <= Upto(m)[i] /\ Upto(m)[i] <= Upto(m)[j]
<1>0. Atoms \in Nat /\ Atom = 1..Atoms
  BY AtomsAre
<1>1. ASSUME NEW i \in 0..Atoms, NEW j \in i..Atoms
      PROVE  Upto(m)[i] <= Upto(m)[j]
  <2> DEFINE T == {n \in i..Atoms : Upto(m)[i] <= Upto(m)[n]}
  <2>1. i \in T
    BY <1>0, UptoIs
  <2>2. ASSUME NEW n \in i..(Atoms - 1), n \in T PROVE n + 1 \in T
    <3>1. n + 1 \in Atom /\ n \in 0..Atoms /\ n + 1 \in i..Atoms /\ (n + 1) - 1 = n
      BY <1>0
    <3>2. Upto(m)[n + 1] = Upto(m)[n] + m[n + 1] /\ m[n + 1] >= 0 /\ m[n + 1] \in Int
      BY <3>1, UptoIs
    <3>3. Upto(m)[n] \in Int /\ Upto(m)[i] \in Int /\ Upto(m)[i] <= Upto(m)[n]
      BY <3>1, <2>2, UptoIs
    <3>4. Upto(m)[i] <= Upto(m)[n + 1]
      BY <3>2, <3>3
    <3> QED BY <3>1, <3>4
  <2> HIDE DEF T
  <2>3. i \in Nat /\ Closed(T, i, Atoms)
    BY <1>0, <2>1, <2>2 DEF Closed
  <2>4. \A n \in i..Atoms : n \in T
    BY <1>0, <2>3, Everyone
  <2> QED BY <2>4 DEF T
<1>2. ASSUME NEW i \in 0..Atoms, NEW j \in 0..Atoms, i <= j
      PROVE  0 <= Upto(m)[i] /\ Upto(m)[i] <= Upto(m)[j]
  <2>1. 0 \in 0..Atoms /\ i \in 0..Atoms /\ j \in i..Atoms
    BY <1>0, <1>2
  <2> QED BY <2>1, <1>1, UptoIs
<1> QED BY <1>2

-----------------------------------------------------------------------------
(* Greatest values                                                           *)

LEMMA HighestIs ==
  ASSUME NEW S \in SUBSET Int, S # {}, IsFiniteSet(S)
  PROVE  /\ Highest(S) \in S /\ Highest(S) \in Int
         /\ \A y \in S : Highest(S) >= y
<1>1. PICK n \in Nat : \E f : f \in Bijection(1..n, S)
  BY FS_NatBijection DEF ExistsBijection
<1>2. PICK f : f \in Bijection(1..n, S)
  BY <1>1
<1>3. f \in [1..n -> S] /\ \A y \in S : \E i \in 1..n : f[i] = y
  BY <1>2 DEF Bijection, Injection, Surjection
<1>4. n >= 1
  <2>1. PICK i \in 1..n : TRUE
    BY <1>3
  <2> QED BY <2>1
<1> DEFINE T == {k \in 1..n : \E j \in 1..k : \A i \in 1..k : f[j] >= f[i]}
<1>5. 1 \in T
  <2>1. f[1] >= f[1] /\ 1 \in 1..1 /\ \A i \in 1..1 : i = 1
    <3>1. 1 \in 1..n
      BY <1>4
    <3>2. f[1] \in Int
      BY <3>1, <1>3
    <3>3. \A i \in 1..1 : i = 1
      OBVIOUS
    <3> QED BY <3>2, <3>3
  <2> QED BY <2>1, <1>4
<1>6. ASSUME NEW k \in 1..(n - 1), k \in T PROVE k + 1 \in T
  <2>1. PICK j \in 1..k : \A i \in 1..k : f[j] >= f[i]
    BY <1>6
  <2>2. j \in 1..(k + 1) /\ k + 1 \in 1..(k + 1) /\ k + 1 \in 1..n
        /\ \A i \in 1..(k + 1) : i \in 1..n /\ (i = k + 1 \/ i \in 1..k)
    BY <1>4
  <2>3. \A i \in 1..(k + 1) : f[i] \in Int
    BY <2>2, <1>3
  <2>4. CASE f[j] >= f[k + 1]
    <3>1. \A i \in 1..(k + 1) : f[j] >= f[i]
      BY <2>1, <2>2, <2>4
    <3> QED BY <3>1, <2>2
  <2>5. CASE ~(f[j] >= f[k + 1])
    <3>1. \A i \in 1..(k + 1) : f[k + 1] >= f[i]
      BY <2>1, <2>2, <2>3, <2>5
    <3> QED BY <3>1, <2>2
  <2> QED BY <2>4, <2>5
<1> HIDE DEF T
<1>7. n \in T
  <2>1. Closed(T, 1, n) /\ n \in 1..n
    BY <1>4, <1>5, <1>6 DEF Closed
  <2> QED BY <2>1, Everyone
<1>8. \E x \in S : \A y \in S : x >= y
  <2>1. PICK j \in 1..n : \A i \in 1..n : f[j] >= f[i]
    BY <1>7 DEF T
  <2>2. f[j] \in S /\ \A y \in S : f[j] >= y
    BY <2>1, <1>3
  <2> QED BY <2>2
<1> QED BY <1>8 DEF Highest

LEMMA PriorsAre ==
  ASSUME NEW b \in Nat, NEW p \in Int
  PROVE  /\ IsFiniteSet(Priors(p, b))
         /\ \A q : q \in Priors(p, b) <=> q \in Int /\ -b <= q /\ q <= b /\ p - 1 <= q /\ q <= p + 1
<1>1. IsFiniteSet((p - 1)..(p + 1))
  BY FS_Interval
<1>2. Priors(p, b) \subseteq (p - 1)..(p + 1)
  BY DEF Priors
<1>3. IsFiniteSet(Priors(p, b))
  BY <1>1, <1>2, FS_Subset
<1> QED BY <1>3 DEF Priors

\* The best of what f allows near p, as ChainDual takes it.
BestNear(f, p, b) == Highest({f[q] : q \in Priors(p, b)} \cup {NoValue})

LEMMA ImageIsFinite ==
  ASSUME NEW S, IsFiniteSet(S), NEW f
  PROVE  IsFiniteSet({f[x] : x \in S})
<1> DEFINE I == {f[x] : x \in S}
           h == [x \in S |-> f[x]]
<1>1. h \in Surjection(S, I)
  BY DEF Surjection
<1> HIDE DEF h, I
<1>2. IsFiniteSet(I)
  BY <1>1, FS_Surjection
<1> QED BY <1>2 DEF I

LEMMA NoValueIs == NoValue \in Int
BY LoomAssumption, AtomsAre DEF LoomAssumption, NoValue

LEMMA BestNearIs ==
  ASSUME NEW b \in Nat, NEW f \in [-b..b -> Int], NEW p \in Int
  PROVE  /\ BestNear(f, p, b) \in Int
         /\ BestNear(f, p, b) = NoValue \/ \E q \in Priors(p, b) : BestNear(f, p, b) = f[q]
         /\ \A q \in Priors(p, b) : BestNear(f, p, b) >= f[q]
<1> DEFINE Q == Priors(p, b)
           S == {f[q] : q \in Q} \cup {NoValue}
<1>1. IsFiniteSet(Q) /\ Q \subseteq -b..b
  BY PriorsAre DEF Priors
<1>2. IsFiniteSet({f[q] : q \in Q})
  BY <1>1, ImageIsFinite
<1>3. IsFiniteSet(S)
  BY <1>2, FS_AddElement
<1>4. S \in SUBSET Int /\ S # {}
  BY <1>1, NoValueIs
<1>5. BestNear(f, p, b) = Highest(S)
  BY DEF BestNear
<1> HIDE DEF S
<1>6. Highest(S) \in S /\ Highest(S) \in Int /\ \A y \in S : Highest(S) >= y
  BY <1>3, <1>4, HighestIs
<1> QED BY <1>5, <1>6 DEF S

-----------------------------------------------------------------------------
(* The dual program, atom by atom                                            *)

Potentials(b) == [-b..b -> Int]
FirstValues(delta, b, anchored) ==
  [p \in -b..b |-> IF anchored /\ p # 0 THEN NoValue ELSE delta[1] * p]
Onto(prior, d, b) == [p \in -b..b |-> BestNear(prior, p, b) + d * p]

LEMMA OntoType ==
  ASSUME NEW b \in Nat, NEW f \in Potentials(b), NEW d \in Int
  PROVE  Onto(f, d, b) \in Potentials(b)
<1>1. \A p \in -b..b : p \in Int /\ BestNear(f, p, b) \in Int /\ d * p \in Int
  BY BestNearIs DEF Potentials
<1>2. \A p \in -b..b : BestNear(f, p, b) + d * p \in Int
  BY <1>1
<1> QED BY <1>2 DEF Onto, Potentials

LEMMA BestIs ==
  ASSUME NEW delta \in [Atom -> Int], NEW b \in Nat, NEW anchored \in BOOLEAN
  PROVE  /\ Best(delta, b, anchored)[1] = FirstValues(delta, b, anchored)
         /\ \A a \in 1..(Atoms - 1) :
              Best(delta, b, anchored)[a + 1] = Onto(Best(delta, b, anchored)[a], delta[a + 1], b)
         /\ \A a \in Atom : Best(delta, b, anchored)[a] \in Potentials(b)
<1> DEFINE e(f, a) == IF a = 1 THEN FirstValues(delta, b, anchored) ELSE Onto(f[a - 1], delta[a], b)
           R(f) == f = [a \in Atom |-> e(f, a)]
           chosen == CHOOSE f : R(f)
           V == Potentials(b)
           s1 == FirstValues(delta, b, anchored)
           g == [x \in V \X (1..Atoms) |-> Onto(x[1], delta[x[2]], b)]
<1>0. Atoms \in Nat /\ Atom = 1..Atoms /\ 1 <= Atoms /\ 1 \in Atom
  BY AtomsAre
<1>1. Best(delta, b, anchored) = chosen
  BY DEF Best, FirstValues, Onto, BestNear
<1>2. s1 \in V
  <2>1. \A p \in -b..b : delta[1] * p \in Int
    BY <1>0
  <2> QED BY <2>1, NoValueIs DEF FirstValues, Potentials
<1>3. g \in [V \X (1..Atoms) -> V]
        /\ \A f \in V, a \in 1..Atoms : g[<<f, a>>] = Onto(f, delta[a], b)
  <2>1. \A f \in V, a \in 1..Atoms : Onto(f, delta[a], b) \in V
    BY <1>0, OntoType
  <2> HIDE DEF V
  <2> QED BY <2>1
<1> HIDE DEF g, V, s1
<1>4. PICK f \in [1..Atoms -> V] : Follows(f, g, s1, 1, Atoms)
  BY <1>0, <1>2, <1>3, RecursionExists
<1>5. \A a \in Atom : f[a] = e(f, a)
  <2> TAKE a \in Atom
  <2>1. CASE a = 1
    BY <2>1, <1>4 DEF Follows, s1
  <2>2. CASE a # 1
    <3>1. a \in (1 + 1)..Atoms /\ a \in 1..Atoms /\ a - 1 \in 1..Atoms
      BY <2>2, <1>0
    <3>2. f[a] = g[<<f[a - 1], a>>] /\ f[a - 1] \in V
      BY <3>1, <1>4 DEF Follows
    <3> QED BY <3>1, <3>2, <2>2, <1>3
  <2> QED BY <2>1, <2>2
<1>6. R(f)
  <2> HIDE DEF e
  <2> QED BY <1>0, <1>4, <1>5
<1>7. R(chosen)
  <2> HIDE DEF R
  <2> QED BY <1>6
<1> HIDE DEF chosen
<1>8. \A a \in Atom : chosen[a] = e(chosen, a)
  <2> HIDE DEF e
  <2> QED BY <1>7
<1>9. chosen[1] = s1
  BY <1>0, <1>8 DEF s1
<1>10. \A a \in 1..(Atoms - 1) : chosen[a + 1] = Onto(chosen[a], delta[a + 1], b)
  <2> TAKE a \in 1..(Atoms - 1)
  <2>1. a + 1 \in Atom /\ a + 1 # 1 /\ (a + 1) - 1 = a
    BY <1>0
  <2> QED BY <2>1, <1>8
<1>11. \A a \in Atom : chosen[a] \in V
  <2> DEFINE T == {a \in 1..Atoms : chosen[a] \in V}
  <2>1. 1 \in T
    BY <1>0, <1>2, <1>9
  <2>2. ASSUME NEW a \in 1..(Atoms - 1), a \in T PROVE a + 1 \in T
    <3>1. a + 1 \in Atom /\ delta[a + 1] \in Int
      BY <1>0
    <3>2. chosen[a + 1] \in V
      BY <3>1, <2>2, <1>10, OntoType DEF V
    <3> QED BY <3>1, <3>2, <1>0
  <2> HIDE DEF T
  <2>3. Closed(T, 1, Atoms)
    BY <2>1, <2>2 DEF Closed
  <2>4. \A a \in 1..Atoms : a \in T
    BY <1>0, <2>3, Everyone
  <2> QED BY <2>4, <1>0 DEF T
<1> QED BY <1>1, <1>9, <1>10, <1>11 DEF s1, V

-----------------------------------------------------------------------------
(* Products                                                                  *)

LEMMA ProductGrows == \A x, y \in Nat : x >= 1 => x * y \in Nat /\ x * y >= y
<1> TAKE x, y \in Nat
<1> HAVE x >= 1
<1>1. x = (x - 1) + 1 /\ x - 1 \in Nat
  OBVIOUS
<1>2. (x - 1) * y \in Nat
  BY <1>1
<1>3. x * y = (x - 1) * y + y
  OBVIOUS
<1> QED BY <1>2, <1>3

LEMMA MagnitudeIs == \A x \in Int : Magnitude(x) \in Nat /\ Magnitude(x) >= x /\ Magnitude(x) >= -x
BY DEF Magnitude

\* A potential within b of zero earns at most b times what it multiplies.
LEMMA ProductIsBounded ==
  ASSUME NEW b \in Nat, NEW x \in Int, NEW q \in -b..b
  PROVE  /\ x * q \in Int /\ b * Magnitude(x) \in Nat
         /\ x * q <= b * Magnitude(x) /\ -(b * Magnitude(x)) <= x * q
<1>1. CASE x >= 0
  <2>1. x * (b - q) >= 0 /\ x * (b + q) >= 0
    BY <1>1
  <2>2. x * (b - q) = b * x - x * q /\ x * (b + q) = b * x + x * q
    OBVIOUS
  <2> QED BY <1>1, <2>1, <2>2 DEF Magnitude
<1>2. CASE x < 0
  <2>1. (-x) * (b - q) >= 0 /\ (-x) * (b + q) >= 0
    BY <1>2
  <2>2. (-x) * (b - q) = b * (-x) + x * q /\ (-x) * (b + q) = b * (-x) - x * q
    OBVIOUS
  <2> QED BY <1>2, <2>1, <2>2 DEF Magnitude
<1> QED BY <1>1, <1>2

\* No potential that a program may use makes a value as low as none.
LEMMA NoValueIsLow ==
  /\ BirthDeathCost \in Nat /\ MassOne \in Nat /\ Atoms - 1 \in Nat
  /\ NoValue <= -(BirthDeathCost * MassOne) /\ NoValue <= -((Atoms - 1) * MassOne)
<1> DEFINE A == Atoms  M == MassOne  c == BirthDeathCost + 1
<1>1. A \in Nat /\ A >= 1 /\ M \in Nat /\ M >= 1 /\ BirthDeathCost \in Nat /\ c \in Nat /\ c >= 1
  BY LoomAssumption DEF LoomAssumption
<1> HIDE DEF A, M, c
<1>2. A * M \in Nat /\ A * M >= 1
  BY <1>1, ProductGrows
<1>3. (A * M) * c \in Nat /\ c * (A * M) \in Nat /\ c * (A * M) >= A * M
  BY <1>1, <1>2, ProductGrows
<1>4. c * M \in Nat /\ A * (c * M) >= c * M /\ A * (c * M) \in Nat
  BY <1>1, ProductGrows
<1>5. A * (c * M) = c * (A * M)
  BY <1>1
<1> DEFINE X == c * (A * M)
<1>6. X \in Nat /\ A * X \in Nat /\ A * X >= X
  <2> HIDE DEF X
  <2>1. X \in Nat
    BY <1>3 DEF X
  <2> QED BY <2>1, <1>1, ProductGrows
<1>7. 2 * A * A * M * c = 2 * (A * X)
  BY <1>1
<1>8. NoValue = -(2 * (A * X) + 1)
  BY <1>7 DEF NoValue, A, M, c
<1>9. BirthDeathCost * M <= c * M
  <2>1. c * M = BirthDeathCost * M + M
    BY <1>1 DEF c
  <2> QED BY <2>1, <1>1
<1>10. (A - 1) * M <= A * M
  <2>1. (A - 1) * M = A * M - M
    BY <1>1
  <2> QED BY <2>1, <1>1, <1>2
<1>11. BirthDeathCost * M \in Nat /\ (A - 1) * M \in Nat
  BY <1>1
<1> HIDE DEF X
<1>12. c * M <= X /\ A * M <= X
  BY <1>3, <1>4, <1>5 DEF X
<1> QED BY <1>1, <1>2, <1>4, <1>6, <1>8, <1>9, <1>10, <1>11, <1>12 DEF A, M

-----------------------------------------------------------------------------
(* What a transport costs, atom by atom                                      *)

Carrying == [1..(Atoms - 1) -> Int]
Into(carry, a) == IF a > 1 THEN carry[a - 1] ELSE 0
Steps(carry) == [a \in Atom |-> IF a < Atoms THEN Magnitude(carry[a]) ELSE 0]
Sizes(left) == [a \in Atom |-> Magnitude(left[a])]
\* What the first n atoms pay, at b for a birth or a death.
Paid(delta, carry, b, n) == Upto(Steps(carry))[n] + b * Upto(Sizes(Left(delta, carry)))[n]

LEMMA LeftIs ==
  ASSUME NEW delta \in [Atom -> Int], NEW c \in Carrying
  PROVE  /\ Left(delta, c) \in [Atom -> Int]
         /\ \A a \in Atom : Into(c, a) \in Int /\ (a < Atoms => c[a] \in Int)
         /\ \A a \in Atom : a < Atoms => Left(delta, c)[a] = delta[a] + Into(c, a) - c[a]
         /\ \A a \in Atom : ~(a < Atoms) => Left(delta, c)[a] = delta[a] + Into(c, a)
<1>0. Atoms \in Nat /\ Atom = 1..Atoms
  BY AtomsAre
<1>1. \A a \in Atom : Into(c, a) \in Int
  <2> TAKE a \in Atom
  <2>1. CASE a > 1
    <3>1. a - 1 \in 1..(Atoms - 1)
      BY <1>0, <2>1
    <3> QED BY <3>1, <2>1 DEF Carrying, Into
  <2>2. CASE ~(a > 1)
    BY <2>2 DEF Into
  <2> QED BY <2>1, <2>2
<1>2. \A a \in Atom : a < Atoms => c[a] \in Int
  <2> TAKE a \in Atom
  <2> HAVE a < Atoms
  <2>1. a \in 1..(Atoms - 1)
    BY <1>0
  <2> QED BY <2>1 DEF Carrying
<1>3. Left(delta, c) = [a \in Atom |-> delta[a] + Into(c, a) - (IF a < Atoms THEN c[a] ELSE 0)]
  BY DEF Left, Into
<1>4. \A a \in Atom : delta[a] \in Int
  OBVIOUS
<1> QED BY <1>1, <1>2, <1>3, <1>4

LEMMA StepsAre ==
  ASSUME NEW c \in Carrying
  PROVE  /\ Steps(c) \in [Atom -> Int]
         /\ \A a \in Atom : Steps(c)[a] >= 0
         /\ \A a \in Atom : a < Atoms => Steps(c)[a] = Magnitude(c[a])
         /\ \A a \in Atom : ~(a < Atoms) => Steps(c)[a] = 0
<1>1. \A a \in Atom : a < Atoms => c[a] \in Int
  BY AtomsAre DEF Carrying
<1>2. \A a \in Atom : a < Atoms => Magnitude(c[a]) \in Nat
  BY <1>1, MagnitudeIs
<1> QED BY <1>2 DEF Steps

LEMMA SizesAre ==
  ASSUME NEW left \in [Atom -> Int]
  PROVE  /\ Sizes(left) \in [Atom -> Int]
         /\ \A a \in Atom : Sizes(left)[a] >= 0 /\ Sizes(left)[a] = Magnitude(left[a])
<1>1. \A a \in Atom : Magnitude(left[a]) \in Nat
  BY MagnitudeIs
<1> QED BY <1>1 DEF Sizes

LEMMA PaidIs ==
  ASSUME NEW delta \in [Atom -> Int], NEW c \in Carrying, NEW b \in Nat
  PROVE  /\ Paid(delta, c, b, 0) = 0
         /\ \A n \in 0..Atoms : Paid(delta, c, b, n) \in Nat
         /\ \A a \in Atom : Paid(delta, c, b, a) =
              Paid(delta, c, b, a - 1) + Steps(c)[a] + b * Magnitude(Left(delta, c)[a])
<1> DEFINE S == Steps(c)  Z == Sizes(Left(delta, c))
<1>0. Atoms \in Nat /\ Atom = 1..Atoms /\ 0 \in 0..Atoms
  BY AtomsAre
<1>1. /\ S \in [Atom -> Int] /\ Z \in [Atom -> Int] /\ \A a \in Atom : S[a] >= 0 /\ Z[a] >= 0
      /\ \A a \in Atom : Z[a] = Magnitude(Left(delta, c)[a])
  BY LeftIs, StepsAre, SizesAre
<1> DEFINE P(n) == Paid(delta, c, b, n)
<1>2. \A n : P(n) = Upto(S)[n] + b * Upto(Z)[n]
  BY DEF Paid
<1> HIDE DEF S, Z, P
<1>3. /\ Upto(S)[0] = 0 /\ Upto(Z)[0] = 0
      /\ \A a \in Atom : Upto(S)[a] = Upto(S)[a - 1] + S[a] /\ Upto(Z)[a] = Upto(Z)[a - 1] + Z[a]
  BY <1>1, UptoIs
<1>4. \A n \in 0..Atoms : Upto(S)[n] \in Nat /\ Upto(Z)[n] \in Nat
  BY <1>1, UptoIs, UptoGrows
<1>5. P(0) = 0
  BY <1>2, <1>3
<1>6. \A n \in 0..Atoms : P(n) \in Nat
  <2> TAKE n \in 0..Atoms
  <2>1. b * Upto(Z)[n] \in Nat
    BY <1>4
  <2> QED BY <2>1, <1>2, <1>4
<1>7. ASSUME NEW a \in Atom PROVE P(a) = P(a - 1) + S[a] + b * Z[a]
  <2>1. a - 1 \in 0..Atoms /\ S[a] \in Int /\ Z[a] \in Int
    BY <1>0, <1>1
  <2>2. Upto(Z)[a - 1] \in Nat /\ Upto(S)[a - 1] \in Nat
    BY <2>1, <1>4
  <2>3. b * (Upto(Z)[a - 1] + Z[a]) = b * Upto(Z)[a - 1] + b * Z[a]
    BY <2>1, <2>2
  <2>4. P(a) = Upto(S)[a - 1] + S[a] + b * (Upto(Z)[a - 1] + Z[a])
    BY <1>2, <1>3
  <2>5. P(a - 1) = Upto(S)[a - 1] + b * Upto(Z)[a - 1]
    BY <1>2
  <2>6. b * Upto(Z)[a - 1] \in Int /\ b * Z[a] \in Int
    BY <2>1, <2>2
  <2> QED BY <2>1, <2>2, <2>3, <2>4, <2>5, <2>6
<1> QED BY <1>1, <1>5, <1>6, <1>7 DEF P, S

\* What is carried on is what there was, less what was left behind.
LEMMA CarriedIs ==
  ASSUME NEW delta \in [Atom -> Int], NEW c \in Carrying
  PROVE  \A a \in 1..(Atoms - 1) : c[a] = Upto(delta)[a] - Upto(Left(delta, c))[a]
<1> DEFINE L == Left(delta, c)
           T == {a \in 1..Atoms : Into(c, a) = Upto(delta)[a - 1] - Upto(L)[a - 1]}
<1>0. Atoms \in Nat /\ Atom = 1..Atoms /\ Atoms >= 1
  BY AtomsAre
<1>1. /\ L \in [Atom -> Int] /\ \A a \in 1..(Atoms - 1) : c[a] \in Int
      /\ \A a \in 1..(Atoms - 1) : a \in Atom /\ L[a] = delta[a] + Into(c, a) - c[a]
  BY <1>0, LeftIs
<1>2. \A a \in Atom : Into(c, a) \in Int
  BY LeftIs
<1> HIDE DEF L
<1>3. /\ Upto(delta)[0] = 0 /\ Upto(L)[0] = 0
      /\ \A a \in Atom : Upto(delta)[a] = Upto(delta)[a - 1] + delta[a]
         /\ Upto(L)[a] = Upto(L)[a - 1] + L[a]
      /\ \A n \in 0..Atoms : Upto(delta)[n] \in Int /\ Upto(L)[n] \in Int
  BY <1>1, UptoIs
<1>4. 1 \in T
  <2>1. Into(c, 1) = 0 /\ 1 - 1 = 0
    BY DEF Into
  <2> QED BY <2>1, <1>0, <1>3
<1>5. ASSUME NEW a \in 1..(Atoms - 1), Into(c, a) = Upto(delta)[a - 1] - Upto(L)[a - 1]
      PROVE  c[a] = Upto(delta)[a] - Upto(L)[a]
  <2>1. a \in Atom /\ a - 1 \in 0..Atoms /\ a \in 0..Atoms
    BY <1>0
  <2>2. delta[a] \in Int /\ L[a] \in Int /\ c[a] \in Int /\ Into(c, a) \in Int
    BY <2>1, <1>1, <1>2
  <2>3. L[a] = delta[a] + Into(c, a) - c[a]
    BY <1>1
  <2>4. Upto(delta)[a] = Upto(delta)[a - 1] + delta[a] /\ Upto(L)[a] = Upto(L)[a - 1] + L[a]
    BY <2>1, <1>3
  <2>5. Upto(delta)[a - 1] \in Int /\ Upto(L)[a - 1] \in Int
    BY <2>1, <1>3
  <2> QED BY <2>2, <2>3, <2>4, <2>5, <1>5
<1>6. ASSUME NEW a \in 1..(Atoms - 1), a \in T PROVE a + 1 \in T
  <2>1. a + 1 \in 1..Atoms /\ a + 1 > 1 /\ (a + 1) - 1 = a
    BY <1>0
  <2>2. Into(c, a + 1) = c[a]
    BY <2>1 DEF Into
  <2>3. c[a] = Upto(delta)[a] - Upto(L)[a]
    BY <1>6, <1>5
  <2> QED BY <2>1, <2>2, <2>3
<1>7. \A a \in 1..Atoms : a \in T
  <2>1. Closed(T, 1, Atoms)
    <3> HIDE DEF T
    <3> QED BY <1>4, <1>6 DEF Closed
  <2> HIDE DEF T
  <2> QED BY <1>0, <2>1, Everyone
<1>8. ASSUME NEW a \in 1..(Atoms - 1) PROVE c[a] = Upto(delta)[a] - Upto(L)[a]
  <2>1. a \in 1..Atoms
    BY <1>0
  <2>2. Into(c, a) = Upto(delta)[a - 1] - Upto(L)[a - 1]
    BY <2>1, <1>7
  <2> QED BY <2>2, <1>5
<1> QED BY <1>8 DEF L

\* A sum is no larger than the sum of the sizes.
LEMMA SizesBound ==
  ASSUME NEW left \in [Atom -> Int]
  PROVE  \A n \in 0..Atoms : /\ Upto(left)[n] \in Int /\ Upto(Sizes(left))[n] \in Nat
                             /\ Magnitude(Upto(left)[n]) <= Upto(Sizes(left))[n]
<1> DEFINE Z == Sizes(left)
           T == {n \in 0..Atoms : Magnitude(Upto(left)[n]) <= Upto(Z)[n]}
<1>0. Atoms \in Nat /\ Atom = 1..Atoms
  BY AtomsAre
<1>1. Z \in [Atom -> Int] /\ \A a \in Atom : Z[a] >= 0 /\ Z[a] = Magnitude(left[a])
  BY SizesAre
<1> HIDE DEF Z
<1>2. /\ Upto(left)[0] = 0 /\ Upto(Z)[0] = 0
      /\ \A a \in Atom : Upto(left)[a] = Upto(left)[a - 1] + left[a]
         /\ Upto(Z)[a] = Upto(Z)[a - 1] + Z[a]
      /\ \A n \in 0..Atoms : Upto(left)[n] \in Int /\ Upto(Z)[n] \in Int
  BY <1>1, UptoIs
<1>3. \A n \in 0..Atoms : Upto(Z)[n] >= 0
  BY <1>1, UptoGrows
<1>4. 0 \in T
  BY <1>0, <1>2 DEF Magnitude
<1>5. ASSUME NEW n \in 0..(Atoms - 1), n \in T PROVE n + 1 \in T
  <2>1. n + 1 \in Atom /\ n + 1 \in 0..Atoms /\ n \in 0..Atoms /\ (n + 1) - 1 = n
    BY <1>0
  <2>2. /\ Upto(left)[n + 1] = Upto(left)[n] + left[n + 1] /\ Upto(Z)[n + 1] = Upto(Z)[n] + Z[n + 1]
        /\ Upto(left)[n] \in Int /\ left[n + 1] \in Int /\ Upto(Z)[n] \in Int /\ Z[n + 1] \in Int
    BY <2>1, <1>1, <1>2
  <2>3. Z[n + 1] = Magnitude(left[n + 1]) /\ Magnitude(Upto(left)[n]) <= Upto(Z)[n]
    BY <2>1, <1>1, <1>5
  <2>4. Magnitude(Upto(left)[n] + left[n + 1]) <= Magnitude(Upto(left)[n]) + Magnitude(left[n + 1])
    BY <2>2 DEF Magnitude
  <2>5. Magnitude(Upto(left)[n]) \in Nat /\ Magnitude(left[n + 1]) \in Nat
          /\ Magnitude(Upto(left)[n] + left[n + 1]) \in Nat
    BY <2>2, MagnitudeIs
  <2>6. Magnitude(Upto(left)[n + 1]) <= Upto(Z)[n + 1]
    BY <2>2, <2>3, <2>4, <2>5
  <2> QED BY <2>1, <2>6
<1> HIDE DEF T
<1>6. \A n \in 0..Atoms : n \in T
  BY <1>0, <1>4, <1>5, Everyone DEF Closed
<1> QED BY <1>2, <1>3, <1>6 DEF T, Z

-----------------------------------------------------------------------------
(* Weak duality: no transport is cheaper than the dual program says          *)

\* What a potential may be worth at an atom, whatever is carried to it.
Within(delta, c, b, a, best) ==
  \A p \in -b..b : best[p] <= Paid(delta, c, b, a - 1) + (delta[a] + Into(c, a)) * p

\* Both programs: the potentials fit, and so do the sums.
Fits(delta, b) ==
  /\ b \in Nat /\ delta \in [Atom -> Int] /\ NoValue <= -(b * MassOne)
  /\ \A n \in 0..Atoms : Upto(delta)[n] \in (-MassOne)..MassOne

LEMMA FirstWithin ==
  ASSUME NEW delta, NEW b, Fits(delta, b), NEW c \in Carrying, NEW anchored \in BOOLEAN
  PROVE  Within(delta, c, b, 1, FirstValues(delta, b, anchored))
<1>0. /\ b \in Nat /\ delta \in [Atom -> Int] /\ NoValue <= -(b * MassOne) /\ MassOne \in Nat
      /\ 1 \in Atom /\ 1 \in 0..Atoms /\ 0 \in 0..Atoms /\ NoValue \in Int
  BY AtomsAre, NoValueIsLow, NoValueIs DEF Fits
<1>1. delta[1] \in (-MassOne)..MassOne
  <2>1. Upto(delta)[0] = 0 /\ Upto(delta)[1] = Upto(delta)[1 - 1] + delta[1] /\ 1 - 1 = 0
    BY <1>0, UptoIs
  <2>2. Upto(delta)[1] \in (-MassOne)..MassOne
    BY <1>0 DEF Fits
  <2> QED BY <2>1, <2>2, <1>0
<1>2. Into(c, 1) = 0 /\ 1 - 1 = 0 /\ Paid(delta, c, b, 0) = 0
  BY <1>0, PaidIs DEF Into
<1>3. ASSUME NEW p \in -b..b
      PROVE  FirstValues(delta, b, anchored)[p] <= delta[1] * p
  <2>1. delta[1] \in Int /\ p \in Int /\ delta[1] * p \in Int
    BY <1>0
  <2>2. CASE anchored /\ p # 0
    <3>1. p \in -b..b /\ Magnitude(p) \in Nat /\ Magnitude(p) <= b
      BY <1>0 DEF Magnitude
    <3>2. p * delta[1] \in Int /\ -(MassOne * Magnitude(p)) <= p * delta[1]
            /\ MassOne * Magnitude(p) \in Nat
      BY <1>0, <1>1, <2>1, ProductIsBounded
    <3>3. MassOne * (b - Magnitude(p)) >= 0
      BY <1>0, <3>1
    <3>4. MassOne * (b - Magnitude(p)) = b * MassOne - MassOne * Magnitude(p) /\ b * MassOne \in Int
      BY <1>0, <3>1
    <3>5. NoValue <= p * delta[1]
      BY <1>0, <3>2, <3>3, <3>4
    <3>6. p * delta[1] = delta[1] * p
      BY <2>1
    <3> QED BY <3>5, <3>6, <2>2 DEF FirstValues
  <2>3. CASE ~(anchored /\ p # 0)
    BY <2>1, <2>3 DEF FirstValues
  <2> QED BY <2>2, <2>3
<1>4. ASSUME NEW p \in -b..b
      PROVE  FirstValues(delta, b, anchored)[p] <= Paid(delta, c, b, 1 - 1) + (delta[1] + Into(c, 1)) * p
  <2>1. delta[1] \in Int /\ delta[1] + Into(c, 1) = delta[1] /\ delta[1] * p \in Int
    BY <1>0, <1>2
  <2>2. Paid(delta, c, b, 1 - 1) + (delta[1] + Into(c, 1)) * p = delta[1] * p
    BY <2>1, <1>2
  <2> QED BY <2>2, <1>3
<1> QED BY <1>4 DEF Within

LEMMA NextWithin ==
  ASSUME NEW delta, NEW b, Fits(delta, b), NEW c \in Carrying, NEW a \in 1..(Atoms - 1),
         NEW best \in Potentials(b), Within(delta, c, b, a, best)
  PROVE  Within(delta, c, b, a + 1, Onto(best, delta[a + 1], b))
<1> DEFINE L == Left(delta, c)
           left == L[a]
           s == delta[a] + Into(c, a)
           Before == Paid(delta, c, b, a - 1)
           After == Paid(delta, c, b, a)
           carried == c[a]
<1>0. /\ b \in Nat /\ delta \in [Atom -> Int] /\ NoValue <= -(b * MassOne) /\ MassOne \in Nat
      /\ a \in Atom /\ a + 1 \in Atom /\ a < Atoms /\ a + 1 > 1 /\ (a + 1) - 1 = a
      /\ a - 1 \in 0..Atoms /\ a \in 0..Atoms /\ NoValue \in Int
  BY AtomsAre, NoValueIsLow, NoValueIs DEF Fits
<1>1. /\ L \in [Atom -> Int] /\ left \in Int /\ s \in Int /\ carried \in Int /\ left = s - carried
      /\ Into(c, a + 1) = carried
  <2>1. /\ L \in [Atom -> Int] /\ Into(c, a) \in Int /\ carried \in Int
        /\ left = delta[a] + Into(c, a) - carried
    BY <1>0, LeftIs
  <2>2. Into(c, a + 1) = carried
    BY <1>0 DEF Into
  <2> QED BY <2>1, <2>2, <1>0
<1>2. /\ Before \in Nat /\ After \in Nat
      /\ After = Before + Magnitude(carried) + b * Magnitude(left)
  <2>1. Before \in Nat /\ After \in Nat /\ After = Before + Steps(c)[a] + b * Magnitude(L[a])
    BY <1>0, PaidIs
  <2>2. Steps(c)[a] = Magnitude(c[a])
    BY <1>0, StepsAre
  <2> QED BY <2>1, <2>2
<1>3. /\ carried = Upto(delta)[a] - Upto(L)[a]
      /\ Upto(delta)[a] \in (-MassOne)..MassOne
      /\ Upto(L)[a] \in Int /\ b * Magnitude(Upto(L)[a]) <= After
  <2>1. carried = Upto(delta)[a] - Upto(L)[a]
    BY <1>0, CarriedIs
  <2>2. Upto(delta)[a] \in (-MassOne)..MassOne
    BY <1>0 DEF Fits
  <2> DEFINE u == Upto(L)[a]  z == Upto(Sizes(L))[a]
  <2>3. u \in Int /\ z \in Nat /\ Magnitude(u) <= z /\ Magnitude(u) \in Nat
    BY <1>0, <1>1, SizesBound, MagnitudeIs
  <2>4. Upto(Steps(c))[a] \in Nat
    BY <1>0, StepsAre, UptoIs, UptoGrows
  <2>5. After = Upto(Steps(c))[a] + b * z
    BY DEF Paid
  <2> HIDE DEF u, z, After
  <2>6. b * (z - Magnitude(u)) >= 0
    BY <2>3, <1>0
  <2>7. b * (z - Magnitude(u)) = b * z - b * Magnitude(u)
    BY <2>3, <1>0
  <2>8. b * z \in Int /\ b * Magnitude(u) \in Int
    BY <2>3, <1>0
  <2>9. b * Magnitude(u) <= After
    BY <2>4, <2>5, <2>6, <2>7, <2>8
  <2> QED BY <2>1, <2>2, <2>3, <2>9 DEF u
<1>4. \A q \in -b..b : best[q] \in Int /\ best[q] <= Before + s * q
  BY <1>0 DEF Within, Potentials
<1> HIDE DEF left, s, Before, After, carried, L
<1>5. ASSUME NEW p \in -b..b, NEW q \in Priors(p, b)
      PROVE  best[q] <= After + carried * p
  <2>1. q \in Int /\ q \in -b..b /\ p \in Int /\ q - p \in -1..1
    BY <1>0, PriorsAre
  <2>2. s * q = left * q + carried * p + carried * (q - p)
    <3>1. s = left + carried
      BY <1>1
    <3> QED BY <3>1, <1>1, <2>1
  <2>3. left * q \in Int /\ left * q <= b * Magnitude(left) /\ b * Magnitude(left) \in Nat
    BY <1>0, <1>1, <2>1, ProductIsBounded
  <2>4. carried * (q - p) \in Int /\ carried * (q - p) <= 1 * Magnitude(carried)
    BY <1>1, <2>1, ProductIsBounded
  <2>5. Magnitude(carried) \in Nat /\ carried * p \in Int /\ best[q] \in Int
          /\ best[q] <= Before + s * q
    BY <1>1, <1>4, <2>1, MagnitudeIs
  <2> QED BY <2>2, <2>3, <2>4, <2>5, <1>2
<1>6. ASSUME NEW p \in -b..b
      PROVE  NoValue <= After + carried * p
  <2> DEFINE d == Upto(delta)[a]  u == Upto(L)[a]
  <2>1. d \in Int /\ u \in Int /\ p \in Int /\ d \in (-MassOne)..MassOne
    BY <1>3, <1>0
  <2>2. carried * p = d * p - u * p
    BY <2>1, <1>3
  <2>3. u * p \in Int /\ u * p <= b * Magnitude(u) /\ b * Magnitude(u) \in Nat
    BY <2>1, <1>0, ProductIsBounded
  <2>4. d * p \in Int /\ -(b * Magnitude(d)) <= d * p /\ b * Magnitude(d) \in Nat
    BY <2>1, <1>0, ProductIsBounded
  <2> HIDE DEF d, u
  <2>5. b * Magnitude(d) <= b * MassOne
    <3>1. Magnitude(d) \in Nat /\ MassOne - Magnitude(d) \in Nat
      BY <2>1, <1>0 DEF Magnitude
    <3>2. b * (MassOne - Magnitude(d)) >= 0
            /\ b * (MassOne - Magnitude(d)) = b * MassOne - b * Magnitude(d)
      BY <3>1, <1>0
    <3>3. b * MassOne \in Int /\ b * Magnitude(d) \in Int
      BY <3>1, <1>0
    <3> QED BY <3>2, <3>3
  <2>6. b * Magnitude(u) <= After
    BY <1>3 DEF u
  <2>7. b * MassOne \in Int
    BY <1>0
  <2> QED BY <2>2, <2>3, <2>4, <2>5, <2>6, <2>7, <1>0, <1>2
<1>7. ASSUME NEW p \in -b..b
      PROVE  Onto(best, delta[a + 1], b)[p] <= After + (delta[a + 1] + carried) * p
  <2>1. /\ BestNear(best, p, b) \in Int
        /\ BestNear(best, p, b) = NoValue \/ \E q \in Priors(p, b) : BestNear(best, p, b) = best[q]
    <3>1. best \in [-b..b -> Int] /\ p \in Int
      BY DEF Potentials
    <3> QED BY <3>1, <1>0, BestNearIs
  <2>2. BestNear(best, p, b) <= After + carried * p
    BY <2>1, <1>5, <1>6
  <2>3. Onto(best, delta[a + 1], b)[p] = BestNear(best, p, b) + delta[a + 1] * p
    BY DEF Onto
  <2>4. delta[a + 1] \in Int /\ p \in Int /\ carried \in Int
    BY <1>0, <1>1
  <2>5. (delta[a + 1] + carried) * p = delta[a + 1] * p + carried * p
    BY <2>4
  <2>6. delta[a + 1] * p \in Int /\ carried * p \in Int
    BY <2>4
  <2> QED BY <2>1, <2>2, <2>3, <2>5, <2>6, <1>2
<1>8. Paid(delta, c, b, (a + 1) - 1) = After
        /\ delta[a + 1] + Into(c, a + 1) = delta[a + 1] + carried
  BY <1>0, <1>1 DEF After
<1> QED BY <1>7, <1>8 DEF Within

LEMMA AllWithin ==
  ASSUME NEW delta, NEW b, Fits(delta, b), NEW c \in Carrying, NEW anchored \in BOOLEAN
  PROVE  Within(delta, c, b, Atoms, Best(delta, b, anchored)[Atoms])
<1> DEFINE T == {a \in 1..Atoms : Within(delta, c, b, a, Best(delta, b, anchored)[a])}
<1>0. b \in Nat /\ delta \in [Atom -> Int] /\ Atoms \in Nat /\ Atoms >= 1 /\ Atom = 1..Atoms
  BY AtomsAre DEF Fits
<1>1. 1 \in T
  BY <1>0, BestIs, FirstWithin
<1>2. ASSUME NEW a \in 1..(Atoms - 1), a \in T PROVE a + 1 \in T
  <2>1. a \in Atom /\ a + 1 \in 1..Atoms
    BY <1>0
  <2>2. /\ Best(delta, b, anchored)[a] \in Potentials(b)
        /\ Best(delta, b, anchored)[a + 1] = Onto(Best(delta, b, anchored)[a], delta[a + 1], b)
    BY <1>0, <2>1, BestIs
  <2>3. Within(delta, c, b, a, Best(delta, b, anchored)[a])
    BY <1>2
  <2>4. Within(delta, c, b, a + 1, Onto(Best(delta, b, anchored)[a], delta[a + 1], b))
    BY <2>2, <2>3, NextWithin
  <2> QED BY <2>1, <2>2, <2>4
<1> HIDE DEF T
<1>3. Closed(T, 1, Atoms) /\ Atoms \in 1..Atoms
  BY <1>0, <1>1, <1>2 DEF Closed
<1>4. Atoms \in T
  BY <1>0, <1>3, Everyone
<1> QED BY <1>4 DEF T

\* The value of the program is one of its potentials', and none is worth more.
LEMMA ChainDualIs ==
  ASSUME NEW delta \in [Atom -> Int], NEW b \in Nat, NEW anchored \in BOOLEAN
  PROVE  /\ ChainDual(delta, b, anchored) \in Int
         /\ \E p \in -b..b : ChainDual(delta, b, anchored) = Best(delta, b, anchored)[Atoms][p]
         /\ \A p \in -b..b : ChainDual(delta, b, anchored) >= Best(delta, b, anchored)[Atoms][p]
<1> DEFINE f == Best(delta, b, anchored)[Atoms]
           S == {f[p] : p \in -b..b}
<1>1. f \in [-b..b -> Int]
  BY AtomsAre, BestIs DEF Potentials
<1>2. 0 \in -b..b /\ IsFiniteSet(-b..b)
  <2>1. -b \in Int /\ b \in Int
    OBVIOUS
  <2> QED BY <2>1, FS_Interval
<1> HIDE DEF f
<1>3. S \in SUBSET Int /\ S # {} /\ IsFiniteSet(S)
  BY <1>1, <1>2, ImageIsFinite
<1>4. ChainDual(delta, b, anchored) = Highest(S)
  BY DEF ChainDual, f
<1> HIDE DEF S
<1>5. Highest(S) \in S /\ Highest(S) \in Int /\ \A y \in S : Highest(S) >= y
  BY <1>3, HighestIs
<1> QED BY <1>4, <1>5 DEF S, f

LEMMA MovedIs ==
  ASSUME NEW c \in Carrying
  PROVE  Moved(c) = Upto(Steps(c))[Atoms] /\ Moved(c) \in Nat
<1>1. Moved(c) = Total(Steps(c))
  BY DEF Moved, Steps
<1>2. Upto(Steps(c))[Atoms] >= 0 /\ Atoms \in 0..Atoms
  <2>1. Atoms \in 0..Atoms
    BY AtomsAre
  <2> QED BY <2>1, StepsAre, UptoGrows
<1>3. Upto(Steps(c))[Atoms] \in Int
  BY <1>2, StepsAre, UptoIs
<1> QED BY <1>1, <1>2, <1>3 DEF Total

LEMMA VariedIs ==
  ASSUME NEW left \in [Atom -> Int]
  PROVE  Varied(left) = Upto(Sizes(left))[Atoms] /\ Varied(left) \in Nat
<1>1. Varied(left) = Total(Sizes(left)) /\ Atoms \in 0..Atoms
  BY AtomsAre DEF Varied, Sizes
<1> QED BY <1>1, SizesBound DEF Total

\* Moving and varying costs at least what the dual program says.
LEMMA WeakDuality ==
  ASSUME NEW delta, NEW b, Fits(delta, b), NEW c \in Carrying, NEW anchored \in BOOLEAN
  PROVE  /\ ChainDual(delta, b, anchored) <= Moved(c) + b * Varied(Left(delta, c))
         /\ ChainDual(delta, b, anchored) \in Int /\ Moved(c) \in Nat
         /\ Moved(c) + b * Varied(Left(delta, c)) = Paid(delta, c, b, Atoms)
<1> DEFINE L == Left(delta, c)
<1>0. b \in Nat /\ delta \in [Atom -> Int] /\ Atoms \in Atom /\ ~(Atoms < Atoms)
        /\ Atoms - 1 \in 0..Atoms
  BY AtomsAre DEF Fits
<1>1. L \in [Atom -> Int] /\ L[Atoms] = delta[Atoms] + Into(c, Atoms) /\ L[Atoms] \in Int
  BY <1>0, LeftIs
<1>2. Moved(c) \in Nat /\ Moved(c) + b * Varied(L) = Paid(delta, c, b, Atoms)
  BY <1>1, MovedIs, VariedIs DEF Paid
<1>3. /\ Paid(delta, c, b, Atoms) = Paid(delta, c, b, Atoms - 1) + b * Magnitude(L[Atoms])
      /\ Paid(delta, c, b, Atoms - 1) \in Nat
  <2>1. Steps(c)[Atoms] = 0
    BY <1>0, StepsAre
  <2>2. Paid(delta, c, b, Atoms) = Paid(delta, c, b, Atoms - 1) + Steps(c)[Atoms] + b * Magnitude(L[Atoms])
    BY <1>0, PaidIs
  <2>3. Paid(delta, c, b, Atoms - 1) \in Nat
    BY <1>0, PaidIs
  <2> QED BY <2>1, <2>2, <2>3
<1>4. PICK p \in -b..b : ChainDual(delta, b, anchored) = Best(delta, b, anchored)[Atoms][p]
  BY <1>0, ChainDualIs
<1>5. Best(delta, b, anchored)[Atoms][p] <= Paid(delta, c, b, Atoms - 1) + L[Atoms] * p
  BY <1>1, AllWithin DEF Within
<1>6. L[Atoms] * p <= b * Magnitude(L[Atoms]) /\ L[Atoms] * p \in Int
        /\ b * Magnitude(L[Atoms]) \in Nat
  BY <1>0, <1>1, ProductIsBounded
<1>7. ChainDual(delta, b, anchored) \in Int
  BY <1>0, ChainDualIs
<1> HIDE DEF L
<1>8. ChainDual(delta, b, anchored) <= Paid(delta, c, b, Atoms)
  BY <1>3, <1>4, <1>5, <1>6, <1>7
<1> QED BY <1>2, <1>7, <1>8 DEF L

-----------------------------------------------------------------------------
(* Strong duality where nothing is born or dies                              *)

LEMMA UptoOfNothing ==
  ASSUME NEW m \in [Atom -> Int], \A a \in Atom : m[a] = 0
  PROVE  \A n \in 0..Atoms : Upto(m)[n] = 0
<1> DEFINE T == {n \in 0..Atoms : Upto(m)[n] = 0}
<1>0. Atoms \in Nat /\ Atom = 1..Atoms
  BY AtomsAre
<1>1. 0 \in T
  BY <1>0, UptoIs
<1>2. ASSUME NEW n \in 0..(Atoms - 1), n \in T PROVE n + 1 \in T
  <2>1. n + 1 \in Atom /\ n + 1 \in 0..Atoms /\ (n + 1) - 1 = n
    BY <1>0
  <2>2. Upto(m)[n + 1] = Upto(m)[n] + m[n + 1]
    BY <2>1, UptoIs
  <2> QED BY <2>1, <2>2, <1>2
<1> HIDE DEF T
<1>3. \A n \in 0..Atoms : n \in T
  BY <1>0, <1>1, <1>2, Everyone DEF Closed
<1> QED BY <1>3 DEF T

\* A cost that is attained and that no transport undercuts is the least.
LEMMA LeastCost ==
  ASSUME NEW delta, NEW mass, NEW mayVary, NEW x \in PrimalCosts(delta, mass, mayVary), x \in Int,
         \A y \in PrimalCosts(delta, mass, mayVary) : y \in Int /\ x <= y
  PROVE  PrimalCost(delta, mass, mayVary) = x
<1> DEFINE costs == PrimalCosts(delta, mass, mayVary)
           least == CHOOSE z \in costs : \A y \in costs : z <= y
<1>1. PrimalCost(delta, mass, mayVary) = least
  BY DEF PrimalCost
<1> HIDE DEF costs
<1>2. x \in costs /\ \A y \in costs : y \in Int /\ x <= y
  BY DEF costs
<1>3. least \in costs /\ \A y \in costs : least <= y
  BY <1>2
<1> HIDE DEF least
<1>4. least <= x /\ x <= least /\ least \in Int
  BY <1>2, <1>3
<1> QED BY <1>1, <1>4, <1>2

\* Carry on whatever there is.
CarryAll(delta) == [a \in 1..(Atoms - 1) |-> Upto(delta)[a]]

LEMMA CarryAllIs ==
  ASSUME NEW delta \in [Atom -> Int], Upto(delta)[Atoms] = 0
  PROVE  /\ CarryAll(delta) \in Carrying
         /\ \A a \in Atom : Left(delta, CarryAll(delta))[a] = 0
         /\ Varied(Left(delta, CarryAll(delta))) = 0
<1> DEFINE c == CarryAll(delta)
           L == Left(delta, c)
<1>0. Atoms \in Nat /\ Atom = 1..Atoms /\ Atoms \in 0..Atoms /\ Atoms \in Atom
  BY AtomsAre
<1>1. /\ Upto(delta)[0] = 0
      /\ \A a \in Atom : Upto(delta)[a] = Upto(delta)[a - 1] + delta[a]
      /\ \A n \in 0..Atoms : Upto(delta)[n] \in Int
  BY UptoIs
<1>2. c \in Carrying /\ \A a \in 1..(Atoms - 1) : c[a] = Upto(delta)[a]
  <2>1. \A a \in 1..(Atoms - 1) : a \in 0..Atoms
    BY <1>0
  <2> QED BY <2>1, <1>1 DEF CarryAll, Carrying
<1> HIDE DEF c
<1>3. ASSUME NEW a \in Atom PROVE L[a] = 0
  <2>1. Into(c, a) = Upto(delta)[a - 1]
    <3>1. CASE a > 1
      <4>1. a - 1 \in 1..(Atoms - 1)
        BY <1>0, <3>1
      <4> QED BY <4>1, <3>1, <1>2 DEF Into
    <3>2. CASE ~(a > 1)
      <4>1. a - 1 = 0
        BY <1>0, <3>2
      <4> QED BY <4>1, <3>2, <1>1 DEF Into
    <3> QED BY <3>1, <3>2
  <2>2. delta[a] \in Int /\ a - 1 \in 0..Atoms /\ Upto(delta)[a - 1] \in Int
          /\ Upto(delta)[a] \in Int
    BY <1>0, <1>1
  <2>3. Upto(delta)[a] = Upto(delta)[a - 1] + delta[a]
    BY <1>1
  <2>4. CASE a < Atoms
    <3>1. a \in 1..(Atoms - 1)
      BY <1>0, <2>4
    <3>2. c[a] = Upto(delta)[a]
      BY <3>1, <1>2
    <3>3. L[a] = delta[a] + Into(c, a) - c[a]
      BY <2>4, <1>2, LeftIs
    <3> QED BY <3>2, <3>3, <2>1, <2>2, <2>3
  <2>5. CASE ~(a < Atoms)
    <3>1. a = Atoms
      BY <1>0, <2>5
    <3>2. L[a] = delta[a] + Into(c, a)
      BY <2>5, <1>2, LeftIs
    <3> QED BY <3>1, <3>2, <2>1, <2>2, <2>3
  <2> QED BY <2>4, <2>5
<1>4. L \in [Atom -> Int]
  BY <1>2, LeftIs
<1> HIDE DEF L
<1>5. Sizes(L) \in [Atom -> Int] /\ \A a \in Atom : Sizes(L)[a] = 0
  <2>1. Magnitude(0) = 0
    BY DEF Magnitude
  <2> QED BY <2>1, <1>3, <1>4, SizesAre
<1>6. Varied(L) = Upto(Sizes(L))[Atoms]
  BY <1>4, VariedIs
<1>7. Varied(L) = 0
  BY <1>0, <1>5, <1>6, UptoOfNothing
<1> QED BY <1>2, <1>3, <1>7 DEF c, L

\* A path of potentials that earns what carrying everything costs.
Earned(delta, a, p) ==
  Best(delta, Atoms - 1, TRUE)[a][p] >= Upto(Steps(CarryAll(delta)))[a - 1] + Upto(delta)[a] * p

LEMMA FirstEarned ==
  ASSUME NEW delta \in [Atom -> Int], Atoms - 1 \in Nat
  PROVE  Earned(delta, 1, 0)
<1> DEFINE c == CarryAll(delta)
<1>0. Atoms \in Nat /\ Atom = 1..Atoms /\ 1 \in Atom /\ 0 \in -(Atoms - 1)..(Atoms - 1)
  BY AtomsAre
<1>1. c \in Carrying
  <2>1. \A a \in 1..(Atoms - 1) : a \in 0..Atoms /\ Upto(delta)[a] \in Int
    BY <1>0, UptoIs
  <2> QED BY <2>1 DEF CarryAll, Carrying
<1> HIDE DEF c
<1>2. Upto(Steps(c))[0] = 0 /\ 1 - 1 = 0
  BY <1>1, StepsAre, UptoIs
<1>3. Best(delta, Atoms - 1, TRUE)[1] = FirstValues(delta, Atoms - 1, TRUE)
  BY BestIs
<1>4. FirstValues(delta, Atoms - 1, TRUE)[0] = delta[1] * 0
  BY <1>0 DEF FirstValues
<1>5. delta[1] * 0 = 0 /\ Upto(delta)[1] * 0 = 0
  <2>1. delta[1] \in Int /\ Upto(delta)[1] \in Int
    BY <1>0, UptoIs
  <2> QED BY <2>1
<1>6. 0 >= 0 + 0
  OBVIOUS
<1> QED BY <1>2, <1>3, <1>4, <1>5, <1>6 DEF Earned, c

LEMMA NextEarned ==
  ASSUME NEW delta \in [Atom -> Int], Atoms - 1 \in Nat, NEW a \in 1..(Atoms - 1),
         NEW q \in -(a - 1)..(a - 1), Earned(delta, a, q)
  PROVE  \E p \in -a..a : Earned(delta, a + 1, p)
<1> DEFINE c == CarryAll(delta)
           S == Upto(delta)[a]
           f == Best(delta, Atoms - 1, TRUE)[a]
           b == Atoms - 1
           p == IF S > 0 THEN q - 1 ELSE IF S < 0 THEN q + 1 ELSE q
           M == Upto(Steps(c))
<1>0. /\ Atoms \in Nat /\ Atom = 1..Atoms /\ a \in Atom /\ a + 1 \in Atom /\ (a + 1) - 1 = a
      /\ b \in Nat /\ a < Atoms /\ a \in 0..Atoms /\ a + 1 \in 0..Atoms /\ a - 1 \in 0..Atoms
  BY AtomsAre
<1>1. c \in Carrying /\ c[a] = S /\ S \in Int
  <2>1. \A i \in 1..(Atoms - 1) : i \in 0..Atoms /\ Upto(delta)[i] \in Int
    BY <1>0, UptoIs
  <2> QED BY <2>1 DEF CarryAll, Carrying
<1>2. M[a] = M[a - 1] + Magnitude(S) /\ M[a - 1] \in Int /\ M[a] \in Int
  <2>1. Steps(c) \in [Atom -> Int] /\ Steps(c)[a] = Magnitude(S)
    BY <1>0, <1>1, StepsAre
  <2> QED BY <2>1, <1>0, UptoIs
<1>3. f \in Potentials(b) /\ Best(delta, b, TRUE)[a + 1] = Onto(f, delta[a + 1], b)
  BY <1>0, BestIs
<1>4. f[q] >= M[a - 1] + S * q
  BY DEF Earned
<1>5. delta[a + 1] \in Int /\ Upto(delta)[a + 1] = S + delta[a + 1]
  BY <1>0, UptoIs
<1>6. q \in Int /\ p \in Int /\ p \in -a..a /\ p \in -b..b /\ q \in Priors(p, b)
  <2>1. q \in Int /\ p \in Int /\ p \in -a..a
    BY <1>0, <1>1
  <2>2. -b <= q /\ q <= b /\ p - 1 <= q /\ q <= p + 1
    BY <1>0, <1>1
  <2>3. p \in -b..b
    BY <2>1, <1>0
  <2> QED BY <2>1, <2>2, <2>3, <1>0, PriorsAre
<1>7. S * q = S * p + Magnitude(S)
  <2>1. CASE S > 0
    <3>1. p = q - 1 /\ Magnitude(S) = S
      BY <2>1, <1>1 DEF Magnitude
    <3>2. S * (q - 1) = S * q - S /\ S * q \in Int
      BY <1>1, <1>6
    <3> QED BY <3>1, <3>2, <1>1
  <2>2. CASE S < 0
    <3>1. p = q + 1 /\ Magnitude(S) = -S
      BY <2>2, <1>1 DEF Magnitude
    <3>2. S * (q + 1) = S * q + S /\ S * q \in Int
      BY <1>1, <1>6
    <3> QED BY <3>1, <3>2, <1>1
  <2>3. CASE S = 0
    <3>1. p = q /\ Magnitude(S) = 0
      BY <2>3 DEF Magnitude
    <3>2. S * q \in Int
      BY <1>1, <1>6
    <3> QED BY <3>1, <3>2
  <2> QED BY <2>1, <2>2, <2>3, <1>1
<1> HIDE DEF p, S, f, M, b
<1>8. BestNear(f, p, b) >= f[q] /\ BestNear(f, p, b) \in Int /\ f[q] \in Int
  <2>1. f \in [-b..b -> Int] /\ q \in -b..b
    <3>1. q \in -b..b
      BY <1>0, <1>6, PriorsAre
    <3> QED BY <3>1, <1>3 DEF Potentials
  <2> QED BY <2>1, <1>0, <1>6, BestNearIs
<1>9. Best(delta, b, TRUE)[a + 1][p] = BestNear(f, p, b) + delta[a + 1] * p
  BY <1>3, <1>6 DEF Onto
<1>10. (S + delta[a + 1]) * p = S * p + delta[a + 1] * p /\ S * p \in Int
         /\ delta[a + 1] * p \in Int
  BY <1>1, <1>5, <1>6
<1>11. Magnitude(S) \in Nat
  BY <1>1, MagnitudeIs
<1>12. Best(delta, b, TRUE)[a + 1][p] >= M[a] + (S + delta[a + 1]) * p
  <2> DEFINE X == S * p  Y == delta[a + 1] * p  Z == S * q  W == (S + delta[a + 1]) * p
  <2>1. /\ X \in Int /\ Y \in Int /\ Z = X + Magnitude(S) /\ W = X + Y /\ f[q] >= M[a - 1] + Z
        /\ Best(delta, b, TRUE)[a + 1][p] = BestNear(f, p, b) + Y
    BY <1>4, <1>7, <1>9, <1>10
  <2> HIDE DEF X, Y, Z, W
  <2> DEFINE value == Best(delta, b, TRUE)[a + 1][p]  near == BestNear(f, p, b)
             prior == f[q]  before == M[a - 1]  after == M[a]  size == Magnitude(S)
  <2>2. /\ near \in Int /\ prior \in Int /\ before \in Int /\ size \in Int /\ near >= prior
        /\ value = near + Y /\ prior >= before + Z /\ Z = X + size /\ after = before + size
    <3>1. near \in Int /\ prior \in Int /\ near >= prior
      BY <1>8
    <3>2. before \in Int /\ size \in Int /\ after = before + size
      BY <1>2, <1>11
    <3>3. value = near + Y /\ prior >= before + Z
      BY <2>1
    <3>4. Z = X + size
      BY <2>1
    <3> QED BY <3>1, <3>2, <3>3, <3>4
  <2> HIDE DEF value, near, prior, before, after, size
  <2>3. value >= after + W
    BY <2>1, <2>2
  <2> QED BY <2>3 DEF W, value, after
<1>13. Earned(delta, a + 1, p)
  BY <1>12, <1>5, <1>0 DEF Earned, b, M, S, c
<1> QED BY <1>13, <1>6

LEMMA AllEarned ==
  ASSUME NEW delta \in [Atom -> Int], Atoms - 1 \in Nat
  PROVE  \E p \in -(Atoms - 1)..(Atoms - 1) : Earned(delta, Atoms, p)
<1> DEFINE T == {a \in 1..Atoms : \E p \in -(a - 1)..(a - 1) : Earned(delta, a, p)}
<1>0. Atoms \in Nat /\ Atoms >= 1 /\ Atom = 1..Atoms
  BY AtomsAre
<1>1. 1 \in T
  <2>1. 0 \in -(1 - 1)..(1 - 1)
    OBVIOUS
  <2> QED BY <2>1, <1>0, FirstEarned
<1>2. ASSUME NEW a \in 1..(Atoms - 1), a \in T PROVE a + 1 \in T
  <2>1. PICK q \in -(a - 1)..(a - 1) : Earned(delta, a, q)
    BY <1>2
  <2>2. \E p \in -a..a : Earned(delta, a + 1, p)
    BY <2>1, NextEarned
  <2>3. a + 1 \in 1..Atoms /\ (a + 1) - 1 = a
    BY <1>0
  <2> QED BY <2>2, <2>3
<1> HIDE DEF T
<1>3. Closed(T, 1, Atoms) /\ Atoms \in 1..Atoms
  BY <1>0, <1>1, <1>2 DEF Closed
<1>4. Atoms \in T
  BY <1>0, <1>3, Everyone
<1> QED BY <1>4 DEF T

\* Where the total does not change, the anchored program finds the least cost of
\* moving it.
LEMMA MaterialDuality ==
  ASSUME NEW delta, Fits(delta, Atoms - 1), Upto(delta)[Atoms] = 0, NEW mass \in Nat,
         \A n \in 0..Atoms : Upto(delta)[n] \in -mass..mass
  PROVE  /\ PrimalCost(delta, mass, FALSE) = ChainDual(delta, Atoms - 1, TRUE)
         /\ ChainDual(delta, Atoms - 1, TRUE) \in Nat
<1> DEFINE c == CarryAll(delta)
           b == Atoms - 1
           D == ChainDual(delta, b, TRUE)
           costs == PrimalCosts(delta, mass, FALSE)
<1>0. /\ b \in Nat /\ delta \in [Atom -> Int] /\ Atoms \in Atom /\ Atom = 1..Atoms
         /\ BirthDeathCost \in Nat
      /\ Atoms \in Nat
  BY AtomsAre, NoValueIsLow DEF Fits
<1>1. c \in Carrying /\ c \in Carries(mass) /\ Varied(Left(delta, c)) = 0
  <2>1. c \in Carrying /\ Varied(Left(delta, c)) = 0
    BY <1>0, CarryAllIs
  <2>2. \A a \in 1..(Atoms - 1) : c[a] \in -mass..mass
    <3>1. \A a \in 1..(Atoms - 1) : a \in 0..Atoms
      BY <1>0
    <3> QED BY <3>1 DEF CarryAll
  <2>3. DOMAIN c = 1..(Atoms - 1) /\ c = [a \in 1..(Atoms - 1) |-> c[a]]
    BY DEF CarryAll
  <2> HIDE DEF c
  <2>4. c \in Carries(mass)
    BY <2>2, <2>3 DEF Carries
  <2> QED BY <2>1, <2>4
<1> HIDE DEF c
<1>2. Carries(mass) \subseteq Carrying
  BY DEF Carries, Carrying
<1>3. \A e \in Carries(mass) : D \in Int /\ Moved(e) \in Nat
        /\ D <= Moved(e) + b * Varied(Left(delta, e))
  BY <1>0, <1>2, WeakDuality
<1>4. D >= Moved(c)
  <2>1. PICK p \in -b..b : Earned(delta, Atoms, p)
    BY <1>0, AllEarned
  <2>2. D \in Int /\ D >= Best(delta, b, TRUE)[Atoms][p]
    BY <1>0, ChainDualIs
  <2>3. Best(delta, b, TRUE)[Atoms][p] >= Upto(Steps(c))[Atoms - 1] + Upto(delta)[Atoms] * p
    BY <2>1 DEF Earned, c
  <2>4. Upto(delta)[Atoms] * p = 0
    <3>1. p \in Int
      BY <1>0
    <3> QED BY <3>1
  <2>5. Moved(c) = Upto(Steps(c))[Atoms - 1] /\ Moved(c) \in Nat
    <3>1. Steps(c) \in [Atom -> Int] /\ Steps(c)[Atoms] = 0 /\ Moved(c) = Upto(Steps(c))[Atoms]
            /\ Moved(c) \in Nat
      BY <1>0, <1>1, StepsAre, MovedIs
    <3>2. Upto(Steps(c))[Atoms] = Upto(Steps(c))[Atoms - 1] + Steps(c)[Atoms]
      BY <3>1, <1>0, UptoIs
    <3>3. Upto(Steps(c))[Atoms - 1] \in Int
      <4>1. Atoms - 1 \in 0..Atoms
        BY <1>0
      <4> QED BY <4>1, <3>1, UptoIs
    <3> QED BY <3>1, <3>2, <3>3
  <2>6. Best(delta, b, TRUE)[Atoms] \in Potentials(b)
    BY <1>0, BestIs
  <2>7. Best(delta, b, TRUE)[Atoms][p] \in Int
    BY <2>6 DEF Potentials
  <2> DEFINE value == Best(delta, b, TRUE)[Atoms][p]  moved == Upto(Steps(c))[Atoms - 1]
             earned == Upto(delta)[Atoms] * p
  <2>8. value >= moved + earned /\ earned = 0 /\ D >= value /\ value \in Int /\ moved = Moved(c)
    BY <2>2, <2>3, <2>4, <2>5, <2>7
  <2> HIDE DEF D, value, moved, earned
  <2> QED BY <2>2, <2>5, <2>8
<1>5. D = Moved(c)
  <2>1. D \in Int /\ Moved(c) \in Nat /\ D <= Moved(c) + b * Varied(Left(delta, c))
    BY <1>1, <1>3
  <2>2. b * 0 = 0
    BY <1>0
  <2> HIDE DEF D, b
  <2> QED BY <2>1, <2>2, <1>1, <1>4
<1> HIDE DEF D
<1>6. \A e \in Carries(mass) : Varied(Left(delta, e)) = 0 =>
        Moved(e) + BirthDeathCost * Varied(Left(delta, e)) = Moved(e) /\ D <= Moved(e)
  <2> TAKE e \in Carries(mass)
  <2> HAVE Varied(Left(delta, e)) = 0
  <2>1. BirthDeathCost * 0 = 0 /\ b * 0 = 0
    BY <1>0
  <2> QED BY <2>1, <1>3
<1>7. D \in costs
  BY <1>1, <1>5, <1>6 DEF PrimalCosts
<1>8. \A y \in costs : y \in Int /\ D <= y
  <2> TAKE y \in costs
  <2>1. PICK e \in Carries(mass) : Varied(Left(delta, e)) = 0
                                   /\ y = Moved(e) + BirthDeathCost * Varied(Left(delta, e))
    BY DEF PrimalCosts
  <2> QED BY <2>1, <1>3, <1>6
<1>9. D \in Nat
  BY <1>1, <1>3, <1>5
<1> HIDE DEF costs
<1>10. PrimalCost(delta, mass, FALSE) = D
  BY <1>7, <1>8, <1>9, LeastCost DEF costs
<1> QED BY <1>9, <1>10 DEF D, b

-----------------------------------------------------------------------------
(* Strong duality where units are born and die.  The values a potential may   *)
(* have are taken one step beyond what the program allows, so that they have a *)
(* slope on both sides everywhere.                                             *)

Beyond(b) == (-b - 1)..(b + 1)
Curves(b) == [Beyond(b) -> Int]
Concave(f, b) == \A x \in -b..b : f[x + 1] - f[x] <= f[x] - f[x - 1]
Sloped(f, b, lo, hi) == \A x \in (-b - 1)..b : lo <= f[x + 1] - f[x] /\ f[x + 1] - f[x] <= hi
\* A line of slope s through f at p lies above f.
Supports(f, p, s) == f[p + 1] - f[p] <= s /\ s <= f[p] - f[p - 1]
\* h is what is best within one step.
Eases(h, f, b) ==
  \A p \in Beyond(b) : /\ \E q \in -b..b : p - 1 <= q /\ q <= p + 1 /\ h[p] = f[q]
                       /\ \A q \in -b..b : p - 1 <= q /\ q <= p + 1 => h[p] >= f[q]

LEMMA BeyondIs ==
  ASSUME NEW b \in Nat
  PROVE  /\ \A x \in -b..b : x \in Int /\ x \in Beyond(b) /\ x - 1 \in Beyond(b)
            /\ x + 1 \in Beyond(b)
         /\ \A x \in Beyond(b) : x \in Int /\ -b - 1 <= x /\ x <= b + 1
         /\ \A x \in Int : -b - 1 <= x /\ x <= b + 1 => x \in Beyond(b)
         /\ \A x \in Int : -b <= x /\ x <= b => x \in -b..b
BY DEF Beyond

LEMMA EasedConcave ==
  ASSUME NEW b \in Nat, NEW f \in Curves(b), NEW h \in Curves(b), Concave(f, b), Eases(h, f, b)
  PROVE  Concave(h, b)
<1> SUFFICES ASSUME NEW x \in -b..b
             PROVE  h[x + 1] - h[x] <= h[x] - h[x - 1]
  BY DEF Concave
<1>0. /\ x \in Int /\ x \in Beyond(b) /\ x - 1 \in Beyond(b) /\ x + 1 \in Beyond(b)
      /\ \A y \in Beyond(b) : f[y] \in Int /\ h[y] \in Int
  BY BeyondIs DEF Curves
<1>1. PICK q \in -b..b : (x + 1) - 1 <= q /\ q <= (x + 1) + 1 /\ h[x + 1] = f[q]
  BY <1>0 DEF Eases
<1>2. PICK r \in -b..b : (x - 1) - 1 <= r /\ r <= (x - 1) + 1 /\ h[x - 1] = f[r]
  BY <1>0 DEF Eases
<1>3. \A y \in -b..b : x - 1 <= y /\ y <= x + 1 => h[x] >= f[y]
  BY <1>0 DEF Eases
<1>4. q \in {x, x + 1, x + 2} /\ r \in {x - 2, x - 1, x} /\ q \in Int /\ r \in Int
  BY <1>0, <1>1, <1>2
<1>5. /\ f[q] \in Int /\ f[r] \in Int /\ h[x] \in Int /\ h[x + 1] \in Int /\ h[x - 1] \in Int
  <2>1. q \in Beyond(b) /\ r \in Beyond(b)
    BY BeyondIs
  <2> QED BY <2>1, <1>0
<1>6. \A y \in -b..b : f[y] \in Int /\ f[y + 1] \in Int /\ f[y - 1] \in Int
        /\ f[y + 1] - f[y] <= f[y] - f[y - 1]
  <2>1. \A y \in -b..b : y \in Beyond(b) /\ y + 1 \in Beyond(b) /\ y - 1 \in Beyond(b)
    BY BeyondIs
  <2> QED BY <2>1, <1>0 DEF Concave
<1>7. f[q] + f[r] <= h[x] + h[x]
  <2>1. CASE q \in {x, x + 1} /\ r \in {x - 1, x}
    <3>1. h[x] >= f[q] /\ h[x] >= f[r]
      BY <1>0, <1>3, <2>1
    <3> QED BY <3>1, <1>5
  <2>2. CASE q = x + 2 /\ r \in {x - 1, x - 2}
    <3>1. x + 1 \in -b..b /\ x \in -b..b /\ x - 1 \in -b..b
      <4>1. x + 2 <= b /\ -b <= x - 1
        BY <2>2, <1>0
      <4> QED BY <4>1, <1>0
    <3>2. (x + 1) + 1 = x + 2 /\ (x + 1) - 1 = x /\ (x - 1) + 1 = x /\ (x - 1) - 1 = x - 2
      BY <1>0
    <3>3. /\ f[x + 2] - f[x + 1] <= f[x + 1] - f[x] /\ f[x + 1] - f[x] <= f[x] - f[x - 1]
          /\ f[x] - f[x - 1] <= f[x - 1] - f[x - 2]
          /\ f[x + 2] \in Int /\ f[x + 1] \in Int /\ f[x] \in Int /\ f[x - 1] \in Int
             /\ f[x - 2] \in Int
      BY <3>1, <3>2, <1>6
    <3>4. h[x] >= f[x + 1] /\ h[x] >= f[x] /\ h[x] >= f[x - 1]
      BY <3>1, <1>3, <1>0
    <3>5. f[x + 2] + f[x - 2] <= h[x] + h[x] /\ f[x + 2] + f[x - 1] <= h[x] + h[x]
      BY <3>3, <3>4, <1>5
    <3> QED BY <3>5, <2>2
  <2>3. CASE q = x + 2 /\ r = x
    <3>1. x + 1 \in -b..b /\ x \in -b..b
      BY <2>3, <1>0
    <3>2. (x + 1) + 1 = x + 2 /\ (x + 1) - 1 = x
      BY <1>0
    <3>3. f[x + 2] - f[x + 1] <= f[x + 1] - f[x] /\ f[x + 2] \in Int /\ f[x + 1] \in Int
            /\ f[x] \in Int
      BY <3>1, <3>2, <1>6
    <3>4. h[x] >= f[x + 1]
      BY <3>1, <1>3, <1>0
    <3>5. f[x + 2] + f[x] <= h[x] + h[x]
      BY <3>3, <3>4, <1>5
    <3> QED BY <3>5, <2>3
  <2>4. CASE q = x + 1 /\ r = x - 2
    <3>1. x - 1 \in -b..b /\ x \in -b..b /\ x + 1 \in -b..b
      <4>1. -b <= x - 2 /\ x + 1 <= b
        BY <2>4, <1>0
      <4> QED BY <4>1, <1>0
    <3>2. (x - 1) + 1 = x /\ (x - 1) - 1 = x - 2
      BY <1>0
    <3>3. /\ f[x] - f[x - 1] <= f[x - 1] - f[x - 2] /\ f[x + 1] - f[x] <= f[x] - f[x - 1]
          /\ f[x - 2] \in Int /\ f[x + 1] \in Int /\ f[x - 1] \in Int /\ f[x] \in Int
      BY <3>1, <3>2, <1>6
    <3>4. h[x] >= f[x - 1] /\ h[x] >= f[x]
      BY <3>1, <1>3, <1>0
    <3>5. f[x + 1] + f[x - 2] <= h[x] + h[x]
      BY <3>3, <3>4, <1>5
    <3> QED BY <3>5, <2>4
  <2>5. CASE q = x /\ r = x - 2
    <3>1. x - 1 \in -b..b
      BY <2>5, <1>0
    <3>2. (x - 1) + 1 = x /\ (x - 1) - 1 = x - 2
      BY <1>0
    <3>3. f[x] - f[x - 1] <= f[x - 1] - f[x - 2] /\ f[x - 2] \in Int /\ f[x - 1] \in Int
            /\ f[x] \in Int
      BY <3>1, <3>2, <1>6
    <3>4. h[x] >= f[x - 1]
      BY <3>1, <1>3, <1>0
    <3>5. f[x] + f[x - 2] <= h[x] + h[x]
      BY <3>3, <3>4, <1>5
    <3> QED BY <3>5, <2>5
  <2> QED BY <1>4, <2>1, <2>2, <2>3, <2>4, <2>5
<1> QED BY <1>1, <1>2, <1>5, <1>7

LEMMA EasedSloped ==
  ASSUME NEW b \in Nat, NEW f \in Curves(b), NEW h \in Curves(b), Eases(h, f, b),
         NEW lo \in Int, NEW hi \in Int, lo <= 0, 0 <= hi, Sloped(f, b, lo, hi)
  PROVE  Sloped(h, b, lo, hi)
<1> SUFFICES ASSUME NEW x \in (-b - 1)..b
             PROVE  lo <= h[x + 1] - h[x] /\ h[x + 1] - h[x] <= hi
  BY DEF Sloped
<1>0. /\ x \in Int /\ x \in Beyond(b) /\ x + 1 \in Beyond(b)
      /\ \A y \in Beyond(b) : f[y] \in Int /\ h[y] \in Int
  BY DEF Curves, Beyond
<1>1. PICK q \in -b..b : (x + 1) - 1 <= q /\ q <= (x + 1) + 1 /\ h[x + 1] = f[q]
  BY <1>0 DEF Eases
<1>2. PICK r \in -b..b : x - 1 <= r /\ r <= x + 1 /\ h[x] = f[r]
  BY <1>0 DEF Eases
<1>3. \A y \in -b..b : x - 1 <= y /\ y <= x + 1 => h[x] >= f[y]
  BY <1>0 DEF Eases
<1>4. \A y \in -b..b : x <= y /\ y <= x + 2 => h[x + 1] >= f[y]
  <2>1. (x + 1) - 1 = x /\ (x + 1) + 1 = x + 2
    BY <1>0
  <2> QED BY <2>1, <1>0 DEF Eases
<1>5. /\ f[q] \in Int /\ f[r] \in Int /\ h[x] \in Int /\ h[x + 1] \in Int /\ q \in Int /\ r \in Int
  <2>1. q \in Beyond(b) /\ r \in Beyond(b)
    BY BeyondIs
  <2> QED BY <2>1, <1>0
<1>6. h[x] + hi >= f[q]
  <2>1. CASE q <= x + 1
    <3>1. h[x] >= f[q]
      BY <2>1, <1>0, <1>1, <1>3, <1>5
    <3> QED BY <3>1, <1>5
  <2>2. CASE q = x + 2
    <3>1. x + 1 \in -b..b /\ x + 1 \in (-b - 1)..b /\ (x + 1) + 1 = x + 2
      BY <2>2, <1>0
    <3>2. f[x + 2] - f[x + 1] <= hi /\ f[x + 1] \in Int
      BY <3>1, <1>0 DEF Sloped
    <3>3. h[x] >= f[x + 1]
      BY <3>1, <1>0, <1>3
    <3> QED BY <3>2, <3>3, <2>2, <1>5
  <2> QED BY <2>1, <2>2, <1>0, <1>1, <1>5
<1>7. h[x + 1] - lo >= f[r]
  <2>1. CASE r >= x
    <3>1. h[x + 1] >= f[r]
      BY <2>1, <1>0, <1>2, <1>4, <1>5
    <3> QED BY <3>1, <1>5
  <2>2. CASE r = x - 1
    <3>1. x \in -b..b /\ x - 1 \in (-b - 1)..b /\ (x - 1) + 1 = x
      BY <2>2, <1>0
    <3>2. lo <= f[x] - f[x - 1] /\ f[x] \in Int
      BY <3>1, <1>0 DEF Sloped
    <3>3. h[x + 1] >= f[x]
      BY <3>1, <1>0, <1>4
    <3> QED BY <3>2, <3>3, <2>2, <1>5
  <2> QED BY <2>1, <2>2, <1>0, <1>2, <1>5
<1> QED BY <1>1, <1>2, <1>5, <1>6, <1>7

\* A slope that is right but for the edges becomes right there by a birth or a
\* death at the price of the edge.
LEMMA EdgeSupport ==
  ASSUME NEW b \in Nat, NEW f \in Curves(b), Concave(f, b), NEW q \in -b..b, NEW c \in Int,
         q + 1 <= b => f[q + 1] - f[q] <= c,
         -b <= q - 1 => c <= f[q] - f[q - 1]
  PROVE  \E s \in Int : Supports(f, q, s) /\ (s - c) * q = b * Magnitude(s - c)
<1> DEFINE up == f[q + 1] - f[q]  down == f[q] - f[q - 1]
<1>0. q \in Int /\ up \in Int /\ down \in Int /\ up <= down
  <2>1. q \in Int /\ q \in Beyond(b) /\ q - 1 \in Beyond(b) /\ q + 1 \in Beyond(b)
    BY BeyondIs
  <2>2. f[q] \in Int /\ f[q + 1] \in Int /\ f[q - 1] \in Int
    BY <2>1 DEF Curves
  <2>3. up <= down
    BY DEF Concave
  <2> QED BY <2>1, <2>2, <2>3
<1>1. (q + 1 <= b => up <= c) /\ (-b <= q - 1 => c <= down)
  OBVIOUS
<1>2. \A s \in Int : Supports(f, q, s) <=> up <= s /\ s <= down
  BY DEF Supports
<1> HIDE DEF up, down
<1>3. CASE -b < q /\ q < b
  <2>1. up <= c /\ c <= down
    BY <1>0, <1>1, <1>3
  <2>2. c - c = 0 /\ Magnitude(0) = 0 /\ 0 * q = 0 /\ b * 0 = 0
    BY <1>0 DEF Magnitude
  <2> QED BY <2>1, <2>2, <1>2
<1>4. CASE q = b /\ b > 0
  <2> DEFINE s == IF up <= c THEN c ELSE up
  <2>1. c <= down
    BY <1>0, <1>1, <1>4
  <2>2. s \in Int /\ up <= s /\ s <= down /\ s - c >= 0 /\ s - c \in Int
    BY <2>1, <1>0
  <2>3. Magnitude(s - c) = s - c
    BY <2>2 DEF Magnitude
  <2>4. (s - c) * b = b * (s - c)
    BY <2>2
  <2> QED BY <2>2, <2>3, <2>4, <1>2, <1>4
<1>5. CASE q = -b /\ b > 0
  <2> DEFINE s == IF c <= down THEN c ELSE down
  <2>1. up <= c
    BY <1>0, <1>1, <1>5
  <2>2. s \in Int /\ up <= s /\ s <= down /\ c - s >= 0 /\ s - c \in Int
    BY <2>1, <1>0
  <2>3. Magnitude(s - c) = -(s - c)
    BY <2>2 DEF Magnitude
  <2>4. (s - c) * (-b) = b * (-(s - c))
    BY <2>2
  <2> QED BY <2>2, <2>3, <2>4, <1>2, <1>5
<1>6. CASE b = 0
  <2>1. q = 0 /\ down - c \in Int
    BY <1>0, <1>6
  <2>2. Magnitude(down - c) \in Int /\ (down - c) * 0 = 0 /\ 0 * Magnitude(down - c) = 0
    BY <2>1, MagnitudeIs
  <2>3. (down - c) * q = b * Magnitude(down - c)
    BY <2>1, <2>2, <1>6
  <2>4. up <= down /\ down <= down /\ down \in Int
    BY <1>0
  <2> QED BY <2>3, <2>4, <1>2
<1> QED BY <1>0, <1>3, <1>4, <1>5, <1>6

\* Whatever slope h has at p comes from one of f nearby, by carrying as much on.
LEMMA EasedSupport ==
  ASSUME NEW b \in Nat, NEW f \in Curves(b), NEW h \in Curves(b), Concave(f, b), Eases(h, f, b),
         NEW p \in -b..b, NEW c \in Int, Supports(h, p, c)
  PROVE  \E q \in -b..b, s \in Int :
           /\ Supports(f, q, s) /\ f[q] = h[p]
           /\ c * (q - p) = Magnitude(c) /\ (s - c) * q = b * Magnitude(s - c)
<1>0. /\ p \in Int /\ p \in Beyond(b) /\ p - 1 \in Beyond(b) /\ p + 1 \in Beyond(b)
      /\ \A y \in Beyond(b) : f[y] \in Int /\ h[y] \in Int
  BY BeyondIs DEF Curves
<1>1. PICK q \in -b..b : p - 1 <= q /\ q <= p + 1 /\ h[p] = f[q]
  BY <1>0 DEF Eases
<1>2. \A y \in -b..b : /\ p - 1 <= y /\ y <= p + 1 => h[p] >= f[y]
                       /\ p <= y /\ y <= p + 2 => h[p + 1] >= f[y]
                       /\ p - 2 <= y /\ y <= p => h[p - 1] >= f[y]
  <2>1. (p + 1) - 1 = p /\ (p + 1) + 1 = p + 2 /\ (p - 1) - 1 = p - 2 /\ (p - 1) + 1 = p
    BY <1>0
  <2> QED BY <2>1, <1>0 DEF Eases
<1>3. h[p + 1] - h[p] <= c /\ c <= h[p] - h[p - 1]
  BY DEF Supports
<1>4. /\ q \in Int /\ f[q] \in Int /\ h[p] \in Int /\ h[p + 1] \in Int /\ h[p - 1] \in Int
      /\ \A y \in -b..b : f[y] \in Int
  <2>1. \A y \in -b..b : y \in Beyond(b)
    BY BeyondIs
  <2> QED BY <2>1, <1>0
<1>5. (c > 0 => q = p + 1) /\ (c < 0 => q = p - 1)
  <2>1. ASSUME c > 0, q # p + 1 PROVE FALSE
    <3>1. p - 2 <= q /\ q <= p
      BY <2>1, <1>0, <1>1, <1>4
    <3>2. h[p - 1] >= f[q]
      BY <3>1, <1>2
    <3> QED BY <3>2, <2>1, <1>1, <1>3, <1>4
  <2>2. ASSUME c < 0, q # p - 1 PROVE FALSE
    <3>1. p <= q /\ q <= p + 2
      BY <2>2, <1>0, <1>1, <1>4
    <3>2. h[p + 1] >= f[q]
      BY <3>1, <1>2
    <3> QED BY <3>2, <2>2, <1>1, <1>3, <1>4
  <2> QED BY <2>1, <2>2
<1>6. c * (q - p) = Magnitude(c)
  <2>1. CASE c > 0
    <3>1. q - p = 1 /\ c * 1 = c
      BY <2>1, <1>0, <1>5
    <3> QED BY <3>1, <2>1 DEF Magnitude
  <2>2. CASE c < 0
    <3>1. q - p = -1 /\ c * (-1) = -c
      BY <2>2, <1>0, <1>5
    <3> QED BY <3>1, <2>2 DEF Magnitude
  <2>3. CASE c = 0
    <3>1. q - p \in Int /\ 0 * (q - p) = 0
      BY <1>0, <1>4
    <3> QED BY <3>1, <2>3 DEF Magnitude
  <2> QED BY <2>1, <2>2, <2>3
<1>7. ASSUME q + 1 <= b PROVE f[q + 1] - f[q] <= c
  <2>0. q + 1 \in -b..b /\ f[q + 1] \in Int
    BY <1>7, <1>4
  <2>1. CASE q >= p
    <3>1. h[p + 1] >= f[q + 1]
      BY <2>0, <2>1, <1>0, <1>1, <1>2, <1>4
    <3> QED BY <3>1, <2>0, <1>1, <1>3, <1>4
  <2>2. CASE q = p - 1 /\ ~(c > 0)
    <3>1. q + 1 = p /\ p <= q + 1 /\ q + 1 <= p + 2
      BY <2>2, <1>0, <1>4
    <3>2. h[p + 1] >= f[q + 1]
      BY <2>0, <3>1, <1>2
    <3> QED BY <3>2, <2>0, <1>1, <1>3, <1>4
  <2> QED BY <2>1, <2>2, <1>0, <1>1, <1>4, <1>5
<1>8. ASSUME -b <= q - 1 PROVE c <= f[q] - f[q - 1]
  <2>0. q - 1 \in -b..b /\ f[q - 1] \in Int
    BY <1>8, <1>4
  <2>1. CASE q <= p
    <3>1. h[p - 1] >= f[q - 1]
      BY <2>0, <2>1, <1>0, <1>1, <1>2, <1>4
    <3> QED BY <3>1, <2>0, <1>1, <1>3, <1>4
  <2>2. CASE q = p + 1
    <3>1. p - 2 <= q - 1 /\ q - 1 <= p
      BY <2>2, <1>0, <1>4
    <3>2. h[p - 1] >= f[q - 1]
      BY <2>0, <3>1, <1>2
    <3> QED BY <3>2, <2>0, <1>1, <1>3, <1>4
  <2> QED BY <2>1, <2>2, <1>0, <1>1, <1>4
<1>9. \E s \in Int : Supports(f, q, s) /\ (s - c) * q = b * Magnitude(s - c)
  BY <1>7, <1>8, EdgeSupport
<1> QED BY <1>1, <1>6, <1>9

\* The values of the program at an atom, and what is best of them nearby.
Curve(delta, b, a) ==
  [p \in Beyond(b) |->
     (IF a = 1 THEN 0 ELSE BestNear(Best(delta, b, FALSE)[a - 1], p, b)) + delta[a] * p]
Eased(delta, b, a) == [p \in Beyond(b) |-> BestNear(Best(delta, b, FALSE)[a], p, b)]

LEMMA CurveIs ==
  ASSUME NEW delta \in [Atom -> Int], NEW b \in Nat, NEW a \in Atom
  PROVE  /\ Curve(delta, b, a) \in Curves(b) /\ Eased(delta, b, a) \in Curves(b)
         /\ \A p \in -b..b : Curve(delta, b, a)[p] = Best(delta, b, FALSE)[a][p]
         /\ \A p \in Beyond(b) : Curve(delta, b, 1)[p] = delta[1] * p
         /\ a < Atoms => \A p \in Beyond(b) :
              Curve(delta, b, a + 1)[p] = Eased(delta, b, a)[p] + delta[a + 1] * p
<1>0. Atoms \in Nat /\ Atom = 1..Atoms /\ 1 \in Atom /\ delta[a] \in Int /\ delta[1] \in Int
  BY AtomsAre
<1>1. \A i \in Atom : Best(delta, b, FALSE)[i] \in [-b..b -> Int]
  BY BestIs DEF Potentials
<1>2. \A i \in Atom, p \in Beyond(b) : p \in Int /\ BestNear(Best(delta, b, FALSE)[i], p, b) \in Int
  <2> TAKE i \in Atom, p \in Beyond(b)
  <2>1. p \in Int
    BY BeyondIs
  <2> QED BY <2>1, <1>1, BestNearIs
<1>3. Eased(delta, b, a) \in Curves(b)
  BY <1>2 DEF Eased, Curves
<1>4. a # 1 => a - 1 \in Atom
  BY <1>0
<1>5. Curve(delta, b, a) \in Curves(b)
  <2>1. \A p \in Beyond(b) :
          (IF a = 1 THEN 0 ELSE BestNear(Best(delta, b, FALSE)[a - 1], p, b)) + delta[a] * p \in Int
    <3> TAKE p \in Beyond(b)
    <3> DEFINE near == IF a = 1 THEN 0 ELSE BestNear(Best(delta, b, FALSE)[a - 1], p, b)
    <3>1. near \in Int
      <4>1. CASE a = 1
        BY <4>1
      <4>2. CASE a # 1
        <5>1. BestNear(Best(delta, b, FALSE)[a - 1], p, b) \in Int
          BY <4>2, <1>2, <1>4
        <5> QED BY <5>1, <4>2
      <4> QED BY <4>1, <4>2
    <3> HIDE DEF near
    <3>2. p \in Int
      BY BeyondIs
    <3>3. delta[a] * p \in Int
      BY <1>0, <3>2
    <3>4. near + delta[a] * p \in Int
      BY <3>1, <3>3
    <3> QED BY <3>4 DEF near
  <2> QED BY <2>1 DEF Curve, Curves
<1>6. ASSUME NEW p \in Beyond(b) PROVE Curve(delta, b, 1)[p] = delta[1] * p
  <2>0. p \in Int
    BY BeyondIs
  <2>1. delta[1] * p \in Int
    BY <1>0, <2>0
  <2> QED BY <2>1 DEF Curve
<1>7. ASSUME NEW p \in -b..b PROVE Curve(delta, b, a)[p] = Best(delta, b, FALSE)[a][p]
  <2>1. p \in Beyond(b)
    BY BeyondIs
  <2>2. CASE a = 1
    <3>1. Best(delta, b, FALSE)[1] = FirstValues(delta, b, FALSE)
      BY BestIs
    <3>2. FirstValues(delta, b, FALSE)[p] = delta[1] * p
      BY DEF FirstValues
    <3> QED BY <3>1, <3>2, <2>1, <2>2, <1>6
  <2>3. CASE a # 1
    <3>1. a - 1 \in 1..(Atoms - 1) /\ (a - 1) + 1 = a
      BY <1>0, <2>3
    <3>2. Best(delta, b, FALSE)[a] = Onto(Best(delta, b, FALSE)[a - 1], delta[a], b)
      BY <3>1, BestIs
    <3>3. Onto(Best(delta, b, FALSE)[a - 1], delta[a], b)[p]
            = BestNear(Best(delta, b, FALSE)[a - 1], p, b) + delta[a] * p
      BY DEF Onto
    <3> QED BY <3>2, <3>3, <2>1, <2>3 DEF Curve
  <2> QED BY <2>2, <2>3
<1>8. ASSUME a < Atoms, NEW p \in Beyond(b)
      PROVE  Curve(delta, b, a + 1)[p] = Eased(delta, b, a)[p] + delta[a + 1] * p
  <2>1. a + 1 # 1 /\ (a + 1) - 1 = a
    BY <1>0
  <2> QED BY <2>1 DEF Curve, Eased
<1> QED BY <1>3, <1>5, <1>6, <1>7, <1>8

\* Two trait measures and the program between them.
Spans(from, to, mass, b) ==
  /\ from \in Measures /\ to \in Measures /\ mass \in Nat /\ mass <= MassOne
  /\ Upto(from)[Atoms] <= mass /\ Upto(to)[Atoms] <= mass
  /\ b \in Nat /\ NoValue <= -(b * MassOne)

LEMMA MeasuresAre ==
  ASSUME NEW m \in Measures
  PROVE  m \in [Atom -> Int] /\ \A a \in Atom : m[a] \in Nat /\ m[a] >= 0 /\ m[a] <= MassOne
BY LoomAssumption DEF LoomAssumption, Measures

LEMMA SpansIs ==
  ASSUME NEW from, NEW to, NEW mass, NEW b, Spans(from, to, mass, b)
  PROVE  /\ from \in [Atom -> Int] /\ to \in [Atom -> Int] /\ Gain(from, to) \in [Atom -> Int]
         /\ Fits(Gain(from, to), b)
         /\ \A n \in 0..Atoms : /\ Upto(from)[n] \in 0..mass /\ Upto(to)[n] \in 0..mass
                                /\ Upto(Gain(from, to))[n] = Upto(to)[n] - Upto(from)[n]
         /\ \A a \in Atom : /\ from[a] \in Nat /\ to[a] \in Nat
                               /\ Gain(from, to)[a] = to[a] - from[a]
                            /\ Upto(from)[a] = Upto(from)[a - 1] + from[a]
                            /\ Upto(to)[a] = Upto(to)[a - 1] + to[a]
<1>0. Atoms \in Nat /\ Atom = 1..Atoms /\ Atoms \in 0..Atoms /\ MassOne \in Nat
  BY AtomsAre, NoValueIsLow
<1>1. /\ from \in [Atom -> Int] /\ to \in [Atom -> Int]
      /\ \A a \in Atom : from[a] \in Nat /\ to[a] \in Nat /\ from[a] >= 0 /\ to[a] >= 0
  BY MeasuresAre DEF Spans
<1>2. \A n \in 0..Atoms : Upto(from)[n] \in 0..mass /\ Upto(to)[n] \in 0..mass
  <2> TAKE n \in 0..Atoms
  <2>1. /\ 0 <= Upto(from)[n] /\ Upto(from)[n] <= Upto(from)[Atoms]
        /\ 0 <= Upto(to)[n] /\ Upto(to)[n] <= Upto(to)[Atoms]
    <3>1. n <= Atoms
      BY <1>0
    <3> QED BY <3>1, <1>0, <1>1, UptoGrows
  <2>2. Upto(from)[n] \in Int /\ Upto(to)[n] \in Int /\ Upto(from)[Atoms] \in Int
          /\ Upto(to)[Atoms] \in Int
    BY <1>0, <1>1, UptoIs
  <2> QED BY <2>1, <2>2 DEF Spans
<1>3. /\ Gain(from, to) \in [Atom -> Int]
      /\ \A n \in 0..Atoms : Upto(Gain(from, to))[n] = Upto(to)[n] - Upto(from)[n]
  BY <1>1, UptoGain
<1>4. \A n \in 0..Atoms : Upto(Gain(from, to))[n] \in (-MassOne)..MassOne
  <2> TAKE n \in 0..Atoms
  <2>1. Upto(from)[n] \in 0..mass /\ Upto(to)[n] \in 0..mass /\ mass \in Nat /\ mass <= MassOne
    BY <1>2 DEF Spans
  <2> QED BY <2>1, <1>3, <1>0
<1>5. Fits(Gain(from, to), b)
  BY <1>3, <1>4 DEF Fits, Spans
<1>6. \A a \in Atom : Gain(from, to)[a] = to[a] - from[a]
  BY DEF Gain
<1>7. \A a \in Atom : /\ Upto(from)[a] = Upto(from)[a - 1] + from[a]
                      /\ Upto(to)[a] = Upto(to)[a - 1] + to[a]
  BY <1>1, UptoIs
<1> QED BY <1>1, <1>2, <1>3, <1>5, <1>6, <1>7

\* What the values look like: no bend upward, no slope steeper than the masses so
\* far, and none lower than what moving nothing leaves to pay.
Shaped(from, to, b, a) ==
  /\ Concave(Curve(Gain(from, to), b, a), b)
  /\ Sloped(Curve(Gain(from, to), b, a), b, -Upto(from)[a], Upto(to)[a])
  /\ \A p \in -b..b : Curve(Gain(from, to), b, a)[p] >= Upto(Gain(from, to))[a] * p

LEMMA LowValue ==
  ASSUME NEW b \in Nat, NEW d \in (-MassOne)..MassOne, NEW q \in -b..b
  PROVE  -(b * MassOne) <= d * q /\ d * q \in Int /\ b * MassOne \in Int
<1>0. MassOne \in Nat /\ d \in Int
  BY NoValueIsLow
<1>1. d * q \in Int /\ -(b * Magnitude(d)) <= d * q /\ b * Magnitude(d) \in Nat
  BY <1>0, ProductIsBounded
<1>2. Magnitude(d) \in Nat /\ MassOne - Magnitude(d) \in Nat
  BY <1>0 DEF Magnitude
<1>3. b * (MassOne - Magnitude(d)) >= 0
        /\ b * (MassOne - Magnitude(d)) = b * MassOne - b * Magnitude(d)
  BY <1>0, <1>2
<1>4. b * MassOne \in Int
  BY <1>0
<1> QED BY <1>1, <1>3, <1>4

LEMMA EasedIs ==
  ASSUME NEW from, NEW to, NEW mass, NEW b, Spans(from, to, mass, b),
         NEW a \in Atom, Shaped(from, to, b, a)
  PROVE  Eases(Eased(Gain(from, to), b, a), Curve(Gain(from, to), b, a), b)
<1> DEFINE delta == Gain(from, to)
           f == Curve(delta, b, a)
           best == Best(delta, b, FALSE)[a]
           d == Upto(delta)[a]
<1>0. /\ b \in Nat /\ NoValue <= -(b * MassOne) /\ NoValue \in Int /\ delta \in [Atom -> Int]
      /\ a \in 0..Atoms /\ Fits(delta, b)
  <2>1. a \in 0..Atoms
    BY AtomsAre
  <2> QED BY <2>1, SpansIs, NoValueIs DEF Spans
<1>1. best \in [-b..b -> Int] /\ \A p \in -b..b : f[p] = best[p]
  BY <1>0, CurveIs, BestIs DEF Potentials
<1>2. \A q \in -b..b : best[q] >= NoValue
  <2> TAKE q \in -b..b
  <2>1. best[q] >= d * q
    BY <1>1 DEF Shaped
  <2>2. d \in (-MassOne)..MassOne
    BY <1>0 DEF Fits
  <2>3. -(b * MassOne) <= d * q /\ d * q \in Int /\ b * MassOne \in Int
    BY <1>0, <2>2, LowValue
  <2>4. best[q] \in Int
    BY <1>1
  <2> HIDE DEF best, d
  <2> QED BY <2>1, <2>3, <2>4, <1>0
<1> HIDE DEF f, best, d, delta
<1>3. ASSUME NEW p \in Beyond(b)
      PROVE  /\ \E q \in -b..b : p - 1 <= q /\ q <= p + 1 /\ BestNear(best, p, b) = f[q]
             /\ \A q \in -b..b : p - 1 <= q /\ q <= p + 1 => BestNear(best, p, b) >= f[q]
  <2>0. p \in Int /\ -b - 1 <= p /\ p <= b + 1
    BY <1>0, BeyondIs
  <2>1. /\ BestNear(best, p, b) \in Int
        /\ BestNear(best, p, b) = NoValue \/ \E q \in Priors(p, b) : BestNear(best, p, b) = best[q]
        /\ \A q \in Priors(p, b) : BestNear(best, p, b) >= best[q]
    BY <1>0, <1>1, <2>0, BestNearIs
  <2>2. \A q \in Priors(p, b) : q \in -b..b /\ p - 1 <= q /\ q <= p + 1
    BY <1>0, <2>0, PriorsAre
  <2>3. \A q \in -b..b : p - 1 <= q /\ q <= p + 1 => q \in Priors(p, b)
    <3> TAKE q \in -b..b
    <3>1. q \in Int /\ -b <= q /\ q <= b
      BY <1>0
    <3> QED BY <3>1, <1>0, <2>0, PriorsAre
  <2>4. \E q \in Priors(p, b) : TRUE
    <3> DEFINE q == IF p < -b THEN -b ELSE IF p > b THEN b ELSE p
    <3>1. q \in Int /\ -b <= q /\ q <= b /\ p - 1 <= q /\ q <= p + 1
      BY <1>0, <2>0
    <3> HIDE DEF q
    <3>2. q \in Priors(p, b)
      BY <3>1, <1>0, <2>0, PriorsAre
    <3> QED BY <3>2
  <2>5. \E q \in Priors(p, b) : BestNear(best, p, b) = best[q]
    <3>1. CASE BestNear(best, p, b) = NoValue
      <4>1. PICK q \in Priors(p, b) : TRUE
        BY <2>4
      <4>2. NoValue >= best[q] /\ best[q] >= NoValue /\ best[q] \in Int
        BY <4>1, <3>1, <2>1, <2>2, <1>1, <1>2
      <4>3. best[q] = NoValue
        BY <4>2, <1>0
      <4> QED BY <4>1, <4>3, <3>1
    <3> QED BY <3>1, <2>1
  <2> QED BY <2>1, <2>2, <2>3, <2>5, <1>1
<1>4. \A p \in Beyond(b) : Eased(delta, b, a)[p] = BestNear(best, p, b)
  BY DEF Eased, best
<1> QED BY <1>3, <1>4 DEF Eases, f, delta

\* A line added to values tilts them.
LEMMA Tilted ==
  ASSUME NEW b \in Nat, NEW h \in Curves(b), NEW g \in Curves(b), NEW d \in Int,
         \A p \in Beyond(b) : g[p] = h[p] + d * p
  PROVE  \A x \in (-b - 1)..b : /\ g[x + 1] - g[x] = h[x + 1] - h[x] + d
                                /\ g[x] \in Int /\ g[x + 1] \in Int /\ h[x] \in Int
                                   /\ h[x + 1] \in Int
<1> TAKE x \in (-b - 1)..b
<1>1. x \in Beyond(b) /\ x + 1 \in Beyond(b) /\ x \in Int
  BY DEF Beyond
<1>2. g[x] \in Int /\ g[x + 1] \in Int /\ h[x] \in Int /\ h[x + 1] \in Int
  BY <1>1 DEF Curves
<1>3. g[x] = h[x] + d * x /\ g[x + 1] = h[x + 1] + d * (x + 1)
  BY <1>1
<1>4. d * (x + 1) = d * x + d /\ d * x \in Int
  BY <1>1
<1> QED BY <1>2, <1>3, <1>4

LEMMA TiltedShape ==
  ASSUME NEW b \in Nat, NEW h \in Curves(b), NEW g \in Curves(b), NEW d \in Int,
         \A p \in Beyond(b) : g[p] = h[p] + d * p, Concave(h, b),
         NEW lo \in Int, NEW hi \in Int, Sloped(h, b, lo, hi),
         NEW low \in Int, NEW high \in Int, low <= lo + d, hi + d <= high
  PROVE  Concave(g, b) /\ Sloped(g, b, low, high)
<1>1. \A x \in (-b - 1)..b : /\ g[x + 1] - g[x] = h[x + 1] - h[x] + d
                             /\ g[x] \in Int /\ g[x + 1] \in Int /\ h[x] \in Int /\ h[x + 1] \in Int
  BY Tilted
<1>2. Sloped(g, b, low, high)
  <2> SUFFICES ASSUME NEW x \in (-b - 1)..b
               PROVE  low <= g[x + 1] - g[x] /\ g[x + 1] - g[x] <= high
    BY DEF Sloped
  <2>1. lo <= h[x + 1] - h[x] /\ h[x + 1] - h[x] <= hi
    BY DEF Sloped
  <2> QED BY <2>1, <1>1
<1>3. Concave(g, b)
  <2> SUFFICES ASSUME NEW x \in -b..b
               PROVE  g[x + 1] - g[x] <= g[x] - g[x - 1]
    BY DEF Concave
  <2>1. h[x + 1] - h[x] <= h[x] - h[x - 1]
    BY DEF Concave
  <2>2. x \in (-b - 1)..b /\ x - 1 \in (-b - 1)..b /\ (x - 1) + 1 = x
    OBVIOUS
  <2> QED BY <2>1, <2>2, <1>1
<1> QED BY <1>2, <1>3

LEMMA FirstShaped ==
  ASSUME NEW from, NEW to, NEW mass, NEW b, Spans(from, to, mass, b)
  PROVE  Shaped(from, to, b, 1)
<1> DEFINE delta == Gain(from, to)
           f == Curve(delta, b, 1)
           d == delta[1]
           h == [p \in Beyond(b) |-> 0]
<1>0. /\ b \in Nat /\ 1 \in Atom /\ 1 \in 0..Atoms /\ 0 \in 0..Atoms /\ 1 - 1 = 0
         /\ delta \in [Atom -> Int]
      /\ from \in [Atom -> Int] /\ to \in [Atom -> Int]
  <2>1. 1 \in Atom /\ 1 \in 0..Atoms /\ 0 \in 0..Atoms /\ 1 - 1 = 0
    BY AtomsAre
  <2>2. from \in [Atom -> Int] /\ to \in [Atom -> Int] /\ delta \in [Atom -> Int]
    BY SpansIs
  <2> QED BY <2>1, <2>2 DEF Spans
<1>1. /\ from[1] \in Nat /\ to[1] \in Nat /\ d = to[1] - from[1]
      /\ Upto(from)[1] = from[1] /\ Upto(to)[1] = to[1] /\ Upto(delta)[1] = d /\ d \in Int
  <2>1. /\ from[1] \in Nat /\ to[1] \in Nat /\ d = to[1] - from[1]
        /\ Upto(from)[1] = Upto(from)[1 - 1] + from[1] /\ Upto(to)[1] = Upto(to)[1 - 1] + to[1]
        /\ Upto(delta)[1] = Upto(to)[1] - Upto(from)[1]
    BY <1>0, SpansIs
  <2>2. Upto(from)[0] = 0 /\ Upto(to)[0] = 0
    BY <1>0, UptoIs
  <2> HIDE DEF delta, d
  <2> QED BY <2>1, <2>2
<1>2. f \in Curves(b) /\ \A p \in Beyond(b) : f[p] = d * p
  BY <1>0, CurveIs
<1>3. h \in Curves(b) /\ \A p \in Beyond(b) : f[p] = h[p] + d * p
  <2>1. h \in Curves(b) /\ \A p \in Beyond(b) : h[p] = 0
    BY DEF Curves
  <2>2. \A p \in Beyond(b) : p \in Int
    BY <1>0, BeyondIs
  <2> HIDE DEF h, f, d
  <2>3. ASSUME NEW p \in Beyond(b) PROVE f[p] = h[p] + d * p
    <3>1. d * p \in Int
      BY <2>2, <1>1
    <3> QED BY <3>1, <2>1, <1>2
  <2> QED BY <2>1, <2>3
<1>4. Concave(h, b) /\ Sloped(h, b, 0, 0)
  <2>1. \A x \in (-b - 1)..b : h[x + 1] = 0 /\ h[x] = 0
    BY <1>0 DEF Beyond
  <2>2. \A x \in -b..b : h[x + 1] = 0 /\ h[x] = 0 /\ h[x - 1] = 0
    BY <1>0 DEF Beyond
  <2> QED BY <2>1, <2>2 DEF Concave, Sloped
<1> HIDE DEF h, f, d, delta
<1>5. Concave(f, b) /\ Sloped(f, b, -from[1], to[1])
  <2> DEFINE low == -from[1]  high == to[1]
  <2>1. low \in Int /\ high \in Int /\ 0 \in Int /\ low <= 0 + d /\ 0 + d <= high
    BY <1>1
  <2> HIDE DEF low, high
  <2>2. Concave(f, b) /\ Sloped(f, b, low, high)
    BY <2>1, <1>0, <1>1, <1>2, <1>3, <1>4, TiltedShape
  <2> QED BY <2>2 DEF low, high
<1>6. \A p \in -b..b : f[p] >= d * p
  <2> TAKE p \in -b..b
  <2>1. p \in Int /\ p \in Beyond(b)
    BY <1>0, BeyondIs
  <2>2. d * p \in Int
    BY <2>1, <1>1
  <2> QED BY <2>1, <2>2, <1>2
<1> QED BY <1>1, <1>5, <1>6 DEF Shaped, f, delta

LEMMA NextShaped ==
  ASSUME NEW from, NEW to, NEW mass, NEW b, Spans(from, to, mass, b),
         NEW a \in 1..(Atoms - 1), Shaped(from, to, b, a)
  PROVE  Shaped(from, to, b, a + 1)
<1> DEFINE delta == Gain(from, to)
           f == Curve(delta, b, a)
           h == Eased(delta, b, a)
           g == Curve(delta, b, a + 1)
           d == delta[a + 1]
           lo == -Upto(from)[a]
           hi == Upto(to)[a]
           S == Upto(delta)[a]
<1>0. /\ b \in Nat /\ a \in Atom /\ a + 1 \in Atom /\ a < Atoms /\ (a + 1) - 1 = a
      /\ a \in 0..Atoms /\ a + 1 \in 0..Atoms /\ delta \in [Atom -> Int]
  <2>1. a \in Atom /\ a + 1 \in Atom /\ a < Atoms /\ (a + 1) - 1 = a /\ a \in 0..Atoms
          /\ a + 1 \in 0..Atoms
    BY AtomsAre
  <2> QED BY <2>1, SpansIs DEF Spans
<1>1. f \in Curves(b) /\ h \in Curves(b) /\ g \in Curves(b)
        /\ \A p \in Beyond(b) : g[p] = h[p] + d * p
  BY <1>0, CurveIs
<1>2. Eases(h, f, b)
  BY <1>0, EasedIs
<1>3. /\ Upto(from)[a] \in Int /\ lo \in Int /\ hi \in Int /\ lo <= 0 /\ 0 <= hi /\ d \in Int
         /\ S \in Int
      /\ from[a + 1] \in Nat /\ to[a + 1] \in Nat /\ d = to[a + 1] - from[a + 1]
      /\ Upto(from)[a + 1] = Upto(from)[a] + from[a + 1] /\ Upto(to)[a + 1] = hi + to[a + 1]
      /\ Upto(delta)[a + 1] = S + d
  <2>1. /\ Upto(from)[a] \in 0..mass /\ Upto(to)[a] \in 0..mass /\ mass \in Nat
        /\ S = Upto(to)[a] - Upto(from)[a]
        /\ Upto(delta)[a + 1] = Upto(to)[a + 1] - Upto(from)[a + 1]
    <3>1. mass \in Nat
      BY DEF Spans
    <3> QED BY <3>1, <1>0, SpansIs
  <2>2. /\ from[a + 1] \in Nat /\ to[a + 1] \in Nat /\ d = to[a + 1] - from[a + 1]
        /\ Upto(from)[a + 1] = Upto(from)[(a + 1) - 1] + from[a + 1]
        /\ Upto(to)[a + 1] = Upto(to)[(a + 1) - 1] + to[a + 1]
    BY <1>0, SpansIs
  <2> HIDE DEF delta, d, S
  <2> QED BY <2>1, <2>2, <1>0
<1>4. Concave(f, b) /\ Sloped(f, b, lo, hi) /\ \A p \in -b..b : f[p] >= S * p
  BY DEF Shaped
<1> HIDE DEF delta, f, h, g, d, lo, hi, S
<1>5. Concave(h, b) /\ Sloped(h, b, lo, hi)
  BY <1>0, <1>1, <1>2, <1>3, <1>4, EasedConcave, EasedSloped
<1>6. Concave(g, b) /\ Sloped(g, b, -Upto(from)[a + 1], Upto(to)[a + 1])
  <2> DEFINE low == -Upto(from)[a + 1]  high == Upto(to)[a + 1]
  <2>1. low \in Int /\ high \in Int /\ low <= lo + d /\ hi + d <= high
    BY <1>3 DEF lo
  <2> HIDE DEF low, high
  <2>2. Concave(g, b) /\ Sloped(g, b, low, high)
    BY <2>1, <1>0, <1>1, <1>3, <1>5, TiltedShape
  <2> QED BY <2>2 DEF low, high
<1>7. \A p \in -b..b : g[p] >= (S + d) * p
  <2> TAKE p \in -b..b
  <2>1. p \in Int /\ p \in Beyond(b)
    BY <1>0, BeyondIs
  <2>2. h[p] >= f[p]
    <3>1. p - 1 <= p /\ p <= p + 1
      BY <2>1
    <3> QED BY <3>1, <2>1, <1>2 DEF Eases
  <2>3. f[p] \in Int /\ h[p] \in Int /\ g[p] = h[p] + d * p /\ f[p] >= S * p
    BY <2>1, <1>1, <1>4 DEF Curves
  <2>4. (S + d) * p = S * p + d * p /\ S * p \in Int /\ d * p \in Int
    BY <2>1, <1>3
  <2> DEFINE X == S * p  Y == d * p  Z == (S + d) * p
  <2>5. f[p] >= X /\ g[p] = h[p] + Y /\ Z = X + Y /\ X \in Int /\ Y \in Int
    BY <2>3, <2>4
  <2> HIDE DEF X, Y, Z
  <2>6. g[p] >= Z
    BY <2>2, <2>3, <2>5
  <2> QED BY <2>6 DEF Z
<1> QED BY <1>3, <1>6, <1>7 DEF Shaped, g, delta

\* What the first atoms pay depends on what they carry on, and on nothing later.
LEMMA PaidAgrees ==
  ASSUME NEW delta \in [Atom -> Int], NEW b \in Nat, NEW c \in Carrying, NEW e \in Carrying,
         NEW a \in Atom, \A i \in 1..(a - 1) : c[i] = e[i]
  PROVE  Into(c, a) = Into(e, a) /\ Paid(delta, c, b, a - 1) = Paid(delta, e, b, a - 1)
<1> DEFINE L == Left(delta, c)  K == Left(delta, e)
<1>0. Atoms \in Nat /\ Atom = 1..Atoms /\ a - 1 \in 0..Atoms
  BY AtomsAre
<1>1. Into(c, a) = Into(e, a)
  <2>1. a > 1 => a - 1 \in 1..(a - 1)
    BY <1>0
  <2> QED BY <2>1 DEF Into
<1>2. ASSUME NEW i \in 1..(a - 1)
      PROVE  Steps(c)[i] = Steps(e)[i] /\ L[i] = K[i]
  <2>1. i \in Atom /\ i < Atoms /\ (i > 1 => i - 1 \in 1..(a - 1))
    BY <1>0
  <2>2. c[i] = e[i] /\ Into(c, i) = Into(e, i)
    BY <2>1 DEF Into
  <2>3. Steps(c)[i] = Magnitude(c[i]) /\ Steps(e)[i] = Magnitude(e[i])
    BY <2>1, StepsAre
  <2>4. L[i] = delta[i] + Into(c, i) - c[i] /\ K[i] = delta[i] + Into(e, i) - e[i]
    BY <2>1, LeftIs
  <2> QED BY <2>2, <2>3, <2>4
<1>3. Steps(c) \in [Atom -> Int] /\ Steps(e) \in [Atom -> Int] /\ L \in [Atom -> Int]
        /\ K \in [Atom -> Int]
  BY StepsAre, LeftIs
<1> HIDE DEF L, K
<1>4. /\ Sizes(L) \in [Atom -> Int] /\ Sizes(K) \in [Atom -> Int]
      /\ \A i \in 1..(a - 1) : Sizes(L)[i] = Sizes(K)[i]
  <2>1. \A i \in 1..(a - 1) : i \in Atom
    BY <1>0
  <2> QED BY <2>1, <1>2, <1>3, SizesAre
<1>5. a - 1 \in 0..(a - 1)
  BY <1>0
<1>6. Upto(Steps(c))[a - 1] = Upto(Steps(e))[a - 1]
  BY <1>0, <1>2, <1>3, <1>5, UptoAgrees
<1>7. Upto(Sizes(L))[a - 1] = Upto(Sizes(K))[a - 1]
  BY <1>0, <1>4, <1>5, UptoAgrees
<1> QED BY <1>1, <1>6, <1>7 DEF Paid, L, K

\* Every value with a slope is what some carrying costs.
Attains(delta, mass, b, a, p, s) ==
  \E c \in Carries(mass) :
    /\ delta[a] + Into(c, a) = s
    /\ Paid(delta, c, b, a - 1) + s * p = Curve(delta, b, a)[p]
Attained(delta, mass, b, a) ==
  \A p \in -b..b, s \in Int : Supports(Curve(delta, b, a), p, s) => Attains(delta, mass, b, a, p, s)

LEMMA CarriesAre ==
  ASSUME NEW mass \in Nat
  PROVE  /\ Carries(mass) \subseteq Carrying
         /\ \A c \in Carries(mass), a \in 1..(Atoms - 1), k \in -mass..mass :
              /\ [c EXCEPT ![a] = k] \in Carries(mass) /\ [c EXCEPT ![a] = k][a] = k
              /\ \A i \in 1..(a - 1) : c[i] = [c EXCEPT ![a] = k][i]
         /\ [a \in 1..(Atoms - 1) |-> 0] \in Carries(mass)
<1>1. Carries(mass) \subseteq Carrying
  BY DEF Carries, Carrying
<1>2. \A c \in Carries(mass), a \in 1..(Atoms - 1), k \in -mass..mass :
              /\ [c EXCEPT ![a] = k] \in Carries(mass) /\ [c EXCEPT ![a] = k][a] = k
              /\ \A i \in 1..(a - 1) : c[i] = [c EXCEPT ![a] = k][i]
  <2>1. \A a \in 1..(Atoms - 1) : \A i \in 1..(a - 1) : i \in 1..(Atoms - 1) /\ i # a
    BY AtomsAre
  <2> QED BY <2>1 DEF Carries
<1>3. 0 \in -mass..mass
  OBVIOUS
<1> QED BY <1>1, <1>2, <1>3 DEF Carries

LEMMA FirstAttained ==
  ASSUME NEW delta \in [Atom -> Int], NEW mass \in Nat, NEW b \in Nat
  PROVE  Attained(delta, mass, b, 1)
<1> SUFFICES ASSUME NEW p \in -b..b, NEW s \in Int, Supports(Curve(delta, b, 1), p, s)
             PROVE  Attains(delta, mass, b, 1, p, s)
  BY DEF Attained
<1> DEFINE d == delta[1]  f == Curve(delta, b, 1)  c == [a \in 1..(Atoms - 1) |-> 0]
<1>0. /\ 1 \in Atom /\ d \in Int /\ 1 - 1 = 0 /\ p \in Int
      /\ p \in Beyond(b) /\ p - 1 \in Beyond(b) /\ p + 1 \in Beyond(b)
  <2>1. 1 \in Atom
    BY AtomsAre
  <2> QED BY <2>1, BeyondIs
<1>1. f[p] = d * p /\ f[p + 1] = d * (p + 1) /\ f[p - 1] = d * (p - 1)
  BY <1>0, CurveIs
<1> HIDE DEF c
<1>2. c \in Carries(mass) /\ c \in Carrying
  BY CarriesAre DEF c
<1>3. Into(c, 1) = 0 /\ Paid(delta, c, b, 0) = 0
  BY <1>0, <1>2, PaidIs DEF Into
<1>4. s = d
  <2>1. f[p + 1] - f[p] <= s /\ s <= f[p] - f[p - 1]
    BY DEF Supports
  <2> HIDE DEF f, d
  <2>2. d * (p + 1) = d * p + d /\ d * (p - 1) = d * p - d /\ d * p \in Int
    BY <1>0
  <2>3. f[p] \in Int /\ f[p + 1] = f[p] + d /\ f[p - 1] = f[p] - d
    BY <1>1, <2>2
  <2>4. d <= s /\ s <= d
    BY <2>1, <2>3, <1>0
  <2> QED BY <2>4, <1>0
<1>5. delta[1] + Into(c, 1) = s
  BY <1>0, <1>3, <1>4
<1>6. Paid(delta, c, b, 1 - 1) + s * p = f[p]
  <2>1. s * p \in Int /\ s * p = d * p
    BY <1>0, <1>4
  <2>2. Paid(delta, c, b, 1 - 1) = 0
    BY <1>0, <1>3
  <2> QED BY <2>1, <2>2, <1>1
<1> QED BY <1>2, <1>5, <1>6 DEF Attains

LEMMA NextAttained ==
  ASSUME NEW from, NEW to, NEW mass, NEW b, Spans(from, to, mass, b),
         NEW a \in 1..(Atoms - 1), Shaped(from, to, b, a), Attained(Gain(from, to), mass, b, a)
  PROVE  Attained(Gain(from, to), mass, b, a + 1)
<1> DEFINE delta == Gain(from, to)
           f == Curve(delta, b, a)
           h == Eased(delta, b, a)
           g == Curve(delta, b, a + 1)
           d == delta[a + 1]
           lo == -Upto(from)[a]
           hi == Upto(to)[a]
<1>a. SUFFICES ASSUME NEW p \in -b..b, NEW s \in Int, Supports(g, p, s)
               PROVE  Attains(delta, mass, b, a + 1, p, s)
  BY DEF Attained
<1>0. /\ b \in Nat /\ a \in Atom /\ a + 1 \in Atom /\ a < Atoms /\ (a + 1) - 1 = a /\ a + 1 > 1
      /\ a \in 0..Atoms /\ delta \in [Atom -> Int] /\ mass \in Nat
  <2>1. a \in Atom /\ a + 1 \in Atom /\ a < Atoms /\ (a + 1) - 1 = a /\ a \in 0..Atoms /\ a + 1 > 1
    BY AtomsAre
  <2> QED BY <2>1, SpansIs DEF Spans
<1>1. f \in Curves(b) /\ h \in Curves(b) /\ g \in Curves(b)
        /\ \A x \in Beyond(b) : g[x] = h[x] + d * x
  BY <1>0, CurveIs
<1>2. Eases(h, f, b)
  BY <1>0, EasedIs
<1>3. /\ lo \in Int /\ hi \in Int /\ lo <= 0 /\ 0 <= hi /\ -mass <= lo /\ hi <= mass /\ d \in Int
  <2>1. Upto(from)[a] \in 0..mass /\ Upto(to)[a] \in 0..mass
    BY <1>0, SpansIs
  <2> QED BY <2>1, <1>0
<1>4. Concave(f, b) /\ Sloped(f, b, lo, hi)
  BY DEF Shaped
<1>5. Attained(delta, mass, b, a)
  OBVIOUS
<1> HIDE DEF delta, f, h, g, d, lo, hi
<1>6. Sloped(h, b, lo, hi)
  BY <1>0, <1>1, <1>2, <1>3, <1>4, EasedSloped
<1> DEFINE k == s - d
<1>7. k \in Int /\ Supports(h, p, k)
  <2>1. p \in (-b - 1)..b /\ p - 1 \in (-b - 1)..b /\ (p - 1) + 1 = p /\ p \in Int
    BY <1>0
  <2>2. /\ g[p + 1] - g[p] = h[p + 1] - h[p] + d
        /\ g[p] \in Int /\ g[p + 1] \in Int /\ h[p] \in Int /\ h[p + 1] \in Int
    BY <2>1, <1>0, <1>1, <1>3, Tilted
  <2>3. /\ g[p] - g[p - 1] = h[p] - h[p - 1] + d
        /\ g[p - 1] \in Int /\ h[p - 1] \in Int
    BY <2>1, <1>0, <1>1, <1>3, Tilted
  <2>4. g[p + 1] - g[p] <= s /\ s <= g[p] - g[p - 1]
    BY <1>a DEF Supports
  <2>5. h[p + 1] - h[p] <= k /\ k <= h[p] - h[p - 1]
    BY <2>2, <2>3, <2>4, <1>3
  <2> QED BY <2>5, <1>3 DEF Supports
<1> HIDE DEF k
<1>8. k \in -mass..mass
  <2>1. p \in (-b - 1)..b /\ p - 1 \in (-b - 1)..b /\ (p - 1) + 1 = p
    BY <1>0
  <2>2. lo <= h[p + 1] - h[p] /\ h[p] - h[p - 1] <= hi
    BY <2>1, <1>6 DEF Sloped
  <2>3. h[p] \in Int /\ h[p + 1] \in Int /\ h[p - 1] \in Int
    BY <1>0, <1>1, BeyondIs DEF Curves
  <2>4. h[p + 1] - h[p] <= k /\ k <= h[p] - h[p - 1]
    BY <1>7 DEF Supports
  <2>5. -mass <= k /\ k <= mass
    BY <2>2, <2>3, <2>4, <1>0, <1>3, <1>7
  <2> QED BY <2>5, <1>0, <1>7
<1>9. PICK q \in -b..b, r \in Int :
        /\ Supports(f, q, r) /\ f[q] = h[p]
        /\ k * (q - p) = Magnitude(k) /\ (r - k) * q = b * Magnitude(r - k)
  BY <1>0, <1>1, <1>2, <1>4, <1>7, EasedSupport
<1>10. PICK c \in Carries(mass) : delta[a] + Into(c, a) = r /\ Paid(delta, c, b, a - 1) + r * q = f[q]
  <2>1. Attains(delta, mass, b, a, q, r)
    BY <1>5, <1>9 DEF Attained, f
  <2> QED BY <2>1 DEF Attains, f
<1> DEFINE e == [c EXCEPT ![a] = k]
<1>11. /\ c \in Carrying /\ e \in Carries(mass) /\ e \in Carrying /\ e[a] = k
       /\ \A i \in 1..(a - 1) : c[i] = e[i]
  BY <1>0, <1>8, CarriesAre
<1> HIDE DEF e
<1>12. Into(c, a) = Into(e, a) /\ Paid(delta, c, b, a - 1) = Paid(delta, e, b, a - 1)
  BY <1>0, <1>11, PaidAgrees
<1>13. Left(delta, e)[a] = r - k
  <2>1. Left(delta, e)[a] = delta[a] + Into(e, a) - e[a]
    BY <1>0, <1>11, LeftIs
  <2>2. delta[a] \in Int /\ Into(c, a) \in Int /\ k \in Int
    BY <1>0, <1>7, <1>11, LeftIs
  <2>3. delta[a] + Into(c, a) = r /\ Into(c, a) = Into(e, a) /\ e[a] = k
    BY <1>10, <1>11, <1>12
  <2> QED BY <2>1, <2>2, <2>3
<1>14. Paid(delta, e, b, a) = Paid(delta, c, b, a - 1) + Magnitude(k) + b * Magnitude(r - k)
  <2>1. Steps(e)[a] = Magnitude(k)
    BY <1>0, <1>11, StepsAre
  <2>2. Paid(delta, e, b, a) = Paid(delta, e, b, a - 1) + Steps(e)[a] + b * Magnitude(Left(delta, e)[a])
    BY <1>0, <1>11, PaidIs
  <2> QED BY <2>1, <2>2, <1>12, <1>13
<1>15. Paid(delta, e, b, a) + k * p = h[p]
  <2> DEFINE P == Paid(delta, c, b, a - 1)
             X == r * q  Y == k * (q - p)  Z == (r - k) * q  W == k * p
  <2>1. P \in Int
    <3>1. a - 1 \in 0..Atoms
      BY AtomsAre
    <3>2. P \in Nat
      BY <3>1, <1>0, <1>11, PaidIs
    <3> QED BY <3>2
  <2>2. X = Z + Y + W /\ X \in Int /\ Y \in Int /\ Z \in Int /\ W \in Int
    <3>1. p \in Int /\ q \in Int /\ r \in Int /\ k \in Int
      BY <1>0, <1>7
    <3> QED BY <3>1
  <2>3. Magnitude(k) = Y /\ b * Magnitude(r - k) = Z /\ P + X = f[q] /\ f[q] = h[p]
    BY <1>9, <1>10
  <2>4. Paid(delta, e, b, a) = P + Magnitude(k) + b * Magnitude(r - k)
    BY <1>14
  <2> HIDE DEF P, X, Y, Z, W
  <2>5. Paid(delta, e, b, a) + W = h[p]
    BY <2>1, <2>2, <2>3, <2>4
  <2> QED BY <2>5 DEF W
<1>16. Into(e, a + 1) = k /\ delta[a + 1] + Into(e, a + 1) = s
  <2>1. Into(e, a + 1) = k
    BY <1>0, <1>11 DEF Into
  <2> QED BY <2>1, <1>3 DEF k, d
<1>17. Paid(delta, e, b, (a + 1) - 1) + s * p = g[p]
  <2> DEFINE P == Paid(delta, e, b, a)  X == k * p  Y == d * p  Z == s * p
  <2>1. P \in Int
    <3>1. P \in Nat
      BY <1>0, <1>11, PaidIs
    <3> QED BY <3>1
  <2>2. Z = X + Y /\ X \in Int /\ Y \in Int
    <3>1. p \in Int /\ k \in Int /\ d \in Int /\ s = k + d
      BY <1>0, <1>3, <1>7 DEF k
    <3> QED BY <3>1
  <2>3. P + X = h[p]
    BY <1>15
  <2>4. g[p] = h[p] + Y
    <3>1. p \in Beyond(b)
      BY <1>0, BeyondIs
    <3> QED BY <3>1, <1>1
  <2> HIDE DEF P, X, Y, Z
  <2>5. P + Z = g[p]
    BY <2>1, <2>2, <2>3, <2>4
  <2> QED BY <2>5, <1>0 DEF P, Z
<1> QED BY <1>11, <1>16, <1>17 DEF Attains, g

LEMMA AllAttained ==
  ASSUME NEW from, NEW to, NEW mass, NEW b, Spans(from, to, mass, b)
  PROVE  Shaped(from, to, b, Atoms) /\ Attained(Gain(from, to), mass, b, Atoms)
<1> DEFINE delta == Gain(from, to)
           T == {a \in 1..Atoms : Shaped(from, to, b, a) /\ Attained(delta, mass, b, a)}
<1>0. b \in Nat /\ mass \in Nat /\ delta \in [Atom -> Int] /\ Atoms \in Nat /\ Atoms >= 1
  <2>1. Atoms \in Nat /\ Atoms >= 1
    BY AtomsAre
  <2> QED BY <2>1, SpansIs DEF Spans
<1>1. 1 \in T
  BY <1>0, FirstShaped, FirstAttained
<1>2. ASSUME NEW a \in 1..(Atoms - 1), a \in T PROVE a + 1 \in T
  <2>1. a + 1 \in 1..Atoms
    BY <1>0
  <2>2. Shaped(from, to, b, a) /\ Attained(delta, mass, b, a)
    BY <1>2
  <2>3. Shaped(from, to, b, a + 1)
    BY <2>2, NextShaped
  <2>4. Attained(delta, mass, b, a + 1)
    BY <2>2, NextAttained
  <2> QED BY <2>1, <2>3, <2>4
<1> HIDE DEF T
<1>3. Closed(T, 1, Atoms) /\ Atoms \in 1..Atoms
  BY <1>0, <1>1, <1>2 DEF Closed
<1>4. Atoms \in T
  BY <1>0, <1>3, Everyone
<1> QED BY <1>4 DEF T

\* Where units may be born and die at a price, the program finds the least cost of
\* moving and varying them.
LEMMA TraitDuality ==
  ASSUME NEW from, NEW to, NEW mass, Spans(from, to, mass, BirthDeathCost)
  PROVE  /\ PrimalCost(Gain(from, to), mass, TRUE) = ChainDual(Gain(from, to), BirthDeathCost, FALSE)
         /\ ChainDual(Gain(from, to), BirthDeathCost, FALSE) \in Nat
<1> DEFINE delta == Gain(from, to)
           b == BirthDeathCost
           D == ChainDual(delta, b, FALSE)
           f == Curve(delta, b, Atoms)
           costs == PrimalCosts(delta, mass, TRUE)
<1>0. /\ b \in Nat /\ mass \in Nat /\ delta \in [Atom -> Int] /\ Fits(delta, b)
      /\ Atoms \in Atom /\ ~(Atoms < Atoms) /\ Atoms \in 0..Atoms /\ Atoms - 1 \in 0..Atoms
  <2>1. Atoms \in Atom /\ ~(Atoms < Atoms) /\ Atoms \in 0..Atoms /\ Atoms - 1 \in 0..Atoms
    BY AtomsAre
  <2> QED BY <2>1, SpansIs DEF Spans
<1>1. Shaped(from, to, b, Atoms) /\ Attained(delta, mass, b, Atoms)
  BY AllAttained
<1>2. f \in Curves(b) /\ Concave(f, b)
  BY <1>0, <1>1, CurveIs DEF Shaped
<1>3. PICK q \in -b..b : D = f[q] /\ \A p \in -b..b : f[p] <= f[q]
  <2>1. PICK q \in -b..b : D = Best(delta, b, FALSE)[Atoms][q]
    BY <1>0, ChainDualIs
  <2>2. \A p \in -b..b : D >= Best(delta, b, FALSE)[Atoms][p]
    BY <1>0, ChainDualIs
  <2>3. \A p \in -b..b : f[p] = Best(delta, b, FALSE)[Atoms][p]
    BY <1>0, CurveIs
  <2>4. \A p \in -b..b : f[p] \in Int
    BY <1>0, <1>2, BeyondIs DEF Curves
  <2>5. D = f[q]
    BY <2>1, <2>3
  <2>6. ASSUME NEW p \in -b..b PROVE f[p] <= f[q]
    <3>1. D >= f[p] /\ f[p] \in Int /\ f[q] \in Int
      BY <2>2, <2>3, <2>4
    <3> HIDE DEF D, f
    <3> QED BY <3>1, <2>5
  <2> QED BY <2>5, <2>6
<1> HIDE DEF D, f
<1>4. PICK s \in Int : Supports(f, q, s) /\ (s - 0) * q = b * Magnitude(s - 0)
  <2>1. /\ q \in Int /\ q \in Beyond(b) /\ q + 1 \in Beyond(b) /\ q - 1 \in Beyond(b)
    BY <1>0, BeyondIs
  <2>2. f[q] \in Int /\ f[q + 1] \in Int /\ f[q - 1] \in Int
    BY <2>1, <1>2 DEF Curves
  <2>3. q + 1 <= b => f[q + 1] - f[q] <= 0
    <3> HAVE q + 1 <= b
    <3>1. q + 1 \in -b..b
      BY <1>0
    <3> QED BY <3>1, <2>2, <1>3
  <2>4. -b <= q - 1 => 0 <= f[q] - f[q - 1]
    <3> HAVE -b <= q - 1
    <3>1. q - 1 \in -b..b
      BY <1>0
    <3> QED BY <3>1, <2>2, <1>3
  <2>5. 0 \in Int
    OBVIOUS
  <2> QED BY <2>3, <2>4, <2>5, <1>0, <1>2, EdgeSupport
<1>5. PICK c \in Carries(mass) : delta[Atoms] + Into(c, Atoms) = s
                                  /\ Paid(delta, c, b, Atoms - 1) + s * q = f[q]
  <2>1. Attains(delta, mass, b, Atoms, q, s)
    BY <1>1, <1>4 DEF Attained, f
  <2> QED BY <2>1 DEF Attains, f
<1>6. Carries(mass) \subseteq Carrying
  BY <1>0, CarriesAre
<1>7. Paid(delta, c, b, Atoms) = D /\ D \in Nat
  <2>1. Steps(c)[Atoms] = 0 /\ Left(delta, c)[Atoms] = s
    BY <1>0, <1>5, <1>6, StepsAre, LeftIs
  <2>2. Paid(delta, c, b, Atoms) = Paid(delta, c, b, Atoms - 1) + 0 + b * Magnitude(s)
    BY <2>1, <1>0, <1>6, PaidIs
  <2>3. Paid(delta, c, b, Atoms) \in Nat /\ Paid(delta, c, b, Atoms - 1) \in Nat
    BY <1>0, <1>6, PaidIs
  <2>4. s - 0 = s
    OBVIOUS
  <2>5. s * q = b * Magnitude(s)
    BY <2>4, <1>4
  <2>6. Paid(delta, c, b, Atoms) = Paid(delta, c, b, Atoms - 1) + s * q
    <3>1. s * q \in Int
      BY <1>0
    <3> QED BY <3>1, <2>2, <2>3, <2>5
  <2> QED BY <2>3, <2>6, <1>3, <1>5
<1>8. \A e \in Carries(mass) : /\ D <= Moved(e) + b * Varied(Left(delta, e))
                               /\ Moved(e) + b * Varied(Left(delta, e)) = Paid(delta, e, b, Atoms)
                               /\ Paid(delta, e, b, Atoms) \in Nat
  <2> TAKE e \in Carries(mass)
  <2>1. e \in Carrying
    BY <1>6
  <2>2. /\ D <= Moved(e) + b * Varied(Left(delta, e))
        /\ Moved(e) + b * Varied(Left(delta, e)) = Paid(delta, e, b, Atoms)
    BY <2>1, <1>0, WeakDuality DEF D
  <2>3. Paid(delta, e, b, Atoms) \in Nat
    BY <2>1, <1>0, PaidIs
  <2> QED BY <2>2, <2>3
<1>9. D \in costs
  BY <1>7, <1>8 DEF PrimalCosts
<1>10. \A y \in costs : y \in Int /\ D <= y
  <2> TAKE y \in costs
  <2>1. PICK e \in Carries(mass) : y = Moved(e) + b * Varied(Left(delta, e))
    BY DEF PrimalCosts
  <2> QED BY <2>1, <1>8
<1> HIDE DEF costs
<1>11. PrimalCost(delta, mass, TRUE) = D
  BY <1>7, <1>9, <1>10, LeastCost DEF costs
<1> QED BY <1>7, <1>11 DEF D

-----------------------------------------------------------------------------
(* What a route costs                                                        *)

\* A program with nothing to do finds that it costs nothing.
LEMMA DualOfNothing ==
  ASSUME NEW delta, NEW b, Fits(delta, b), \A a \in Atom : delta[a] = 0, NEW anchored \in BOOLEAN,
         ChainDual(delta, b, anchored) \in Nat
  PROVE  ChainDual(delta, b, anchored) = 0
<1> DEFINE c == CarryAll(delta)
           D == ChainDual(delta, b, anchored)
<1>0. /\ delta \in [Atom -> Int] /\ b \in Nat /\ Atoms \in 0..Atoms /\ Atoms \in Nat
      /\ \A n \in 0..Atoms : Upto(delta)[n] = 0
  <2>1. Atoms \in 0..Atoms /\ Atoms \in Nat
    BY AtomsAre
  <2>2. delta \in [Atom -> Int] /\ b \in Nat
    BY DEF Fits
  <2> QED BY <2>1, <2>2, UptoOfNothing
<1>1. c \in Carrying /\ Varied(Left(delta, c)) = 0
  BY <1>0, CarryAllIs
<1>2. \A a \in 1..(Atoms - 1) : c[a] = 0
  <2>1. \A a \in 1..(Atoms - 1) : a \in 0..Atoms
    BY <1>0
  <2> QED BY <2>1, <1>0 DEF CarryAll
<1> HIDE DEF c, D
<1>3. Steps(c) \in [Atom -> Int] /\ \A a \in Atom : Steps(c)[a] = 0
  <2>1. \A a \in Atom : a < Atoms => a \in 1..(Atoms - 1)
    BY AtomsAre
  <2>2. Magnitude(0) = 0
    BY DEF Magnitude
  <2> QED BY <2>1, <2>2, <1>1, <1>2, StepsAre
<1>4. Moved(c) = 0
  BY <1>0, <1>1, <1>3, MovedIs, UptoOfNothing
<1>5. D <= Moved(c) + b * Varied(Left(delta, c)) /\ D \in Nat
  BY <1>1, WeakDuality DEF D
<1>6. b * 0 = 0
  BY <1>0
<1> QED BY <1>1, <1>4, <1>5, <1>6 DEF D

LEMMA ConstantsAre ==
  /\ MassOne \in Nat /\ MassOne >= 1 /\ MaterialTotal \in Nat /\ MaterialTotal <= MassOne
  /\ TraitCapacity \in Nat /\ TraitCapacity <= MassOne
  /\ BirthDeathCost \in Nat /\ RewriteLength \in Nat
BY LoomAssumption DEF LoomAssumption

LEMMA PacketIs ==
  ASSUME NEW p, IsPacket(p)
  PROVE  /\ p.material \in Measures /\ p.trait \in Measures
         /\ Upto(p.material)[Atoms] = MaterialTotal /\ Upto(p.trait)[Atoms] <= TraitCapacity
BY DEF IsPacket, Total

\* Transport between two packets costs what the cheapest way of moving the material,
\* and of moving and varying the traits, costs; and nothing where nothing changes.
THEOREM TransportCostIs ==
  ASSUME NEW p, NEW to, IsPacket(p), IsPacket(to)
  PROVE  /\ TransportCost(p, to) = PrimalCost(Gain(p.material, to.material), MaterialTotal, FALSE)
                                     + PrimalCost(Gain(p.trait, to.trait), TraitCapacity, TRUE)
         /\ TransportCost(p, to) \in Nat
         /\ p.material = to.material /\ p.trait = to.trait => TransportCost(p, to) = 0
<1> DEFINE dm == Gain(p.material, to.material)  dt == Gain(p.trait, to.trait)
           M == ChainDual(dm, Atoms - 1, TRUE)  T == ChainDual(dt, BirthDeathCost, FALSE)
<1>0. Atoms \in 0..Atoms
  BY AtomsAre
<1>1. Spans(p.trait, to.trait, TraitCapacity, BirthDeathCost)
  BY ConstantsAre, NoValueIsLow, PacketIs DEF Spans
<1>2. Spans(p.material, to.material, MaterialTotal, Atoms - 1)
  <2>1. /\ p.material \in Measures /\ to.material \in Measures
        /\ Upto(p.material)[Atoms] = MaterialTotal /\ Upto(to.material)[Atoms] = MaterialTotal
    BY PacketIs
  <2>2. MaterialTotal <= MaterialTotal /\ MaterialTotal \in Nat /\ MaterialTotal <= MassOne
    BY ConstantsAre
  <2> QED BY <2>1, <2>2, NoValueIsLow DEF Spans
<1>3. PrimalCost(dt, TraitCapacity, TRUE) = T /\ T \in Nat
  BY <1>1, TraitDuality
<1>4. Fits(dt, BirthDeathCost) /\ Fits(dm, Atoms - 1)
  BY <1>1, <1>2, SpansIs
<1>5. /\ Upto(dm)[Atoms] = 0
      /\ \A n \in 0..Atoms : Upto(dm)[n] \in -MaterialTotal..MaterialTotal
  <2>1. \A n \in 0..Atoms : /\ Upto(p.material)[n] \in 0..MaterialTotal
                               /\ Upto(to.material)[n] \in 0..MaterialTotal
                            /\ Upto(dm)[n] = Upto(to.material)[n] - Upto(p.material)[n]
    BY <1>2, SpansIs
  <2>2. Upto(p.material)[Atoms] = MaterialTotal /\ Upto(to.material)[Atoms] = MaterialTotal
    BY PacketIs
  <2> HIDE DEF dm
  <2>3. Upto(dm)[Atoms] = 0
    BY <2>1, <2>2, <1>0, ConstantsAre
  <2>4. \A n \in 0..Atoms : Upto(dm)[n] \in -MaterialTotal..MaterialTotal
    BY <2>1, ConstantsAre
  <2> QED BY <2>3, <2>4
<1>6. PrimalCost(dm, MaterialTotal, FALSE) = M /\ M \in Nat
  BY <1>4, <1>5, ConstantsAre, MaterialDuality
<1>7. TransportCost(p, to) = M + T
  BY DEF TransportCost
<1>8. ASSUME p.material = to.material, p.trait = to.trait PROVE M = 0 /\ T = 0
  <2>1. \A a \in Atom : dm[a] = 0 /\ dt[a] = 0
    <3>1. \A a \in Atom : to.material[a] \in Int /\ to.trait[a] \in Int
      <4>1. to.material \in [Atom -> Int] /\ to.trait \in [Atom -> Int]
        BY PacketIs, MeasuresAre
      <4> QED BY <4>1
    <3> QED BY <3>1, <1>8 DEF Gain
  <2> HIDE DEF dm, dt
  <2> QED BY <2>1, <1>3, <1>4, <1>6, DualOfNothing
<1> DEFINE cost == TransportCost(p, to)
           moving == PrimalCost(dm, MaterialTotal, FALSE)
           varying == PrimalCost(dt, TraitCapacity, TRUE)
<1>9. /\ cost = moving + varying /\ cost \in Nat
      /\ p.material = to.material /\ p.trait = to.trait => cost = 0
  <2>1. moving = M /\ varying = T /\ M \in Nat /\ T \in Nat /\ cost = M + T
    BY <1>3, <1>6, <1>7
  <2>2. p.material = to.material /\ p.trait = to.trait => M = 0 /\ T = 0
    BY <1>8
  <2> HIDE DEF M, T, cost, moving, varying
  <2> QED BY <2>1, <2>2
<1> QED BY <1>9

-----------------------------------------------------------------------------
(* What adjust makes of a measure                                            *)

Taken(room, amount) == [a \in Atom |-> Lesser(room[a], Greater(amount - Upto(room)[a - 1], 0))]

LEMMA TakenIs ==
  ASSUME NEW room \in [Atom -> Int], \A a \in Atom : room[a] >= 0, NEW amount \in Nat
  PROVE  /\ Taken(room, amount) \in [Atom -> Int]
         /\ \A a \in Atom : 0 <= Taken(room, amount)[a] /\ Taken(room, amount)[a] <= room[a]
         /\ \A n \in 0..Atoms : Upto(Taken(room, amount))[n] = Lesser(amount, Upto(room)[n])
<1> DEFINE taken == Taken(room, amount)
           T == {n \in 0..Atoms : Upto(taken)[n] = Lesser(amount, Upto(room)[n])}
<1>0. /\ Atoms \in Nat /\ Atom = 1..Atoms /\ 0 \in 0..Atoms
      /\ \A a \in Atom : a - 1 \in 0..Atoms
  BY AtomsAre
<1>1. /\ \A n \in 0..Atoms : Upto(room)[n] \in Int
      /\ Upto(room)[0] = 0
      /\ \A a \in Atom : Upto(room)[a] = Upto(room)[a - 1] + room[a]
  BY UptoIs
<1>2. \A n \in 0..Atoms : Upto(room)[n] >= 0
  BY <1>0, UptoGrows
<1>3. ASSUME NEW a \in Atom
      PROVE  /\ taken[a] = Lesser(room[a], Greater(amount - Upto(room)[a - 1], 0))
             /\ taken[a] \in Int /\ 0 <= taken[a] /\ taken[a] <= room[a]
             /\ Lesser(amount, Upto(room)[a]) = Lesser(amount, Upto(room)[a - 1]) + taken[a]
  <2>1. /\ taken[a] = Lesser(room[a], Greater(amount - Upto(room)[a - 1], 0))
        /\ room[a] \in Int /\ room[a] >= 0 /\ Upto(room)[a - 1] \in Int /\ Upto(room)[a - 1] >= 0
        /\ Upto(room)[a] = Upto(room)[a - 1] + room[a]
    BY <1>0, <1>1, <1>2 DEF Taken
  <2> HIDE DEF taken
  <2> QED BY <2>1 DEF Lesser, Greater
<1>4. taken \in [Atom -> Int]
  <2>1. taken = [a \in Atom |-> taken[a]]
    BY DEF Taken
  <2> HIDE DEF taken
  <2> QED BY <2>1, <1>3
<1> HIDE DEF taken
<1>5. 0 \in T
  <2>1. Upto(taken)[0] = 0
    BY <1>4, UptoIs
  <2> QED BY <2>1, <1>0, <1>1 DEF Lesser
<1>6. ASSUME NEW n \in 0..(Atoms - 1), n \in T PROVE n + 1 \in T
  <2>1. n + 1 \in Atom /\ n + 1 \in 0..Atoms /\ n \in 0..Atoms /\ (n + 1) - 1 = n
    BY <1>0
  <2>2. Upto(taken)[n + 1] = Upto(taken)[n] + taken[n + 1]
    BY <2>1, <1>4, UptoIs
  <2>3. Lesser(amount, Upto(room)[n + 1]) = Lesser(amount, Upto(room)[n]) + taken[n + 1]
    BY <2>1, <1>3
  <2> QED BY <2>1, <2>2, <2>3, <1>6
<1> HIDE DEF T
<1>7. \A n \in 0..Atoms : n \in T
  BY <1>0, <1>5, <1>6, Everyone DEF Closed
<1> QED BY <1>3, <1>4, <1>7 DEF T, taken

LEMMA FillIs ==
  ASSUME NEW m \in Measures, NEW amount \in Nat, Total(m) + amount <= MassOne
  PROVE  Fill(m, amount) \in Measures /\ Total(Fill(m, amount)) = Total(m) + amount
<1> DEFINE room == [a \in Atom |-> MassOne - m[a]]
           taken == Taken(room, amount)
           f == Fill(m, amount)
<1>0. /\ Atoms \in Nat /\ Atom = 1..Atoms /\ Atoms \in 0..Atoms /\ 1 \in Atom /\ 1 \in 0..Atoms
         /\ 1 <= Atoms
      /\ 0 \in 0..Atoms /\ 1 - 1 = 0 /\ MassOne \in Nat
  BY AtomsAre, ConstantsAre
<1>1. m \in [Atom -> Int] /\ \A a \in Atom : m[a] \in Nat /\ m[a] >= 0 /\ m[a] <= MassOne
  BY MeasuresAre
<1>2. /\ room \in [Atom -> Int]
      /\ \A a \in Atom : room[a] = MassOne - m[a] /\ room[a] >= 0
  BY <1>0, <1>1
<1>3. f = [a \in Atom |-> m[a] + 1 * taken[a]]
  BY DEF Fill, Adjust, Taken
<1> HIDE DEF room, f
<1>4. /\ taken \in [Atom -> Int]
      /\ \A a \in Atom : 0 <= taken[a] /\ taken[a] <= room[a]
      /\ Upto(taken)[Atoms] = Lesser(amount, Upto(room)[Atoms])
  BY <1>0, <1>2, TakenIs
<1> HIDE DEF taken
<1>5. f \in Measures /\ f \in [Atom -> Int] /\ \A a \in Atom : f[a] = m[a] + taken[a]
  <2>1. \A a \in Atom : m[a] + 1 * taken[a] = m[a] + taken[a] /\ m[a] + taken[a] \in 0..MassOne
    <3> TAKE a \in Atom
    <3>1. taken[a] \in Int /\ m[a] \in Nat /\ 0 <= taken[a] /\ taken[a] <= MassOne - m[a]
      BY <1>1, <1>2, <1>4
    <3> QED BY <3>1, <1>0
  <2>2. f \in Measures /\ \A a \in Atom : f[a] = m[a] + taken[a]
    BY <2>1, <1>3 DEF Measures
  <2> QED BY <2>2, MeasuresAre
<1>6. Gain(m, f) = taken
  <2>1. \A a \in Atom : f[a] - m[a] = taken[a]
    BY <1>1, <1>4, <1>5
  <2>2. taken = [a \in Atom |-> taken[a]]
    BY <1>4
  <2> QED BY <2>1, <2>2 DEF Gain
<1>7. Upto(taken)[Atoms] = Total(f) - Total(m) /\ Total(m) \in Int /\ Total(f) \in Int
  <2>1. Total(m) = Upto(m)[Atoms] /\ Total(m) \in Int
    BY <1>1, TotalIs
  <2>2. Total(f) = Upto(f)[Atoms] /\ Total(f) \in Int
    BY <1>5, TotalIs
  <2>3. Upto(Gain(m, f))[Atoms] = Upto(f)[Atoms] - Upto(m)[Atoms]
    BY <1>0, <1>1, <1>5, UptoGain
  <2> QED BY <2>1, <2>2, <2>3, <1>6
<1>8. Upto(room)[Atoms] >= amount
  <2>1. Upto(room)[1] <= Upto(room)[Atoms] /\ Upto(m)[1] <= Upto(m)[Atoms]
    BY <1>0, <1>1, <1>2, UptoGrows
  <2>2. Upto(room)[1] = room[1] /\ Upto(m)[1] = m[1]
    <3>1. Upto(room)[1] = Upto(room)[1 - 1] + room[1] /\ Upto(room)[0] = 0 /\ room[1] \in Int
      BY <1>0, <1>2, UptoIs
    <3>2. Upto(m)[1] = Upto(m)[1 - 1] + m[1] /\ Upto(m)[0] = 0 /\ m[1] \in Int
      BY <1>0, <1>1, UptoIs
    <3> QED BY <3>1, <3>2, <1>0
  <2>3. Upto(room)[Atoms] \in Int /\ Upto(m)[Atoms] \in Int
    BY <1>0, <1>1, <1>2, UptoIs
  <2>4. m[1] \in Int /\ room[1] = MassOne - m[1]
    BY <1>0, <1>1, <1>2
  <2>5. Total(m) = Upto(m)[Atoms]
    BY DEF Total
  <2> QED BY <2>1, <2>2, <2>3, <2>4, <2>5, <1>0
<1>9. Lesser(amount, Upto(room)[Atoms]) = amount
  <2>1. Upto(room)[Atoms] \in Int
    BY <1>0, <1>2, UptoIs
  <2> QED BY <2>1, <1>8 DEF Lesser
<1>10. Total(f) = Total(m) + amount
  <2> DEFINE gained == Upto(taken)[Atoms]
  <2>1. gained = amount /\ gained = Total(f) - Total(m)
    BY <1>4, <1>7, <1>9
  <2> HIDE DEF gained
  <2> QED BY <2>1, <1>7
<1> QED BY <1>5, <1>10 DEF f

LEMMA DrainIs ==
  ASSUME NEW m \in Measures, NEW amount \in Nat, amount <= Total(m)
  PROVE  Drain(m, amount) \in Measures /\ Total(Drain(m, amount)) = Total(m) - amount
<1> DEFINE taken == Taken(m, amount)
           f == Drain(m, amount)
<1>0. Atoms \in Nat /\ Atom = 1..Atoms /\ Atoms \in 0..Atoms /\ MassOne \in Nat
  BY AtomsAre, ConstantsAre
<1>1. m \in [Atom -> Int] /\ \A a \in Atom : m[a] \in Nat /\ m[a] >= 0 /\ m[a] <= MassOne
  BY MeasuresAre
<1>2. f = [a \in Atom |-> m[a] + (-1) * taken[a]]
  BY DEF Drain, Adjust, Taken
<1> HIDE DEF f
<1>3. /\ taken \in [Atom -> Int]
      /\ \A a \in Atom : 0 <= taken[a] /\ taken[a] <= m[a]
      /\ Upto(taken)[Atoms] = Lesser(amount, Upto(m)[Atoms])
  BY <1>0, <1>1, TakenIs
<1> HIDE DEF taken
<1>4. f \in Measures /\ f \in [Atom -> Int] /\ \A a \in Atom : f[a] = m[a] - taken[a]
  <2>1. \A a \in Atom : m[a] + (-1) * taken[a] = m[a] - taken[a] /\ m[a] - taken[a] \in 0..MassOne
    <3> TAKE a \in Atom
    <3>1. taken[a] \in Int /\ m[a] \in Nat /\ 0 <= taken[a] /\ taken[a] <= m[a] /\ m[a] <= MassOne
      BY <1>1, <1>3
    <3> QED BY <3>1, <1>0
  <2>2. f \in Measures /\ \A a \in Atom : f[a] = m[a] - taken[a]
    BY <2>1, <1>2 DEF Measures
  <2> QED BY <2>2, MeasuresAre
<1>5. Gain(f, m) = taken
  <2>1. \A a \in Atom : m[a] - f[a] = taken[a]
    BY <1>1, <1>3, <1>4
  <2>2. taken = [a \in Atom |-> taken[a]]
    BY <1>3
  <2> QED BY <2>1, <2>2 DEF Gain
<1>6. Upto(taken)[Atoms] = Total(m) - Total(f) /\ Total(m) \in Int /\ Total(f) \in Int
  <2>1. Total(m) = Upto(m)[Atoms] /\ Total(m) \in Int
    BY <1>1, TotalIs
  <2>2. Total(f) = Upto(f)[Atoms] /\ Total(f) \in Int
    BY <1>4, TotalIs
  <2>3. Upto(Gain(f, m))[Atoms] = Upto(m)[Atoms] - Upto(f)[Atoms]
    BY <1>0, <1>1, <1>4, UptoGain
  <2> QED BY <2>1, <2>2, <2>3, <1>5
<1>7. Lesser(amount, Upto(m)[Atoms]) = amount
  <2>1. Total(m) = Upto(m)[Atoms] /\ Total(m) \in Int
    BY <1>1, TotalIs
  <2> QED BY <2>1 DEF Lesser
<1>8. Total(f) = Total(m) - amount
  <2> DEFINE lost == Upto(taken)[Atoms]
  <2>1. lost = amount /\ lost = Total(m) - Total(f)
    BY <1>3, <1>6, <1>7
  <2> HIDE DEF lost
  <2> QED BY <2>1, <1>6
<1> QED BY <1>4, <1>8 DEF f

LEMMA RestoreTotalIs ==
  ASSUME NEW m \in Measures
  PROVE  RestoreTotal(m) \in Measures /\ Total(RestoreTotal(m)) = MaterialTotal
<1> DEFINE sum == Total(m)
<1>0. sum \in Int /\ sum >= 0
  <2>1. Atoms \in 0..Atoms
    BY AtomsAre
  <2> QED BY <2>1, MeasuresAre, TotalIs, UptoGrows
<1>1. RestoreTotal(m) = IF sum < MaterialTotal THEN Fill(m, MaterialTotal - sum)
                              ELSE Drain(m, sum - MaterialTotal)
  BY DEF RestoreTotal
<1>2. CASE sum < MaterialTotal
  <2>1. MaterialTotal - sum \in Nat /\ sum + (MaterialTotal - sum) = MaterialTotal
          /\ MaterialTotal <= MassOne
    BY <1>0, <1>2, ConstantsAre
  <2>2. /\ Fill(m, MaterialTotal - sum) \in Measures
        /\ Total(Fill(m, MaterialTotal - sum)) = sum + (MaterialTotal - sum)
    BY <2>1, FillIs
  <2> QED BY <2>1, <2>2, <1>1, <1>2
<1>3. CASE ~(sum < MaterialTotal)
  <2>1. sum - MaterialTotal \in Nat /\ sum - (sum - MaterialTotal) = MaterialTotal
          /\ sum - MaterialTotal <= sum
    BY <1>0, <1>3, ConstantsAre
  <2>2. /\ Drain(m, sum - MaterialTotal) \in Measures
        /\ Total(Drain(m, sum - MaterialTotal)) = sum - (sum - MaterialTotal)
    BY <2>1, DrainIs
  <2> QED BY <2>1, <2>2, <1>1, <1>3
<1> QED BY <1>2, <1>3

LEMMA CapTotalIs ==
  ASSUME NEW m \in Measures
  PROVE  /\ CapTotal(m) \in Measures /\ Total(CapTotal(m)) <= TraitCapacity
         /\ (\A a \in Atom : m[a] = 0) => CapTotal(m) = m
<1> DEFINE sum == Total(m)
<1>0. sum \in Int /\ sum >= 0 /\ m \in [Atom -> Int] /\ Atoms \in 0..Atoms
  <2>1. Atoms \in 0..Atoms
    BY AtomsAre
  <2> QED BY <2>1, MeasuresAre, TotalIs, UptoGrows
<1>1. CapTotal(m) = IF sum > TraitCapacity THEN Drain(m, sum - TraitCapacity) ELSE m
  BY DEF CapTotal
<1>2. CASE sum > TraitCapacity
  <2>1. sum - TraitCapacity \in Nat /\ sum - (sum - TraitCapacity) = TraitCapacity
          /\ sum - TraitCapacity <= sum
    BY <1>0, <1>2, ConstantsAre
  <2>2. /\ Drain(m, sum - TraitCapacity) \in Measures
        /\ Total(Drain(m, sum - TraitCapacity)) = sum - (sum - TraitCapacity)
    BY <2>1, DrainIs
  <2>3. ~(\A a \in Atom : m[a] = 0)
    <3>1. ASSUME \A a \in Atom : m[a] = 0 PROVE FALSE
      <4>1. sum = 0
        BY <3>1, <1>0, TotalIs, UptoOfNothing
      <4> QED BY <4>1, <1>2, ConstantsAre
    <3> QED BY <3>1
  <2>4. TraitCapacity <= TraitCapacity
    BY ConstantsAre
  <2> QED BY <2>1, <2>2, <2>3, <2>4, <1>1, <1>2
<1>3. CASE ~(sum > TraitCapacity)
  <2>1. sum <= TraitCapacity
    BY <1>0, <1>3, ConstantsAre
  <2> QED BY <2>1, <1>1, <1>3
<1> QED BY <1>2, <1>3

-----------------------------------------------------------------------------
(* What an intent wishes for                                                 *)

LEMMA QuotientIs ==
  ASSUME NEW a \in Int, NEW b \in Nat \ {0}
  PROVE  Quotient(a, b) \in Int /\ (a <= 0 => Quotient(a, b) <= 0)
<1>1. CASE a < 0
  <2>1. (-a) \div b \in Nat
    BY <1>1
  <2> QED BY <2>1, <1>1 DEF Quotient
<1>2. CASE a = 0
  <2>1. a \div b = 0
    BY <1>2
  <2> QED BY <2>1, <1>2 DEF Quotient
<1>3. CASE a > 0
  <2>1. a \div b \in Int
    BY <1>3
  <2> QED BY <2>1, <1>3 DEF Quotient
<1> QED BY <1>1, <1>2, <1>3

\* The terms of an intent, before they are put in an order.
Term(intent, i) ==
  [law |-> LawOf(i.subject), atom |-> i.atom, delta |-> Delta(intent, i),
   weight |-> i.weight, id |-> i]
\* A term that can be applied, and one that adds no trait.
Applicable(t) == t.atom \in Atom /\ t.delta \in Int /\ t.weight \in Nat
Lowering(t) == t.law = "trait" => t.weight = 0 \/ t.delta <= 0

LEMMA TermIs ==
  ASSUME NEW intent, intent \subseteq Interactions, NEW i \in intent
  PROVE  /\ Applicable(Term(intent, i))
         /\ ~(LawOf(i.subject) = "trait" /\ i.weight > 0 /\ Delta(intent, i) > 0) => Lowering(Term(intent, i))
<1>1. /\ i.weight \in Nat /\ i.amount \in 0..MassOne /\ i.atom \in Atom
      /\ i.influence \in {"accentuate", "repress", "hold"} /\ MassOne \in Nat
  BY ConstantsAre DEF Interactions
<1> DEFINE whole == CASE i.influence = "accentuate" -> i.amount
                      [] i.influence = "repress" -> -i.amount
                      [] i.influence = "hold" -> 0
<1>2. whole \in Int
  BY <1>1
<1>3. Delta(intent, i) = IF Held(intent, i) THEN Quotient(whole, 4) ELSE whole
  BY DEF Delta
<1> HIDE DEF whole
<1>4. Delta(intent, i) \in Int
  <2>1. Quotient(whole, 4) \in Int
    BY <1>2, QuotientIs
  <2> QED BY <2>1, <1>2, <1>3
<1>5. /\ Term(intent, i).atom = i.atom /\ Term(intent, i).delta = Delta(intent, i)
      /\ Term(intent, i).weight = i.weight /\ Term(intent, i).law = LawOf(i.subject)
  BY DEF Term
<1> QED BY <1>1, <1>4, <1>5 DEF Applicable, Lowering

LEMMA TermsAre ==
  ASSUME NEW intent, IsFiniteSet(intent)
  PROVE  /\ Len(Terms(intent)) \in Nat
         /\ \A n \in 1..Len(Terms(intent)) : \E i \in intent : Terms(intent)[n] = Term(intent, i)
<1> DEFINE f == [i \in intent |-> Term(intent, i)]
           S == {f[i] : i \in intent}
           s == SetToSeq(S)
<1>1. Terms(intent) = s
  <2>1. S = {Term(intent, i) : i \in intent}
    OBVIOUS
  <2> QED BY <2>1 DEF Terms, Term
<1>2. \A x \in S : \E i \in intent : x = Term(intent, i)
  OBVIOUS
<1> HIDE DEF f
<1>3. IsFiniteSet(S)
  BY ImageIsFinite
<1> HIDE DEF S
<1>4. Cardinality(S) \in Nat /\ ExistsBijection(1..Cardinality(S), S)
  BY <1>3, FS_CardinalityType
<1>5. \E g \in [1..Cardinality(S) -> S] : IsInjective(g)
  BY <1>4 DEF ExistsBijection, Bijection, Injection, IsInjective
<1>6. s \in [1..Cardinality(S) -> S]
  BY <1>5 DEF SetToSeq
<1> HIDE DEF s
<1>7. Len(s) = Cardinality(S)
  BY <1>4, <1>6
<1> QED BY <1>1, <1>2, <1>4, <1>6, <1>7

LEMMA StrengthIs ==
  ASSUME NEW t, Applicable(t), NEW signature
  PROVE  /\ Strength(t, signature) \in Int
         /\ (t.weight = 0 \/ t.delta <= 0) => Strength(t, signature) <= 0
<1> DEFINE d == t.delta  w == t.weight  k == IF signature = "direct" THEN 2 ELSE 1
           x == d * w * k
<1>1. d \in Int /\ w \in Nat /\ k \in Nat
  BY DEF Applicable
<1>2. Strength(t, signature) = Quotient(x, 2)
  BY DEF Strength
<1> HIDE DEF d, w, k
<1>3. d * w \in Int /\ x \in Int
  BY <1>1
<1>4. ASSUME w = 0 \/ d <= 0 PROVE x <= 0
  <2>1. d * w <= 0
    <3>1. CASE w = 0
      BY <3>1, <1>1
    <3>2. CASE d <= 0
      <4>1. (-d) * w \in Nat
        BY <3>2, <1>1
      <4>2. (-d) * w = -(d * w)
        BY <1>1
      <4> QED BY <4>1, <4>2, <1>3
    <3> QED BY <3>1, <3>2, <1>4
  <2> DEFINE y == d * w
  <2>2. y \in Int /\ y <= 0 /\ x = y * k
    BY <2>1, <1>3
  <2> HIDE DEF y, x
  <2>3. (-y) * k \in Nat /\ (-y) * k = -(y * k) /\ y * k \in Int
    BY <2>2, <1>1
  <2> QED BY <2>2, <2>3
<1> HIDE DEF x
<1>5. Quotient(x, 2) \in Int /\ (x <= 0 => Quotient(x, 2) <= 0)
  BY <1>3, QuotientIs
<1> QED BY <1>2, <1>4, <1>5 DEF w, d

Nothing(m) == \A a \in Atom : m[a] = 0

LEMMA PullIs ==
  ASSUME NEW w \in Measures, NEW t, Applicable(t), NEW law, NEW signature
  PROVE  /\ Pull(w, t, law, signature) \in Measures
         /\ law = "trait" /\ Nothing(w) /\ Lowering(t) => Nothing(Pull(w, t, law, signature))
<1> DEFINE x == w[t.atom] + Strength(t, signature)
<1>0. MassOne \in Nat /\ t.atom \in Atom
  BY ConstantsAre DEF Applicable
<1>1. Strength(t, signature) \in Int /\ w[t.atom] \in Int
  <2>1. w \in [Atom -> Int]
    BY MeasuresAre
  <2> QED BY <2>1, <1>0, StrengthIs
<1>2. Clamp(x) \in 0..MassOne
  BY <1>0, <1>1 DEF Clamp, Lesser, Greater
<1>3. Pull(w, t, law, signature) = IF t.law = law THEN [w EXCEPT ![t.atom] = Clamp(x)] ELSE w
  BY DEF Pull
<1>4. Pull(w, t, law, signature) \in Measures
  <2>1. [w EXCEPT ![t.atom] = Clamp(x)] \in Measures
    <3> HIDE DEF x
    <3> QED BY <1>2 DEF Measures
  <2> QED BY <2>1, <1>3
<1>5. ASSUME law = "trait", Nothing(w), Lowering(t) PROVE Nothing(Pull(w, t, law, signature))
  <2>1. CASE t.law = law
    <3>1. Strength(t, signature) <= 0
      BY <2>1, <1>5, StrengthIs DEF Lowering
    <3>2. x <= 0 /\ x \in Int
      <4>1. w[t.atom] = 0
        BY <1>0, <1>5 DEF Nothing
      <4> QED BY <3>1, <4>1, <1>1
    <3>3. Clamp(x) = 0
      <4> HIDE DEF x
      <4> QED BY <3>2, <1>0 DEF Clamp, Lesser, Greater
    <3>4. \A a \in Atom : [w EXCEPT ![t.atom] = 0][a] = 0
      BY <1>5 DEF Nothing, Measures
    <3> QED BY <3>3, <3>4, <2>1, <1>3 DEF Nothing
  <2>2. CASE t.law # law
    BY <2>2, <1>3, <1>5
  <2> QED BY <2>1, <2>2
<1> QED BY <1>4, <1>5

\* The wish is a measure; with terms that add no trait it wishes for none.
LEMMA WishedIs ==
  ASSUME NEW m \in Measures, NEW terms, Len(terms) \in Nat, \A n \in 1..Len(terms) : Applicable(terms[n]),
         NEW law, NEW signature
  PROVE  /\ Wished(m, terms, law, signature) \in Measures
         /\ law = "trait" /\ Nothing(m) /\ (\A n \in 1..Len(terms) : Lowering(terms[n])) =>
              Nothing(Wished(m, terms, law, signature))
<1> DEFINE N == Len(terms)
           e(f, n) == IF n = 0 THEN m ELSE Pull(f[n - 1], terms[n], law, signature)
           R(f) == f = [n \in 0..N |-> e(f, n)]
           chosen == CHOOSE f : R(f)
           g == [x \in Measures \X (0..N) |-> IF x[2] = 0 THEN m ELSE Pull(x[1], terms[x[2]], law, signature)]
<1>0. N \in Nat /\ 0 \in Nat /\ 0 <= N /\ \A n \in 1..N : Applicable(terms[n])
  OBVIOUS
<1>1. Wished(m, terms, law, signature) = chosen[N]
  BY DEF Wished
<1> HIDE DEF N
<1>2. /\ g \in [Measures \X (0..N) -> Measures]
      /\ \A w \in Measures, n \in 1..N : g[<<w, n>>] = Pull(w, terms[n], law, signature)
  <2>1. \A w \in Measures, n \in 1..N : Pull(w, terms[n], law, signature) \in Measures
    BY <1>0, PullIs
  <2>2. \A x \in Measures \X (0..N) :
          (IF x[2] = 0 THEN m ELSE Pull(x[1], terms[x[2]], law, signature)) \in Measures
    <3> TAKE x \in Measures \X (0..N)
    <3>1. x[1] \in Measures /\ x[2] \in 0..N /\ (x[2] # 0 => x[2] \in 1..N)
      BY <1>0
    <3> QED BY <3>1, <2>1
  <2>3. \A n \in 1..N : n \in 0..N /\ n # 0
    BY <1>0
  <2> QED BY <2>2, <2>3
<1> HIDE DEF g
<1>3. PICK f \in [0..N -> Measures] : Follows(f, g, m, 0, N)
  BY <1>0, <1>2, RecursionExists
<1>4. \A n \in 0..N : f[n] = e(f, n)
  <2> TAKE n \in 0..N
  <2>1. CASE n = 0
    BY <2>1, <1>3 DEF Follows
  <2>2. CASE n # 0
    <3>1. n \in (0 + 1)..N /\ n \in 1..N /\ n - 1 \in 0..N
      BY <2>2, <1>0
    <3>2. f[n] = g[<<f[n - 1], n>>] /\ f[n - 1] \in Measures
      BY <3>1, <1>3 DEF Follows
    <3> QED BY <3>1, <3>2, <2>2, <1>2
  <2> QED BY <2>1, <2>2
<1>5. R(f)
  <2> HIDE DEF e
  <2> QED BY <1>3, <1>4
<1>6. R(chosen)
  <2> HIDE DEF R
  <2> QED BY <1>5
<1> HIDE DEF chosen
<1>7. \A n \in 0..N : chosen[n] = e(chosen, n)
  <2> HIDE DEF e
  <2> QED BY <1>6
<1>8. chosen[0] = m
  <2>1. 0 \in 0..N
    BY <1>0
  <2> QED BY <2>1, <1>7
<1>9. \A n \in 0..(N - 1) : chosen[n + 1] = Pull(chosen[n], terms[n + 1], law, signature)
  <2> TAKE n \in 0..(N - 1)
  <2>1. n + 1 \in 0..N /\ n + 1 # 0 /\ (n + 1) - 1 = n
    BY <1>0
  <2> QED BY <2>1, <1>7
<1> HIDE DEF e, R
<1> DEFINE T == {n \in 0..N : chosen[n] \in Measures}
           Z == {n \in 0..N : chosen[n] \in Measures /\ Nothing(chosen[n])}
<1>10. ASSUME NEW n \in 0..(N - 1), n \in T PROVE n + 1 \in T
  <2>1. n + 1 \in 0..N /\ n + 1 \in 1..N
    BY <1>0
  <2>2. Applicable(terms[n + 1]) /\ chosen[n] \in Measures
    BY <2>1, <1>0, <1>10
  <2>3. Pull(chosen[n], terms[n + 1], law, signature) \in Measures
    BY <2>2, PullIs
  <2> QED BY <2>1, <2>3, <1>9
<1>11. N \in T
  <2>1. 0 \in T /\ N \in 0..N
    BY <1>0, <1>8
  <2> HIDE DEF T
  <2>2. Closed(T, 0, N)
    BY <2>1, <1>10 DEF Closed
  <2> QED BY <2>1, <2>2, <1>0, Everyone
<1>12. ASSUME law = "trait", Nothing(m), \A n \in 1..N : Lowering(terms[n])
       PROVE  N \in Z
  <2>1. 0 \in Z /\ N \in 0..N
    BY <1>0, <1>8, <1>12
  <2>2. ASSUME NEW n \in 0..(N - 1), n \in Z PROVE n + 1 \in Z
    <3>1. n + 1 \in 0..N /\ n + 1 \in 1..N
      BY <1>0
    <3>2. Applicable(terms[n + 1]) /\ Lowering(terms[n + 1]) /\ chosen[n] \in Measures
            /\ Nothing(chosen[n])
      BY <3>1, <1>0, <1>12, <2>2
    <3>3. /\ Pull(chosen[n], terms[n + 1], law, signature) \in Measures
          /\ Nothing(Pull(chosen[n], terms[n + 1], law, signature))
      BY <3>2, <1>12, PullIs
    <3> QED BY <3>1, <3>3, <1>9
  <2> HIDE DEF Z
  <2>3. Closed(Z, 0, N)
    BY <2>1, <2>2 DEF Closed
  <2> QED BY <2>1, <2>3, <1>0, Everyone
<1>13. chosen[N] \in Measures
  BY <1>11
<1>14. ASSUME law = "trait", Nothing(m), \A n \in 1..N : Lowering(terms[n])
       PROVE  Nothing(chosen[N])
  <2>1. N \in Z
    BY <1>12, <1>14
  <2> QED BY <2>1
<1> QED BY <1>1, <1>13, <1>14 DEF N

\* Every endpoint a probe finds is a packet, and has no traits its intent does not add.
LEMMA EndpointIs ==
  ASSUME NEW p, IsPacket(p), NEW intent \in Intents, NEW signature
  PROVE  /\ IsPacket(Endpoint(p, intent, signature))
         /\ RewriteActive(Endpoint(p, intent, signature))
            /\ ~RewriteActive(p) => NeedsRewrite(p, intent)
<1> DEFINE terms == Terms(intent)
           wm == Wished(p.material, terms, "material", signature)
           wt == Wished(p.trait, terms, "trait", signature)
           to == Endpoint(p, intent, signature)
<1>0. intent \subseteq Interactions /\ IsFiniteSet(intent)
  BY LoomAssumption DEF LoomAssumption
<1>1. Len(terms) \in Nat /\ \A n \in 1..Len(terms) : \E i \in intent : terms[n] = Term(intent, i)
  BY <1>0, TermsAre
<1>2. p.material \in Measures /\ p.trait \in Measures
  BY PacketIs
<1>3. to = [material |-> RestoreTotal(wm), trait |-> CapTotal(wt)]
  BY DEF Endpoint
<1> HIDE DEF terms
<1>4. \A n \in 1..Len(terms) : Applicable(terms[n])
  BY <1>0, <1>1, TermIs
<1>5. wm \in Measures /\ wt \in Measures
  BY <1>1, <1>2, <1>4, WishedIs
<1> HIDE DEF to
<1>6. IsPacket(to)
  <2> HIDE DEF wm, wt
  <2>1. RestoreTotal(wm) \in Measures /\ Total(RestoreTotal(wm)) = MaterialTotal
    BY <1>5, RestoreTotalIs
  <2>2. CapTotal(wt) \in Measures /\ Total(CapTotal(wt)) <= TraitCapacity
    BY <1>5, CapTotalIs
  <2> QED BY <2>1, <2>2, <1>3 DEF IsPacket
<1>7. ASSUME RewriteActive(to), ~RewriteActive(p) PROVE NeedsRewrite(p, intent)
  <2> SUFFICES ASSUME ~(\E i \in intent : LawOf(i.subject) = "trait" /\ i.weight > 0 /\ Delta(intent, i) > 0)
               PROVE  FALSE
    BY <1>7 DEF NeedsRewrite
  <2>1. Nothing(p.trait)
    BY <1>7 DEF RewriteActive, Nothing
  <2>2. \A n \in 1..Len(terms) : Lowering(terms[n])
    BY <1>0, <1>1, TermIs
  <2>3. Nothing(wt)
    BY <2>1, <2>2, <1>1, <1>2, <1>4, WishedIs
  <2> HIDE DEF wt, wm
  <2>4. CapTotal(wt) = wt
    BY <2>3, <1>5, CapTotalIs DEF Nothing
  <2> QED BY <2>3, <2>4, <1>3, <1>7 DEF RewriteActive, Nothing
<1> QED BY <1>6, <1>7 DEF to

-----------------------------------------------------------------------------
(* The host                                                                  *)

\* What is known of a route that starts at p.
Exact(p, route) ==
  LET to == route.endpoint
  IN  /\ IsPacket(to) /\ route.length \in Nat
      /\ route.length =
           PrimalCost(Gain(p.material, to.material), MaterialTotal, FALSE)
             + PrimalCost(Gain(p.trait, to.trait), TraitCapacity, TRUE)
             + (IF RewriteActive(to) /\ ~RewriteActive(p) THEN RewriteLength ELSE 0)
      /\ to = p => route.length = 0

LEMMA ModesAreExact ==
  ASSUME NEW p, IsPacket(p), NEW intent \in Intents, NEW route \in Modes(p, intent)
  PROVE  Exact(p, route)
<1>1. PICK signature \in Signatures : route = Solve(p, intent, Endpoint(p, intent, signature))
  BY DEF Modes
<1> DEFINE to == Endpoint(p, intent, signature)
           toll == IF RewriteActive(to) /\ ~RewriteActive(p) THEN RewriteLength ELSE 0
           cost == TransportCost(p, to)
<1>2. IsPacket(to) /\ (RewriteActive(to) /\ ~RewriteActive(p) => NeedsRewrite(p, intent))
  BY EndpointIs
<1> HIDE DEF to
<1>3. NeedsRewrite(p, intent) => ~RewriteActive(p)
  BY DEF NeedsRewrite
<1>4. route.endpoint = to /\ route.length = cost + toll
  BY <1>1, <1>2, <1>3 DEF Solve, to
<1>5. /\ cost = PrimalCost(Gain(p.material, to.material), MaterialTotal, FALSE)
                  + PrimalCost(Gain(p.trait, to.trait), TraitCapacity, TRUE)
      /\ cost \in Nat
      /\ p.material = to.material /\ p.trait = to.trait => cost = 0
  BY <1>2, TransportCostIs
<1>6. toll \in Nat /\ (to = p => toll = 0)
  BY ConstantsAre
<1> HIDE DEF cost, toll
<1>7. route.length \in Nat /\ (to = p => route.length = 0)
  <2>1. to = p => cost = 0
    BY <1>5
  <2>2. cost \in Nat /\ toll \in Nat /\ route.length = cost + toll
    BY <1>4, <1>5, <1>6
  <2> QED BY <2>1, <2>2, <1>6
<1>8. route.length = PrimalCost(Gain(p.material, to.material), MaterialTotal, FALSE)
                  + PrimalCost(Gain(p.trait, to.trait), TraitCapacity, TRUE) + toll
  BY <1>4, <1>5
<1> QED BY <1>2, <1>4, <1>7, <1>8 DEF Exact, toll

LEMMA ProbeResolves ==
  ASSUME NEW p, IsPacket(p)
  PROVE  \A intent \in Intents : Complete(p, intent)
BY EndpointIs DEF Complete

\* The host holds a packet, knows the shortest way to where its route leads, and has
\* kept what it has not spent.
Inv ==
  /\ IsPacket(packet)
  /\ selected # None => Exact(packet, selected)
  /\ credit \in 0..MaxCredit /\ travelled \in Nat /\ spent \in Nat
  /\ travelled = spent + credit

LEMMA InvInit == Init => Inv
<1> SUFFICES ASSUME Init PROVE Inv
  OBVIOUS
<1>1. MaxCredit \in Nat /\ \A p \in Start : IsPacket(p)
  BY LoomAssumption DEF LoomAssumption
<1> QED BY <1>1 DEF Init, Inv

LEMMA InvPlan == ASSUME Inv, NEW intent \in Intents, Plan(intent) PROVE Inv'
<1>1. /\ selected' \in Modes(packet, intent) \cup {None}
      /\ packet' = packet /\ credit' = credit /\ travelled' = travelled /\ spent' = spent
  BY DEF Plan
<1>2. IsPacket(packet)
  BY DEF Inv
<1>3. selected' # None => Exact(packet, selected')
  BY <1>1, <1>2, ModesAreExact
<1>4. selected' # None => Exact(packet', selected')
  BY <1>1, <1>3
<1>5. IsPacket(packet')
  BY <1>1, <1>2
<1> QED BY <1>1, <1>4, <1>5 DEF Inv

LEMMA InvUpdate == ASSUME Inv, NEW d \in Distances, Update(d) PROVE Inv'
<1> DEFINE host == AfterTravel(Host, d)
           total == credit + d
<1>0. /\ d \in Nat /\ credit \in Nat /\ credit <= MaxCredit /\ MaxCredit \in Nat
      /\ travelled \in Nat /\ spent \in Nat /\ travelled = spent + credit
  <2>1. d \in Nat /\ MaxCredit \in Nat
    BY LoomAssumption DEF LoomAssumption
  <2> QED BY <2>1 DEF Inv
<1>1. /\ total <= MaxCredit
      /\ packet' = host.packet /\ selected' = host.selected /\ credit' = host.credit
      /\ spent' = IF host.packet = packet THEN spent ELSE spent + selected.length
      /\ travelled' = travelled + d
  BY DEF Update
<1>2. Host = [packet |-> packet, selected |-> selected, credit |-> credit]
  BY DEF Host
<1>3. CASE selected # None /\ total >= selected.length
  <2>1. host = [packet |-> selected.endpoint, credit |-> total - selected.length,
                selected |-> IF selected.endpoint = packet THEN selected ELSE None]
    BY <1>2, <1>3 DEF AfterTravel, Commit
  <2>2. /\ Exact(packet, selected) /\ IsPacket(selected.endpoint) /\ selected.length \in Nat
        /\ (selected.endpoint = packet => selected.length = 0)
    BY <1>3 DEF Inv, Exact
  <2>3. /\ packet' = selected.endpoint /\ credit' = total - selected.length
        /\ selected' = (IF selected.endpoint = packet THEN selected ELSE None)
        /\ spent' = IF selected.endpoint = packet THEN spent ELSE spent + selected.length
    BY <1>1, <2>1
  <2>4. credit' \in 0..MaxCredit /\ travelled' \in Nat /\ spent' \in Nat
          /\ travelled' = spent' + credit'
    <3> DEFINE length == selected.length
    <3>1. length \in Nat /\ total >= length /\ credit' = total - length
          /\ (spent' = spent + length \/ (spent' = spent /\ length = 0))
      BY <2>2, <2>3, <1>3
    <3> HIDE DEF length
    <3> QED BY <3>1, <1>0, <1>1
  <2>5. selected' # None => Exact(packet', selected')
    BY <2>2, <2>3
  <2>6. IsPacket(packet')
    BY <2>2, <2>3
  <2> QED BY <2>4, <2>5, <2>6 DEF Inv
<1>4. CASE ~(selected # None /\ total >= selected.length)
  <2>1. host = [packet |-> packet, selected |-> selected, credit |-> total]
    BY <1>2, <1>4 DEF AfterTravel
  <2>2. packet' = packet /\ selected' = selected /\ credit' = total /\ spent' = spent
    BY <1>1, <2>1
  <2>3. credit' \in 0..MaxCredit /\ travelled' \in Nat /\ spent' \in Nat
          /\ travelled' = spent' + credit'
    <3>1. total \in Nat /\ total = credit + d /\ total <= MaxCredit /\ travelled' = travelled + d
      BY <1>0, <1>1
    <3>2. credit' = total /\ spent' = spent
      BY <2>2
    <3> HIDE DEF total
    <3> QED BY <3>1, <3>2, <1>0
  <2>4. IsPacket(packet') /\ (selected' # None => Exact(packet', selected'))
    BY <2>2 DEF Inv
  <2> QED BY <2>3, <2>4 DEF Inv
<1> QED BY <1>3, <1>4

LEMMA InvNext == Inv /\ [Next]_vars => Inv'
<1> SUFFICES ASSUME Inv, [Next]_vars PROVE Inv'
  OBVIOUS
<1>1. CASE \E intent \in Intents : Plan(intent)
  BY <1>1, InvPlan
<1>2. CASE \E d \in Distances : Update(d)
  BY <1>2, InvUpdate
<1>3. CASE UNCHANGED vars
  <2>1. /\ packet' = packet /\ selected' = selected /\ credit' = credit
        /\ travelled' = travelled /\ spent' = spent
    BY <1>3 DEF vars
  <2> QED BY <2>1 DEF Inv
<1> QED BY <1>1, <1>2, <1>3 DEF Next

LEMMA Invariant == Spec => []Inv
BY InvInit, InvNext, PTL DEF Spec

\* Types: whatever is planned and travelled, the host holds a packet of its
\* inventory, and no length is negative.
THEOREM Typed == Spec => []TypeOK
<1>1. Inv => TypeOK
  BY DEF Inv, TypeOK, Exact
<1> QED BY <1>1, Invariant, PTL

\* Every probe resolves, and the selected route starts where the host is and has the
\* least length a route to its endpoint can have: the dual program of the solver
\* attains the cheapest transport, of the material and of the traits.
THEOREM RoutesAreExact == Spec => []RouteIsExact
<1>1. Inv => RouteIsExact
  BY ProbeResolves DEF Inv, Exact, RouteIsExact
<1> QED BY <1>1, Invariant, PTL

\* What was travelled is what the committed routes took and the credit left.
THEOREM EveryLengthIsAccounted == Spec => []TravelIsAccounted
<1>1. Inv => TravelIsAccounted
  BY DEF Inv, TravelIsAccounted
<1> QED BY <1>1, Invariant, PTL

\* Two segments in turn bring a host as far as both in one.
LEMMA TravelledTwice ==
  ASSUME NEW p, NEW s, NEW c \in Nat, NEW d \in Nat, NEW e \in Nat,
         s # None => s.length \in Nat /\ (s.endpoint = p => s.length = 0),
         NEW host, host = [packet |-> p, selected |-> s, credit |-> c]
  PROVE  AfterTravel(AfterTravel(host, d), e) = AfterTravel(host, d + e)
<1> DEFINE mid == AfterTravel(host, d)
<1>0. c + d \in Nat /\ (c + d) + e = c + (d + e) /\ c + (d + e) \in Nat
  OBVIOUS
<1>1. CASE ~(s # None /\ c + d >= s.length)
  <2>1. mid = [packet |-> p, selected |-> s, credit |-> c + d]
    BY <1>1 DEF AfterTravel
  <2> HIDE DEF mid
  <2>2. CASE s # None /\ (c + d) + e >= s.length
    <3>1. AfterTravel(mid, e) = Commit(mid, (c + d) + e)
      BY <2>1, <2>2 DEF AfterTravel
    <3>2. AfterTravel(host, d + e) = Commit(host, c + (d + e))
      BY <2>2, <1>0 DEF AfterTravel
    <3> QED BY <3>1, <3>2, <2>1, <1>0 DEF Commit, mid
  <2>3. CASE ~(s # None /\ (c + d) + e >= s.length)
    <3>1. AfterTravel(mid, e) = [packet |-> p, selected |-> s, credit |-> (c + d) + e]
      BY <2>1, <2>3 DEF AfterTravel
    <3>2. AfterTravel(host, d + e) = [packet |-> p, selected |-> s, credit |-> c + (d + e)]
      BY <2>3, <1>0 DEF AfterTravel
    <3> QED BY <3>1, <3>2, <1>0 DEF mid
  <2> QED BY <2>2, <2>3
<1>2. CASE s # None /\ c + d >= s.length
  <2> DEFINE length == s.length
  <2>0. length \in Nat /\ (s.endpoint = p => length = 0) /\ c + d >= length /\ c + (d + e) >= length
        /\ ((c + d) - length) + e = (c + (d + e)) - length
    <3>1. length \in Nat /\ c + d >= length /\ (s.endpoint = p => length = 0)
      BY <1>2
    <3> HIDE DEF length
    <3> QED BY <3>1
  <2>1. mid = [packet |-> s.endpoint, credit |-> (c + d) - length,
               selected |-> IF s.endpoint = p THEN s ELSE None]
    BY <1>2 DEF AfterTravel, Commit
  <2>2. AfterTravel(host, d + e) = [packet |-> s.endpoint, credit |-> (c + (d + e)) - length,
               selected |-> IF s.endpoint = p THEN s ELSE None]
    BY <1>2, <2>0 DEF AfterTravel, Commit
  <2> HIDE DEF mid
  <2>3. CASE s.endpoint = p
    <3>1. mid = [packet |-> p, selected |-> s, credit |-> c + d] /\ length = 0
      BY <2>0, <2>1, <2>3
    <3>2. AfterTravel(mid, e) = Commit(mid, (c + d) + e)
      BY <3>1, <1>2, <1>0 DEF AfterTravel
    <3>3. Commit(mid, (c + d) + e) = [packet |-> s.endpoint, credit |-> ((c + d) + e) - length,
                                            selected |-> s]
      BY <3>1, <2>3 DEF Commit
    <3> QED BY <3>1, <3>2, <3>3, <2>2, <2>3, <1>0 DEF mid
  <2>4. CASE s.endpoint # p
    <3>1. mid = [packet |-> s.endpoint, credit |-> (c + d) - length, selected |-> None]
      BY <2>1, <2>4
    <3>2. AfterTravel(mid, e) = [packet |-> s.endpoint, credit |-> ((c + d) - length) + e,
                                        selected |-> None]
      BY <3>1 DEF AfterTravel
    <3> QED BY <3>2, <2>0, <2>2, <2>4 DEF mid
  <2> QED BY <2>3, <2>4
<1> QED BY <1>1, <1>2

\* However a distance is cut into segments, the host ends up the same, wherever it is.
THEOREM CadenceDoesNotMatter == Spec => []CadenceIsIrrelevant
<1>1. Inv => CadenceIsIrrelevant
  <2> SUFFICES ASSUME Inv, NEW d \in Distances, NEW e \in Distances
               PROVE  AfterTravel(AfterTravel(Host, d), e) = AfterTravel(Host, d + e)
    BY DEF CadenceIsIrrelevant
  <2>1. d \in Nat /\ e \in Nat /\ credit \in Nat
    <3>1. Distances \subseteq Nat
      BY LoomAssumption DEF LoomAssumption
    <3> QED BY <3>1 DEF Inv
  <2>2. selected # None => selected.length \in Nat
          /\ (selected.endpoint = packet => selected.length = 0)
    BY DEF Inv, Exact
  <2>3. Host = [packet |-> packet, selected |-> selected, credit |-> credit]
    BY DEF Host
  <2> QED BY <2>1, <2>2, <2>3, TravelledTwice
<1> QED BY <1>1, Invariant, PTL
=============================================================================
