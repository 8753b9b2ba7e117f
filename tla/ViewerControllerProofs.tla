------------------------ MODULE ViewerControllerProofs ------------------------
(***************************************************************************)
(* Theorems about ViewerController, for any places, regions, commands and   *)
(* bounds.                                                                  *)
(***************************************************************************)
EXTENDS ViewerController, FiniteSetTheorems, SequenceTheorems, WellFoundedInduction, TLAPS

-----------------------------------------------------------------------------
(* Replaying a queue.  A step is given as a function g here, which a lemma    *)
(* can speak of for every step at once; the steps of the model follow.       *)

\* A set of numbers has a least one.
LEMMA LeastExists ==
  ASSUME NEW S \in SUBSET Nat, S # {}
  PROVE  \E n \in S : \A m \in S : n <= m
<1> DEFINE T == {1..m : m \in S}
<1>1. T \subseteq FiniteSubsetsOf(Nat) /\ T # {}
  <2>1. \A m \in S : 1..m \in FiniteSubsetsOf(Nat)
    BY FS_Interval DEF FiniteSubsetsOf
  <2> QED BY <2>1
<1>2. PICK u \in T : \A v \in T : ~(<<v, u>> \in StrictSubsetOrdering(Nat))
  BY <1>1, FS_StrictSubsetOrderingWellFounded, WFMin
<1>3. PICK n \in S : u = 1..n
  BY <1>2
<1>4. ASSUME NEW m \in S, m < n
      PROVE  FALSE
  <2>1. 1..m \subseteq 1..n
    BY <1>4
  <2>2. n \in 1..n /\ n \notin 1..m
    BY <1>4
  <2>3. <<1..m, u>> \in StrictSubsetOrdering(Nat)
    BY <2>1, <2>2, <1>3 DEF StrictSubsetOrdering
  <2> QED BY <2>3, <1>2
<1> QED BY <1>4

\* f holds the states that g goes through from start, with the entries of q.
IsRun(f, g, start, q) ==
  f = [i \in 0..Len(q) |-> IF i = 0 THEN start ELSE g[<<f[i - 1], q[i]>>]]
Outcome(g, start, q) == (CHOOSE f : IsRun(f, g, start, q))[Len(q)]

\* The same, step by step.
Steps(f, g, start, q) ==
  f[0] = start /\ \A i \in 1..Len(q) : f[i] = g[<<f[i - 1], q[i]>>]
Alike(f, h, n) == \A i \in 0..n : f[i] = h[i]
GoOnAlike(f, h, n) ==
  f[0] = h[0] /\ \A i \in 1..n : f[i - 1] = h[i - 1] => f[i] = h[i]

LEMMA RunSteps ==
  ASSUME NEW f, NEW g, NEW start, NEW q, Len(q) \in Nat, IsRun(f, g, start, q)
  PROVE  Steps(f, g, start, q)
<1> DEFINE e(i) == IF i = 0 THEN start ELSE g[<<f[i - 1], q[i]>>]
<1>1. f = [i \in 0..Len(q) |-> e(i)]
  BY DEF IsRun
<1> HIDE DEF e
<1>2. \A i \in 0..Len(q) : f[i] = e(i)
  BY <1>1
<1>3. 0 \in 0..Len(q) /\ \A i \in 1..Len(q) : i \in 0..Len(q) /\ i # 0
  OBVIOUS
<1> QED BY <1>2, <1>3 DEF e, Steps

\* Two runs that start alike and go on alike are alike.
LEMMA RunsAgree ==
  ASSUME NEW n \in Nat, NEW f, NEW h, GoOnAlike(f, h, n)
  PROVE  Alike(f, h, n)
<1> USE DEF Alike, GoOnAlike
<1> DEFINE S == {i \in 0..n : f[i] # h[i]}
<1> SUFFICES ASSUME S # {} PROVE FALSE
  OBVIOUS
<1>0. S \in SUBSET Nat
  OBVIOUS
<1>1. PICK k \in S : \A m \in S : k <= m
  <2> HIDE DEF S
  <2> QED BY <1>0, LeastExists
<1>2. k \in 1..n /\ k - 1 \in 0..n /\ k - 1 \notin S
  BY <1>1
<1> QED BY <1>1, <1>2

LEMMA RunExists ==
  ASSUME NEW S, NEW E, NEW g \in [S \X E -> S], NEW start \in S, NEW q \in Seq(E)
  PROVE  \E f \in [0..Len(q) -> S] : IsRun(f, g, start, q)
<1> DEFINE Upto(n, f) == /\ f \in [0..n -> S] /\ f[0] = start
                         /\ \A i \in 1..n : f[i] = g[<<f[i - 1], q[i]>>]
           Bad == {n \in 0..Len(q) : ~\E f : Upto(n, f)}
<1>1. Bad = {}
  <2> SUFFICES ASSUME Bad # {} PROVE FALSE
    OBVIOUS
  <2>0. Bad \in SUBSET Nat
    OBVIOUS
  <2>1. PICK n \in Bad : \A m \in Bad : n <= m
    <3> HIDE DEF Bad
    <3> QED BY <2>0, LeastExists
  <2>2. n # 0
    <3>1. Upto(0, [i \in 0..0 |-> start])
      OBVIOUS
    <3> HIDE DEF Upto
    <3> QED BY <3>1, <2>1
  <2>3. n - 1 \in 0..Len(q) /\ n - 1 \notin Bad
    <3>1. n \in 0..Len(q) /\ Len(q) \in Nat
      BY <2>1
    <3> HIDE DEF Bad
    <3> QED BY <2>1, <2>2, <3>1
  <2>4. PICK f : Upto(n - 1, f)
    BY <2>3
  <2> DEFINE h == [i \in 0..n |-> IF i = n THEN g[<<f[n - 1], q[n]>>] ELSE f[i]]
  <2>5. g[<<f[n - 1], q[n]>>] \in S
    BY <2>1, <2>2, <2>4
  <2>6. h \in [0..n -> S] /\ h[0] = start
    BY <2>1, <2>2, <2>4, <2>5
  <2>7. \A i \in 1..n : h[i] = g[<<h[i - 1], q[i]>>]
    <3> TAKE i \in 1..n
    <3>1. i - 1 \in 0..n /\ i - 1 # n /\ i \in 0..n
      BY <2>1
    <3>2. h[i - 1] = f[i - 1]
      BY <3>1
    <3>3. CASE i = n
      BY <3>1, <3>2, <3>3
    <3>4. CASE i # n
      <4>1. i \in 1..(n - 1)
        BY <3>4, <2>1
      <4> QED BY <4>1, <3>1, <3>2, <3>4, <2>4
    <3> QED BY <3>3, <3>4
  <2>8. Upto(n, h)
    BY <2>6, <2>7
  <2> HIDE DEF Upto, h
  <2> QED BY <2>8, <2>1
<1>2. PICK f : Upto(Len(q), f)
  <2>1. Len(q) \in 0..Len(q)
    BY LenProperties
  <2> HIDE DEF Upto
  <2> QED BY <1>1, <2>1
<1>3. IsRun(f, g, start, q)
  BY <1>2 DEF IsRun
<1> QED BY <1>2, <1>3

\* The outcome is where any run ends.
LEMMA OutcomeOfRun ==
  ASSUME NEW g, NEW start, NEW q, Len(q) \in Nat, NEW f, IsRun(f, g, start, q)
  PROVE  Outcome(g, start, q) = f[Len(q)]
<1> DEFINE h == CHOOSE h : IsRun(h, g, start, q)
<1>1. IsRun(h, g, start, q)
  OBVIOUS
<1> HIDE DEF h
<1>2. Steps(f, g, start, q) /\ Steps(h, g, start, q)
  BY <1>1, RunSteps
<1>3. GoOnAlike(f, h, Len(q))
  BY <1>2 DEF Steps, GoOnAlike
<1>4. Alike(f, h, Len(q))
  BY <1>3, RunsAgree
<1> QED BY <1>4 DEF Outcome, h, Alike

LEMMA OutcomeOfNothing == \A g, start : Outcome(g, start, <<>>) = start
<1> TAKE g, start
<1>1. IsRun([i \in 0..0 |-> start], g, start, <<>>)
  BY DEF IsRun
<1> QED BY <1>1, OutcomeOfRun

\* g takes a state of S and an entry of E to a state of S.
IsStep(g, S, E) == g \in [S \X E -> S]

\* One entry more at the end of the queue is one step more.
LEMMA OutcomeOfAppend ==
  ASSUME NEW S, NEW E, NEW g, IsStep(g, S, E), NEW start \in S, NEW q \in Seq(E), NEW e \in E
  PROVE  /\ Outcome(g, start, q) \in S
         /\ Outcome(g, start, Append(q, e)) = g[<<Outcome(g, start, q), e>>]
<1>0. g \in [S \X E -> S]
  BY DEF IsStep
<1> DEFINE n == Len(q)
           p == Append(q, e)
<1>1. n \in Nat /\ p \in Seq(E) /\ Len(p) = n + 1 /\ p[n + 1] = e /\ \A i \in 1..n : p[i] = q[i]
  BY AppendProperties, LenProperties
<1>2. PICK f \in [0..n -> S] : IsRun(f, g, start, q)
  BY <1>0, RunExists
<1>3. PICK h \in [0..(n + 1) -> S] : IsRun(h, g, start, p)
  BY <1>0, <1>1, RunExists
<1> HIDE DEF n, p
<1>4. Outcome(g, start, q) = f[n] /\ Outcome(g, start, p) = h[n + 1]
  <2>1. Outcome(g, start, q) = f[n]
    BY <1>1, <1>2, OutcomeOfRun DEF n
  <2>2. Outcome(g, start, p) = h[Len(p)]
    BY <1>1, <1>3, OutcomeOfRun
  <2> QED BY <2>1, <2>2, <1>1
<1>5. /\ f[0] = start /\ \A i \in 1..n : f[i] = g[<<f[i - 1], q[i]>>]
      /\ h[0] = start /\ \A i \in 1..(n + 1) : h[i] = g[<<h[i - 1], p[i]>>]
  <2>1. Len(q) \in Nat /\ Len(p) \in Nat
    BY <1>1 DEF n
  <2>2. Steps(f, g, start, q) /\ Steps(h, g, start, p)
    BY <2>1, <1>2, <1>3, RunSteps
  <2> QED BY <2>2, <1>1 DEF Steps, n
<1>6. f[n] = h[n]
  <2>1. GoOnAlike(f, h, n)
    <3> SUFFICES ASSUME NEW i \in 1..n, f[i - 1] = h[i - 1] PROVE f[i] = h[i]
      BY <1>5 DEF GoOnAlike
    <3>1. i \in 1..(n + 1) /\ p[i] = q[i]
      BY <1>1
    <3> QED BY <3>1, <1>5
  <2>2. Alike(f, h, n)
    BY <1>1, <2>1, RunsAgree
  <2> QED BY <2>2, <1>1 DEF Alike
<1>7. h[n + 1] = g[<<h[n], e>>]
  <2>1. n + 1 \in 1..(n + 1) /\ (n + 1) - 1 = n
    BY <1>1
  <2> QED BY <2>1, <1>5, <1>1
<1> QED BY <1>2, <1>4, <1>6, <1>7, <1>1 DEF p

\* The first entry taken first.
LEMMA OutcomeOfTail ==
  ASSUME NEW S, NEW E, NEW g, IsStep(g, S, E), NEW start \in S, NEW q \in Seq(E), q # <<>>
  PROVE  Outcome(g, start, q) = Outcome(g, g[<<start, Head(q)>>], Tail(q))
<1>0. g \in [S \X E -> S]
  BY DEF IsStep
<1> DEFINE n == Len(q)
           t == Tail(q)
           next == g[<<start, Head(q)>>]
<1>1. /\ n \in Nat /\ n >= 1 /\ t \in Seq(E) /\ Len(t) = n - 1 /\ Head(q) = q[1] /\ q[1] \in E
      /\ \A i \in 1..(n - 1) : t[i] = q[i + 1]
  BY HeadTailProperties, LenProperties, EmptySeq
<1>2. next \in S
  BY <1>0, <1>1
<1>3. PICK f \in [0..n -> S] : IsRun(f, g, start, q)
  BY <1>0, RunExists
<1>4. PICK h \in [0..(n - 1) -> S] : IsRun(h, g, next, t)
  BY <1>0, <1>1, <1>2, RunExists
<1> HIDE DEF n, t, next
<1>5. Outcome(g, start, q) = f[n] /\ Outcome(g, next, t) = h[n - 1]
  <2>1. Outcome(g, start, q) = f[n]
    BY <1>1, <1>3, OutcomeOfRun DEF n
  <2>2. Outcome(g, next, t) = h[Len(t)] /\ Len(t) = n - 1
    <3>1. Len(t) = n - 1 /\ Len(t) \in Nat
      BY <1>1
    <3> QED BY <3>1, <1>4, OutcomeOfRun
  <2> QED BY <2>1, <2>2
<1> DEFINE k == [i \in 0..(n - 1) |-> f[i + 1]]
<1>6. /\ f[0] = start /\ \A i \in 1..n : f[i] = g[<<f[i - 1], q[i]>>]
      /\ h[0] = next /\ \A i \in 1..(n - 1) : h[i] = g[<<h[i - 1], t[i]>>]
  <2>1. Len(q) = n /\ Len(q) \in Nat /\ Len(t) = n - 1 /\ Len(t) \in Nat
    BY <1>1 DEF n
  <2>2. Steps(f, g, start, q) /\ Steps(h, g, next, t)
    BY <2>1, <1>3, <1>4, RunSteps
  <2> QED BY <2>1, <2>2 DEF Steps
<1>7. k[0] = h[0]
  <2>1. 0 \in 0..(n - 1) /\ 1 \in 1..n /\ 0 + 1 = 1 /\ 1 - 1 = 0
    BY <1>1
  <2>2. k[0] = f[1] /\ f[1] = g[<<f[0], q[1]>>]
    BY <2>1, <1>6
  <2> QED BY <2>2, <1>6, <1>1 DEF next
<1>8. GoOnAlike(k, h, n - 1)
  <2> SUFFICES ASSUME NEW i \in 1..(n - 1), k[i - 1] = h[i - 1] PROVE k[i] = h[i]
    BY <1>7 DEF GoOnAlike
  <2>1. /\ i + 1 \in 1..n /\ i - 1 \in 0..(n - 1) /\ i \in 0..(n - 1)
        /\ (i + 1) - 1 = i /\ (i - 1) + 1 = i
    BY <1>1
  <2>2. f[i + 1] = g[<<f[i], q[i + 1]>>]
    BY <2>1, <1>6
  <2>3. k[i] = f[i + 1] /\ k[i - 1] = f[i] /\ t[i] = q[i + 1]
    BY <2>1, <1>1
  <2> QED BY <2>2, <2>3, <1>6
<1>9. k[n - 1] = h[n - 1]
  <2>1. n - 1 \in Nat /\ n - 1 \in 0..(n - 1)
    BY <1>1
  <2> HIDE DEF k
  <2>2. Alike(k, h, n - 1)
    BY <2>1, <1>8, RunsAgree
  <2> QED BY <2>1, <2>2 DEF Alike
<1>10. k[n - 1] = f[n]
  <2>1. n - 1 \in 0..(n - 1) /\ (n - 1) + 1 = n
    BY <1>1
  <2> QED BY <2>1
<1> QED BY <1>9, <1>10, <1>5 DEF next, t

-----------------------------------------------------------------------------
(* Types.  What an expedition has recorded are numbers here; that they are    *)
(* places the traveler went to is RouteWasTravelled.  The camera's place is   *)
(* one because it is the traveler's, which the guard of an update checks.     *)

Expeditions == [nodes : Seq(Int), last : Int \cup {None}, accumulated : Nat, walked : SUBSET Places]
Routes == [nodes : Seq(Int), walked : SUBSET Places]
Sessions == [player : Places, tracking : BOOLEAN, recorder : Expeditions \cup {None}]
Preserves == SUBSET Regions

Results ==
  [is : {"Availability"}, supported : BOOLEAN]
    \cup [is : {"Completed", "Failed", "RoutesCleared"}]
    \cup [is : {"PreserveCreated", "PreserveRemoved"}, preserve : Preserves]
    \cup [is : {"SessionLoaded"}, session : Sessions, routes : BOOLEAN,
          preserves : SUBSET Preserves]
Inputs == [sequence : Nat, request : Nat, result : Results]

Effects ==
  [id : Nat, do : {"LoadSession", "ConfigurePathTracking", "ClearRoutes"}]
    \cup [id : Nat, do : {"PersistSession"}, session : Sessions]
    \cup [id : Nat, do : {"CreatePreserve", "RemovePreserve"}, preserve : Preserves]
    \cup [id : Nat, do : {"WriteRoute"}, route : Routes]
Owned == Preserves \X Regions
Vaults == [preserves : SUBSET Preserves, routes : SUBSET Routes, session : Sessions \cup {None}]

QueuesTyped == inputs \in Seq(Inputs) /\ effects \in Seq(Effects) /\ actions \in Seq(Commands)
NumbersTyped ==
  /\ nextRequest \in Nat \ {0} /\ lastSequence \in Nat /\ responseSequence \in Nat
  /\ DOMAIN pending \subseteq Nat /\ pending = [id \in DOMAIN pending |-> pending[id]]
WorldTyped ==
  /\ place \in Places /\ CameraIsTraveler
  /\ tracking \in BOOLEAN /\ recorder \in Expeditions \cup {None}
  /\ owners \subseteq Owned /\ vault \in Vaults
ScreenTyped ==
  /\ phase \in {"idle", "tick", "serve"} /\ layout \in Layouts /\ supported \in BOOLEAN
  /\ renderer \in {"up", "down"} /\ lossPending \in BOOLEAN
  /\ lossFrame \in BOOLEAN /\ ready \in BOOLEAN
Typed == QueuesTyped /\ NumbersTyped /\ WorldTyped /\ ScreenTyped

LEMMA InitTyped == Init => Typed
<1> SUFFICES ASSUME Init PROVE Typed
  OBVIOUS
<1>1. QueuesTyped
  BY EmptySeq DEF Init, QueuesTyped
<1>2. NumbersTyped
  BY DEF Init, NumbersTyped
<1>3. WorldTyped
  BY ViewerAssumption DEF Init, WorldTyped, CameraIsTraveler, Vaults, ViewerAssumption
<1>4. ScreenTyped
  BY DEF Init, ScreenTyped, MapLayout, Layouts, Modes, Views
<1> QED BY <1>1, <1>2, <1>3, <1>4 DEF Typed

\* Layouts stay layouts.
LEMMA ReduceType ==
  ASSUME NEW shown \in Layouts, NEW able \in BOOLEAN, NEW c \in Commands
  PROVE  /\ Reduce(shown, able, c) \in Layouts
         /\ ~able /\ shown.mode = "Map" => Reduce(shown, able, c).mode = "Map"
         /\ c.do \in ServiceCommands => Reduce(shown, able, c) = shown
<1>1. c \in LayoutCommands \/ c \in [do : ServiceCommands, to : {"Map"}]
  BY ViewerAssumption DEF ViewerAssumption
<1>2. CASE c \in [do : ServiceCommands, to : {"Map"}]
  BY <1>2 DEF Reduce, ServiceCommands
<1>3. CASE c \in LayoutCommands
  <2>1. c.do \notin ServiceCommands
    BY <1>3 DEF LayoutCommands, ServiceCommands
  <2>2. CASE c.do = "SetPresentation"
    BY <1>3, <2>1, <2>2 DEF Reduce, Present, LayoutCommands, Layouts, Modes, Views
  <2>3. CASE c.do = "FocusView"
    BY <1>3, <2>1, <2>3 DEF Reduce, LayoutCommands, Layouts, Modes, Views
  <2>4. CASE c.do = "TogglePrimaryView"
    BY <1>3, <2>1, <2>4 DEF Reduce, Present, OtherView, Layouts, Modes, Views
  <2> QED BY <1>3, <2>2, <2>3, <2>4 DEF LayoutCommands
<1> QED BY <1>1, <1>2, <1>3

\* Whole parts that are multiplied back.
LEMMA WholeParts ==
  ASSUME NEW x \in Nat, NEW s \in Nat \ {0}
  PROVE  /\ x \div s \in Nat /\ (x \div s) * s <= x /\ x < (x \div s) * s + s
         /\ \A i \in 0..(x \div s) : i * s \in Nat /\ i * s <= x
<1> DEFINE d == x \div s
<1>1. d \in Nat /\ d * s <= x /\ x < d * s + s
  BY Z3
<1> HIDE DEF d
<1>2. ASSUME NEW i \in 0..d PROVE i * s \in Nat /\ i * s <= d * s /\ d * s \in Nat
  BY <1>1, <1>2
<1>3. \A i \in 0..d : i * s \in Nat /\ i * s <= x
  BY <1>1, <1>2
<1> QED BY <1>1, <1>3 DEF d

\* What the recorder is after the update, if one was open: the frame's segment
\* from the last sampled place to p, of `far` steps to `side`, gave the samples.
Far(r, p) == IF p > r.last THEN p - r.last ELSE r.last - p
Side(r, p) == IF p > r.last THEN 1 ELSE -1
Due(r, p) == (r.accumulated + Far(r, p)) \div Spacing
Count(r, p) == IF Due(r, p) < MaxNodes - Len(r.nodes) THEN Due(r, p) ELSE MaxNodes - Len(r.nodes)

LEMMA SamplesAre ==
  ASSUME NEW r \in Expeditions, NEW p \in Places, r.last # None, Len(r.nodes) < MaxNodes
  PROVE  /\ r.last \in Int /\ Far(r, p) \in Nat /\ Due(r, p) \in Nat /\ Count(r, p) \in Nat
         /\ Count(r, p) <= Due(r, p)
         /\ Len(Samples(r, p)) = Count(r, p) /\ Samples(r, p) \in Seq(Int)
         /\ \A i \in 1..Count(r, p) :
              /\ i * Spacing \in Nat /\ i * Spacing <= r.accumulated + Far(r, p)
              /\ Samples(r, p)[i] = r.last + Side(r, p) * (i * Spacing - r.accumulated)
         /\ r.accumulated + Far(r, p) - Count(r, p) * Spacing \in Nat
<1> USE DEF Expeditions
<1>1. /\ r.last \in Int /\ p \in Int /\ r.accumulated \in Nat /\ MaxNodes \in Nat
      /\ Spacing \in Nat \ {0} /\ Len(r.nodes) \in Nat
  BY ViewerAssumption, LenProperties DEF ViewerAssumption
<1>2. Far(r, p) \in Nat /\ Side(r, p) \in Int
  BY <1>1 DEF Far, Side
<1>3. Due(r, p) \in Nat /\ \A i \in 0..Due(r, p) :
        i * Spacing \in Nat /\ i * Spacing <= r.accumulated + Far(r, p)
  <2>1. r.accumulated + Far(r, p) \in Nat
    BY <1>1, <1>2
  <2> QED BY <2>1, <1>1, WholeParts DEF Due
<1>4. Count(r, p) \in 0..Due(r, p)
  BY <1>1, <1>3 DEF Count
<1> DEFINE sample(i) == r.last + Side(r, p) * (i * Spacing - r.accumulated)
<1>5. Samples(r, p) = [i \in 1..Count(r, p) |-> sample(i)]
  BY DEF Samples, Far, Side, Due, Count
<1>6. \A i \in 1..Count(r, p) : sample(i) \in Int
  <2> TAKE i \in 1..Count(r, p)
  <2>1. i * Spacing \in Int
    BY <1>3, <1>4
  <2> QED BY <2>1, <1>1, <1>2
<1> HIDE DEF sample
<1>7. Samples(r, p) \in Seq(Int) /\ Len(Samples(r, p)) = Count(r, p)
      /\ \A i \in 1..Count(r, p) : Samples(r, p)[i] = sample(i)
  BY <1>4, <1>5, <1>6
<1>8. r.accumulated + Far(r, p) - Count(r, p) * Spacing \in Nat
  BY <1>1, <1>2, <1>3, <1>4
<1> QED BY <1>1, <1>2, <1>3, <1>4, <1>7, <1>8 DEF sample

LEMMA ObservedTyped ==
  ASSUME NEW p \in Places, recorder \in Expeditions \cup {None}, NEW after \in Observed(p)
  PROVE  after \in Expeditions \cup {None}
<1>1. CASE recorder = None
  BY <1>1 DEF Observed
<1>2. CASE recorder # None
  <2> DEFINE r == [recorder EXCEPT !.walked = @ \cup {p}]
  <2>1. r \in Expeditions /\ p \in Int /\ None \notin Places
    BY <1>2, ViewerAssumption DEF ViewerAssumption, Expeditions
  <2>2. after \in IF Len(r.nodes) >= MaxNodes THEN {r}
                  ELSE IF r.last = None
                  THEN {r, [r EXCEPT !.nodes = Append(@, p), !.last = p]}
                  ELSE {Observe(r, p, taken) : taken \in 0..Len(Samples(r, p))}
    BY <1>2 DEF Observed
  <2> HIDE DEF r
  <2>3. CASE after = r
    BY <2>1, <2>3
  <2>4. CASE after = [r EXCEPT !.nodes = Append(@, p), !.last = p]
    <3>1. Append(r.nodes, p) \in Seq(Int)
      BY <2>1, AppendProperties DEF Expeditions
    <3> QED BY <2>1, <2>4, <3>1 DEF Expeditions
  <2>5. ASSUME ~(Len(r.nodes) >= MaxNodes), r.last # None,
               NEW taken \in 0..Len(Samples(r, p)), after = Observe(r, p, taken)
        PROVE  after \in Expeditions
    <3>0. Len(r.nodes) \in Nat /\ MaxNodes \in Nat
      BY <2>1, ViewerAssumption, LenProperties DEF ViewerAssumption, Expeditions
    <3>1. Len(r.nodes) < MaxNodes
      BY <3>0, <2>5
    <3> DEFINE s == Samples(r, p)
               nodes == r.nodes \o SubSeq(s, 1, taken)
               left == r.accumulated + Far(r, p) - taken * Spacing
    <3>2. s \in Seq(Int) /\ Len(s) = Count(r, p) /\ Count(r, p) \in Nat
          /\ r.accumulated + Far(r, p) - Count(r, p) * Spacing \in Nat
      BY <2>1, <2>5, <3>1, SamplesAre
    <3>3. SubSeq(s, 1, taken) \in Seq(Int)
      BY <3>2, <2>5, SubSeqProperties
    <3>4. nodes \in Seq(Int)
      BY <3>3, <2>1, ConcatProperties DEF Expeditions
    <3>5. after = IF taken < Len(s)
                  THEN IF taken = 0 THEN r
                       ELSE [r EXCEPT !.nodes = nodes, !.last = s[taken], !.accumulated = 0]
                  ELSE [r EXCEPT !.nodes = nodes, !.last = p, !.accumulated = left]
      BY <2>5 DEF Observe, Far, Expeditions
    <3> HIDE DEF s, nodes
    <3>6. CASE taken < Len(s) /\ taken = 0
      BY <3>5, <3>6, <2>1
    <3>7. CASE taken < Len(s) /\ taken # 0
      <4>1. s[taken] \in Int
        BY <3>2, <3>7, <2>5 DEF s
      <4> QED BY <4>1, <3>5, <3>7, <2>1, <3>4 DEF Expeditions
    <3>8. CASE ~(taken < Len(s))
      <4>1. taken = Count(r, p)
        BY <3>8, <3>2, <2>5 DEF s
      <4>2. left \in Nat
        BY <4>1, <3>2
      <4> HIDE DEF left
      <4> QED BY <3>5, <3>8, <2>1, <3>4, <4>2 DEF Expeditions
    <3> QED BY <3>6, <3>7, <3>8
  <2> QED BY <2>2, <2>3, <2>4, <2>5
<1> QED BY <1>1, <1>2

-----------------------------------------------------------------------------
(* How the queue of inputs grows: by one notice, or by one answer.            *)

Notice(number, on) ==
  [sequence |-> number, request |-> 0,
   result |-> [is |-> "Availability", supported |-> on]]

LEMMA AnnounceNothing ==
  ASSUME QueuesTyped, NumbersTyped, Announce(<<>>)
  PROVE  inputs' = inputs /\ responseSequence' = responseSequence
<1>1. [i \in DOMAIN <<>> |->
         [sequence |-> responseSequence + i, request |-> 0,
          result |-> [is |-> "Availability", supported |-> <<>>[i]]]] = <<>>
  OBVIOUS
<1>2. inputs \in Seq(Inputs) /\ responseSequence \in Nat
  BY DEF QueuesTyped, NumbersTyped
<1>3. inputs \o <<>> = inputs
  BY <1>2, ConcatEmptySeq
<1> QED BY <1>1, <1>2, <1>3 DEF Announce

LEMMA AnnounceOne ==
  ASSUME QueuesTyped, NumbersTyped, NEW on \in BOOLEAN, Announce(<<on>>)
  PROVE  /\ inputs' = Append(inputs, Notice(responseSequence + 1, on))
         /\ responseSequence' = responseSequence + 1
         /\ Notice(responseSequence + 1, on) \in Inputs
<1> DEFINE n == Notice(responseSequence + 1, on)
           added == [i \in DOMAIN <<on>> |->
         [sequence |-> responseSequence + i, request |-> 0,
          result |-> [is |-> "Availability", supported |-> <<on>>[i]]]]
<1>1. responseSequence \in Nat /\ inputs \in Seq(Inputs)
  BY DEF QueuesTyped, NumbersTyped
<1>2. n \in Inputs
  BY <1>1 DEF Notice, Inputs, Results
<1>3. added = <<n>>
  <2>1. DOMAIN <<on>> = 1..1 /\ <<on>>[1] = on
    OBVIOUS
  <2>2. added = [i \in 1..1 |-> n]
    BY <2>1 DEF Notice
  <2> HIDE DEF n, added
  <2> QED BY <2>2
<1>4. inputs' = inputs \o added /\ responseSequence' = responseSequence + 1
  BY <1>1 DEF Announce
<1>5. inputs \o <<n>> = Append(inputs, n)
  <2> HIDE DEF n
  <2> QED BY <1>1, <1>2, AppendIsConcat
<1> QED BY <1>2, <1>3, <1>4, <1>5

-----------------------------------------------------------------------------
(* Every step keeps the types.                                               *)

\* A request begun: the next number is pending, and carried by the last effect.
LEMMA AskTyped ==
  ASSUME Typed, NEW kind, NEW e \in Effects, Ask(kind, e)
  PROVE  /\ effects' = Append(effects, e) /\ effects' \in Seq(Effects)
         /\ nextRequest' = nextRequest + 1 /\ nextRequest' \in Nat \ {0}
         /\ lastSequence' = lastSequence
         /\ DOMAIN pending' = DOMAIN pending \cup {nextRequest}
         /\ DOMAIN pending' \subseteq Nat /\ pending' = [id \in DOMAIN pending' |-> pending'[id]]
         /\ pending'[nextRequest] = kind
         /\ \A id \in DOMAIN pending : id # nextRequest => pending'[id] = pending[id]
<1>1. effects \in Seq(Effects) /\ nextRequest \in Nat \ {0} /\ DOMAIN pending \subseteq Nat
  BY DEF Typed, QueuesTyped, NumbersTyped
<1>2. effects' = Append(effects, e) /\ effects' \in Seq(Effects)
  BY <1>1, AppendProperties DEF Ask
<1> DEFINE k(id) == IF id = nextRequest THEN kind ELSE pending[id]
<1>3. pending' = [id \in DOMAIN pending \cup {nextRequest} |-> k(id)]
  BY DEF Ask
<1>4. nextRequest' = nextRequest + 1 /\ lastSequence' = lastSequence
  BY DEF Ask
<1> HIDE DEF k
<1>5. /\ DOMAIN pending' = DOMAIN pending \cup {nextRequest}
      /\ pending' = [id \in DOMAIN pending' |-> pending'[id]]
      /\ \A id \in DOMAIN pending \cup {nextRequest} : pending'[id] = k(id)
  BY <1>3
<1>6. DOMAIN pending' \subseteq Nat /\ nextRequest' \in Nat \ {0}
  BY <1>1, <1>4, <1>5
<1> QED BY <1>2, <1>4, <1>5, <1>6 DEF k

LEMMA HeadAndTail ==
  ASSUME NEW S, NEW q \in Seq(S), q # <<>>
  PROVE  Head(q) \in S /\ Tail(q) \in Seq(S)
BY HeadTailProperties

\* An answer given.
LEMMA RespondTyped ==
  ASSUME Typed, effects # <<>>, NEW result \in Results, Respond(result)
  PROVE  /\ Head(effects) \in Effects /\ Answer(Head(effects).id, result) \in Inputs
         /\ QueuesTyped' /\ NumbersTyped' /\ ScreenTyped'
         /\ vault' \in Vaults => Typed'
<1>1. Head(effects) \in Effects /\ Tail(effects) \in Seq(Effects)
  BY HeadAndTail DEF Typed, QueuesTyped
<1>2. Head(effects).id \in Nat
  BY <1>1 DEF Effects
<1>3. Answer(Head(effects).id, result) \in Inputs
  BY <1>2 DEF Typed, NumbersTyped, Answer, Inputs
<1>4. inputs' \in Seq(Inputs) /\ effects' \in Seq(Effects)
  BY <1>1, <1>3, AppendProperties DEF Typed, QueuesTyped, Respond
<1>5. UNCHANGED <<phase, actions, requests, screen, body, world, device>>
      /\ responseSequence' = responseSequence + 1
  BY DEF Respond
<1>6. QueuesTyped'
  BY <1>4, <1>5 DEF Typed, QueuesTyped
<1>7. NumbersTyped'
  BY <1>5 DEF Typed, NumbersTyped, requests
<1>8. ScreenTyped'
  BY <1>5 DEF Typed, ScreenTyped, screen, device
<1>9. ASSUME vault' \in Vaults PROVE WorldTyped'
  BY <1>5, <1>9 DEF Typed, WorldTyped, CameraIsTraveler, body, world
<1> QED BY <1>1, <1>3, <1>6, <1>7, <1>8, <1>9 DEF Typed

LEMMA ServeTyped ==
  ASSUME Typed, Serve
  PROVE  Typed'
<1>0. vault \in Vaults /\ tracking \in BOOLEAN /\ effects \in Seq(Effects)
  BY DEF Typed, WorldTyped, QueuesTyped
<1>1. effects # <<>>
  BY DEF Serve, ServePersist, ServeLoad, ServeCreate, ServeRemove, ServeRoute,
         ServeClear, ServeTracking, Serving
<1>2. Head(effects) \in Effects
  BY <1>0, <1>1, HeadAndTail
<1>3. [is |-> "Completed"] \in Results /\ [is |-> "Failed"] \in Results
      /\ [is |-> "RoutesCleared"] \in Results
  BY DEF Results
<1>4. /\ Succeed([is |-> "Completed"]) => Respond([is |-> "Completed"])
      /\ Succeed([is |-> "Failed"]) => Respond([is |-> "Failed"])
      /\ Fail => Respond([is |-> "Failed"])
  BY DEF Succeed, Fail
<1>5. CASE ServePersist
  <2>1. Head(effects).session \in Sessions
    BY <1>2, <1>5 DEF ServePersist, Serving, Effects
  <2>2. vault' \in Vaults
    BY <1>0, <1>5, <2>1 DEF ServePersist, Vaults
  <2>3. Respond([is |-> "Completed"]) \/ Respond([is |-> "Failed"])
    BY <1>5, <1>4 DEF ServePersist
  <2> QED BY <1>1, <1>3, <2>2, <2>3, RespondTyped
<1>6. CASE ServeLoad
  <2>1. vault' \in Vaults
    BY <1>0, <1>6 DEF ServeLoad
  <2>2. CASE vault.session = None
    BY <1>1, <1>3, <1>4, <1>6, <2>1, <2>2, RespondTyped DEF ServeLoad
  <2>3. CASE vault.session # None
    <3> DEFINE result == [is |-> "SessionLoaded", session |-> vault.session,
                   routes |-> vault.session.tracking = tracking, preserves |-> vault.preserves]
    <3>1. vault.session \in Sessions /\ vault.preserves \in SUBSET Preserves
      BY <1>0, <2>3 DEF Vaults
    <3>2. (vault.session.tracking = tracking) \in BOOLEAN
      OBVIOUS
    <3>3. result \in Results
      BY <3>1, <3>2 DEF Results
    <3>4. Respond(result)
      BY <1>6, <2>3 DEF ServeLoad, Succeed
    <3> HIDE DEF result
    <3> QED BY <1>1, <2>1, <3>3, <3>4, RespondTyped
  <2> QED BY <2>2, <2>3
<1>7. CASE ServeCreate \/ ServeRemove
  <2> DEFINE p == Head(effects).preserve
  <2>1. p \in Preserves
    BY <1>2, <1>7 DEF ServeCreate, ServeRemove, Serving, Effects
  <2>2. vault' \in Vaults
    <3>1. vault' \in {vault, [vault EXCEPT !.preserves = @ \cup {p}],
                      [vault EXCEPT !.preserves = @ \ {p}]}
      BY <1>7 DEF ServeCreate, ServeRemove
    <3> QED BY <1>0, <2>1, <3>1 DEF Vaults
  <2>3. [is |-> "PreserveCreated", preserve |-> p] \in Results
        /\ [is |-> "PreserveRemoved", preserve |-> p] \in Results
    BY <2>1 DEF Results
  <2>4. \/ Respond([is |-> "Failed"])
        \/ Respond([is |-> "PreserveCreated", preserve |-> p])
        \/ Respond([is |-> "PreserveRemoved", preserve |-> p])
    BY <1>4, <1>7 DEF ServeCreate, ServeRemove, Succeed
  <2> QED BY <1>1, <1>3, <2>2, <2>3, <2>4, RespondTyped
<1>8. CASE ServeRoute
  <2>1. Head(effects).route \in Routes
    BY <1>2, <1>8 DEF ServeRoute, Serving, Effects
  <2>2. vault' \in Vaults
    BY <1>0, <1>8, <2>1 DEF ServeRoute, Vaults
  <2>3. Respond([is |-> "Completed"]) \/ Respond([is |-> "Failed"])
    BY <1>8, <1>4 DEF ServeRoute
  <2> QED BY <1>1, <1>3, <2>2, <2>3, RespondTyped
<1>9. CASE ServeClear
  <2>1. vault' \in Vaults
    BY <1>0, <1>9 DEF ServeClear, Vaults
  <2>2. Respond([is |-> "RoutesCleared"])
    BY <1>9 DEF ServeClear
  <2> QED BY <1>1, <1>3, <2>1, <2>2, RespondTyped
<1>10. CASE ServeTracking
  <2>1. vault' \in Vaults /\ Respond([is |-> "Completed"])
    BY <1>0, <1>4, <1>10 DEF ServeTracking
  <2> QED BY <1>1, <1>3, <2>1, RespondTyped
<1> QED BY <1>5, <1>6, <1>7, <1>8, <1>9, <1>10 DEF Serve

\* An action taken from the queue.
LEMMA ActTyped ==
  ASSUME Typed, NEW do, Act(do)
  PROVE  /\ actions # <<>> /\ Head(actions) \in Commands /\ Head(actions).do = do
         /\ actions' = Tail(actions) /\ actions' \in Seq(Commands)
         /\ inputs = <<>> /\ phase = "tick"
         /\ UNCHANGED <<phase, inputs, supported, place, camera, vault, renderer, lossPending,
                        lossFrame, ready, responseSequence>>
<1>1. actions # <<>> /\ actions \in Seq(Commands)
  BY DEF Act, Typed, QueuesTyped
<1>2. Head(actions) \in Commands /\ Tail(actions) \in Seq(Commands)
  BY <1>1, HeadAndTail
<1> QED BY <1>1, <1>2 DEF Act, body, device

LEMMA AskStepTyped ==
  ASSUME Typed, NEW do, Act(do), UNCHANGED layout, NEW kind, NEW e \in Effects, Ask(kind, e),
         tracking' \in BOOLEAN, recorder' \in Expeditions \cup {None}, owners' = owners
  PROVE  Typed'
<1>1. actions' \in Seq(Commands) /\ inputs' = inputs
      /\ UNCHANGED <<phase, inputs, supported, place, camera, vault, renderer, lossPending,
                        lossFrame, ready, responseSequence>>
  BY ActTyped
<1>2. QueuesTyped'
  BY <1>1, AskTyped DEF Typed, QueuesTyped
<1>3. NumbersTyped'
  BY <1>1, AskTyped DEF Typed, NumbersTyped
<1>4. ScreenTyped'
  BY <1>1 DEF Typed, ScreenTyped
<1>5. WorldTyped'
  BY <1>1 DEF Typed, WorldTyped, CameraIsTraveler
<1> QED BY <1>2, <1>3, <1>4, <1>5 DEF Typed

\* An action that asks for nothing.
LEMMA QuietStepTyped ==
  ASSUME Typed, NEW do, Act(do), layout' \in Layouts, UNCHANGED <<effects, requests>>,
         UNCHANGED <<tracking, owners>>, recorder' \in Expeditions \cup {None}
  PROVE  Typed'
<1>1. actions' \in Seq(Commands) /\ inputs' = inputs
      /\ UNCHANGED <<phase, inputs, supported, place, camera, vault, renderer, lossPending,
                        lossFrame, ready, responseSequence>>
  BY ActTyped
<1>2. QueuesTyped'
  BY <1>1 DEF Typed, QueuesTyped
<1>3. NumbersTyped'
  BY <1>1 DEF Typed, NumbersTyped, requests
<1>4. ScreenTyped'
  BY <1>1 DEF Typed, ScreenTyped
<1>5. WorldTyped'
  BY <1>1 DEF Typed, WorldTyped, CameraIsTraveler
<1> QED BY <1>2, <1>3, <1>4, <1>5 DEF Typed

LEMMA NewRecorderTyped == NewRecorder \in Expeditions
BY EmptySeq DEF NewRecorder, Expeditions

\* What an action of the queue may ask for.
Asked(kind) ==
  CASE kind = "SaveSession" ->
         {[id |-> nextRequest, do |-> "PersistSession", session |-> s] : s \in Sessions}
    [] kind = "MutatePreserve" ->
         {[id |-> nextRequest, do |-> d, preserve |-> p] :
            d \in {"CreatePreserve", "RemovePreserve"}, p \in Preserves}
    [] kind = "WriteRoute" ->
         {[id |-> nextRequest, do |-> "WriteRoute", route |-> r] : r \in Routes}
    [] kind \in {"LoadSession", "ConfigurePathTracking", "ClearRoutes"} ->
         {[id |-> nextRequest, do |-> kind]}
    [] OTHER -> {}

LEMMA AskedTyped ==
  ASSUME NumbersTyped, NEW kind, NEW e \in Asked(kind)
  PROVE  e \in Effects /\ e.id = nextRequest
<1>1. nextRequest \in Nat
  BY DEF NumbersTyped
<1>2. CASE kind = "SaveSession"
  BY <1>1, <1>2 DEF Asked, Effects
<1>3. CASE kind = "MutatePreserve"
  BY <1>1, <1>3 DEF Asked, Effects
<1>4. CASE kind = "WriteRoute"
  BY <1>1, <1>4 DEF Asked, Effects
<1>5. CASE kind \in {"LoadSession", "ConfigurePathTracking", "ClearRoutes"}
  BY <1>1, <1>5 DEF Asked, Effects
<1>6. CASE kind \notin {"SaveSession", "MutatePreserve", "WriteRoute", "LoadSession",
                        "ConfigurePathTracking", "ClearRoutes"}
  BY <1>6 DEF Asked
<1> QED BY <1>2, <1>3, <1>4, <1>5, <1>6

\* The service actions: each asks for one effect, or for none.
ServiceAction == \/ SaveSession \/ LoadSession \/ TogglePreserve
                 \/ TogglePathTracking \/ ToggleRouteRecording \/ ClearRoutes

LEMMA ServiceStep ==
  ASSUME Typed, ServiceAction
  PROVE  /\ \E do \in ServiceCommands : Act(do)
         /\ layout' = layout /\ owners' = owners
         /\ tracking' \in BOOLEAN /\ recorder' \in Expeditions \cup {None}
         /\ \/ \E kind : \E e \in Asked(kind) : Ask(kind, e)
            \/ UNCHANGED <<effects, requests, tracking>>
         /\ Typed'
<1> USE DEF ServiceCommands
<1>0. /\ place \in Places /\ tracking \in BOOLEAN /\ recorder \in Expeditions \cup {None}
      /\ owners \subseteq Owned
  BY DEF Typed, WorldTyped
<1>1. ASSUME NEW do \in ServiceCommands, Act(do), layout' = layout, owners' = owners,
             tracking' \in BOOLEAN, recorder' \in Expeditions \cup {None},
             NEW kind, NEW e \in Asked(kind), Ask(kind, e)
      PROVE  Typed'
  <2>1. e \in Effects
    BY <1>1, AskedTyped DEF Typed
  <2> QED BY <1>1, <2>1, AskStepTyped
<1>2. CASE SaveSession
  <2> DEFINE s == [player |-> place, tracking |-> tracking, recorder |-> recorder]
             e == [id |-> nextRequest, do |-> "PersistSession", session |-> s]
  <2>1. Act("SaveSession") /\ Ask("SaveSession", e) /\ UNCHANGED <<layout, world>>
    BY <1>2 DEF SaveSession
  <2>2. s \in Sessions
    BY <1>0 DEF Sessions
  <2> HIDE DEF s
  <2>3. e \in Asked("SaveSession")
    BY <2>2 DEF Asked
  <2> HIDE DEF e
  <2> QED BY <1>0, <1>1, <2>1, <2>3 DEF world
<1>3. CASE LoadSession
  <2> DEFINE e == [id |-> nextRequest, do |-> "LoadSession"]
  <2>1. Act("LoadSession") /\ Ask("LoadSession", e) /\ UNCHANGED <<layout, world>>
    BY <1>3 DEF LoadSession
  <2>2. e \in Asked("LoadSession")
    BY DEF Asked
  <2> HIDE DEF e
  <2> QED BY <1>0, <1>1, <2>1, <2>2 DEF world
<1>4. CASE TogglePreserve
  <2>1. Act("TogglePreserve") /\ UNCHANGED <<layout, world>>
    BY <1>4 DEF TogglePreserve
  <2>2. CASE UNCHANGED <<effects, requests>>
    <3>1. Typed'
      BY <1>0, <2>1, <2>2, QuietStepTyped DEF world, Typed, ScreenTyped
    <3> QED BY <1>0, <2>1, <2>2, <3>1 DEF world
  <2>3. ASSUME NEW p \in {pair[1] : pair \in {o \in owners : o[2] = RegionOf(place)}},
               Ask("MutatePreserve", [id |-> nextRequest, do |-> "RemovePreserve", preserve |-> p])
        PROVE  \E e \in Asked("MutatePreserve") : Ask("MutatePreserve", e)
    <3>1. p \in Preserves
      BY <1>0, <2>3 DEF Owned
    <3>2. [id |-> nextRequest, do |-> "RemovePreserve", preserve |-> p]
              \in Asked("MutatePreserve")
      BY <3>1 DEF Asked
    <3> QED BY <2>3, <3>2
  <2>4. ASSUME NEW p \in SUBSET (Regions \ Overridden),
               Ask("MutatePreserve", [id |-> nextRequest, do |-> "CreatePreserve", preserve |-> p])
        PROVE  \E e \in Asked("MutatePreserve") : Ask("MutatePreserve", e)
    <3>1. p \in Preserves
      BY <2>4 DEF Preserves
    <3>2. [id |-> nextRequest, do |-> "CreatePreserve", preserve |-> p]
              \in Asked("MutatePreserve")
      BY <3>1 DEF Asked
    <3> QED BY <2>4, <3>2
  <2>5. CASE \E e \in Asked("MutatePreserve") : Ask("MutatePreserve", e)
    BY <1>0, <1>1, <2>1, <2>5 DEF world
  <2>6. \/ \E p \in {pair[1] : pair \in {o \in owners : o[2] = RegionOf(place)}} :
             Ask("MutatePreserve", [id |-> nextRequest, do |-> "RemovePreserve", preserve |-> p])
        \/ \E p \in SUBSET (Regions \ Overridden) :
             Ask("MutatePreserve", [id |-> nextRequest, do |-> "CreatePreserve", preserve |-> p])
        \/ UNCHANGED <<effects, requests>>
    BY <1>4 DEF TogglePreserve
  <2> QED BY <2>2, <2>3, <2>4, <2>5, <2>6
<1>5. CASE TogglePathTracking
  <2> DEFINE e == [id |-> nextRequest, do |-> "ConfigurePathTracking"]
  <2>1. Act("TogglePathTracking") /\ Ask("ConfigurePathTracking", e)
        /\ UNCHANGED <<layout, owners>> /\ tracking' = ~tracking
        /\ recorder' = RecorderWithTracking(~tracking)
    BY <1>5 DEF TogglePathTracking
  <2>2. e \in Asked("ConfigurePathTracking")
    BY DEF Asked
  <2>3. tracking' \in BOOLEAN /\ recorder' \in Expeditions \cup {None}
    BY <1>0, <2>1 DEF RecorderWithTracking
  <2> HIDE DEF e
  <2> QED BY <1>1, <2>1, <2>2, <2>3
<1>6. CASE ToggleRouteRecording
  <2>1. Act("ToggleRouteRecording") /\ UNCHANGED <<layout, tracking, owners>>
        /\ recorder' \in {NewRecorder, None, recorder}
    BY <1>6 DEF ToggleRouteRecording
  <2>2. recorder' \in Expeditions \cup {None}
    BY <1>0, <2>1, NewRecorderTyped
  <2>3. CASE UNCHANGED <<effects, requests>>
    <3>1. Typed'
      BY <2>1, <2>2, <2>3, QuietStepTyped DEF Typed, ScreenTyped
    <3> QED BY <1>0, <2>1, <2>2, <2>3, <3>1
  <2>4. CASE recorder # None /\ Ask("WriteRoute", [id |-> nextRequest, do |-> "WriteRoute",
                route |-> [nodes |-> recorder.nodes, walked |-> recorder.walked]])
    <3> DEFINE route == [nodes |-> recorder.nodes, walked |-> recorder.walked]
               e == [id |-> nextRequest, do |-> "WriteRoute", route |-> route]
    <3>1. route \in Routes
      BY <1>0, <2>4 DEF Routes, Expeditions
    <3>2. Ask("WriteRoute", e)
      BY <2>4
    <3> HIDE DEF route
    <3>3. e \in Asked("WriteRoute")
      BY <3>1 DEF Asked
    <3> HIDE DEF e
    <3> QED BY <1>0, <1>1, <2>1, <2>2, <3>2, <3>3
  <2> QED BY <1>6, <2>3, <2>4 DEF ToggleRouteRecording
<1>7. CASE ClearRoutes
  <2> DEFINE e == [id |-> nextRequest, do |-> "ClearRoutes"]
  <2>1. Act("ClearRoutes") /\ Ask("ClearRoutes", e)
        /\ UNCHANGED <<layout, tracking, owners>> /\ recorder' = None
    BY <1>7 DEF ClearRoutes
  <2>2. e \in Asked("ClearRoutes")
    BY DEF Asked
  <2> HIDE DEF e
  <2> QED BY <1>0, <1>1, <2>1, <2>2
<1> QED BY <1>2, <1>3, <1>4, <1>5, <1>6, <1>7 DEF ServiceAction

LEMMA ContributionsTyped ==
  ASSUME NEW preserves \in SUBSET Preserves
  PROVE  Contributions(preserves) \subseteq Owned
<1> SUFFICES ASSUME NEW p \in preserves, NEW pair \in {p} \X p PROVE pair \in Owned
  BY DEF Contributions
<1>1. p \in Preserves /\ p \subseteq Regions
  BY DEF Preserves
<1> QED BY <1>1 DEF Owned

\* One input drained: it was the first, and nothing but the controller changes.
LEMMA DrainStep ==
  ASSUME Typed, Drain
  PROVE  /\ inputs # <<>> /\ Head(inputs) \in Inputs
         /\ inputs' = Tail(inputs) /\ inputs' \in Seq(Inputs)
         /\ phase = "tick" /\ nextRequest' = nextRequest
         /\ UNCHANGED <<phase, actions, effects, vault, renderer, lossPending, lossFrame, ready,
                        responseSequence>>
<1>1. inputs \in Seq(Inputs) /\ inputs # <<>> /\ inputs' = Tail(inputs)
  BY DEF Typed, QueuesTyped, Drain
<1>2. Head(inputs) \in Inputs /\ Tail(inputs) \in Seq(Inputs)
  BY <1>1, HeadAndTail
<1>3. nextRequest' = nextRequest
  BY DEF Drain, requests
<1> QED BY <1>1, <1>2, <1>3 DEF Drain, device

LEMMA ApplyTyped ==
  ASSUME WorldTyped, NEW result \in Results, Apply(result), vault' = vault
  PROVE  WorldTyped'
<1>1. CASE result.is = "SessionLoaded"
  <2>1. /\ result.session \in Sessions /\ result.routes \in BOOLEAN
        /\ result.preserves \in SUBSET Preserves
    BY <1>1 DEF Results
  <2>2. /\ place' = result.session.player
        /\ camera' = RestoredCamera(result.session.player)
        /\ tracking' = RestoredTracking(result)
        /\ recorder' = RestoredRecorder(result)
        /\ owners' = RestoredOwners(result)
    BY <1>1 DEF Apply
  <2>3. result.session.player \in Places /\ result.session.tracking \in BOOLEAN
        /\ result.session.recorder \in Expeditions \cup {None}
    BY <2>1 DEF Sessions
  <2>4. owners' \subseteq Owned
    BY <2>1, <2>2, ContributionsTyped DEF RestoredOwners
  <2>5. camera' \in {None, place'} /\ tracking' \in BOOLEAN
        /\ recorder' \in Expeditions \cup {None}
    BY <2>1, <2>2, <2>3
    DEF RestoredCamera, RestoredTracking, RestoredRecorder, WorldTyped, CameraIsTraveler
  <2> QED BY <2>2, <2>3, <2>4, <2>5 DEF WorldTyped, CameraIsTraveler
<1>2. CASE result.is \in {"PreserveCreated", "PreserveRemoved"}
  <2>1. {result.preserve} \in SUBSET Preserves
    BY <1>2 DEF Results
  <2>2. Contributions({result.preserve}) \subseteq Owned
    BY <2>1, ContributionsTyped
  <2>3. UNCHANGED <<body, tracking, recorder>>
        /\ owners' \in {owners \cup Contributions({result.preserve}),
                        owners \ Contributions({result.preserve})}
    BY <1>2 DEF Apply
  <2> QED BY <2>2, <2>3 DEF WorldTyped, CameraIsTraveler, body
<1>3. CASE result.is \notin {"SessionLoaded", "PreserveCreated", "PreserveRemoved"}
  <2>1. UNCHANGED <<body, world>>
    BY <1>3 DEF Apply
  <2> QED BY <2>1 DEF WorldTyped, CameraIsTraveler, body, world
<1> QED BY <1>1, <1>2, <1>3

LEMMA DrainTyped ==
  ASSUME Typed, Drain
  PROVE  Typed'
<1> DEFINE in == Head(inputs)
<1>1. /\ in \in Inputs /\ in.sequence \in Nat /\ in.result \in Results
  BY DrainStep DEF Inputs
<1>2. QueuesTyped'
  BY DrainStep DEF Typed, QueuesTyped
<1>3. NumbersTyped'
  <2>1. lastSequence' \in {lastSequence, in.sequence}
    BY DEF Drain, requests
  <2>2. pending' \in {pending, [id \in DOMAIN pending \ {in.request} |-> pending[id]]}
    BY DEF Drain, requests
  <2>3. DOMAIN pending' \subseteq Nat /\ pending' = [id \in DOMAIN pending' |-> pending'[id]]
    BY <2>2 DEF Typed, NumbersTyped
  <2> QED BY <1>1, <2>1, <2>3, DrainStep DEF Typed, NumbersTyped
<1>4. ScreenTyped'
  <2>1. layout' \in {layout, MapLayout}
    BY DEF Drain, screen, DegradedLayout
  <2>2. MapLayout \in Layouts
    BY DEF MapLayout, Layouts, Modes, Views
  <2>3. supported' \in BOOLEAN
    <3>1. \/ supported' = supported
          \/ in.result.is = "Availability" /\ supported' = in.result.supported
      BY DEF Drain, screen
    <3> QED BY <1>1, <3>1 DEF Typed, ScreenTyped, Results
  <2> QED BY <2>1, <2>2, <2>3, DrainStep DEF Typed, ScreenTyped
<1>5. WorldTyped'
  <2>1. UNCHANGED <<body, world>> \/ Apply(in.result)
    BY DEF Drain
  <2>2. vault' = vault
    BY DrainStep
  <2>3. CASE UNCHANGED <<body, world>>
    BY <2>2, <2>3 DEF Typed, WorldTyped, CameraIsTraveler, body, world
  <2> QED BY <1>1, <2>1, <2>2, <2>3, ApplyTyped DEF Typed
<1> QED BY <1>2, <1>3, <1>4, <1>5 DEF Typed

\* What a frame's beginning and its update announce.
LEMMA FrameNotices ==
  ASSUME ScreenTyped, NEW rebuilt \in BOOLEAN
  PROVE  /\ LossNotices(rebuilt) = IF lossPending THEN <<FALSE>> ELSE <<>>
         /\ RecoveryNotices = IF ready THEN <<TRUE>> ELSE <<>>
BY DEF LossNotices, RecoveryNotices

LEMMA AnnounceTyped ==
  ASSUME QueuesTyped, NumbersTyped, NEW on \in BOOLEAN, NEW some \in BOOLEAN,
         Announce(IF some THEN <<on>> ELSE <<>>)
  PROVE  /\ inputs' \in Seq(Inputs) /\ responseSequence' \in Nat
         /\ ~some => inputs' = inputs /\ responseSequence' = responseSequence
         /\ some => /\ inputs' = Append(inputs, Notice(responseSequence + 1, on))
                    /\ responseSequence' = responseSequence + 1
                    /\ Notice(responseSequence + 1, on) \in Inputs
<1>1. inputs \in Seq(Inputs) /\ responseSequence \in Nat
  BY DEF QueuesTyped, NumbersTyped
<1>2. CASE some
  <2>1. Announce(<<on>>)
    BY <1>2
  <2>2. /\ inputs' = Append(inputs, Notice(responseSequence + 1, on))
        /\ responseSequence' = responseSequence + 1
        /\ Notice(responseSequence + 1, on) \in Inputs
    BY <2>1, AnnounceOne
  <2> HIDE DEF Notice
  <2> QED BY <1>1, <1>2, <2>2, AppendProperties
<1>3. CASE ~some
  BY <1>1, <1>3, AnnounceNothing
<1> QED BY <1>2, <1>3

LEMMA BeginFrameTyped ==
  ASSUME Typed, NEW rebuilt \in BOOLEAN, BeginFrame(rebuilt)
  PROVE  /\ Typed'
         /\ ~lossPending => inputs' = inputs /\ responseSequence' = responseSequence
         /\ lossPending => /\ inputs' = Append(inputs, Notice(responseSequence + 1, FALSE))
                           /\ responseSequence' = responseSequence + 1
                           /\ Notice(responseSequence + 1, FALSE) \in Inputs
<1> USE DEF Typed
<1>1. Announce(IF lossPending THEN <<FALSE>> ELSE <<>>) /\ lossPending \in BOOLEAN
  BY FrameNotices DEF BeginFrame, ScreenTyped
<1>2. /\ inputs' \in Seq(Inputs) /\ responseSequence' \in Nat
      /\ ~lossPending => inputs' = inputs /\ responseSequence' = responseSequence
      /\ lossPending => /\ inputs' = Append(inputs, Notice(responseSequence + 1, FALSE))
                        /\ responseSequence' = responseSequence + 1
                        /\ Notice(responseSequence + 1, FALSE) \in Inputs
  BY <1>1, AnnounceTyped
<1>3. UNCHANGED <<actions, effects, requests, screen, body, world, vault>>
  BY DEF BeginFrame
<1>4. QueuesTyped'
  BY <1>2, <1>3 DEF QueuesTyped
<1>5. NumbersTyped'
  BY <1>2, <1>3 DEF NumbersTyped, requests
<1>6. WorldTyped'
  BY <1>3 DEF WorldTyped, CameraIsTraveler, body, world
<1>7. ScreenTyped'
  <2>1. phase' = "tick" /\ lossPending' = FALSE /\ lossFrame' = lossPending
        /\ renderer' \in {"up", "down", renderer}
    BY DEF BeginFrame
  <2>2. ready' \in BOOLEAN
    BY DEF BeginFrame, ScreenTyped
  <2> QED BY <1>3, <2>1, <2>2 DEF ScreenTyped, screen
<1> QED BY <1>2, <1>4, <1>5, <1>6, <1>7

LEMMA UpdateTyped ==
  ASSUME Typed, NEW step \in {-1, 0, 1}, Update(step)
  PROVE  /\ Typed'
         /\ ~ready => inputs' = inputs /\ responseSequence' = responseSequence
         /\ ready => /\ inputs' = Append(inputs, Notice(responseSequence + 1, TRUE))
                     /\ responseSequence' = responseSequence + 1
                     /\ Notice(responseSequence + 1, TRUE) \in Inputs
<1> USE DEF Typed
<1>1. Announce(IF ready THEN <<TRUE>> ELSE <<>>) /\ ready \in BOOLEAN
  BY FrameNotices DEF Update, ScreenTyped
<1>2. /\ inputs' \in Seq(Inputs) /\ responseSequence' \in Nat
      /\ ~ready => inputs' = inputs /\ responseSequence' = responseSequence
      /\ ready => /\ inputs' = Append(inputs, Notice(responseSequence + 1, TRUE))
                  /\ responseSequence' = responseSequence + 1
                  /\ Notice(responseSequence + 1, TRUE) \in Inputs
  BY <1>1, AnnounceTyped
<1>3. UNCHANGED <<actions, effects, requests, screen, tracking, owners, vault,
                  renderer, lossPending, lossFrame>>
      /\ phase' = "serve" /\ ready' = FALSE
  BY DEF Update
<1>4. QueuesTyped'
  BY <1>2, <1>3 DEF QueuesTyped
<1>5. NumbersTyped'
  BY <1>2, <1>3 DEF NumbersTyped, requests
<1>6. ScreenTyped'
  BY <1>3 DEF ScreenTyped, screen
<1>7. place' \in Places /\ recorder' \in Expeditions \cup {None}
  <2>1. place' \in Places /\ recorder' \in Observed(place') /\ recorder \in Expeditions \cup {None}
    BY DEF Update, WorldTyped
  <2> QED BY <2>1, ObservedTyped
<1>8. camera' \in {None, place'}
  <2>1. None \notin Places /\ place \in Places /\ camera \in {None, place}
    BY ViewerAssumption DEF ViewerAssumption, WorldTyped, CameraIsTraveler
  <2>2. Move(step) /\ place' \in Places
    BY DEF Update
  <2>3. EnteredCamera \in {None, place}
    BY <2>1 DEF EnteredCamera
  <2> QED BY <2>1, <2>2, <2>3 DEF Move
<1>9. WorldTyped'
  BY <1>3, <1>7, <1>8 DEF WorldTyped, CameraIsTraveler
<1> QED BY <1>2, <1>4, <1>5, <1>6, <1>9

\* Steps that leave all the invariants speak of alone but the actions' queue, the
\* phase and the pending loss; none but stuttering in a tick.
Quietly == /\ UNCHANGED <<inputs, effects, requests, screen, body, world, vault,
                          renderer, lossFrame, ready, responseSequence>>
           /\ phase' \in {phase, "idle"}
           /\ phase = "tick" => actions' = actions

LEMMA StepCases ==
  ASSUME Typed, [Next]_vars
  PROVE  \/ Quietly \/ \E rebuilt \in BOOLEAN : BeginFrame(rebuilt)
         \/ Drain \/ ReduceLayout \/ ServiceAction \/ Serve
         \/ \E step \in {-1, 0, 1} : Update(step)
<1>1. CASE \E c \in Commands : EnqueueAction(c)
  BY <1>1 DEF EnqueueAction, Quietly, device
<1>2. CASE LoseDevice
  BY <1>2 DEF LoseDevice, Quietly, queues
<1>3. CASE EndFrame
  BY <1>3 DEF EndFrame, Quietly, queues, device
<1>4. CASE UNCHANGED vars
  BY <1>4 DEF vars, Quietly, queues, device
<1>5. CASE Tick
  BY <1>5 DEF Tick, ServiceAction
<1> QED BY <1>1, <1>2, <1>3, <1>4, <1>5 DEF Next, Frame

LEMMA ReduceLayoutTyped ==
  ASSUME Typed, ReduceLayout
  PROVE  Typed' /\ UNCHANGED <<inputs, effects, requests, world, supported, body, vault,
                               renderer, ready, responseSequence>>
<1>1. PICK do : Act(do)
  BY DEF ReduceLayout
<1>2. Head(actions) \in Commands /\ UNCHANGED <<inputs, supported, place, camera, vault, renderer,
                                                ready, responseSequence>>
  BY <1>1, ActTyped
<1>3. layout' \in Layouts
  BY <1>2, ReduceType DEF Typed, ScreenTyped, ReduceLayout
<1>4. UNCHANGED <<effects, requests, world>>
  BY DEF ReduceLayout
<1>5. Typed'
  BY <1>1, <1>3, <1>4, QuietStepTyped DEF Typed, WorldTyped, world
<1> QED BY <1>2, <1>4, <1>5 DEF body

LEMMA OtherTyped ==
  ASSUME Typed, \/ \E c \in Commands : EnqueueAction(c)
                \/ LoseDevice \/ EndFrame \/ UNCHANGED vars
  PROVE  Typed'
<1>1. UNCHANGED <<inputs, effects, requests, screen, body, world, vault,
                  renderer, ready, lossFrame, responseSequence>>
  BY DEF EnqueueAction, LoseDevice, EndFrame, vars, queues, device
<1>2. actions' \in Seq(Commands)
  <2>1. actions \in Seq(Commands)
    BY DEF Typed, QueuesTyped
  <2>2. actions' = actions \/ \E c \in Commands : actions' = Append(actions, c)
    BY DEF EnqueueAction, LoseDevice, EndFrame, vars, queues
  <2> QED BY <2>1, <2>2, AppendProperties
<1>3. phase' \in {phase, "idle"} /\ lossPending' \in {lossPending, TRUE}
  BY DEF EnqueueAction, LoseDevice, EndFrame, vars, queues, device
<1>4. QueuesTyped'
  BY <1>1, <1>2 DEF Typed, QueuesTyped
<1>5. NumbersTyped'
  BY <1>1 DEF Typed, NumbersTyped, requests
<1>6. ScreenTyped'
  BY <1>1, <1>3 DEF Typed, ScreenTyped, screen
<1>7. WorldTyped'
  BY <1>1 DEF Typed, WorldTyped, CameraIsTraveler, body, world
<1> QED BY <1>4, <1>5, <1>6, <1>7 DEF Typed

LEMMA StepTyped ==
  ASSUME Typed, [Next]_vars
  PROVE  Typed'
<1>1. \/ \E c \in Commands : EnqueueAction(c)
      \/ LoseDevice \/ EndFrame \/ UNCHANGED vars
      \/ \E rebuilt \in BOOLEAN : BeginFrame(rebuilt)
      \/ Drain \/ ReduceLayout \/ ServiceAction \/ Serve
      \/ \E step \in {-1, 0, 1} : Update(step)
  BY DEF Next, Frame, Tick, ServiceAction
<1> QED BY <1>1, OtherTyped, BeginFrameTyped, DrainTyped, ReduceLayoutTyped, ServiceStep,
           ServeTyped, UpdateTyped

-----------------------------------------------------------------------------
(* Answers.  What the shell does with an effect, in one formula: the answer  *)
(* fits the request, tells of the preserves what the vault did to its own,   *)
(* and a session or a route only moves between effect, vault and answer.     *)

KindOf(do) ==
  CASE do = "PersistSession" -> "SaveSession"
    [] do \in {"CreatePreserve", "RemovePreserve"} -> "MutatePreserve"
    [] OTHER -> do

Serves(result) ==
  /\ Respond(result) /\ Matches(KindOf(Head(effects).do), result)
  /\ result.is # "Availability"
  /\ Contributions(vault'.preserves)
       = Held(Contributions(vault.preserves), Answer(Head(effects).id, result))
  /\ \/ vault'.session = vault.session
     \/ Head(effects).do = "PersistSession" /\ vault'.session = Head(effects).session
  /\ result.is = "SessionLoaded" =>
       result.session = vault.session /\ result.session # None
  /\ \A route \in vault'.routes :
       \/ route \in vault.routes
       \/ Head(effects).do = "WriteRoute" /\ route = Head(effects).route

LEMMA ContributionsAdded ==
  ASSUME NEW S, NEW p
  PROVE  /\ Contributions(S \cup {p}) = Contributions(S) \cup Contributions({p})
         /\ Contributions(S \ {p}) = Contributions(S) \ Contributions({p})
<1>1. \A T : \A x : x \in Contributions(T) <=> \E q \in T : x \in {q} \X q
  BY DEF Contributions
<1>2. ASSUME NEW x
      PROVE  x \in Contributions(S \cup {p}) <=> x \in Contributions(S) \cup Contributions({p})
  BY <1>1
<1>3. ASSUME NEW x
      PROVE  x \in Contributions(S \ {p}) <=> x \in Contributions(S) \ Contributions({p})
  <2>1. \A q : x \in {q} \X q /\ x \in {p} \X p => q = p
    OBVIOUS
  <2> QED BY <2>1, <1>1
<1> QED BY <1>2, <1>3

LEMMA ServeAnswers ==
  ASSUME Typed, Serve
  PROVE  effects # <<>> /\ \E result \in Results : Serves(result)
<1>0. vault \in Vaults /\ tracking \in BOOLEAN /\ effects \in Seq(Effects)
  BY DEF Typed, WorldTyped, QueuesTyped
<1>1. effects # <<>>
  BY DEF Serve, ServePersist, ServeLoad, ServeCreate, ServeRemove, ServeRoute,
         ServeClear, ServeTracking, Serving
<1>2. Head(effects) \in Effects
  BY <1>0, <1>1, HeadAndTail
<1>3. [is |-> "Completed"] \in Results /\ [is |-> "Failed"] \in Results
      /\ [is |-> "RoutesCleared"] \in Results
  BY DEF Results
<1> DEFINE Out(v, result) == Held(v, Answer(Head(effects).id, result))
<1>4. \A v, result : Out(v, result) =
        CASE result.is = "SessionLoaded" -> Contributions(result.preserves)
          [] result.is = "PreserveCreated" -> v \cup Contributions({result.preserve})
          [] result.is = "PreserveRemoved" -> v \ Contributions({result.preserve})
          [] OTHER -> v
  BY DEF Held, Answer
<1>5. \A v : /\ Out(v, [is |-> "Completed"]) = v /\ Out(v, [is |-> "Failed"]) = v
             /\ Out(v, [is |-> "RoutesCleared"]) = v
  BY <1>4
<1> HIDE DEF Out
<1>6. \A kind : Matches(kind, [is |-> "Failed"])
  BY DEF Matches
<1> USE DEF Serves
<1>7. ASSUME Fail, vault' = vault
      PROVE  Serves([is |-> "Failed"])
  BY <1>5, <1>6, <1>7 DEF Fail, Out
<1>8. CASE ServePersist
  <2>1. Head(effects).do = "PersistSession" /\ Matches("SaveSession", [is |-> "Completed"])
    BY <1>8 DEF ServePersist, Serving, Matches
  <2>2. KindOf(Head(effects).do) = "SaveSession"
    BY <2>1 DEF KindOf
  <2>3. vault' \in {vault, [vault EXCEPT !.session = Head(effects).session]}
    BY <1>8 DEF ServePersist
  <2>4. vault'.preserves = vault.preserves /\ vault'.routes = vault.routes
        /\ vault'.session \in {vault.session, Head(effects).session}
    BY <1>0, <2>3 DEF Vaults
  <2>5. Respond([is |-> "Completed"]) \/ Respond([is |-> "Failed"])
    BY <1>8 DEF ServePersist, Succeed, Fail
  <2>6. CASE Respond([is |-> "Completed"])
    <3>1. Serves([is |-> "Completed"])
      BY <1>5, <2>1, <2>2, <2>4, <2>6 DEF Out
    <3> QED BY <1>1, <1>3, <3>1
  <2>7. CASE Respond([is |-> "Failed"])
    <3>1. Serves([is |-> "Failed"])
      BY <1>5, <1>6, <2>1, <2>4, <2>7 DEF Out
    <3> QED BY <1>1, <1>3, <3>1
  <2> QED BY <2>5, <2>6, <2>7
<1>9. CASE ServeLoad
  <2>1. Head(effects).do = "LoadSession" /\ vault' = vault
    BY <1>9 DEF ServeLoad, Serving
  <2>2. KindOf(Head(effects).do) = "LoadSession"
    BY <2>1 DEF KindOf
  <2>3. CASE vault.session = None
    <3>1. Respond([is |-> "Failed"])
      BY <1>9, <2>3 DEF ServeLoad, Succeed
    <3>2. Serves([is |-> "Failed"])
      BY <1>5, <1>6, <2>1, <3>1 DEF Out
    <3> QED BY <1>1, <1>3, <3>2
  <2>4. CASE vault.session # None
    <3> DEFINE result == [is |-> "SessionLoaded", session |-> vault.session,
                   routes |-> vault.session.tracking = tracking, preserves |-> vault.preserves]
    <3>1. vault.session \in Sessions /\ vault.preserves \in SUBSET Preserves
      BY <1>0, <2>4 DEF Vaults
    <3>2. (vault.session.tracking = tracking) \in BOOLEAN
      OBVIOUS
    <3>3. result \in Results
      BY <3>1, <3>2 DEF Results
    <3>4. Respond(result)
      BY <1>9, <2>4 DEF ServeLoad, Succeed
    <3>5. result.is = "SessionLoaded" /\ result.session = vault.session
          /\ result.preserves = vault.preserves
      OBVIOUS
    <3> HIDE DEF result
    <3>6. Matches("LoadSession", result)
      BY <3>5 DEF Matches
    <3>7. Out(Contributions(vault.preserves), result) = Contributions(vault.preserves)
      BY <1>4, <3>5
    <3>8. Serves(result)
      BY <2>1, <2>2, <2>4, <3>4, <3>5, <3>6, <3>7 DEF Out
    <3> QED BY <1>1, <3>3, <3>8
  <2> QED BY <2>3, <2>4
<1>10. CASE ServeCreate
  <2> DEFINE p == Head(effects).preserve
             result == [is |-> "PreserveCreated", preserve |-> p]
  <2>1. Head(effects).do = "CreatePreserve"
    BY <1>10 DEF ServeCreate, Serving
  <2>2. p \in Preserves
    BY <1>2, <2>1 DEF Effects
  <2>3. result \in Results /\ result.is = "PreserveCreated" /\ result.preserve = p
    BY <2>2 DEF Results
  <2>4. KindOf(Head(effects).do) = "MutatePreserve"
    BY <2>1 DEF KindOf
  <2>5. \/ Respond(result) /\ vault' = [vault EXCEPT !.preserves = @ \cup {p}]
        \/ Fail /\ vault' = vault
    BY <1>10 DEF ServeCreate, Succeed
  <2> HIDE DEF p, result
  <2>6. CASE Respond(result) /\ vault' = [vault EXCEPT !.preserves = @ \cup {p}]
    <3>1. vault'.preserves = vault.preserves \cup {p} /\ vault'.routes = vault.routes
          /\ vault'.session = vault.session
      BY <1>0, <2>6 DEF Vaults
    <3>2. Out(Contributions(vault.preserves), result) = Contributions(vault'.preserves)
      <4>1. Out(Contributions(vault.preserves), result)
              = Contributions(vault.preserves) \cup Contributions({p})
        BY <1>4, <2>3
      <4>2. Contributions(vault.preserves \cup {p})
              = Contributions(vault.preserves) \cup Contributions({p})
        BY ContributionsAdded
      <4> QED BY <4>1, <4>2, <3>1
    <3>3. Matches("MutatePreserve", result)
      BY <2>3 DEF Matches
    <3>4. Serves(result)
      BY <2>3, <2>4, <2>6, <3>1, <3>2, <3>3 DEF Out
    <3> QED BY <1>1, <2>3, <3>4
  <2> QED BY <1>1, <1>3, <1>7, <2>5, <2>6
<1>11. CASE ServeRemove
  <2> DEFINE p == Head(effects).preserve
             result == [is |-> "PreserveRemoved", preserve |-> p]
  <2>1. Head(effects).do = "RemovePreserve"
    BY <1>11 DEF ServeRemove, Serving
  <2>2. p \in Preserves
    BY <1>2, <2>1 DEF Effects
  <2>3. result \in Results /\ result.is = "PreserveRemoved" /\ result.preserve = p
    BY <2>2 DEF Results
  <2>4. KindOf(Head(effects).do) = "MutatePreserve"
    BY <2>1 DEF KindOf
  <2>5. \/ Respond(result) /\ vault' = [vault EXCEPT !.preserves = @ \ {p}]
        \/ Respond([is |-> "Failed"]) /\ vault' = vault
    BY <1>11 DEF ServeRemove, Succeed, Fail
  <2> HIDE DEF p, result
  <2>6. CASE Respond(result) /\ vault' = [vault EXCEPT !.preserves = @ \ {p}]
    <3>1. vault'.preserves = vault.preserves \ {p} /\ vault'.routes = vault.routes
          /\ vault'.session = vault.session
      BY <1>0, <2>6 DEF Vaults
    <3>2. Out(Contributions(vault.preserves), result) = Contributions(vault'.preserves)
      <4>1. Out(Contributions(vault.preserves), result)
              = Contributions(vault.preserves) \ Contributions({p})
        BY <1>4, <2>3
      <4>2. Contributions(vault.preserves \ {p})
              = Contributions(vault.preserves) \ Contributions({p})
        BY ContributionsAdded
      <4> QED BY <4>1, <4>2, <3>1
    <3>3. Matches("MutatePreserve", result)
      BY <2>3 DEF Matches
    <3>4. Serves(result)
      BY <2>3, <2>4, <2>6, <3>1, <3>2, <3>3 DEF Out
    <3> QED BY <1>1, <2>3, <3>4
  <2>7. CASE Respond([is |-> "Failed"]) /\ vault' = vault
    <3>1. Serves([is |-> "Failed"])
      BY <1>5, <1>6, <2>7 DEF Out
    <3> QED BY <1>1, <1>3, <3>1
  <2> QED BY <2>5, <2>6, <2>7
<1>12. CASE ServeRoute
  <2> DEFINE route == Head(effects).route
  <2>1. Head(effects).do = "WriteRoute" /\ Matches("WriteRoute", [is |-> "Completed"])
    BY <1>12 DEF ServeRoute, Serving, Matches
  <2>2. KindOf(Head(effects).do) = "WriteRoute"
    BY <2>1 DEF KindOf
  <2>3. \/ Respond([is |-> "Completed"]) /\ vault' = [vault EXCEPT !.routes = @ \cup {route}]
        \/ Fail /\ vault' = vault
    BY <1>12 DEF ServeRoute, Succeed
  <2>4. CASE Respond([is |-> "Completed"]) /\ vault' = [vault EXCEPT !.routes = @ \cup {route}]
    <3>1. vault'.preserves = vault.preserves /\ vault'.session = vault.session
          /\ vault'.routes = vault.routes \cup {route}
      BY <1>0, <2>4 DEF Vaults
    <3>2. Serves([is |-> "Completed"])
      BY <1>5, <2>1, <2>2, <2>4, <3>1 DEF Out
    <3> QED BY <1>1, <1>3, <3>2
  <2> QED BY <1>1, <1>3, <1>7, <2>3, <2>4
<1>13. CASE ServeClear
  <2>1. Head(effects).do = "ClearRoutes" /\ Matches("ClearRoutes", [is |-> "RoutesCleared"])
    BY <1>13 DEF ServeClear, Serving, Matches
  <2>2. KindOf(Head(effects).do) = "ClearRoutes"
    BY <2>1 DEF KindOf
  <2>3. Respond([is |-> "RoutesCleared"])
        /\ \E left \in SUBSET vault.routes : vault' = [vault EXCEPT !.routes = left]
    BY <1>13 DEF ServeClear
  <2>4. vault'.preserves = vault.preserves /\ vault'.session = vault.session
        /\ vault'.routes \subseteq vault.routes
    BY <1>0, <2>3 DEF Vaults
  <2>5. Serves([is |-> "RoutesCleared"])
    BY <1>5, <2>1, <2>2, <2>3, <2>4 DEF Out
  <2> QED BY <1>1, <1>3, <2>5
<1>14. CASE ServeTracking
  <2>1. Head(effects).do = "ConfigurePathTracking"
        /\ Matches("ConfigurePathTracking", [is |-> "Completed"])
    BY <1>14 DEF ServeTracking, Serving, Matches
  <2>2. KindOf(Head(effects).do) = "ConfigurePathTracking"
    BY <2>1 DEF KindOf
  <2>3. Respond([is |-> "Completed"]) /\ vault' = vault
    BY <1>14 DEF ServeTracking, Succeed
  <2>4. Serves([is |-> "Completed"])
    BY <1>5, <2>1, <2>2, <2>3 DEF Out
  <2> QED BY <1>1, <1>3, <2>4
<1> QED BY <1>8, <1>9, <1>10, <1>11, <1>12, <1>13, <1>14 DEF Serve

-----------------------------------------------------------------------------
(* EveryRequestIsAnswered.  The queued inputs carry the numbers after the     *)
(* last one taken; every effect and every answer names a pending request that *)
(* it fits, no two of them the same, and every pending request has one.       *)

LEMMA AppendIndices ==
  ASSUME NEW S, NEW q \in Seq(S), NEW e \in S, NEW p, p = Append(q, e)
  PROVE  /\ Len(q) \in Nat /\ Len(p) = Len(q) + 1 /\ p[Len(q) + 1] = e
         /\ \A i \in 1..Len(q) : p[i] = q[i]
         /\ \A i \in 1..Len(p) : i \in 1..Len(q) \/ i = Len(q) + 1
BY AppendProperties, LenProperties

LEMMA TailIndices ==
  ASSUME NEW S, NEW q \in Seq(S), q # <<>>, NEW p, p = Tail(q)
  PROVE  /\ Len(q) \in Nat /\ Len(q) >= 1 /\ Len(p) = Len(q) - 1 /\ Head(q) = q[1]
         /\ \A i \in 1..Len(p) : i + 1 \in 1..Len(q) /\ p[i] = q[i + 1]
         /\ \A i \in 1..Len(q) : i = 1 \/ (i - 1 \in 1..Len(p) /\ q[i] = p[i - 1])
BY HeadTailProperties, LenProperties, EmptySeq

Sequenced ==
  /\ \A i \in 1..Len(inputs) : inputs[i].sequence = lastSequence + i
  /\ responseSequence = lastSequence + Len(inputs)

\* A notice or an answer takes the next number.
LEMMA SequencedAppend ==
  ASSUME Typed, Sequenced, NEW in \in Inputs, in.sequence = responseSequence + 1,
         inputs' = Append(inputs, in), responseSequence' = responseSequence + 1,
         lastSequence' = lastSequence
  PROVE  Sequenced'
<1>1. inputs \in Seq(Inputs) /\ lastSequence \in Nat /\ in \in Inputs
      /\ inputs' = Append(inputs, in)
  BY DEF Typed, QueuesTyped, NumbersTyped
<1>2. /\ Len(inputs) \in Nat /\ Len(inputs') = Len(inputs) + 1
      /\ inputs'[Len(inputs) + 1] = in
      /\ \A i \in 1..Len(inputs) : inputs'[i] = inputs[i]
      /\ \A i \in 1..Len(inputs') : i \in 1..Len(inputs) \/ i = Len(inputs) + 1
  BY <1>1, AppendIndices
<1>3. ASSUME NEW i \in 1..Len(inputs')
      PROVE  inputs'[i].sequence = lastSequence + i
  <2>1. CASE i \in 1..Len(inputs)
    BY <1>2, <2>1 DEF Sequenced
  <2>2. CASE i = Len(inputs) + 1
    <3>1. inputs'[i].sequence = responseSequence + 1
      BY <1>2, <2>2
    <3>2. responseSequence + 1 = lastSequence + i
      BY <1>1, <1>2, <2>2 DEF Sequenced
    <3> QED BY <3>1, <3>2
  <2> QED BY <1>2, <2>1, <2>2
<1>4. responseSequence' = lastSequence' + Len(inputs')
  BY <1>1, <1>2 DEF Sequenced
<1> QED BY <1>3, <1>4 DEF Sequenced

LEMMA SequencedKept ==
  ASSUME Sequenced, UNCHANGED <<inputs, lastSequence, responseSequence>>
  PROVE  Sequenced'
BY DEF Sequenced

\* The input drained is the next in number, and so never skipped.
LEMMA SequencedDrain ==
  ASSUME Typed, Sequenced, Drain
  PROVE  /\ Sequenced' /\ Head(inputs).sequence = lastSequence + 1
         /\ ~(Head(inputs).sequence <= lastSequence)
         /\ lastSequence' = Head(inputs).sequence
<1>1. inputs \in Seq(Inputs) /\ lastSequence \in Nat /\ inputs # <<>> /\ inputs' = Tail(inputs)
      /\ responseSequence' = responseSequence
  BY DrainStep DEF Typed, QueuesTyped, NumbersTyped
<1>2. /\ Len(inputs) \in Nat /\ Len(inputs) >= 1 /\ Len(inputs') = Len(inputs) - 1
      /\ Head(inputs) = inputs[1]
      /\ \A i \in 1..Len(inputs') : i + 1 \in 1..Len(inputs) /\ inputs'[i] = inputs[i + 1]
  BY <1>1, TailIndices
<1>3. Head(inputs).sequence = lastSequence + 1
  BY <1>1, <1>2 DEF Sequenced
<1>4. lastSequence' = lastSequence + 1
  BY <1>1, <1>3 DEF Drain
<1>5. responseSequence = lastSequence + Len(inputs)
      /\ \A i \in 1..Len(inputs) : inputs[i].sequence = lastSequence + i
  BY DEF Sequenced
<1>6. responseSequence' = lastSequence' + Len(inputs')
  BY <1>1, <1>2, <1>4, <1>5
<1>7. ASSUME NEW i \in 1..Len(inputs') PROVE inputs'[i].sequence = lastSequence' + i
  <2>1. inputs'[i].sequence = lastSequence + (i + 1)
    BY <1>2, <1>5
  <2> QED BY <2>1, <1>1, <1>4
<1> QED BY <1>1, <1>3, <1>4, <1>6, <1>7 DEF Sequenced

Fitting(pend, eff, inp) ==
  /\ \A i \in 1..Len(eff) : eff[i].id \in DOMAIN pend /\ pend[eff[i].id] = KindOf(eff[i].do)
  /\ \A i \in 1..Len(inp) :
       \/ inp[i].result.is = "Availability" /\ inp[i].request = 0
       \/ /\ inp[i].result.is # "Availability" /\ inp[i].request \in DOMAIN pend
          /\ Matches(pend[inp[i].request], inp[i].result)
Once(eff, inp) ==
  /\ \A i, j \in 1..Len(eff) : eff[i].id = eff[j].id => i = j
  /\ \A i, j \in 1..Len(inp) : inp[i].request = inp[j].request /\ inp[i].request # 0 => i = j
  /\ \A i \in 1..Len(eff), j \in 1..Len(inp) : eff[i].id # inp[j].request
Carried(pend, next, eff, inp) ==
  \A id \in DOMAIN pend :
    /\ id \in Nat /\ 0 < id /\ id < next
    /\ \/ \E i \in 1..Len(eff) : eff[i].id = id
       \/ \E i \in 1..Len(inp) : inp[i].request = id
Answerable ==
  /\ Fitting(pending, effects, inputs) /\ Once(effects, inputs)
  /\ Carried(pending, nextRequest, effects, inputs)

LEMMA AnswerableKept ==
  ASSUME Answerable, UNCHANGED <<effects, requests, inputs>>
  PROVE  Answerable'
BY DEF Answerable, requests

\* A request begun.
LEMMA AnswerableAsk ==
  ASSUME Typed, Answerable, NEW kind, NEW e \in Asked(kind), Ask(kind, e), UNCHANGED inputs
  PROVE  Answerable'
<1> DEFINE n == Len(effects)
<1>1. e \in Effects /\ e.id = nextRequest /\ KindOf(e.do) = kind
  <2>1. e \in Effects /\ e.id = nextRequest
    BY AskedTyped DEF Typed
  <2>2. KindOf(e.do) = kind
    BY DEF Asked, KindOf
  <2> QED BY <2>1, <2>2
<1>2. effects \in Seq(Effects) /\ nextRequest \in Nat \ {0} /\ inputs \in Seq(Inputs)
  BY DEF Typed, QueuesTyped, NumbersTyped
<1>3. /\ effects' = Append(effects, e) /\ nextRequest' = nextRequest + 1
      /\ DOMAIN pending' = DOMAIN pending \cup {nextRequest}
      /\ pending'[nextRequest] = kind
      /\ \A id \in DOMAIN pending : id # nextRequest => pending'[id] = pending[id]
  BY <1>1, AskTyped
<1>4. /\ n \in Nat /\ Len(effects') = n + 1 /\ effects'[n + 1] = e
      /\ \A i \in 1..n : effects'[i] = effects[i]
      /\ \A i \in 1..Len(effects') : i \in 1..n \/ i = n + 1
  BY <1>1, <1>2, <1>3, AppendIndices
<1> HIDE DEF n
<1>5. /\ Fitting(pending, effects, inputs) /\ Once(effects, inputs)
      /\ Carried(pending, nextRequest, effects, inputs) /\ inputs' = inputs
      /\ n = Len(effects) /\ Len(inputs) \in Nat
  BY <1>2, LenProperties DEF Answerable, n
<1>6. nextRequest \notin DOMAIN pending /\ nextRequest # 0 /\ nextRequest \in Nat
  BY <1>2, <1>5 DEF Carried
<1>7. /\ \A i \in 1..n : effects[i].id # nextRequest
      /\ \A i \in 1..Len(inputs) : inputs[i].request # nextRequest
  BY <1>5, <1>6 DEF Fitting
<1>8. Fitting(pending', effects', inputs')
  <2>1. ASSUME NEW i \in 1..Len(effects')
        PROVE  /\ effects'[i].id \in DOMAIN pending'
               /\ pending'[effects'[i].id] = KindOf(effects'[i].do)
    <3>1. CASE i \in 1..n
      BY <3>1, <1>3, <1>4, <1>5, <1>6 DEF Fitting
    <3>2. CASE i = n + 1
      BY <3>2, <1>1, <1>3, <1>4
    <3> QED BY <2>1, <3>1, <3>2, <1>4
  <2>2. ASSUME NEW i \in 1..Len(inputs), inputs[i].result.is # "Availability"
        PROVE  inputs[i].request \in DOMAIN pending'
               /\ Matches(pending'[inputs[i].request], inputs[i].result)
    <3>1. inputs[i].request \in DOMAIN pending /\ inputs[i].request # nextRequest
          /\ Matches(pending[inputs[i].request], inputs[i].result)
      BY <2>2, <1>5, <1>7 DEF Fitting
    <3>2. pending'[inputs[i].request] = pending[inputs[i].request]
      BY <3>1, <1>3
    <3> QED BY <3>1, <3>2, <1>3
  <2> QED BY <2>1, <2>2, <1>5 DEF Fitting
<1>9. Once(effects', inputs')
  <2>1. ASSUME NEW i \in 1..Len(effects'), NEW j \in 1..Len(effects'),
               effects'[i].id = effects'[j].id
        PROVE  i = j
    <3>1. (i \in 1..n \/ i = n + 1) /\ (j \in 1..n \/ j = n + 1)
      BY <1>4
    <3> QED BY <3>1, <2>1, <1>1, <1>4, <1>5, <1>7 DEF Once
  <2>2. ASSUME NEW i \in 1..Len(effects'), NEW j \in 1..Len(inputs)
        PROVE  effects'[i].id # inputs[j].request
    <3>1. i \in 1..n \/ i = n + 1
      BY <1>4
    <3> QED BY <3>1, <1>1, <1>4, <1>5, <1>7 DEF Once
  <2> QED BY <2>1, <2>2, <1>5 DEF Once
<1>10. Carried(pending', nextRequest', effects', inputs')
  <2> SUFFICES ASSUME NEW id \in DOMAIN pending'
        PROVE  /\ id \in Nat /\ 0 < id /\ id < nextRequest'
               /\ \/ \E i \in 1..Len(effects') : effects'[i].id = id
                  \/ \E i \in 1..Len(inputs') : inputs'[i].request = id
    BY DEF Carried
  <2>1. CASE id = nextRequest
    <3>1. n + 1 \in 1..Len(effects') /\ effects'[n + 1].id = id
      BY <2>1, <1>1, <1>4
    <3> QED BY <3>1, <2>1, <1>3, <1>6
  <2>2. CASE id \in DOMAIN pending
    <3>1. id \in Nat /\ 0 < id /\ id < nextRequest'
      BY <2>2, <1>3, <1>5, <1>6 DEF Carried
    <3>2. \/ \E i \in 1..n : effects[i].id = id
          \/ \E i \in 1..Len(inputs) : inputs[i].request = id
      BY <2>2, <1>5 DEF Carried
    <3>3. \A i \in 1..n : i \in 1..Len(effects') /\ effects'[i] = effects[i]
      BY <1>4
    <3> QED BY <3>1, <3>2, <3>3, <1>5
  <2> QED BY <2>1, <2>2, <1>3
<1> QED BY <1>8, <1>9, <1>10 DEF Answerable

\* An answer given: the request moves from the effects to the inputs.
LEMMA AnswerableRespond ==
  ASSUME Typed, Answerable, effects # <<>>, NEW result \in Results, Serves(result)
  PROVE  Answerable'
<1> DEFINE n == Len(effects)
           m == Len(inputs)
           in == Answer(Head(effects).id, result)
<1>1. /\ effects \in Seq(Effects) /\ inputs \in Seq(Inputs) /\ Respond(result)
      /\ Matches(KindOf(Head(effects).do), result) /\ result.is # "Availability"
  BY DEF Typed, QueuesTyped, Serves
<1>2. in \in Inputs /\ in.request = Head(effects).id /\ in.result = result
  BY <1>1, RespondTyped DEF Answer
<1>3. /\ effects' = Tail(effects) /\ inputs' = Append(inputs, in)
      /\ pending' = pending /\ nextRequest' = nextRequest
  BY <1>1 DEF Respond, requests
<1> HIDE DEF in
<1>4. /\ m \in Nat /\ Len(inputs') = m + 1 /\ inputs'[m + 1] = in
      /\ \A i \in 1..m : inputs'[i] = inputs[i]
      /\ \A i \in 1..Len(inputs') : i \in 1..m \/ i = m + 1
  BY <1>1, <1>2, <1>3, AppendIndices
<1>5. /\ n \in Nat /\ n >= 1 /\ Len(effects') = n - 1 /\ Head(effects) = effects[1]
      /\ \A i \in 1..Len(effects') : i + 1 \in 1..n /\ effects'[i] = effects[i + 1]
      /\ \A i \in 1..n : i = 1 \/ (i - 1 \in 1..Len(effects') /\ effects[i] = effects'[i - 1])
  BY <1>1, <1>3, TailIndices
<1>6. /\ Fitting(pending, effects, inputs) /\ Once(effects, inputs)
      /\ Carried(pending, nextRequest, effects, inputs)
      /\ n = Len(effects) /\ m = Len(inputs)
  BY DEF Answerable
<1> HIDE DEF n, m
<1>7. /\ 1 \in 1..n /\ effects[1].id \in DOMAIN pending
      /\ pending[effects[1].id] = KindOf(effects[1].do)
      /\ in.request = effects[1].id /\ in.request # 0
  <2>1. 1 \in 1..n
    BY <1>5
  <2>2. effects[1].id \in DOMAIN pending /\ pending[effects[1].id] = KindOf(effects[1].do)
    BY <2>1, <1>6 DEF Fitting
  <2>3. effects[1].id # 0
    BY <2>2, <1>6 DEF Carried
  <2> QED BY <2>1, <2>2, <2>3, <1>2, <1>5
<1>8. Fitting(pending', effects', inputs')
  <2>1. ASSUME NEW i \in 1..Len(effects')
        PROVE  effects'[i].id \in DOMAIN pending /\ pending[effects'[i].id] = KindOf(effects'[i].do)
    BY <1>5, <1>6 DEF Fitting
  <2>2. ASSUME NEW i \in 1..Len(inputs')
        PROVE  \/ inputs'[i].result.is = "Availability" /\ inputs'[i].request = 0
               \/ /\ inputs'[i].result.is # "Availability" /\ inputs'[i].request \in DOMAIN pending
                  /\ Matches(pending[inputs'[i].request], inputs'[i].result)
    <3>1. CASE i \in 1..m
      BY <3>1, <1>4, <1>6 DEF Fitting
    <3>2. CASE i = m + 1
      BY <3>2, <1>1, <1>2, <1>4, <1>5, <1>7
    <3> QED BY <3>1, <3>2, <1>4
  <2> QED BY <2>1, <2>2, <1>3 DEF Fitting
<1>9. Once(effects', inputs')
  <2>1. ASSUME NEW i \in 1..Len(effects'), NEW j \in 1..Len(effects'),
               effects'[i].id = effects'[j].id
        PROVE  i = j
    <3>1. i + 1 \in 1..n /\ j + 1 \in 1..n /\ effects[i + 1].id = effects[j + 1].id
      BY <2>1, <1>5
    <3>2. i + 1 = j + 1
      BY <3>1, <1>6 DEF Once
    <3> QED BY <3>2
  <2>2. ASSUME NEW i \in 1..Len(inputs'), NEW j \in 1..Len(inputs'),
               inputs'[i].request = inputs'[j].request, inputs'[i].request # 0
        PROVE  i = j
    <3>1. (i \in 1..m \/ i = m + 1) /\ (j \in 1..m \/ j = m + 1)
      BY <1>4
    <3>2. \A k \in 1..m : inputs[k].request # effects[1].id
      BY <1>6, <1>7 DEF Once
    <3> QED BY <3>1, <3>2, <2>2, <1>4, <1>6, <1>7 DEF Once
  <2>3. ASSUME NEW i \in 1..Len(effects'), NEW j \in 1..Len(inputs')
        PROVE  effects'[i].id # inputs'[j].request
    <3>1. j \in 1..m \/ j = m + 1
      BY <1>4
    <3>2. i + 1 \in 1..n /\ effects'[i] = effects[i + 1] /\ i + 1 # 1
      BY <1>5
    <3>3. effects[i + 1].id # effects[1].id
      BY <3>2, <1>6, <1>7 DEF Once
    <3>4. j \in 1..m => effects[i + 1].id # inputs[j].request
      BY <3>2, <1>6 DEF Once
    <3> QED BY <3>1, <3>2, <3>3, <3>4, <1>4, <1>7
  <2> QED BY <2>1, <2>2, <2>3 DEF Once
<1>10. Carried(pending', nextRequest', effects', inputs')
  <2> SUFFICES ASSUME NEW id \in DOMAIN pending
        PROVE  /\ id \in Nat /\ 0 < id /\ id < nextRequest
               /\ \/ \E i \in 1..Len(effects') : effects'[i].id = id
                  \/ \E i \in 1..Len(inputs') : inputs'[i].request = id
    BY <1>3 DEF Carried
  <2>1. /\ id \in Nat /\ 0 < id /\ id < nextRequest
        /\ \/ \E i \in 1..n : effects[i].id = id
           \/ \E i \in 1..m : inputs[i].request = id
    BY <1>6 DEF Carried
  <2>2. CASE effects[1].id = id
    <3>1. m + 1 \in 1..Len(inputs') /\ inputs'[m + 1].request = id
      BY <2>2, <1>4, <1>7
    <3> QED BY <3>1, <2>1
  <2>3. ASSUME NEW i \in 1..n, i # 1, effects[i].id = id
        PROVE  \E j \in 1..Len(effects') : effects'[j].id = id
    BY <2>3, <1>5
  <2>4. ASSUME NEW i \in 1..m, inputs[i].request = id
        PROVE  \E j \in 1..Len(inputs') : inputs'[j].request = id
    <3>1. i \in 1..Len(inputs') /\ inputs'[i] = inputs[i]
      BY <1>4
    <3> QED BY <3>1, <2>4
  <2> QED BY <2>1, <2>2, <2>3, <2>4
<1> QED BY <1>8, <1>9, <1>10 DEF Answerable

\* A notice announced.
LEMMA AnswerableNotice ==
  ASSUME Typed, Answerable, NEW k \in Nat, NEW on, Notice(k, on) \in Inputs,
         inputs' = Append(inputs, Notice(k, on)), UNCHANGED <<effects, requests>>
  PROVE  Answerable'
<1> DEFINE m == Len(inputs)
           in == Notice(k, on)
<1>1. inputs \in Seq(Inputs) /\ in.request = 0 /\ in.result.is = "Availability"
      /\ effects' = effects /\ pending' = pending /\ nextRequest' = nextRequest
  BY DEF Typed, QueuesTyped, Notice, requests
<1>2. in \in Inputs /\ inputs' = Append(inputs, in)
  OBVIOUS
<1> HIDE DEF in
<1>3. /\ m \in Nat /\ Len(inputs') = m + 1 /\ inputs'[m + 1] = in
      /\ \A i \in 1..m : inputs'[i] = inputs[i]
      /\ \A i \in 1..Len(inputs') : i \in 1..m \/ i = m + 1
  BY <1>1, <1>2, AppendIndices
<1>4. /\ Fitting(pending, effects, inputs) /\ Once(effects, inputs)
      /\ Carried(pending, nextRequest, effects, inputs) /\ m = Len(inputs)
  BY DEF Answerable
<1> HIDE DEF m
<1>5. Fitting(pending', effects', inputs')
  <2>1. ASSUME NEW i \in 1..Len(inputs')
        PROVE  \/ inputs'[i].result.is = "Availability" /\ inputs'[i].request = 0
               \/ /\ inputs'[i].result.is # "Availability" /\ inputs'[i].request \in DOMAIN pending
                  /\ Matches(pending[inputs'[i].request], inputs'[i].result)
    <3>1. CASE i \in 1..m
      BY <3>1, <1>3, <1>4 DEF Fitting
    <3>2. CASE i = m + 1
      BY <3>2, <1>1, <1>3
    <3> QED BY <3>1, <3>2, <1>3
  <2> QED BY <2>1, <1>1, <1>4 DEF Fitting
<1>6. Once(effects', inputs')
  <2>1. ASSUME NEW i \in 1..Len(inputs'), NEW j \in 1..Len(inputs'),
               inputs'[i].request = inputs'[j].request, inputs'[i].request # 0
        PROVE  i = j
    <3>1. i \in 1..m /\ j \in 1..m
      BY <2>1, <1>1, <1>3
    <3> QED BY <3>1, <2>1, <1>3, <1>4 DEF Once
  <2>2. ASSUME NEW i \in 1..Len(effects), NEW j \in 1..Len(inputs')
        PROVE  effects[i].id # inputs'[j].request
    <3>1. effects[i].id # 0
      BY <1>4 DEF Fitting, Carried
    <3> QED BY <3>1, <1>1, <1>3, <1>4 DEF Once
  <2> QED BY <2>1, <2>2, <1>1, <1>4 DEF Once
<1>7. Carried(pending', nextRequest', effects', inputs')
  <2>1. \A i \in 1..m : i \in 1..Len(inputs') /\ inputs'[i] = inputs[i]
    BY <1>3
  <2> QED BY <2>1, <1>1, <1>4 DEF Carried
<1> QED BY <1>5, <1>6, <1>7 DEF Answerable

\* An input drained: a notice changes nothing that is pending, and an answer
\* settles its request.
LEMMA AnswerableDrain ==
  ASSUME Typed, Sequenced, Answerable, Drain
  PROVE  /\ Answerable'
         /\ Head(inputs).result.is = "Availability" =>
              /\ supported' = Head(inputs).result.supported
              /\ layout' = DegradedLayout(Head(inputs).result.supported)
              /\ UNCHANGED <<body, world>>
         /\ Head(inputs).result.is # "Availability" =>
              UNCHANGED screen /\ Apply(Head(inputs).result)
<1> DEFINE m == Len(inputs)
           in == Head(inputs)
<1>1. /\ inputs \in Seq(Inputs) /\ inputs # <<>> /\ inputs' = Tail(inputs)
      /\ effects' = effects /\ nextRequest' = nextRequest /\ DOMAIN pending \subseteq Nat
  BY DrainStep DEF Typed, QueuesTyped, NumbersTyped
<1>2. /\ m \in Nat /\ m >= 1 /\ Len(inputs') = m - 1 /\ Head(inputs) = inputs[1]
      /\ \A i \in 1..Len(inputs') : i + 1 \in 1..m /\ inputs'[i] = inputs[i + 1]
      /\ \A i \in 1..m : i = 1 \/ (i - 1 \in 1..Len(inputs') /\ inputs[i] = inputs'[i - 1])
  BY <1>1, TailIndices
<1>3. /\ Fitting(pending, effects, inputs) /\ Once(effects, inputs)
      /\ Carried(pending, nextRequest, effects, inputs) /\ m = Len(inputs) /\ 1 \in 1..m
  BY <1>2 DEF Answerable
<1>4. ~(in.sequence <= lastSequence)
  BY SequencedDrain
<1>5. \/ in.result.is = "Availability" /\ in.request = 0
      \/ /\ in.result.is # "Availability" /\ in.request \in DOMAIN pending
         /\ Matches(pending[in.request], in.result)
  BY <1>2, <1>3 DEF Fitting
<1>6. /\ in.result.is = "Availability" =>
              /\ supported' = in.result.supported /\ layout' = DegradedLayout(in.result.supported)
              /\ UNCHANGED <<pending, body, world>>
      /\ in.result.is # "Availability" =>
              /\ UNCHANGED screen /\ Apply(in.result)
              /\ pending' = [id \in DOMAIN pending \ {in.request} |-> pending[id]]
  BY <1>4, <1>5 DEF Drain
<1>7. /\ DOMAIN pending' = DOMAIN pending \ {in.request}
      /\ \A id \in DOMAIN pending' : pending'[id] = pending[id]
  <2>1. CASE in.result.is = "Availability"
    <3>1. 0 \notin DOMAIN pending
      BY <1>3 DEF Carried
    <3> QED BY <2>1, <3>1, <1>5, <1>6
  <2>2. CASE in.result.is # "Availability"
    BY <2>2, <1>6
  <2> QED BY <2>1, <2>2
<1> HIDE DEF m
<1>8. \A i \in 1..Len(inputs') : inputs'[i].request # 0 => inputs'[i].request # in.request
  <2> SUFFICES ASSUME NEW i \in 1..Len(inputs'), inputs'[i].request # 0,
                      inputs'[i].request = in.request
               PROVE  FALSE
    OBVIOUS
  <2>1. i + 1 \in 1..m /\ inputs[i + 1].request = inputs[1].request /\ inputs[i + 1].request # 0
    BY <1>2
  <2>2. i + 1 = 1
    BY <2>1, <1>3 DEF Once
  <2> QED BY <2>2
<1>9. \A i \in 1..Len(effects) : effects[i].id # in.request
  BY <1>2, <1>3 DEF Once
<1> HIDE DEF in
<1>10. Fitting(pending', effects', inputs')
  <2>1. ASSUME NEW i \in 1..Len(effects)
        PROVE  effects[i].id \in DOMAIN pending' /\ pending'[effects[i].id] = KindOf(effects[i].do)
    BY <1>3, <1>7, <1>9 DEF Fitting
  <2>2. ASSUME NEW i \in 1..Len(inputs')
        PROVE  \/ inputs'[i].result.is = "Availability" /\ inputs'[i].request = 0
               \/ /\ inputs'[i].result.is # "Availability" /\ inputs'[i].request \in DOMAIN pending'
                  /\ Matches(pending'[inputs'[i].request], inputs'[i].result)
    <3>1. \/ inputs'[i].result.is = "Availability" /\ inputs'[i].request = 0
          \/ /\ inputs'[i].result.is # "Availability" /\ inputs'[i].request \in DOMAIN pending
             /\ Matches(pending[inputs'[i].request], inputs'[i].result)
      BY <1>2, <1>3 DEF Fitting
    <3>2. CASE inputs'[i].result.is # "Availability"
      <4>1. inputs'[i].request # 0
        BY <3>1, <3>2, <1>3 DEF Carried
      <4>2. inputs'[i].request \in DOMAIN pending'
        BY <4>1, <3>1, <3>2, <1>7, <1>8
      <4> QED BY <4>2, <3>1, <3>2, <1>7
    <3> QED BY <3>1, <3>2
  <2> QED BY <2>1, <2>2, <1>1 DEF Fitting
<1>11. Once(effects', inputs')
  <2>1. ASSUME NEW i \in 1..Len(inputs'), NEW j \in 1..Len(inputs'),
               inputs'[i].request = inputs'[j].request, inputs'[i].request # 0
        PROVE  i = j
    <3>1. i + 1 \in 1..m /\ j + 1 \in 1..m /\ inputs[i + 1].request = inputs[j + 1].request
          /\ inputs[i + 1].request # 0
      BY <2>1, <1>2
    <3>2. i + 1 = j + 1
      BY <3>1, <1>3 DEF Once
    <3> QED BY <3>2
  <2>2. ASSUME NEW i \in 1..Len(effects), NEW j \in 1..Len(inputs')
        PROVE  effects[i].id # inputs'[j].request
    BY <1>2, <1>3 DEF Once
  <2> QED BY <2>1, <2>2, <1>1, <1>3 DEF Once
<1>12. Carried(pending', nextRequest', effects', inputs')
  <2> SUFFICES ASSUME NEW id \in DOMAIN pending'
        PROVE  /\ id \in Nat /\ 0 < id /\ id < nextRequest
               /\ \/ \E i \in 1..Len(effects) : effects[i].id = id
                  \/ \E i \in 1..Len(inputs') : inputs'[i].request = id
    BY <1>1 DEF Carried
  <2>1. id \in DOMAIN pending /\ id # in.request
    BY <1>7
  <2>2. /\ id \in Nat /\ 0 < id /\ id < nextRequest
        /\ \/ \E i \in 1..Len(effects) : effects[i].id = id
           \/ \E i \in 1..m : inputs[i].request = id
    BY <2>1, <1>3 DEF Carried
  <2>3. ASSUME NEW i \in 1..m, inputs[i].request = id
        PROVE  \E j \in 1..Len(inputs') : inputs'[j].request = id
    <3>1. i # 1
      BY <2>1, <2>3, <1>2 DEF in
    <3> QED BY <3>1, <2>3, <1>2
  <2> QED BY <2>2, <2>3
<1> QED BY <1>6, <1>10, <1>11, <1>12 DEF Answerable, in

LEMMA InitAnswerable ==
  ASSUME Init
  PROVE  Sequenced /\ Answerable
<1>1. /\ inputs = <<>> /\ effects = <<>> /\ pending = <<>> /\ lastSequence = 1
      /\ responseSequence = 1
  BY DEF Init
<1>2. Len(inputs) = 0 /\ Len(effects) = 0 /\ DOMAIN pending = {}
  BY <1>1
<1> QED BY <1>1, <1>2 DEF Sequenced, Answerable, Fitting, Once, Carried

Answering == Typed /\ Sequenced /\ Answerable

LEMMA QuietlyKeeps ==
  ASSUME Quietly
  PROVE  UNCHANGED <<inputs, effects, requests, lastSequence, responseSequence>>
BY DEF Quietly, requests

LEMMA StepAnswering ==
  ASSUME Answering, [Next]_vars
  PROVE  Answering'
<1> USE DEF Answering
<1>1. Typed'
  BY StepTyped
<1>2. CASE Quietly
  BY <1>1, <1>2, QuietlyKeeps, SequencedKept, AnswerableKept
<1>3. ASSUME NEW k, k = responseSequence + 1, NEW on \in BOOLEAN, Notice(k, on) \in Inputs,
             inputs' = Append(inputs, Notice(k, on)),
             responseSequence' = k, UNCHANGED <<effects, requests>>
      PROVE  Answering'
  <2>1. k \in Nat
    BY <1>3 DEF Typed, NumbersTyped
  <2>2. Notice(k, on).sequence = responseSequence + 1 /\ lastSequence' = lastSequence
    BY <1>3 DEF Notice, requests
  <2>3. Sequenced'
    BY <1>3, <2>2, SequencedAppend
  <2>4. Answerable'
    BY <1>3, <2>1, AnswerableNotice
  <2> QED BY <1>1, <2>3, <2>4
<1>4. ASSUME UNCHANGED <<inputs, effects, requests, responseSequence>>
      PROVE  Answering'
  BY <1>1, <1>4, SequencedKept, AnswerableKept DEF requests
<1>5. ASSUME NEW rebuilt \in BOOLEAN, BeginFrame(rebuilt)
      PROVE  Answering'
  <2>1. UNCHANGED <<effects, requests>> /\ lossPending \in BOOLEAN
    BY <1>5 DEF BeginFrame, Typed, ScreenTyped
  <2>2. CASE lossPending
    BY <1>3, <1>5, <2>1, <2>2, BeginFrameTyped
  <2>3. CASE ~lossPending
    BY <1>4, <1>5, <2>1, <2>3, BeginFrameTyped
  <2> QED BY <2>1, <2>2, <2>3
<1>6. ASSUME NEW step \in {-1, 0, 1}, Update(step)
      PROVE  Answering'
  <2>1. UNCHANGED <<effects, requests>> /\ ready \in BOOLEAN
    BY <1>6 DEF Update, Typed, ScreenTyped
  <2>2. CASE ready
    BY <1>3, <1>6, <2>1, <2>2, UpdateTyped
  <2>3. CASE ~ready
    BY <1>4, <1>6, <2>1, <2>3, UpdateTyped
  <2> QED BY <2>1, <2>2, <2>3
<1>7. CASE Drain
  BY <1>1, <1>7, SequencedDrain, AnswerableDrain
<1>8. CASE ReduceLayout
  BY <1>4, <1>8, ReduceLayoutTyped
<1>9. CASE ServiceAction
  <2>1. UNCHANGED <<inputs, responseSequence>>
    BY <1>9, ServiceStep, ActTyped
  <2>2. CASE UNCHANGED <<effects, requests>>
    BY <1>4, <2>1, <2>2
  <2>3. ASSUME NEW kind, NEW e \in Asked(kind), Ask(kind, e)
        PROVE  Answering'
    <3>1. lastSequence' = lastSequence
      BY <2>3 DEF Ask
    <3> QED BY <1>1, <2>1, <2>3, <3>1, SequencedKept, AnswerableAsk
  <2> QED BY <1>9, <2>2, <2>3, ServiceStep
<1>10. CASE Serve
  <2>1. PICK result \in Results : Serves(result)
    BY <1>10, ServeAnswers
  <2>2. effects # <<>> /\ Respond(result)
    BY <1>10, <2>1, ServeAnswers DEF Serves
  <2> DEFINE in == Answer(Head(effects).id, result)
  <2>3. in \in Inputs /\ in.sequence = responseSequence + 1
    BY <2>2, RespondTyped DEF Answer
  <2>4. inputs' = Append(inputs, in) /\ responseSequence' = responseSequence + 1
        /\ lastSequence' = lastSequence
    BY <2>2 DEF Respond, requests
  <2> HIDE DEF in
  <2>5. Sequenced'
    BY <2>3, <2>4, SequencedAppend
  <2>6. Answerable'
    BY <2>1, <2>2, AnswerableRespond
  <2> QED BY <1>1, <2>5, <2>6
<1> QED BY <1>2, <1>5, <1>6, <1>7, <1>8, <1>9, <1>10, StepCases

\* The set of the places of an id in a queue that holds it once has one member.
LEMMA AnsweringImplies ==
  ASSUME Answering
  PROVE  EveryRequestIsAnswered
<1>1. /\ inputs \in Seq(Inputs) /\ effects \in Seq(Effects) /\ lastSequence \in Nat
      /\ Fitting(pending, effects, inputs) /\ Once(effects, inputs)
      /\ Carried(pending, nextRequest, effects, inputs)
  BY DEF Answering, Answerable, Typed, QueuesTyped, NumbersTyped
<1>2. DOMAIN inputs = 1..Len(inputs) /\ DOMAIN effects = 1..Len(effects)
  BY <1>1, LenProperties
<1>3. ASSUME NEW id \in DOMAIN pending
      PROVE  Cardinality({i \in DOMAIN effects : effects[i].id = id})
               + Cardinality({i \in DOMAIN inputs : inputs[i].request = id}) = 1
  <2> DEFINE A == {i \in DOMAIN effects : effects[i].id = id}
             B == {i \in DOMAIN inputs : inputs[i].request = id}
  <2>1. id # 0 /\ (A # {} \/ B # {})
    BY <1>1, <1>2 DEF Carried
  <2>2. A = {} \/ B = {}
    BY <1>1, <1>2 DEF Once
  <2>3. \A i, j \in A : i = j
    BY <1>1, <1>2 DEF Once
  <2>4. \A i, j \in B : i = j
    BY <1>1, <1>2, <2>1 DEF Once
  <2> HIDE DEF A, B
  <2>5. CASE A = {}
    <3>1. PICK b \in B : B = {b}
      BY <2>1, <2>4, <2>5
    <3>2. Cardinality(B) = 1 /\ Cardinality(A) = 0
      BY <2>5, <3>1, FS_Singleton, FS_EmptySet
    <3> QED BY <3>2 DEF A, B
  <2>6. CASE B = {}
    <3>1. PICK a \in A : A = {a}
      BY <2>1, <2>3, <2>6
    <3>2. Cardinality(A) = 1 /\ Cardinality(B) = 0
      BY <2>6, <3>1, FS_Singleton, FS_EmptySet
    <3> QED BY <3>2 DEF A, B
  <2> QED BY <2>2, <2>5, <2>6
<1>4. ASSUME NEW i \in DOMAIN inputs
      PROVE  inputs[i].sequence > (IF i = 1 THEN lastSequence ELSE inputs[i - 1].sequence)
  <2>1. Len(inputs) \in Nat /\ \A k \in 1..Len(inputs) : inputs[k].sequence = lastSequence + k
    BY <1>1, LenProperties DEF Answering, Sequenced
  <2>2. i \in 1..Len(inputs) /\ (i # 1 => i - 1 \in 1..Len(inputs))
    BY <1>2, <2>1
  <2> QED BY <2>1, <2>2, <1>1
<1>5. ASSUME NEW i \in DOMAIN inputs
      PROVE  \/ inputs[i].result.is = "Availability"
             \/ /\ inputs[i].request \in DOMAIN pending
                /\ Matches(pending[inputs[i].request], inputs[i].result)
  BY <1>1, <1>2 DEF Fitting
<1> QED BY <1>3, <1>4, <1>5 DEF EveryRequestIsAnswered

LEMMA AlwaysAnswering == Spec => []Answering
<1>1. Init => Answering
  BY InitTyped, InitAnswerable DEF Answering
<1>2. Answering /\ [Next]_vars => Answering'
  BY StepAnswering
<1> QED BY <1>1, <1>2, PTL DEF Spec

\* Whatever order requests, failures and notifications come in, a begun request has
\* exactly one effect or one answer under way, every queued answer fits the pending
\* request it names, and the numbers of the queued inputs rise beyond the last one
\* taken (controller.rs, begin_request, drain_service_inputs).
THEOREM RequestsAreAnswered == Spec => []EveryRequestIsAnswered
<1>1. Answering => EveryRequestIsAnswered
  BY AnsweringImplies
<1> QED BY <1>1, AlwaysAnswering, PTL

\* Once there is a POV camera it stands where the traveler stands, whichever view
\* moves them and through loads (controller.rs, prepare_pov_camera, restore_session).
THEOREM CameraStandsWithTraveler == Spec => []CameraIsTraveler
<1>1. Answering => CameraIsTraveler
  BY DEF Answering, Typed, WorldTyped
<1> QED BY <1>1, AlwaysAnswering, PTL

-----------------------------------------------------------------------------
(* The three queues that are replayed: nothing queued changes nothing, one   *)
(* entry more is one step more, and the first entry may be taken first.       *)

Previews == [last : Nat, supported : BOOLEAN, layout : Layouts]

LEMMA DrainedType == \A s \in Previews, in \in Inputs : PreviewInput(s, in) \in Previews
<1> TAKE s \in Previews, in \in Inputs
<1>1. in.sequence \in Nat /\ in.result \in Results
  BY DEF Inputs
<1>2. in.result.is = "Availability" => in.result.supported \in BOOLEAN
  BY <1>1 DEF Results
<1>3. MapLayout \in Layouts
  BY DEF MapLayout, Layouts, Modes, Views
<1> QED BY <1>1, <1>2, <1>3 DEF Previews, PreviewInput

DrainedAfter(start, q) == Replay(PreviewInput, start, q)
LEMMA DrainedOutcome ==
  ASSUME NEW start \in Previews, NEW q \in Seq(Inputs), NEW g,
         g = [p \in Previews \X Inputs |-> PreviewInput(p[1], p[2])]
  PROVE  DrainedAfter(start, q) = Outcome(g, start, q)
<1> DEFINE R(f) == f = [i \in 0..Len(q) |-> IF i = 0 THEN start ELSE PreviewInput(f[i - 1], q[i])]
           chosen == CHOOSE f : R(f)
<1>1. DrainedAfter(start, q) = chosen[Len(q)]
  BY DEF DrainedAfter, Replay
<1>2. g \in [Previews \X Inputs -> Previews] /\ Len(q) \in Nat
      /\ \A i \in 1..Len(q) : q[i] \in Inputs
  BY DrainedType, LenProperties
<1>3. PICK f \in [0..Len(q) -> Previews] : IsRun(f, g, start, q)
  BY <1>2, RunExists
<1>4. Steps(f, g, start, q)
  BY <1>2, <1>3, RunSteps
<1>5. \A i \in 1..Len(q) : f[i - 1] \in Previews /\ f[i] = PreviewInput(f[i - 1], q[i])
  <2> TAKE i \in 1..Len(q)
  <2>1. f[i - 1] \in Previews /\ q[i] \in Inputs
    BY <1>2, <1>3
  <2>2. g[<<f[i - 1], q[i]>>] = PreviewInput(f[i - 1], q[i])
    BY <2>1
  <2> QED BY <2>1, <2>2, <1>4 DEF Steps
<1>6. R(f)
  <2> DEFINE e(i) == IF i = 0 THEN start ELSE PreviewInput(f[i - 1], q[i])
  <2>1. \A i \in 0..Len(q) : f[i] = e(i)
    BY <1>2, <1>4, <1>5 DEF Steps
  <2> HIDE DEF e
  <2>2. f = [i \in 0..Len(q) |-> e(i)]
    BY <1>3, <2>1
  <2> QED BY <2>2 DEF e
<1>7. R(chosen)
  BY <1>6
<1> HIDE DEF chosen
<1>8. /\ chosen[0] = start
      /\ \A i \in 1..Len(q) : chosen[i] = PreviewInput(chosen[i - 1], q[i])
  <2> DEFINE e(i) == IF i = 0 THEN start ELSE PreviewInput(chosen[i - 1], q[i])
  <2>1. chosen = [i \in 0..Len(q) |-> e(i)]
    BY <1>7
  <2> HIDE DEF e
  <2>2. \A i \in 0..Len(q) : chosen[i] = e(i)
    BY <2>1
  <2> QED BY <2>2, <1>2 DEF e
<1>9. GoOnAlike(f, chosen, Len(q))
  <2>1. f[0] = chosen[0]
    BY <1>4, <1>8 DEF Steps
  <2>2. ASSUME NEW i \in 1..Len(q), f[i - 1] = chosen[i - 1]
        PROVE  f[i] = chosen[i]
    BY <1>5, <1>8, <2>2
  <2> QED BY <2>1, <2>2 DEF GoOnAlike
<1>10. f[Len(q)] = chosen[Len(q)]
  BY <1>2, <1>9, RunsAgree DEF Alike
<1> QED BY <1>1, <1>2, <1>3, <1>10, OutcomeOfRun

LEMMA DrainedFacts ==
  ASSUME NEW start \in Previews, NEW q \in Seq(Inputs)
  PROVE  /\ DrainedAfter(start, <<>>) = start
         /\ DrainedAfter(start, q) \in Previews
         /\ \A e \in Inputs : DrainedAfter(start, Append(q, e))
                               = PreviewInput(DrainedAfter(start, q), e)
         /\ q # <<>> => DrainedAfter(start, q)
                          = DrainedAfter(PreviewInput(start, Head(q)), Tail(q))
<1> DEFINE g == [p \in Previews \X Inputs |-> PreviewInput(p[1], p[2])]
<1>0. IsStep(g, Previews, Inputs)
  BY DrainedType DEF IsStep
<1>1. \A s \in Previews, e \in Inputs : g[<<s, e>>] = PreviewInput(s, e)
  BY DrainedType
<1>2. \A s \in Previews, p \in Seq(Inputs) : DrainedAfter(s, p) = Outcome(g, s, p)
  BY DrainedOutcome
<1> HIDE DEF g
<1>3. <<>> \in Seq(Inputs)
  BY EmptySeq
<1>4. DrainedAfter(start, <<>>) = start
  BY <1>2, <1>3, OutcomeOfNothing
<1>5. ASSUME NEW e \in Inputs
      PROVE  /\ DrainedAfter(start, q) \in Previews
             /\ DrainedAfter(start, Append(q, e)) = PreviewInput(DrainedAfter(start, q), e)
  <2>1. Append(q, e) \in Seq(Inputs)
    BY AppendProperties
  <2>2. /\ Outcome(g, start, q) \in Previews
        /\ Outcome(g, start, Append(q, e)) = g[<<Outcome(g, start, q), e>>]
    BY <1>0, OutcomeOfAppend
  <2> QED BY <1>1, <1>2, <2>1, <2>2
<1>6. ASSUME q # <<>>
      PROVE  /\ DrainedAfter(start, q) \in Previews
             /\ DrainedAfter(start, q) = DrainedAfter(PreviewInput(start, Head(q)), Tail(q))
  <2>1. Head(q) \in Inputs /\ Tail(q) \in Seq(Inputs)
    BY <1>6, HeadAndTail
  <2>2. /\ g[<<start, Head(q)>>] = PreviewInput(start, Head(q))
        /\ PreviewInput(start, Head(q)) \in Previews
    BY <1>1, <2>1, DrainedType
  <2>3. Outcome(g, start, q) = Outcome(g, g[<<start, Head(q)>>], Tail(q))
    BY <1>0, <1>6, OutcomeOfTail
  <2>4. DrainedAfter(start, q) = DrainedAfter(PreviewInput(start, Head(q)), Tail(q))
    BY <1>2, <2>1, <2>2, <2>3
  <2>5. DrainedAfter(start, q) \in Previews
    BY <1>5, <2>1
  <2> QED BY <2>4, <2>5
<1>7. DrainedAfter(start, q) \in Previews
  BY <1>4, <1>6
<1> QED BY <1>4, <1>5, <1>6, <1>7

LEMMA ReducedType ==
  ASSUME NEW able \in BOOLEAN
  PROVE  \A shown \in Layouts, c \in Commands : Reduce(shown, able, c) \in Layouts
BY ReduceType

ReducedAfter(able, start, q) ==
  Replay(LAMBDA shown, c : Reduce(shown, able, c), start, q)
LEMMA ReducedOutcome ==
  ASSUME NEW able \in BOOLEAN, NEW start \in Layouts, NEW q \in Seq(Commands), NEW g,
         g = [p \in Layouts \X Commands |-> Reduce(p[1], able, p[2])]
  PROVE  ReducedAfter(able, start, q) = Outcome(g, start, q)
<1> DEFINE R(f) == f = [i \in 0..Len(q) |-> IF i = 0 THEN start ELSE Reduce(f[i - 1], able, q[i])]
           chosen == CHOOSE f : R(f)
<1>1. ReducedAfter(able, start, q) = chosen[Len(q)]
  BY DEF ReducedAfter, Replay
<1>2. g \in [Layouts \X Commands -> Layouts] /\ Len(q) \in Nat
      /\ \A i \in 1..Len(q) : q[i] \in Commands
  BY ReducedType, LenProperties
<1>3. PICK f \in [0..Len(q) -> Layouts] : IsRun(f, g, start, q)
  BY <1>2, RunExists
<1>4. Steps(f, g, start, q)
  BY <1>2, <1>3, RunSteps
<1>5. \A i \in 1..Len(q) : f[i - 1] \in Layouts /\ f[i] = Reduce(f[i - 1], able, q[i])
  <2> TAKE i \in 1..Len(q)
  <2>1. f[i - 1] \in Layouts /\ q[i] \in Commands
    BY <1>2, <1>3
  <2>2. g[<<f[i - 1], q[i]>>] = Reduce(f[i - 1], able, q[i])
    BY <2>1
  <2> QED BY <2>1, <2>2, <1>4 DEF Steps
<1>6. R(f)
  <2> DEFINE e(i) == IF i = 0 THEN start ELSE Reduce(f[i - 1], able, q[i])
  <2>1. \A i \in 0..Len(q) : f[i] = e(i)
    BY <1>2, <1>4, <1>5 DEF Steps
  <2> HIDE DEF e
  <2>2. f = [i \in 0..Len(q) |-> e(i)]
    BY <1>3, <2>1
  <2> QED BY <2>2 DEF e
<1>7. R(chosen)
  BY <1>6
<1> HIDE DEF chosen
<1>8. /\ chosen[0] = start
      /\ \A i \in 1..Len(q) : chosen[i] = Reduce(chosen[i - 1], able, q[i])
  <2> DEFINE e(i) == IF i = 0 THEN start ELSE Reduce(chosen[i - 1], able, q[i])
  <2>1. chosen = [i \in 0..Len(q) |-> e(i)]
    BY <1>7
  <2> HIDE DEF e
  <2>2. \A i \in 0..Len(q) : chosen[i] = e(i)
    BY <2>1
  <2> QED BY <2>2, <1>2 DEF e
<1>9. GoOnAlike(f, chosen, Len(q))
  <2>1. f[0] = chosen[0]
    BY <1>4, <1>8 DEF Steps
  <2>2. ASSUME NEW i \in 1..Len(q), f[i - 1] = chosen[i - 1]
        PROVE  f[i] = chosen[i]
    BY <1>5, <1>8, <2>2
  <2> QED BY <2>1, <2>2 DEF GoOnAlike
<1>10. f[Len(q)] = chosen[Len(q)]
  BY <1>2, <1>9, RunsAgree DEF Alike
<1> QED BY <1>1, <1>2, <1>3, <1>10, OutcomeOfRun

LEMMA ReducedFacts ==
  ASSUME NEW able \in BOOLEAN, NEW start \in Layouts, NEW q \in Seq(Commands)
  PROVE  /\ ReducedAfter(able, start, <<>>) = start
         /\ ReducedAfter(able, start, q) \in Layouts
         /\ \A e \in Commands : ReducedAfter(able, start, Append(q, e))
                               = Reduce(ReducedAfter(able, start, q), able, e)
         /\ q # <<>> => ReducedAfter(able, start, q)
                          = ReducedAfter(able, Reduce(start, able, Head(q)), Tail(q))
<1> DEFINE g == [p \in Layouts \X Commands |-> Reduce(p[1], able, p[2])]
<1>0. IsStep(g, Layouts, Commands)
  BY ReducedType DEF IsStep
<1>1. \A s \in Layouts, e \in Commands : g[<<s, e>>] = Reduce(s, able, e)
  BY ReducedType
<1>2. \A s \in Layouts, p \in Seq(Commands) : ReducedAfter(able, s, p) = Outcome(g, s, p)
  BY ReducedOutcome
<1> HIDE DEF g
<1>3. <<>> \in Seq(Commands)
  BY EmptySeq
<1>4. ReducedAfter(able, start, <<>>) = start
  BY <1>2, <1>3, OutcomeOfNothing
<1>5. ASSUME NEW e \in Commands
      PROVE  /\ ReducedAfter(able, start, q) \in Layouts
             /\ ReducedAfter(able, start, Append(q, e))
                  = Reduce(ReducedAfter(able, start, q), able, e)
  <2>1. Append(q, e) \in Seq(Commands)
    BY AppendProperties
  <2>2. /\ Outcome(g, start, q) \in Layouts
        /\ Outcome(g, start, Append(q, e)) = g[<<Outcome(g, start, q), e>>]
    BY <1>0, OutcomeOfAppend
  <2> QED BY <1>1, <1>2, <2>1, <2>2
<1>6. ASSUME q # <<>>
      PROVE  /\ ReducedAfter(able, start, q) \in Layouts
             /\ ReducedAfter(able, start, q)
                  = ReducedAfter(able, Reduce(start, able, Head(q)), Tail(q))
  <2>1. Head(q) \in Commands /\ Tail(q) \in Seq(Commands)
    BY <1>6, HeadAndTail
  <2>2. /\ g[<<start, Head(q)>>] = Reduce(start, able, Head(q))
        /\ Reduce(start, able, Head(q)) \in Layouts
    BY <1>1, <2>1, ReducedType
  <2>3. Outcome(g, start, q) = Outcome(g, g[<<start, Head(q)>>], Tail(q))
    BY <1>0, <1>6, OutcomeOfTail
  <2>4. ReducedAfter(able, start, q) = ReducedAfter(able, Reduce(start, able, Head(q)), Tail(q))
    BY <1>2, <2>1, <2>2, <2>3
  <2>5. ReducedAfter(able, start, q) \in Layouts
    BY <1>5, <2>1
  <2> QED BY <2>4, <2>5
<1>7. ReducedAfter(able, start, q) \in Layouts
  BY <1>4, <1>6
<1> QED BY <1>4, <1>5, <1>6, <1>7

Holdings == SUBSET Owned

LEMMA HeldType == \A held \in Holdings, in \in Inputs : Held(held, in) \in Holdings
<1> TAKE held \in Holdings, in \in Inputs
<1>1. in.result \in Results
  BY DEF Inputs
<1>2. CASE in.result.is = "SessionLoaded"
  <2>1. in.result.preserves \in SUBSET Preserves
    BY <1>1, <1>2 DEF Results
  <2> QED BY <1>2, <2>1, ContributionsTyped DEF Held, Holdings
<1>3. CASE in.result.is \in {"PreserveCreated", "PreserveRemoved"}
  <2>1. {in.result.preserve} \in SUBSET Preserves
    BY <1>1, <1>3 DEF Results
  <2>2. Contributions({in.result.preserve}) \subseteq Owned
    BY <2>1, ContributionsTyped
  <2> QED BY <1>3, <2>2 DEF Held, Holdings
<1>4. CASE in.result.is \notin {"SessionLoaded", "PreserveCreated", "PreserveRemoved"}
  BY <1>4 DEF Held
<1> QED BY <1>2, <1>3, <1>4

HeldAfter(start, q) == Replay(Held, start, q)
LEMMA HeldOutcome ==
  ASSUME NEW start \in Holdings, NEW q \in Seq(Inputs), NEW g,
         g = [p \in Holdings \X Inputs |-> Held(p[1], p[2])]
  PROVE  HeldAfter(start, q) = Outcome(g, start, q)
<1> DEFINE R(f) == f = [i \in 0..Len(q) |-> IF i = 0 THEN start ELSE Held(f[i - 1], q[i])]
           chosen == CHOOSE f : R(f)
<1>1. HeldAfter(start, q) = chosen[Len(q)]
  BY DEF HeldAfter, Replay
<1>2. g \in [Holdings \X Inputs -> Holdings] /\ Len(q) \in Nat
      /\ \A i \in 1..Len(q) : q[i] \in Inputs
  BY HeldType, LenProperties
<1>3. PICK f \in [0..Len(q) -> Holdings] : IsRun(f, g, start, q)
  BY <1>2, RunExists
<1>4. Steps(f, g, start, q)
  BY <1>2, <1>3, RunSteps
<1>5. \A i \in 1..Len(q) : f[i - 1] \in Holdings /\ f[i] = Held(f[i - 1], q[i])
  <2> TAKE i \in 1..Len(q)
  <2>1. f[i - 1] \in Holdings /\ q[i] \in Inputs
    BY <1>2, <1>3
  <2>2. g[<<f[i - 1], q[i]>>] = Held(f[i - 1], q[i])
    BY <2>1
  <2> QED BY <2>1, <2>2, <1>4 DEF Steps
<1>6. R(f)
  <2> DEFINE e(i) == IF i = 0 THEN start ELSE Held(f[i - 1], q[i])
  <2>1. \A i \in 0..Len(q) : f[i] = e(i)
    BY <1>2, <1>4, <1>5 DEF Steps
  <2> HIDE DEF e
  <2>2. f = [i \in 0..Len(q) |-> e(i)]
    BY <1>3, <2>1
  <2> QED BY <2>2 DEF e
<1>7. R(chosen)
  BY <1>6
<1> HIDE DEF chosen
<1>8. /\ chosen[0] = start
      /\ \A i \in 1..Len(q) : chosen[i] = Held(chosen[i - 1], q[i])
  <2> DEFINE e(i) == IF i = 0 THEN start ELSE Held(chosen[i - 1], q[i])
  <2>1. chosen = [i \in 0..Len(q) |-> e(i)]
    BY <1>7
  <2> HIDE DEF e
  <2>2. \A i \in 0..Len(q) : chosen[i] = e(i)
    BY <2>1
  <2> QED BY <2>2, <1>2 DEF e
<1>9. GoOnAlike(f, chosen, Len(q))
  <2>1. f[0] = chosen[0]
    BY <1>4, <1>8 DEF Steps
  <2>2. ASSUME NEW i \in 1..Len(q), f[i - 1] = chosen[i - 1]
        PROVE  f[i] = chosen[i]
    BY <1>5, <1>8, <2>2
  <2> QED BY <2>1, <2>2 DEF GoOnAlike
<1>10. f[Len(q)] = chosen[Len(q)]
  BY <1>2, <1>9, RunsAgree DEF Alike
<1> QED BY <1>1, <1>2, <1>3, <1>10, OutcomeOfRun

LEMMA HeldFacts ==
  ASSUME NEW start \in Holdings, NEW q \in Seq(Inputs)
  PROVE  /\ HeldAfter(start, <<>>) = start
         /\ HeldAfter(start, q) \in Holdings
         /\ \A e \in Inputs : HeldAfter(start, Append(q, e))
                               = Held(HeldAfter(start, q), e)
         /\ q # <<>> => HeldAfter(start, q)
                          = HeldAfter(Held(start, Head(q)), Tail(q))
<1> DEFINE g == [p \in Holdings \X Inputs |-> Held(p[1], p[2])]
<1>0. IsStep(g, Holdings, Inputs)
  BY HeldType DEF IsStep
<1>1. \A s \in Holdings, e \in Inputs : g[<<s, e>>] = Held(s, e)
  BY HeldType
<1>2. \A s \in Holdings, p \in Seq(Inputs) : HeldAfter(s, p) = Outcome(g, s, p)
  BY HeldOutcome
<1> HIDE DEF g
<1>3. <<>> \in Seq(Inputs)
  BY EmptySeq
<1>4. HeldAfter(start, <<>>) = start
  BY <1>2, <1>3, OutcomeOfNothing
<1>5. ASSUME NEW e \in Inputs
      PROVE  /\ HeldAfter(start, q) \in Holdings
             /\ HeldAfter(start, Append(q, e)) = Held(HeldAfter(start, q), e)
  <2>1. Append(q, e) \in Seq(Inputs)
    BY AppendProperties
  <2>2. /\ Outcome(g, start, q) \in Holdings
        /\ Outcome(g, start, Append(q, e)) = g[<<Outcome(g, start, q), e>>]
    BY <1>0, OutcomeOfAppend
  <2> QED BY <1>1, <1>2, <2>1, <2>2
<1>6. ASSUME q # <<>>
      PROVE  /\ HeldAfter(start, q) \in Holdings
             /\ HeldAfter(start, q) = HeldAfter(Held(start, Head(q)), Tail(q))
  <2>1. Head(q) \in Inputs /\ Tail(q) \in Seq(Inputs)
    BY <1>6, HeadAndTail
  <2>2. g[<<start, Head(q)>>] = Held(start, Head(q)) /\ Held(start, Head(q)) \in Holdings
    BY <1>1, <2>1, HeldType
  <2>3. Outcome(g, start, q) = Outcome(g, g[<<start, Head(q)>>], Tail(q))
    BY <1>0, <1>6, OutcomeOfTail
  <2>4. HeldAfter(start, q) = HeldAfter(Held(start, Head(q)), Tail(q))
    BY <1>2, <2>1, <2>2, <2>3
  <2>5. HeldAfter(start, q) \in Holdings
    BY <1>5, <2>1
  <2> QED BY <2>4, <2>5
<1>7. HeldAfter(start, q) \in Holdings
  BY <1>4, <1>6
<1> QED BY <1>4, <1>5, <1>6, <1>7

-----------------------------------------------------------------------------
(* MapMirrorsVault: an answer appended tells the map what the vault did, and  *)
(* an answer drained does to the map what it tells.                          *)

LEMMA MirrorIs == MapMirrorsVault <=> HeldAfter(owners, inputs) = Contributions(vault.preserves)
BY DEF MapMirrorsVault, HeldAfter

LEMMA MirrorSides ==
  ASSUME Typed
  PROVE  owners \in Holdings /\ inputs \in Seq(Inputs)
BY DEF Typed, WorldTyped, QueuesTyped, Holdings

LEMMA MirrorKept ==
  ASSUME MapMirrorsVault, UNCHANGED <<owners, inputs, vault>>
  PROVE  MapMirrorsVault'
BY MirrorIs DEF MapMirrorsVault

LEMMA MirrorAppend ==
  ASSUME Typed, MapMirrorsVault, NEW in \in Inputs, inputs' = Append(inputs, in),
         owners' = owners,
         Contributions(vault'.preserves) = Held(Contributions(vault.preserves), in)
  PROVE  MapMirrorsVault'
<1>1. HeldAfter(owners, Append(inputs, in)) = Held(HeldAfter(owners, inputs), in)
  BY MirrorSides, HeldFacts
<1>2. HeldAfter(owners, inputs) = Contributions(vault.preserves)
  BY MirrorIs
<1>3. HeldAfter(owners', inputs') = Contributions(vault'.preserves)
  BY <1>1, <1>2
<1> QED BY <1>3 DEF MapMirrorsVault, HeldAfter

\* A notice tells nothing of the preserves.
LEMMA NoticeTells ==
  ASSUME NEW k, NEW on, NEW held
  PROVE  Held(held, Notice(k, on)) = held
<1>1. Notice(k, on).result.is = "Availability"
  BY DEF Notice
<1> QED BY <1>1 DEF Held

LEMMA MirrorDrain ==
  ASSUME Answering, MapMirrorsVault, Drain
  PROVE  MapMirrorsVault'
<1> DEFINE in == Head(inputs)
<1>0. Typed /\ Sequenced /\ Answerable
  BY DEF Answering
<1>1. inputs # <<>> /\ inputs' = Tail(inputs) /\ vault' = vault
  BY <1>0, DrainStep
<1>2. /\ in.result.is = "Availability" => UNCHANGED world
      /\ in.result.is # "Availability" => Apply(in.result)
  BY <1>0, AnswerableDrain
<1>3. owners' = Held(owners, in)
  <2>1. CASE in.result.is \in {"SessionLoaded", "PreserveCreated", "PreserveRemoved"}
    <3>1. Apply(in.result)
      BY <1>2, <2>1
    <3>2. CASE in.result.is = "SessionLoaded"
      BY <3>1, <3>2 DEF Apply, Held, RestoredOwners
    <3>3. CASE in.result.is = "PreserveCreated"
      BY <3>1, <3>3 DEF Apply, Held
    <3>4. CASE in.result.is = "PreserveRemoved"
      BY <3>1, <3>4 DEF Apply, Held
    <3> QED BY <2>1, <3>2, <3>3, <3>4
  <2>2. CASE in.result.is \notin {"SessionLoaded", "PreserveCreated", "PreserveRemoved"}
    <3>1. Held(owners, in) = owners
      BY <2>2 DEF Held
    <3>2. owners' = owners
      BY <1>2, <2>2 DEF Apply, world
    <3> QED BY <3>1, <3>2
  <2> QED BY <2>1, <2>2
<1>4. HeldAfter(owners, inputs) = HeldAfter(Held(owners, in), Tail(inputs))
  BY <1>0, <1>1, MirrorSides, HeldFacts
<1>5. HeldAfter(owners', inputs') = Contributions(vault'.preserves)
  BY <1>1, <1>3, <1>4, MirrorIs
<1> QED BY <1>5 DEF MapMirrorsVault, HeldAfter

LEMMA StepMirrors ==
  ASSUME Answering, MapMirrorsVault, [Next]_vars
  PROVE  MapMirrorsVault'
<1>0. Typed /\ Answering
  BY DEF Answering
<1>1. CASE Quietly
  BY <1>1, MirrorKept DEF Quietly, world
<1>2. ASSUME NEW k, NEW on \in BOOLEAN, Notice(k, on) \in Inputs,
             inputs' = Append(inputs, Notice(k, on)), owners' = owners, vault' = vault
      PROVE  MapMirrorsVault'
  BY <1>0, <1>2, NoticeTells, MirrorAppend
<1>3. ASSUME NEW rebuilt \in BOOLEAN, BeginFrame(rebuilt)
      PROVE  MapMirrorsVault'
  <2>1. owners' = owners /\ vault' = vault /\ lossPending \in BOOLEAN
    BY <1>0, <1>3 DEF BeginFrame, world, Typed, ScreenTyped
  <2>2. CASE lossPending
    BY <1>0, <1>2, <1>3, <2>1, <2>2, BeginFrameTyped
  <2>3. CASE ~lossPending
    BY <1>0, <1>3, <2>1, <2>3, BeginFrameTyped, MirrorKept
  <2> QED BY <2>1, <2>2, <2>3
<1>4. ASSUME NEW step \in {-1, 0, 1}, Update(step)
      PROVE  MapMirrorsVault'
  <2>1. owners' = owners /\ vault' = vault /\ ready \in BOOLEAN
    BY <1>0, <1>4 DEF Update, Typed, ScreenTyped
  <2>2. CASE ready
    BY <1>0, <1>2, <1>4, <2>1, <2>2, UpdateTyped
  <2>3. CASE ~ready
    BY <1>0, <1>4, <2>1, <2>3, UpdateTyped, MirrorKept
  <2> QED BY <2>1, <2>2, <2>3
<1>5. CASE ReduceLayout
  BY <1>0, <1>5, ReduceLayoutTyped, MirrorKept DEF world
<1>6. CASE ServiceAction
  <2>1. UNCHANGED <<inputs, owners, vault>>
    BY <1>0, <1>6, ServiceStep, ActTyped
  <2> QED BY <2>1, MirrorKept
<1>7. CASE Serve
  <2>1. PICK result \in Results : Serves(result)
    BY <1>0, <1>7, ServeAnswers
  <2>2. effects # <<>> /\ Respond(result)
    BY <1>0, <1>7, <2>1, ServeAnswers DEF Serves
  <2> DEFINE in == Answer(Head(effects).id, result)
  <2>3. in \in Inputs /\ inputs' = Append(inputs, in) /\ owners' = owners
    BY <1>0, <2>2, RespondTyped DEF Respond, world
  <2>4. Contributions(vault'.preserves) = Held(Contributions(vault.preserves), in)
    BY <2>1 DEF Serves
  <2> HIDE DEF in
  <2> QED BY <1>0, <2>3, <2>4, MirrorAppend
<1> QED BY <1>0, <1>1, <1>3, <1>4, <1>5, <1>6, <1>7, MirrorDrain, StepCases

\* The preserves the map will hold once the queued answers are in are those of the
\* vault, with a load, a creation and a removal under way at once and some failing
\* (controller.rs, apply_service_result; native main.rs, handle_effects).
THEOREM MapAndVaultAgree == Spec => []MapMirrorsVault
<1>1. Init => MapMirrorsVault
  <2> SUFFICES ASSUME Init PROVE MapMirrorsVault
    OBVIOUS
  <2>1. owners = {} /\ inputs = <<>> /\ vault.preserves = {}
    BY DEF Init
  <2>2. HeldAfter(owners, <<>>) = owners
    BY InitTyped, MirrorSides, HeldFacts
  <2>3. Contributions({}) = {}
    BY DEF Contributions
  <2> QED BY <2>1, <2>2, <2>3, MirrorIs
<1>2. Answering /\ MapMirrorsVault /\ [Next]_vars => MapMirrorsVault'
  BY StepMirrors
<1> QED BY <1>1, <1>2, AlwaysAnswering, PTL DEF Spec

-----------------------------------------------------------------------------
(* PovIsBacked.  Between a recovery and its notice the replacement is ready,  *)
(* and POV is not available; in the frame of a loss the device is down or its *)
(* replacement not announced yet; without availability only the map is shown. *)

View == [last |-> lastSequence, supported |-> supported, layout |-> layout]

\* Outside the split view the focus is on the view shown.
Proper(shown) == shown.mode = "Split" \/ shown.focused = shown.mode

Backed ==
  /\ Drained.last = responseSequence
  /\ ready => renderer = "up"
  /\ ~supported => layout.mode = "Map"
  /\ Proper(layout)
  /\ phase = "tick" /\ lossFrame => renderer = "down" \/ ready
  /\ PovIsBacked

LEMMA ViewIs ==
  ASSUME Typed
  PROVE  /\ View \in Previews /\ inputs \in Seq(Inputs)
         /\ Drained = DrainedAfter(View, inputs) /\ Drained \in Previews
         /\ inputs = <<>> => Drained = View
<1>1. View \in Previews /\ inputs \in Seq(Inputs)
  BY DEF Typed, NumbersTyped, ScreenTyped, QueuesTyped, View, Previews
<1>2. Drained = DrainedAfter(View, inputs)
  BY DEF Drained, DrainedAfter, View
<1> QED BY <1>1, <1>2, DrainedFacts

LEMMA DrainedKept ==
  ASSUME UNCHANGED <<lastSequence, supported, layout, inputs>>
  PROVE  Drained' = Drained
BY DEF Drained

\* What a queue with one entry more drains to.
LEMMA DrainedAppend ==
  ASSUME Typed, Typed', NEW in \in Inputs, inputs' = Append(inputs, in),
         UNCHANGED <<lastSequence, supported, layout>>
  PROVE  Drained' = PreviewInput(Drained, in)
<1>1. View' = View
  BY DEF View
<1>2. DrainedAfter(View, Append(inputs, in)) = PreviewInput(DrainedAfter(View, inputs), in)
  BY ViewIs, DrainedFacts
<1>3. Drained' = DrainedAfter(View', inputs')
  BY DEF Drained, DrainedAfter, View
<1> QED BY <1>1, <1>2, <1>3, ViewIs

LEMMA NoticeShows ==
  ASSUME NEW k \in Nat, NEW on \in BOOLEAN, NEW s \in Previews, k > s.last
  PROVE  /\ PreviewInput(s, Notice(k, on)).last = k
         /\ PreviewInput(s, Notice(k, on)).supported = on
         /\ PreviewInput(s, Notice(k, on)).layout = IF on THEN s.layout ELSE MapLayout
<1>1. /\ Notice(k, on).sequence = k /\ Notice(k, on).result.is = "Availability"
      /\ Notice(k, on).result.supported = on
  BY DEF Notice
<1>2. s.last \in Nat
  BY DEF Previews
<1> HIDE DEF Notice
<1> QED BY <1>1, <1>2 DEF PreviewInput

\* An answer leaves the preview alone.
LEMMA AnswerShows ==
  ASSUME NEW in \in Inputs, NEW s \in Previews, in.sequence > s.last,
         in.result.is # "Availability"
  PROVE  PreviewInput(s, in).last = in.sequence
         /\ PreviewInput(s, in).supported = s.supported
         /\ PreviewInput(s, in).layout = s.layout
<1>1. in.sequence \in Nat /\ s.last \in Nat
  BY DEF Inputs, Previews
<1> QED BY <1>1 DEF PreviewInput, Previews

\* Draining one input leads where draining them all leads.
LEMMA DrainedDrain ==
  ASSUME Answering, Backed, Drain
  PROVE  /\ Drained' = Drained
         /\ ~supported' => layout'.mode = "Map"
         /\ Proper(layout')
<1> DEFINE in == Head(inputs)
<1>0. Typed /\ Sequenced /\ Answerable /\ Typed'
  BY StepTyped DEF Answering, Next, Frame, Tick
<1>1. inputs # <<>> /\ inputs' = Tail(inputs) /\ in \in Inputs
  BY <1>0, DrainStep
<1>2. in.sequence = lastSequence + 1 /\ lastSequence' = in.sequence /\ lastSequence \in Nat
  BY <1>0, SequencedDrain DEF Typed, NumbersTyped
<1>3. /\ in.result.is = "Availability" =>
            supported' = in.result.supported /\ layout' = DegradedLayout(in.result.supported)
      /\ in.result.is # "Availability" => UNCHANGED screen
  BY <1>0, AnswerableDrain
<1>4. layout \in Layouts /\ Proper(layout) /\ (~supported => layout.mode = "Map")
      /\ supported \in BOOLEAN
  BY <1>0 DEF Backed, Typed, ScreenTyped
<1>5. in.result.is = "Availability" => in.result.supported \in BOOLEAN
  BY <1>1 DEF Inputs, Results
<1>6. View' = PreviewInput(View, in)
  <2>1. CASE in.result.is = "Availability"
    <3>1. PreviewInput(View, in) = [last |-> in.sequence, supported |-> in.result.supported,
            layout |-> IF in.result.supported THEN layout ELSE MapLayout]
      BY <1>2, <2>1 DEF PreviewInput, View
    <3>2. DegradedLayout(in.result.supported)
            = IF in.result.supported THEN layout ELSE MapLayout
      <4>1. layout.mode = "Map" => layout = MapLayout
        BY <1>4 DEF Proper, Layouts, MapLayout
      <4> QED BY <1>5, <2>1, <4>1 DEF DegradedLayout
    <3>3. View' = [last |-> in.sequence, supported |-> in.result.supported,
                   layout |-> DegradedLayout(in.result.supported)]
      BY <1>2, <1>3, <2>1 DEF View
    <3> QED BY <3>1, <3>2, <3>3
  <2>2. CASE in.result.is # "Availability"
    <3>1. PreviewInput(View, in) = [View EXCEPT !.last = in.sequence]
      BY <1>2, <2>2 DEF PreviewInput, View
    <3>2. View' = [last |-> in.sequence, supported |-> supported, layout |-> layout]
      BY <1>2, <1>3, <2>2 DEF View, screen
    <3> QED BY <3>1, <3>2 DEF View
  <2> QED BY <2>1, <2>2
<1>7. DrainedAfter(View, inputs) = DrainedAfter(PreviewInput(View, in), Tail(inputs))
  BY <1>0, <1>1, ViewIs, DrainedFacts
<1>8. Drained' = DrainedAfter(View', inputs')
  BY DEF Drained, DrainedAfter, View
<1>9. Drained' = Drained
  BY <1>0, <1>1, <1>6, <1>7, <1>8, ViewIs
<1>10. (~supported' => layout'.mode = "Map") /\ Proper(layout')
  <2>1. MapLayout.mode = "Map" /\ Proper(MapLayout)
    BY DEF MapLayout, Proper
  <2>2. CASE in.result.is = "Availability"
    BY <1>3, <1>4, <1>5, <2>1, <2>2 DEF DegradedLayout
  <2>3. CASE in.result.is # "Availability"
    BY <1>3, <1>4, <2>3 DEF screen
  <2> QED BY <2>2, <2>3
<1> QED BY <1>9, <1>10

LEMMA ReduceProper ==
  ASSUME NEW shown \in Layouts, Proper(shown), NEW able, NEW c \in Commands
  PROVE  Proper(Reduce(shown, able, c))
<1>1. c \in LayoutCommands \/ c \in [do : ServiceCommands, to : {"Map"}]
  BY ViewerAssumption DEF ViewerAssumption
<1>2. CASE c.do = "SetPresentation"
  BY <1>2 DEF Reduce, Present, Proper
<1>3. CASE c.do = "TogglePrimaryView"
  <2>1. CASE shown.mode = "Split"
    BY <1>3, <2>1 DEF Reduce, Proper, Layouts
  <2>2. CASE shown.mode # "Split"
    BY <1>3, <2>2 DEF Reduce, Present, Proper
  <2> QED BY <2>1, <2>2
<1>4. CASE c.do = "FocusView"
  BY <1>4 DEF Reduce, IsVisible, Proper, Layouts
<1>5. CASE c.do \in ServiceCommands
  BY <1>5 DEF Reduce, ServiceCommands
<1> QED BY <1>1, <1>2, <1>3, <1>4, <1>5 DEF LayoutCommands

LEMMA ServiceKept ==
  ASSUME Typed, ServiceAction
  PROVE  /\ inputs = <<>> /\ phase = "tick" /\ actions # <<>>
         /\ Head(actions) \in Commands /\ Head(actions).do \in ServiceCommands
         /\ actions' = Tail(actions)
         /\ UNCHANGED <<lastSequence, supported, layout, inputs, phase, renderer, lossFrame, ready,
                        responseSequence>>
<1>1. PICK do \in ServiceCommands : Act(do)
  BY ServiceStep
<1>2. lastSequence' = lastSequence
  <2>1. \A kind, e : Ask(kind, e) => lastSequence' = lastSequence
    BY DEF Ask
  <2>2. UNCHANGED requests => lastSequence' = lastSequence
    BY DEF requests
  <2> QED BY <2>1, <2>2, ServiceStep
<1> QED BY <1>1, <1>2, ActTyped, ServiceStep

LEMMA BackedKept ==
  ASSUME Backed, UNCHANGED <<lastSequence, supported, layout, inputs, renderer, lossFrame, ready,
                             responseSequence>>,
         phase' \in {phase, "idle"}
  PROVE  Backed'
<1>1. Drained' = Drained
  BY DrainedKept
<1> QED BY <1>1 DEF Backed, PovIsBacked, Proper

LEMMA BackedBeginFrame ==
  ASSUME Typed, Typed', Backed, NEW rebuilt \in BOOLEAN, BeginFrame(rebuilt)
  PROVE  Backed'
<1>1. /\ phase' = "tick" /\ (rebuilt => lossPending \/ renderer = "down")
      /\ renderer' = IF rebuilt THEN "up" ELSE IF lossPending THEN "down" ELSE renderer
      /\ ready' = IF lossPending THEN rebuilt ELSE ready \/ rebuilt
      /\ lossFrame' = lossPending
      /\ UNCHANGED <<lastSequence, supported, layout>>
  BY DEF BeginFrame, requests, screen
<1>2. /\ lossPending \in BOOLEAN /\ ready \in BOOLEAN /\ renderer \in {"up", "down"}
      /\ responseSequence \in Nat /\ responseSequence + 1 \in Nat
  BY DEF Typed, ScreenTyped, NumbersTyped
<1>3. Drained'.last = responseSequence' /\ (Drained'.supported <=> renderer' = "up" /\ ~ready')
  <2>1. Drained.last = responseSequence /\ (Drained.supported <=> renderer = "up" /\ ~ready)
        /\ (ready => renderer = "up")
    BY DEF Backed, PovIsBacked
  <2>2. CASE lossPending
    <3>1. Drained' = PreviewInput(Drained, Notice(responseSequence + 1, FALSE))
          /\ responseSequence' = responseSequence + 1
      BY <1>1, <2>2, BeginFrameTyped, DrainedAppend
    <3>2. FALSE \in BOOLEAN /\ Drained \in Previews /\ responseSequence + 1 > Drained.last
      BY <1>2, <2>1, ViewIs
    <3>3. Drained'.last = responseSequence' /\ Drained'.supported = FALSE
      BY <1>2, <3>1, <3>2, NoticeShows
    <3> QED BY <1>1, <1>2, <2>2, <3>3
  <2>3. CASE ~lossPending
    <3>1. inputs' = inputs /\ responseSequence' = responseSequence
      BY <2>3, BeginFrameTyped
    <3>2. Drained' = Drained
      BY <1>1, <3>1, DrainedKept
    <3> QED BY <1>1, <1>2, <2>1, <2>3, <3>1, <3>2
  <2> QED BY <1>2, <2>2, <2>3
<1>4. (ready' => renderer' = "up") /\ (lossFrame' => renderer' = "down" \/ ready')
  BY <1>1, <1>2 DEF Backed
<1> QED BY <1>1, <1>3, <1>4 DEF Backed, PovIsBacked, Proper

LEMMA BackedUpdate ==
  ASSUME Typed, Typed', Backed, NEW step \in {-1, 0, 1}, Update(step)
  PROVE  Backed' /\ Drained'.layout = layout /\ inputs = <<>> /\ actions = <<>> /\ actions' = <<>>
<1>1. /\ phase = "tick" /\ phase' = "serve" /\ inputs = <<>> /\ ready' = FALSE
      /\ actions = <<>> /\ actions' = <<>>
      /\ UNCHANGED <<lastSequence, supported, layout, renderer, lossFrame>>
  BY DEF Update, requests, screen
<1>2. /\ ready \in BOOLEAN /\ renderer \in {"up", "down"} /\ lossFrame \in BOOLEAN
      /\ responseSequence \in Nat /\ responseSequence + 1 \in Nat /\ supported \in BOOLEAN
  BY DEF Typed, ScreenTyped, NumbersTyped
<1>3. /\ Drained = View /\ Drained.supported = supported /\ Drained.layout = layout
  BY <1>1, ViewIs DEF View
<1>4. /\ Drained.last = responseSequence /\ (supported <=> renderer = "up" /\ ~ready)
      /\ (ready => renderer = "up") /\ (~supported => layout.mode = "Map")
      /\ (lossFrame => renderer = "down" \/ ready)
  BY <1>1, <1>3 DEF Backed, PovIsBacked
<1>5. /\ Drained'.last = responseSequence' /\ Drained'.layout = layout
      /\ (Drained'.supported <=> renderer' = "up" /\ ~ready')
  <2>1. CASE ready
    <3>1. Drained' = PreviewInput(Drained, Notice(responseSequence + 1, TRUE))
          /\ responseSequence' = responseSequence + 1
      BY <1>1, <2>1, UpdateTyped, DrainedAppend
    <3>2. TRUE \in BOOLEAN /\ Drained \in Previews /\ responseSequence + 1 > Drained.last
      BY <1>2, <1>4, ViewIs
    <3>3. Drained'.last = responseSequence' /\ Drained'.supported = TRUE /\ Drained'.layout = layout
      BY <1>2, <1>3, <3>1, <3>2, NoticeShows
    <3> QED BY <1>1, <1>4, <2>1, <3>3
  <2>2. CASE ~ready
    <3>1. inputs' = inputs /\ responseSequence' = responseSequence
      BY <2>2, UpdateTyped
    <3>2. Drained' = Drained
      BY <1>1, <3>1, DrainedKept
    <3> QED BY <1>1, <1>3, <1>4, <2>2, <3>1, <3>2
  <2> QED BY <1>2, <2>1, <2>2
<1>6. layout.mode # "Map" => renderer = "up" /\ ~lossFrame
  BY <1>2, <1>4
<1>7. Proper(layout)
  BY DEF Backed
<1>8. Backed'
  BY <1>1, <1>4, <1>5, <1>6, <1>7 DEF Backed, PovIsBacked, Proper
<1> QED BY <1>1, <1>5, <1>8

LEMMA BackedReduceLayout ==
  ASSUME Typed, Typed', Backed, ReduceLayout
  PROVE  Backed'
<1>1. /\ phase = "tick" /\ phase' = phase /\ inputs = <<>> /\ inputs' = inputs
      /\ layout' = Reduce(layout, supported, Head(actions)) /\ Head(actions) \in Commands
      /\ UNCHANGED <<lastSequence, supported, renderer, lossFrame, ready, responseSequence>>
  BY ActTyped DEF ReduceLayout, requests
<1>2. layout \in Layouts /\ supported \in BOOLEAN /\ Proper(layout)
      /\ (~supported => layout.mode = "Map")
  BY DEF Typed, ScreenTyped, Backed
<1>3. Proper(layout') /\ (~supported => layout'.mode = "Map")
  BY <1>1, <1>2, ReduceProper, ReduceType
<1>4. Drained = View /\ Drained' = View'
  <2>1. Drained = View
    BY <1>1, ViewIs
  <2>2. View' \in Previews /\ Drained' = DrainedAfter(View', inputs')
    <3>1. View' \in Previews
      BY DEF Typed, NumbersTyped, ScreenTyped, View, Previews
    <3>2. Drained' = DrainedAfter(View', inputs')
      BY DEF Drained, DrainedAfter, View
    <3> QED BY <3>1, <3>2
  <2>3. <<>> \in Seq(Inputs)
    BY EmptySeq
  <2>4. DrainedAfter(View', <<>>) = View'
    BY <2>2, <2>3, DrainedFacts
  <2> QED BY <1>1, <2>1, <2>2, <2>4
<1>5. Drained'.last = Drained.last /\ Drained'.supported = Drained.supported
  BY <1>1, <1>4 DEF View
<1> QED BY <1>1, <1>3, <1>5 DEF Backed, PovIsBacked

LEMMA BackedServe ==
  ASSUME Typed, Typed', Backed, Serve
  PROVE  Backed'
<1>1. PICK result \in Results : Serves(result)
  BY ServeAnswers
<1>2. effects # <<>> /\ Respond(result) /\ result.is # "Availability"
  BY <1>1, ServeAnswers DEF Serves
<1> DEFINE in == Answer(Head(effects).id, result)
<1>3. /\ in \in Inputs /\ inputs' = Append(inputs, in) /\ in.sequence = responseSequence + 1
      /\ in.result.is # "Availability" /\ responseSequence' = responseSequence + 1
      /\ UNCHANGED <<phase, lastSequence, supported, layout, renderer, lossFrame, ready>>
  BY <1>2, RespondTyped DEF Respond, Answer, requests, screen, device
<1> HIDE DEF in
<1>4. Drained' = PreviewInput(Drained, in) /\ Drained \in Previews
  BY <1>3, DrainedAppend, ViewIs
<1>5. Drained.last = responseSequence /\ responseSequence \in Nat
  BY DEF Backed, Typed, NumbersTyped
<1>6. Drained'.last = responseSequence' /\ Drained'.supported = Drained.supported
  <2>1. in.sequence > Drained.last
    BY <1>3, <1>5
  <2> QED BY <2>1, <1>3, <1>4, AnswerShows
<1> QED BY <1>3, <1>6 DEF Backed, PovIsBacked, Proper

LEMMA StepBacked ==
  ASSUME Answering, Backed, [Next]_vars
  PROVE  Backed'
<1>0. Typed /\ Typed'
  BY StepTyped DEF Answering
<1>1. CASE Quietly
  <2>1. UNCHANGED <<lastSequence, supported, layout, inputs, renderer, lossFrame, ready,
                    responseSequence>> /\ phase' \in {phase, "idle"}
    BY <1>1 DEF Quietly, requests, screen
  <2> QED BY <2>1, BackedKept
<1>2. CASE Drain
  <2>1. Drained' = Drained /\ (~supported' => layout'.mode = "Map") /\ Proper(layout')
    BY <1>2, DrainedDrain
  <2>2. phase = "tick" /\ UNCHANGED <<phase, renderer, lossFrame, ready, responseSequence>>
    BY <1>0, <1>2, DrainStep
  <2> QED BY <2>1, <2>2 DEF Backed, PovIsBacked
<1>3. CASE ServiceAction
  BY <1>0, <1>3, ServiceKept, BackedKept
<1> QED BY <1>0, <1>1, <1>2, <1>3, BackedBeginFrame, BackedReduceLayout, BackedServe,
           BackedUpdate, StepCases

LEMMA AlwaysBacked == Spec => [](Answering /\ Backed)
<1>1. Init => Backed
  <2> SUFFICES ASSUME Init PROVE Backed
    OBVIOUS
  <2>1. /\ inputs = <<>> /\ responseSequence = 1 /\ lastSequence = 1 /\ layout = MapLayout
        /\ supported = TRUE /\ renderer = "up" /\ ready = FALSE /\ phase = "idle"
    BY DEF Init
  <2>2. Drained = View
    BY <2>1, InitTyped, ViewIs
  <2>3. Drained.last = 1 /\ Drained.supported = TRUE
    BY <2>1, <2>2 DEF View
  <2> QED BY <2>1, <2>3 DEF Backed, PovIsBacked, Proper, MapLayout
<1>2. Answering /\ Backed /\ [Next]_vars => Backed'
  BY StepBacked
<1> QED BY <1>1, <1>2, AlwaysAnswering, PTL DEF Spec

\* Once the queue is drained POV is available exactly if there is a device whose
\* recovery is announced, and a frame shows POV only over a device and never in the
\* frame of a loss (native main.rs, recover_lost_renderer; controller.rs,
\* set_pov_supported).
THEOREM PovNeedsADevice == Spec => []PovIsBacked
<1>1. Backed => PovIsBacked
  BY DEF Backed
<1> QED BY <1>1, AlwaysBacked, PTL

-----------------------------------------------------------------------------
(* PreviewIsExact: a step of the tick takes the first entry of one queue to   *)
(* the state, and the preview takes it first.                                *)

LEMMA PreviewIs == Preview = ReducedAfter(Drained.supported, Drained.layout, actions)
BY DEF Preview, ReducedAfter

LEMMA PreviewPrimed == Preview' = ReducedAfter(Drained'.supported, Drained'.layout, actions')
<1>1. (Preview = ReducedAfter(Drained.supported, Drained.layout, actions))'
  BY PreviewIs, PTL
<1> QED BY <1>1

\* One action taken, with no input queued.
LEMMA PreviewAct ==
  ASSUME Typed, Typed', inputs = <<>>, inputs' = <<>>, actions # <<>>, actions' = Tail(actions),
         supported' = supported, layout' = Reduce(layout, supported, Head(actions))
  PROVE  Preview' = Preview
<1>1. layout \in Layouts /\ supported \in BOOLEAN /\ actions \in Seq(Commands)
  BY DEF Typed, ScreenTyped, QueuesTyped
<1>2. Drained = View
  BY ViewIs
<1>3. Drained' = View'
  <2>1. View' \in Previews
    BY DEF Typed, NumbersTyped, ScreenTyped, View, Previews
  <2>2. Drained' = DrainedAfter(View', inputs')
    BY DEF Drained, DrainedAfter, View
  <2>3. <<>> \in Seq(Inputs)
    BY EmptySeq
  <2>4. DrainedAfter(View', <<>>) = View'
    BY <2>1, <2>3, DrainedFacts
  <2> QED BY <2>2, <2>4
<1>4. Drained.supported = supported /\ Drained.layout = layout
      /\ Drained'.supported = supported
      /\ Drained'.layout = Reduce(layout, supported, Head(actions))
  BY <1>2, <1>3 DEF View
<1>5. ReducedAfter(supported, layout, actions)
        = ReducedAfter(supported, Reduce(layout, supported, Head(actions)), Tail(actions))
  BY <1>1, ReducedFacts
<1> QED BY <1>4, <1>5, PreviewIs, PreviewPrimed

LEMMA StepPreviewed ==
  ASSUME Answering, Backed, [Next]_vars, phase = "tick"
  PROVE  Preview' = Preview
<1>0. Typed /\ Typed'
  BY StepTyped DEF Answering
<1>1. CASE Quietly
  <2>1. UNCHANGED <<lastSequence, supported, layout, inputs, actions>>
    BY <1>1 DEF Quietly, requests, screen
  <2>2. Drained' = Drained
    BY <2>1, DrainedKept
  <2> QED BY <2>1, <2>2, PreviewIs, PreviewPrimed
<1>2. CASE Drain
  BY <1>0, <1>2, DrainedDrain, DrainStep, PreviewIs, PreviewPrimed
<1>3. CASE ReduceLayout
  <2>1. /\ inputs = <<>> /\ inputs' = <<>> /\ actions # <<>> /\ actions' = Tail(actions)
        /\ supported' = supported /\ layout' = Reduce(layout, supported, Head(actions))
    BY <1>0, <1>3, ActTyped DEF ReduceLayout
  <2> QED BY <1>0, <2>1, PreviewAct
<1>4. CASE ServiceAction
  <2>1. /\ inputs = <<>> /\ inputs' = <<>> /\ actions # <<>> /\ actions' = Tail(actions)
        /\ supported' = supported /\ layout' = layout
        /\ Head(actions) \in Commands /\ Head(actions).do \in ServiceCommands
    BY <1>0, <1>4, ServiceKept
  <2>2. Reduce(layout, supported, Head(actions)) = layout
    BY <1>0, <2>1, ReduceType DEF Typed, ScreenTyped
  <2> QED BY <1>0, <2>1, <2>2, PreviewAct
<1>5. ASSUME NEW step \in {-1, 0, 1}, Update(step)
      PROVE  Preview' = Preview
  <2>1. Backed' /\ Drained'.layout = layout /\ inputs = <<>> /\ actions = <<>> /\ actions' = <<>>
    BY <1>0, <1>5, BackedUpdate
  <2>2. /\ Drained = View /\ Drained.layout = layout
    BY <1>0, <2>1, ViewIs DEF View
  <2>3. Drained.supported \in BOOLEAN /\ Drained'.supported \in BOOLEAN /\ layout \in Layouts
    <3>1. Drained.supported \in BOOLEAN /\ layout \in Layouts
      BY <1>0, <2>2 DEF View, Typed, ScreenTyped
    <3>2. Drained'.supported \in BOOLEAN
      <4>1. Drained'.supported <=> renderer' = "up" /\ ~ready'
        BY <2>1 DEF Backed, PovIsBacked
      <4>2. Drained' \in Previews
        <5>1. (Typed => Drained \in Previews)
          BY ViewIs
        <5>2. View' \in Previews /\ inputs' \in Seq(Inputs)
          BY <1>0 DEF Typed, NumbersTyped, ScreenTyped, QueuesTyped, View, Previews
        <5>3. Drained' = DrainedAfter(View', inputs')
          BY DEF Drained, DrainedAfter, View
        <5> QED BY <5>2, <5>3, DrainedFacts
      <4> QED BY <4>2 DEF Previews
    <3> QED BY <3>1, <3>2
  <2>4. <<>> \in Seq(Commands)
    BY EmptySeq
  <2>5. /\ ReducedAfter(Drained.supported, layout, <<>>) = layout
        /\ ReducedAfter(Drained'.supported, layout, <<>>) = layout
    BY <2>3, <2>4, ReducedFacts
  <2> QED BY <2>1, <2>2, <2>5, PreviewIs, PreviewPrimed
<1>6. ~Serve /\ \A rebuilt \in BOOLEAN : ~BeginFrame(rebuilt)
  BY DEF Serve, ServePersist, ServeLoad, ServeCreate, ServeRemove, ServeRoute,
         ServeClear, ServeTracking, Serving, BeginFrame
<1> QED BY <1>0, <1>1, <1>2, <1>3, <1>4, <1>5, <1>6, StepCases

\* The layout that input was decoded against, with the queued inputs and actions
\* previewed, is the one the tick arrives at (controller.rs, preview_layout).
THEOREM PreviewIsWhatIsShown == Spec => PreviewIsExact
<1>1. Answering /\ Backed /\ [Next]_vars => [phase = "tick" => Preview' = Preview]_vars
  BY StepPreviewed
<1> QED BY <1>1, AlwaysBacked, PTL DEF Spec, PreviewIsExact

-----------------------------------------------------------------------------
(* RouteWasTravelled.  The nodes are samples of the way between the last one  *)
(* and the traveler, and every place on that way was walked, as long as there *)
(* is room for another node.  An expedition moves with its session, and with  *)
(* it the place it had reached.                                              *)

Between(n, a, b) == (a <= n /\ n <= b) \/ (b <= n /\ n <= a)

NodesWalked(r) == \A i \in 1..Len(r.nodes) : r.nodes[i] \in r.walked
WayWalked(r, p) ==
  Len(r.nodes) < MaxNodes =>
    /\ r.accumulated < Spacing
    /\ r.last # None => \A n \in Int : Between(n, r.last, p) => n \in r.walked
OpenAt(r, p) == r # None => NodesWalked(r) /\ WayWalked(r, p)
SessionWalked(s) == (s.recorder # None => s.tracking) /\ OpenAt(s.recorder, s.player)
EffectWalked(e) ==
  /\ e.do = "PersistSession" => SessionWalked(e.session)
  /\ e.do = "WriteRoute" => NodesWalked(e.route)
InputWalked(in) == in.result.is = "SessionLoaded" => SessionWalked(in.result.session)

Travelled ==
  /\ recorder # None => tracking
  /\ OpenAt(recorder, place)
  /\ vault.session # None => SessionWalked(vault.session)
  /\ \A route \in vault.routes : NodesWalked(route)
  /\ \A i \in 1..Len(effects) : EffectWalked(effects[i])
  /\ \A i \in 1..Len(inputs) : InputWalked(inputs[i])

\* Every sample lies on the way from the last one to p.
LEMMA SamplesBetween ==
  ASSUME NEW r \in Expeditions, NEW p \in Places, r.last # None, Len(r.nodes) < MaxNodes,
         r.accumulated < Spacing
  PROVE  \A i \in 1..Count(r, p) : Samples(r, p)[i] \in Int /\ Between(Samples(r, p)[i], r.last, p)
<1> TAKE i \in 1..Count(r, p)
<1>1. /\ r.last \in Int /\ p \in Int /\ r.accumulated \in Nat /\ Spacing \in Nat \ {0}
      /\ r.accumulated < Spacing
  BY SamplesAre, ViewerAssumption DEF ViewerAssumption, Expeditions
<1>2. /\ Count(r, p) \in Nat /\ i * Spacing \in Nat /\ i * Spacing <= r.accumulated + Far(r, p)
      /\ Samples(r, p)[i] = r.last + Side(r, p) * (i * Spacing - r.accumulated)
  BY SamplesAre
<1> DEFINE d == i * Spacing - r.accumulated
<1>3. Spacing <= i * Spacing
  BY <1>1, <1>2
<1>4. d \in Int /\ 0 < d /\ d <= Far(r, p) /\ Samples(r, p)[i] = r.last + Side(r, p) * d
  <2>1. Far(r, p) \in Int
    BY <1>1 DEF Far
  <2> DEFINE m == i * Spacing
  <2>2. m \in Nat /\ Spacing <= m /\ m <= r.accumulated + Far(r, p)
    BY <1>2, <1>3
  <2>3. d = m - r.accumulated
    OBVIOUS
  <2> HIDE DEF m
  <2>4. d \in Int /\ 0 < d /\ d <= Far(r, p)
    BY <1>1, <2>1, <2>2, <2>3
  <2> QED BY <1>2, <2>4
<1> HIDE DEF d
<1>5. CASE p > r.last
  BY <1>1, <1>4, <1>5 DEF Far, Side, Between
<1>6. CASE ~(p > r.last)
  BY <1>1, <1>4, <1>6 DEF Far, Side, Between
<1> QED BY <1>5, <1>6

\* What is left over when every sample due was taken is less than a spacing.
LEMMA RestIsShort ==
  ASSUME NEW r \in Expeditions, NEW p \in Places, r.last # None, Len(r.nodes) < MaxNodes,
         Len(r.nodes) + Count(r, p) < MaxNodes
  PROVE  r.accumulated + Far(r, p) - Count(r, p) * Spacing < Spacing
<1>1. /\ Far(r, p) \in Nat /\ Due(r, p) \in Nat /\ r.accumulated \in Nat /\ Spacing \in Nat \ {0}
      /\ MaxNodes \in Nat /\ Len(r.nodes) \in Nat
  BY SamplesAre, ViewerAssumption, LenProperties DEF ViewerAssumption, Expeditions
<1>2. Count(r, p) = Due(r, p)
  BY <1>1 DEF Count
<1>3. r.accumulated + Far(r, p) < Due(r, p) * Spacing + Spacing /\ Due(r, p) * Spacing \in Int
  <2>1. r.accumulated + Far(r, p) \in Nat
    BY <1>1
  <2>2. Due(r, p) * Spacing \in Int
    BY <1>1
  <2> QED BY <2>1, <2>2, <1>1, WholeParts DEF Due
<1> QED BY <1>1, <1>2, <1>3

LEMMA ObservedOpen ==
  ASSUME recorder \in Expeditions \cup {None}, place \in Places, OpenAt(recorder, place),
         NEW p \in Places, p \in {place - 1, place, place + 1}, NEW after \in Observed(p)
  PROVE  OpenAt(after, p) /\ (after # None => recorder # None)
<1>1. CASE recorder = None
  BY <1>1 DEF Observed, OpenAt
<1>2. CASE recorder # None
  <2> DEFINE r == [recorder EXCEPT !.walked = @ \cup {p}]
  <2>0. MaxNodes \in Nat /\ place \in Int /\ p \in Int /\ Spacing \in Nat \ {0}
    BY ViewerAssumption DEF ViewerAssumption
  <2>1. /\ r \in Expeditions /\ r.nodes = recorder.nodes /\ r.last = recorder.last
        /\ r.accumulated = recorder.accumulated /\ r.walked = recorder.walked \cup {p}
        /\ r.nodes \in Seq(Int) /\ Len(r.nodes) \in Nat /\ r.accumulated \in Nat
        /\ r.last \in Int \cup {None}
    BY <1>2, LenProperties DEF Expeditions
  <2>2. after \in IF Len(r.nodes) >= MaxNodes THEN {r}
                  ELSE IF r.last = None
                  THEN {r, [r EXCEPT !.nodes = Append(@, p), !.last = p]}
                  ELSE {Observe(r, p, taken) : taken \in 0..Len(Samples(r, p))}
    BY <1>2 DEF Observed
  <2>3. NodesWalked(recorder) /\ WayWalked(recorder, place)
    BY <1>2 DEF OpenAt
  <2> HIDE DEF r
  <2>4. NodesWalked(r) /\ p \in r.walked
    BY <2>1, <2>3 DEF NodesWalked
  <2>5. WayWalked(r, p)
    <3> SUFFICES ASSUME Len(r.nodes) < MaxNodes
                 PROVE  /\ r.accumulated < Spacing
                        /\ r.last # None =>
                             \A n \in Int : Between(n, r.last, p) => n \in r.walked
      BY DEF WayWalked
    <3>1. /\ r.accumulated < Spacing
          /\ r.last # None =>
               \A n \in Int : Between(n, r.last, place) => n \in recorder.walked
      BY <2>1, <2>3 DEF WayWalked
    <3>2. ASSUME r.last # None, NEW n \in Int, Between(n, r.last, p)
          PROVE  n \in r.walked
      <4>1. r.last \in Int
        BY <2>1, <3>2
      <4>2. n = p \/ Between(n, r.last, place)
        BY <2>0, <3>2, <4>1 DEF Between
      <4> QED BY <3>1, <3>2, <4>2, <2>1
    <3> QED BY <3>1, <3>2
  <2>6. CASE after = r
    BY <2>4, <2>5, <2>6, <1>2 DEF OpenAt
  <2>7. ASSUME ~(Len(r.nodes) >= MaxNodes),
               after = [r EXCEPT !.nodes = Append(@, p), !.last = p]
        PROVE  NodesWalked(after) /\ WayWalked(after, p)
    <3>1. /\ after.nodes = Append(r.nodes, p) /\ after.last = p /\ after.walked = r.walked
          /\ after.accumulated = r.accumulated
      BY <2>1, <2>7 DEF Expeditions
    <3>2. NodesWalked(after)
      <4>1. /\ Len(after.nodes) = Len(r.nodes) + 1 /\ after.nodes[Len(r.nodes) + 1] = p
            /\ \A i \in 1..Len(r.nodes) : after.nodes[i] = r.nodes[i]
            /\ \A i \in 1..Len(after.nodes) : i \in 1..Len(r.nodes) \/ i = Len(r.nodes) + 1
        BY <2>0, <2>1, <3>1, AppendIndices
      <4> QED BY <4>1, <3>1, <2>4 DEF NodesWalked
    <3>3. r.accumulated < Spacing
      BY <2>0, <2>1, <2>5, <2>7 DEF WayWalked
    <3>4. \A n \in Int : Between(n, p, p) => n = p
      BY <2>0 DEF Between
    <3> QED BY <3>1, <3>2, <3>3, <3>4, <2>4 DEF WayWalked
  <2>8. ASSUME ~(Len(r.nodes) >= MaxNodes), r.last # None,
               NEW taken \in 0..Len(Samples(r, p)), after = Observe(r, p, taken)
        PROVE  NodesWalked(after) /\ WayWalked(after, p)
    <3>1. Len(r.nodes) < MaxNodes
      BY <2>0, <2>1, <2>8
    <3> DEFINE s == Samples(r, p)
               k == Count(r, p)
               added == SubSeq(s, 1, taken)
               left == r.accumulated + Far(r, p) - taken * Spacing
    <3>2. /\ r.accumulated < Spacing
          /\ \A n \in Int : Between(n, r.last, p) => n \in r.walked
      BY <2>5, <2>8, <3>1 DEF WayWalked
    <3>3. s \in Seq(Int) /\ Len(s) = k /\ k \in Nat /\ r.last \in Int
      BY <2>1, <2>8, <3>1, SamplesAre
    <3>4. \A i \in 1..k : s[i] \in Int /\ Between(s[i], r.last, p)
      BY <2>1, <2>8, <3>1, <3>2, SamplesBetween
    <3>5. taken \in 0..k /\ taken \in Nat
      BY <3>3, <2>8
    <3>6. /\ added \in Seq(Int) /\ Len(added) = taken /\ \A i \in 1..taken : added[i] = s[i]
      BY <3>3, <3>5, SubSeqProperties
    <3>7. after = IF taken < Len(s)
                  THEN IF taken = 0 THEN r
                       ELSE [r EXCEPT !.nodes = r.nodes \o added, !.last = s[taken],
                                      !.accumulated = 0]
                  ELSE [r EXCEPT !.nodes = r.nodes \o added, !.last = p, !.accumulated = left]
      BY <2>1, <2>8 DEF Observe, Far, Expeditions
    <3> HIDE DEF s, k, added
    <3>8. /\ Len(r.nodes \o added) = Len(r.nodes) + taken
          /\ \A i \in 1..Len(r.nodes) : (r.nodes \o added)[i] = r.nodes[i]
          /\ \A i \in 1..taken : (r.nodes \o added)[Len(r.nodes) + i] = added[i]
      <4>0. r.nodes \in Seq(Int) /\ added \in Seq(Int)
        BY <2>1, <3>6
      <4>1. /\ Len(r.nodes \o added) = Len(r.nodes) + Len(added)
            /\ \A i \in 1..(Len(r.nodes) + Len(added)) :
                 (r.nodes \o added)[i] = IF i <= Len(r.nodes) THEN r.nodes[i]
                                         ELSE added[i - Len(r.nodes)]
        BY <4>0, ConcatProperties
      <4>2. ASSUME NEW i \in 1..taken
            PROVE  (r.nodes \o added)[Len(r.nodes) + i] = added[i]
        <5>1. /\ Len(r.nodes) + i \in 1..(Len(r.nodes) + Len(added))
              /\ ~(Len(r.nodes) + i <= Len(r.nodes)) /\ (Len(r.nodes) + i) - Len(r.nodes) = i
          BY <2>1, <3>5, <3>6
        <5> QED BY <4>1, <5>1
      <4>3. ASSUME NEW i \in 1..Len(r.nodes)
            PROVE  (r.nodes \o added)[i] = r.nodes[i]
        <5>1. i \in 1..(Len(r.nodes) + Len(added)) /\ i <= Len(r.nodes)
          BY <2>1, <3>5, <3>6
        <5> QED BY <4>1, <5>1
      <4> QED BY <4>1, <4>2, <4>3, <3>6
    <3>9. ASSUME after.nodes = r.nodes \o added, after.walked = r.walked
          PROVE  NodesWalked(after)
      <4> SUFFICES ASSUME NEW i \in 1..Len(after.nodes) PROVE after.nodes[i] \in r.walked
        BY <3>9 DEF NodesWalked
      <4>1. CASE i <= Len(r.nodes)
        BY <4>1, <2>1, <2>4, <3>8, <3>9 DEF NodesWalked
      <4>2. CASE ~(i <= Len(r.nodes))
        <5> DEFINE j == i - Len(r.nodes)
        <5>0. i \in 1..(Len(r.nodes) + taken) /\ Len(r.nodes) \in Nat /\ k \in Nat
          BY <2>1, <3>3, <3>8, <3>9 DEF k
        <5>1. j \in 1..taken /\ i = Len(r.nodes) + j /\ j \in 1..k
          BY <4>2, <5>0, <3>5
        <5>2. after.nodes[i] = s[j]
          BY <5>1, <3>6, <3>8, <3>9
        <5> QED BY <5>1, <5>2, <3>2, <3>4
      <4> QED BY <4>1, <4>2
    <3>10. CASE taken < Len(s) /\ taken = 0
      BY <3>7, <3>10, <2>4, <2>5
    <3>11. CASE taken < Len(s) /\ taken # 0
      <4>1. /\ after.nodes = r.nodes \o added /\ after.last = s[taken] /\ after.walked = r.walked
            /\ after.accumulated = 0
        BY <2>1, <3>7, <3>11 DEF Expeditions
      <4>2. s[taken] \in Int /\ Between(s[taken], r.last, p)
        BY <3>4, <3>5, <3>11
      <4>3. \A n \in Int : Between(n, s[taken], p) => n \in r.walked
        <5> SUFFICES ASSUME NEW n \in Int, Between(n, s[taken], p) PROVE Between(n, r.last, p)
          BY <3>2
        <5> QED BY <4>2, <3>3, <2>0 DEF Between
      <4> QED BY <4>1, <4>3, <3>9, <2>0 DEF WayWalked
    <3>12. CASE ~(taken < Len(s))
      <4>1. taken = k
        BY <3>12, <3>3, <3>5
      <4>2. /\ after.nodes = r.nodes \o added /\ after.last = p /\ after.walked = r.walked
            /\ after.accumulated = left
        BY <2>1, <3>7, <3>12 DEF Expeditions
      <4>3. Len(after.nodes) < MaxNodes => left < Spacing
        <5> SUFFICES ASSUME Len(after.nodes) < MaxNodes PROVE left < Spacing
          OBVIOUS
        <5>1. Len(r.nodes) + Count(r, p) < MaxNodes
          BY <4>1, <4>2, <3>8 DEF k
        <5>2. r.accumulated + Far(r, p) - Count(r, p) * Spacing < Spacing
          BY <5>1, <2>1, <2>8, <3>1, RestIsShort
        <5> QED BY <5>2, <4>1 DEF k
      <4>4. \A n \in Int : Between(n, p, p) => n = p
        BY <2>0 DEF Between
      <4> HIDE DEF left
      <4> QED BY <4>2, <4>3, <4>4, <3>9, <2>4 DEF WayWalked
    <3> QED BY <3>10, <3>11, <3>12
  <2> QED BY <1>2, <2>2, <2>6, <2>7, <2>8 DEF OpenAt
<1> QED BY <1>1, <1>2

-----------------------------------------------------------------------------
(* Expeditions under way in sessions, effects and answers                    *)

LEMMA WalkedAppend ==
  ASSUME NEW in \in Inputs, inputs \in Seq(Inputs), inputs' = Append(inputs, in), InputWalked(in),
         \A i \in 1..Len(inputs) : InputWalked(inputs[i])
  PROVE  \A i \in 1..Len(inputs') : InputWalked(inputs'[i])
<1>1. /\ inputs'[Len(inputs) + 1] = in
      /\ \A i \in 1..Len(inputs) : inputs'[i] = inputs[i]
      /\ \A i \in 1..Len(inputs') : i \in 1..Len(inputs) \/ i = Len(inputs) + 1
  <2>1. inputs' = Append(inputs, in) /\ in \in Inputs /\ inputs \in Seq(Inputs)
    OBVIOUS
  <2> QED BY <2>1, AppendIndices
<1> QED BY <1>1

LEMMA NoticeWalked == \A k, on : InputWalked(Notice(k, on))
BY DEF InputWalked, Notice

LEMMA TravelledKept ==
  ASSUME Travelled, UNCHANGED <<recorder, tracking, place, vault, effects, inputs>>
  PROVE  Travelled'
BY DEF Travelled, OpenAt, NodesWalked, WayWalked

\* A request begun, with the expedition kept, newly begun or ended.
LEMMA TravelledAct ==
  ASSUME Typed, Travelled, recorder' # None => tracking',
         recorder' \in {recorder, None, NewRecorder},
         UNCHANGED <<place, vault, inputs>>,
         \/ effects' = effects
         \/ \E e \in Effects : EffectWalked(e) /\ effects' = Append(effects, e)
  PROVE  Travelled'
<1>1. OpenAt(recorder', place)
  <2>1. OpenAt(recorder, place) /\ OpenAt(None, place)
    BY DEF Travelled, OpenAt
  <2>2. OpenAt(NewRecorder, place)
    BY ViewerAssumption DEF ViewerAssumption, NewRecorder, OpenAt, NodesWalked, WayWalked
  <2> QED BY <2>1, <2>2
<1>2. \A i \in 1..Len(effects') : EffectWalked(effects'[i])
  <2>1. CASE effects' = effects
    BY <2>1 DEF Travelled
  <2>2. ASSUME NEW e \in Effects, EffectWalked(e), effects' = Append(effects, e)
        PROVE  \A i \in 1..Len(effects') : EffectWalked(effects'[i])
    <3>1. effects \in Seq(Effects)
      BY DEF Typed, QueuesTyped
    <3>2. /\ effects'[Len(effects) + 1] = e
          /\ \A i \in 1..Len(effects) : effects'[i] = effects[i]
          /\ \A i \in 1..Len(effects') : i \in 1..Len(effects) \/ i = Len(effects) + 1
      BY <2>2, <3>1, AppendIndices
    <3> QED BY <2>2, <3>2 DEF Travelled
  <2> QED BY <2>1, <2>2
<1> QED BY <1>1, <1>2 DEF Travelled

\* An effect that carries neither a session nor a route.
LEMMA PlainEffects ==
  ASSUME NumbersTyped, NEW kind, kind \notin {"SaveSession", "WriteRoute"}, NEW e \in Asked(kind)
  PROVE  e \in Effects /\ EffectWalked(e)
<1>1. e.do \notin {"PersistSession", "WriteRoute"}
  BY DEF Asked
<1> QED BY <1>1, AskedTyped DEF EffectWalked

LEMMA TravelledService ==
  ASSUME Typed, Travelled, ServiceAction
  PROVE  Travelled'
<1>0. /\ UNCHANGED <<place, vault, inputs>> /\ NumbersTyped /\ tracking \in BOOLEAN
      /\ (recorder # None => tracking) /\ place \in Places
      /\ recorder \in Expeditions \cup {None}
  BY ServiceStep, ActTyped DEF Typed, WorldTyped, Travelled
<1>1. \A kind, e : Ask(kind, e) => effects' = Append(effects, e)
  BY DEF Ask
<1>2. ASSUME UNCHANGED <<recorder, tracking>> \/ recorder' = None,
             \/ UNCHANGED effects
             \/ \E kind : /\ kind \notin {"SaveSession", "WriteRoute"}
                          /\ \E e \in Asked(kind) : Ask(kind, e)
      PROVE  Travelled'
  <2>1. (recorder' # None => tracking') /\ recorder' \in {recorder, None, NewRecorder}
    BY <1>0, <1>2
  <2>2. \/ effects' = effects
        \/ \E e \in Effects : EffectWalked(e) /\ effects' = Append(effects, e)
    BY <1>0, <1>1, <1>2, PlainEffects
  <2> QED BY <1>0, <2>1, <2>2, TravelledAct
<1>3. CASE SaveSession
  <2> DEFINE s == [player |-> place, tracking |-> tracking, recorder |-> recorder]
             e == [id |-> nextRequest, do |-> "PersistSession", session |-> s]
  <2>1. Ask("SaveSession", e) /\ UNCHANGED <<layout, world>>
    BY <1>3 DEF SaveSession
  <2>2. s \in Sessions /\ SessionWalked(s)
    BY <1>0 DEF Sessions, SessionWalked, Travelled
  <2> HIDE DEF s
  <2>3. e \in Asked("SaveSession") /\ EffectWalked(e)
    BY <2>2 DEF Asked, EffectWalked
  <2> HIDE DEF e
  <2>4. e \in Effects /\ effects' = Append(effects, e)
    BY <1>0, <1>1, <2>1, <2>3, AskedTyped
  <2> QED BY <1>0, <2>1, <2>3, <2>4, TravelledAct DEF world
<1>4. CASE LoadSession
  <2>1. Ask("LoadSession", [id |-> nextRequest, do |-> "LoadSession"])
        /\ UNCHANGED <<layout, world>>
    BY <1>4 DEF LoadSession
  <2>2. [id |-> nextRequest, do |-> "LoadSession"] \in Asked("LoadSession")
    BY DEF Asked
  <2> QED BY <1>2, <2>1, <2>2 DEF world
<1>5. CASE TogglePreserve
  <2>1. UNCHANGED <<recorder, tracking>>
    BY <1>5 DEF TogglePreserve, world
  <2>2. UNCHANGED effects \/ \E e \in Asked("MutatePreserve") : Ask("MutatePreserve", e)
    <3>1. \A p \in {pair[1] : pair \in {o \in owners : o[2] = RegionOf(place)}} :
            [id |-> nextRequest, do |-> "RemovePreserve", preserve |-> p]
              \in Asked("MutatePreserve")
      <4>1. owners \subseteq Owned
        BY DEF Typed, WorldTyped
      <4>2. \A p \in {pair[1] : pair \in {o \in owners : o[2] = RegionOf(place)}} : p \in Preserves
        BY <4>1 DEF Owned
      <4> QED BY <4>2 DEF Asked
    <3>2. \A p \in SUBSET (Regions \ Overridden) :
            [id |-> nextRequest, do |-> "CreatePreserve", preserve |-> p]
              \in Asked("MutatePreserve")
      BY DEF Asked, Preserves
    <3> QED BY <1>5, <3>1, <3>2 DEF TogglePreserve
  <2> QED BY <1>2, <2>1, <2>2
<1>6. CASE TogglePathTracking
  <2>1. Ask("ConfigurePathTracking", [id |-> nextRequest, do |-> "ConfigurePathTracking"])
        /\ tracking' = ~tracking /\ recorder' = RecorderWithTracking(~tracking)
    BY <1>6 DEF TogglePathTracking
  <2>2. recorder' = None
    BY <1>0, <2>1 DEF RecorderWithTracking
  <2>3. [id |-> nextRequest, do |-> "ConfigurePathTracking"] \in Asked("ConfigurePathTracking")
    BY DEF Asked
  <2> QED BY <1>2, <2>1, <2>2, <2>3
<1>7. CASE ToggleRouteRecording
  <2>1. /\ recorder' = IF tracking /\ recorder = None THEN NewRecorder
                       ELSE IF tracking THEN None ELSE recorder
        /\ tracking' = tracking
    BY <1>7 DEF ToggleRouteRecording
  <2>2. (recorder' # None => tracking') /\ recorder' \in {recorder, None, NewRecorder}
    BY <1>0, <2>1
  <2>3. CASE recorder # None /\ Ask("WriteRoute", [id |-> nextRequest, do |-> "WriteRoute",
                route |-> [nodes |-> recorder.nodes, walked |-> recorder.walked]])
    <3> DEFINE route == [nodes |-> recorder.nodes, walked |-> recorder.walked]
               e == [id |-> nextRequest, do |-> "WriteRoute", route |-> route]
    <3>1. route \in Routes
      BY <1>0, <2>3 DEF Routes, Expeditions
    <3>2. NodesWalked(route)
      BY <2>3 DEF Travelled, OpenAt, NodesWalked
    <3>3. Ask("WriteRoute", e)
      BY <2>3
    <3> HIDE DEF route
    <3>4. e \in Asked("WriteRoute") /\ EffectWalked(e)
      BY <3>1, <3>2 DEF Asked, EffectWalked
    <3> HIDE DEF e
    <3>5. e \in Effects /\ effects' = Append(effects, e)
      BY <1>0, <1>1, <3>3, <3>4, AskedTyped
    <3> QED BY <1>0, <2>2, <3>4, <3>5, TravelledAct
  <2>4. CASE UNCHANGED <<effects, requests>>
    BY <1>0, <2>2, <2>4, TravelledAct
  <2> QED BY <1>7, <2>3, <2>4 DEF ToggleRouteRecording
<1>8. CASE ClearRoutes
  <2>1. Ask("ClearRoutes", [id |-> nextRequest, do |-> "ClearRoutes"]) /\ recorder' = None
    BY <1>8 DEF ClearRoutes
  <2>2. [id |-> nextRequest, do |-> "ClearRoutes"] \in Asked("ClearRoutes")
    BY DEF Asked
  <2> QED BY <1>2, <2>1, <2>2
<1> QED BY <1>3, <1>4, <1>5, <1>6, <1>7, <1>8 DEF ServiceAction

LEMMA TravelledDrain ==
  ASSUME Answering, Travelled, Drain
  PROVE  Travelled'
<1> DEFINE in == Head(inputs)
<1>0. Typed /\ Sequenced /\ Answerable
  BY DEF Answering
<1>1. /\ inputs # <<>> /\ inputs' = Tail(inputs) /\ in \in Inputs
      /\ UNCHANGED <<vault, effects>> /\ inputs \in Seq(Inputs)
  BY <1>0, DrainStep DEF Typed, QueuesTyped
<1>2. /\ Len(inputs) \in Nat /\ Len(inputs) >= 1 /\ in = inputs[1]
      /\ \A i \in 1..Len(inputs') : i + 1 \in 1..Len(inputs) /\ inputs'[i] = inputs[i + 1]
  BY <1>1, TailIndices
<1>3. InputWalked(in) /\ \A i \in 1..Len(inputs') : InputWalked(inputs'[i])
  BY <1>2 DEF Travelled
<1>4. UNCHANGED <<body, world>> \/ Apply(in.result)
  BY DEF Drain
<1>5. (recorder' # None => tracking') /\ OpenAt(recorder', place')
  <2>1. CASE UNCHANGED <<body, world>>
    BY <2>1 DEF body, world, Travelled, OpenAt, NodesWalked, WayWalked
  <2>2. CASE Apply(in.result) /\ in.result.is = "SessionLoaded"
    <3>1. /\ place' = in.result.session.player /\ tracking' = RestoredTracking(in.result)
          /\ recorder' = RestoredRecorder(in.result)
      BY <2>2 DEF Apply
    <3>2. SessionWalked(in.result.session)
      BY <1>3, <2>2 DEF InputWalked
    <3>3. OpenAt(None, place')
      BY DEF OpenAt
    <3> QED BY <3>1, <3>2, <3>3 DEF RestoredTracking, RestoredRecorder, SessionWalked
  <2>3. CASE Apply(in.result) /\ in.result.is # "SessionLoaded"
    <3>1. UNCHANGED <<body, tracking, recorder>>
      BY <2>3 DEF Apply, world
    <3> QED BY <3>1 DEF body, Travelled
  <2> QED BY <1>4, <2>1, <2>2, <2>3
<1> QED BY <1>1, <1>3, <1>5 DEF Travelled

LEMMA TravelledServe ==
  ASSUME Typed, Travelled, Serve
  PROVE  Travelled'
<1>1. PICK result \in Results : Serves(result)
  BY ServeAnswers
<1>2. effects # <<>> /\ Respond(result) /\ effects \in Seq(Effects) /\ inputs \in Seq(Inputs)
  BY <1>1, ServeAnswers DEF Serves, Typed, QueuesTyped
<1> DEFINE in == Answer(Head(effects).id, result)
<1>3. /\ in \in Inputs /\ inputs' = Append(inputs, in) /\ effects' = Tail(effects)
      /\ UNCHANGED <<recorder, tracking, place>> /\ in.result = result
  BY <1>2, RespondTyped DEF Respond, Answer, body, world
<1>4. /\ Len(effects) \in Nat /\ Len(effects) >= 1 /\ Head(effects) = effects[1]
      /\ \A i \in 1..Len(effects') : i + 1 \in 1..Len(effects) /\ effects'[i] = effects[i + 1]
  BY <1>2, <1>3, TailIndices
<1>5. EffectWalked(Head(effects)) /\ \A i \in 1..Len(effects') : EffectWalked(effects'[i])
  BY <1>4 DEF Travelled
<1>6. vault'.session # None => SessionWalked(vault'.session)
  BY <1>1, <1>5 DEF Serves, Travelled, EffectWalked
<1>7. \A route \in vault'.routes : NodesWalked(route)
  BY <1>1, <1>5 DEF Serves, Travelled, EffectWalked
<1>8. InputWalked(in)
  BY <1>1, <1>3 DEF Serves, Travelled, InputWalked
<1> HIDE DEF in
<1>9. \A i \in 1..Len(inputs') : InputWalked(inputs'[i])
  BY <1>2, <1>3, <1>8, WalkedAppend DEF Travelled
<1>10. OpenAt(recorder', place') /\ (recorder' # None => tracking')
  BY <1>3 DEF Travelled
<1> QED BY <1>5, <1>6, <1>7, <1>9, <1>10 DEF Travelled

LEMMA TravelledUpdate ==
  ASSUME Typed, Travelled, NEW step \in {-1, 0, 1}, Update(step)
  PROVE  Travelled'
<1>1. /\ place \in Places /\ camera \in {None, place} /\ recorder \in Expeditions \cup {None}
      /\ Places \subseteq Int /\ None \notin Places
  BY ViewerAssumption DEF ViewerAssumption, Typed, WorldTyped, CameraIsTraveler
<1>2. /\ Move(step) /\ place' \in Places /\ recorder' \in Observed(place')
      /\ UNCHANGED <<effects, tracking, vault>>
  BY DEF Update
<1>3. place' \in {place - 1, place, place + 1}
  <2>1. EnteredCamera \in {None, place}
    BY <1>1 DEF EnteredCamera
  <2> QED BY <1>1, <1>2, <2>1 DEF Move
<1>4. OpenAt(recorder', place') /\ (recorder' # None => recorder # None)
  BY <1>1, <1>2, <1>3, ObservedOpen DEF Travelled
<1>5. \A i \in 1..Len(inputs') : InputWalked(inputs'[i])
  <2>1. inputs \in Seq(Inputs) /\ ready \in BOOLEAN
    BY DEF Typed, QueuesTyped, ScreenTyped
  <2>2. CASE ready
    <3>1. /\ inputs' = Append(inputs, Notice(responseSequence + 1, TRUE))
          /\ Notice(responseSequence + 1, TRUE) \in Inputs
      BY <2>2, UpdateTyped
    <3> QED BY <2>1, <3>1, NoticeWalked, WalkedAppend DEF Travelled
  <2>3. CASE ~ready
    BY <2>3, UpdateTyped DEF Travelled
  <2> QED BY <2>1, <2>2, <2>3
<1> QED BY <1>2, <1>4, <1>5 DEF Travelled

LEMMA StepTravelled ==
  ASSUME Answering, Travelled, [Next]_vars
  PROVE  Travelled'
<1>0. Typed
  BY DEF Answering
<1>1. CASE Quietly
  BY <1>1, TravelledKept DEF Quietly, body, world
<1>2. ASSUME NEW rebuilt \in BOOLEAN, BeginFrame(rebuilt)
      PROVE  Travelled'
  <2>1. UNCHANGED <<recorder, tracking, place, vault, effects>> /\ inputs \in Seq(Inputs)
        /\ lossPending \in BOOLEAN
    BY <1>0, <1>2 DEF BeginFrame, body, world, Typed, QueuesTyped, ScreenTyped
  <2>2. CASE lossPending
    <3>1. /\ inputs' = Append(inputs, Notice(responseSequence + 1, FALSE))
          /\ Notice(responseSequence + 1, FALSE) \in Inputs
      BY <1>0, <1>2, <2>2, BeginFrameTyped
    <3>2. \A i \in 1..Len(inputs') : InputWalked(inputs'[i])
      BY <2>1, <3>1, NoticeWalked, WalkedAppend DEF Travelled
    <3> QED BY <2>1, <3>2 DEF Travelled
  <2>3. CASE ~lossPending
    BY <1>0, <1>2, <2>1, <2>3, BeginFrameTyped, TravelledKept
  <2> QED BY <2>1, <2>2, <2>3
<1>3. CASE ReduceLayout
  BY <1>0, <1>3, ReduceLayoutTyped, TravelledKept DEF body, world
<1> QED BY <1>0, <1>1, <1>2, <1>3, TravelledDrain, TravelledService, TravelledServe,
           TravelledUpdate, StepCases

\* An expedition, open or recorded as a route, has nodes only where the traveler went
\* while it was recorded, also when sessions are saved and loaded under it, and none is
\* open while path tracking is off (route.rs, observe; world.rs, restore_session).
THEOREM RoutesWereTravelled == Spec => []RouteWasTravelled
<1>1. Init => Travelled
  <2> SUFFICES ASSUME Init PROVE Travelled
    OBVIOUS
  <2>1. /\ recorder = None /\ vault.session = None /\ vault.routes = {}
        /\ Len(effects) = 0 /\ Len(inputs) = 0
    BY DEF Init
  <2> QED BY <2>1 DEF Travelled, OpenAt
<1>2. Answering /\ Travelled /\ [Next]_vars => Travelled'
  BY StepTravelled
<1>3. Answering /\ Travelled => RouteWasTravelled
  <2> SUFFICES ASSUME Answering, Travelled PROVE RouteWasTravelled
    OBVIOUS
  <2>1. /\ recorder \in Expeditions \cup {None} /\ vault.routes \subseteq Routes
    BY DEF Answering, Typed, WorldTyped, Vaults
  <2>2. ASSUME recorder # None
        PROVE  tracking /\ \A i \in DOMAIN recorder.nodes : recorder.nodes[i] \in recorder.walked
    <3>1. recorder.nodes \in Seq(Int)
      BY <2>1, <2>2 DEF Expeditions
    <3>2. DOMAIN recorder.nodes = 1..Len(recorder.nodes)
      BY <3>1, LenProperties
    <3> QED BY <2>2, <3>2 DEF Travelled, OpenAt, NodesWalked
  <2>3. ASSUME NEW route \in vault.routes
        PROVE  \A i \in DOMAIN route.nodes : route.nodes[i] \in route.walked
    <3>1. route.nodes \in Seq(Int)
      BY <2>1 DEF Routes
    <3>2. DOMAIN route.nodes = 1..Len(route.nodes)
      BY <3>1, LenProperties
    <3> QED BY <3>2 DEF Travelled, NodesWalked
  <2> QED BY <2>2, <2>3 DEF RouteWasTravelled
<1> QED BY <1>1, <1>2, <1>3, AlwaysAnswering, PTL DEF Spec
=============================================================================
