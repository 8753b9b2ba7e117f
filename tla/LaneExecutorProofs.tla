------------------------- MODULE LaneExecutorProofs -------------------------
(***************************************************************************)
(* Theorems about LaneExecutor for any number of workers, submitters and    *)
(* jobs: its types, that no wakeup is lost, and that drop leaves nothing    *)
(* behind.                                                                  *)
(***************************************************************************)
EXTENDS LaneExecutor, FiniteSetTheorems, TLAPS

\* The sets that are counted are finite.
LEMMA CountedFinite ==
  \A state : IsFiniteSet(In(state)) /\ IsFiniteSet(Notifying)
<1>1. \A state : In(state) \subseteq Workers
  BY DEF In
<1>2. Notifying \subseteq Submitters
  BY DEF Notifying
<1> QED BY <1>1, <1>2, FS_Subset, ThreadAssumption DEF ThreadAssumption

-----------------------------------------------------------------------------
(* Type correctness.                                                        *)

LEMMA TypeStep ==
  ASSUME TypeOK, [Next]_vars
  PROVE  TypeOK'
<1> USE DEF TypeOK
<1>1. ASSUME NEW s \in Submitters, NEW j \in Jobs, NEW p \in Lanes, Submit(s, j, p)
      PROVE  TypeOK'
  <2>1. Append(queues[p], j) \in Seq(Jobs)
    OBVIOUS
  <2>2. CASE Push(s, j, p)
    BY <1>1, <2>1, <2>2 DEF Submit, Push
  <2>3. CASE Refuse(j)
    BY <1>1, <2>3 DEF Submit, Refuse
  <2> QED BY <1>1, <2>2, <2>3 DEF Submit
<1>2. CASE \E s \in Submitters : NotifyOne(s)
  BY <1>2 DEF NotifyOne, In
<1>3. CASE \E w \in Workers : WakeSpuriously(w)
  BY <1>3 DEF WakeSpuriously
<1>4. ASSUME NEW w \in Workers, Turn(w)
      PROVE  TypeOK'
  <2>1. CASE Wait(w)
    BY <1>4, <2>1 DEF Turn, Wait
  <2>2. CASE Exit(w)
    BY <1>4, <2>2 DEF Turn, Exit
  <2>3. ASSUME NEW p \in Lanes, Take(w, p)
        PROVE  TypeOK'
    <3>1. queues[p] \in Seq(Jobs) /\ queues[p] # <<>>
      BY <2>3 DEF Take
    <3>2. Head(queues[p]) \in Jobs /\ Tail(queues[p]) \in Seq(Jobs)
      BY <3>1
    <3>3. Head(queues[p]) # NoJob
      BY <3>2, ThreadAssumption DEF ThreadAssumption
    <3> QED BY <1>4, <2>3, <3>2, <3>3 DEF Turn, Take
  <2> QED BY <1>4, <2>1, <2>2, <2>3 DEF Turn
<1>5. CASE \E w \in Workers, panics \in BOOLEAN : Run(w, panics)
  BY <1>5 DEF Run
<1>6. CASE BeginShutdown
  <2>1. QueuedJobs \subseteq Jobs
    BY DEF QueuedJobs, Elements
  <2> QED BY <1>6, <2>1 DEF BeginShutdown
<1>7. CASE NotifyAll
  BY <1>7 DEF NotifyAll
<1>8. CASE Join
  BY <1>8 DEF Join
<1>9. CASE UNCHANGED vars
  BY <1>9 DEF vars
<1> QED BY <1>1, <1>2, <1>3, <1>4, <1>5, <1>6, <1>7, <1>8, <1>9 DEF Next

\* Every variable keeps its type, and a worker holds a closure exactly while it runs it.
THEOREM ExecutorTypes == Spec => []TypeOK
<1>1. Init => TypeOK
  <2> SUFFICES ASSUME Init PROVE TypeOK
    OBVIOUS
  <2>1. <<>> \in Seq(Jobs)
    OBVIOUS
  <2>2. queues \in [Lanes -> Seq(Jobs)]
    BY <2>1, Zenon DEF Init
  <2>3. /\ worker \in [Workers -> {"ready", "waiting", "running", "exited"}]
        /\ job \in [Workers -> Jobs \cup {NoJob}]
        /\ \A w \in Workers : worker[w] # "running" /\ job[w] = NoJob
    BY DEF Init
  <2>4. /\ shutdown \in BOOLEAN /\ workerPanics \in Nat
        /\ submitter \in [Submitters -> {"idle", "notify"}]
        /\ owner \in {"alive", "notify", "join", "dropped"}
        /\ moved \subseteq Jobs /\ ended \subseteq Jobs
    BY DEF Init
  <2> QED BY <2>2, <2>3, <2>4 DEF TypeOK
<1> QED BY <1>1, TypeStep, PTL DEF Spec

-----------------------------------------------------------------------------
(* No lost wakeup.  What the count rests on: shutdown leaves no job queued.  *)

WakeupInv ==
  /\ NoLostWakeup
  /\ shutdown => Queued = 0

LEMMA QueuedType ==
  ASSUME TypeOK
  PROVE  /\ \A p \in Lanes : queues[p] \in Seq(Jobs) /\ Len(queues[p]) \in Nat
         /\ Queued \in Nat
<1>1. \A p \in Lanes : queues[p] \in Seq(Jobs) /\ Len(queues[p]) \in Nat
  BY DEF TypeOK
<1>2. 0 \in Lanes /\ 1 \in Lanes /\ 2 \in Lanes
  BY DEF Lanes
<1>3. Len(queues[0]) \in Nat /\ Len(queues[1]) \in Nat /\ Len(queues[2]) \in Nat
  BY <1>1, <1>2
<1>4. Queued \in Nat
  <2> DEFINE a == Len(queues[0])  b == Len(queues[1])  c == Len(queues[2])
  <2>1. a \in Nat /\ b \in Nat /\ c \in Nat
    BY <1>3
  <2>2. Queued = a + b + c
    BY DEF Queued
  <2> HIDE DEF a, b, c
  <2> QED BY <2>1, <2>2
<1> QED BY <1>1, <1>4

\* Queued moves with the one lane that changes.
LEMMA QueuedMoves ==
  ASSUME TypeOK, NEW p \in Lanes, NEW q, queues' = [queues EXCEPT ![p] = q],
         Len(q) \in Nat
  PROVE  Queued' = Queued - Len(queues[p]) + Len(q)
<1>1. /\ Len(queues[0]) \in Nat /\ Len(queues[1]) \in Nat /\ Len(queues[2]) \in Nat
      /\ DOMAIN queues = 0 .. 2
  BY QueuedType DEF Lanes, TypeOK
<1>2. queues'[p] = q /\ \A x \in 0 .. 2 : x # p => queues'[x] = queues[x]
  BY <1>1 DEF Lanes
<1>3. CASE p = 0
  BY <1>1, <1>2, <1>3 DEF Queued
<1>4. CASE p = 1
  BY <1>1, <1>2, <1>4 DEF Queued
<1>5. CASE p = 2
  BY <1>1, <1>2, <1>5 DEF Queued
<1> QED BY <1>3, <1>4, <1>5 DEF Lanes

\* A worker that enters a state is counted there, and nowhere else any more.
LEMMA MoveWorker ==
  ASSUME TypeOK, NEW w \in Workers, NEW to, worker' = [worker EXCEPT ![w] = to]
  PROVE  \A state :
           /\ state = to => In(state)' = In(state) \cup {w}
           /\ state # to => In(state)' = In(state) \ {w}
BY DEF In, TypeOK

LEMMA Counts ==
  ASSUME NEW w, NEW state
  PROVE  /\ Cardinality(In(state)) \in Nat
         /\ Cardinality(Notifying) \in Nat
         /\ w \notin In(state) => Cardinality(In(state) \cup {w}) = Cardinality(In(state)) + 1
         /\ w \in In(state) => Cardinality(In(state) \ {w}) = Cardinality(In(state)) - 1
BY CountedFinite, FS_CardinalityType, FS_AddElement, FS_RemoveElement

LEMMA WakeupSubmit ==
  ASSUME TypeOK, WakeupInv, NEW s \in Submitters, NEW j \in Jobs, NEW p \in Lanes,
         Submit(s, j, p)
  PROVE  WakeupInv'
<1>1. In("waiting")' = In("waiting") /\ In("ready")' = In("ready")
  BY DEF Submit, In
<1>2. CASE Push(s, j, p)
  <2>1. Notifying' = Notifying \cup {s} /\ s \notin Notifying
    BY <1>2 DEF Push, Submit, Notifying, TypeOK
  <2>2. Cardinality(Notifying') = Cardinality(Notifying) + 1
    BY <2>1, CountedFinite, FS_AddElement
  <2>3. Len(Append(queues[p], j)) = Len(queues[p]) + 1
    BY QueuedType
  <2>4. Queued' = Queued + 1
    <3>1. queues' = [queues EXCEPT ![p] = Append(queues[p], j)]
      BY <1>2 DEF Push
    <3>2. Len(Append(queues[p], j)) \in Nat
      BY <2>3, QueuedType
    <3>3. Queued' = Queued - Len(queues[p]) + Len(Append(queues[p], j))
      BY <3>1, <3>2, QueuedMoves
    <3> QED BY <2>3, <3>3, QueuedType
  <2>5. Cardinality(In("ready")) \in Nat /\ Cardinality(Notifying) \in Nat
    BY Counts
  <2>6. ~shutdown'
    BY <1>2 DEF Push, Submit
  <2> QED BY <1>1, <2>2, <2>4, <2>5, <2>6, QueuedType DEF WakeupInv, NoLostWakeup
<1>3. CASE Refuse(j)
  BY <1>1, <1>3 DEF Refuse, Submit, WakeupInv, NoLostWakeup, Notifying, Queued
<1> QED BY <1>2, <1>3 DEF Submit

LEMMA WakeupNotify ==
  ASSUME TypeOK, WakeupInv, NEW s \in Submitters, NotifyOne(s)
  PROVE  WakeupInv'
<1>1. Queued' = Queued /\ shutdown' = shutdown
  BY DEF NotifyOne, Queued
<1>2. CASE In("waiting") = {} /\ UNCHANGED worker
  BY <1>1, <1>2 DEF WakeupInv, NoLostWakeup, In
<1>3. ASSUME NEW w \in In("waiting"), worker' = [worker EXCEPT ![w] = "ready"]
      PROVE  WakeupInv'
  <2>1. w \in Workers /\ w \notin In("ready")
    BY <1>3 DEF In
  <2>2. In("ready")' = In("ready") \cup {w}
    BY <1>3, <2>1, MoveWorker
  <2>3. Cardinality(In("ready")') = Cardinality(In("ready")) + 1
    BY <2>1, <2>2, Counts
  <2>4. Notifying' = Notifying \ {s} /\ s \in Notifying
    BY DEF NotifyOne, Notifying, TypeOK
  <2>5. Cardinality(Notifying') = Cardinality(Notifying) - 1
    BY <2>4, CountedFinite, FS_RemoveElement
  <2>6. Cardinality(In("ready")) \in Nat /\ Cardinality(Notifying) \in Nat
    BY Counts
  <2>7. Queued <= Cardinality(In("ready")) + Cardinality(Notifying)
    BY <1>3 DEF WakeupInv, NoLostWakeup
  <2> QED BY <1>1, <2>3, <2>5, <2>6, <2>7, QueuedType DEF WakeupInv, NoLostWakeup
<1> QED BY <1>2, <1>3 DEF NotifyOne

\* A worker that joins the ready ones without touching the lanes.
LEMMA WakeupReady ==
  ASSUME TypeOK, WakeupInv, NEW w \in Workers, worker[w] # "ready",
         worker' = [worker EXCEPT ![w] = "ready"], UNCHANGED <<queues, shutdown, submitter>>
  PROVE  WakeupInv'
<1>1. In("ready")' = In("ready") \cup {w} /\ w \notin In("ready")
  <2>1. w \notin In("ready")
    BY DEF In
  <2> QED BY <2>1, MoveWorker
<1>2. Cardinality(In("ready")') = Cardinality(In("ready")) + 1
  BY <1>1, Counts
<1>3. In("waiting")' = In("waiting") \ {w}
  BY MoveWorker
<1>4. Queued' = Queued /\ Notifying' = Notifying
  BY DEF Queued, Notifying
<1>5. Cardinality(In("ready")) \in Nat /\ Cardinality(Notifying) \in Nat
  BY Counts
<1> QED BY <1>2, <1>3, <1>4, <1>5, QueuedType DEF WakeupInv, NoLostWakeup

LEMMA WakeupTake ==
  ASSUME TypeOK, WakeupInv, NEW w \in Workers, worker[w] = "ready", NEW p \in Lanes,
         Take(w, p), UNCHANGED <<shutdown, submitter>>
  PROVE  WakeupInv'
<1>1. w \in In("ready") /\ In("ready")' = In("ready") \ {w}
  BY DEF In, Take, TypeOK
<1>2. Cardinality(In("ready")') = Cardinality(In("ready")) - 1
  BY <1>1, Counts
<1>3. In("waiting")' = In("waiting") \ {w}
  BY DEF In, Take, TypeOK
<1>4. Len(Tail(queues[p])) = Len(queues[p]) - 1
  BY QueuedType DEF Take
<1>5. Queued' = Queued - 1
  <2>1. queues' = [queues EXCEPT ![p] = Tail(queues[p])]
    BY DEF Take
  <2>2. Len(Tail(queues[p])) \in Nat
    BY QueuedType DEF Take
  <2>3. Queued' = Queued - Len(queues[p]) + Len(Tail(queues[p]))
    BY <2>1, <2>2, QueuedMoves
  <2> QED BY <1>4, <2>3, QueuedType
<1>6. Notifying' = Notifying
  BY DEF Notifying
<1>7. Cardinality(In("ready")) \in Nat /\ Cardinality(Notifying) \in Nat
  BY Counts
<1> QED BY <1>2, <1>3, <1>5, <1>6, <1>7, QueuedType DEF WakeupInv, NoLostWakeup, Take

\* Where no job is queued there is nothing to count.
LEMMA WakeupEmpty ==
  ASSUME TypeOK', Queued' = 0
  PROVE  WakeupInv'
<1>1. /\ Cardinality(In("ready")') \in Nat
      /\ Cardinality(Notifying') \in Nat
  <2>1. IsFiniteSet(In("ready")') /\ IsFiniteSet(Notifying')
    <3>1. In("ready")' \subseteq Workers /\ Notifying' \subseteq Submitters
      BY DEF In, Notifying
    <3> QED BY <3>1, FS_Subset, ThreadAssumption DEF ThreadAssumption
  <2> QED BY <2>1, FS_CardinalityType
<1> QED BY <1>1 DEF WakeupInv, NoLostWakeup

LEMMA WakeupStep ==
  ASSUME TypeOK, TypeOK', WakeupInv, [Next]_vars
  PROVE  WakeupInv'
<1>1. CASE \E s \in Submitters, j \in Jobs, p \in Lanes : Submit(s, j, p)
  BY <1>1, WakeupSubmit
<1>2. CASE \E s \in Submitters : NotifyOne(s)
  BY <1>2, WakeupNotify
<1>3. CASE \E w \in Workers : WakeSpuriously(w)
  BY <1>3, WakeupReady DEF WakeSpuriously
<1>4. ASSUME NEW w \in Workers, Turn(w)
      PROVE  WakeupInv'
  <2>1. CASE Wait(w)
    <3>1. Queued' = 0
      BY <2>1 DEF Wait, Queued
    <3> QED BY <3>1, WakeupEmpty
  <2>2. CASE Exit(w)
    <3>1. Queued' = 0
      BY <2>2 DEF Exit, Queued, WakeupInv
    <3> QED BY <3>1, WakeupEmpty
  <2>3. CASE \E p \in Lanes : Take(w, p)
    BY <1>4, <2>3, WakeupTake DEF Turn
  <2> QED BY <1>4, <2>1, <2>2, <2>3 DEF Turn
<1>5. CASE \E w \in Workers, panics \in BOOLEAN : Run(w, panics)
  BY <1>5, WakeupReady DEF Run
<1>6. CASE BeginShutdown
  <2>1. queues'[0] = <<>> /\ queues'[1] = <<>> /\ queues'[2] = <<>>
    BY <1>6 DEF BeginShutdown, Lanes
  <2>2. Queued' = 0
    BY <2>1 DEF Queued
  <2> QED BY <2>2, WakeupEmpty
<1>7. CASE NotifyAll
  <2>1. In("waiting")' = {}
    BY <1>7 DEF NotifyAll, In, TypeOK
  <2>2. Queued' = Queued /\ shutdown' = shutdown
    BY <1>7 DEF NotifyAll, Queued
  <2> QED BY <2>1, <2>2 DEF WakeupInv, NoLostWakeup
<1>8. CASE Join \/ UNCHANGED vars
  <2>1. UNCHANGED <<queues, shutdown, worker, submitter>>
    BY <1>8 DEF Join, vars
  <2>2. /\ Queued' = Queued /\ Notifying' = Notifying
        /\ In("waiting")' = In("waiting") /\ In("ready")' = In("ready")
    BY <2>1 DEF Queued, Notifying, In
  <2> QED BY <2>1, <2>2 DEF WakeupInv, NoLostWakeup
<1> QED BY <1>1, <1>2, <1>3, <1>4, <1>5, <1>6, <1>7, <1>8 DEF Next

\* While a worker sleeps on the condition variable, every queued job has a worker on
\* its way to the lock or a notification to come: submit's push and notify, worker_loop
\* and begin_shutdown together lose no wakeup.
THEOREM WakeupsKept == Spec => []NoLostWakeup
<1>1. Init => WakeupInv
  <2> SUFFICES ASSUME Init PROVE WakeupInv
    OBVIOUS
  <2>1. Queued = 0 /\ In("waiting") = {}
    BY DEF Init, Queued, Lanes, In
  <2> QED BY <2>1 DEF WakeupInv, NoLostWakeup
<1>2. TypeOK /\ TypeOK' /\ WakeupInv /\ [Next]_vars => WakeupInv'
  BY WakeupStep
<1>3. WakeupInv => NoLostWakeup
  BY DEF WakeupInv
<1> QED BY <1>1, <1>2, <1>3, ExecutorTypes, PTL DEF Spec

-----------------------------------------------------------------------------
(* Nothing survives drop.  Every closure given to submit is accounted for,   *)
(* and once the flag is set no lane holds one.                               *)

Held == {job[w] : w \in In("running")}

QuietInv ==
  /\ moved = QueuedJobs \cup Held \cup ended
  /\ shutdown <=> owner # "alive"
  /\ shutdown => \A p \in Lanes : queues[p] = <<>>
  /\ owner = "dropped" => In("exited") = Workers

LEMMA ElementsOfAppend ==
  ASSUME NEW S, NEW q \in Seq(S), NEW e \in S
  PROVE  Elements(Append(q, e)) = Elements(q) \cup {e}
<1>1. /\ DOMAIN q = 1 .. Len(q) /\ Len(q) \in Nat
      /\ DOMAIN Append(q, e) = 1 .. Len(q) + 1
      /\ \A i \in 1 .. Len(q) : Append(q, e)[i] = q[i]
      /\ Append(q, e)[Len(q) + 1] = e
  OBVIOUS
<1> QED BY <1>1 DEF Elements

LEMMA ElementsOfTail ==
  ASSUME NEW S, NEW q \in Seq(S), q # <<>>
  PROVE  Elements(q) = {Head(q)} \cup Elements(Tail(q))
<1>1. /\ DOMAIN q = 1 .. Len(q) /\ Len(q) \in Nat /\ Len(q) > 0
      /\ DOMAIN Tail(q) = 1 .. Len(q) - 1
      /\ \A i \in 1 .. Len(q) - 1 : Tail(q)[i] = q[i + 1]
      /\ Head(q) = q[1]
  OBVIOUS
<1>2. \A i \in 1 .. Len(q) : i = 1 \/ (i - 1 \in 1 .. Len(q) - 1 /\ q[i] = Tail(q)[i - 1])
  BY <1>1
<1>3. Elements(q) \subseteq {Head(q)} \cup Elements(Tail(q))
  <2> SUFFICES ASSUME NEW x \in Elements(q)
               PROVE  x = Head(q) \/ x \in Elements(Tail(q))
    OBVIOUS
  <2>1. PICK i \in 1 .. Len(q) : x = q[i]
    BY <1>1 DEF Elements
  <2>2. CASE i = 1
    BY <1>1, <2>1, <2>2
  <2>3. CASE i - 1 \in DOMAIN Tail(q) /\ x = Tail(q)[i - 1]
    BY <2>3 DEF Elements
  <2> QED BY <1>1, <1>2, <2>1, <2>2, <2>3
<1>4. \A i \in 1 .. Len(q) - 1 : i + 1 \in 1 .. Len(q)
  BY <1>1
<1>5. Elements(Tail(q)) \subseteq Elements(q) /\ Head(q) \in Elements(q)
  BY <1>1, <1>4 DEF Elements
<1> QED BY <1>3, <1>5

LEMMA QuietSubmit ==
  ASSUME TypeOK, QuietInv, NEW s \in Submitters, NEW j \in Jobs, NEW p \in Lanes,
         Submit(s, j, p)
  PROVE  QuietInv'
<1>1. Held' = Held /\ In("exited")' = In("exited")
  BY DEF Submit, Held, In
<1>2. moved' = moved \cup {j} /\ shutdown' = shutdown /\ owner' = owner
  BY DEF Submit
<1>3. CASE Push(s, j, p)
  <2>1. queues' = [queues EXCEPT ![p] = Append(queues[p], j)] /\ ended' = ended /\ ~shutdown
    BY <1>3 DEF Push
  <2>2. Elements(queues'[p]) = Elements(queues[p]) \cup {j}
    <3>1. queues[p] \in Seq(Jobs) /\ queues'[p] = Append(queues[p], j)
      BY <2>1 DEF TypeOK
    <3> QED BY <3>1, ElementsOfAppend
  <2>3. \A q \in Lanes : q # p => queues'[q] = queues[q]
    BY <2>1 DEF TypeOK
  <2>4. QueuedJobs' = QueuedJobs \cup {j}
    BY <2>2, <2>3 DEF QueuedJobs
  <2> QED BY <1>1, <1>2, <2>1, <2>4 DEF QuietInv
<1>4. CASE Refuse(j)
  <2>1. queues' = queues /\ ended' = ended \cup {j}
    BY <1>4 DEF Refuse
  <2>2. QueuedJobs' = QueuedJobs
    BY <2>1 DEF QueuedJobs
  <2> QED BY <1>1, <1>2, <2>1, <2>2 DEF QuietInv
<1> QED BY <1>3, <1>4 DEF Submit

\* A worker that changes between states in which it holds no closure.
LEMMA QuietIdle ==
  ASSUME TypeOK, TypeOK', QuietInv,
         \A w \in Workers : worker'[w] = "running" <=> worker[w] = "running",
         \A w \in Workers : worker[w] = "exited" => worker'[w] = "exited",
         UNCHANGED <<queues, shutdown, job, moved, ended>>, UNCHANGED owner
  PROVE  QuietInv'
<1>1. Held' = Held /\ QueuedJobs' = QueuedJobs
  BY DEF Held, In, QueuedJobs
<1>2. In("exited") = Workers => In("exited")' = Workers
  BY DEF In
<1> QED BY <1>1, <1>2 DEF QuietInv

LEMMA QuietTake ==
  ASSUME TypeOK, QuietInv, NEW w \in Workers, NEW p \in Lanes, worker[w] = "ready",
         Take(w, p), UNCHANGED <<shutdown, submitter, owner, workerPanics, moved, ended>>
  PROVE  QuietInv'
<1>1. queues[p] \in Seq(Jobs) /\ queues[p] # <<>> /\ queues'[p] = Tail(queues[p])
  BY DEF Take, TypeOK
<1>2. Elements(queues[p]) = {Head(queues[p])} \cup Elements(queues'[p])
  BY <1>1, ElementsOfTail
<1>3. \A q \in Lanes : q # p => queues'[q] = queues[q]
  BY DEF Take, TypeOK
<1>4. QueuedJobs = {Head(queues[p])} \cup QueuedJobs'
  BY <1>2, <1>3 DEF QueuedJobs
<1>5. Held' = Held \cup {Head(queues[p])}
  <2>1. In("running")' = In("running") \cup {w} /\ w \notin In("running")
    BY DEF In, Take, TypeOK
  <2>2. job'[w] = Head(queues[p]) /\ \A v \in In("running") : job'[v] = job[v]
    BY <2>1 DEF Take, TypeOK, In
  <2> QED BY <2>1, <2>2 DEF Held
<1>6. ~shutdown
  BY DEF Take
<1> QED BY <1>4, <1>5, <1>6 DEF QuietInv

LEMMA QuietRun ==
  ASSUME TypeOK, QuietInv, NEW w \in Workers, NEW panics \in BOOLEAN, Run(w, panics)
  PROVE  QuietInv'
<1>1. In("running")' = In("running") \ {w} /\ w \in In("running")
  BY DEF In, Run, TypeOK
<1>2. \A v \in In("running")' : job'[v] = job[v]
  BY <1>1 DEF Run, TypeOK, In
<1>3. Held \cup ended = Held' \cup ended'
  BY <1>1, <1>2 DEF Held, Run
<1>4. QueuedJobs' = QueuedJobs
  BY DEF Run, QueuedJobs
<1>5. In("exited") # Workers
  BY <1>1 DEF In
<1> QED BY <1>3, <1>4, <1>5 DEF QuietInv, Run

LEMMA QuietStep ==
  ASSUME TypeOK, TypeOK', QuietInv, [Next]_vars
  PROVE  QuietInv'
<1>1. CASE \E s \in Submitters, j \in Jobs, p \in Lanes : Submit(s, j, p)
  BY <1>1, QuietSubmit
<1>2. CASE \E s \in Submitters : NotifyOne(s)
  <2>1. \A w \in Workers : /\ worker'[w] = "running" <=> worker[w] = "running"
                           /\ worker[w] = "exited" => worker'[w] = "exited"
    BY <1>2 DEF NotifyOne, In, TypeOK
  <2> QED BY <1>2, <2>1, QuietIdle DEF NotifyOne
<1>3. CASE \E w \in Workers : WakeSpuriously(w)
  <2>1. \A w \in Workers : /\ worker'[w] = "running" <=> worker[w] = "running"
                           /\ worker[w] = "exited" => worker'[w] = "exited"
    BY <1>3 DEF WakeSpuriously, TypeOK
  <2> QED BY <1>3, <2>1, QuietIdle DEF WakeSpuriously
<1>4. ASSUME NEW w \in Workers, Turn(w)
      PROVE  QuietInv'
  <2>1. CASE Wait(w) \/ Exit(w)
    <3>1. \A v \in Workers : /\ worker'[v] = "running" <=> worker[v] = "running"
                             /\ worker[v] = "exited" => worker'[v] = "exited"
      BY <1>4, <2>1 DEF Turn, Wait, Exit, TypeOK
    <3> QED BY <1>4, <2>1, <3>1, QuietIdle DEF Turn, Wait, Exit
  <2>2. CASE \E p \in Lanes : Take(w, p)
    BY <1>4, <2>2, QuietTake DEF Turn
  <2> QED BY <1>4, <2>1, <2>2 DEF Turn
<1>5. CASE \E w \in Workers, panics \in BOOLEAN : Run(w, panics)
  BY <1>5, QuietRun
<1>6. CASE BeginShutdown
  <2>1. QueuedJobs' = {}
    BY <1>6 DEF BeginShutdown, QueuedJobs, Elements
  <2>2. Held' = Held
    BY <1>6 DEF BeginShutdown, Held, In
  <2> QED BY <1>6, <2>1, <2>2 DEF BeginShutdown, QuietInv
<1>7. CASE NotifyAll
  <2>1. /\ \A w \in Workers : worker'[w] = "running" <=> worker[w] = "running"
    BY <1>7 DEF NotifyAll, TypeOK
  <2>2. Held' = Held /\ QueuedJobs' = QueuedJobs
    BY <1>7, <2>1 DEF NotifyAll, Held, In, QueuedJobs
  <2> QED BY <1>7, <2>2 DEF NotifyAll, QuietInv
<1>8. CASE Join
  <2>1. Held' = Held /\ QueuedJobs' = QueuedJobs /\ In("exited")' = In("exited")
    BY <1>8 DEF Join, Held, In, QueuedJobs
  <2> QED BY <1>8, <2>1 DEF Join, QuietInv
<1>9. CASE UNCHANGED vars
  <2>1. Held' = Held /\ QueuedJobs' = QueuedJobs /\ In("exited")' = In("exited")
    BY <1>9 DEF vars, Held, In, QueuedJobs
  <2> QED BY <1>9, <2>1 DEF vars, QuietInv
<1> QED BY <1>1, <1>2, <1>3, <1>4, <1>5, <1>6, <1>7, <1>8, <1>9 DEF Next

\* When drop has returned, every worker has left worker_loop and every closure given to
\* submit has run or been discarded.
THEOREM DropLeavesNothing == Spec => []DroppedIsQuiet
<1>1. Init => QuietInv
  <2> SUFFICES ASSUME Init PROVE QuietInv
    OBVIOUS
  <2>1. QueuedJobs = {} /\ Held = {}
    BY DEF Init, QueuedJobs, Elements, Held, In
  <2> QED BY <2>1 DEF Init, QuietInv
<1>2. TypeOK /\ TypeOK' /\ QuietInv /\ [Next]_vars => QuietInv'
  BY QuietStep
<1>3. TypeOK /\ QuietInv => DroppedIsQuiet
  <2> SUFFICES ASSUME TypeOK, QuietInv, owner = "dropped"
               PROVE  In("exited") = Workers /\ moved = ended
    BY DEF DroppedIsQuiet
  <2>1. In("exited") = Workers /\ \A p \in Lanes : queues[p] = <<>>
    BY DEF QuietInv
  <2>2. Held = {} /\ QueuedJobs = {}
    BY <2>1 DEF Held, In, QueuedJobs, Elements
  <2> QED BY <2>1, <2>2 DEF QuietInv
<1> QED BY <1>1, <1>2, <1>3, ExecutorTypes, PTL DEF Spec
=============================================================================
