---------------------------- MODULE LaneExecutor ----------------------------
(***************************************************************************)
(* The native job executor (tools/src/executor.rs): three FIFO lanes under  *)
(* one mutex, a condition variable, a pool of worker threads, and a drop    *)
(* that clears the lanes, wakes every worker and joins them.                *)
(*                                                                         *)
(* A critical section of the mutex is one step.  A submitter pushes under   *)
(* the lock and notifies after it, so the two are separate steps; a waiting *)
(* worker may also wake up for no reason, as std::sync::Condvar allows.     *)
(***************************************************************************)
EXTENDS Integers, Sequences, FiniteSets

CONSTANTS
  Workers,     \* worker threads
  Submitters,  \* threads that share the executor and submit
  Jobs,        \* boxed closures: each can be submitted once and run once
  NoJob        \* a worker that is in no job

ASSUME ThreadAssumption ==
  /\ IsFiniteSet(Workers) /\ Workers # {}
  /\ IsFiniteSet(Submitters)
  /\ NoJob \notin Jobs

VARIABLES
  queues,       \* [Lanes -> Seq(Jobs)]
  shutdown,     \* Lanes::shutdown
  worker,       \* [Workers -> "ready" | "waiting" | "running" | "exited"]
  job,          \* [Workers -> Jobs or NoJob]: the closure a running worker is in
  submitter,    \* [Submitters -> "idle" | "notify"]
  owner,        \* "alive", then the steps of drop: "notify", "join", "dropped"
  workerPanics, \* worker_panics
  moved,        \* jobs that were given to submit (ghost)
  ended         \* jobs that returned, panicked or were dropped unrun (ghost)

vars == <<queues, shutdown, worker, job, submitter, owner, workerPanics, moved, ended>>

\* TaskPriority: Background, Normal, Critical.
Lanes == 0 .. 2

In(state) == {w \in Workers : worker[w] = state}

Notifying == {s \in Submitters : submitter[s] = "notify"}

\* queued(): jobs not yet started.
Queued == Len(queues[0]) + Len(queues[1]) + Len(queues[2])

Elements(seq) == {seq[i] : i \in DOMAIN seq}

QueuedJobs == UNION {Elements(queues[p]) : p \in Lanes}

Init ==
  /\ queues = [p \in Lanes |-> <<>>]
  /\ shutdown = FALSE
  /\ worker = [w \in Workers |-> "ready"]
  /\ job = [w \in Workers |-> NoJob]
  /\ submitter = [s \in Submitters |-> "idle"]
  /\ owner = "alive"
  /\ workerPanics = 0
  /\ moved = {}
  /\ ended = {}

-----------------------------------------------------------------------------
(* submit: under the lock, then the notification.                           *)

\* Fault: only a push into empty lanes notifies.
PushIfEmptyNotifies(s, j, p) ==
  /\ ~shutdown
  /\ queues' = [queues EXCEPT ![p] = Append(@, j)]
  /\ submitter' = [submitter EXCEPT ![s] = IF Queued = 0 THEN "notify" ELSE "idle"]
  /\ UNCHANGED ended

Push(s, j, p) ==
  /\ ~shutdown
  /\ queues' = [queues EXCEPT ![p] = Append(@, j)]
  /\ submitter' = [submitter EXCEPT ![s] = "notify"]
  /\ UNCHANGED ended

\* After shutdown the closure is dropped without an effect.
Refuse(j) ==
  /\ shutdown
  /\ ended' = ended \cup {j}
  /\ UNCHANGED <<queues, submitter>>

Submit(s, j, p) ==
  /\ submitter[s] = "idle"
  /\ owner # "dropped"
  /\ j \notin moved
  /\ moved' = moved \cup {j}
  /\ Push(s, j, p) \/ Refuse(j)
  /\ UNCHANGED <<shutdown, worker, job, owner, workerPanics>>

\* notify_one wakes one waiter, any of them, or none if nobody waits.
NotifyOne(s) ==
  /\ submitter[s] = "notify"
  /\ submitter' = [submitter EXCEPT ![s] = "idle"]
  /\ \/ In("waiting") = {} /\ UNCHANGED worker
     \/ \E w \in In("waiting") : worker' = [worker EXCEPT ![w] = "ready"]
  /\ UNCHANGED <<queues, shutdown, job, owner, workerPanics, moved, ended>>

-----------------------------------------------------------------------------
(* worker_loop: one turn under the lock, then the job outside it.           *)

\* wait returns without a notification.
WakeSpuriously(w) ==
  /\ worker[w] = "waiting"
  /\ worker' = [worker EXCEPT ![w] = "ready"]
  /\ UNCHANGED <<queues, shutdown, job, submitter, owner, workerPanics, moved, ended>>

Wait(w) ==
  /\ ~shutdown
  /\ Queued = 0
  /\ worker' = [worker EXCEPT ![w] = "waiting"]
  /\ UNCHANGED <<queues, job>>

Exit(w) ==
  /\ shutdown
  /\ worker' = [worker EXCEPT ![w] = "exited"]
  /\ UNCHANGED <<queues, job>>

\* The oldest job of the highest lane that holds one.
Take(w, p) ==
  /\ ~shutdown
  /\ queues[p] # <<>>
  /\ \A q \in Lanes : q > p => queues[q] = <<>>
  /\ job' = [job EXCEPT ![w] = Head(queues[p])]
  /\ worker' = [worker EXCEPT ![w] = "running"]
  /\ queues' = [queues EXCEPT ![p] = Tail(@)]

Turn(w) ==
  /\ worker[w] = "ready"
  /\ Wait(w) \/ Exit(w) \/ \E p \in Lanes : Take(w, p)
  /\ UNCHANGED <<shutdown, submitter, owner, workerPanics, moved, ended>>

\* Fault: a panic unwinds the worker thread.
RunKillsWorker(w, panics) ==
  /\ worker[w] = "running"
  /\ workerPanics' = IF panics THEN workerPanics + 1 ELSE workerPanics
  /\ worker' = [worker EXCEPT ![w] = IF panics THEN "exited" ELSE "ready"]
  /\ job' = [job EXCEPT ![w] = NoJob]
  /\ ended' = ended \cup {job[w]}
  /\ UNCHANGED <<queues, shutdown, submitter, owner, moved>>

\* The job returns, or catch_unwind counts its panic; the worker goes on either way.
Run(w, panics) ==
  /\ worker[w] = "running"
  /\ workerPanics' = IF panics THEN workerPanics + 1 ELSE workerPanics
  /\ worker' = [worker EXCEPT ![w] = "ready"]
  /\ job' = [job EXCEPT ![w] = NoJob]
  /\ ended' = ended \cup {job[w]}
  /\ UNCHANGED <<queues, shutdown, submitter, owner, moved>>

-----------------------------------------------------------------------------
(* Drop: begin_shutdown, then the joins.                                    *)

\* begin_shutdown takes a shared reference, and the tests call it beside submitters: a
\* submit may be between its push and its notification, or come later.  (Drop itself is
\* exclusive, so its behaviours are among these.)
BeginShutdown ==
  /\ owner = "alive"
  /\ owner' = "notify"
  /\ shutdown' = TRUE
  /\ queues' = [p \in Lanes |-> <<>>]
  /\ ended' = ended \cup QueuedJobs
  /\ UNCHANGED <<worker, job, submitter, workerPanics, moved>>

\* Fault: one waiter is woken.
NotifyAllOne ==
  /\ owner = "notify"
  /\ owner' = "join"
  /\ \/ In("waiting") = {} /\ UNCHANGED worker
     \/ \E w \in In("waiting") : worker' = [worker EXCEPT ![w] = "ready"]
  /\ UNCHANGED <<queues, shutdown, job, submitter, workerPanics, moved, ended>>

NotifyAll ==
  /\ owner = "notify"
  /\ owner' = "join"
  /\ worker' = [w \in Workers |-> IF worker[w] = "waiting" THEN "ready" ELSE worker[w]]
  /\ UNCHANGED <<queues, shutdown, job, submitter, workerPanics, moved, ended>>

\* Fault: drop returns once no job is queued.
JoinDetached ==
  /\ owner = "join"
  /\ Queued = 0
  /\ owner' = "dropped"
  /\ UNCHANGED <<queues, shutdown, worker, job, submitter, workerPanics, moved, ended>>

\* Drop returns when every worker was joined.  A submitter holds a reference, so the
\* last owner drops only after its calls have returned.
Join ==
  /\ owner = "join"
  /\ In("exited") = Workers
  /\ Notifying = {}
  /\ owner' = "dropped"
  /\ UNCHANGED <<queues, shutdown, worker, job, submitter, workerPanics, moved, ended>>

-----------------------------------------------------------------------------

Next ==
  \/ \E s \in Submitters, j \in Jobs, p \in Lanes : Submit(s, j, p)
  \/ \E s \in Submitters : NotifyOne(s)
  \/ \E w \in Workers : WakeSpuriously(w) \/ Turn(w)
  \/ \E w \in Workers, panics \in BOOLEAN : Run(w, panics)
  \/ BeginShutdown
  \/ NotifyAll
  \/ Join

Spec == Init /\ [][Next]_vars

\* Threads are scheduled and a job terminates.  Nothing makes a submitter submit, a
\* waiter wake up for no reason, or the owner drop.
Fairness ==
  /\ \A s \in Submitters : WF_vars(NotifyOne(s))
  /\ \A w \in Workers : WF_vars(Turn(w)) /\ WF_vars(\E panics \in BOOLEAN : Run(w, panics))
  /\ WF_vars(NotifyAll)
  /\ WF_vars(Join)

FairSpec == Spec /\ Fairness

-----------------------------------------------------------------------------
(* Properties.                                                              *)

\* Every variable holds a value of the program's type, and a worker holds a closure
\* exactly while it runs it.
TypeOK ==
  /\ queues \in [Lanes -> Seq(Jobs)]
  /\ shutdown \in BOOLEAN
  /\ worker \in [Workers -> {"ready", "waiting", "running", "exited"}]
  /\ job \in [Workers -> Jobs \cup {NoJob}]
  /\ \A w \in Workers : worker[w] = "running" <=> job[w] # NoJob
  /\ submitter \in [Submitters -> {"idle", "notify"}]
  /\ owner \in {"alive", "notify", "join", "dropped"}
  /\ workerPanics \in Nat
  /\ moved \subseteq Jobs
  /\ ended \subseteq Jobs

\* No wakeup is lost: while a worker sleeps, every queued job has a worker on its way
\* to the lock or a notification still to be sent.
NoLostWakeup ==
  In("waiting") # {} => Queued <= Cardinality(In("ready")) + Cardinality(Notifying)

\* Once drop has returned no closure exists any more: none queued, none running, so
\* nothing a job captured is used after the executor's owner is gone.
DroppedIsQuiet == owner = "dropped" => In("exited") = Workers /\ moved = ended

\* A submitted job is run or, at shutdown, discarded, whatever else is submitted and
\* however many jobs panic.
SubmittedEnds == \A j \in Jobs : j \in moved ~> j \in ended

\* Drop returns: no worker sleeps through shutdown.
DropReturns == owner = "notify" ~> owner = "dropped"
=============================================================================
