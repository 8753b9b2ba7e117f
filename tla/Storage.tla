------------------------------ MODULE Storage ------------------------------
(***************************************************************************)
(* What a persistence backend promises (the Storage trait, ADR 0022): each  *)
(* key changes atomically, and a call that returns Ok has made its effect   *)
(* durable.  A call that fails, or that a crash cuts short, may have landed *)
(* or not, and what has landed may still be lost.                           *)
(***************************************************************************)

CONSTANTS
  Keys,
  Values,
  Absent     \* what a key without an entry holds

VARIABLES
  readable,  \* [Keys -> what load returns now]
  survivors, \* [Keys -> the contents of which a power loss leaves one]
  committed  \* [Keys -> what the last successful call on the key left there]

storageVars == <<readable, survivors, committed>>

Contents == Values \cup {Absent}

Init ==
  /\ readable = [k \in Keys |-> Absent]
  /\ survivors = [k \in Keys |-> {Absent}]
  /\ committed = [k \in Keys |-> Absent]

\* store(k, v), or remove(k) with v = Absent, returned Ok.  The barrier may make
\* durable what earlier calls left of other keys (settled) as well.
Stored(k, v, settled) ==
  /\ readable' = [readable EXCEPT ![k] = v]
  /\ survivors' = [j \in Keys |-> IF j = k THEN {v}
                                  ELSE IF j \in settled THEN {readable[j]} ELSE survivors[j]]
  /\ committed' = [committed EXCEPT ![k] = v]

\* A call that has not returned Ok, and may never, took effect.
Landed(k, v) ==
  /\ readable' = [readable EXCEPT ![k] = v]
  /\ survivors' = [survivors EXCEPT ![k] = @ \cup {v}]
  /\ UNCHANGED committed

\* A barrier of a call that has not returned.
Settled(settled) ==
  /\ survivors' = [j \in Keys |-> IF j \in settled THEN {readable[j]} ELSE survivors[j]]
  /\ UNCHANGED <<readable, committed>>

PowerLoss ==
  /\ readable' \in [Keys -> UNION {survivors[k] : k \in Keys}]
  /\ \A k \in Keys : readable'[k] \in survivors[k]
  /\ survivors' = [k \in Keys |-> {readable'[k]}]
  /\ UNCHANGED committed

Next ==
  \/ \E k \in Keys, v \in Contents : Landed(k, v) \/ \E s \in SUBSET Keys : Stored(k, v, s)
  \/ \E s \in SUBSET Keys : Settled(s)
  \/ PowerLoss

Spec == Init /\ [][Next]_storageVars
=============================================================================
