------------------------------- MODULE Replay -------------------------------
(***************************************************************************)
(* A queue replayed on a state, its first entry first: the left fold of the *)
(* preview functions, as a recursive function, which proofs can unfold.     *)
(***************************************************************************)
EXTENDS Integers, Sequences

Replay(step(_, _), start, queue) ==
  LET after[i \in 0..Len(queue)] ==
        IF i = 0 THEN start ELSE step(after[i - 1], queue[i])
  IN  after[Len(queue)]
=============================================================================
