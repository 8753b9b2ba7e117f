--------------------------- MODULE CanonicalTiles ---------------------------
(***************************************************************************)
(* What the streaming map promises its readers, without jobs, caches or     *)
(* dirty bits: a region either shows nothing, or shows for every layer the  *)
(* content that the authoritative state of this very moment determines      *)
(* (ADR 0008, ADR 0018).  State and what is shown change together: no       *)
(* reader can see tiles of an older state.                                  *)
(***************************************************************************)
CONSTANTS
  Regions,   \* region coordinates
  Nothing    \* a region that shows no tiles

VARIABLES
  key,       \* [Regions -> what the authoritative state determines per layer]
  shown      \* [Regions -> the content a reader sees, or Nothing]

Init == shown = [c \in Regions |-> Nothing]

\* A region whose tiles are all in becomes visible; the state does not move.
Publish(c) ==
  /\ shown[c] = Nothing
  /\ shown' = [shown EXCEPT ![c] = key[c]]
  /\ UNCHANGED key

\* The state moves: whatever it moves under is withdrawn in the same step.
Move ==
  /\ \A c \in Regions :
       \/ shown'[c] = Nothing
       \/ shown'[c] = shown[c] /\ key'[c] = key[c]
  /\ shown' = [c \in Regions |-> shown'[c]]

Next == (\E c \in Regions : Publish(c)) \/ Move

Spec == Init /\ [][Next]_<<key, shown>>
=============================================================================
