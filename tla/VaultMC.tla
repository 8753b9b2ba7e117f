------------------------------ MODULE VaultMC ------------------------------
(***************************************************************************)
(* Instances of Vault for TLC, and the bundles a peer offers them.          *)
(***************************************************************************)
EXTENDS Vault, TLC

Copy(s, t, u, h) == [record |-> [sequence |-> s, text |-> t, usage |-> u], honest |-> h]

\* For every id a copy numbered ahead of the local counter, an older one, and
\* one whose id does not match its body.
PeerBundles ==
  {[i \in {id} |-> c] : id \in Ids,
     c \in {Copy(MaxSequence - 1, 1, 0, TRUE), Copy(1, 2, MaxUsage, TRUE),
            Copy(MaxSequence, 2, 0, FALSE)}}

NoBundles == {}
=============================================================================
