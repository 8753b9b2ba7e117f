-------------------------- MODULE AtlasExchangeMC --------------------------
(***************************************************************************)
(* AtlasExchange between vaults that are interchangeable.                   *)
(***************************************************************************)
EXTENDS AtlasExchange, TLC

AnyPeer == Permutations(Peers)
=============================================================================
