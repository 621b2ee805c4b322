---------------------------- MODULE MC_GameRouting ----------------------------
(***************************************************************************)
(* Instances of GameRouting for TLC.                                       *)
(***************************************************************************)
EXTENDS GameRouting, TLC

MCSymmetry == Permutations(Server) \cup Permutations(Endpoint)
=============================================================================
