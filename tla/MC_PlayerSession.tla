-------------------------- MODULE MC_PlayerSession --------------------------
(***************************************************************************)
(* Instances of PlayerSession for TLC.                                     *)
(***************************************************************************)
EXTENDS PlayerSession, TLC

MCSymmetry == Permutations(Server)
=============================================================================
