------------------------------ MODULE MC_GrpcPool ------------------------------
(***************************************************************************)
(* Instances of GrpcPool for TLC.                                          *)
(***************************************************************************)
EXTENDS GrpcPool, TLC

MCSymmetry == Permutations(Caller) \cup Permutations(Target) \cup Permutations(Conn)
=============================================================================
