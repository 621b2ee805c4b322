--------------------------- MODULE MC_CentralLogin ---------------------------
(***************************************************************************)
(* Instances of CentralLogin for TLC.                                      *)
(***************************************************************************)
EXTENDS CentralLogin, TLC

MCSymmetry == Permutations(Login) \cup Permutations(Token)
=============================================================================
