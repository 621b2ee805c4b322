--------------------------- MODULE MC_WssGateway ---------------------------
(***************************************************************************)
(* Instances of WssGateway for TLC.                                        *)
(***************************************************************************)
EXTENDS WssGateway, TLC

(* A push to one connection, or to two of them in either order. *)
MCSingles == {<<c>> : c \in Conn}
MCPairs   == {s \in {<<c, d>> : c, d \in Conn} : s[1] # s[2]}

MCSymmetry == Permutations(Conn)
=============================================================================
