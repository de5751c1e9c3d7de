--------------------------- MODULE MCLogicService ---------------------------
(***************************************************************************)
(* Two connections, one of which posts two messages one after the other,   *)
(* the other an incomplete one; two partitions.                            *)
(***************************************************************************)
EXTENDS LogicService, TLC

CONSTANTS c1, c2, m1, m2, m3, p1, p2

TwoSends == c1 :> <<m1, m2>> @@ c2 :> <<m3>>

=============================================================================
