----------------------------- MODULE MCConnPool -----------------------------
(***************************************************************************)
(* Instances of ConnPool: small pools, more threads than connections.      *)
(***************************************************************************)
EXTENDS ConnPool, TLC

CONSTANTS t1, t2, t3

ThreeThreads == {t1, t2, t3}
OneTimed == {t1}

\* The minimum everywhere but one database pool, which may grow.
SmallPools == [p \in Pool |-> IF p = "chatroom_master" THEN 2 ELSE 1]

=============================================================================
