------------------------------ MODULE MCWsHub ------------------------------
(***************************************************************************)
(* Instances of WsHub: two users, one of whom connects again.              *)
(***************************************************************************)
EXTENDS WsHub, TLC

CONSTANTS a1, a2, b1, x1, ann, bob, r1, r2, m1, m2, m3, t1, t2

ThreeUserOf == (a1 :> ann) @@ (a2 :> ann) @@ (b1 :> bob)
NamelessUserOf == (a1 :> ann) @@ (b1 :> bob) @@ (x1 :> Nobody)
TwoRoomOf == (m1 :> r1) @@ (m2 :> r1)
StrayRoomOf == (m1 :> r1) @@ (m2 :> r1) @@ (m3 :> Nothing)

AsConfigured == {"chatroom_master", "chatroom_slave"}
WithUserCentre == AsConfigured \cup {"user_centre"}
Threads == Permutations({t1, t2})

=============================================================================
