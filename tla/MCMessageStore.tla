--------------------------- MODULE MCMessageStore ---------------------------
(***************************************************************************)
(* Instances of MessageStore: two or three messages in two rooms.          *)
(***************************************************************************)
EXTENDS MessageStore, TLC

CONSTANTS m1, m2, m3, r1, r2

ThreeMessages == {m1, m2, m3}
TwoMessages == {m1, m2}
TwoRooms == {r1, r2}

\* m1 and m2 share a room, m3 is alone in the other.
ThreeRoomOf == m1 :> r1 @@ m2 :> r1 @@ m3 :> r2
TwoRoomOf == m1 :> r1 @@ m2 :> r1

NoMessage == {}
OneQuoted == {m1}
=============================================================================
