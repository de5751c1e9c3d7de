---------------------------- MODULE MCRedisConn ----------------------------
(***************************************************************************)
(* An instance of RedisConn: the two connections a pool starts with, the   *)
(* handlers of the message pool and one wrapper of each other discipline.  *)
(***************************************************************************)
EXTENDS RedisConn

CONSTANTS c1, c2

Store == <<"Xadd", "Lpush">>
History == <<"GetXrevrange">>
ApiHandlers == {Store, Timer, History}
AllHandlers == ApiHandlers \cup {<<"ZsetZcard">>}

Error == <<Node("error", 0)>>
Status == <<Node("status", 0)>>
Number == <<Node("integer", 1)>>
Text == <<Node("string", 2)>>
Nil == <<Node("string", -1)>>
Values(n) == <<Node("array", n)>> \o [i \in 1..n |-> Node("string", 2)]

MCAnswers ==
    [op \in DOMAIN Wrapper |->
        CASE op \in {"AUTH", "SELECT", "Set", "SetEx", "Hmset", "FlushDb"} -> {Status, Error}
          [] op = "Lrange" -> {Values(0), Values(1)}
          [] op = "GetXrevrange" -> {Values(0)}
          [] op = "Xadd" -> {Text, Error}
          [] op = "Get" -> {Text, Nil}
          [] OTHER -> {Number, Error}]

=============================================================================
