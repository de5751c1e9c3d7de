------------------------------- MODULE WsHub -------------------------------
(***************************************************************************)
(* The WebSocket connections of one Comet process and the two ways a chat  *)
(* message reaches them: the event loop handles a client's message         *)
(* (chat-room/service/websocket_conn.cc), and threads of the gRPC server   *)
(* handle BroadcastRoom (chat-room/rpc/comet_service.cc).  Both copy the   *)
(* subscribers of the room from PubSubService, look each one up in         *)
(* s_user_ws_conn_map and send to the connection found there.              *)
(*                                                                         *)
(* A critical section of either mutex is one action; the event loop runs   *)
(* one handler at a time, the gRPC threads run between its actions.  A     *)
(* frame counts as received when it is handed to a connected muduo socket. *)
(***************************************************************************)
EXTENDS Integers, FiniteSets

CONSTANTS
    Conn,           \* TCP connections, each made once
    User,           \* the uids
    Nobody,         \* the empty uid
    UserOf,         \* the uid in the URL of each connection's handshake
    Room,           \* the rooms of PubSubService::GetRoomList
    Msg,            \* messages, each published once, by either way
    RoomOf,         \* the room of each message, or Nothing: no such room
    Loop,           \* the event loop
    Rpc,            \* the threads of the gRPC server
    DBInstances,    \* the MySQL pools of conf.conf
    Absent,         \* no entry in s_user_ws_conn_map
    Null,           \* an entry with a null pointer
    Nothing

Worker == {Loop} \cup Rpc

ASSUME HubAssumption ==
    /\ UserOf \in [Conn -> User \cup {Nobody}]
    /\ RoomOf \in [Msg -> Room \cup {Nothing}]
    /\ Nobody \notin User
    /\ Nothing \notin Room \cup Conn \cup Msg \cup User \cup {Nobody}
    /\ Loop \notin Rpc
    /\ Absent \notin Conn /\ Null \notin Conn /\ Absent # Null

VARIABLES
    link,           \* each connection, as muduo and handshake_completed_ have it
    registry,       \* s_user_ws_conn_map
    subs,           \* the subscribers of each RoomTopic
    active,         \* the gauge active_connections
    \* one per worker
    doing,
    conn,           \* the connection it is handling, or has looked up
    rooms,          \* rooms the loop has yet to subscribe to
    msg,            \* the message it is publishing
    users,          \* its copy of the subscribers: those not served yet
    \* history
    sender,         \* who published each message: a user, Nobody, or Nothing
    audience,       \* the connections of subscribers that were open when it was
    got             \* how often each connection received each message

hubVars == <<link, registry, subs, active>>
workerVars == <<doing, conn, rooms, msg, users>>
historyVars == <<sender, audience, got>>
vars == <<hubVars, workerVars, historyVars>>

Link == {"none", "raw", "open", "closing", "gone"}
Job == {"idle", "subscribe", "publish", "send"}

TypeOK ==
    /\ link \in [Conn -> Link]
    /\ registry \in [User -> Conn \cup {Absent, Null}]
    /\ subs \in [Room -> SUBSET User]
    /\ active \in Nat
    /\ doing \in [Worker -> Job]
    /\ conn \in [Worker -> Conn \cup {Nothing}]
    /\ rooms \subseteq Room
    /\ msg \in [Worker -> Msg \cup {Nothing}]
    /\ users \in [Worker -> SUBSET User]
    /\ sender \in [Msg -> User \cup {Nobody, Nothing}]
    /\ audience \in [Msg -> SUBSET Conn]
    /\ got \in [Conn \X Msg -> Nat]

\* load_room_list has made the room topics.
Init ==
    /\ link = [c \in Conn |-> "none"]
    /\ registry = [u \in User |-> Absent]
    /\ subs = [r \in Room |-> {}]
    /\ active = 0
    /\ doing = [w \in Worker |-> "idle"]
    /\ conn = [w \in Worker |-> Nothing]
    /\ rooms = {}
    /\ msg = [w \in Worker |-> Nothing]
    /\ users = [w \in Worker |-> {}]
    /\ sender = [m \in Msg |-> Nothing]
    /\ audience = [m \in Msg |-> {}]
    /\ got = [d \in Conn \X Msg |-> 0]

-----------------------------------------------------------------------------
(* The handshake: register, then subscribe to every room.                  *)

\* An upgrade request without a key: the connection object exists.
HandshakeNoKey(c) ==
    /\ doing[Loop] = "idle"
    /\ link[c] = "none"
    /\ link' = [link EXCEPT ![c] = "raw"]
    /\ active' = active + 1
    /\ UNCHANGED <<registry, subs, workerVars, historyVars>>

\* The upgrade.  insert() keeps the entry a user has already.  Without a uid a
\* close frame is sent, and the connection stays as it is.
Handshake(c) ==
    /\ doing[Loop] = "idle"
    /\ link[c] \in {"none", "raw"}
    /\ link' = [link EXCEPT ![c] = "open"]
    /\ active' = IF link[c] = "none" THEN active + 1 ELSE active
    /\ \/ /\ UserOf[c] = Nobody
          /\ UNCHANGED <<registry, doing, conn, rooms>>
       \/ /\ UserOf[c] # Nobody
          /\ registry' = [registry EXCEPT ![UserOf[c]] = IF @ = Absent THEN c ELSE @]
          /\ doing' = [doing EXCEPT ![Loop] = "subscribe"]
          /\ conn' = [conn EXCEPT ![Loop] = c]
          /\ rooms' = Room
    /\ UNCHANGED <<subs, msg, users, historyVars>>

\* AddSubscriber for one room of the list.
Subscribe(r) ==
    /\ doing[Loop] = "subscribe"
    /\ r \in rooms
    /\ subs' = [subs EXCEPT ![r] = @ \cup {UserOf[conn[Loop]]}]
    /\ rooms' = rooms \ {r}
    /\ IF rooms = {r}
       THEN /\ doing' = [doing EXCEPT ![Loop] = "idle"]
            /\ conn' = [conn EXCEPT ![Loop] = Nothing]
       ELSE UNCHANGED <<doing, conn>>
    /\ UNCHANGED <<link, registry, active, msg, users, historyVars>>

-----------------------------------------------------------------------------
(* Publishing.                                                             *)

\* PublishMessage copies the subscribers; a room without topic has none.
Subscribers(m) == IF RoomOf[m] \in Room THEN subs[RoomOf[m]] ELSE {}

\* Worker w publishes m for user u; left are the users it has to serve.
Publish(w, m, u, left) ==
    /\ sender' = [sender EXCEPT ![m] = u]
    /\ audience' = [audience EXCEPT ![m] =
          {c \in Conn : link[c] = "open" /\ UserOf[c] \in Subscribers(m) \ {u}}]
    /\ msg' = [msg EXCEPT ![w] = m]
    /\ users' = [users EXCEPT ![w] = left]
    /\ doing' = [doing EXCEPT ![w] = IF left = {} THEN "idle" ELSE "publish"]
    /\ UNCHANGED got

\* One user is served, or passed over.
Served(w, u) ==
    /\ users' = [users EXCEPT ![w] = @ \ {u}]
    /\ doing' = [doing EXCEPT ![w] = IF users[w] = {u} THEN "idle" ELSE "publish"]
    /\ UNCHANGED msg

\* A frame for connection c, if that is one and it is connected.
Frame(c, m) ==
    got' = IF c \in Conn /\ link[c] = "open"
           THEN [got EXCEPT ![<<c, m>>] = @ + 1] ELSE got

UserPool == "user_centre" \in DBInstances

\* The process dies and is started again.
Restart ==
    /\ link' = [c \in Conn |-> IF link[c] = "none" THEN "none" ELSE "gone"]
    /\ registry' = [u \in User |-> Absent]
    /\ subs' = [r \in Room |-> {}]
    /\ active' = 0
    /\ doing' = [w \in Worker |-> "idle"]
    /\ conn' = [w \in Worker |-> Nothing]
    /\ rooms' = {}
    /\ msg' = [w \in Worker |-> Nothing]
    /\ users' = [w \in Worker |-> {}]

\* handleClientMessages, for a message that has been stored: the sender's name
\* and avatar, then PublishMessage.  GetDBConn has no pool user_centre unless
\* it is configured, and ExecuteQuery is called on the NULL it returns.
ClientMessage(c, m) ==
    /\ doing[Loop] = "idle"
    /\ link[c] = "open"
    /\ sender[m] = Nothing
    /\ \/ /\ UserPool
          /\ Publish(Loop, m, UserOf[c], Subscribers(m) \ {UserOf[c]})
          /\ UNCHANGED <<hubVars, conn, rooms>>
       \/ /\ ~UserPool
          /\ sender' = [sender EXCEPT ![m] = UserOf[c]]
          /\ Restart
          /\ UNCHANGED <<audience, got>>

\* handleHelloMessage asks for the user's name in the same way, and answers.
Hello(c) ==
    /\ doing[Loop] = "idle"
    /\ link[c] = "open"
    /\ \/ UserPool /\ UNCHANGED vars
       \/ ~UserPool /\ Restart /\ UNCHANGED historyVars

\* The callback of the event loop looks up and sends under the mutex.
Deliver(u) ==
    /\ doing[Loop] = "publish"
    /\ u \in users[Loop]
    /\ Frame(registry[u], msg[Loop])
    /\ Served(Loop, u)
    /\ UNCHANGED <<hubVars, conn, rooms, sender, audience>>

\* BroadcastRoom, called by the Job service.
BroadcastRoom(t, m) ==
    /\ doing[t] = "idle"
    /\ sender[m] = Nothing
    /\ Publish(t, m, Nobody, Subscribers(m))
    /\ UNCHANGED <<hubVars, conn, rooms>>

\* operator[] under the mutex: it makes a null entry where there was none.
LookUp(t, u) ==
    /\ doing[t] = "publish"
    /\ u \in users[t]
    /\ registry' = [registry EXCEPT ![u] = IF @ = Absent THEN Null ELSE @]
    /\ conn' = [conn EXCEPT ![t] = IF registry[u] \in Conn THEN registry[u] ELSE Nothing]
    /\ users' = [users EXCEPT ![t] = @ \ {u}]
    /\ doing' = [doing EXCEPT ![t] = "send"]
    /\ UNCHANGED <<link, subs, active, rooms, msg, historyVars>>

\* Mutant: a connection that is not open ends the call.
SendOrReturn(t) ==
    /\ doing[t] = "send"
    /\ Frame(conn[t], msg[t])
    /\ conn' = [conn EXCEPT ![t] = Nothing]
    /\ LET left == IF link[conn[t]] = "open" THEN users[t] ELSE {}
       IN  /\ users' = [users EXCEPT ![t] = left]
           /\ doing' = [doing EXCEPT ![t] = IF left = {} THEN "idle" ELSE "publish"]
    /\ UNCHANGED <<hubVars, rooms, msg, sender, audience>>

\* send(), after the mutex is released.
Send(t) ==
    /\ doing[t] = "send"
    /\ Frame(conn[t], msg[t])
    /\ conn' = [conn EXCEPT ![t] = Nothing]
    /\ doing' = [doing EXCEPT ![t] = IF users[t] = {} THEN "idle" ELSE "publish"]
    /\ UNCHANGED <<hubVars, rooms, msg, users, sender, audience>>

-----------------------------------------------------------------------------
(* Connections end.                                                        *)

\* disconnect(): a close frame received, or text that is not a message.
Disconnect(c) ==
    /\ doing[Loop] = "idle"
    /\ link[c] = "open"
    /\ link' = [link EXCEPT ![c] = "closing"]
    /\ UNCHANGED <<registry, subs, active, workerVars, historyVars>>

\* Mutant: the entry of the connection's user is erased, its subscriptions stay.
DropErases(c) ==
    /\ doing[Loop] = "idle"
    /\ link[c] \in {"raw", "open", "closing"}
    /\ link' = [link EXCEPT ![c] = "gone"]
    /\ registry' = [u \in User |-> IF registry[u] = c THEN Absent ELSE registry[u]]
    /\ UNCHANGED <<subs, active, workerVars, historyVars>>

\* Mutant: a connection that was told to close is counted twice.
DropTwice(c) ==
    /\ doing[Loop] = "idle"
    /\ link[c] \in {"raw", "open", "closing"}
    /\ link' = [link EXCEPT ![c] = "gone"]
    /\ active' = IF link[c] = "closing" THEN active - 2 ELSE active - 1
    /\ UNCHANGED <<registry, subs, workerVars, historyVars>>

\* onConnection, when the socket is gone.  std::any_cast does not find the
\* number in muduo's boost::any, so the handler stays in s_http_handler_map and
\* the connection object with it; nothing touches the registry or the rooms.
Drop(c) ==
    /\ doing[Loop] = "idle"
    /\ link[c] \in {"raw", "open", "closing"}
    /\ link' = [link EXCEPT ![c] = "gone"]
    /\ UNCHANGED <<registry, subs, active, workerVars, historyVars>>

Next ==
    \/ \E c \in Conn :
          \/ HandshakeNoKey(c)
          \/ Handshake(c)
          \/ \E m \in Msg : ClientMessage(c, m)
          \/ Hello(c)
          \/ Disconnect(c)
          \/ Drop(c)
    \/ \E r \in Room : Subscribe(r)
    \/ \E u \in User : Deliver(u)
    \/ \E t \in Rpc :
          \/ \E m \in Msg : BroadcastRoom(t, m)
          \/ \E u \in User : LookUp(t, u)
          \/ Send(t)

Spec == Init /\ [][Next]_vars

-----------------------------------------------------------------------------
(* Properties.                                                             *)

Registered(u) == u \in User /\ registry[u] \in Conn

\* Whoever publishes finds a connection for every subscriber: the handshake
\* registers before it subscribes, so operator[] in BroadcastRoom never leaves
\* a null entry, which no later handshake would replace (websocket_conn.cc:670,
\* comet_service.cc:73).
SubscribersRegistered ==
    /\ \A r \in Room : \A u \in subs[r] : Registered(u)
    /\ \A u \in User : registry[u] # Null

\* A user's entry is a connection of that user, past its handshake.
OwnEntries ==
    \A u \in User : registry[u] \in Conn =>
        UserOf[registry[u]] = u /\ link[registry[u]] \notin {"none", "raw"}

\* A worker that is publishing has a message.
Publishing == \A w \in Worker : doing[w] \in {"publish", "send"} => msg[w] \in Msg

\* The users and connections the workers have in hand are registered.
WorkersRegistered ==
    /\ \A w \in Worker : \A u \in users[w] : Registered(u)
    /\ doing[Loop] = "subscribe" => conn[Loop] \in Conn /\ Registered(UserOf[conn[Loop]])
    /\ \A t \in Rpc : doing[t] = "send" =>
          conn[t] \in Conn /\ \E u \in User : registry[u] = conn[t]

\* The inductive invariant.
HubInv == SubscribersRegistered /\ OwnEntries /\ Publishing /\ WorkersRegistered

\* No worker is publishing m any more.
Finished(m) ==
    sender[m] # Nothing /\ \A w \in Worker : msg[w] = m => doing[w] \notin {"publish", "send"}

\* A published message reaches each registered connection of its audience that
\* is still open, exactly once, whatever connects, leaves or is broadcast
\* meanwhile (websocket_conn.cc:358-405, comet_service.cc:66-85).
RegisteredReceive ==
    \A m \in Msg : Finished(m) =>
        \A c \in audience[m] :
            link[c] = "open" /\ registry[UserOf[c]] = c => got[<<c, m>>] = 1

\* Nobody receives a message twice, or one of their own on any connection
\* (websocket_conn.cc:383-387).
NoEcho ==
    \A c \in Conn, m \in Msg :
        got[<<c, m>>] <= (IF UserOf[c] = sender[m] THEN 0 ELSE 1)

\* What a connection receives: all it should, once, and nothing else.
Delivery == RegisteredReceive /\ NoEcho

\* The gauge counts every WebSocket connection that is still there, whether or
\* not its handshake came to an end (websocket_conn.cc:137-149).
GaugeCovers == active >= Cardinality({c \in Conn : link[c] \in {"raw", "open", "closing"}})

\* What HYBRID_MODE.md:20 says: all online users of the room receive a message
\* at once.
AllOnlineReceive ==
    \A m \in Msg : Finished(m) =>
        \A c \in audience[m] : link[c] = "open" => got[<<c, m>>] = 1

\* What websocket_conn.cc:337 says of a failed look-up of the sender: default
\* values are used.  So no connection is lost over a client's message.
LookupFailureSurvived ==
    [][\A c \in Conn, m \in Msg : ClientMessage(c, m) => link' = link]_vars

=============================================================================
