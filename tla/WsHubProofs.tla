---------------------------- MODULE WsHubProofs ----------------------------
(***************************************************************************)
(* Proofs about the WebSocket hub, for any number of connections, users,   *)
(* rooms, messages and gRPC threads: subscribers are found, a message      *)
(* reaches each connection of its audience once, and the gauge covers the  *)
(* connections that are there.                                             *)
(***************************************************************************)
EXTENDS WsHub, FiniteSetTheorems, TLAPS

-----------------------------------------------------------------------------
(* Types.                                                                  *)

\* The names of the links and the tasks that the actions use.
LEMMA Names ==
    /\ "none" \in Link /\ "raw" \in Link /\ "open" \in Link /\ "closing" \in Link /\ "gone" \in Link
    /\ "idle" \in Job /\ "subscribe" \in Job /\ "publish" \in Job /\ "send" \in Job
    /\ Loop \in Worker /\ Rpc \subseteq Worker
  BY DEF Link, Job, Worker

\* The subscribers of a message's room are users.
LEMMA SubscribersType ==
    ASSUME TypeOK, NEW m \in Msg
    PROVE  Subscribers(m) \subseteq User
  BY DEF TypeOK, Subscribers

\* A frame is counted, or not.
LEMMA FrameType ==
    ASSUME TypeOK, NEW c, NEW m \in Msg, Frame(c, m)
    PROVE  got' \in [Conn \X Msg -> Nat]
<1>1. got \in [Conn \X Msg -> Nat]
  BY DEF TypeOK
<1>2. CASE c \in Conn /\ link[c] = "open"
  <2>1. got' = [got EXCEPT ![<<c, m>>] = @ + 1]
    BY <1>2 DEF Frame
  <2>2. got[<<c, m>>] + 1 \in Nat
    BY <1>1, <1>2
  <2>3. QED
    BY <1>1, <2>1, <2>2
<1>3. CASE ~(c \in Conn /\ link[c] = "open")
  BY <1>1, <1>3 DEF Frame
<1>4. QED
  BY <1>2, <1>3

\* A worker that starts to publish changes its own registers and the history.
LEMMA PublishType ==
    ASSUME TypeOK, NEW w \in Worker, NEW m \in Msg, NEW u \in User \cup {Nobody},
           NEW left \in SUBSET User, Publish(w, m, u, left)
    PROVE  /\ sender' \in [Msg -> User \cup {Nobody, Nothing}]
           /\ audience' \in [Msg -> SUBSET Conn]
           /\ msg' \in [Worker -> Msg \cup {Nothing}]
           /\ users' \in [Worker -> SUBSET User]
           /\ doing' \in [Worker -> Job]
           /\ got' \in [Conn \X Msg -> Nat]
  BY Names DEF TypeOK, Publish

\* A restarted process has the initial state of its variables.
LEMMA RestartType ==
    ASSUME TypeOK, Restart
    PROVE  /\ link' \in [Conn -> Link]
           /\ registry' \in [User -> Conn \cup {Absent, Null}]
           /\ subs' \in [Room -> SUBSET User]
           /\ active' \in Nat
           /\ doing' \in [Worker -> Job]
           /\ conn' \in [Worker -> Conn \cup {Nothing}]
           /\ rooms' \subseteq Room
           /\ msg' \in [Worker -> Msg \cup {Nothing}]
           /\ users' \in [Worker -> SUBSET User]
  BY Names DEF TypeOK, Restart

\* The handshake keeps the types.
LEMMA HandshakeType ==
    ASSUME TypeOK, NEW c \in Conn, HandshakeNoKey(c) \/ Handshake(c)
    PROVE  TypeOK'
<1>1. CASE HandshakeNoKey(c)
  BY <1>1, Names DEF TypeOK, HandshakeNoKey, workerVars, historyVars
<1>2. CASE Handshake(c)
  <2>1. /\ link' \in [Conn -> Link] /\ active' \in Nat
        /\ UNCHANGED <<subs, msg, users, sender, audience, got>>
    BY <1>2, Names DEF TypeOK, Handshake, historyVars
  <2>2. /\ registry' \in [User -> Conn \cup {Absent, Null}]
        /\ doing' \in [Worker -> Job]
        /\ conn' \in [Worker -> Conn \cup {Nothing}]
        /\ rooms' \subseteq Room
    BY <1>2, Names DEF TypeOK, Handshake
  <2>3. QED
    BY <2>1, <2>2 DEF TypeOK
<1>3. QED
  BY <1>1, <1>2

\* A client's message keeps the types.
LEMMA ClientMessageType ==
    ASSUME TypeOK, NEW c \in Conn, NEW m \in Msg, ClientMessage(c, m)
    PROVE  TypeOK'
<1>1. UserOf[c] \in User \cup {Nobody}
  BY HubAssumption
<1>2. CASE UserPool
  <2>1. /\ Publish(Loop, m, UserOf[c], Subscribers(m) \ {UserOf[c]})
        /\ UNCHANGED <<link, registry, subs, active, conn, rooms>>
    BY <1>2 DEF ClientMessage, hubVars
  <2>2. Subscribers(m) \ {UserOf[c]} \in SUBSET User
    BY SubscribersType
  <2>3. /\ sender' \in [Msg -> User \cup {Nobody, Nothing}]
        /\ audience' \in [Msg -> SUBSET Conn]
        /\ msg' \in [Worker -> Msg \cup {Nothing}]
        /\ users' \in [Worker -> SUBSET User]
        /\ doing' \in [Worker -> Job]
        /\ got' \in [Conn \X Msg -> Nat]
    <3>1. Loop \in Worker
      BY Names
    <3>2. QED
      BY <1>1, <2>1, <2>2, <3>1, PublishType
  <2>4. QED
    BY <2>1, <2>3 DEF TypeOK
<1>3. CASE ~UserPool
  <2>1. /\ Restart
        /\ sender' = [sender EXCEPT ![m] = UserOf[c]]
        /\ UNCHANGED <<audience, got>>
    BY <1>3 DEF ClientMessage
  <2>2. sender' \in [Msg -> User \cup {Nobody, Nothing}]
    BY <1>1, <2>1 DEF TypeOK
  <2>3. QED
    BY <2>1, <2>2, RestartType DEF TypeOK
<1>4. QED
  BY <1>2, <1>3

\* A call of BroadcastRoom keeps the types.
LEMMA BroadcastRoomType ==
    ASSUME TypeOK, NEW t \in Rpc, NEW m \in Msg, BroadcastRoom(t, m)
    PROVE  TypeOK'
<1>1. /\ Publish(t, m, Nobody, Subscribers(m))
      /\ UNCHANGED <<link, registry, subs, active, conn, rooms>>
  BY DEF BroadcastRoom, hubVars
<1>2. t \in Worker /\ Subscribers(m) \in SUBSET User /\ Nobody \in User \cup {Nobody}
  BY SubscribersType, Names
<1>3. /\ sender' \in [Msg -> User \cup {Nobody, Nothing}]
      /\ audience' \in [Msg -> SUBSET Conn]
      /\ msg' \in [Worker -> Msg \cup {Nothing}]
      /\ users' \in [Worker -> SUBSET User]
      /\ doing' \in [Worker -> Job]
      /\ got' \in [Conn \X Msg -> Nat]
  BY <1>1, <1>2, PublishType
<1>4. QED
  BY <1>1, <1>3 DEF TypeOK

\* Serving one user keeps the types.
LEMMA ServeType ==
    ASSUME TypeOK, HubInv,
           \/ \E u \in User : Deliver(u)
           \/ \E t \in Rpc : Send(t) \/ \E u \in User : LookUp(t, u)
    PROVE  TypeOK'
<1>1. ASSUME NEW u \in User, Deliver(u)
      PROVE  TypeOK'
  <2>1. Loop \in Worker /\ msg[Loop] \in Msg
    BY <1>1, Names DEF Deliver, HubInv, Publishing
  <2>2. got' \in [Conn \X Msg -> Nat]
    BY <1>1, <2>1, FrameType DEF Deliver
  <2>3. /\ users' \in [Worker -> SUBSET User]
        /\ doing' \in [Worker -> Job]
        /\ msg' = msg
    BY <1>1, <2>1, Names DEF TypeOK, Deliver, Served
  <2>4. QED
    BY <1>1, <2>2, <2>3 DEF TypeOK, Deliver, hubVars
<1>2. ASSUME NEW t \in Rpc, Send(t)
      PROVE  TypeOK'
  <2>1. t \in Worker /\ msg[t] \in Msg
    BY <1>2, Names DEF Send, HubInv, Publishing
  <2>2. got' \in [Conn \X Msg -> Nat]
    BY <1>2, <2>1, FrameType DEF Send
  <2>3. /\ conn' \in [Worker -> Conn \cup {Nothing}]
        /\ doing' \in [Worker -> Job]
    BY <1>2, <2>1, Names DEF TypeOK, Send
  <2>4. QED
    BY <1>2, <2>2, <2>3 DEF TypeOK, Send, hubVars
<1>3. ASSUME NEW t \in Rpc, NEW u \in User, LookUp(t, u)
      PROVE  TypeOK'
  <2>1. t \in Worker
    BY Names
  <2>2. /\ registry' \in [User -> Conn \cup {Absent, Null}]
        /\ conn' \in [Worker -> Conn \cup {Nothing}]
    BY <1>3, <2>1 DEF TypeOK, LookUp
  <2>3. /\ users' \in [Worker -> SUBSET User]
        /\ doing' \in [Worker -> Job]
    BY <1>3, <2>1, Names DEF TypeOK, LookUp
  <2>4. QED
    BY <1>3, <2>2, <2>3 DEF TypeOK, LookUp, historyVars
<1>4. QED
  BY <1>1, <1>2, <1>3

\* Subscribing keeps the types; the connection is the one being handled.
LEMMA SubscribeType ==
    ASSUME TypeOK, HubInv, NEW r \in Room, Subscribe(r)
    PROVE  TypeOK'
<1>1. conn[Loop] \in Conn /\ UserOf[conn[Loop]] \in User
  BY DEF HubInv, WorkersRegistered, Registered, Subscribe
<1>2. subs' \in [Room -> SUBSET User]
  BY <1>1 DEF TypeOK, Subscribe
<1>3. /\ rooms' \subseteq Room
      /\ doing' \in [Worker -> Job]
      /\ conn' \in [Worker -> Conn \cup {Nothing}]
  BY Names DEF TypeOK, Subscribe
<1>4. QED
  BY <1>2, <1>3 DEF TypeOK, Subscribe, historyVars

\* A hello message keeps the types.
LEMMA HelloType ==
    ASSUME TypeOK, NEW c \in Conn, Hello(c)
    PROVE  TypeOK'
<1>1. CASE UserPool
  BY <1>1 DEF Hello, TypeOK, vars, hubVars, workerVars, historyVars
<1>2. CASE ~UserPool
  BY <1>2, RestartType DEF Hello, TypeOK, historyVars
<1>3. QED
  BY <1>1, <1>2

\* The end of a connection keeps the types.
LEMMA CloseType ==
    ASSUME TypeOK, NEW c \in Conn, Disconnect(c) \/ Drop(c)
    PROVE  TypeOK'
  BY Names DEF TypeOK, Disconnect, Drop, workerVars, historyVars

\* Every step keeps the types.
LEMMA TypeStep ==
    TypeOK /\ HubInv /\ [Next]_vars => TypeOK'
<1> SUFFICES ASSUME TypeOK, HubInv, [Next]_vars
             PROVE  TypeOK'
  OBVIOUS
<1>1. CASE UNCHANGED vars
  BY <1>1 DEF TypeOK, vars, hubVars, workerVars, historyVars
<1>2. CASE Next
  BY <1>2, HandshakeType, ClientMessageType, HelloType, CloseType, SubscribeType, ServeType, BroadcastRoomType
     DEF Next
<1>3. QED
  BY <1>1, <1>2

-----------------------------------------------------------------------------
(* The registry and the subscriptions.                                     *)

\* A handshake registers its user, or finds the user registered, before it
\* goes on to subscribe; no entry is replaced.
LEMMA HandshakeHub ==
    ASSUME TypeOK, HubInv, NEW c \in Conn, Handshake(c)
    PROVE  HubInv'
<1>1. /\ link[c] \in {"none", "raw"}
      /\ \A d \in Conn : link'[d] = IF d = c THEN "open" ELSE link[d]
      /\ UNCHANGED <<subs, msg, users>>
  BY DEF TypeOK, Handshake
<1>2. CASE UserOf[c] = Nobody
  <2>1. UNCHANGED <<registry, doing, conn, rooms>>
    BY <1>2 DEF Handshake
  <2>2. SubscribersRegistered' /\ Publishing' /\ WorkersRegistered'
    BY <1>1, <2>1 DEF HubInv, SubscribersRegistered, Publishing, WorkersRegistered, Registered
  <2>3. OwnEntries'
    BY <1>1, <2>1 DEF HubInv, OwnEntries
  <2>4. QED
    BY <2>2, <2>3 DEF HubInv
<1>3. CASE UserOf[c] # Nobody
  <2>1. UserOf[c] \in User
    BY <1>3, HubAssumption
  <2>2. /\ \A u \in User : registry'[u] =
              IF u = UserOf[c] /\ registry[u] = Absent THEN c ELSE registry[u]
        /\ \A w \in Worker : doing'[w] = IF w = Loop THEN "subscribe" ELSE doing[w]
        /\ \A w \in Worker : conn'[w] = IF w = Loop THEN c ELSE conn[w]
    BY <1>3, <2>1 DEF TypeOK, Handshake
  <2>3. \A u \in User : Registered(u) => Registered(u)' /\ registry'[u] = registry[u]
    BY <2>2, HubAssumption DEF Registered
  <2>4. SubscribersRegistered'
    BY <1>1, <2>2, <2>3, HubAssumption DEF HubInv, SubscribersRegistered, Registered
  <2>5. OwnEntries'
    BY <1>1, <2>2, HubAssumption DEF HubInv, OwnEntries
  <2>6. Publishing'
    BY <1>1, <2>2 DEF HubInv, Publishing
  <2>7. Registered(UserOf[c])'
    BY <2>1, <2>2 DEF TypeOK, HubInv, SubscribersRegistered, Registered
  <2>8. \A t \in Rpc : doing'[t] = doing[t] /\ conn'[t] = conn[t]
    BY <2>2, HubAssumption DEF Worker
  <2>9. conn'[Loop] = c
    BY <2>2 DEF Worker
  <2>10. WorkersRegistered'
    <3>1. \A w \in Worker : \A u \in users'[w] : Registered(u)'
      BY <1>1, <2>3 DEF HubInv, WorkersRegistered, Registered
    <3>2. \A t \in Rpc : doing'[t] = "send" =>
              conn'[t] \in Conn /\ \E u \in User : registry'[u] = conn'[t]
      BY <2>3, <2>8 DEF HubInv, WorkersRegistered, Registered
    <3>3. QED
      BY <2>7, <2>9, <3>1, <3>2 DEF WorkersRegistered, Registered
  <2>11. QED
    BY <2>4, <2>5, <2>6, <2>10 DEF HubInv
<1>4. QED
  BY <1>2, <1>3

\* Subscribing adds a registered user.
LEMMA SubscribeHub ==
    ASSUME TypeOK, HubInv, NEW r \in Room, Subscribe(r)
    PROVE  HubInv'
<1>1. UNCHANGED <<link, registry, msg, users>>
  BY DEF Subscribe
<1>2. conn[Loop] \in Conn /\ Registered(UserOf[conn[Loop]])
  BY DEF HubInv, WorkersRegistered, Subscribe
<1>3. \A q \in Room : subs'[q] \subseteq subs[q] \cup {UserOf[conn[Loop]]}
  BY DEF TypeOK, Subscribe
<1>4. \A w \in Worker : w # Loop => doing'[w] = doing[w] /\ conn'[w] = conn[w]
  BY DEF TypeOK, Subscribe
<1>5. \/ doing'[Loop] = "idle"
      \/ doing'[Loop] = "subscribe" /\ conn'[Loop] = conn[Loop]
  BY Names DEF TypeOK, Subscribe
<1>6. SubscribersRegistered'
  BY <1>1, <1>2, <1>3 DEF HubInv, SubscribersRegistered, Registered
<1>7. OwnEntries'
  BY <1>1 DEF HubInv, OwnEntries
<1>8. Publishing'
  BY <1>1, <1>4, <1>5 DEF HubInv, Publishing
<1>9. WorkersRegistered'
  BY <1>1, <1>2, <1>4, <1>5, HubAssumption, Names DEF HubInv, WorkersRegistered, Registered
<1>10. QED
  BY <1>6, <1>7, <1>8, <1>9 DEF HubInv

\* A worker starts to publish to registered users.
LEMMA PublishHub ==
    ASSUME TypeOK, HubInv, NEW w \in Worker, NEW m \in Msg, NEW u \in User \cup {Nobody},
           NEW left \in SUBSET Subscribers(m), Publish(w, m, u, left),
           doing[w] = "idle", UNCHANGED <<hubVars, conn, rooms>>
    PROVE  HubInv'
<1>1. UNCHANGED <<link, registry, subs, conn>>
  BY DEF hubVars
<1>2. \A v \in Worker : /\ msg'[v] = IF v = w THEN m ELSE msg[v]
                        /\ users'[v] = IF v = w THEN left ELSE users[v]
  BY DEF TypeOK, Publish
<1>3. \A v \in Worker : IF v = w THEN doing'[v] \in {"idle", "publish"} ELSE doing'[v] = doing[v]
  BY DEF TypeOK, Publish
<1>4. \A v \in Subscribers(m) : Registered(v)
  BY DEF HubInv, SubscribersRegistered, Subscribers
<1>5. SubscribersRegistered' /\ OwnEntries'
  BY <1>1 DEF HubInv, SubscribersRegistered, OwnEntries, Registered
<1>6. Publishing'
  BY <1>2, <1>3 DEF HubInv, Publishing
<1>7. WorkersRegistered'
  <2>1. \A v \in Worker : \A x \in users'[v] : Registered(x)'
    BY <1>1, <1>2, <1>4 DEF HubInv, WorkersRegistered, Registered
  <2>2. \A v \in Worker : doing'[v] \in {"subscribe", "send"} => doing[v] = doing'[v]
    BY <1>3
  <2>3. QED
    BY <1>1, <2>1, <2>2, Names DEF HubInv, WorkersRegistered, Registered
<1>8. QED
  BY <1>5, <1>6, <1>7 DEF HubInv

\* Serving one user makes no entry: the user is registered.
LEMMA ServeHub ==
    ASSUME TypeOK, HubInv,
           \/ \E u \in User : Deliver(u)
           \/ \E t \in Rpc : Send(t) \/ \E u \in User : LookUp(t, u)
    PROVE  HubInv'
<1>1. ASSUME NEW u \in User, Deliver(u)
      PROVE  HubInv'
  <2>1. UNCHANGED <<link, registry, subs, conn, msg>>
    BY <1>1 DEF Deliver, Served, hubVars
  <2>2. \A v \in Worker : users'[v] \subseteq users[v]
    BY <1>1 DEF TypeOK, Deliver, Served
  <2>3. \A v \in Worker : \/ doing'[v] = doing[v]
                          \/ doing'[v] = "idle"
                          \/ doing'[v] = "publish" /\ doing[v] = "publish"
    BY <1>1, Names DEF TypeOK, Deliver, Served
  <2>4. SubscribersRegistered' /\ OwnEntries'
    BY <2>1 DEF HubInv, SubscribersRegistered, OwnEntries, Registered
  <2>5. Publishing' /\ WorkersRegistered'
    BY <2>1, <2>2, <2>3, Names DEF HubInv, Publishing, WorkersRegistered, Registered
  <2>6. QED
    BY <2>4, <2>5 DEF HubInv
<1>2. ASSUME NEW t \in Rpc, Send(t)
      PROVE  HubInv'
  <2>1. UNCHANGED <<link, registry, subs, msg, users>>
    BY <1>2 DEF Send, hubVars
  <2>2. \A v \in Worker : v # t => doing'[v] = doing[v] /\ conn'[v] = conn[v]
    BY <1>2 DEF TypeOK, Send
  <2>3. doing[t] = "send" /\ doing'[t] \in {"idle", "publish"} /\ t # Loop
    BY <1>2, Names, HubAssumption DEF TypeOK, Send
  <2>4. SubscribersRegistered' /\ OwnEntries'
    BY <2>1 DEF HubInv, SubscribersRegistered, OwnEntries, Registered
  <2>5. Publishing'
    BY <2>1, <2>2, <2>3, Names DEF HubInv, Publishing
  <2>6. WorkersRegistered'
    BY <2>1, <2>2, <2>3, Names DEF HubInv, WorkersRegistered, Registered
  <2>7. QED
    BY <2>4, <2>5, <2>6 DEF HubInv
<1>3. ASSUME NEW t \in Rpc, NEW u \in User, LookUp(t, u)
      PROVE  HubInv'
  <2>1. registry[u] \in Conn
    BY <1>3, Names DEF HubInv, WorkersRegistered, Registered, LookUp
  <2>2. UNCHANGED <<link, registry, subs, msg>>
    BY <1>3, <2>1, HubAssumption DEF TypeOK, LookUp, historyVars
  <2>3. \A v \in Worker : v # t => doing'[v] = doing[v] /\ conn'[v] = conn[v]
    BY <1>3 DEF TypeOK, LookUp
  <2>4. doing[t] = "publish" /\ doing'[t] = "send" /\ conn'[t] = registry[u] /\ t # Loop
    BY <1>3, <2>1, Names, HubAssumption DEF TypeOK, LookUp
  <2>5. \A v \in Worker : users'[v] \subseteq users[v]
    BY <1>3 DEF TypeOK, LookUp
  <2>6. SubscribersRegistered' /\ OwnEntries'
    BY <2>2 DEF HubInv, SubscribersRegistered, OwnEntries, Registered
  <2>7. Publishing'
    BY <2>2, <2>3, <2>4, Names DEF HubInv, Publishing
  <2>8. WorkersRegistered'
    BY <2>1, <2>2, <2>3, <2>4, <2>5, Names DEF HubInv, WorkersRegistered, Registered
  <2>9. QED
    BY <2>6, <2>7, <2>8 DEF HubInv
<1>4. QED
  BY <1>1, <1>2, <1>3

\* A restarted process has no subscribers and no entries.
LEMMA RestartHub ==
    ASSUME Restart
    PROVE  HubInv'
<1>1. SubscribersRegistered' /\ OwnEntries'
  BY HubAssumption DEF Restart, SubscribersRegistered, OwnEntries
<1>2. Publishing' /\ WorkersRegistered'
  BY Names DEF Restart, Publishing, WorkersRegistered
<1>3. QED
  BY <1>1, <1>2 DEF HubInv

\* A connection that ends stays in the registry, and so do its subscriptions.
LEMMA CloseHub ==
    ASSUME TypeOK, HubInv, NEW c \in Conn, HandshakeNoKey(c) \/ Disconnect(c) \/ Drop(c)
    PROVE  HubInv'
<1>1. UNCHANGED <<registry, subs, doing, conn, msg, users>>
  BY DEF HandshakeNoKey, Disconnect, Drop, workerVars
<1>2. \A d \in Conn : link[d] \notin {"none", "raw"} => link'[d] \notin {"none", "raw"}
  BY DEF TypeOK, HandshakeNoKey, Disconnect, Drop
<1>3. SubscribersRegistered' /\ Publishing' /\ WorkersRegistered'
  BY <1>1 DEF HubInv, SubscribersRegistered, Publishing, WorkersRegistered, Registered
<1>4. OwnEntries'
  BY <1>1, <1>2 DEF HubInv, OwnEntries
<1>5. QED
  BY <1>3, <1>4 DEF HubInv

\* Every step keeps the invariant.
LEMMA HubStep == TypeOK /\ HubInv /\ [Next]_vars => HubInv'
<1> SUFFICES ASSUME TypeOK, HubInv, [Next]_vars
             PROVE  HubInv'
  OBVIOUS
<1>1. CASE UNCHANGED vars
  BY <1>1 DEF HubInv, SubscribersRegistered, OwnEntries, Publishing, WorkersRegistered,
              Registered, vars, hubVars, workerVars, historyVars
<1>2. ASSUME NEW c \in Conn, NEW m \in Msg, ClientMessage(c, m)
      PROVE  HubInv'
  <2>1. UserOf[c] \in User \cup {Nobody}
    BY HubAssumption
  <2>2. CASE UserPool
    <3>1. /\ Publish(Loop, m, UserOf[c], Subscribers(m) \ {UserOf[c]})
          /\ UNCHANGED <<hubVars, conn, rooms>>
          /\ doing[Loop] = "idle"
      BY <1>2, <2>2 DEF ClientMessage
    <3>2. Loop \in Worker
      BY Names
    <3>3. QED
      BY <2>1, <3>1, <3>2, PublishHub
  <2>3. CASE ~UserPool
    BY <1>2, <2>3, RestartHub DEF ClientMessage
  <2>4. QED
    BY <2>2, <2>3
<1>3. ASSUME NEW t \in Rpc, NEW m \in Msg, BroadcastRoom(t, m)
      PROVE  HubInv'
  <2>1. /\ Publish(t, m, Nobody, Subscribers(m))
        /\ UNCHANGED <<hubVars, conn, rooms>>
        /\ doing[t] = "idle"
    BY <1>3 DEF BroadcastRoom
  <2>2. t \in Worker /\ Nobody \in User \cup {Nobody}
    BY Names
  <2>3. QED
    BY <2>1, <2>2, PublishHub
<1>4. ASSUME NEW c \in Conn, Hello(c)
      PROVE  HubInv'
  <2>1. CASE UserPool
    BY <1>1, <1>4, <2>1 DEF Hello
  <2>2. CASE ~UserPool
    BY <1>4, <2>2, RestartHub DEF Hello
  <2>3. QED
    BY <2>1, <2>2
<1>5. CASE Next
  BY <1>2, <1>3, <1>4, <1>5, HandshakeHub, SubscribeHub, ServeHub, CloseHub DEF Next
<1>6. QED
  BY <1>1, <1>5

\* The empty hub.
LEMMA InitHub == Init => TypeOK /\ HubInv
<1> SUFFICES ASSUME Init
             PROVE  TypeOK /\ HubInv
  OBVIOUS
<1>1. TypeOK
  BY Names DEF Init, TypeOK
<1>2. SubscribersRegistered /\ OwnEntries
  BY HubAssumption DEF Init, SubscribersRegistered, OwnEntries
<1>3. Publishing /\ WorkersRegistered
  BY Names DEF Init, Publishing, WorkersRegistered
<1>4. QED
  BY <1>1, <1>2, <1>3 DEF HubInv

-----------------------------------------------------------------------------
(* Delivery.                                                               *)

\* Worker w is publishing m.
Carries(w, m) == doing[w] \in {"publish", "send"} /\ msg[w] = m

\* Worker w has connection c in hand, or its user still before it.
ToServe(w, c) == UserOf[c] \in users[w] \/ (doing[w] = "send" /\ conn[w] = c)

\* Nothing is known of a message before it is published.
Unpublished ==
    \A m \in Msg : sender[m] = Nothing =>
        /\ \A c \in Conn : got[<<c, m>>] = 0
        /\ \A w \in Worker : ~Carries(w, m)
        /\ audience[m] = {}

\* A message is in the hands of one worker.
OneCarrier ==
    \A m \in Msg : \A v, w \in Worker : Carries(v, m) /\ Carries(w, m) => v = w

\* What a worker has yet to serve has received nothing, and is not the sender's.
Unserved ==
    \A m \in Msg, w \in Worker : Carries(w, m) =>
        /\ \A c \in Conn : ToServe(w, c) => got[<<c, m>>] = 0 /\ UserOf[c] # sender[m]
        /\ doing[w] = "send" => UserOf[conn[w]] \notin users[w]

\* Each registered connection of the audience that is open has been served, or
\* will be by the worker that has the message.
Reached ==
    \A m \in Msg : \A c \in audience[m] :
        /\ link[c] \notin {"none", "raw"} /\ UserOf[c] \in User
        /\ link[c] = "open" /\ registry[UserOf[c]] = c =>
              got[<<c, m>>] = 1 \/ \E w \in Worker : Carries(w, m) /\ ToServe(w, c)

DeliveryInv == Unpublished /\ OneCarrier /\ Unserved /\ Reached /\ NoEcho

\* A frame counts for one connection and one message.
LEMMA FrameEffect ==
    ASSUME TypeOK, NEW c, NEW m \in Msg, Frame(c, m)
    PROVE  \A d \in Conn, n \in Msg : got'[<<d, n>>] =
               IF d = c /\ n = m /\ link[c] = "open" THEN got[<<d, n>>] + 1 ELSE got[<<d, n>>]
<1>1. got \in [Conn \X Msg -> Nat]
  BY DEF TypeOK
<1>2. CASE c \in Conn /\ link[c] = "open"
  <2>1. got' = [got EXCEPT ![<<c, m>>] = got[<<c, m>>] + 1]
    BY <1>2 DEF Frame
  <2>2. QED
    BY <1>1, <1>2, <2>1
<1>3. CASE ~(c \in Conn /\ link[c] = "open")
  BY <1>3 DEF Frame
<1>4. QED
  BY <1>2, <1>3

\* Steps that publish and serve nothing, and open no connection of an audience.
LEMMA QuietDelivery ==
    ASSUME TypeOK, DeliveryInv,
           UNCHANGED <<msg, users, sender, audience, got>>,
           \A w \in Worker : \/ doing'[w] = doing[w] /\ (doing[w] = "send" => conn'[w] = conn[w])
                             \/ {doing[w], doing'[w]} \subseteq {"idle", "subscribe"},
           \A c \in Conn : link[c] \notin {"none", "raw"} =>
               /\ link'[c] \notin {"none", "raw"}
               /\ link'[c] = "open" => link[c] = "open"
               /\ UserOf[c] \in User /\ registry'[UserOf[c]] = c => registry[UserOf[c]] = c
    PROVE  DeliveryInv'
<1>1. \A m \in Msg, w \in Worker : Carries(w, m)' <=> Carries(w, m)
  BY DEF Carries
<1>2. \A m \in Msg, w \in Worker, c \in Conn : Carries(w, m) => (ToServe(w, c)' <=> ToServe(w, c))
  BY DEF Carries, ToServe
<1>3. Unpublished' /\ OneCarrier' /\ NoEcho'
  BY <1>1 DEF DeliveryInv, Unpublished, OneCarrier, NoEcho
<1>4. Unserved'
  <2>1. \A m \in Msg, w \in Worker : Carries(w, m) /\ doing'[w] = "send" =>
            doing[w] = "send" /\ conn'[w] = conn[w]
    BY DEF Carries
  <2>2. QED
    BY <1>1, <1>2, <2>1 DEF DeliveryInv, Unserved
<1>5. Reached'
  <2> SUFFICES ASSUME NEW m \in Msg, NEW c \in audience[m]
               PROVE  /\ link'[c] \notin {"none", "raw"} /\ UserOf[c] \in User
                      /\ link'[c] = "open" /\ registry'[UserOf[c]] = c =>
                            got[<<c, m>>] = 1 \/ \E w \in Worker : Carries(w, m)' /\ ToServe(w, c)'
    BY DEF Reached
  <2>1. c \in Conn
    BY DEF TypeOK
  <2>2. /\ link[c] \notin {"none", "raw"} /\ UserOf[c] \in User
        /\ link[c] = "open" /\ registry[UserOf[c]] = c =>
              got[<<c, m>>] = 1 \/ \E w \in Worker : Carries(w, m) /\ ToServe(w, c)
    BY DEF DeliveryInv, Reached
  <2>3. QED
    BY <1>1, <1>2, <2>1, <2>2
<1>6. QED
  BY <1>3, <1>4, <1>5 DEF DeliveryInv

\* A worker that starts to publish serves the users that are left to it.
LEMMA PublishDelivery ==
    ASSUME TypeOK, DeliveryInv, NEW w \in Worker, NEW m \in Msg, NEW u \in User \cup {Nobody},
           Publish(w, m, u, Subscribers(m) \ {u}),
           doing[w] = "idle", sender[m] = Nothing, UNCHANGED <<hubVars, conn, rooms>>
    PROVE  DeliveryInv'
<1> DEFINE left == Subscribers(m) \ {u}
<1>1. /\ \A v \in Worker : /\ msg'[v] = IF v = w THEN m ELSE msg[v]
                           /\ users'[v] = IF v = w THEN left ELSE users[v]
                           /\ doing'[v] = IF v # w THEN doing[v]
                                          ELSE IF left = {} THEN "idle" ELSE "publish"
      /\ \A n \in Msg : /\ sender'[n] = IF n = m THEN u ELSE sender[n]
                        /\ audience'[n] = IF n # m THEN audience[n] ELSE
                             {c \in Conn : link[c] = "open" /\ UserOf[c] \in left}
      /\ got' = got /\ conn' = conn /\ link' = link /\ registry' = registry
  BY DEF TypeOK, Publish, hubVars
<1>2. /\ \A c \in Conn : got[<<c, m>>] = 0
      /\ \A v \in Worker : ~Carries(v, m)
  BY DEF DeliveryInv, Unpublished
<1>3. u # Nothing /\ \A x \in left : x # u
  BY HubAssumption
<1> HIDE DEF left
<1>4. \A n \in Msg, v \in Worker : v # w =>
          /\ Carries(v, n)' <=> Carries(v, n)
          /\ \A c \in Conn : ToServe(v, c)' <=> ToServe(v, c)
  BY <1>1 DEF Carries, ToServe
<1>5. \A n \in Msg : ~Carries(w, n) /\ (Carries(w, n)' => n = m)
  BY <1>1 DEF Carries
<1>6. Unpublished'
  BY <1>1, <1>3, <1>4, <1>5 DEF DeliveryInv, Unpublished
<1>7. OneCarrier'
  <2> SUFFICES ASSUME NEW n \in Msg, NEW v \in Worker, NEW x \in Worker,
                      Carries(v, n)', Carries(x, n)'
               PROVE  v = x
    BY DEF OneCarrier
  <2>1. CASE n = m
    BY <1>2, <1>4, <2>1
  <2>2. CASE n # m
    BY <1>4, <1>5, <2>2 DEF DeliveryInv, OneCarrier
  <2>3. QED
    BY <2>1, <2>2
<1>8. NoEcho'
  <2> SUFFICES ASSUME NEW c \in Conn, NEW n \in Msg
               PROVE  got[<<c, n>>] <= (IF UserOf[c] = sender'[n] THEN 0 ELSE 1)
    BY <1>1 DEF NoEcho
  <2>1. got[<<c, n>>] <= (IF UserOf[c] = sender[n] THEN 0 ELSE 1)
    BY DEF DeliveryInv, NoEcho
  <2>2. CASE n = m
    BY <1>2, <2>2
  <2>3. CASE n # m
    BY <1>1, <2>1, <2>3
  <2>4. QED
    BY <2>2, <2>3
<1>9. Unserved'
  <2> SUFFICES ASSUME NEW n \in Msg, NEW v \in Worker, Carries(v, n)'
               PROVE  /\ \A c \in Conn : ToServe(v, c)' => got[<<c, n>>] = 0 /\ UserOf[c] # sender'[n]
                      /\ doing'[v] = "send" => UserOf[conn[v]] \notin users'[v]
    BY <1>1 DEF Unserved
  <2>1. CASE v = w
    <3>1. n = m /\ doing'[w] # "send" /\ users'[w] = left
      BY <1>1, <1>5, <2>1
    <3>2. QED
      BY <1>1, <1>2, <1>3, <2>1, <3>1 DEF ToServe
  <2>2. CASE v # w
    <3>1. Carries(v, n) /\ n # m
      BY <1>2, <1>4, <2>2
    <3>2. /\ \A c \in Conn : ToServe(v, c) => got[<<c, n>>] = 0 /\ UserOf[c] # sender[n]
          /\ doing[v] = "send" => UserOf[conn[v]] \notin users[v]
      BY <3>1 DEF DeliveryInv, Unserved
    <3>3. QED
      BY <1>1, <1>4, <2>2, <3>1, <3>2
  <2>3. QED
    BY <2>1, <2>2
<1>10. Reached'
  <2> SUFFICES ASSUME NEW n \in Msg, NEW c \in audience'[n]
               PROVE  /\ link[c] \notin {"none", "raw"} /\ UserOf[c] \in User
                      /\ link[c] = "open" /\ registry[UserOf[c]] = c =>
                            got[<<c, n>>] = 1 \/ \E v \in Worker : Carries(v, n)' /\ ToServe(v, c)'
    BY <1>1 DEF Reached
  <2>1. CASE n = m
    <3>1. c \in Conn /\ link[c] = "open" /\ UserOf[c] \in left /\ UserOf[c] \in User
      BY <1>1, <2>1, SubscribersType DEF left
    <3>2. Carries(w, n)' /\ ToServe(w, c)'
      BY <1>1, <2>1, <3>1 DEF Carries, ToServe
    <3>3. QED
      BY <3>1, <3>2
  <2>2. CASE n # m
    <3>1. c \in audience[n] /\ c \in Conn
      BY <1>1, <2>2 DEF TypeOK
    <3>2. /\ link[c] \notin {"none", "raw"} /\ UserOf[c] \in User
          /\ link[c] = "open" /\ registry[UserOf[c]] = c =>
                got[<<c, n>>] = 1 \/ \E v \in Worker : Carries(v, n) /\ ToServe(v, c)
      BY <3>1 DEF DeliveryInv, Reached
    <3>3. QED
      BY <1>4, <1>5, <3>1, <3>2
  <2>3. QED
    BY <2>1, <2>2
<1>11. QED
  BY <1>6, <1>7, <1>8, <1>9, <1>10 DEF DeliveryInv

\* After a restart no connection is open and nobody is publishing.
LEMMA RestartDelivery ==
    ASSUME TypeOK, DeliveryInv, Restart, UNCHANGED <<audience, got>>,
           \A m \in Msg : \/ sender'[m] = sender[m]
                          \/ sender[m] = Nothing /\ sender'[m] # Nothing
    PROVE  DeliveryInv'
<1>1. \A m \in Msg, w \in Worker : ~Carries(w, m)'
  BY DEF Restart, Carries
<1>2. \A c \in Conn : link'[c] # "open" /\ (link[c] \notin {"none", "raw"} => link'[c] = "gone")
  BY DEF Restart
<1>3. Unpublished' /\ OneCarrier' /\ Unserved'
  BY <1>1 DEF DeliveryInv, Unpublished, OneCarrier, Unserved
<1>4. Reached'
  BY <1>2 DEF DeliveryInv, Reached, TypeOK
<1>5. NoEcho'
  <2> SUFFICES ASSUME NEW c \in Conn, NEW m \in Msg
               PROVE  got[<<c, m>>] <= (IF UserOf[c] = sender'[m] THEN 0 ELSE 1)
    BY DEF NoEcho
  <2>1. got[<<c, m>>] <= (IF UserOf[c] = sender[m] THEN 0 ELSE 1)
    BY DEF DeliveryInv, NoEcho
  <2>2. sender[m] = Nothing => got[<<c, m>>] = 0
    BY DEF DeliveryInv, Unpublished
  <2>3. QED
    BY <2>1, <2>2
<1>6. QED
  BY <1>3, <1>4, <1>5 DEF DeliveryInv

\* A worker serves one connection, or passes one user over.
LEMMA ServeOne ==
    ASSUME TypeOK, DeliveryInv, NEW w \in Worker, NEW m \in Msg, Carries(w, m),
           NEW c, Frame(c, m), c \in Conn => ToServe(w, c),
           UNCHANGED <<link, registry, subs, msg, sender, audience>>,
           \A v \in Worker \ {w} :
               doing'[v] = doing[v] /\ users'[v] = users[v] /\ conn'[v] = conn[v],
           doing'[w] = IF users'[w] = {} THEN "idle" ELSE "publish",
           users'[w] \subseteq users[w],
           c \in Conn => UserOf[c] \notin users'[w],
           \A d \in Conn : ToServe(w, d) /\ UserOf[d] \notin users'[w] /\ registry[UserOf[d]] = d
               => d = c
    PROVE  DeliveryInv'
<1>1. \A d \in Conn, n \in Msg : got'[<<d, n>>] =
          IF d = c /\ n = m /\ link[c] = "open" THEN got[<<d, n>>] + 1 ELSE got[<<d, n>>]
  BY FrameEffect
<1>2. c \in Conn => got[<<c, m>>] = 0 /\ UserOf[c] # sender[m]
  BY DEF DeliveryInv, Unserved
<1>3. sender[m] # Nothing
  BY DEF DeliveryInv, Unpublished
<1>4. \A v \in Worker, n \in Msg : v # w =>
          /\ Carries(v, n)' <=> Carries(v, n)
          /\ \A d \in Conn : ToServe(v, d)' <=> ToServe(v, d)
  BY DEF Carries, ToServe
<1>5. \A n \in Msg : Carries(w, n)' => n = m
  BY DEF Carries
<1>6. \A v \in Worker : Carries(v, m) => v = w
  BY DEF DeliveryInv, OneCarrier
<1>7. Unpublished'
  <2> SUFFICES ASSUME NEW n \in Msg, sender[n] = Nothing
               PROVE  /\ \A d \in Conn : got'[<<d, n>>] = 0
                      /\ \A v \in Worker : ~Carries(v, n)'
                      /\ audience[n] = {}
    BY DEF Unpublished
  <2>1. n # m
    BY <1>3
  <2>2. QED
    BY <1>1, <1>4, <1>5, <2>1 DEF DeliveryInv, Unpublished
<1>8. OneCarrier'
  <2> SUFFICES ASSUME NEW n \in Msg, NEW v \in Worker, NEW x \in Worker,
                      Carries(v, n)', Carries(x, n)'
               PROVE  v = x
    BY DEF OneCarrier
  <2>1. Carries(v, n) /\ Carries(x, n)
    BY <1>4, <1>5
  <2>2. QED
    BY <2>1 DEF DeliveryInv, OneCarrier
<1>9. NoEcho'
  <2> SUFFICES ASSUME NEW d \in Conn, NEW n \in Msg
               PROVE  got'[<<d, n>>] <= (IF UserOf[d] = sender[n] THEN 0 ELSE 1)
    BY DEF NoEcho
  <2>1. got[<<d, n>>] <= (IF UserOf[d] = sender[n] THEN 0 ELSE 1)
    BY DEF DeliveryInv, NoEcho
  <2>2. CASE d = c /\ n = m /\ link[c] = "open"
    BY <1>1, <1>2, <2>2
  <2>3. CASE ~(d = c /\ n = m /\ link[c] = "open")
    <3>1. got'[<<d, n>>] = got[<<d, n>>]
      BY <1>1, <2>3
    <3>2. QED
      BY <2>1, <3>1
  <2>4. QED
    BY <2>2, <2>3
<1>10. Unserved'
  <2> SUFFICES ASSUME NEW n \in Msg, NEW v \in Worker, Carries(v, n)'
               PROVE  /\ \A d \in Conn : ToServe(v, d)' => got'[<<d, n>>] = 0 /\ UserOf[d] # sender[n]
                      /\ doing'[v] = "send" => UserOf[conn'[v]] \notin users'[v]
    BY DEF Unserved
  <2>1. CASE v = w
    <3>1. n = m /\ doing'[w] # "send"
      BY <1>5, <2>1
    <3>2. \A d \in Conn : ToServe(w, d)' => ToServe(w, d) /\ d # c
      BY <3>1 DEF ToServe
    <3>3. \A d \in Conn : ToServe(w, d) => got[<<d, m>>] = 0 /\ UserOf[d] # sender[m]
      BY DEF DeliveryInv, Unserved
    <3>4. QED
      BY <1>1, <2>1, <3>1, <3>2, <3>3
  <2>2. CASE v # w
    <3>1. Carries(v, n) /\ n # m
      BY <1>4, <1>6, <2>2
    <3>2. /\ \A d \in Conn : ToServe(v, d) => got[<<d, n>>] = 0 /\ UserOf[d] # sender[n]
          /\ doing[v] = "send" => UserOf[conn[v]] \notin users[v]
      BY <3>1 DEF DeliveryInv, Unserved
    <3>3. QED
      BY <1>1, <1>4, <2>2, <3>1, <3>2
  <2>3. QED
    BY <2>1, <2>2
<1>11. Reached'
  <2> SUFFICES ASSUME NEW n \in Msg, NEW d \in audience[n]
               PROVE  /\ link[d] \notin {"none", "raw"} /\ UserOf[d] \in User
                      /\ link[d] = "open" /\ registry[UserOf[d]] = d =>
                            got'[<<d, n>>] = 1 \/ \E v \in Worker : Carries(v, n)' /\ ToServe(v, d)'
    BY DEF Reached
  <2>1. d \in Conn
    BY DEF TypeOK
  <2>2. /\ link[d] \notin {"none", "raw"} /\ UserOf[d] \in User
        /\ link[d] = "open" /\ registry[UserOf[d]] = d =>
              got[<<d, n>>] = 1 \/ \E v \in Worker : Carries(v, n) /\ ToServe(v, d)
    BY DEF DeliveryInv, Reached
  <2> SUFFICES ASSUME link[d] = "open", registry[UserOf[d]] = d
               PROVE  got'[<<d, n>>] = 1 \/ \E v \in Worker : Carries(v, n)' /\ ToServe(v, d)'
    BY <2>2
  <2>3. CASE got[<<d, n>>] = 1
    BY <1>1, <1>2, <2>1, <2>3
  <2>4. ASSUME NEW v \in Worker, Carries(v, n), ToServe(v, d), v # w
        PROVE  Carries(v, n)' /\ ToServe(v, d)'
    BY <1>4, <2>1, <2>4
  <2>5. CASE Carries(w, n) /\ ToServe(w, d)
    <3>1. n = m
      BY <2>5 DEF Carries
    <3>2. CASE UserOf[d] \in users'[w]
      <4>1. doing'[w] = "publish"
        BY <3>2
      <4>2. Carries(w, n)' /\ ToServe(w, d)'
        BY <2>5, <3>2, <4>1 DEF Carries, ToServe
      <4>3. QED
        BY <4>2
    <3>3. CASE UserOf[d] \notin users'[w]
      BY <1>1, <1>2, <2>1, <2>5, <3>1, <3>3
    <3>4. QED
      BY <3>2, <3>3
  <2>6. QED
    BY <2>2, <2>3, <2>4, <2>5
<1>12. QED
  BY <1>7, <1>8, <1>9, <1>10, <1>11 DEF DeliveryInv

\* The event loop serves the connection it looks up, under the mutex.
LEMMA DeliverDelivery ==
    ASSUME TypeOK, HubInv, DeliveryInv, NEW u \in User, Deliver(u)
    PROVE  DeliveryInv'
<1> DEFINE m == msg[Loop]
           c == registry[u]
<1>1. /\ Loop \in Worker /\ doing[Loop] = "publish" /\ u \in users[Loop]
      /\ Frame(c, m) /\ UNCHANGED <<link, registry, subs, conn, msg, sender, audience>>
  BY Names DEF Deliver, Served, hubVars
<1>2. m \in Msg /\ Carries(Loop, m)
  BY <1>1 DEF HubInv, Publishing, Carries
<1>3. c \in Conn /\ UserOf[c] = u
  BY <1>1 DEF HubInv, WorkersRegistered, OwnEntries, Registered
<1>4. /\ users'[Loop] = users[Loop] \ {u}
      /\ doing'[Loop] = IF users[Loop] = {u} THEN "idle" ELSE "publish"
      /\ \A v \in Worker \ {Loop} : doing'[v] = doing[v] /\ users'[v] = users[v] /\ conn'[v] = conn[v]
  BY <1>1 DEF TypeOK, Deliver, Served
<1>5. doing'[Loop] = IF users'[Loop] = {} THEN "idle" ELSE "publish"
  BY <1>1, <1>4
<1>6. ToServe(Loop, c) /\ UserOf[c] \notin users'[Loop] /\ users'[Loop] \subseteq users[Loop]
  BY <1>1, <1>3, <1>4 DEF ToServe
<1>7. \A d \in Conn : ToServe(Loop, d) /\ UserOf[d] \notin users'[Loop] /\ registry[UserOf[d]] = d
          => d = c
  BY <1>1, <1>4 DEF ToServe
<1> HIDE DEF m, c
<1>8. QED
  BY <1>1, <1>2, <1>4, <1>5, <1>6, <1>7, ServeOne

\* A gRPC thread sends to the connection it has looked up before.
LEMMA SendDelivery ==
    ASSUME TypeOK, HubInv, DeliveryInv, NEW t \in Rpc, Send(t)
    PROVE  DeliveryInv'
<1> DEFINE m == msg[t]
           c == conn[t]
<1>1. /\ t \in Worker /\ doing[t] = "send"
      /\ Frame(c, m) /\ UNCHANGED <<link, registry, subs, msg, users, sender, audience>>
  BY Names DEF Send, hubVars
<1>2. m \in Msg /\ Carries(t, m)
  BY <1>1 DEF HubInv, Publishing, Carries
<1>3. ToServe(t, c) /\ UserOf[c] \notin users[t]
  BY <1>1, <1>2 DEF ToServe, DeliveryInv, Unserved
<1>4. /\ doing'[t] = IF users[t] = {} THEN "idle" ELSE "publish"
      /\ \A v \in Worker \ {t} : doing'[v] = doing[v] /\ users'[v] = users[v] /\ conn'[v] = conn[v]
  BY <1>1 DEF TypeOK, Send
<1>5. /\ doing'[t] = IF users'[t] = {} THEN "idle" ELSE "publish"
      /\ users'[t] \subseteq users[t] /\ UserOf[c] \notin users'[t]
  BY <1>1, <1>3, <1>4
<1>6. \A d \in Conn : ToServe(t, d) /\ UserOf[d] \notin users'[t] /\ registry[UserOf[d]] = d
          => d = c
  BY <1>1 DEF ToServe
<1> HIDE DEF m, c
<1>7. QED
  BY <1>1, <1>2, <1>3, <1>4, <1>5, <1>6, ServeOne

\* A gRPC thread takes the registered connection of a user into its hands.
LEMMA LookUpDelivery ==
    ASSUME TypeOK, HubInv, DeliveryInv, NEW t \in Rpc, NEW u \in User, LookUp(t, u)
    PROVE  DeliveryInv'
<1>1. t \in Worker /\ doing[t] = "publish" /\ u \in users[t]
  BY Names DEF LookUp
<1>2. registry[u] \in Conn /\ UserOf[registry[u]] = u
  BY <1>1 DEF HubInv, WorkersRegistered, OwnEntries, Registered
<1>3. /\ UNCHANGED <<link, registry, msg, sender, audience, got>>
      /\ conn'[t] = registry[u] /\ users'[t] = users[t] \ {u} /\ doing'[t] = "send"
      /\ \A v \in Worker \ {t} : doing'[v] = doing[v] /\ users'[v] = users[v] /\ conn'[v] = conn[v]
  BY <1>1, <1>2, HubAssumption DEF TypeOK, LookUp, historyVars
<1>4. \A v \in Worker, n \in Msg : Carries(v, n)' <=> Carries(v, n)
  BY <1>1, <1>3 DEF Carries
<1>5. \A v \in Worker, d \in Conn : ToServe(v, d)' => ToServe(v, d)
  BY <1>1, <1>2, <1>3 DEF ToServe
<1>6. \A v \in Worker, d \in Conn : ToServe(v, d) /\ registry[UserOf[d]] = d => ToServe(v, d)'
  BY <1>1, <1>2, <1>3 DEF ToServe
<1>7. Unpublished' /\ OneCarrier' /\ NoEcho'
  BY <1>3, <1>4 DEF DeliveryInv, Unpublished, OneCarrier, NoEcho
<1>8. Unserved'
  <2> SUFFICES ASSUME NEW n \in Msg, NEW v \in Worker, Carries(v, n)
               PROVE  /\ \A d \in Conn : ToServe(v, d)' => got[<<d, n>>] = 0 /\ UserOf[d] # sender[n]
                      /\ doing'[v] = "send" => UserOf[conn'[v]] \notin users'[v]
    BY <1>3, <1>4 DEF Unserved
  <2>1. /\ \A d \in Conn : ToServe(v, d) => got[<<d, n>>] = 0 /\ UserOf[d] # sender[n]
        /\ doing[v] = "send" => UserOf[conn[v]] \notin users[v]
    BY DEF DeliveryInv, Unserved
  <2>2. doing'[v] = "send" => UserOf[conn'[v]] \notin users'[v]
    BY <1>2, <1>3, <2>1
  <2>3. QED
    BY <1>5, <2>1, <2>2
<1>9. Reached'
  <2> SUFFICES ASSUME NEW n \in Msg, NEW d \in audience[n]
               PROVE  /\ link[d] \notin {"none", "raw"} /\ UserOf[d] \in User
                      /\ link[d] = "open" /\ registry[UserOf[d]] = d =>
                            got[<<d, n>>] = 1 \/ \E v \in Worker : Carries(v, n)' /\ ToServe(v, d)'
    BY <1>3 DEF Reached
  <2>1. d \in Conn
    BY DEF TypeOK
  <2>2. /\ link[d] \notin {"none", "raw"} /\ UserOf[d] \in User
        /\ link[d] = "open" /\ registry[UserOf[d]] = d =>
              got[<<d, n>>] = 1 \/ \E v \in Worker : Carries(v, n) /\ ToServe(v, d)
    BY DEF DeliveryInv, Reached
  <2>3. QED
    BY <1>4, <1>6, <2>1, <2>2
<1>10. QED
  BY <1>7, <1>8, <1>9 DEF DeliveryInv

\* Every step keeps the invariant.
LEMMA DeliveryStep ==
    TypeOK /\ HubInv /\ DeliveryInv /\ [Next]_vars => DeliveryInv'
<1> SUFFICES ASSUME TypeOK, HubInv, DeliveryInv, [Next]_vars
             PROVE  DeliveryInv'
  OBVIOUS
<1>1. CASE UNCHANGED vars
  <2>1. UNCHANGED <<link, registry, doing, conn, msg, users, sender, audience, got>>
    BY <1>1 DEF vars, hubVars, workerVars, historyVars
  <2>2. QED
    BY <2>1, QuietDelivery
<1>2. ASSUME NEW c \in Conn, HandshakeNoKey(c) \/ Disconnect(c) \/ Drop(c)
      PROVE  DeliveryInv'
  <2>1. UNCHANGED <<registry, doing, conn, msg, users, sender, audience, got>>
    BY <1>2 DEF HandshakeNoKey, Disconnect, Drop, workerVars, historyVars
  <2>2. \A d \in Conn : link[d] \notin {"none", "raw"} =>
            /\ link'[d] \notin {"none", "raw"}
            /\ link'[d] = "open" => link[d] = "open"
    BY <1>2 DEF TypeOK, HandshakeNoKey, Disconnect, Drop
  <2>3. QED
    BY <2>1, <2>2, QuietDelivery
<1>3. ASSUME NEW c \in Conn, Handshake(c)
      PROVE  DeliveryInv'
  <2>1. /\ UNCHANGED <<msg, users, sender, audience, got>>
        /\ link[c] \in {"none", "raw"} /\ doing[Loop] = "idle"
        /\ \A d \in Conn \ {c} : link'[d] = link[d]
    BY <1>3 DEF TypeOK, Handshake, historyVars
  <2>2. /\ \A u \in User : registry'[u] = registry[u] \/ registry'[u] = c
        /\ doing'[Loop] \in {"idle", "subscribe"}
        /\ \A w \in Worker \ {Loop} : doing'[w] = doing[w] /\ conn'[w] = conn[w]
    BY <1>3, Names DEF TypeOK, Handshake
  <2>3. \A d \in Conn : link[d] \notin {"none", "raw"} /\ UserOf[d] \in User
            /\ registry'[UserOf[d]] = d => registry[UserOf[d]] = d
    <3>1. CASE UserOf[c] = Nobody
      BY <1>3, <3>1 DEF Handshake
    <3>2. CASE UserOf[c] # Nobody
      BY <1>3, <2>1, <3>2 DEF TypeOK, Handshake
    <3>3. QED
      BY <3>1, <3>2
  <2>4. QED
    BY <2>1, <2>2, <2>3, QuietDelivery
<1>4. ASSUME NEW r \in Room, Subscribe(r)
      PROVE  DeliveryInv'
  <2>1. /\ UNCHANGED <<link, registry, msg, users, sender, audience, got>>
        /\ doing[Loop] = "subscribe" /\ doing'[Loop] \in {"idle", "subscribe"}
        /\ \A w \in Worker \ {Loop} : doing'[w] = doing[w] /\ conn'[w] = conn[w]
    BY <1>4, Names DEF TypeOK, Subscribe, historyVars
  <2>2. QED
    BY <2>1, QuietDelivery
<1>5. ASSUME NEW c \in Conn, Hello(c)
      PROVE  DeliveryInv'
  <2>1. CASE UserPool
    BY <1>1, <1>5, <2>1 DEF Hello
  <2>2. CASE ~UserPool
    BY <1>5, <2>2, RestartDelivery DEF Hello, historyVars
  <2>3. QED
    BY <2>1, <2>2
<1>6. ASSUME NEW c \in Conn, NEW m \in Msg, ClientMessage(c, m)
      PROVE  DeliveryInv'
  <2>1. UserOf[c] \in User \cup {Nobody} /\ UserOf[c] # Nothing /\ Loop \in Worker
    BY HubAssumption, Names
  <2>2. CASE UserPool
    <3>1. /\ Publish(Loop, m, UserOf[c], Subscribers(m) \ {UserOf[c]})
          /\ UNCHANGED <<hubVars, conn, rooms>>
          /\ doing[Loop] = "idle" /\ sender[m] = Nothing
      BY <1>6, <2>2 DEF ClientMessage
    <3>2. QED
      BY <2>1, <3>1, PublishDelivery
  <2>3. CASE ~UserPool
    <3>1. /\ Restart /\ UNCHANGED <<audience, got>>
          /\ sender[m] = Nothing /\ sender' = [sender EXCEPT ![m] = UserOf[c]]
      BY <1>6, <2>3 DEF ClientMessage
    <3>2. \A n \in Msg : sender'[n] = sender[n] \/ (sender[n] = Nothing /\ sender'[n] # Nothing)
      BY <2>1, <3>1 DEF TypeOK
    <3>3. QED
      BY <3>1, <3>2, RestartDelivery
  <2>4. QED
    BY <2>2, <2>3
<1>7. ASSUME NEW t \in Rpc, NEW m \in Msg, BroadcastRoom(t, m)
      PROVE  DeliveryInv'
  <2>1. Subscribers(m) \ {Nobody} = Subscribers(m)
    BY SubscribersType, HubAssumption
  <2>2. /\ Publish(t, m, Nobody, Subscribers(m) \ {Nobody})
        /\ UNCHANGED <<hubVars, conn, rooms>>
        /\ doing[t] = "idle" /\ sender[m] = Nothing
    BY <1>7, <2>1 DEF BroadcastRoom
  <2>3. t \in Worker /\ Nobody \in User \cup {Nobody}
    BY Names
  <2>4. QED
    BY <2>2, <2>3, PublishDelivery
<1>8. QED
  BY <1>1, <1>2, <1>3, <1>4, <1>5, <1>6, <1>7, DeliverDelivery, SendDelivery, LookUpDelivery
  DEF Next

\* What has been reached is what Delivery says of it.
LEMMA DeliveryFollows == TypeOK /\ DeliveryInv => Delivery
<1> SUFFICES ASSUME TypeOK, DeliveryInv, NEW m \in Msg, Finished(m), NEW c \in audience[m],
                    link[c] = "open", registry[UserOf[c]] = c
             PROVE  got[<<c, m>>] = 1
  BY DEF DeliveryInv, Delivery, RegisteredReceive
<1>1. \A w \in Worker : ~Carries(w, m)
  BY DEF Finished, Carries
<1>2. QED
  BY <1>1 DEF DeliveryInv, Reached

-----------------------------------------------------------------------------
(* The gauge.                                                              *)

\* The WebSocket connections that are still there.
There == {c \in Conn : link[c] \in {"raw", "open", "closing"}}

\* There are no more of them than the gauge says.
Gauged == IsFiniteSet(There) /\ Cardinality(There) <= active

\* A connection is counted when its object is made, and never taken off.
LEMMA GaugeStep == TypeOK /\ Gauged /\ [Next]_vars => Gauged'
<1> SUFFICES ASSUME TypeOK, Gauged, [Next]_vars
             PROVE  Gauged'
  OBVIOUS
<1> DEFINE S == There
           T == There'
<1>1. IsFiniteSet(S) /\ Cardinality(S) \in Nat /\ Cardinality(S) <= active /\ active \in Nat
  BY FS_CardinalityType DEF Gauged, TypeOK
<1>2. ASSUME T \subseteq S, active' = active
      PROVE  Gauged'
  <2> HIDE DEF S, T
  <2>1. IsFiniteSet(T) /\ Cardinality(T) <= Cardinality(S) /\ Cardinality(T) \in Nat
    BY <1>1, <1>2, FS_Subset, FS_CardinalityType
  <2>2. QED
    BY <1>1, <1>2, <2>1 DEF Gauged, T
<1>3. ASSUME NEW c \in Conn, T \subseteq S \cup {c}, active' = active + 1
      PROVE  Gauged'
  <2> HIDE DEF S, T
  <2>1. /\ IsFiniteSet(S \cup {c})
        /\ Cardinality(S \cup {c}) = IF c \in S THEN Cardinality(S) ELSE Cardinality(S) + 1
    BY <1>1, FS_AddElement
  <2>2. IsFiniteSet(T) /\ Cardinality(T) <= Cardinality(S \cup {c})
    BY <1>3, <2>1, FS_Subset
  <2>3. Cardinality(T) \in Nat /\ Cardinality(S \cup {c}) \in Nat
    BY <2>1, <2>2, FS_CardinalityType
  <2>4. QED
    BY <1>1, <1>3, <2>1, <2>2, <2>3 DEF Gauged, T
<1>4. ASSUME Restart
      PROVE  Gauged'
  <2>1. T = {} /\ active' = 0
    BY <1>4 DEF Restart, There
  <2>2. QED
    BY <2>1, FS_EmptySet DEF Gauged
<1>5. ASSUME NEW c \in Conn, HandshakeNoKey(c) \/ Handshake(c)
      PROVE  Gauged'
  <2>1. T \subseteq S \cup {c}
    BY <1>5 DEF TypeOK, HandshakeNoKey, Handshake, There
  <2>2. \/ active' = active + 1
        \/ active' = active /\ link[c] = "raw"
    BY <1>5 DEF HandshakeNoKey, Handshake
  <2>3. link[c] = "raw" => c \in S
    BY DEF There
  <2> HIDE DEF S, T
  <2>4. QED
    BY <1>2, <1>3, <2>1, <2>2, <2>3
<1>6. ASSUME NEW c \in Conn, Disconnect(c) \/ Drop(c)
      PROVE  Gauged'
  <2>1. T \subseteq S /\ active' = active
    BY <1>6 DEF TypeOK, Disconnect, Drop, There
  <2>2. QED
    BY <1>2, <2>1
<1>7. ASSUME link' = link, active' = active
      PROVE  Gauged'
  BY <1>2, <1>7 DEF There
<1>8. CASE \/ UNCHANGED vars
           \/ \E r \in Room : Subscribe(r)
           \/ \E u \in User : Deliver(u)
           \/ \E t \in Rpc : \/ \E m \in Msg : BroadcastRoom(t, m)
                             \/ \E u \in User : LookUp(t, u)
                             \/ Send(t)
  BY <1>7, <1>8 DEF vars, hubVars, Subscribe, Deliver, BroadcastRoom, LookUp, Send
<1>9. ASSUME NEW c \in Conn, Hello(c) \/ \E m \in Msg : ClientMessage(c, m)
      PROVE  Gauged'
  BY <1>4, <1>7, <1>9 DEF Hello, ClientMessage, vars, hubVars
<1>10. QED
  BY <1>5, <1>6, <1>8, <1>9 DEF Next

-----------------------------------------------------------------------------
(* Theorems.                                                               *)

\* Types, and what registry, subscriptions and workers know of each other,
\* hold throughout.
THEOREM HubInvariant == Spec => [](TypeOK /\ HubInv)
<1>1. TypeOK /\ HubInv /\ [Next]_vars => TypeOK' /\ HubInv'
  BY TypeStep, HubStep
<1>2. QED
  BY InitHub, <1>1, PTL DEF Spec

\* Every subscriber has a connection in s_user_ws_conn_map, and BroadcastRoom
\* leaves no null entry there, however the gRPC threads interleave with the
\* handshakes (websocket_conn.cc:669-679, comet_service.cc:72-73).
THEOREM SubscribersFound == Spec => []SubscribersRegistered
<1>1. HubInv => SubscribersRegistered
  BY DEF HubInv
<1>2. QED
  BY HubInvariant, <1>1, PTL

\* A published message reaches each registered, open connection of its audience
\* once, nobody twice and never its sender, however the gRPC threads interleave
\* with the event loop (websocket_conn.cc:358-405, comet_service.cc:66-85).
THEOREM MessagesDelivered == Spec => []Delivery
<1>1. Init => DeliveryInv
  <2> SUFFICES ASSUME Init
               PROVE  DeliveryInv
    OBVIOUS
  <2>1. \A m \in Msg, w \in Worker : ~Carries(w, m)
    BY DEF Init, Carries
  <2>2. \A c \in Conn, m \in Msg : got[<<c, m>>] = 0
    BY DEF Init
  <2>3. \A m \in Msg : audience[m] = {}
    BY DEF Init
  <2>4. QED
    BY <2>1, <2>2, <2>3 DEF DeliveryInv, Unpublished, OneCarrier, Unserved, Reached, NoEcho
<1>2. (TypeOK /\ HubInv) /\ DeliveryInv /\ [Next]_vars => DeliveryInv'
  BY DeliveryStep
<1>3. TypeOK /\ HubInv /\ DeliveryInv => Delivery
  BY DeliveryFollows
<1>4. QED
  BY <1>1, <1>2, <1>3, HubInvariant, PTL DEF Spec

\* The gauge never falls below the connections that are there: only a restart
\* takes any off it (websocket_conn.cc:137-149).
THEOREM GaugeHolds == Spec => []GaugeCovers
<1>1. Init => Gauged
  <2> SUFFICES ASSUME Init
               PROVE  Gauged
    OBVIOUS
  <2>1. There = {} /\ active = 0
    BY DEF Init, There
  <2>2. QED
    BY <2>1, FS_EmptySet DEF Gauged
<1>2. TypeOK /\ Gauged /\ [Next]_vars => Gauged'
  BY GaugeStep
<1>3. TypeOK /\ Gauged => GaugeCovers
  <2> SUFFICES ASSUME TypeOK, Gauged
               PROVE  GaugeCovers
    OBVIOUS
  <2>1. Cardinality(There) \in Nat /\ Cardinality(There) <= active /\ active \in Nat
    BY FS_CardinalityType DEF Gauged, TypeOK
  <2>2. QED
    BY <2>1 DEF GaugeCovers, There
<1>4. QED
  BY <1>1, <1>2, <1>3, HubInvariant, PTL DEF Spec

=============================================================================
