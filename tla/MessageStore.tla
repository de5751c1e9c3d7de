---------------------------- MODULE MessageStore ----------------------------
(***************************************************************************)
(* Tiered message storage of the chat room, chat-room/api/api_msg.cc.      *)
(*                                                                         *)
(* A Comet process stores a chat message with XADD on the room's Redis     *)
(* stream and then LPUSHes a copy on the list msg_persist_queue.  Every    *)
(* ten seconds a timer on the same event loop reads the newest Batch       *)
(* entries of that list, inserts them into MySQL with one statement and    *)
(* DELetes the whole list.  All the Comet processes of a deployment share  *)
(* one Redis and one MySQL, so the commands of different Comets interleave *)
(* freely; the commands of one Comet are ordered by its single event loop. *)
(*                                                                         *)
(* The model keeps one action per command sent to Redis or MySQL.  Faults  *)
(* are drawn from a budget of MaxFaults, so that they are finitely many.   *)
(***************************************************************************)
EXTENDS Integers, Sequences, FiniteSets, Functions

CONSTANTS
    Comet,          \* the Comet processes
    Msg,            \* the chat messages clients send, each sent once
    Room,           \* the rooms (pub_sub_service.cc: 0001 ... 0005)
    RoomOf,         \* the room each message is sent to
    Quoted,         \* messages whose text breaks the INSERT statement (an apostrophe)
    Batch,          \* entries read per tick (main.cc: 100)
    Faults,         \* kinds of fault that may happen in this deployment
    MaxFaults       \* bound: how many faults happen in one behaviour

FaultKind == {"redis", "mysql", "reply", "crash"}

ASSUME StoreAssumption ==
    /\ RoomOf \in [Msg -> Room]
    /\ Quoted \subseteq Msg
    /\ Batch \in Nat \ {0}
    /\ Faults \subseteq FaultKind
    /\ MaxFaults \in Nat

VARIABLES
    \* Redis, shared
    stream,         \* the entries of the room streams, in the order of their ids
    queue,          \* msg_persist_queue, head first
    \* MySQL, shared
    rows,           \* the rows of table messages, in insertion order
    \* one per Comet
    pc,             \* what the event loop of the Comet is in the middle of
    work,           \* the messages that step works on
    \* history
    sent,           \* messages some client has sent
    accepted,       \* messages whose store returned 0: they are broadcast
    pushed,         \* messages that ever entered msg_persist_queue
    dropped,        \* messages deleted from the queue by a tick that had not read them
    longest,        \* the most entries a tick has found in the queue
    nfaults         \* faults so far

vars == <<stream, queue, rows, pc, work, sent, accepted, pushed, dropped, longest, nfaults>>

Step == {"idle", "lpush", "insert", "del", "down"}

TypeOK ==
    /\ stream \in Seq(Msg)
    /\ queue \in Seq(Msg)
    /\ rows \in Seq(Msg)
    /\ pc \in [Comet -> Step]
    /\ work \in [Comet -> Seq(Msg)]
    /\ sent \subseteq Msg
    /\ accepted \subseteq Msg
    /\ pushed \subseteq Msg
    /\ dropped \subseteq Msg
    /\ longest \in Nat
    /\ nfaults \in Nat

Init ==
    /\ stream = <<>>
    /\ queue = <<>>
    /\ rows = <<>>
    /\ pc = [c \in Comet |-> "idle"]
    /\ work = [c \in Comet |-> <<>>]
    /\ sent = {}
    /\ accepted = {}
    /\ pushed = {}
    /\ dropped = {}
    /\ longest = 0
    /\ nfaults = 0

-----------------------------------------------------------------------------
(* Faults.  "redis": no pooled connection, or the command is not executed. *)
(* "mysql": likewise for MySQL.  "reply": the command is executed but its  *)
(* reply does not arrive, and the caller takes it for a failure.  "crash": *)
(* the process dies and loses its memory.                                  *)

NoFault == UNCHANGED nfaults

Fault(kind) ==
    /\ kind \in Faults
    /\ nfaults < MaxFaults
    /\ nfaults' = nfaults + 1

Goto(c, step, ms) ==
    /\ pc' = [pc EXCEPT ![c] = step]
    /\ work' = [work EXCEPT ![c] = ms]

-----------------------------------------------------------------------------
(* ApiStoreMessageTiered: XADD, then LPUSH.                                *)

\* Mutant: the result of Xadd is not checked.
XaddUnchecked(c, m) ==
    /\ pc[c] = "idle"
    /\ m \notin sent
    /\ sent' = sent \cup {m}
    /\ \/ NoFault /\ stream' = Append(stream, m)
       \/ Fault("redis") /\ UNCHANGED stream
    /\ Goto(c, "lpush", <<m>>)
    /\ UNCHANGED <<queue, rows, accepted, pushed, dropped, longest>>

\* GetCacheConn and Xadd.  Without a connection, or when XADD fails, the store
\* returns -1 and the message is neither queued nor broadcast; that includes a
\* text whose words give the space-joined command a wrong number of arguments.
Xadd(c, m) ==
    /\ pc[c] = "idle"
    /\ m \notin sent
    /\ sent' = sent \cup {m}
    /\ \/ /\ NoFault
          /\ stream' = Append(stream, m)
          /\ Goto(c, "lpush", <<m>>)
       \/ /\ Fault("redis")
          /\ UNCHANGED <<stream, pc, work>>
       \/ /\ Fault("reply")
          /\ stream' = Append(stream, m)
          /\ UNCHANGED <<pc, work>>
    /\ UNCHANGED <<queue, rows, accepted, pushed, dropped, longest>>

\* Lpush.  Its result is only logged: the store returns 0 either way.
Lpush(c) ==
    /\ pc[c] = "lpush"
    /\ \/ /\ NoFault
          /\ queue' = work[c] \o queue
          /\ pushed' = pushed \cup Range(work[c])
       \/ /\ Fault("redis")
          /\ UNCHANGED <<queue, pushed>>
    /\ accepted' = accepted \cup Range(work[c])
    /\ Goto(c, "idle", <<>>)
    /\ UNCHANGED <<stream, rows, sent, dropped, longest>>

-----------------------------------------------------------------------------
(* on_persist_messages_timer and ApiBatchPersistMessages: LRANGE, INSERT,  *)
(* DEL.  The timer is armed again however the call ends.                   *)

\* Mutant: the end of the range taken for exclusive.
NewestButOne == SubSeq(queue, 1, IF Len(queue) < Batch - 1 THEN Len(queue) ELSE Batch - 1)

\* LRANGE msg_persist_queue 0 Batch-1: LPUSH puts new entries at the head, so
\* this reads the newest ones.
NewestEntries == SubSeq(queue, 1, IF Len(queue) < Batch THEN Len(queue) ELSE Batch)

\* Mutant: a tick waits until a batch is full.
LrangeFull(c) ==
    /\ pc[c] = "idle"
    /\ Len(queue) >= Batch
    /\ NoFault
    /\ Goto(c, "insert", NewestEntries)
    /\ longest' = IF Len(queue) > longest THEN Len(queue) ELSE longest
    /\ UNCHANGED <<stream, queue, rows, sent, accepted, pushed, dropped>>

\* The connections of both pools, then LRANGE.  A missing connection returns
\* -1 and a failed LRANGE returns 0: neither changes anything.
Lrange(c) ==
    /\ pc[c] = "idle"
    /\ queue # <<>>
    /\ \/ /\ NoFault
          /\ Goto(c, "insert", NewestEntries)
          /\ longest' = IF Len(queue) > longest THEN Len(queue) ELSE longest
       \/ /\ Fault("redis") \/ Fault("mysql")
          /\ UNCHANGED <<pc, work, longest>>
    /\ UNCHANGED <<stream, queue, rows, sent, accepted, pushed, dropped>>

\* A tick that finds the queue empty returns 0.
LrangeEmpty(c) ==
    /\ pc[c] = "idle"
    /\ queue = <<>>
    /\ UNCHANGED vars

\* The texts are pasted into the statement unescaped: one apostrophe in the
\* batch and MySQL rejects the whole statement.
WellFormed(batch) == Range(batch) \cap Quoted = {}

\* Mutant: the result of the INSERT is not checked before the DEL.
InsertUnchecked(c) ==
    /\ pc[c] = "insert"
    /\ \/ NoFault /\ WellFormed(work[c]) /\ rows' = rows \o work[c]
       \/ NoFault /\ ~WellFormed(work[c]) /\ UNCHANGED rows
       \/ Fault("mysql") /\ UNCHANGED rows
    /\ Goto(c, "del", work[c])
    /\ UNCHANGED <<stream, queue, sent, accepted, pushed, dropped, longest>>

\* ExecuteUpdate on chatroom_master: all the rows of the batch, or none.
Insert(c) ==
    /\ pc[c] = "insert"
    /\ \/ /\ NoFault
          /\ WellFormed(work[c])
          /\ rows' = rows \o work[c]
          /\ Goto(c, "del", work[c])
       \/ /\ NoFault
          /\ ~WellFormed(work[c])
          /\ Goto(c, "idle", <<>>)
          /\ UNCHANGED rows
       \/ /\ Fault("mysql")
          /\ Goto(c, "idle", <<>>)
          /\ UNCHANGED rows
       \/ /\ Fault("reply")
          /\ WellFormed(work[c])
          /\ rows' = rows \o work[c]
          /\ Goto(c, "idle", <<>>)
    /\ UNCHANGED <<stream, queue, sent, accepted, pushed, dropped, longest>>

\* Mutant: the persisted entries stay in the queue.
DelForgotten(c) ==
    /\ pc[c] = "del"
    /\ NoFault
    /\ Goto(c, "idle", <<>>)
    /\ UNCHANGED <<stream, queue, rows, sent, accepted, pushed, dropped, longest>>

\* DEL msg_persist_queue: the whole list, whatever was read from it.  The
\* result is not looked at.
Del(c) ==
    /\ pc[c] = "del"
    /\ \/ /\ NoFault
          /\ queue' = <<>>
          /\ dropped' = dropped \cup (Range(queue) \ Range(work[c]))
       \/ /\ Fault("redis")
          /\ UNCHANGED <<queue, dropped>>
    /\ Goto(c, "idle", <<>>)
    /\ UNCHANGED <<stream, rows, sent, accepted, pushed, longest>>

-----------------------------------------------------------------------------
(* The process.                                                            *)

Crash(c) ==
    /\ pc[c] # "down"
    /\ Fault("crash")
    /\ Goto(c, "down", <<>>)
    /\ UNCHANGED <<stream, queue, rows, sent, accepted, pushed, dropped, longest>>

Restart(c) ==
    /\ pc[c] = "down"
    /\ NoFault
    /\ Goto(c, "idle", <<>>)
    /\ UNCHANGED <<stream, queue, rows, sent, accepted, pushed, dropped, longest>>

Next ==
    \E c \in Comet :
        \/ \E m \in Msg : Xadd(c, m)
        \/ Lpush(c)
        \/ Lrange(c)
        \/ LrangeEmpty(c)
        \/ Insert(c)
        \/ Del(c)
        \/ Crash(c)
        \/ Restart(c)

Spec == Init /\ [][Next]_vars

\* The event loop returns from every call it makes and keeps firing its timer.
\* Clients need not send, and nobody is bound to restart a dead process.
Fairness ==
    \A c \in Comet :
        /\ WF_vars(Lpush(c))
        /\ WF_vars(Lrange(c))
        /\ WF_vars(Insert(c))
        /\ WF_vars(Del(c))

FairSpec == Spec /\ Fairness

-----------------------------------------------------------------------------
(* Reading: ApiGetRoomHistory and ApiGetRoomHistoryTiered.                 *)

\* The fields of a stream entry in the order ApiStoreMessageTiered writes them.
EntryFields == <<"payload", "room_id">>

\* GetXrevrange keeps the value of the last field; only the payload is JSON
\* that ApiGetRoomHistory can read as a message.
EntryReadable == EntryFields[Len(EntryFields)] = "payload"

InRoom(s, r) == {i \in DOMAIN s : RoomOf[s[i]] = r}

\* The n newest entries of a room, by their ids.
NewestInStream(r, n) ==
    {stream[i] : i \in {j \in InRoom(stream, r) :
        Cardinality({k \in InRoom(stream, r) : k > j}) < n}}

\* ApiGetRoomHistory: an unreadable entry makes it return -1, and it is the
\* first one it looks at.
RedisFails(r) == InRoom(stream, r) # {} /\ ~EntryReadable
RedisHistory(r, n) == IF RedisFails(r) THEN {} ELSE NewestInStream(r, n)

\* The clock a row is ordered by: the time of its message's arrival in Redis.
Stamp(m) == CHOOSE i \in DOMAIN stream : stream[i] = m

\* Mutant: ORDER BY timestamp without DESC.
OldestRows(r, k) ==
    {rows[i] : i \in {j \in InRoom(rows, r) :
        Cardinality({l \in InRoom(rows, r) : Stamp(rows[l]) < Stamp(rows[j])}) < k}}

\* SELECT ... ORDER BY timestamp DESC LIMIT k: every row counts, also the
\* second row of a message inserted twice.
NewestRows(r, k) ==
    {rows[i] : i \in {j \in InRoom(rows, r) :
        Cardinality({l \in InRoom(rows, r) : Stamp(rows[l]) > Stamp(rows[j])}) < k}}

\* ApiGetRoomHistoryTiered: Redis first, MySQL for what is missing.
RoomHistory(r, n) ==
    LET recent == RedisHistory(r, n)
    IN  IF ~RedisFails(r) /\ Cardinality(recent) >= n
        THEN recent
        ELSE recent \cup NewestRows(r, n - Cardinality(recent))

-----------------------------------------------------------------------------
(* Properties.                                                             *)

\* The deployment runs one Comet process.
SingleComet == \A c, d \in Comet : c = d

\* Some tick has found more entries than it reads.
Overflow == longest > Batch

\* Whatever waits for MySQL or is in MySQL has its entry in Redis: the row's
\* redis_id is the id XADD returned (api_msg.cc:147-159), also when XADD fails
\* or the process dies between the commands.
PersistedFromStream == Range(queue) \cup Range(rows) \subseteq Range(stream)

\* A queued message leaves the queue in two ways only: it is in MySQL, or a
\* DEL took it although the tick had not read it.  A failed INSERT, a failed
\* DEL, a crash at any point or another Comet's tick loses nothing else
\* (api_msg.cc:228-238).
Conservation == pushed \subseteq Range(queue) \cup Range(rows) \cup dropped

\* What each Comet is working on.  A message between XADD and LPUSH is new to
\* the queue and in no other Comet's hands; a batch has been queued; a batch
\* about to be deleted is in MySQL.
WorkInv ==
    /\ \A c \in Comet : pc[c] = "lpush" =>
          /\ \E m \in Msg : work[c] = <<m>>
          /\ Range(work[c]) \subseteq (sent \cap Range(stream)) \ pushed
          /\ \A d \in Comet \ {c} : pc[d] = "lpush" => Range(work[c]) \cap Range(work[d]) = {}
    /\ \A c \in Comet : pc[c] \in {"insert", "del"} => Range(work[c]) \subseteq pushed
    /\ \A c \in Comet : pc[c] = "del" => Range(work[c]) \subseteq Range(rows)

\* A queued message was sent and is in its stream; queue and table hold only
\* queued messages.
QueueInv ==
    /\ pushed \subseteq sent \cap Range(stream)
    /\ Range(queue) \cup Range(rows) \subseteq pushed

\* The batch of the only Comet covers the whole queue.
CoverInv ==
    SingleComet /\ ~Overflow =>
        /\ dropped = {}
        /\ \A c \in Comet : pc[c] \in {"insert", "del"} => Range(queue) \subseteq Range(work[c])

\* The inductive invariant: it implies PersistedFromStream and QueuedKept.
StoreInv == WorkInv /\ QueueInv /\ Conservation /\ CoverInv

\* The archive promised to the callers of the store.
Archive == INSTANCE MessageArchive WITH
    accepted <- pushed,
    pending  <- Range(queue) \ Range(rows),
    archived <- Range(rows),
    degraded <- Overflow \/ ~SingleComet

\* The Redis queue and the MySQL table together implement that archive.
ArchiveSpec == Archive!ArchiveSpec

\* With one Comet, and as long as no tick finds more than Batch entries, every
\* queued message is in the queue or in MySQL: no store runs between the LRANGE
\* and the DEL of the event loop they share (api_msg.cc:196, 232), and the DEL
\* takes nothing unread.
QueuedKept == Archive!NothingForgotten

\* With one Comet a message is inserted once, and once more for each failed DEL,
\* lost reply or crash between the INSERT and the DEL (api_msg.cc:228-232): the
\* next tick reads only what the last DEL left.
RowsBounded ==
    SingleComet =>
        \A m \in Msg : Cardinality({i \in DOMAIN rows : rows[i] = m}) <= 1 + nfaults

\* The newest n of the accepted messages of a room.
NewestAccepted(r, n) ==
    {m \in accepted : RoomOf[m] = r /\ Cardinality(
        {o \in accepted : RoomOf[o] = r /\ Stamp(o) > Stamp(m)}) < n}

\* Once the queue is empty, a user who enters sees exactly the newest n messages
\* of each room, provided that none was lost on the way and none has two rows
\* (api_msg.cc:242-295).
HistoryComplete ==
    /\ queue = <<>>
    /\ \A c \in Comet : pc[c] \in {"idle", "down"}
    /\ accepted = pushed
    /\ dropped = {}
    /\ IsInjective(rows)
    => \A r \in Room, n \in 1 .. Cardinality(Msg) : RoomHistory(r, n) = NewestAccepted(r, n)

\* As long as some Comet stays up, every queued message leaves the queue for
\* MySQL or is taken by a DEL: failed ticks are retried by the next one
\* (main.cc:219-240).
SomeStaysUp == \E c \in Comet : <>[](pc[c] # "down")
QueueDrains == SomeStaysUp => \A m \in Msg : m \in pushed ~> m \in Range(rows) \cup dropped

\* What REDIS_ROUTING.md:166-167 says of the WebSocket path: a message is stored
\* in Redis and persisted to MySQL on a timer.  So a message the room has seen
\* waits in the queue or is in MySQL.
AcceptedKept == accepted \subseteq Range(queue) \cup Range(rows)

\* What api_msg.cc:241 says of reading: recent messages come from Redis, older
\* ones from MySQL.  So a message the room has seen is in its history.
RecentReadable ==
    \A r \in Room : NewestAccepted(r, Cardinality(Msg)) \subseteq RoomHistory(r, Cardinality(Msg))

=============================================================================
