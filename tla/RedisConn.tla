----------------------------- MODULE RedisConn -----------------------------
(***************************************************************************)
(* The pooled Redis connections of a Comet: CacheConn and its wrappers     *)
(* (redis/cache_pool.cc) over the blocking client (redis/hiredis.c, net.c, *)
(* read.c) and the socket, with a server that goes down and comes back.    *)
(*                                                                         *)
(* One event loop runs one handler at a time.  A handler takes the first   *)
(* free connection, calls one wrapper after the other on it and gives it   *)
(* back at the end of the queue.  A wrapper first calls CacheConn::Init,   *)
(* which connects when there is no context, at most once a second.         *)
(*                                                                         *)
(* A command on its way is two halves, so that it can be written in part;  *)
(* a reply arrives in any pieces.  ConnPool describes who gets a           *)
(* connection, this module what happens on it.                             *)
(***************************************************************************)
EXTENDS RedisReader

CONSTANTS
    Conn,           \* connections of the pool
    Handlers,       \* the sequences of wrappers that handlers call
    Answers,        \* Answers[op]: the replies the server may give
    Password,       \* whether AUTH precedes SELECT
    Null            \* no connection

VARIABLES
    up,             \* the server accepts connections
    \* ----- the two ends of each connection
    linked,         \* the server holds the other end of the socket
    inbox,          \* halves of commands that reached the server
    wire,           \* parts of replies on their way to the client
    \* ----- the client
    context,        \* context_: [state, out, reader]
    attempted,      \* last_connect_time_ is the present second
    free,           \* free_list_
    task,           \* the handler on the event loop, see Idle and Start
    \* ----- history
    served,         \* what the server answered to the command under way
    last            \* what the last wrapper used on each connection does with NULL

serverVars == <<up, linked, inbox, wire>>
vars == <<serverVars, context, attempted, free, task, served, last>>

(***************************************************************************)
(* The wrappers: what each does with a NULL reply (free the context, keep  *)
(* it, or dereference the reply), and the reply types it does not report   *)
(* as a failure.                                                           *)
(***************************************************************************)

TypeOf(node) ==
    IF node.type \in {"string", "array"} /\ node.n = -1 THEN "nil" ELSE node.type
AnyType == NodeTypes \cup {"nil"}
Frees(takes) == [onNull |-> "free", takes |-> takes]
Keeps(takes) == [onNull |-> "keep", takes |-> takes]
Derefs(takes) == [onNull |-> "deref", takes |-> takes]

StringWrappers ==
    [op \in {"Get", "Set", "SetEx", "MGet"} |->
        Frees(IF op = "Get" THEN {"string"} ELSE AnyType)]
KeyWrappers == [op \in {"IsExists", "Del"} |-> Frees(AnyType)]
FieldWrappers ==
    [op \in {"Hdel", "Hget"} |-> Frees(IF op = "Hget" THEN {"string"} ELSE AnyType)]
FieldBufferWrappers == [op \in {"HgetBuffer"} |-> Keeps({"string"})]
HashWrappers ==
    [op \in {"HgetAll", "Hset", "HincrBy", "IncrBy"} |-> Frees(AnyType)]
HashListWrappers == [op \in {"Hmset", "Hmget"} |-> Frees(AnyType)]
CounterWrappers == [op \in {"Incr", "Decr"} |-> Frees(AnyType)]
\* Mutant: the list commands keep a broken context, as the stream ones do.
ListWrappersKeep == [op \in {"Lpush", "Rpush", "Llen", "Lrange"} |-> Keeps(AnyType)]
ListWrappers == [op \in {"Lpush", "Rpush", "Llen", "Lrange"} |-> Frees(AnyType)]
SortedSetWrappers ==
    [op \in {"ZsetExit", "ZsetAdd", "ZsetZrem", "ZsetZcard"} |-> Derefs({"integer"})]
SortedSetReaders ==
    [op \in {"ZsetZrevrange", "ZsetGetScore"} |->
        Derefs(IF op = "ZsetZrevrange" THEN {"array"} ELSE {"string"})]
StreamReader == [op \in {"GetXrevrange"} |-> Keeps({"array"})]
StreamWriter == [op \in {"Xadd"} |-> Keeps(AnyType \ {"error"})]
\* FLUSHDB answers with a status, which FlushDb does not take for success
FlushWrapper == [op \in {"FlushDb"} |-> Frees({"string"})]
\* Init itself: AUTH fails on an error, SELECT on anything but a status
LoginCommands ==
    [op \in {"AUTH", "SELECT"} |->
        Keeps(IF op = "SELECT" THEN {"status"} ELSE AnyType \ {"error"})]

Groups ==
    {StringWrappers, KeyWrappers, FieldWrappers, FieldBufferWrappers, HashWrappers,
     HashListWrappers, CounterWrappers, ListWrappers, SortedSetWrappers,
     SortedSetReaders, StreamReader, StreamWriter, FlushWrapper, LoginCommands}

Wrapper ==
    [op \in UNION {DOMAIN g : g \in Groups} |-> (CHOOSE g \in Groups : op \in DOMAIN g)[op]]

\* Wrappers that hand their data to redisCommand as the format string.
Formatting == {"MGet", "GetXrevrange", "Xadd"}

Login == IF Password THEN <<"AUTH", "SELECT">> ELSE <<"SELECT">>

ASSUME RedisAssumption ==
    /\ IsFiniteSet(Conn) /\ Null \notin Conn
    /\ Password \in BOOLEAN
    /\ Handlers \subseteq Seq(DOMAIN Wrapper) \ {<<>>}
    /\ \A op \in DOMAIN Wrapper :
         Answers[op] \subseteq {s \in Seq([type : NodeTypes, n : Int]) : IsReply(s)}

(***************************************************************************)
(* Contexts and the handler on the loop.                                   *)
(***************************************************************************)

\* context_ is NULL; redisContextInit; a context whose err is set
NoContext == [state |-> "none", out |-> <<>>, reader |-> NewReader]
NewContext == [NoContext EXCEPT !.state = "good"]
\* __redisSetError, for good: only redisFree ends it.  What the buffers still
\* hold is never completed (CleanBetween) and is dropped here.
Failed(x) == [NoContext EXCEPT !.state = "error"]

\* todo: the wrappers still to call, first the one that runs; login: the
\* commands of Init before it; stage: what that command is at
Idle == [stage |-> "idle", conn |-> Null, todo |-> <<>>, login |-> <<>>, reply |-> <<>>]

Current == Head(task.login \o task.todo)

\* CachePool::Init pushes every connection once
Queues ==
    {s \in [1..Cardinality(Conn) -> Conn] : \A i, j \in DOMAIN s : s[i] = s[j] => i = j}

Init ==
    /\ up = TRUE
    /\ linked = [c \in Conn |-> TRUE]
    /\ inbox = [c \in Conn |-> <<>>]
    /\ wire = [c \in Conn |-> <<>>]
    /\ context = [c \in Conn |-> NewContext]
    /\ attempted = [c \in Conn |-> TRUE]
    /\ free \in Queues
    /\ task = Idle
    /\ served = <<>>
    /\ last = [c \in Conn |-> "keep"]

(***************************************************************************)
(* CacheConn.                                                              *)
(***************************************************************************)

\* GetCacheConn, then the first wrapper of the handler
Start(h) ==
    /\ task = Idle /\ free # <<>>
    /\ task' = [Idle EXCEPT !.stage = "init", !.conn = Head(free), !.todo = h]
    /\ free' = Tail(free)
    /\ UNCHANGED <<serverVars, context, attempted, served, last>>

\* the handler ends: RelCacheConn
Release ==
    /\ task' = Idle
    /\ free' = Append(free, task.conn)

\* CacheConn::Init when it has nothing to do or may not try yet
SkipConnect ==
    /\ task.stage = "init"
    /\ \/ /\ context[task.conn].state # "none"
          /\ task' = [task EXCEPT !.stage = "append"]
          /\ UNCHANGED free
       \/ /\ context[task.conn].state = "none" /\ attempted[task.conn]
          /\ Release
    /\ UNCHANGED <<serverVars, context, attempted, served, last>>

\* CacheConn::Init connects: redisConnectWithTimeout
Connect ==
    LET c == task.conn IN
    /\ task.stage = "init" /\ context[c].state = "none" /\ ~attempted[c]
    /\ attempted' = [attempted EXCEPT ![c] = TRUE]
    /\ IF up THEN /\ context' = [context EXCEPT ![c] = NewContext]
                  /\ linked' = [linked EXCEPT ![c] = TRUE]
                  /\ task' = [task EXCEPT !.stage = "append", !.login = Login]
                  /\ UNCHANGED free
             ELSE /\ Release
                  /\ UNCHANGED <<context, linked>>
    /\ inbox' = [inbox EXCEPT ![c] = <<>>]
    /\ wire' = [wire EXCEPT ![c] = <<>>]
    /\ UNCHANGED <<up, served, last>>

\* Mutant: no wrapper frees the context.
ContextAfterKept(x) == x

\* What the wrapper leaves of the context it used.
ContextAfter(x) ==
    IF task.stage = "null" /\ Wrapper[Current].onNull = "free" THEN NoContext ELSE x

\* The wrapper has its reply, or NULL.
Finish ==
    LET c == task.conn
        taken == task.stage = "reply" /\ TypeOf(task.reply[1].node) \in Wrapper[Current].takes
        next == [task EXCEPT !.stage = IF task.login = <<>> THEN "init" ELSE "append",
                             !.login = IF @ = <<>> THEN <<>> ELSE Tail(@),
                             !.todo = IF task.login = <<>> THEN Tail(@) ELSE @,
                             !.reply = <<>>]
    IN
    /\ task.stage \in {"reply", "null"}
    /\ last' = [last EXCEPT ![c] = Wrapper[Current].onNull]
    /\ served' = <<>>
    /\ IF task.stage = "null" /\ Wrapper[Current].onNull = "deref"
       THEN /\ task' = [Idle EXCEPT !.stage = "dead"]      \* the process ends
            /\ context' = [d \in Conn |-> NoContext]
            /\ UNCHANGED free
       ELSE /\ context' = [context EXCEPT ![c] = ContextAfter(@)]
            /\ \/ (taken /\ next.todo # <<>> /\ task' = next /\ UNCHANGED free)
               \/ ((~taken \/ next.todo = <<>>) /\ Release)
               \/ (taken /\ Current = "Lrange" /\ Release)  \* no rows, or no INSERT
    /\ UNCHANGED <<serverVars, attempted>>

(***************************************************************************)
(* redisCommand on the context of the handler's connection.                *)
(***************************************************************************)

Answered(reply) == [task EXCEPT !.stage = "reply", !.reply = reply]
\* Mutant: a command that failed is sent once more.
NullReplyRetried == [task EXCEPT !.stage = "append"]
NullReply == [task EXCEPT !.stage = "null"]

\* redisvAppendCommand.  A command whose text is the format fails to format
\* when the text has a percent sign that starts no conversion.
AppendCommand ==
    LET c == task.conn IN
    /\ task.stage = "append"
    /\ served' = <<>>
    /\ \/ /\ context' = [context EXCEPT ![c].out = @ \o <<Current, Current>>]
          /\ task' = [task EXCEPT !.stage = "get"]
       \/ /\ Current \in Formatting
          /\ context' = [context EXCEPT ![c] = Failed(@)]
          /\ task' = NullReply
    /\ UNCHANGED <<serverVars, attempted, free, last>>

\* redisGetReplyFromReader on context x: what the wrapper gets, if anything
TakeReply(x) ==
    LET r == ReaderRun(x.reader)
        y == [x EXCEPT !.reader = r]
        c == task.conn
    IN  IF r.err THEN /\ context' = [context EXCEPT ![c] = Failed(y)]
                      /\ task' = NullReply
        ELSE IF HasReply(r)
        THEN /\ context' = [context EXCEPT ![c] = [y EXCEPT !.reader = ReplyTaken(r)]]
             /\ task' = Answered(r.obj)
        ELSE /\ context' = [context EXCEPT ![c] = y]
             /\ task' = [task EXCEPT !.stage = IF x.out = <<>> THEN "read" ELSE "write"]

\* redisGetReply: replies that are already there come first
GetPending ==
    /\ task.stage = "get"
    /\ TakeReply(context[task.conn])
    /\ UNCHANGED <<serverVars, attempted, free, served, last>>

\* redisBufferWrite.  The first write on a socket the server has closed may
\* still succeed.
BufferWrite ==
    LET c == task.conn
        x == context[c]
    IN
    /\ task.stage = "write"
    /\ \/ /\ (x.state = "error" \/ ~linked[c])
          /\ context' = [context EXCEPT ![c] = Failed(@)]
          /\ task' = NullReply
          /\ UNCHANGED inbox
       \/ /\ x.state = "good"
          /\ \E n \in 1..Len(x.out) :
               /\ context' = [context EXCEPT ![c].out = SubSeq(@, n + 1, Len(@))]
               /\ inbox' = [inbox EXCEPT ![c] =
                              IF linked[c] THEN @ \o SubSeq(x.out, 1, n) ELSE @]
               /\ task' = IF n < Len(x.out) THEN task ELSE [task EXCEPT !.stage = "read"]
    /\ UNCHANGED <<up, linked, wire, attempted, free, served, last>>

\* redisBufferRead and the parser; the call blocks while nothing comes
BufferRead ==
    LET c == task.conn
        x == context[c]
    IN
    /\ task.stage = "read"
    /\ \/ /\ wire[c] # <<>>
          /\ \E n \in 1..Len(wire[c]) :
               /\ TakeReply([x EXCEPT !.reader = ReaderFeed(@, SubSeq(wire[c], 1, n))])
               /\ wire' = [wire EXCEPT ![c] = SubSeq(@, n + 1, Len(@))]
       \/ /\ (x.state = "error" \/ (wire[c] = <<>> /\ ~linked[c]))
          /\ context' = [context EXCEPT ![c] = Failed(@)]
          /\ task' = NullReply
          /\ UNCHANGED wire
    /\ UNCHANGED <<up, linked, inbox, attempted, free, served, last>>

(***************************************************************************)
(* The server and its network, the clock, the process.                     *)
(***************************************************************************)

\* The server executes a command that has arrived whole and answers.
Serve(c) ==
    /\ linked[c] /\ Len(inbox[c]) >= 2
    /\ \E reply \in Answers[inbox[c][1]] :
         /\ served' = IF task.conn = c THEN reply ELSE served
         /\ wire' = [wire EXCEPT ![c] = @ \o WireOf(reply)]
    /\ inbox' = [inbox EXCEPT ![c] = SubSeq(@, 3, Len(@))]
    /\ UNCHANGED <<up, linked, context, attempted, free, task, last>>

\* A connection breaks; part of what was on its way still arrives.
Drop(c) ==
    /\ linked[c]
    /\ linked' = [linked EXCEPT ![c] = FALSE]
    /\ inbox' = [inbox EXCEPT ![c] = <<>>]
    /\ \E n \in 0..Len(wire[c]) : wire' = [wire EXCEPT ![c] = SubSeq(@, 1, n)]
    /\ UNCHANGED <<up, context, attempted, free, task, served, last>>

\* The server stops, and with it every connection.
Stop ==
    /\ up /\ up' = FALSE
    /\ linked' = [c \in Conn |-> FALSE]
    /\ inbox' = [c \in Conn |-> <<>>]
    /\ \E n \in 0..Max({Len(wire[c]) : c \in Conn}) :
         wire' = [c \in Conn |-> SubSeq(wire[c], 1, Min({n, Len(wire[c])}))]
    /\ UNCHANGED <<context, attempted, free, task, served, last>>

ServerStart ==
    /\ ~up /\ up' = TRUE
    /\ UNCHANGED <<linked, inbox, wire, context, attempted, free, task, served, last>>

\* the next second of the clock
Tick ==
    /\ \E c \in Conn : attempted[c]
    /\ attempted' = [c \in Conn |-> FALSE]
    /\ UNCHANGED <<serverVars, context, free, task, served, last>>

\* A process that died is started again: CachePool::Init connects the pool.
Restart ==
    /\ task.stage = "dead" /\ up
    /\ linked' = [c \in Conn |-> TRUE]
    /\ inbox' = [c \in Conn |-> <<>>]
    /\ wire' = [c \in Conn |-> <<>>]
    /\ context' = [c \in Conn |-> NewContext]
    /\ attempted' = [c \in Conn |-> TRUE]
    /\ free' \in Queues
    /\ task' = Idle
    /\ served' = <<>>
    /\ last' = [c \in Conn |-> "keep"]
    /\ UNCHANGED up

Loop ==
    \/ \E h \in Handlers : Start(h)
    \/ SkipConnect
    \/ Connect
    \/ AppendCommand
    \/ GetPending
    \/ BufferWrite
    \/ BufferRead
    \/ Finish

Environment ==
    \/ \E c \in Conn : Serve(c) \/ Drop(c)
    \/ Stop
    \/ ServerStart
    \/ Tick
    \/ Restart

Next == Loop \/ Environment

Spec == Init /\ [][Next]_vars

(***************************************************************************)
(* Fairness.  A wrapper that can go on does; the server answers what it    *)
(* has received, and seconds pass.  Of the handlers only the timer's one   *)
(* is bound to come again (chat-room/main.cc:219-240).                     *)
(***************************************************************************)

Timer == <<"Lrange", "Del">>

FairSpec ==
    /\ Spec
    /\ WF_vars(SkipConnect \/ Connect \/ AppendCommand \/ GetPending
                  \/ BufferWrite \/ BufferRead \/ Finish)
    /\ WF_vars(Start(Timer))
    /\ WF_vars(Tick)
    /\ \A c \in Conn : WF_vars(Serve(c))

(***************************************************************************)
(* Properties.                                                             *)
(***************************************************************************)

Stages == {"idle", "init", "append", "get", "write", "read", "reply", "null", "dead"}

Free(c) == \E i \in DOMAIN free : free[i] = c
Usable(c) == context[c].state = "good" /\ linked[c]

\* The state is of its type; the handler's connection is not in the queue.
TypeOK ==
    /\ up \in BOOLEAN /\ linked \in [Conn -> BOOLEAN] /\ attempted \in [Conn -> BOOLEAN]
    /\ \A c \in Conn : context[c].state \in {"none", "good", "error"}
    /\ task.stage \in Stages /\ task.conn \in Conn \cup {Null}
    /\ task.stage \in {"idle", "dead"} \/ ~Free(task.conn)

\* A context that is not in error has nothing left to send, to receive or to
\* parse when no command runs on it, however its bytes were cut, so that the
\* next command cannot be answered with a reply to an earlier one.
CleanBetween ==
    \A c \in Conn :
        Free(c) /\ context[c].state = "good"
            => /\ context[c].out = <<>> /\ wire[c] = <<>> /\ inbox[c] = <<>>
               /\ context[c].reader.buf = <<>> /\ context[c].reader.stack = <<>>
               /\ context[c].reader.obj = <<>>

\* What a wrapper is given is the whole tree that the server answered to its
\* own command; a wrapper reports nothing that was not executed.
AnswerIsServed ==
    task.stage = "reply"
        => /\ served = NodesOf(task.reply)
           /\ IsTree(task.reply)

\* "When NULL is returned in a blocking context, the error field in the
\* context will be set" (hiredis.c:1108): NULL does not stand for an answer.
NullMeansError ==
    task.stage = "null" => context[task.conn].state = "error"

\* A context in error goes back to the pool only after a command whose wrapper
\* keeps it, or after a failed AUTH or SELECT; Init takes it for a good one.
ErrorOnlyKept ==
    \A c \in Conn :
        Free(c) /\ context[c].state = "error" => last[c] = "keep"

\* When the server stays up and only the timer's handler runs, every
\* connection of the pool works again, as the queue hands out each in turn.
PoolHeals ==
    (/\ <>[]up
     /\ <>[][\A c \in Conn : linked[c] => linked'[c]]_vars
     /\ <>[](task = Idle \/ task.todo \in {Timer, Tail(Timer)}))
        => <>[](\A c \in Conn : Usable(c))

\* A call returns: the loop is never stuck in a wrapper while the server
\* answers or its connection breaks.
CallsReturn == task.stage # "idle" ~> task.stage \in {"idle", "dead"}

\* What a command is to its caller: under way from the moment it is in the
\* output buffer, and over when its wrapper is done with the reply.
InCall == task.stage \in {"get", "write", "read", "reply", "null"}

CallPhase ==
    CASE task.stage = "reply" -> "answered"
      [] task.stage = "null" -> "failed"
      [] task.stage \in {"get", "write", "read"} -> "called"
      [] OTHER -> "idle"
CallCommand == IF InCall THEN Current ELSE "none"
CallWaiting == \E c \in Conn : Len(inbox[c]) >= 2
CallResult == IF task.stage = "reply" THEN NodesOf(task.reply) ELSE <<>>

RemoteCalls == INSTANCE RemoteCall WITH
    Command <- DOMAIN Wrapper,
    AnswersTo <- Answers,
    NoCommand <- "none",
    NoAnswer <- <<>>,
    phase <- CallPhase,
    command <- CallCommand,
    waiting <- CallWaiting,
    answer <- served,
    result <- CallResult

\* The connection implements the call: a command is executed at most once and
\* only while its wrapper waits, and the wrapper is given the answer of that
\* very execution or NULL (hiredis.c:1097-1149).
CallSpec == RemoteCalls!CallSpec

=============================================================================
