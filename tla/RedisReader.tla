---------------------------- MODULE RedisReader ----------------------------
(***************************************************************************)
(* The reply parser of the Redis client (redis/read.c).                    *)
(*                                                                         *)
(* A reply is the sequence of its nodes in the order they have on the      *)
(* wire: an array first, then its elements.  A node is sent as a type byte *)
(* and a line (a status, an error, a number, a length or a count), and a   *)
(* string that is not nil as a third part, its bytes.  The parser works on *)
(* whatever parts have arrived: a part is what it consumes or waits for as *)
(* a whole.  What is consumed is dropped at once, where the code drops it  *)
(* when a kilobyte has accumulated; nothing reads it in between.           *)
(*                                                                         *)
(* Operators only: a reader is a value, and RedisConn keeps one per        *)
(* context.                                                                *)
(***************************************************************************)
EXTENDS Integers, Sequences, SequencesExt, FiniteSetsExt

(***************************************************************************)
(* Nodes and their parts on the wire.                                      *)
(***************************************************************************)

LineTypes == {"error", "status", "integer"}
NodeTypes == LineTypes \cup {"string", "array"}

\* n: elements of an array, length of a string (-1 for nil), value of a number
Node(type, n) == [type |-> type, n |-> n]

Parts(node) ==
    LET part(name) == [part |-> name, node |-> node]
    IN  <<part("type"), part("line")>>
          \o IF node.type = "string" /\ node.n >= 0 THEN <<part("bytes")>> ELSE <<>>

WireOf(nodes) == FlattenSeq([i \in DOMAIN nodes |-> Parts(nodes[i])])

(***************************************************************************)
(* The reader.  stack holds the open tasks, outermost first: what is read  *)
(* at each level, how many elements it has and which one of its parent's   *)
(* elements it is, counted from 0.                                         *)
(***************************************************************************)

MaxDepth == 9   \* rstack has nine entries
Task(idx) == [type |-> "none", elements |-> -1, idx |-> idx]

NewReader == [err |-> FALSE, buf |-> <<>>, stack |-> <<>>, obj |-> <<>>]

ReaderFeed(r, parts) == IF r.err THEN r ELSE [r EXCEPT !.buf = @ \o parts]

ReaderFails(r) == [r EXCEPT !.err = TRUE, !.buf = <<>>, !.stack = <<>>, !.obj = <<>>]

\* where in the reply the object under construction belongs
PathOf(stack) == [k \in 1..Len(stack) - 1 |-> stack[k + 1].idx]

\* Mutant: counts the elements from 1.
NextTaskLate(stack) ==
    LET open == {k \in 2..Len(stack) : stack[k].idx # stack[k - 1].elements}
    IN  IF open = {} THEN <<>>
        ELSE LET k == Max(open)
             IN  [SubSeq(stack, 1, k) EXCEPT ![k] = Task(@.idx + 1)]

\* moveToNextTask: close every level whose last element was read
NextTask(stack) ==
    LET open == {k \in 2..Len(stack) : stack[k].idx # stack[k - 1].elements - 1}
    IN  IF open = {} THEN <<>>
        ELSE LET k == Max(open)
             IN  [SubSeq(stack, 1, k) EXCEPT ![k] = Task(@.idx + 1)]

\* An object is created from the first n parts of the buffer and attached to
\* its parent; the parser goes on with stack s.
Created(r, n, s) ==
    [r EXCEPT !.buf = SubSeq(@, n + 1, Len(@)),
              !.stack = s,
              !.obj = Append(@, [path |-> PathOf(r.stack), node |-> Head(r.buf).node])]

Arrived(r, n) == Len(r.buf) >= n

ProcessLine(r) ==
    IF Arrived(r, 1) THEN Created(r, 1, NextTask(r.stack)) ELSE r

\* the length and the bytes are consumed together
ProcessBulk(r) ==
    IF ~Arrived(r, 1) THEN r
    ELSE LET need == IF Head(r.buf).node.n = -1 THEN 1 ELSE 2
         IN  IF Arrived(r, need) THEN Created(r, need, NextTask(r.stack)) ELSE r

ProcessMultiBulk(r) ==
    IF Len(r.stack) = MaxDepth THEN ReaderFails(r)
    ELSE IF ~Arrived(r, 1) THEN r
    ELSE LET n == Head(r.buf).node.n
             entered == [r.stack EXCEPT ![Len(r.stack)].elements = n]
         IN  Created(r, 1, IF n > 0 THEN Append(entered, Task(0)) ELSE NextTask(r.stack))

\* One item; the reader itself when more has to arrive first.
ProcessItem(r) ==
    LET top == Len(r.stack)
        typed == IF r.stack[top].type # "none" \/ r.buf = <<>> THEN r
                 ELSE [r EXCEPT !.buf = Tail(@), !.stack[top].type = Head(r.buf).node.type]
        type == typed.stack[top].type
    IN  CASE r.stack[top].type = "none" /\ r.buf # <<>> /\ Head(r.buf).part # "type"
                                   -> ReaderFails(r)
          [] type = "none"         -> typed
          [] type \in LineTypes    -> ProcessLine(typed)
          [] type = "string"       -> ProcessBulk(typed)
          [] type = "array"        -> ProcessMultiBulk(typed)

\* One turn of the loop of redisReaderGetReply.
ReaderStep(r) == IF r.err \/ r.stack = <<>> THEN r ELSE ProcessItem(r)

\* redisReaderGetReply up to the end of its loop: every item that can be read
ReaderRun(r) ==
    IF r.err \/ r.buf = <<>> THEN r
    ELSE LET started == IF r.stack = <<>> THEN [r EXCEPT !.stack = <<Task(0)>>] ELSE r
             run[i \in 0..Len(r.buf)] == IF i = 0 THEN started ELSE ReaderStep(run[i - 1])
         IN  run[Len(r.buf)]

\* Mutant: the root object is handed out as soon as it exists.
HasReplyEarly(r) == r.obj # <<>>
\* Mutant: the reader does not forget the reply it gave out.
ReplyLeft(r) == r

\* a whole reply is there when no task is open and something was built
HasReply(r) == r.stack = <<>> /\ r.obj # <<>>
ReplyTaken(r) == [r EXCEPT !.obj = <<>>]

(***************************************************************************)
(* What a server sends: a tree, every element of an array after the array. *)
(***************************************************************************)

\* the elements that follow a node as its own
Announced(node) == IF node.type = "array" /\ node.n > 0 THEN node.n ELSE 0

\* how many nodes are still announced after each of them
Owed(nodes) ==
    LET owed[k \in 0..Len(nodes)] ==
            IF k = 0 THEN 1 ELSE owed[k - 1] - 1 + Announced(nodes[k])
    IN  owed

IsReply(nodes) ==
    /\ \A i \in DOMAIN nodes : nodes[i].type = "string" => nodes[i].n >= -1
    /\ Owed(nodes)[Len(nodes)] = 0
    /\ \A k \in 0..Len(nodes) - 1 : Owed(nodes)[k] > 0

(***************************************************************************)
(* What a parsed reply has to be: the nodes that were sent, each at the    *)
(* place its parent reserves for it.                                       *)
(***************************************************************************)

NodesOf(obj) == [i \in DOMAIN obj |-> obj[i].node]
PathsOf(obj) == {obj[i].path : i \in DOMAIN obj}

IsTree(obj) ==
    /\ Len(obj) > 0 /\ obj[1].path = <<>>
    /\ \A i, j \in DOMAIN obj : obj[i].path = obj[j].path => i = j
    /\ \A i \in DOMAIN obj :
         LET o == obj[i] IN
         {p \in PathsOf(obj) : Len(p) = Len(o.path) + 1 /\ Front(p) = o.path}
           = {Append(o.path, k) : k \in {m \in 0..o.node.n - 1 : o.node.type = "array"}}

=============================================================================
