---------------------------- MODULE LogicService ----------------------------
(***************************************************************************)
(* The Logic service and its way to the Job service: HTTP requests that    *)
(* arrive in pieces (logic/main.cc, logic/http_parser.h), the Kafka        *)
(* producer's local queue (logic/kafka_producer.cpp), a topic, and the     *)
(* consumer's offsets (job/kafka_consumer.cc).                             *)
(*                                                                         *)
(* TCP keeps the order of the parts of a connection, not their grouping:   *)
(* one onMessage takes whatever has arrived as one request.  librdkafka    *)
(* and the broker are outside the code: a message leaves the queue later,  *)
(* possibly twice (no idempotence is set), or not at all (no delivery      *)
(* report is registered).                                                  *)
(***************************************************************************)
EXTENDS Integers, Sequences, FiniteSets, SequencesExt

CONSTANTS
    Msg,            \* the messages
    Client,         \* the connections to Logic
    Sends,          \* per connection: the messages it posts, in order
    Incomplete,     \* messages whose JSON lacks a required field
    Partition,      \* of the topic
    QueueMax,       \* queue.buffering.max.messages of the producer
    MaxFaults       \* bound on crashes, copies and expired messages

\* A message is posted once.
ASSUME LogicAssumption ==
    /\ Sends \in [Client -> Seq(Msg)]
    /\ \A c, d \in Client : \A i \in DOMAIN Sends[c], j \in DOMAIN Sends[d] :
         Sends[c][i] = Sends[d][j] => c = d /\ i = j
    /\ QueueMax \in Nat \ {0}

VARIABLES
    left,           \* per connection: the parts that have not been read yet
    open,           \* per connection: Logic may still answer on it
    answers,        \* per connection: the status codes sent
    accepted,       \* ghost: the messages produce() took, in order
    queue,          \* the producer's queue
    topic,          \* per partition: the log
    lost,           \* ghost: accepted messages that never reached the topic
    copies,         \* ghost: messages the producer delivered once more
    position,       \* per partition: the records consume() has returned
    committed,      \* per partition: the offset a restart goes on from
    current,        \* per partition: the record being handled, <<>> for none
    handled,        \* per partition: the offsets whose handling has ended
    faults

logic == <<left, open, answers, accepted>>
producer == <<queue, topic, lost, copies>>
job == <<position, committed, current, handled>>
vars == <<logic, producer, job, faults>>

(***************************************************************************)
(* A request is a request line, the end of the headers, and a body in two  *)
(* parts.                                                                  *)
(***************************************************************************)

Parts == <<"line", "head", "body", "rest">>
Bytes(msgs) ==
    [i \in 1..4 * Len(msgs) |->
        [part |-> Parts[((i - 1) % 4) + 1], msg |-> msgs[((i - 1) \div 4) + 1]]]

Has(read, part) == \E i \in DOMAIN read : read[i].part = part

\* Mutant: the body need not be there as a whole.
WholeBodyNot(body) == body # <<>> /\ body[1].part = "body"
\* JSON is parsed from the start of the body; what follows it is ignored.
WholeBody(body) == Len(body) >= 2 /\ body[1].part = "body"

\* parseHttpRequest: the body is what follows the first empty line
Body(read) ==
    IF Has(read, "head")
    THEN SubSeq(read, 1 + SelectInSeq(read, LAMBDA x : x.part = "head"), Len(read))
    ELSE <<>>

Init ==
    /\ left = [c \in Client |-> Bytes(Sends[c])]
    /\ open = [c \in Client |-> TRUE]
    /\ answers = [c \in Client |-> <<>>]
    /\ accepted = <<>> /\ queue = <<>> /\ lost = <<>> /\ copies = <<>>
    /\ topic = [p \in Partition |-> <<>>]
    /\ position = [p \in Partition |-> 0] /\ committed = [p \in Partition |-> 0]
    /\ current = [p \in Partition |-> <<>>]
    /\ handled = [p \in Partition |-> {}]
    /\ faults = 0

(***************************************************************************)
(* Logic.                                                                  *)
(***************************************************************************)

Answer(c, code) ==
    answers' = IF open[c] THEN [answers EXCEPT ![c] = Append(@, code)] ELSE answers

NotFound(c) == Answer(c, 404) /\ UNCHANGED <<open, accepted, queue>>
Silent == UNCHANGED <<answers, open, accepted, queue>>

\* Mutant: the result of produce() is not looked at.
RefusedNever == FALSE
Refused == Len(queue) >= QueueMax       \* produce(): queue full

\* sendMessage, and the answer; after 200 the connection is shut down for
\* writing, what the client still sends is read nevertheless.
Produce(c, m) ==
    IF Refused THEN Answer(c, 500) /\ UNCHANGED <<open, accepted, queue>>
    ELSE /\ accepted' = Append(accepted, m)
         /\ queue' = IF Len(queue) < QueueMax THEN Append(queue, m) ELSE queue
         /\ Answer(c, 200)
         /\ open' = [open EXCEPT ![c] = FALSE]

\* onMessage and handleSend.  A request without a whole body, or without a
\* required field, gets no answer at all.
OnMessage(c) ==
    /\ \E n \in 1..Len(left[c]) :
         LET read == SubSeq(left[c], 1, n)
             body == Body(read)
         IN  /\ left' = [left EXCEPT ![c] = SubSeq(@, n + 1, Len(@))]
             /\ IF ~Has(read, "line") THEN NotFound(c)
                ELSE IF ~WholeBody(body) \/ body[1].msg \in Incomplete THEN Silent
                ELSE Produce(c, body[1].msg)
    /\ UNCHANGED <<topic, lost, copies, job, faults>>

Fault == faults < MaxFaults /\ faults' = faults + 1

\* The process dies with what is in its queue: close(), which waits for the
\* queue, runs when main returns, and it never does.
LogicCrash ==
    /\ Fault
    /\ lost' = lost \o queue /\ queue' = <<>>
    /\ left' = [c \in Client |-> <<>>]
    /\ open' = [c \in Client |-> FALSE]
    /\ UNCHANGED <<answers, accepted, topic, copies, job>>

(***************************************************************************)
(* librdkafka and the broker.  PARTITION_UA and no key: any partition.     *)
(***************************************************************************)

Deliver ==
    /\ \E i \in DOMAIN queue, p \in Partition :
         /\ topic' = [topic EXCEPT ![p] = Append(@, queue[i])]
         /\ queue' = RemoveAt(queue, i)
    /\ UNCHANGED <<logic, lost, copies, job, faults>>

\* The acknowledgement was lost: the message stays queued and is sent again.
DeliverTwice ==
    /\ Fault
    /\ \E i \in DOMAIN queue, p \in Partition :
         /\ topic' = [topic EXCEPT ![p] = Append(@, queue[i])]
         /\ copies' = Append(copies, queue[i])
    /\ UNCHANGED <<logic, queue, lost, job>>

\* message.timeout.ms: given up, and nobody is told
GiveUp ==
    /\ Fault
    /\ \E i \in DOMAIN queue :
         lost' = Append(lost, queue[i]) /\ queue' = RemoveAt(queue, i)
    /\ UNCHANGED <<logic, topic, copies, job>>

(***************************************************************************)
(* The consumer of a partition.  enable.auto.commit and the offset store   *)
(* keep their defaults: a record counts as consumed once it is returned.   *)
(***************************************************************************)

\* Mutant: waits until what was returned has been committed.
MayConsumeCommitted(p) == current[p] = <<>> /\ committed[p] = position[p]
MayConsume(p) == current[p] = <<>>

Consume(p) ==
    /\ MayConsume(p) /\ position[p] < Len(topic[p])
    /\ position' = [position EXCEPT ![p] = @ + 1]
    /\ current' = [current EXCEPT ![p] = <<position'[p]>>]
    /\ UNCHANGED <<logic, producer, committed, handled, faults>>

\* The pipeline of JobDispatch, from the dedup check to the release.
Handled(p) ==
    /\ current[p] # <<>>
    /\ handled' = [handled EXCEPT ![p] = @ \cup {current[p][1]}]
    /\ current' = [current EXCEPT ![p] = <<>>]
    /\ UNCHANGED <<logic, producer, position, committed, faults>>

AutoCommit(p) ==
    /\ committed[p] < position[p]
    /\ committed' = [committed EXCEPT ![p] = position[p]]
    /\ UNCHANGED <<logic, producer, position, current, handled, faults>>

\* Mutant: a restart begins at the end of the log.
RestartAtEnd(p) == Len(topic[p])
RestartAt(p) == committed[p]

\* Crash and restart, or a rebalance.
JobCrash(p) ==
    /\ Fault
    /\ position' = [position EXCEPT ![p] = RestartAt(p)]
    /\ current' = [current EXCEPT ![p] = <<>>]
    /\ UNCHANGED <<logic, producer, committed, handled>>

Next ==
    \/ \E c \in Client : OnMessage(c)
    \/ \E p \in Partition : Consume(p) \/ Handled(p) \/ AutoCommit(p) \/ JobCrash(p)
    \/ LogicCrash \/ Deliver \/ DeliverTwice \/ GiveUp

Spec == Init /\ [][Next]_vars

\* The broker takes what is queued, the consumers' loops run.
FairSpec ==
    /\ Spec /\ WF_vars(Deliver)
    /\ \A p \in Partition : WF_vars(Consume(p)) /\ WF_vars(Handled(p))

(***************************************************************************)
(* Properties.                                                             *)
(***************************************************************************)

Times(s, m) == Cardinality({i \in DOMAIN s : s[i] = m})
Records(m) == UNION {{<<p, i>> : i \in {k \in DOMAIN topic[p] : topic[p][k] = m}} : p \in Partition}

\* Every message produce() took is queued, in the topic or lost, once each and
\* once more for every copy: an answer 200 is never given for nothing, and
\* what was refused with 404 or 500 does not turn up in the topic.
Ledger ==
    \A m \in Msg :
        Times(accepted, m) + Times(copies, m)
            = Times(queue, m) + Times(lost, m) + Cardinality(Records(m))

\* A message is accepted only from a request whose body had been read to its
\* end, however the bytes of the connection were cut, and once, as it was
\* posted once.
AcceptedWhole ==
    \A m \in Msg :
        /\ Times(accepted, m) <= 1
        /\ Contains(accepted, m) =>
             \A c \in Client : \A i \in DOMAIN left[c] :
                 left[c][i].msg = m => left[c][i].part \notin {"body", "rest"}

\* A record the consumer has gone past was handled, is being handled, or was
\* committed before its handling ended: only a crash in between skips it.
PassedHandled ==
    \A p \in Partition :
        \A i \in 1..position[p] :
            i \in handled[p] \/ current[p] = <<i>> \/ i <= committed[p]

\* What Logic accepted comes to be handled by a Job process, unless it was
\* lost before it reached the topic, or committed and then skipped in a crash.
AcceptedArrives ==
    \A m \in Msg :
        Contains(accepted, m)
        ~> (Contains(lost, m)
            \/ \E r \in Records(m) : r[2] \in handled[r[1]] \/ r[2] <= committed[r[1]])

=============================================================================
