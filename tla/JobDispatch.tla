---------------------------- MODULE JobDispatch ----------------------------
(***************************************************************************)
(* Dispatch of the messages of the HTTP path, job/main.cc and              *)
(* job/route_service.cc.                                                   *)
(*                                                                         *)
(* The consumer threads of the Job processes take messages from Kafka.     *)
(* For each one a consumer marks a message id, starts the cooldown of the  *)
(* room and takes the lock of the room, all with SET NX EX in Redis; then  *)
(* it looks up the Comet nodes of the room, calls BroadcastRoom on each    *)
(* and releases the lock.  Whatever does not get through is dropped.       *)
(*                                                                         *)
(* Time is counted in the seconds of time(nullptr).  A key set with EX n   *)
(* in second s disappears at some moment of second s + n.                  *)
(***************************************************************************)
EXTENDS Integers, FiniteSets

CONSTANTS
    Process,        \* the Job processes
    Index,          \* the numbers of the consumer threads of a process (0 ... 3)
    Msg,            \* the messages Logic produces
    Room,
    RoomOf,         \* the room of each message
    Comet,          \* the Comet nodes
    Nothing,        \* no message
    DedupTTL,       \* seconds (60)
    CooldownTTL,    \* seconds (1)
    LockTTL,        \* seconds (5)
    Faults,         \* kinds of fault that may happen in this deployment
    MaxFaults,      \* bound: how many faults happen in one behaviour
    MaxTime         \* bound: the last second

FaultKind == {"lost", "reply", "race", "redeliver", "crash"}

ASSUME JobAssumption ==
    /\ RoomOf \in [Msg -> Room]
    /\ Nothing \notin Msg
    /\ DedupTTL \in Nat \ {0} /\ CooldownTTL \in Nat \ {0} /\ LockTTL \in Nat \ {0}
    /\ Faults \subseteq FaultKind
    /\ MaxFaults \in Nat /\ MaxTime \in Nat

\* A consumer thread knows itself by its number only.
Consumer == Process \X Index
Name(c) == c[2]

VARIABLES
    \* Kafka
    topic,          \* messages waiting for a consumer
    \* Redis; a key is a set of at most one value
    seen,           \* msg:processed:...: <<room, second, consumer number, deadline>>
    cooldown,       \* room:cooldown:...: deadlines
    lock,           \* lock:broadcast:...: its value is <<Name(by), at>>
    \* one per consumer
    pc,
    job,            \* the message it works on
    stamp,          \* time(nullptr) as read for the message id, later for the lock value
    targets,        \* the Comet nodes still to call
    \* history
    now,
    lease,          \* whether the lock a consumer acquired is still there
    sent,           \* how often each message was broadcast to each Comet
    passed,         \* the second each room last passed the cooldown check, or -1
    nfaults

redisVars == <<seen, cooldown, lock>>
consumerVars == <<pc, job, stamp, targets>>
historyVars == <<lease, sent, passed>>
vars == <<topic, seen, cooldown, lock, pc, job, stamp, targets, now, lease, sent, passed,
          nfaults>>

Step == {"poll", "dedup", "cooldown", "clock", "lock", "route", "send", "release"}
LockValue == [by : Consumer, at : Nat, until : Nat]

TypeOK ==
    /\ topic \subseteq Msg
    /\ seen \subseteq Room \X Nat \X Index \X Nat
    /\ cooldown \in [Room -> SUBSET Nat]
    /\ lock \in [Room -> SUBSET LockValue]
    /\ pc \in [Consumer -> Step]
    /\ job \in [Consumer -> Msg \cup {Nothing}]
    /\ stamp \in [Consumer -> Nat]
    /\ targets \in [Consumer -> SUBSET Comet]
    /\ now \in Nat
    /\ lease \in [Consumer -> {"none", "held", "lapsed"}]
    /\ sent \in [Msg \X Comet -> Nat]
    /\ passed \in [Room -> Nat \cup {-1}]
    /\ nfaults \in Nat

Init ==
    /\ topic = Msg
    /\ seen = {}
    /\ cooldown = [r \in Room |-> {}]
    /\ lock = [r \in Room |-> {}]
    /\ pc = [c \in Consumer |-> "poll"]
    /\ job = [c \in Consumer |-> Nothing]
    /\ stamp = [c \in Consumer |-> 0]
    /\ targets = [c \in Consumer |-> {}]
    /\ now = 0
    /\ lease = [c \in Consumer |-> "none"]
    /\ sent = [d \in Msg \X Comet |-> 0]
    /\ passed = [r \in Room |-> -1]
    /\ nfaults = 0

-----------------------------------------------------------------------------
(* Faults.  "lost": no connection, or the command is not executed.         *)
(* "reply": it is executed but its reply does not arrive.  "race": two     *)
(* threads of a process use the one redisContext at once: a command may be *)
(* garbled, and the caller may read a reply that was meant for the other.  *)
(* "redeliver": Kafka hands out a message again whose offset was not       *)
(* committed.  "crash": a process dies; it is started again.               *)

NoFault == UNCHANGED nfaults

Fault(kind) ==
    /\ kind \in Faults
    /\ nfaults < MaxFaults
    /\ nfaults' = nfaults + 1

\* Another thread of the process is in a Redis call.
Shared(c) ==
    \E d \in Consumer \ {c} : d[1] = c[1] /\ pc[d] \notin {"poll", "clock", "send"}

\* What SET NX EX does to the key, and what the caller makes of the reply.
Key == {"set", "kept"}
Answer == {"OK", "nil", "error"}

\* SET NX EX by consumer c on a key that holds values: whether the key is set,
\* and what the caller makes of the reply.
SetNX(c, values, key, answer) ==
    LET reached == IF values = {} THEN "set" ELSE "kept"
    IN  \/ NoFault /\ key = reached /\ answer = (IF values = {} THEN "OK" ELSE "nil")
        \/ Fault("lost") /\ key = "kept" /\ answer = "error"
        \/ Fault("reply") /\ key = reached /\ answer = "error"
        \/ Shared(c) /\ Fault("race") /\ key \in {"kept", reached} /\ answer \in Answer

\* The consumer leaves the message, dealt with or dropped, and polls again.
Done(c) ==
    /\ pc' = [pc EXCEPT ![c] = "poll"]
    /\ job' = [job EXCEPT ![c] = Nothing]
    /\ stamp' = [stamp EXCEPT ![c] = 0]
    /\ targets' = [targets EXCEPT ![c] = {}]

\* The consumer goes on with the same message.
Goto(c, step) ==
    /\ pc' = [pc EXCEPT ![c] = step]
    /\ UNCHANGED job

RoomAt(c) == RoomOf[job[c]]

-----------------------------------------------------------------------------
(* One message.                                                            *)

\* The messages have no key, so any partition and any consumer may get them.
\* The message id is the room, the second and the number of the consumer.
Consume(c) ==
    /\ pc[c] = "poll"
    /\ \E m \in topic :
          /\ topic' = topic \ {m}
          /\ job' = [job EXCEPT ![c] = m]
    /\ pc' = [pc EXCEPT ![c] = "dedup"]
    /\ stamp' = [stamp EXCEPT ![c] = now]
    /\ UNCHANGED <<redisVars, targets, now, historyVars, nfaults>>

SameId(c) == {s \in seen : <<s[1], s[2], s[3]>> = <<RoomAt(c), stamp[c], Name(c)>>}

\* CheckAndMarkMessageProcessed.  An error counts as "already processed".
Dedup(c) ==
    /\ pc[c] = "dedup"
    /\ \E key \in Key, answer \in Answer :
          /\ SetNX(c, SameId(c), key, answer)
          /\ seen' = IF key = "kept" THEN seen
                     ELSE seen \cup {<<RoomAt(c), stamp[c], Name(c), now + DedupTTL>>}
          /\ \/ answer = "OK" /\ Goto(c, "cooldown") /\ UNCHANGED <<stamp, targets>>
             \/ answer # "OK" /\ Done(c)
    /\ UNCHANGED <<topic, cooldown, lock, now, historyVars>>

\* Mutant: the cooldown key is read, and set without NX.
CooldownReset(c) ==
    /\ pc[c] = "cooldown"
    /\ NoFault
    /\ cooldown' = [cooldown EXCEPT ![RoomAt(c)] = {now + CooldownTTL}]
    /\ passed' = [passed EXCEPT ![RoomAt(c)] = now]
    /\ Goto(c, "clock")
    /\ UNCHANGED <<topic, seen, lock, stamp, targets, now, lease, sent>>

\* IsRoomInCooldown.  An error counts as "not in cooldown".
Cooldown(c) ==
    /\ pc[c] = "cooldown"
    /\ \E key \in Key, answer \in Answer :
          /\ SetNX(c, cooldown[RoomAt(c)], key, answer)
          /\ cooldown' = IF key = "kept" THEN cooldown
                         ELSE [cooldown EXCEPT ![RoomAt(c)] = {now + CooldownTTL}]
          /\ \/ /\ answer \in {"OK", "error"}
                /\ Goto(c, "clock")
                /\ passed' = [passed EXCEPT ![RoomAt(c)] = now]
                /\ UNCHANGED <<stamp, targets>>
             \/ answer = "nil" /\ Done(c) /\ UNCHANGED passed
    /\ UNCHANGED <<topic, seen, lock, now, lease, sent>>

\* The lock value is the number of the consumer and the second.
ReadClock(c) ==
    /\ pc[c] = "clock"
    /\ Goto(c, "lock")
    /\ stamp' = [stamp EXCEPT ![c] = now]
    /\ UNCHANGED <<topic, redisVars, targets, now, historyVars, nfaults>>

\* Mutant: SET without NX.
AcquireAnyway(c) ==
    /\ pc[c] = "lock"
    /\ NoFault
    /\ lock' = [lock EXCEPT ![RoomAt(c)] =
                   {[by |-> c, at |-> stamp[c], until |-> now + LockTTL]}]
    /\ Goto(c, "route")
    /\ lease' = [lease EXCEPT ![c] = "held"]
    /\ UNCHANGED <<topic, seen, cooldown, stamp, targets, now, sent, passed>>

\* AcquireLock.  A consumer that does not get the lock drops its message.
Acquire(c) ==
    /\ pc[c] = "lock"
    /\ \E key \in Key, answer \in Answer :
          /\ SetNX(c, lock[RoomAt(c)], key, answer)
          /\ lock' = IF key = "kept" THEN lock
                     ELSE [lock EXCEPT ![RoomAt(c)] =
                              {[by |-> c, at |-> stamp[c], until |-> now + LockTTL]}]
          /\ \/ /\ answer = "OK"
                /\ Goto(c, "route")
                /\ lease' = [lease EXCEPT ![c] = "held"]
                /\ UNCHANGED <<stamp, targets>>
             \/ answer # "OK" /\ Done(c) /\ UNCHANGED lease
    /\ UNCHANGED <<topic, seen, cooldown, now, sent, passed>>

\* Mutant: the lock is not released when the grouping fails.
RouteKeepsLock(c) ==
    /\ pc[c] = "route"
    /\ \/ \E nodes \in SUBSET Comet \ {{}} :
             /\ targets' = [targets EXCEPT ![c] = nodes]
             /\ Goto(c, "send")
             /\ UNCHANGED <<stamp, lease>>
       \/ Done(c) /\ lease' = [lease EXCEPT ![c] = "none"]
    /\ NoFault
    /\ UNCHANGED <<topic, redisVars, now, sent, passed>>

\* GetRoomConnections and GroupConnectionsByComet: the nodes found.  No answer,
\* no connection in the room or none with a node: only the lock is released.
Route(c) ==
    /\ pc[c] = "route"
    /\ \/ \E nodes \in SUBSET Comet \ {{}} :
             /\ targets' = [targets EXCEPT ![c] = nodes]
             /\ Goto(c, "send")
       \/ Goto(c, "release") /\ UNCHANGED targets
    /\ NoFault
    /\ UNCHANGED <<topic, redisVars, stamp, now, historyVars>>

\* Mutant: a node whose answer is lost is called again.
BroadcastRetried(c, k) ==
    /\ pc[c] = "send"
    /\ k \in targets[c]
    /\ sent' = [sent EXCEPT ![<<job[c], k>>] = @ + 1]
    /\ \/ /\ targets' = [targets EXCEPT ![c] = @ \ {k}]
          /\ Goto(c, IF targets[c] = {k} THEN "release" ELSE "send")
       \/ UNCHANGED <<targets, pc, job>>
    /\ UNCHANGED <<topic, redisVars, stamp, now, lease, passed, nfaults>>

\* broadcastToComet for one of the nodes.  The call has no deadline; a failure
\* is only counted.
Broadcast(c, k) ==
    /\ pc[c] = "send"
    /\ k \in targets[c]
    /\ \/ sent' = [sent EXCEPT ![<<job[c], k>>] = @ + 1]
       \/ UNCHANGED sent
    /\ targets' = [targets EXCEPT ![c] = @ \ {k}]
    /\ Goto(c, IF targets[c] = {k} THEN "release" ELSE "send")
    /\ UNCHANGED <<topic, redisVars, stamp, now, lease, passed, nfaults>>

\* The value a consumer wrote is what it compares with.
Mine(c) == {l \in lock[RoomAt(c)] : <<Name(l.by), l.at>> = <<Name(c), stamp[c]>>}

\* Mutant: the lock is deleted whoever holds it.
ReleaseAny(c) ==
    /\ pc[c] = "release"
    /\ NoFault
    /\ lock' = [lock EXCEPT ![RoomAt(c)] = {}]
    /\ lease' = [lease EXCEPT ![c] = "none"]
    /\ Done(c)
    /\ UNCHANGED <<topic, seen, cooldown, now, sent, passed>>

\* ReleaseLock: a script deletes the lock if it has the value of the caller.
\* The result is not looked at.
Release(c) ==
    /\ pc[c] = "release"
    /\ \/ NoFault /\ lock' = [lock EXCEPT ![RoomAt(c)] = @ \ Mine(c)]
       \/ Fault("lost") /\ UNCHANGED lock
    /\ lease' = [lease EXCEPT ![c] = "none"]
    /\ Done(c)
    /\ UNCHANGED <<topic, seen, cooldown, now, sent, passed>>

-----------------------------------------------------------------------------
(* Kafka, the processes and time.                                          *)

\* Offsets are committed automatically, some seconds after consume() returned.
Redeliver(m) ==
    /\ m \notin topic
    /\ Fault("redeliver")
    /\ topic' = topic \cup {m}
    /\ UNCHANGED <<redisVars, consumerVars, now, historyVars>>

\* All threads of the process lose what they were doing.
Crash(p) ==
    /\ \E c \in Consumer : c[1] = p /\ pc[c] # "poll"
    /\ Fault("crash")
    /\ pc' = [c \in Consumer |-> IF c[1] = p THEN "poll" ELSE pc[c]]
    /\ job' = [c \in Consumer |-> IF c[1] = p THEN Nothing ELSE job[c]]
    /\ stamp' = [c \in Consumer |-> IF c[1] = p THEN 0 ELSE stamp[c]]
    /\ targets' = [c \in Consumer |-> IF c[1] = p THEN {} ELSE targets[c]]
    /\ lease' = [c \in Consumer |-> IF c[1] = p THEN "none" ELSE lease[c]]
    /\ UNCHANGED <<topic, redisVars, now, sent, passed>>

\* Redis drops the keys whose time has come.
ExpireSeen ==
    /\ \E s \in seen : s[4] <= now /\ seen' = seen \ {s}
    /\ UNCHANGED <<topic, cooldown, lock, consumerVars, now, historyVars, nfaults>>

ExpireCooldown(r) ==
    /\ \E d \in cooldown[r] : d <= now
    /\ cooldown' = [cooldown EXCEPT ![r] = {}]
    /\ UNCHANGED <<topic, seen, lock, consumerVars, now, historyVars, nfaults>>

ExpireLock(r) ==
    /\ \E l \in lock[r] : l.until <= now
    /\ lock' = [lock EXCEPT ![r] = {}]
    /\ lease' = [c \in Consumer |->
          IF lease[c] = "held" /\ RoomAt(c) = r THEN "lapsed" ELSE lease[c]]
    /\ UNCHANGED <<topic, seen, cooldown, consumerVars, now, sent, passed, nfaults>>

\* The next second: the keys due in this one are gone.
Tick ==
    /\ now < MaxTime
    /\ \A s \in seen : s[4] > now
    /\ \A r \in Room : (\A d \in cooldown[r] : d > now) /\ (\A l \in lock[r] : l.until > now)
    /\ now' = now + 1
    /\ UNCHANGED <<topic, redisVars, consumerVars, lease, sent, passed, nfaults>>

Next ==
    \/ \E c \in Consumer :
          \/ Consume(c)
          \/ Dedup(c)
          \/ Cooldown(c)
          \/ ReadClock(c)
          \/ Acquire(c)
          \/ Route(c)
          \/ \E k \in Comet : Broadcast(c, k)
          \/ Release(c)
    \/ \E m \in Msg : Redeliver(m)
    \/ \E p \in Process : Crash(p)
    \/ ExpireSeen
    \/ \E r \in Room : ExpireCooldown(r) \/ ExpireLock(r)
    \/ Tick

Spec == Init /\ [][Next]_vars

-----------------------------------------------------------------------------
(* Properties.                                                             *)

\* The consumers that have taken a lock and not given it back yet.
Critical(c) == pc[c] \in {"route", "send", "release"}

\* Each consumer number occurs in one process only.
OneProcess == \A c, d \in Consumer : Name(c) = Name(d) => c = d

\* A consumer that is not polling has a message.
Working == \A c \in Consumer : pc[c] # "poll" => job[c] \in Msg

\* A lock has one value; a consumer whose lease runs is its owner, and leases
\* are what the consumers in the critical part have.
Leased ==
    /\ \A r \in Room : \A l, m \in lock[r] : l = m
    /\ \A c \in Consumer : Critical(c) <=> lease[c] # "none"
    /\ \A c \in Consumer : lease[c] = "held" => \E l \in lock[RoomAt(c)] : l.by = c

\* The inductive invariant: it implies Exclusive (job/main.cc:151-213).
LeaseInv == Working /\ Leased

\* Two consumers broadcast to one room at once only after the lock of one of
\* them has run out (job/main.cc:151-213).
Exclusive ==
    \A c, d \in Consumer :
        c # d /\ lease[c] = "held" /\ lease[d] = "held" => RoomAt(c) # RoomAt(d)

\* A consumer that comes late, after its lock has run out, does not delete the
\* lock another consumer has taken since (route_service.cc:284-311).
ReleaseOwn ==
    [][\A c \in Consumer : Release(c) =>
          \A r \in Room : \A l \in lock[r] \ lock'[r] : l.by = c]_vars

\* A message goes to a Comet node once, and once more for each time Kafka
\* delivers it again: whatever else fails, no path through the loop handles it
\* twice (job/main.cc:116-220).
SentOnce == \A m \in Msg, k \in Comet : sent[<<m, k>>] <= 1 + nfaults

\* As long as Redis and the processes work, every path through the loop gives
\* its lock back, whatever the look-ups and the broadcasts return
\* (job/main.cc:163-213).
LockReturned ==
    nfaults = 0 => \A r \in Room : \A l \in lock[r] : Critical(l.by) /\ RoomAt(l.by) = r

\* As long as Redis works, a room passes the cooldown check once in CooldownTTL
\* seconds, whichever consumers ask (route_service.cc:347-377).
CooldownSpacing ==
    [][\A c \in Consumer :
          pc[c] = "cooldown" /\ pc'[c] = "clock" /\ nfaults' = 0 =>
              passed[RoomAt(c)] = -1 \/ passed[RoomAt(c)] + CooldownTTL <= now]_vars

\* What main.cc:131 says of the message id: it is unique to the message.
\* So without a redelivery, or any other fault, no message is dropped there.
NoFalseDuplicate ==
    [][\A c \in Consumer : pc[c] = "dedup" /\ nfaults' = 0 => pc'[c] # "poll"]_vars

=============================================================================
