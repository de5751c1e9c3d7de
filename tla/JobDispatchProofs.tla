------------------------- MODULE JobDispatchProofs -------------------------
(***************************************************************************)
(* Proofs about JobDispatch, for any number of consumers, messages, rooms, *)
(* Comet nodes and faults, and for any times to live: one Job process      *)
(* whose threads do not confuse each other's replies keeps the lock of a   *)
(* room exclusive until it runs out, and never releases the lock of        *)
(* another consumer. Locks come back and cooldowns keep their distance as  *)
(* long as nothing fails, and a message is broadcast once per Comet node   *)
(* and once more for each fault at most.                                   *)
(***************************************************************************)
EXTENDS JobDispatch, FiniteSetTheorems, TLAPS

\* The deployment the proofs are about.
Deployment == OneProcess /\ "race" \notin Faults

-----------------------------------------------------------------------------
(* What the parts of a step do.                                            *)

\* A consumer goes on or leaves its message: only its own state changes.
LEMMA OwnState ==
    ASSUME TypeOK, NEW c \in Consumer, NEW step \in Step
    PROVE  /\ Goto(c, step) =>
                 /\ pc' \in [Consumer -> Step] /\ pc'[c] = step /\ job' = job
                 /\ \A d \in Consumer \ {c} : pc'[d] = pc[d]
           /\ Done(c) =>
                 /\ pc' \in [Consumer -> Step] /\ pc'[c] = "poll"
                 /\ job' \in [Consumer -> Msg \cup {Nothing}]
                 /\ stamp' \in [Consumer -> Nat]
                 /\ targets' \in [Consumer -> SUBSET Comet]
                 /\ \A d \in Consumer \ {c} : pc'[d] = pc[d] /\ job'[d] = job[d]
BY DEF TypeOK, Goto, Done, Step

\* SET NX answers OK to nobody who has not set the key.
LEMMA SetNXSound ==
    ASSUME "race" \notin Faults, nfaults \in Nat,
           NEW c, NEW values, NEW key, NEW answer, SetNX(c, values, key, answer)
    PROVE  /\ answer = "OK" => key = "set"
           /\ key # "kept" => values = {}
           /\ nfaults' \in Nat
BY DEF SetNX, Fault, NoFault

-----------------------------------------------------------------------------
(* Types.                                                                  *)

\* The room of a message in work.
LEMMA RoomOfJob ==
    ASSUME Working, NEW c \in Consumer, pc[c] # "poll"
    PROVE  job[c] \in Msg /\ RoomAt(c) \in Room
BY JobAssumption DEF Working, JobAssumption, RoomAt

\* A fault is one more.
LEMMA FaultCount ==
    ASSUME nfaults \in Nat, NEW kind, Fault(kind) \/ NoFault
    PROVE  nfaults' \in Nat
BY DEF Fault, NoFault

\* However SET NX ends, the count of faults stays a number.
LEMMA SetNXCount ==
    ASSUME nfaults \in Nat, NEW c, NEW values, NEW key, NEW answer, SetNX(c, values, key, answer)
    PROVE  nfaults' \in Nat
BY DEF SetNX, Fault, NoFault

\* Taking a message keeps the types.
LEMMA ConsumeType ==
    ASSUME TypeOK, Working, NEW c \in Consumer, Consume(c)
    PROVE  TypeOK' /\ Working'
BY DEF TypeOK, Working, Consume, Step, redisVars, historyVars

\* Marking the message id keeps the types.
LEMMA DedupType ==
    ASSUME TypeOK, Working, NEW c \in Consumer, Dedup(c)
    PROVE  TypeOK' /\ Working'
<1>1. PICK key \in Key, answer \in Answer :
          /\ SetNX(c, SameId(c), key, answer)
          /\ seen' = IF key = "kept" THEN seen
                     ELSE seen \cup {<<RoomAt(c), stamp[c], Name(c), now + DedupTTL>>}
          /\ \/ answer = "OK" /\ Goto(c, "cooldown") /\ UNCHANGED <<stamp, targets>>
             \/ answer # "OK" /\ Done(c)
    BY DEF Dedup
<1>2. pc[c] = "dedup" /\ UNCHANGED <<topic, cooldown, lock, now, lease, sent, passed>>
    BY DEF Dedup, historyVars
<1>3. nfaults' \in Nat
    BY <1>1, SetNXCount DEF TypeOK
<1>4. seen' \subseteq Room \X Nat \X Index \X Nat
  <2>1. RoomAt(c) \in Room
      BY <1>2, RoomOfJob
  <2>2. stamp[c] \in Nat /\ Name(c) \in Index /\ now + DedupTTL \in Nat
      BY JobAssumption DEF TypeOK, Name, Consumer, JobAssumption
  <2> QED BY <2>1, <2>2, <1>1 DEF TypeOK
<1>5. CASE Goto(c, "cooldown") /\ UNCHANGED <<stamp, targets>>
    BY <1>2, <1>3, <1>4, <1>5, OwnState DEF TypeOK, Working, Step
<1>6. CASE Done(c)
    BY <1>2, <1>3, <1>4, <1>6, OwnState DEF TypeOK, Working
<1> QED BY <1>1, <1>5, <1>6

\* The cooldown check keeps the types.
LEMMA CooldownType ==
    ASSUME TypeOK, Working, NEW c \in Consumer, Cooldown(c)
    PROVE  TypeOK' /\ Working'
<1>1. PICK key \in Key, answer \in Answer :
          /\ SetNX(c, cooldown[RoomAt(c)], key, answer)
          /\ cooldown' = IF key = "kept" THEN cooldown
                         ELSE [cooldown EXCEPT ![RoomAt(c)] = {now + CooldownTTL}]
          /\ \/ /\ answer \in {"OK", "error"}
                /\ Goto(c, "clock")
                /\ passed' = [passed EXCEPT ![RoomAt(c)] = now]
                /\ UNCHANGED <<stamp, targets>>
             \/ answer = "nil" /\ Done(c) /\ UNCHANGED passed
    BY DEF Cooldown
<1>2. pc[c] = "cooldown" /\ UNCHANGED <<topic, seen, lock, now, lease, sent>>
    BY DEF Cooldown
<1>3. nfaults' \in Nat
    BY <1>1, SetNXCount DEF TypeOK
<1>4. cooldown' \in [Room -> SUBSET Nat]
  <2>1. now + CooldownTTL \in Nat
      BY JobAssumption DEF TypeOK, JobAssumption
  <2> QED BY <2>1, <1>1 DEF TypeOK
<1>5. passed' \in [Room -> Nat \cup {-1}]
    BY <1>1 DEF TypeOK
<1>6. CASE Goto(c, "clock") /\ UNCHANGED <<stamp, targets>>
    BY <1>2, <1>3, <1>4, <1>5, <1>6, OwnState DEF TypeOK, Working, Step
<1>7. CASE Done(c)
    BY <1>2, <1>3, <1>4, <1>5, <1>7, OwnState DEF TypeOK, Working
<1> QED BY <1>1, <1>6, <1>7

\* Building the lock value keeps the types.
LEMMA ReadClockType ==
    ASSUME TypeOK, Working, NEW c \in Consumer, ReadClock(c)
    PROVE  TypeOK' /\ Working'
<1>1. Goto(c, "lock") /\ stamp' \in [Consumer -> Nat] /\ pc[c] = "clock"
      /\ UNCHANGED <<topic, seen, cooldown, lock, targets, now, lease, sent, passed, nfaults>>
    BY DEF ReadClock, TypeOK, redisVars, historyVars
<1> QED BY <1>1, OwnState DEF TypeOK, Working, Step

\* Taking the lock keeps the types.
LEMMA AcquireType ==
    ASSUME TypeOK, Working, NEW c \in Consumer, Acquire(c)
    PROVE  TypeOK' /\ Working'
<1>1. PICK key \in Key, answer \in Answer :
          /\ SetNX(c, lock[RoomAt(c)], key, answer)
          /\ lock' = IF key = "kept" THEN lock
                     ELSE [lock EXCEPT ![RoomAt(c)] =
                              {[by |-> c, at |-> stamp[c], until |-> now + LockTTL]}]
          /\ \/ /\ answer = "OK"
                /\ Goto(c, "route")
                /\ lease' = [lease EXCEPT ![c] = "held"]
                /\ UNCHANGED <<stamp, targets>>
             \/ answer # "OK" /\ Done(c) /\ UNCHANGED lease
    BY DEF Acquire
<1>2. pc[c] = "lock" /\ UNCHANGED <<topic, seen, cooldown, now, sent, passed>>
    BY DEF Acquire
<1>3. nfaults' \in Nat
    BY <1>1, SetNXCount DEF TypeOK
<1>4. lock' \in [Room -> SUBSET LockValue]
  <2>1. [by |-> c, at |-> stamp[c], until |-> now + LockTTL] \in LockValue
      BY JobAssumption DEF TypeOK, JobAssumption, LockValue
  <2> QED BY <2>1, <1>1 DEF TypeOK
<1>5. lease' \in [Consumer -> {"none", "held", "lapsed"}]
    BY <1>1 DEF TypeOK
<1>6. CASE Goto(c, "route") /\ UNCHANGED <<stamp, targets>>
    BY <1>2, <1>3, <1>4, <1>5, <1>6, OwnState DEF TypeOK, Working, Step
<1>7. CASE Done(c)
    BY <1>2, <1>3, <1>4, <1>5, <1>7, OwnState DEF TypeOK, Working
<1> QED BY <1>1, <1>6, <1>7

\* The look-ups keep the types.
LEMMA RouteType ==
    ASSUME TypeOK, Working, NEW c \in Consumer, Route(c)
    PROVE  TypeOK' /\ Working'
<1>1. /\ Goto(c, "send") \/ Goto(c, "release")
      /\ targets' \in [Consumer -> SUBSET Comet] /\ pc[c] = "route"
      /\ UNCHANGED <<topic, seen, cooldown, lock, stamp, now, lease, sent, passed, nfaults>>
    BY DEF Route, TypeOK, redisVars, historyVars, NoFault
<1> QED BY <1>1, OwnState DEF TypeOK, Working, Step

\* A call of BroadcastRoom keeps the types.
LEMMA BroadcastType ==
    ASSUME TypeOK, Working, NEW c \in Consumer, NEW k \in Comet, Broadcast(c, k)
    PROVE  TypeOK' /\ Working'
<1>1. pc[c] = "send" /\ Goto(c, IF targets[c] = {k} THEN "release" ELSE "send")
      /\ UNCHANGED <<topic, seen, cooldown, lock, stamp, now, lease, passed, nfaults>>
    BY DEF Broadcast, redisVars
<1>2. Goto(c, "send") \/ Goto(c, "release")
    BY <1>1
<1>3. targets' \in [Consumer -> SUBSET Comet]
    BY DEF Broadcast, TypeOK
<1>4. job[c] \in Msg
    BY <1>1, RoomOfJob
<1>5. sent' \in [Msg \X Comet -> Nat]
  <2> DEFINE d == <<job[c], k>>
  <2>1. d \in Msg \X Comet
      BY <1>4
  <2>2. sent' = [sent EXCEPT ![d] = sent[d] + 1] \/ sent' = sent
      BY DEF Broadcast
  <2> HIDE DEF d
  <2> QED BY <1>4, <2>1, <2>2 DEF TypeOK
<1> QED BY <1>1, <1>2, <1>3, <1>5, OwnState DEF TypeOK, Working, Step

\* Giving the lock back keeps the types.
LEMMA ReleaseType ==
    ASSUME TypeOK, Working, NEW c \in Consumer, Release(c)
    PROVE  TypeOK' /\ Working'
<1>1. /\ Done(c)
      /\ lease' \in [Consumer -> {"none", "held", "lapsed"}]
      /\ UNCHANGED <<topic, seen, cooldown, now, sent, passed>>
    BY DEF Release, TypeOK
<1>2. lock' \in [Room -> SUBSET LockValue]
    BY DEF Release, TypeOK
<1>3. nfaults' \in Nat
    BY FaultCount DEF Release, TypeOK
<1> QED BY <1>1, <1>2, <1>3, OwnState DEF TypeOK, Working

\* The death of a process keeps the types.
LEMMA CrashType ==
    ASSUME TypeOK, Working, NEW p \in Process, Crash(p)
    PROVE  TypeOK' /\ Working'
<1>1. nfaults' \in Nat
    BY FaultCount DEF Crash, TypeOK
<1>2. /\ pc' \in [Consumer -> Step]
      /\ job' \in [Consumer -> Msg \cup {Nothing}]
      /\ stamp' \in [Consumer -> Nat]
      /\ targets' \in [Consumer -> SUBSET Comet]
      /\ lease' \in [Consumer -> {"none", "held", "lapsed"}]
    BY DEF Crash, TypeOK, Step
<1>3. UNCHANGED <<topic, seen, cooldown, lock, now, sent, passed>>
    BY DEF Crash, redisVars
<1>4. Working'
    BY DEF Crash, TypeOK, Working
<1> QED BY <1>1, <1>2, <1>3, <1>4 DEF TypeOK

\* Redeliveries, expired keys and the clock keep the types.
LEMMA EnvironmentType ==
    ASSUME TypeOK, Working,
           \/ \E m \in Msg : Redeliver(m)
           \/ ExpireSeen
           \/ \E r \in Room : ExpireCooldown(r)
           \/ \E r \in Room : ExpireLock(r)
           \/ Tick
    PROVE  TypeOK' /\ Working'
<1>1. ASSUME NEW m \in Msg, Redeliver(m) PROVE TypeOK' /\ Working'
  <2>1. nfaults' \in Nat
      BY <1>1, FaultCount DEF Redeliver, TypeOK
  <2> QED BY <1>1, <2>1 DEF Redeliver, TypeOK, Working, redisVars, consumerVars, historyVars
<1>2. CASE ExpireSeen
    BY <1>2 DEF ExpireSeen, TypeOK, Working, consumerVars, historyVars
<1>3. ASSUME NEW r \in Room, ExpireCooldown(r) PROVE TypeOK' /\ Working'
    BY <1>3 DEF ExpireCooldown, TypeOK, Working, consumerVars, historyVars
<1>4. ASSUME NEW r \in Room, ExpireLock(r) PROVE TypeOK' /\ Working'
    BY <1>4 DEF ExpireLock, TypeOK, Working, consumerVars
<1>5. CASE Tick
    BY <1>5 DEF Tick, TypeOK, Working, redisVars, consumerVars
<1> QED BY <1>1, <1>2, <1>3, <1>4, <1>5

\* Every step keeps the types.
LEMMA TypeStep == TypeOK /\ Working /\ [Next]_vars => TypeOK' /\ Working'
<1> SUFFICES ASSUME TypeOK, Working, [Next]_vars PROVE TypeOK' /\ Working'
    OBVIOUS
<1>1. CASE UNCHANGED vars
    BY <1>1 DEF vars, TypeOK, Working
<1>2. ASSUME NEW c \in Consumer,
             \/ Consume(c) \/ Dedup(c) \/ Cooldown(c) \/ ReadClock(c) \/ Acquire(c)
             \/ Route(c) \/ (\E k \in Comet : Broadcast(c, k)) \/ Release(c)
      PROVE  TypeOK' /\ Working'
    BY <1>2, ConsumeType, DedupType, CooldownType, ReadClockType, AcquireType, RouteType,
       BroadcastType, ReleaseType
<1>3. ASSUME NEW p \in Process, Crash(p) PROVE TypeOK' /\ Working'
    BY <1>3, CrashType
<1> QED BY <1>1, <1>2, <1>3, EnvironmentType DEF Next

\* All consumers start polling, with the types right.
LEMMA InitType == Init => TypeOK /\ Working
BY JobAssumption DEF Init, TypeOK, Working, Step, JobAssumption

-----------------------------------------------------------------------------
(* The lock.                                                               *)

\* A consumer outside the critical part that stays outside of it.
LEMMA Outside ==
    ASSUME TypeOK, Leased, NEW c \in Consumer, ~Critical(c),
           lock' = lock, lease' = lease,
           pc'[c] \notin {"route", "send", "release"},
           \A d \in Consumer \ {c} : pc'[d] = pc[d] /\ job'[d] = job[d]
    PROVE  Leased'
<1>1. lease[c] = "none"
    BY DEF Leased
<1>2. \A d \in Consumer : Critical(d)' <=> Critical(d)
    BY DEF Critical
<1>3. ASSUME NEW d \in Consumer, lease'[d] = "held"
      PROVE  \E l \in lock'[RoomAt(d)'] : l.by = d
  <2>1. d # c
      BY <1>1, <1>3
  <2>2. RoomAt(d)' = RoomAt(d)
      BY <2>1 DEF RoomAt
  <2> QED BY <1>3, <2>2 DEF Leased
<1> QED BY <1>2, <1>3 DEF Leased

\* A consumer inside the critical part that goes on with its message.
LEMMA Inside ==
    ASSUME TypeOK, Leased, NEW c \in Consumer, Critical(c),
           lock' = lock, lease' = lease, job' = job,
           pc'[c] \in {"route", "send", "release"},
           \A d \in Consumer \ {c} : pc'[d] = pc[d]
    PROVE  Leased'
<1>1. \A d \in Consumer : Critical(d)' <=> Critical(d)
    BY DEF Critical
<1> QED BY <1>1 DEF Leased, RoomAt

\* A consumer that finds the key of the lock free is alone with its lease.
LEMMA AcquireLeased ==
    ASSUME TypeOK, Working, Leased, "race" \notin Faults,
           NEW c \in Consumer, Acquire(c)
    PROVE  Leased'
<1>1. PICK key \in Key, answer \in Answer :
          /\ SetNX(c, lock[RoomAt(c)], key, answer)
          /\ lock' = IF key = "kept" THEN lock
                     ELSE [lock EXCEPT ![RoomAt(c)] =
                              {[by |-> c, at |-> stamp[c], until |-> now + LockTTL]}]
          /\ \/ /\ answer = "OK"
                /\ Goto(c, "route")
                /\ lease' = [lease EXCEPT ![c] = "held"]
             \/ answer # "OK" /\ Done(c) /\ UNCHANGED lease
    BY DEF Acquire
<1> DEFINE r == RoomAt(c)
           v == [by |-> c, at |-> stamp[c], until |-> now + LockTTL]
<1>2. pc[c] = "lock" /\ r \in Room /\ job[c] \in Msg
    BY RoomOfJob DEF Acquire
<1>3. lease[c] = "none"
    BY <1>2 DEF Leased, Critical
<1>4. (answer = "OK" => key = "set") /\ (key # "kept" => lock[r] = {})
    BY <1>1, SetNXSound DEF TypeOK
<1>5. \/ lock' = lock
      \/ lock[r] = {} /\ lock'[r] = {v} /\ \A q \in Room \ {r} : lock'[q] = lock[q]
    BY <1>1, <1>2, <1>4 DEF TypeOK
<1>6. \A q \in Room : \A l, m \in lock'[q] : l = m
    BY <1>5 DEF Leased
<1>7. ASSUME NEW d \in Consumer \ {c}, lease[d] = "held"
      PROVE  \E l \in lock'[RoomAt(d)] : l.by = d
  <2>1. RoomAt(d) \in Room
      BY <1>7, RoomOfJob DEF Leased, Critical
  <2>2. \E l \in lock[RoomAt(d)] : l.by = d
      BY <1>7 DEF Leased
  <2>3. lock'[RoomAt(d)] = lock[RoomAt(d)]
      BY <2>1, <2>2, <1>5
  <2> QED BY <2>2, <2>3
<1>8. CASE answer = "OK"
  <2>1. /\ pc'[c] = "route" /\ job' = job /\ \A d \in Consumer \ {c} : pc'[d] = pc[d]
        /\ lease'[c] = "held" /\ \A d \in Consumer \ {c} : lease'[d] = lease[d]
      BY <1>1, <1>8, OwnState DEF Step, TypeOK
  <2>2. lock'[r] = {v} /\ v.by = c
      BY <1>1, <1>2, <1>4, <1>8 DEF TypeOK
  <2>3. \A d \in Consumer : RoomAt(d)' = RoomAt(d)
      BY <2>1 DEF RoomAt
  <2>4. \A d \in Consumer : Critical(d)' <=> lease'[d] # "none"
      BY <2>1 DEF Leased, Critical
  <2>5. ASSUME NEW d \in Consumer, lease'[d] = "held"
        PROVE  \E l \in lock'[RoomAt(d)] : l.by = d
    <3>1. CASE d = c
        BY <3>1, <2>2
    <3>2. CASE d # c
        BY <3>2, <2>1, <2>5, <1>7
    <3> QED BY <3>1, <3>2
  <2> QED BY <1>6, <2>3, <2>4, <2>5 DEF Leased
<1>9. CASE Done(c) /\ lease' = lease
  <2>1. pc'[c] = "poll" /\ \A d \in Consumer \ {c} : pc'[d] = pc[d] /\ job'[d] = job[d]
      BY <1>9, OwnState DEF Step
  <2>2. \A d \in Consumer : Critical(d)' <=> lease'[d] # "none"
      BY <2>1, <1>2, <1>9 DEF Leased, Critical
  <2>3. ASSUME NEW d \in Consumer, lease'[d] = "held"
        PROVE  \E l \in lock'[RoomAt(d)'] : l.by = d
    <3>1. d # c
        BY <1>3, <1>9, <2>3
    <3>2. RoomAt(d)' = RoomAt(d)
        BY <3>1, <2>1 DEF RoomAt
    <3> QED BY <3>1, <3>2, <1>7, <1>9, <2>3
  <2> QED BY <1>6, <2>2, <2>3 DEF Leased
<1> QED BY <1>1, <1>8, <1>9

\* The value of a lock tells its owner from all other threads of the process,
\* so that a release takes no lock but the caller's.
LEMMA ReleaseTakesOwn ==
    ASSUME TypeOK, Working, OneProcess, NEW c \in Consumer, Release(c)
    PROVE  /\ RoomAt(c) \in Room
           /\ \A r \in Room : lock'[r] \subseteq lock[r]
           /\ \A r \in Room : \A l \in lock[r] \ lock'[r] : l.by = c
<1>1. pc[c] = "release" /\ RoomAt(c) \in Room
    BY RoomOfJob DEF Release
<1>2. CASE lock' = [lock EXCEPT ![RoomAt(c)] = @ \ Mine(c)]
  <2>1. \A l \in lock[RoomAt(c)] : l.by \in Consumer
      BY <1>1 DEF TypeOK, LockValue
  <2>2. \A l \in Mine(c) : l.by = c
      BY <2>1 DEF Mine, OneProcess
  <2>3. /\ lock'[RoomAt(c)] = lock[RoomAt(c)] \ Mine(c)
        /\ \A r \in Room : r # RoomAt(c) => lock'[r] = lock[r]
      BY <1>1, <1>2 DEF TypeOK
  <2> QED BY <1>1, <2>2, <2>3
<1>3. CASE lock' = lock
    BY <1>1, <1>3
<1> QED BY <1>2, <1>3 DEF Release

\* A consumer that gives its lock back takes no other consumer's lease.
LEMMA ReleaseLeased ==
    ASSUME TypeOK, Working, Leased, OneProcess, NEW c \in Consumer, Release(c)
    PROVE  Leased'
<1>1. /\ pc'[c] = "poll" /\ \A d \in Consumer \ {c} : pc'[d] = pc[d] /\ job'[d] = job[d]
    BY OwnState DEF Release, Step
<1>2. lease'[c] = "none" /\ \A d \in Consumer \ {c} : lease'[d] = lease[d]
    BY DEF Release, TypeOK
<1>3. /\ \A r \in Room : lock'[r] \subseteq lock[r]
      /\ \A r \in Room : \A l \in lock[r] \ lock'[r] : l.by = c
    BY ReleaseTakesOwn
<1>4. \A r \in Room : \A l, m \in lock'[r] : l = m
    BY <1>3 DEF Leased
<1>5. \A d \in Consumer : Critical(d)' <=> lease'[d] # "none"
    BY <1>1, <1>2 DEF Leased, Critical
<1>6. ASSUME NEW d \in Consumer, lease'[d] = "held"
      PROVE  \E l \in lock'[RoomAt(d)'] : l.by = d
  <2>1. d # c /\ lease[d] = "held"
      BY <1>2, <1>6
  <2>2. RoomAt(d)' = RoomAt(d)
      BY <2>1, <1>1 DEF RoomAt
  <2>3. RoomAt(d) \in Room
      BY <2>1, RoomOfJob DEF Leased, Critical
  <2>4. PICK l \in lock[RoomAt(d)] : l.by = d
      BY <2>1 DEF Leased
  <2>5. l \in lock'[RoomAt(d)]
      BY <2>1, <2>3, <2>4, <1>3
  <2> QED BY <2>2, <2>4, <2>5
<1> QED BY <1>4, <1>5, <1>6 DEF Leased

\* A process that dies leaves its locks behind, without an owner's lease.
LEMMA CrashLeased ==
    ASSUME TypeOK, Working, Leased, NEW p \in Process, Crash(p)
    PROVE  Leased'
<1>1. \A d \in Consumer : IF d[1] = p THEN pc'[d] = "poll" /\ lease'[d] = "none"
                          ELSE pc'[d] = pc[d] /\ lease'[d] = lease[d] /\ job'[d] = job[d]
    BY DEF Crash
<1>2. lock' = lock
    BY DEF Crash, redisVars
<1>3. \A d \in Consumer : Critical(d)' <=> lease'[d] # "none"
    BY <1>1 DEF Leased, Critical
<1>4. ASSUME NEW d \in Consumer, lease'[d] = "held"
      PROVE  \E l \in lock'[RoomAt(d)'] : l.by = d
  <2>1. lease[d] = "held" /\ RoomAt(d)' = RoomAt(d)
      BY <1>1, <1>4 DEF RoomAt
  <2> QED BY <2>1, <1>2 DEF Leased
<1> QED BY <1>2, <1>3, <1>4 DEF Leased

\* A lock that runs out ends the lease on it, and no other.
LEMMA ExpireLeased ==
    ASSUME TypeOK, Working, Leased, NEW r \in Room, ExpireLock(r)
    PROVE  Leased'
<1>1. pc' = pc /\ job' = job
    BY DEF ExpireLock, consumerVars
<1>2. lock'[r] = {} /\ \A q \in Room \ {r} : lock'[q] = lock[q]
    BY DEF ExpireLock, TypeOK
<1>3. \A d \in Consumer : lease'[d] =
          IF lease[d] = "held" /\ RoomAt(d) = r THEN "lapsed" ELSE lease[d]
    BY DEF ExpireLock
<1>4. \A q \in Room : \A l, m \in lock'[q] : l = m
    BY <1>2 DEF Leased
<1>5. \A d \in Consumer : Critical(d)' <=> lease'[d] # "none"
    BY <1>1, <1>3 DEF Leased, Critical
<1>6. ASSUME NEW d \in Consumer, lease'[d] = "held"
      PROVE  \E l \in lock'[RoomAt(d)'] : l.by = d
  <2>1. lease[d] = "held" /\ RoomAt(d) # r /\ RoomAt(d)' = RoomAt(d)
      BY <1>1, <1>3, <1>6 DEF RoomAt
  <2>2. RoomAt(d) \in Room
      BY <2>1, RoomOfJob DEF Leased, Critical
  <2> QED BY <2>1, <2>2, <1>2 DEF Leased
<1> QED BY <1>4, <1>5, <1>6 DEF Leased

\* Every step keeps the leases, in one process whose threads do not race.
LEMMA LeaseStep ==
    ASSUME Deployment, TypeOK, LeaseInv, [Next]_vars
    PROVE  Leased'
<1> USE DEF Deployment, LeaseInv
<1>1. ASSUME lock' = lock, lease' = lease, pc' = pc, job' = job
      PROVE  Leased'
    BY <1>1 DEF Leased, Critical, RoomAt
<1>2. CASE UNCHANGED vars
    BY <1>1, <1>2 DEF vars
<1>3. ASSUME NEW c \in Consumer, Consume(c) PROVE Leased'
  <2>1. /\ lock' = lock /\ lease' = lease /\ ~Critical(c) /\ pc'[c] = "dedup"
        /\ \A d \in Consumer \ {c} : pc'[d] = pc[d] /\ job'[d] = job[d]
      BY <1>3 DEF Consume, TypeOK, Critical, redisVars, historyVars
  <2> QED BY <2>1, Outside
<1>4. ASSUME NEW c \in Consumer, Dedup(c) \/ Cooldown(c) \/ ReadClock(c) PROVE Leased'
  <2>1. lock' = lock /\ lease' = lease /\ ~Critical(c)
      BY <1>4 DEF Dedup, Cooldown, ReadClock, Critical, redisVars, historyVars
  <2>2. Goto(c, "cooldown") \/ Goto(c, "clock") \/ Goto(c, "lock") \/ Done(c)
      BY <1>4 DEF Dedup, Cooldown, ReadClock
  <2>3. /\ pc'[c] \in {"cooldown", "clock", "lock", "poll"}
        /\ \A d \in Consumer \ {c} : pc'[d] = pc[d] /\ job'[d] = job[d]
      BY <2>2, OwnState DEF Step
  <2> QED BY <2>1, <2>3, Outside
<1>5. ASSUME NEW c \in Consumer, Acquire(c) PROVE Leased'
    BY <1>5, AcquireLeased
<1>6. ASSUME NEW c \in Consumer, Route(c) \/ \E k \in Comet : Broadcast(c, k) PROVE Leased'
  <2>1. lock' = lock /\ lease' = lease /\ Critical(c)
      BY <1>6 DEF Route, Broadcast, Critical, redisVars, historyVars
  <2>2. Goto(c, "send") \/ Goto(c, "release")
      BY <1>6 DEF Route, Broadcast
  <2>3. /\ pc'[c] \in {"send", "release"} /\ job' = job
        /\ \A d \in Consumer \ {c} : pc'[d] = pc[d]
      BY <2>2, OwnState DEF Step
  <2> QED BY <2>1, <2>3, Inside
<1>7. ASSUME NEW c \in Consumer, Release(c) PROVE Leased'
    BY <1>7, ReleaseLeased
<1>8. ASSUME NEW p \in Process, Crash(p) PROVE Leased'
    BY <1>8, CrashLeased
<1>9. ASSUME NEW r \in Room, ExpireLock(r) PROVE Leased'
    BY <1>9, ExpireLeased
<1>10. CASE \/ \E m \in Msg : Redeliver(m)
            \/ ExpireSeen
            \/ \E r \in Room : ExpireCooldown(r)
            \/ Tick
  <2>1. lock' = lock /\ lease' = lease /\ pc' = pc /\ job' = job
      BY <1>10 DEF Redeliver, ExpireSeen, ExpireCooldown, Tick, redisVars, consumerVars,
                   historyVars
  <2> QED BY <2>1, <1>1
<1> QED BY <1>2, <1>3, <1>4, <1>5, <1>6, <1>7, <1>8, <1>9, <1>10 DEF Next

\* At the start nobody has a lease.
LEMMA InitLeased == Init => Leased
BY DEF Init, Leased, Critical

\* While both leases run, the one lock of the room has two owners.
LEMMA LeaseExclusive == TypeOK /\ LeaseInv => Exclusive
<1> SUFFICES ASSUME TypeOK, LeaseInv, NEW c \in Consumer, NEW d \in Consumer,
                    lease[c] = "held", lease[d] = "held", RoomAt(c) = RoomAt(d)
             PROVE  c = d
    BY DEF Exclusive
<1>1. RoomAt(c) \in Room
    BY RoomOfJob DEF LeaseInv, Leased, Critical
<1> QED BY <1>1 DEF LeaseInv, Leased

-----------------------------------------------------------------------------
(* Without a fault: the lock and the cooldown.                             *)

\* The count of faults never goes back.
LEMMA FaultsGrow ==
    ASSUME TypeOK, [Next]_vars
    PROVE  nfaults' \in Nat /\ nfaults' >= nfaults
<1>0. nfaults \in Nat
    BY DEF TypeOK
<1>1. nfaults' = nfaults \/ nfaults' = nfaults + 1
    BY DEF Next, vars, Consume, Dedup, Cooldown, ReadClock, Acquire, Route, Broadcast, Release,
           Redeliver, Crash, ExpireSeen, ExpireCooldown, ExpireLock, Tick, SetNX, Fault, NoFault
<1> QED BY <1>0, <1>1

\* Without a fault the caller of SET NX learns what happened to the key.
LEMMA SetNXFaultless ==
    ASSUME nfaults \in Nat, nfaults' = 0,
           NEW c, NEW values, NEW key, NEW answer, SetNX(c, values, key, answer)
    PROVE  \/ values = {} /\ key = "set" /\ answer = "OK"
           \/ values # {} /\ key = "kept" /\ answer = "nil"
BY DEF SetNX, Fault, NoFault

\* Without a fault nobody dies and Kafka repeats nothing.
LEMMA Faultless ==
    ASSUME nfaults \in Nat, nfaults' = 0
    PROVE  /\ \A p : ~Crash(p)
           /\ \A m : ~Redeliver(m)
BY DEF Crash, Redeliver, Fault

\* Every lock has the value its owner will compare with, and its owner is still
\* on the way to release it.
LockKept ==
    \A r \in Room : \A l \in lock[r] :
        l.by \in Consumer /\ Critical(l.by) /\ RoomAt(l.by) = r /\ l.at = stamp[l.by]

\* A consumer that has just set the key of the lock is its owner.
LEMMA AcquireKept ==
    ASSUME TypeOK, Working, LockKept, nfaults' = 0, NEW c \in Consumer, Acquire(c)
    PROVE  LockKept'
<1>1. PICK key \in Key, answer \in Answer :
          /\ SetNX(c, lock[RoomAt(c)], key, answer)
          /\ lock' = IF key = "kept" THEN lock
                     ELSE [lock EXCEPT ![RoomAt(c)] =
                              {[by |-> c, at |-> stamp[c], until |-> now + LockTTL]}]
          /\ \/ answer = "OK" /\ Goto(c, "route") /\ UNCHANGED stamp
             \/ answer # "OK" /\ Done(c)
    BY DEF Acquire
<1> DEFINE r == RoomAt(c)
           v == [by |-> c, at |-> stamp[c], until |-> now + LockTTL]
<1>2. pc[c] = "lock" /\ r \in Room
    BY RoomOfJob DEF Acquire
<1>3. \/ lock[r] = {} /\ key = "set" /\ answer = "OK"
      \/ lock[r] # {} /\ key = "kept" /\ answer = "nil"
    BY <1>1, SetNXFaultless DEF TypeOK
<1>4. \A q \in Room : \A l \in lock[q] : l.by # c
    BY <1>2 DEF LockKept, Critical
<1>5. CASE key = "set" /\ answer = "OK"
  <2>1. pc'[c] = "route" /\ job' = job /\ stamp' = stamp /\ \A d \in Consumer \ {c} : pc'[d] = pc[d]
      BY <1>1, <1>5, OwnState DEF Step
  <2>2. lock'[r] = {v} /\ \A q \in Room \ {r} : lock'[q] = lock[q]
      BY <1>1, <1>2, <1>5 DEF TypeOK
  <2>3. v.by = c /\ v.at = stamp[c]
      OBVIOUS
  <2> HIDE DEF v, r
  <2>4. ASSUME NEW q \in Room, NEW l \in lock'[q]
        PROVE  l.by \in Consumer /\ Critical(l.by)' /\ RoomAt(l.by)' = q /\ l.at = stamp'[l.by]
    <3>1. CASE q = r
        BY <3>1, <2>1, <2>2, <2>3, <2>4 DEF r, Critical, RoomAt
    <3>2. CASE q # r
        BY <3>2, <2>1, <2>2, <2>4, <1>4 DEF LockKept, Critical, RoomAt
    <3> QED BY <3>1, <3>2
  <2> QED BY <2>4 DEF LockKept, Critical, RoomAt
<1>6. CASE key = "kept" /\ answer = "nil"
  <2>1. /\ Done(c) /\ lock' = lock
      BY <1>1, <1>6
  <2>2. \A d \in Consumer \ {c} : pc'[d] = pc[d] /\ job'[d] = job[d] /\ stamp'[d] = stamp[d]
      BY <2>1, OwnState DEF Done, TypeOK
  <2> QED BY <1>4, <2>1, <2>2 DEF LockKept, Critical, RoomAt
<1> QED BY <1>3, <1>5, <1>6

\* The release script finds the caller's value, and deletes it.
LEMMA ReleaseKept ==
    ASSUME TypeOK, Working, LockKept, nfaults' = 0, NEW c \in Consumer, Release(c)
    PROVE  LockKept'
<1>1. lock' = [lock EXCEPT ![RoomAt(c)] = @ \ Mine(c)] /\ Done(c)
    BY DEF Release, Fault, TypeOK
<1>2. pc[c] = "release" /\ RoomAt(c) \in Room
    BY RoomOfJob DEF Release
<1>3. \A q \in Room : lock'[q] = IF q = RoomAt(c) THEN lock[q] \ Mine(c) ELSE lock[q]
    BY <1>1, <1>2 DEF TypeOK
<1>4. \A d \in Consumer \ {c} : pc'[d] = pc[d] /\ job'[d] = job[d] /\ stamp'[d] = stamp[d]
    BY <1>1 DEF Done, TypeOK
<1>5. \A q \in Room : \A l \in lock'[q] : l \in lock[q] /\ l.by # c
  <2> SUFFICES ASSUME NEW q \in Room, NEW l \in lock'[q] PROVE l \in lock[q] /\ l.by # c
      OBVIOUS
  <2>1. l \in lock[q]
      BY <1>3
  <2>2. ASSUME l.by = c PROVE FALSE
    <3>1. q = RoomAt(c) /\ l.at = stamp[c]
        BY <2>1, <2>2 DEF LockKept
    <3>2. l \in Mine(c)
        BY <2>1, <2>2, <3>1 DEF Mine
    <3> QED BY <1>3, <3>1, <3>2
  <2> QED BY <2>1, <2>2
<1> QED BY <1>4, <1>5 DEF LockKept, Critical, RoomAt

\* Every other step leaves the locks with their owners.
LEMMA KeptStep ==
    ASSUME TypeOK, Working, nfaults = 0 => LockKept, [Next]_vars, nfaults' = 0
    PROVE  LockKept'
<1>0. nfaults = 0 /\ LockKept
    BY FaultsGrow DEF TypeOK
<1>1. ASSUME NEW c \in Consumer, ~Critical(c),
             lock' = lock, \A d \in Consumer \ {c} :
                 pc'[d] = pc[d] /\ job'[d] = job[d] /\ stamp'[d] = stamp[d]
      PROVE  LockKept'
  <2>1. \A r \in Room : \A l \in lock[r] : l.by # c
      BY <1>0, <1>1 DEF LockKept
  <2> QED BY <1>0, <1>1, <2>1 DEF LockKept, Critical, RoomAt
<1>2. ASSUME \A r \in Room : lock'[r] \subseteq lock[r], job' = job, stamp' = stamp,
             \A d \in Consumer : Critical(d) => Critical(d)'
      PROVE  LockKept'
    BY <1>0, <1>2 DEF LockKept, RoomAt
<1>3. ASSUME NEW c \in Consumer, Consume(c) \/ Dedup(c) \/ Cooldown(c) \/ ReadClock(c)
      PROVE  LockKept'
  <2>1. lock' = lock /\ ~Critical(c)
      BY <1>3 DEF Consume, Dedup, Cooldown, ReadClock, Critical, redisVars
  <2>2. CASE Consume(c)
    <3>1. \A d \in Consumer \ {c} : pc'[d] = pc[d] /\ job'[d] = job[d] /\ stamp'[d] = stamp[d]
        BY <2>2 DEF Consume, TypeOK
    <3> QED BY <1>1, <2>1, <3>1
  <2>3. CASE ReadClock(c)
    <3>1. \A d \in Consumer \ {c} : pc'[d] = pc[d] /\ job'[d] = job[d] /\ stamp'[d] = stamp[d]
        BY <2>3 DEF ReadClock, Goto, TypeOK
    <3> QED BY <1>1, <2>1, <3>1
  <2>4. CASE Dedup(c) \/ Cooldown(c)
    <3>1. Done(c) \/ ((Goto(c, "cooldown") \/ Goto(c, "clock")) /\ UNCHANGED stamp)
        BY <2>4 DEF Dedup, Cooldown
    <3>2. \A d \in Consumer \ {c} : pc'[d] = pc[d] /\ job'[d] = job[d] /\ stamp'[d] = stamp[d]
        BY <3>1 DEF Done, Goto, TypeOK
    <3> QED BY <1>1, <2>1, <3>2
  <2> QED BY <1>3, <2>2, <2>3, <2>4
<1>4. ASSUME NEW c \in Consumer, Route(c) \/ \E k \in Comet : Broadcast(c, k)
      PROVE  LockKept'
  <2>1. lock' = lock /\ stamp' = stamp /\ Critical(c)
      BY <1>4 DEF Route, Broadcast, Critical, redisVars
  <2>2. Goto(c, "send") \/ Goto(c, "release")
      BY <1>4 DEF Route, Broadcast
  <2>3. pc'[c] \in {"send", "release"} /\ job' = job /\ \A d \in Consumer \ {c} : pc'[d] = pc[d]
      BY <2>2, OwnState DEF Step
  <2> QED BY <1>2, <2>1, <2>3 DEF Critical
<1>5. ASSUME NEW r \in Room, ExpireLock(r) PROVE LockKept'
  <2>1. lock' = [lock EXCEPT ![r] = {}] /\ pc' = pc /\ job' = job /\ stamp' = stamp
      BY <1>5 DEF ExpireLock, consumerVars
  <2>2. \A q \in Room : lock'[q] \subseteq lock[q]
      BY <2>1 DEF TypeOK
  <2> QED BY <1>2, <2>1, <2>2 DEF Critical
<1>6. CASE UNCHANGED vars \/ ExpireSeen \/ (\E r \in Room : ExpireCooldown(r)) \/ Tick
  <2>1. lock' = lock /\ pc' = pc /\ job' = job /\ stamp' = stamp
      BY <1>6 DEF vars, ExpireSeen, ExpireCooldown, Tick, redisVars, consumerVars
  <2> QED BY <1>2, <2>1 DEF Critical
<1> QED BY <1>0, <1>3, <1>4, <1>5, <1>6, Faultless, AcquireKept, ReleaseKept DEF Next, TypeOK

\* The key of the cooldown holds the end of the cooldown that runs, if one does.
CooldownKept ==
    \A r \in Room :
        /\ \A d \in cooldown[r] : d = passed[r] + CooldownTTL
        /\ \/ passed[r] = -1
           \/ passed[r] + CooldownTTL <= now
           \/ passed[r] + CooldownTTL \in cooldown[r]

\* A room passes the check only when its key has gone.
LEMMA CooldownStep ==
    ASSUME TypeOK, Working, CooldownKept, nfaults' = 0, NEW c \in Consumer, Cooldown(c)
    PROVE  /\ CooldownKept'
           /\ pc'[c] = "clock" => passed[RoomAt(c)] = -1 \/ passed[RoomAt(c)] + CooldownTTL <= now
<1>1. PICK key \in Key, answer \in Answer :
          /\ SetNX(c, cooldown[RoomAt(c)], key, answer)
          /\ cooldown' = IF key = "kept" THEN cooldown
                         ELSE [cooldown EXCEPT ![RoomAt(c)] = {now + CooldownTTL}]
          /\ \/ /\ answer \in {"OK", "error"}
                /\ passed' = [passed EXCEPT ![RoomAt(c)] = now]
             \/ answer = "nil" /\ Done(c) /\ UNCHANGED passed
    BY DEF Cooldown
<1> DEFINE r == RoomAt(c)
<1>2. r \in Room /\ now' = now /\ now \in Nat /\ CooldownTTL \in Nat
    BY RoomOfJob, JobAssumption DEF Cooldown, TypeOK, JobAssumption
<1>3. \/ cooldown[r] = {} /\ key = "set" /\ answer = "OK"
      \/ cooldown[r] # {} /\ key = "kept" /\ answer = "nil"
    BY <1>1, SetNXFaultless DEF TypeOK
<1>4. CASE cooldown[r] = {} /\ key = "set" /\ answer = "OK"
  <2>1. /\ cooldown'[r] = {now + CooldownTTL} /\ passed'[r] = now
        /\ \A q \in Room \ {r} : cooldown'[q] = cooldown[q] /\ passed'[q] = passed[q]
      BY <1>1, <1>2, <1>4 DEF TypeOK
  <2>2. passed[r] = -1 \/ passed[r] + CooldownTTL <= now
      BY <1>2, <1>4 DEF CooldownKept
  <2> QED BY <1>2, <2>1, <2>2 DEF CooldownKept
<1>5. CASE key = "kept" /\ answer = "nil"
  <2>1. Done(c) /\ passed' = passed /\ cooldown' = cooldown
      BY <1>1, <1>5
  <2>2. pc'[c] = "poll"
      BY <2>1, OwnState DEF Step
  <2> QED BY <1>2, <2>1, <2>2 DEF CooldownKept
<1> QED BY <1>3, <1>4, <1>5

\* Every step keeps the cooldowns, and only the check goes on to the clock.
LEMMA SpacingStep ==
    ASSUME TypeOK, Working, nfaults = 0 => CooldownKept, [Next]_vars, nfaults' = 0
    PROVE  /\ CooldownKept'
           /\ \A c \in Consumer : pc[c] = "cooldown" /\ pc'[c] = "clock" =>
                  passed[RoomAt(c)] = -1 \/ passed[RoomAt(c)] + CooldownTTL <= now
<1>0. nfaults = 0 /\ CooldownKept
    BY FaultsGrow DEF TypeOK
<1> DEFINE Spaced == \A c \in Consumer : pc[c] = "cooldown" /\ pc'[c] = "clock" =>
                  passed[RoomAt(c)] = -1 \/ passed[RoomAt(c)] + CooldownTTL <= now
<1>1. ASSUME cooldown' = cooldown, passed' = passed, now' = now
      PROVE  CooldownKept'
    BY <1>0, <1>1 DEF CooldownKept
<1>2. ASSUME NEW c \in Consumer, Cooldown(c) PROVE CooldownKept' /\ Spaced
  <2>1. pc[c] = "cooldown" /\ \A d \in Consumer \ {c} : pc'[d] = pc[d]
    <3>1. Goto(c, "clock") \/ Done(c)
        BY <1>2 DEF Cooldown
    <3>2. \A d \in Consumer \ {c} : pc'[d] = pc[d]
        BY <3>1, OwnState DEF Step
    <3> QED BY <1>2, <3>2 DEF Cooldown
  <2> QED BY <1>0, <1>2, <2>1, CooldownStep
<1>3. ASSUME NEW c \in Consumer,
             \/ Consume(c) \/ Dedup(c) \/ ReadClock(c) \/ Acquire(c)
             \/ Route(c) \/ (\E k \in Comet : Broadcast(c, k)) \/ Release(c)
      PROVE  CooldownKept' /\ Spaced
  <2>1. cooldown' = cooldown /\ passed' = passed /\ now' = now /\ pc[c] # "cooldown"
      BY <1>3 DEF Consume, Dedup, ReadClock, Acquire, Route, Broadcast, Release, redisVars, historyVars
  <2>2. \A d \in Consumer \ {c} : pc'[d] = pc[d]
    <3>1. CASE Consume(c)
        BY <3>1 DEF Consume, TypeOK
    <3>2. CASE Done(c) \/ \E step \in Step : Goto(c, step)
        BY <3>2, OwnState DEF Step
    <3> QED BY <1>3, <3>1, <3>2 DEF Dedup, ReadClock, Acquire, Route, Broadcast, Release, Step
  <2> QED BY <1>1, <2>1, <2>2
<1>4. ASSUME NEW r \in Room, ExpireCooldown(r) PROVE CooldownKept' /\ Spaced
  <2>1. pc' = pc /\ passed' = passed /\ now' = now
      BY <1>4 DEF ExpireCooldown, consumerVars, historyVars
  <2>2. cooldown'[r] = {} /\ \A q \in Room \ {r} : cooldown'[q] = cooldown[q]
      BY <1>4 DEF ExpireCooldown, TypeOK
  <2>3. passed[r] + CooldownTTL <= now
      BY <1>0, <1>4 DEF ExpireCooldown, CooldownKept
  <2> QED BY <1>0, <2>1, <2>2, <2>3 DEF CooldownKept
<1>5. CASE Tick
  <2>1. pc' = pc /\ passed' = passed /\ cooldown' = cooldown /\ now' = now + 1
      BY <1>5 DEF Tick, redisVars, consumerVars
  <2>2. now \in Nat /\ CooldownTTL \in Nat /\ \A r \in Room : passed[r] \in Nat \cup {-1}
      BY JobAssumption DEF TypeOK, JobAssumption
  <2> QED BY <1>0, <2>1, <2>2 DEF CooldownKept
<1>6. CASE UNCHANGED vars \/ ExpireSeen \/ \E r \in Room : ExpireLock(r)
  <2>1. pc' = pc /\ passed' = passed /\ cooldown' = cooldown /\ now' = now
      BY <1>6 DEF vars, ExpireSeen, ExpireLock, consumerVars, historyVars
  <2> QED BY <1>1, <2>1
<1> QED BY <1>2, <1>3, <1>4, <1>5, <1>6, Faultless DEF Next, TypeOK

-----------------------------------------------------------------------------
(* The count of broadcasts.                                                *)

\* The consumers that may still call Comet k for message m.
Pending(m, k) ==
    {c \in Consumer : job[c] = m /\
        (pc[c] \in {"dedup", "cooldown", "clock", "lock", "route"}
         \/ (pc[c] = "send" /\ k \in targets[c]))}

\* The copy of a message in Kafka.
Waiting(m) == IF m \in topic THEN 1 ELSE 0

\* The broadcasts made, those that may follow and the copy in Kafka.
Counted(m, k) ==
    /\ IsFiniteSet(Pending(m, k))
    /\ sent[<<m, k>>] + Cardinality(Pending(m, k)) + Waiting(m) <= 1 + nfaults

\* A step after which no more is pending or waiting, and nothing more was sent.
LEMMA CountQuiet ==
    ASSUME TypeOK, TypeOK', nfaults' >= nfaults, NEW m \in Msg, NEW k \in Comet, Counted(m, k),
           sent'[<<m, k>>] = sent[<<m, k>>],
           Pending(m, k)' \subseteq Pending(m, k),
           m \in topic' => m \in topic \/ nfaults' = nfaults + 1
    PROVE  Counted(m, k)'
<1> DEFINE P == Pending(m, k)
           Q == Pending(m, k)'
<1>1. IsFiniteSet(Q) /\ Cardinality(Q) \in Nat /\ Cardinality(P) \in Nat
      /\ Cardinality(Q) <= Cardinality(P)
  <2> HIDE DEF P, Q
  <2>1. IsFiniteSet(P) /\ Q \subseteq P
      BY DEF Counted, P, Q
  <2> QED BY <2>1, FS_Subset, FS_CardinalityType
<1>2. sent[<<m, k>>] \in Nat /\ nfaults \in Nat /\ nfaults' \in Nat
    BY DEF TypeOK
<1>3. sent[<<m, k>>] + Cardinality(P) + Waiting(m) <= 1 + nfaults
    BY DEF Counted
<1> HIDE DEF P
<1>4. sent'[<<m, k>>] + Cardinality(Q) + Waiting(m)' <= 1 + nfaults'
  <2> HIDE DEF Q
  <2> QED BY <1>1, <1>2, <1>3 DEF Waiting
<1> QED BY <1>1, <1>4 DEF Counted

\* A message leaves Kafka for one consumer.
LEMMA CountConsume ==
    ASSUME TypeOK, TypeOK', Working, NEW c \in Consumer, Consume(c),
           NEW m \in Msg, NEW k \in Comet, Counted(m, k)
    PROVE  Counted(m, k)'
<1>1. PICK n \in topic : topic' = topic \ {n} /\ job' = [job EXCEPT ![c] = n]
    BY DEF Consume
<1>2. /\ pc[c] = "poll" /\ targets' = targets /\ sent' = sent /\ nfaults' = nfaults
      /\ \A d \in Consumer \ {c} : pc'[d] = pc[d] /\ job'[d] = job[d]
      /\ job'[c] = n
    BY <1>1 DEF Consume, TypeOK, historyVars
<1>3. CASE n # m
  <2>1. Pending(m, k)' \subseteq Pending(m, k)
      BY <1>2, <1>3 DEF Pending
  <2> QED BY <1>1, <1>2, <2>1, CountQuiet DEF TypeOK
<1>4. CASE n = m
  <2> DEFINE P == Pending(m, k)
             Q == Pending(m, k)'
  <2>1. Q \subseteq P \cup {c}
      BY <1>2 DEF Pending
  <2>2. IsFiniteSet(P) /\ sent[<<m, k>>] + Cardinality(P) + Waiting(m) <= 1 + nfaults
      BY DEF Counted
  <2>3. Waiting(m) = 1 /\ Waiting(m)' = 0
      BY <1>1, <1>4 DEF Waiting
  <2>4. sent[<<m, k>>] \in Nat /\ nfaults \in Nat
      BY DEF TypeOK
  <2> HIDE DEF P, Q
  <2>5. IsFiniteSet(P \cup {c}) /\ Cardinality(P \cup {c}) <= Cardinality(P) + 1
        /\ Cardinality(P) \in Nat /\ Cardinality(P \cup {c}) \in Nat
    <3>1. IsFiniteSet(P)
        BY <2>2
    <3>2. /\ IsFiniteSet(P \cup {c})
          /\ Cardinality(P \cup {c}) = IF c \in P THEN Cardinality(P) ELSE Cardinality(P) + 1
        BY <3>1, FS_AddElement
    <3>3. Cardinality(P) \in Nat /\ Cardinality(P \cup {c}) \in Nat
        BY <3>1, <3>2, FS_CardinalityType
    <3> QED BY <3>2, <3>3
  <2>6. IsFiniteSet(Q) /\ Cardinality(Q) <= Cardinality(P \cup {c}) /\ Cardinality(Q) \in Nat
      BY <2>1, <2>5, FS_Subset, FS_CardinalityType
  <2>7. sent[<<m, k>>] + Cardinality(Q) + 0 <= 1 + nfaults
      BY <2>2, <2>3, <2>4, <2>5, <2>6
  <2> QED BY <1>2, <2>3, <2>6, <2>7 DEF Counted, Q
<1> QED BY <1>3, <1>4

\* A call takes the node out of the caller's hands.
LEMMA CountBroadcast ==
    ASSUME TypeOK, TypeOK', Working, NEW c \in Consumer, NEW j \in Comet, Broadcast(c, j),
           NEW m \in Msg, NEW k \in Comet, Counted(m, k)
    PROVE  Counted(m, k)'
<1>1. /\ pc[c] = "send" /\ j \in targets[c] /\ job' = job
      /\ targets' = [targets EXCEPT ![c] = targets[c] \ {j}]
      /\ topic' = topic /\ nfaults' = nfaults
      /\ sent' = sent \/ sent' = [sent EXCEPT ![<<job[c], j>>] = sent[<<job[c], j>>] + 1]
    BY DEF Broadcast, Goto
<1>2. pc'[c] \in {"send", "release"} /\ \A d \in Consumer \ {c} : pc'[d] = pc[d]
  <2>1. Goto(c, "send") \/ Goto(c, "release")
      BY DEF Broadcast
  <2> QED BY <2>1, OwnState DEF Step
<1>3. Pending(m, k)' \subseteq Pending(m, k)
    BY <1>1, <1>2 DEF Pending, TypeOK
<1>4. CASE sent'[<<m, k>>] = sent[<<m, k>>]
    BY <1>1, <1>3, <1>4, CountQuiet DEF TypeOK
<1>5. CASE sent'[<<m, k>>] # sent[<<m, k>>]
  <2> DEFINE P == Pending(m, k)
             Q == Pending(m, k)'
  <2>1. job[c] = m /\ j = k /\ sent'[<<m, k>>] = sent[<<m, k>>] + 1
      BY <1>1, <1>5 DEF TypeOK
  <2>2. c \in P
      BY <1>1, <2>1 DEF Pending
  <2>3. Q \subseteq P \ {c}
      BY <1>1, <1>2, <1>3, <2>1 DEF Pending, TypeOK
  <2>4. IsFiniteSet(P) /\ sent[<<m, k>>] + Cardinality(P) + Waiting(m) <= 1 + nfaults
      BY DEF Counted
  <2>5. Waiting(m)' = Waiting(m) /\ Waiting(m) \in Nat
      BY <1>1 DEF Waiting
  <2>6. sent[<<m, k>>] \in Nat /\ nfaults \in Nat
      BY DEF TypeOK
  <2> HIDE DEF P, Q
  <2>7. IsFiniteSet(P \ {c}) /\ Cardinality(P \ {c}) = Cardinality(P) - 1
        /\ Cardinality(P) \in Nat /\ Cardinality(P \ {c}) \in Nat
      BY <2>2, <2>4, FS_RemoveElement, FS_CardinalityType
  <2>8. IsFiniteSet(Q) /\ Cardinality(Q) <= Cardinality(P \ {c}) /\ Cardinality(Q) \in Nat
      BY <2>3, <2>7, FS_Subset, FS_CardinalityType
  <2>9. sent[<<m, k>>] + 1 + Cardinality(Q) + Waiting(m) <= 1 + nfaults
      BY <2>4, <2>5, <2>6, <2>7, <2>8
  <2> QED BY <1>1, <2>1, <2>5, <2>8, <2>9 DEF Counted, Q
<1> QED BY <1>4, <1>5

\* Every step keeps the count.
LEMMA CountStep ==
    ASSUME TypeOK, TypeOK', Working, [Next]_vars, NEW m \in Msg, NEW k \in Comet, Counted(m, k)
    PROVE  Counted(m, k)'
<1>0. nfaults' >= nfaults
    BY FaultsGrow
<1>1. ASSUME NEW c \in Consumer, Done(c), sent' = sent, topic' = topic PROVE Counted(m, k)'
  <2>1. pc'[c] = "poll" /\ \A d \in Consumer \ {c} :
            pc'[d] = pc[d] /\ job'[d] = job[d] /\ targets'[d] = targets[d]
      BY <1>1 DEF Done, TypeOK
  <2>2. Pending(m, k)' \subseteq Pending(m, k)
      BY <2>1 DEF Pending
  <2> QED BY <1>0, <1>1, <2>2, CountQuiet
<1>2. ASSUME NEW c \in Consumer, NEW step \in Step, Goto(c, step), targets' = targets,
             pc[c] \in {"dedup", "cooldown", "clock"}, sent' = sent, topic' = topic
      PROVE  Counted(m, k)'
  <2>1. job' = job /\ \A d \in Consumer \ {c} : pc'[d] = pc[d]
      BY <1>2, OwnState
  <2>2. Pending(m, k)' \subseteq Pending(m, k)
      BY <1>2, <2>1 DEF Pending
  <2> QED BY <1>0, <1>2, <2>2, CountQuiet
<1>3. ASSUME NEW c \in Consumer, Dedup(c) \/ Cooldown(c) \/ ReadClock(c) PROVE Counted(m, k)'
  <2>1. /\ sent' = sent /\ topic' = topic /\ pc[c] \in {"dedup", "cooldown", "clock"}
        /\ \/ Done(c)
           \/ targets' = targets /\ (Goto(c, "cooldown") \/ Goto(c, "clock") \/ Goto(c, "lock"))
      BY <1>3 DEF Dedup, Cooldown, ReadClock, historyVars
  <2> QED BY <1>1, <1>2, <2>1 DEF Step
<1>4. ASSUME NEW c \in Consumer, Acquire(c) PROVE Counted(m, k)'
  <2>1. /\ sent' = sent /\ topic' = topic /\ pc[c] = "lock"
        /\ Done(c) \/ (targets' = targets /\ Goto(c, "route"))
      BY <1>4 DEF Acquire
  <2>2. CASE targets' = targets /\ Goto(c, "route")
    <3>1. job' = job /\ \A d \in Consumer \ {c} : pc'[d] = pc[d]
        BY <2>2, OwnState DEF Step
    <3>2. Pending(m, k)' \subseteq Pending(m, k)
        BY <2>1, <2>2, <3>1 DEF Pending
    <3> QED BY <1>0, <2>1, <3>2, CountQuiet
  <2> QED BY <1>1, <2>1, <2>2
<1>5. ASSUME NEW c \in Consumer, Route(c) PROVE Counted(m, k)'
  <2>1. /\ sent' = sent /\ topic' = topic /\ pc[c] = "route"
        /\ Goto(c, "send") \/ Goto(c, "release")
      BY <1>5 DEF Route, historyVars
  <2>2. \A d \in Consumer \ {c} : targets'[d] = targets[d]
      BY <1>5 DEF Route, TypeOK
  <2>3. job' = job /\ \A d \in Consumer \ {c} : pc'[d] = pc[d]
      BY <2>1, OwnState DEF Step
  <2>4. Pending(m, k)' \subseteq Pending(m, k)
      BY <2>1, <2>2, <2>3 DEF Pending
  <2> QED BY <1>0, <2>1, <2>4, CountQuiet
<1>6. ASSUME NEW c \in Consumer, Release(c) PROVE Counted(m, k)'
    BY <1>1, <1>6 DEF Release
<1>7. ASSUME NEW n \in Msg, Redeliver(n) PROVE Counted(m, k)'
  <2>1. Pending(m, k)' = Pending(m, k) /\ sent' = sent /\ nfaults' = nfaults + 1
      BY <1>7 DEF Redeliver, Fault, Pending, consumerVars, historyVars
  <2> QED BY <1>0, <2>1, CountQuiet
<1>8. ASSUME NEW p \in Process, Crash(p) PROVE Counted(m, k)'
  <2>1. sent' = sent /\ topic' = topic /\ \A d \in Consumer :
            \/ pc'[d] = "poll"
            \/ pc'[d] = pc[d] /\ job'[d] = job[d] /\ targets'[d] = targets[d]
      BY <1>8 DEF Crash
  <2>2. Pending(m, k)' \subseteq Pending(m, k)
      BY <2>1 DEF Pending
  <2> QED BY <1>0, <2>1, <2>2, CountQuiet
<1>9. CASE UNCHANGED vars \/ ExpireSeen \/ (\E r \in Room : ExpireCooldown(r) \/ ExpireLock(r)) \/ Tick
  <2>1. sent' = sent /\ topic' = topic /\ pc' = pc /\ job' = job /\ targets' = targets
      BY <1>9 DEF vars, ExpireSeen, ExpireCooldown, ExpireLock, Tick, consumerVars, historyVars
  <2>2. Pending(m, k)' = Pending(m, k)
      BY <2>1 DEF Pending
  <2> QED BY <1>0, <2>1, <2>2, CountQuiet
<1> QED BY <1>3, <1>4, <1>5, <1>6, <1>7, <1>8, <1>9, CountConsume, CountBroadcast DEF Next

-----------------------------------------------------------------------------
(* Theorems.                                                               *)

\* The variables keep their types, whatever the faults and the processes.
THEOREM JobTypeCorrect == Spec => []TypeOK
<1>1. Init => TypeOK /\ Working
    BY InitType
<1>2. TypeOK /\ Working /\ [Next]_vars => (TypeOK /\ Working)'
    BY TypeStep
<1> QED BY <1>1, <1>2, PTL DEF Spec

\* In one process without races, a consumer whose lease runs owns the lock.
THEOREM LeaseInvariant ==
    ASSUME Deployment
    PROVE  Spec => [](TypeOK /\ LeaseInv)
<1>1. Init => TypeOK /\ LeaseInv
    BY InitType, InitLeased DEF LeaseInv
<1>2. TypeOK /\ LeaseInv /\ [Next]_vars => (TypeOK /\ LeaseInv)'
    BY TypeStep, LeaseStep DEF LeaseInv
<1> QED BY <1>1, <1>2, PTL DEF Spec

\* SET NX EX keeps a room to one consumer until the lock runs out, whatever is
\* lost, repeated or crashes (route_service.cc:256-282).
THEOREM LockExclusive ==
    ASSUME Deployment
    PROVE  Spec => []Exclusive
<1>1. TypeOK /\ LeaseInv => Exclusive
    BY LeaseExclusive
<1> QED BY <1>1, LeaseInvariant, PTL

\* The script of ReleaseLock never deletes another consumer's lock, also when
\* replies are mixed up, as long as there is one Job process.
THEOREM ReleasesOwn ==
    ASSUME OneProcess
    PROVE  Spec => ReleaseOwn
<1>1. Init => TypeOK /\ Working
    BY InitType
<1>2. TypeOK /\ Working /\ [Next]_vars => (TypeOK /\ Working)'
    BY TypeStep
<1>3. TypeOK /\ Working /\ [Next]_vars =>
          [\A c \in Consumer : Release(c) =>
               \A r \in Room : \A l \in lock[r] \ lock'[r] : l.by = c]_vars
    BY ReleaseTakesOwn
<1> QED BY <1>1, <1>2, <1>3, PTL DEF Spec, ReleaseOwn

\* Without a fault a lock is on its way back to its room: no path through the
\* loop forgets it (job/main.cc:163-213).
THEOREM LocksReturn == Spec => []LockReturned
<1> DEFINE Inv == TypeOK /\ Working /\ (nfaults = 0 => LockKept)
<1>1. Init => Inv
    BY InitType DEF Init, LockKept
<1>2. Inv /\ [Next]_vars => Inv'
    BY TypeStep, KeptStep
<1>3. Inv => LockReturned
    BY DEF LockKept, LockReturned
<1> QED BY <1>1, <1>2, <1>3, PTL DEF Spec

\* Without a fault a room passes the cooldown check once in CooldownTTL seconds,
\* however many consumers and processes ask (route_service.cc:347-377).
THEOREM CooldownHolds == Spec => CooldownSpacing
<1> DEFINE Inv == TypeOK /\ Working /\ (nfaults = 0 => CooldownKept)
<1>1. Init => Inv
    BY InitType DEF Init, CooldownKept
<1>2. Inv /\ [Next]_vars => Inv'
    BY TypeStep, SpacingStep
<1>3. Inv /\ [Next]_vars =>
          [\A c \in Consumer :
              pc[c] = "cooldown" /\ pc'[c] = "clock" /\ nfaults' = 0 =>
                  passed[RoomAt(c)] = -1 \/ passed[RoomAt(c)] + CooldownTTL <= now]_vars
    BY SpacingStep
<1> QED BY <1>1, <1>2, <1>3, PTL DEF Spec, CooldownSpacing

\* A message goes to a Comet node once, and once more for each fault at most,
\* however many consumers, processes and nodes there are (job/main.cc:116-220).
THEOREM SendsOnce == Spec => []SentOnce
<1> DEFINE Inv == TypeOK /\ Working /\ \A m \in Msg, k \in Comet : Counted(m, k)
<1>1. Init => Inv
  <2> SUFFICES ASSUME Init, NEW m \in Msg, NEW k \in Comet PROVE Counted(m, k)
      BY InitType
  <2>1. Pending(m, k) = {}
      BY DEF Init, Pending
  <2>2. sent[<<m, k>>] = 0 /\ nfaults = 0 /\ Waiting(m) = 1
      BY DEF Init, Waiting
  <2> QED BY <2>1, <2>2, FS_EmptySet DEF Counted
<1>2. Inv /\ [Next]_vars => Inv'
    BY TypeStep, CountStep
<1>3. Inv => SentOnce
  <2> SUFFICES ASSUME Inv, NEW m \in Msg, NEW k \in Comet PROVE sent[<<m, k>>] <= 1 + nfaults
      BY DEF SentOnce
  <2>1. Cardinality(Pending(m, k)) \in Nat /\ Waiting(m) \in Nat
      BY FS_CardinalityType DEF Counted, Waiting
  <2>2. sent[<<m, k>>] + Cardinality(Pending(m, k)) + Waiting(m) <= 1 + nfaults
      BY DEF Counted
  <2>3. sent[<<m, k>>] \in Nat /\ nfaults \in Nat
      BY DEF TypeOK
  <2> QED BY <2>1, <2>2, <2>3
<1> QED BY <1>1, <1>2, <1>3, PTL DEF Spec

=============================================================================
