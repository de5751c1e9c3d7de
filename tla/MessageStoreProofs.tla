------------------------- MODULE MessageStoreProofs -------------------------
(***************************************************************************)
(* Theorems about MessageStore for any number of Comets, messages, rooms,  *)
(* batch size and budget of faults.                                        *)
(***************************************************************************)
EXTENDS MessageStore, FiniteSetTheorems, FunctionTheorems, SequenceTheorems, TLAPS

-----------------------------------------------------------------------------
(* Lemmas on the sequences the model is built from.                        *)

\* Appending adds one element to the range.
LEMMA RangeAppend ==
    ASSUME NEW S, NEW s \in Seq(S), NEW e \in S
    PROVE  Range(Append(s, e)) = Range(s) \cup {e}
<1>1. /\ Len(Append(s, e)) = Len(s) + 1
      /\ \A i \in 1 .. Len(s) : Append(s, e)[i] = s[i]
      /\ Append(s, e)[Len(s) + 1] = e
      /\ Append(s, e) \in Seq(S)
  BY AppendProperties
<1>2. Range(Append(s, e)) = {Append(s, e)[i] : i \in 1 .. Len(s) + 1}
  BY <1>1, RangeEquality
<1>3. Range(s) = {s[i] : i \in 1 .. Len(s)}
  BY RangeEquality
<1>4. 1 .. Len(s) + 1 = (1 .. Len(s)) \cup {Len(s) + 1}
  BY LenProperties
<1>5. QED
  BY <1>1, <1>2, <1>3, <1>4

\* The empty and the one-element sequence are sequences.
LEMMA SmallSeq ==
    ASSUME NEW S
    PROVE  <<>> \in Seq(S) /\ \A e \in S : <<e>> \in Seq(S)
  OBVIOUS

\* The range of the empty and of the one-element sequence.
LEMMA RangeSmall ==
    /\ Range(<<>>) = {}
    /\ \A e : Range(<<e>>) = {e}
  BY DEF Range

\* What LRANGE reads is in the queue, and it is all of it within the batch size
\* (api_msg.cc:196).
LEMMA NewestEntriesRange ==
    ASSUME queue \in Seq(Msg)
    PROVE  /\ NewestEntries \in Seq(Msg)
           /\ Range(NewestEntries) \subseteq Range(queue)
           /\ Len(queue) <= Batch => NewestEntries = queue
<1> DEFINE n == IF Len(queue) < Batch THEN Len(queue) ELSE Batch
<1>0. Len(queue) \in Nat /\ Batch \in Nat
  BY StoreAssumption, LenProperties
<1>1. Len(queue) \in Nat /\ Batch \in Nat /\ DOMAIN queue = 1 .. Len(queue)
  BY <1>0, LenProperties
<1>2. n \in Nat /\ n <= Len(queue)
  BY <1>1
<1>3. \A i \in 1 .. n : queue[i] \in Msg
  BY <1>1, <1>2, ElementOfSeq
<1> HIDE DEF n
<1>4. /\ SubSeq(queue, 1, n) \in Seq(Msg)
      /\ Len(SubSeq(queue, 1, n)) = n
      /\ \A i \in 1 .. n : SubSeq(queue, 1, n)[i] = queue[i]
  BY <1>2, <1>3, SubSeqProperties
<1>5. Range(SubSeq(queue, 1, n)) \subseteq Range(queue)
  <2>1. /\ Range(SubSeq(queue, 1, n)) = {SubSeq(queue, 1, n)[i] : i \in 1 .. n}
        /\ Range(queue) = {queue[i] : i \in 1 .. Len(queue)}
    BY <1>4, RangeEquality
  <2>2. 1 .. n \subseteq 1 .. Len(queue)
    BY <1>1, <1>2
  <2>3. QED
    BY <1>4, <2>1, <2>2
<1>6. Len(queue) <= Batch => SubSeq(queue, 1, n) = queue
  <2> SUFFICES ASSUME Len(queue) <= Batch
               PROVE  SubSeq(queue, 1, n) = queue
    OBVIOUS
  <2>1. n = Len(queue)
    BY <1>0 DEF n
  <2>2. QED
    BY <1>4, <2>1, SeqEqual
<1>7. QED
  BY <1>4, <1>5, <1>6 DEF NewestEntries, n

-----------------------------------------------------------------------------
(* Types.                                                                  *)

\* The registers of the other Comets are untouched.
LEMMA GotoEffect ==
    ASSUME pc \in [Comet -> Step], work \in [Comet -> Seq(Msg)],
           NEW c \in Comet, NEW step \in Step, NEW ms \in Seq(Msg), Goto(c, step, ms)
    PROVE  /\ pc' \in [Comet -> Step] /\ work' \in [Comet -> Seq(Msg)]
           /\ pc'[c] = step /\ work'[c] = ms
           /\ \A d \in Comet : d # c => pc'[d] = pc[d] /\ work'[d] = work[d]
  BY DEF Goto

\* The fault budget stays a number.
LEMMA FaultType ==
    ASSUME nfaults \in Nat, NoFault \/ \E kind \in FaultKind : Fault(kind)
    PROVE  nfaults' \in Nat
  BY DEF NoFault, Fault

\* The kinds of fault and the names of the steps that the actions use.
LEMMA KindsAndSteps ==
    /\ "redis" \in FaultKind /\ "mysql" \in FaultKind /\ "reply" \in FaultKind /\ "crash" \in FaultKind
    /\ "idle" \in Step /\ "lpush" \in Step /\ "insert" \in Step /\ "del" \in Step /\ "down" \in Step
    /\ <<>> \in Seq(Msg)
  BY DEF FaultKind, Step

\* XADD keeps the types.
LEMMA XaddType ==
    ASSUME TypeOK, NEW c \in Comet, NEW m \in Msg, Xadd(c, m)
    PROVE  TypeOK'
<1>1. Append(stream, m) \in Seq(Msg) /\ <<m>> \in Seq(Msg)
  BY AppendProperties DEF TypeOK
<1>2. nfaults' \in Nat
  BY FaultType, KindsAndSteps DEF Xadd, TypeOK
<1>3. pc' \in [Comet -> Step] /\ work' \in [Comet -> Seq(Msg)]
  BY <1>1, GotoEffect, KindsAndSteps DEF Xadd, TypeOK
<1>4. stream' \in Seq(Msg) /\ sent' \subseteq Msg
  BY <1>1 DEF Xadd, TypeOK
<1>5. QED
  BY <1>2, <1>3, <1>4 DEF Xadd, TypeOK

\* LPUSH keeps the types.
LEMMA LpushType ==
    ASSUME TypeOK, NEW c \in Comet, Lpush(c)
    PROVE  TypeOK'
<1>1. work[c] \in Seq(Msg) /\ Range(work[c]) \subseteq Msg
  BY RangeOfSeq DEF TypeOK
<1>2. queue' \in Seq(Msg)
  BY <1>1, ConcatProperties DEF Lpush, TypeOK
<1>3. pushed' \subseteq Msg /\ accepted' \subseteq Msg
  BY <1>1 DEF Lpush, TypeOK
<1>4. nfaults' \in Nat
  BY FaultType, KindsAndSteps DEF Lpush, TypeOK
<1>5. pc' \in [Comet -> Step] /\ work' \in [Comet -> Seq(Msg)]
  BY GotoEffect, KindsAndSteps DEF Lpush, TypeOK
<1>6. QED
  BY <1>2, <1>3, <1>4, <1>5 DEF Lpush, TypeOK

\* LRANGE keeps the types.
LEMMA LrangeType ==
    ASSUME TypeOK, NEW c \in Comet, Lrange(c)
    PROVE  TypeOK'
<1>1. Len(queue) \in Nat /\ NewestEntries \in Seq(Msg)
  BY LenProperties, NewestEntriesRange DEF TypeOK
<1>2. longest' \in Nat
  BY <1>1 DEF Lrange, TypeOK
<1>3. nfaults' \in Nat
  BY FaultType, KindsAndSteps DEF Lrange, TypeOK
<1>4. pc' \in [Comet -> Step] /\ work' \in [Comet -> Seq(Msg)]
  BY <1>1, GotoEffect, KindsAndSteps DEF Lrange, TypeOK
<1>5. QED
  BY <1>2, <1>3, <1>4 DEF Lrange, TypeOK

\* INSERT keeps the types.
LEMMA InsertType ==
    ASSUME TypeOK, NEW c \in Comet, Insert(c)
    PROVE  TypeOK'
<1>1. work[c] \in Seq(Msg) /\ rows \o work[c] \in Seq(Msg)
  BY ConcatProperties DEF TypeOK
<1>2. rows' \in Seq(Msg)
  BY <1>1 DEF Insert, TypeOK
<1>3. nfaults' \in Nat
  BY FaultType, KindsAndSteps DEF Insert, TypeOK
<1>4. pc' \in [Comet -> Step] /\ work' \in [Comet -> Seq(Msg)]
  BY <1>1, GotoEffect, KindsAndSteps DEF Insert, TypeOK
<1>5. QED
  BY <1>2, <1>3, <1>4 DEF Insert, TypeOK

\* DEL keeps the types.
LEMMA DelType ==
    ASSUME TypeOK, NEW c \in Comet, Del(c)
    PROVE  TypeOK'
<1>1. Range(queue) \subseteq Msg
  BY RangeOfSeq DEF TypeOK
<1>2. queue' \in Seq(Msg) /\ dropped' \subseteq Msg
  BY <1>1, KindsAndSteps DEF Del, TypeOK
<1>3. nfaults' \in Nat
  BY FaultType, KindsAndSteps DEF Del, TypeOK
<1>4. pc' \in [Comet -> Step] /\ work' \in [Comet -> Seq(Msg)]
  BY GotoEffect, KindsAndSteps DEF Del, TypeOK
<1>5. QED
  BY <1>2, <1>3, <1>4 DEF Del, TypeOK

\* Crash and restart keep the types.
LEMMA ProcessType ==
    ASSUME TypeOK, NEW c \in Comet, Crash(c) \/ Restart(c)
    PROVE  TypeOK'
<1>1. nfaults' \in Nat
  BY FaultType, KindsAndSteps DEF Crash, Restart, TypeOK
<1>2. pc' \in [Comet -> Step] /\ work' \in [Comet -> Seq(Msg)]
  BY GotoEffect, KindsAndSteps DEF Crash, Restart, TypeOK
<1>3. QED
  BY <1>1, <1>2 DEF Crash, Restart, TypeOK

\* Every step keeps the types.
LEMMA TypeStep == TypeOK /\ [Next]_vars => TypeOK'
<1>1. ASSUME TypeOK, UNCHANGED vars
      PROVE  TypeOK'
  BY <1>1 DEF vars, TypeOK
<1>2. QED
  BY <1>1, XaddType, LpushType, LrangeType, InsertType, DelType, ProcessType
  DEF Next, LrangeEmpty

\* Type correctness of the store.
THEOREM TypeCorrect == Spec => []TypeOK
<1>1. Init => TypeOK
  BY DEF Init, TypeOK, Step
<1>2. QED
  BY <1>1, TypeStep, PTL DEF Spec

-----------------------------------------------------------------------------
(* The inductive invariant.                                                *)

\* What XADD changes: the stream grows, and a message in the hands of a Comet
\* was sent by nobody before.
LEMMA XaddInv ==
    ASSUME TypeOK, StoreInv, NEW c \in Comet, NEW m \in Msg, Xadd(c, m)
    PROVE  StoreInv'
<1> USE DEF StoreInv
<1>1. /\ UNCHANGED <<queue, rows, pushed, dropped, longest>>
      /\ sent' = sent \cup {m} /\ m \notin sent /\ pc[c] = "idle"
  BY DEF Xadd
<1>2. Range(stream) \subseteq Range(stream)' /\ (stream' = Append(stream, m) => m \in Range(stream)')
  <2>1. Range(Append(stream, m)) = Range(stream) \cup {m}
    BY RangeAppend DEF TypeOK
  <2>2. stream' = stream \/ stream' = Append(stream, m)
    BY DEF Xadd
  <2>3. QED
    BY <2>1, <2>2
<1>3. <<m>> \in Seq(Msg) /\ Range(<<m>>) = {m}
  BY RangeSmall
<1>4. \/ UNCHANGED <<pc, work>>
      \/ Goto(c, "lpush", <<m>>) /\ m \in Range(stream)'
  BY <1>2 DEF Xadd
<1>5. QueueInv' /\ Conservation'
  BY <1>1, <1>2 DEF QueueInv, Conservation
<1>6. CASE UNCHANGED <<pc, work>>
  <2>1. WorkInv'
    BY <1>1, <1>2, <1>6 DEF WorkInv
  <2>2. CoverInv'
    BY <1>1, <1>6 DEF CoverInv, Overflow
  <2>3. QED
    BY <1>5, <2>1, <2>2
<1>7. CASE Goto(c, "lpush", <<m>>) /\ m \in Range(stream)'
  <2>1. /\ pc'[c] = "lpush" /\ work'[c] = <<m>>
        /\ \A d \in Comet : d # c => pc'[d] = pc[d] /\ work'[d] = work[d]
    BY <1>3, <1>7, GotoEffect, KindsAndSteps DEF TypeOK
  <2>2. Range(work'[c]) = {m} /\ m \notin pushed
    BY <1>1, <1>3, <2>1 DEF QueueInv
  <2>3. ASSUME NEW d \in Comet, pc'[d] = "lpush"
        PROVE  /\ \E o \in Msg : work'[d] = <<o>>
               /\ Range(work'[d]) \subseteq (sent' \cap Range(stream)') \ pushed'
               /\ \A e \in Comet \ {d} : pc'[e] = "lpush" => Range(work'[d]) \cap Range(work'[e]) = {}
    <3>1. CASE d = c
      BY <1>1, <1>7, <2>1, <2>2, <3>1 DEF WorkInv
    <3>2. CASE d # c
      <4>1. pc[d] = "lpush" /\ work'[d] = work[d]
        BY <2>1, <2>3, <3>2
      <4>2. m \notin Range(work[d])
        BY <1>1, <4>1 DEF WorkInv
      <4>3. QED
        BY <1>1, <1>2, <2>1, <2>2, <4>1, <4>2 DEF WorkInv
    <3>3. QED
      BY <3>1, <3>2
  <2>4. \A d \in Comet : pc'[d] \in {"insert", "del"} => d # c
    BY <2>1
  <2>5. WorkInv'
    BY <1>1, <2>1, <2>3, <2>4 DEF WorkInv
  <2>6. CoverInv'
    BY <1>1, <2>1, <2>4 DEF CoverInv, Overflow
  <2>7. QED
    BY <1>5, <2>5, <2>6
<1>8. QED
  BY <1>4, <1>6, <1>7

\* LPUSH hands a message over that was never in the queue.
LEMMA LpushInv ==
    ASSUME TypeOK, StoreInv, NEW c \in Comet, Lpush(c)
    PROVE  StoreInv'
<1> USE DEF StoreInv
<1>1. /\ UNCHANGED <<stream, rows, sent, dropped, longest>>
      /\ pc[c] = "lpush"
      /\ \/ UNCHANGED <<queue, pushed>>
         \/ queue' = work[c] \o queue /\ pushed' = pushed \cup Range(work[c])
  BY DEF Lpush
<1>2. /\ pc'[c] = "idle"
      /\ \A d \in Comet : d # c => pc'[d] = pc[d] /\ work'[d] = work[d]
  BY GotoEffect, KindsAndSteps DEF Lpush, TypeOK
<1>3. queue' = work[c] \o queue => Range(queue)' = Range(work[c]) \cup Range(queue)
  BY RangeConcatenation DEF TypeOK
<1>4. Range(work[c]) \subseteq (sent \cap Range(stream)) \ pushed
  BY <1>1 DEF WorkInv
<1>5. QueueInv' /\ Conservation'
  BY <1>1, <1>3, <1>4 DEF QueueInv, Conservation
<1>6. ASSUME NEW d \in Comet, pc'[d] # "idle"
      PROVE  d # c /\ pc'[d] = pc[d] /\ work'[d] = work[d]
  BY <1>2, <1>6
<1>7. pushed \subseteq pushed' /\ pushed' \subseteq pushed \cup Range(work[c])
  BY <1>1
<1>8. WorkInv'
  <2>1. ASSUME NEW d \in Comet, pc'[d] = "lpush"
        PROVE  /\ \E m \in Msg : work'[d] = <<m>>
               /\ Range(work'[d]) \subseteq (sent' \cap Range(stream)') \ pushed'
               /\ \A e \in Comet \ {d} : pc'[e] = "lpush" => Range(work'[d]) \cap Range(work'[e]) = {}
    <3>1. d # c /\ pc[d] = "lpush" /\ work'[d] = work[d]
      BY <1>6, <2>1
    <3>2. Range(work[d]) \cap Range(work[c]) = {}
      BY <1>1, <3>1 DEF WorkInv
    <3>3. Range(work[d]) \subseteq (sent \cap Range(stream)) \ pushed
      BY <3>1 DEF WorkInv
    <3>4. QED
      BY <1>1, <1>6, <1>7, <3>1, <3>2, <3>3 DEF WorkInv
  <2>2. QED
    BY <1>1, <1>6, <1>7, <2>1 DEF WorkInv
<1>9. CoverInv'
  BY <1>1, <1>6 DEF CoverInv, Overflow, SingleComet
<1>10. QED
  BY <1>5, <1>8, <1>9

\* LRANGE takes a batch out of the queue's messages; without overflow it takes
\* all of them.
LEMMA LrangeInv ==
    ASSUME TypeOK, StoreInv, NEW c \in Comet, Lrange(c)
    PROVE  StoreInv'
<1> USE DEF StoreInv
<1>1. /\ UNCHANGED <<stream, queue, rows, sent, pushed, dropped>>
      /\ \/ UNCHANGED <<pc, work, longest>>
         \/ /\ Goto(c, "insert", NewestEntries)
            /\ longest' = IF Len(queue) > longest THEN Len(queue) ELSE longest
  BY DEF Lrange
<1>2. QueueInv' /\ Conservation'
  BY <1>1 DEF QueueInv, Conservation
<1>3. CASE UNCHANGED <<pc, work, longest>>
  <2>1. WorkInv' /\ CoverInv'
    BY <1>1, <1>3 DEF WorkInv, CoverInv, Overflow
  <2>2. QED
    BY <1>2, <2>1
<1>4. CASE /\ Goto(c, "insert", NewestEntries)
           /\ longest' = IF Len(queue) > longest THEN Len(queue) ELSE longest
  <2>1. /\ NewestEntries \in Seq(Msg)
        /\ Range(NewestEntries) \subseteq Range(queue)
        /\ Len(queue) <= Batch => NewestEntries = queue
        /\ Len(queue) \in Nat /\ longest \in Nat /\ Batch \in Nat
    BY NewestEntriesRange, LenProperties, StoreAssumption DEF TypeOK
  <2>2. /\ pc'[c] = "insert" /\ work'[c] = NewestEntries
        /\ \A d \in Comet : d # c => pc'[d] = pc[d] /\ work'[d] = work[d]
    BY <1>4, <2>1, GotoEffect, KindsAndSteps DEF TypeOK
  <2>3. Range(work'[c]) \subseteq pushed
    BY <2>1, <2>2 DEF QueueInv
  <2>4. WorkInv'
    <3>1. ASSUME NEW d \in Comet, pc'[d] \in {"lpush", "del"}
          PROVE  d # c /\ pc'[d] = pc[d] /\ work'[d] = work[d]
      BY <2>2, <3>1
    <3>2. ASSUME NEW d \in Comet, pc'[d] \in {"insert", "del"}
          PROVE  Range(work'[d]) \subseteq pushed'
      BY <1>1, <2>2, <2>3, <3>2 DEF WorkInv
    <3>3. QED
      BY <1>1, <3>1, <3>2 DEF WorkInv
  <2>5. ~Overflow' => ~Overflow /\ Len(queue) <= Batch
    BY <1>4, <2>1 DEF Overflow
  <2>6. CoverInv'
    BY <1>1, <2>1, <2>2, <2>5 DEF CoverInv
  <2>7. QED
    BY <1>2, <2>4, <2>6
<1>5. QED
  BY <1>1, <1>3, <1>4

\* INSERT adds the batch to the table before the Comet goes on to the DEL.
LEMMA InsertInv ==
    ASSUME TypeOK, StoreInv, NEW c \in Comet, Insert(c)
    PROVE  StoreInv'
<1> USE DEF StoreInv
<1>1. UNCHANGED <<stream, queue, sent, pushed, dropped, longest>> /\ pc[c] = "insert"
  BY DEF Insert
<1>2. Range(work[c]) \subseteq pushed
  BY <1>1 DEF WorkInv
<1>3. rows' = rows \o work[c] => Range(rows)' = Range(rows) \cup Range(work[c])
  BY RangeConcatenation DEF TypeOK
<1>4. /\ \A d \in Comet : d # c => pc'[d] = pc[d] /\ work'[d] = work[d]
      /\ \/ pc'[c] = "idle" /\ (rows' = rows \/ rows' = rows \o work[c])
         \/ pc'[c] = "del" /\ work'[c] = work[c] /\ rows' = rows \o work[c]
  BY GotoEffect, KindsAndSteps DEF Insert, TypeOK
<1>5. Range(rows) \subseteq Range(rows)' /\ Range(rows)' \subseteq Range(rows) \cup Range(work[c])
  BY <1>3, <1>4
<1>6. QueueInv' /\ Conservation'
  BY <1>1, <1>2, <1>5 DEF QueueInv, Conservation
<1>7. ASSUME NEW d \in Comet, pc'[d] = "lpush"
      PROVE  d # c /\ pc'[d] = pc[d] /\ work'[d] = work[d]
  BY <1>4, <1>7
<1>8. ASSUME NEW d \in Comet, pc'[d] \in {"insert", "del"}
      PROVE  /\ pc[d] \in {"insert", "del"} /\ work'[d] = work[d]
             /\ Range(work'[d]) \subseteq pushed
             /\ pc'[d] = "del" => Range(work'[d]) \subseteq Range(rows)'
  <2>1. CASE d = c
    BY <1>1, <1>2, <1>3, <1>4, <1>8, <2>1
  <2>2. CASE d # c
    BY <1>4, <1>5, <1>8, <2>2 DEF WorkInv
  <2>3. QED
    BY <2>1, <2>2
<1>9. WorkInv'
  BY <1>1, <1>7, <1>8 DEF WorkInv
<1>10. CoverInv'
  BY <1>1, <1>8 DEF CoverInv, Overflow
<1>11. QED
  BY <1>6, <1>9, <1>10

\* DEL empties the queue: what the tick read is in MySQL, the rest is dropped.
LEMMA DelInv ==
    ASSUME TypeOK, StoreInv, NEW c \in Comet, Del(c)
    PROVE  StoreInv'
<1> USE DEF StoreInv
<1>1. /\ UNCHANGED <<stream, rows, sent, pushed, longest>> /\ pc[c] = "del"
      /\ \/ UNCHANGED <<queue, dropped>>
         \/ queue' = <<>> /\ dropped' = dropped \cup (Range(queue) \ Range(work[c]))
  BY DEF Del
<1>2. Range(work[c]) \subseteq Range(rows)
  BY <1>1 DEF WorkInv
<1>3. queue' = <<>> => Range(queue)' = {}
  BY RangeSmall
<1>4. /\ pc'[c] = "idle"
      /\ \A d \in Comet : d # c => pc'[d] = pc[d] /\ work'[d] = work[d]
  BY GotoEffect, KindsAndSteps DEF Del, TypeOK
<1>5. QueueInv' /\ Conservation'
  BY <1>1, <1>2, <1>3 DEF QueueInv, Conservation
<1>6. ASSUME NEW d \in Comet, pc'[d] # "idle"
      PROVE  d # c /\ pc'[d] = pc[d] /\ work'[d] = work[d]
  BY <1>4, <1>6
<1>7. WorkInv'
  BY <1>1, <1>6 DEF WorkInv
<1>8. CoverInv'
  BY <1>1, <1>3, <1>6 DEF CoverInv, Overflow
<1>9. QED
  BY <1>5, <1>7, <1>8

\* A dead or restarted process holds nothing.
LEMMA ProcessInv ==
    ASSUME TypeOK, StoreInv, NEW c \in Comet, Crash(c) \/ Restart(c)
    PROVE  StoreInv'
<1> USE DEF StoreInv
<1>1. UNCHANGED <<stream, queue, rows, sent, pushed, dropped, longest>>
  BY DEF Crash, Restart
<1>2. /\ pc'[c] \in {"idle", "down"}
      /\ \A d \in Comet : d # c => pc'[d] = pc[d] /\ work'[d] = work[d]
  BY GotoEffect, KindsAndSteps DEF Crash, Restart, TypeOK
<1>3. ASSUME NEW d \in Comet, pc'[d] \in {"lpush", "insert", "del"}
      PROVE  d # c /\ pc'[d] = pc[d] /\ work'[d] = work[d]
  BY <1>2, <1>3
<1>4. WorkInv'
  BY <1>1, <1>3 DEF WorkInv
<1>5. QueueInv' /\ Conservation' /\ CoverInv'
  BY <1>1, <1>3 DEF QueueInv, Conservation, CoverInv, Overflow
<1>6. QED
  BY <1>4, <1>5

\* The invariant holds initially.
LEMMA InitInv == Init => StoreInv
<1> SUFFICES ASSUME Init
             PROVE  StoreInv
  OBVIOUS
<1>1. Range(queue) = {} /\ Range(rows) = {}
  BY RangeSmall DEF Init
<1>2. \A c \in Comet : pc[c] = "idle"
  BY DEF Init
<1>3. QED
  BY <1>1, <1>2 DEF Init, StoreInv, WorkInv, QueueInv, Conservation, CoverInv

\* Every step keeps the invariant.
LEMMA InvStep == TypeOK /\ StoreInv /\ [Next]_vars => StoreInv'
<1>1. ASSUME StoreInv, UNCHANGED vars
      PROVE  StoreInv'
  BY <1>1 DEF vars, StoreInv, WorkInv, QueueInv, Conservation, CoverInv, Overflow
<1>2. QED
  BY <1>1, XaddInv, LpushInv, LrangeInv, InsertInv, DelInv, ProcessInv
  DEF Next, LrangeEmpty

\* The inductive invariant of the store.
THEOREM StoreInvariant == Spec => []StoreInv
  BY InitInv, InvStep, TypeCorrect, PTL DEF Spec

\* Whatever waits for MySQL or is in MySQL has its entry in a Redis stream.
THEOREM FromStream == Spec => []PersistedFromStream
<1>1. StoreInv => PersistedFromStream
  BY DEF StoreInv, QueueInv, PersistedFromStream
<1>2. QED
  BY <1>1, StoreInvariant, PTL

\* A queued message leaves the queue for MySQL, or a DEL takes it unread.
THEOREM QueueConserved == Spec => []Conservation
<1>1. StoreInv => Conservation
  BY DEF StoreInv
<1>2. QED
  BY <1>1, StoreInvariant, PTL

\* One Comet that never overflows its batch loses nothing that was queued.
THEOREM SingleCometKeeps == Spec => []QueuedKept
<1>1. StoreInv => QueuedKept
  BY DEF StoreInv, QueueInv, Conservation, CoverInv, QueuedKept, Archive!NothingForgotten
<1>2. QED
  BY <1>1, StoreInvariant, PTL

-----------------------------------------------------------------------------
(* The rows of a message.                                                  *)

\* The positions of a message in a sequence.
Places(s, m) == {i \in DOMAIN s : s[i] = m}

\* No message occurs twice in s.
OnceEach(s) == \A i, j \in DOMAIN s : s[i] = s[j] => i = j

\* The places in a sequence are finitely many.
LEMMA PlacesFinite ==
    ASSUME NEW s \in Seq(Msg), NEW m
    PROVE  IsFiniteSet(Places(s, m)) /\ Cardinality(Places(s, m)) \in Nat
<1>1. Len(s) \in Nat /\ DOMAIN s = 1 .. Len(s)
  BY LenProperties
<1>2. IsFiniteSet(1 .. Len(s))
  BY <1>1, FS_Interval
<1>3. Places(s, m) \subseteq 1 .. Len(s)
  BY <1>1 DEF Places
<1>4. QED
  BY <1>2, <1>3, FS_Subset, FS_CardinalityType

\* A batch without repetitions adds at most one row of a message, and none of a
\* message that is not in it.
LEMMA PlacesConcat ==
    ASSUME NEW s \in Seq(Msg), NEW t \in Seq(Msg), OnceEach(t), NEW m
    PROVE  /\ Cardinality(Places(s \o t, m)) <= Cardinality(Places(s, m)) + 1
           /\ m \notin Range(t) => Cardinality(Places(s \o t, m)) <= Cardinality(Places(s, m))
<1>1. /\ Len(s) \in Nat /\ Len(t) \in Nat /\ DOMAIN s = 1 .. Len(s) /\ DOMAIN t = 1 .. Len(t)
      /\ s \o t \in Seq(Msg) /\ DOMAIN (s \o t) = 1 .. Len(s) + Len(t)
      /\ \A i \in 1 .. Len(s) + Len(t) :
             (s \o t)[i] = IF i <= Len(s) THEN s[i] ELSE t[i - Len(s)]
  BY LenProperties, ConcatProperties
<1>2. Range(t) = {t[i] : i \in 1 .. Len(t)}
  BY RangeEquality
<1> DEFINE P == Places(s, m)
           Q == Places(s \o t, m)
<1>3. IsFiniteSet(P) /\ Cardinality(P) \in Nat /\ IsFiniteSet(Q) /\ Cardinality(Q) \in Nat
  BY <1>1, PlacesFinite
<1>4. \A i \in Q : i \in P \/ (i - Len(s) \in 1 .. Len(t) /\ i \in Int /\ t[i - Len(s)] = m)
  BY <1>1 DEF Places
<1>5. CASE m \notin Range(t)
  <2>1. Q \subseteq P
    BY <1>2, <1>4, <1>5
  <2> HIDE DEF P, Q
  <2>2. Cardinality(Q) <= Cardinality(P)
    BY <1>3, <2>1, FS_Subset
  <2>3. Cardinality(Q) <= Cardinality(P) + 1
    BY <1>3, <2>2
  <2>4. QED
    BY <2>2, <2>3 DEF P, Q
<1>6. CASE m \in Range(t)
  <2>1. PICK j \in 1 .. Len(t) : t[j] = m
    BY <1>2, <1>6
  <2>2. Q \subseteq P \cup {Len(s) + j}
    <3> SUFFICES ASSUME NEW i \in Q, i \notin P
                 PROVE  i = Len(s) + j
      OBVIOUS
    <3>1. i - Len(s) \in 1 .. Len(t) /\ i \in Int /\ t[i - Len(s)] = m
      BY <1>4
    <3>2. i - Len(s) = j
      BY <1>1, <2>1, <3>1 DEF OnceEach
    <3>3. QED
      BY <1>1, <2>1, <3>1, <3>2
  <2> DEFINE x == Len(s) + j
  <2> HIDE DEF P, Q, x
  <2>3. /\ IsFiniteSet(P \cup {x})
        /\ Cardinality(P \cup {x}) = IF x \in P THEN Cardinality(P) ELSE Cardinality(P) + 1
    BY <1>3, FS_AddElement
  <2>4. Cardinality(Q) <= Cardinality(P \cup {x})
    BY <2>2, <2>3, FS_Subset DEF x
  <2>5. Cardinality(Q) <= Cardinality(P) + 1
    BY <1>3, <2>3, <2>4
  <2>6. QED
    BY <1>6, <2>5 DEF P, Q
<1>7. QED
  BY <1>5, <1>6

\* Nothing that LRANGE reads comes twice.
LEMMA NewestEntriesOnce ==
    ASSUME queue \in Seq(Msg), OnceEach(queue)
    PROVE  OnceEach(NewestEntries)
<1> DEFINE n == IF Len(queue) < Batch THEN Len(queue) ELSE Batch
<1>1. Len(queue) \in Nat /\ Batch \in Nat /\ DOMAIN queue = 1 .. Len(queue)
  BY LenProperties, StoreAssumption
<1>2. n \in Nat /\ n <= Len(queue) /\ \A i \in 1 .. n : queue[i] \in Msg
  BY <1>1, ElementOfSeq
<1> HIDE DEF n
<1>3. /\ SubSeq(queue, 1, n) \in Seq(Msg)
      /\ Len(SubSeq(queue, 1, n)) = n
      /\ \A i \in 1 .. n : SubSeq(queue, 1, n)[i] = queue[i]
  BY <1>2, SubSeqProperties
<1>4. DOMAIN SubSeq(queue, 1, n) = 1 .. n
  BY <1>3, LenProperties
<1>5. OnceEach(SubSeq(queue, 1, n))
  BY <1>1, <1>2, <1>3, <1>4 DEF OnceEach
<1>6. QED
  BY <1>5 DEF NewestEntries, n

\* A message that may still be inserted: it is not queued yet, or the queue has
\* it and no DEL is about to take it.
Due(m) ==
    m \notin pushed \/ (m \in Range(queue) /\ \A c \in Comet : pc[c] = "del" => m \notin Range(work[c]))

DueRows(m) == IF Due(m) THEN 1 ELSE 0

\* The queue and the batch repeat nothing, the batch is still in the queue, and
\* a message that may be inserted once more has a row to spare.
RowInv ==
    /\ OnceEach(queue)
    /\ \A c \in Comet : pc[c] = "insert" => OnceEach(work[c])
    /\ \A c \in Comet : pc[c] \in {"insert", "del"} => Range(work[c]) \subseteq Range(queue)
    /\ \A m \in Msg : Cardinality(Places(rows, m)) + DueRows(m) <= 1 + nfaults

\* The count of faults never goes back.
LEMMA FaultsGrow ==
    ASSUME TypeOK, [Next]_vars
    PROVE  /\ nfaults \in Nat /\ nfaults' \in Nat /\ nfaults' >= nfaults
           /\ \A m \in Msg : Cardinality(Places(rows, m)) \in Nat /\ DueRows(m) \in {0, 1}
<1>1. nfaults \in Nat
  BY DEF TypeOK
<1>2. nfaults' = nfaults \/ nfaults' = nfaults + 1
  BY DEF Next, vars, Xadd, Lpush, Lrange, LrangeEmpty, Insert, Del, Crash, Restart, NoFault, Fault
<1>3. \A m \in Msg : Cardinality(Places(rows, m)) \in Nat
  BY PlacesFinite DEF TypeOK
<1>4. QED
  BY <1>1, <1>2, <1>3 DEF DueRows

\* A step that inserts nothing, and makes nothing due without a fault.
LEMMA RowsQuiet ==
    ASSUME TypeOK, [Next]_vars, RowInv, rows' = rows, NEW m \in Msg,
           Due(m)' => Due(m) \/ nfaults' = nfaults + 1
    PROVE  Cardinality(Places(rows, m)') + DueRows(m)' <= 1 + nfaults'
<1>1. /\ nfaults \in Nat /\ nfaults' \in Nat /\ nfaults' >= nfaults
      /\ Cardinality(Places(rows, m)) \in Nat /\ DueRows(m) \in {0, 1}
  BY FaultsGrow
<1>2. Places(rows, m)' = Places(rows, m)
  BY DEF Places
<1>3. Cardinality(Places(rows, m)) + DueRows(m) <= 1 + nfaults
  BY DEF RowInv
<1>4. Due(m)' \/ ~Due(m)'
  OBVIOUS
<1>5. QED
  BY <1>1, <1>2, <1>3, <1>4 DEF DueRows

\* The steps of the only Comet that leave queue and rows alone.
LEMMA RowsIdle ==
    ASSUME TypeOK, StoreInv, RowInv, SingleComet, [Next]_vars, NEW c \in Comet,
           UNCHANGED <<queue, rows, pushed>>,
           pc'[c] \in {"idle", "lpush", "down"},
           pc[c] = "del" => nfaults' = nfaults + 1
    PROVE  RowInv'
<1>1. \A d \in Comet : d = c
  BY DEF SingleComet
<1>2. \A m \in Msg : Due(m)' => Due(m) \/ nfaults' = nfaults + 1
  BY <1>1 DEF Due
<1>3. \A m \in Msg : Cardinality(Places(rows, m)') + DueRows(m)' <= 1 + nfaults'
  BY <1>2, RowsQuiet
<1>4. QED
  BY <1>1, <1>3 DEF RowInv

\* LPUSH puts a message in front that the queue did not have.
LEMMA LpushRows ==
    ASSUME TypeOK, StoreInv, RowInv, SingleComet, NEW c \in Comet, Lpush(c)
    PROVE  RowInv'
<1>0. [Next]_vars
  BY DEF Next
<1>1. /\ pc[c] = "lpush" /\ pc'[c] = "idle" /\ rows' = rows
      /\ \/ UNCHANGED <<queue, pushed>>
         \/ queue' = work[c] \o queue /\ pushed' = pushed \cup Range(work[c])
  BY GotoEffect, KindsAndSteps DEF Lpush, TypeOK
<1>2. CASE UNCHANGED <<queue, pushed>>
  BY <1>0, <1>1, <1>2, RowsIdle
<1>3. CASE queue' = work[c] \o queue /\ pushed' = pushed \cup Range(work[c])
  <2>1. PICK m \in Msg : work[c] = <<m>>
    BY <1>1 DEF StoreInv, WorkInv
  <2>2. Range(<<m>>) = {m} /\ m \notin pushed /\ <<m>> \in Seq(Msg)
    BY <1>1, <2>1, RangeSmall DEF StoreInv, WorkInv
  <2>3. m \notin Range(queue)
    BY <2>2 DEF StoreInv, QueueInv
  <2>4. Range(queue)' = {m} \cup Range(queue)
    <3>1. Range(work[c]) = {m} /\ work[c] \in Seq(Msg)
      BY <2>1, <2>2 DEF TypeOK
    <3>2. QED
      BY <1>3, <3>1, RangeConcatenation DEF TypeOK
  <2>5. OnceEach(queue)'
    <3>1. /\ Len(queue) \in Nat /\ DOMAIN queue = 1 .. Len(queue)
          /\ Range(queue) = {queue[i] : i \in 1 .. Len(queue)}
      BY LenProperties, RangeEquality DEF TypeOK
    <3>2. queue' = <<m>> \o queue /\ Len(<<m>>) = 1 /\ <<m>>[1] = m
      BY <1>3, <2>1
    <3>3. /\ DOMAIN queue' = 1 .. 1 + Len(queue)
          /\ \A i \in 1 .. 1 + Len(queue) : queue'[i] = IF i <= 1 THEN <<m>>[i] ELSE queue[i - 1]
      BY <2>2, <3>2, ConcatProperties, LenProperties DEF TypeOK
    <3>4. \A i \in DOMAIN queue' : \/ i = 1 /\ queue'[i] = m
                                   \/ i - 1 \in DOMAIN queue /\ queue'[i] = queue[i - 1] /\ queue'[i] # m
      BY <2>3, <3>1, <3>2, <3>3
    <3>5. \A i, j \in DOMAIN queue' : queue'[i] = queue'[j] => i = j
      BY <3>1, <3>3, <3>4 DEF RowInv, OnceEach
    <3>6. QED
      BY <3>5 DEF OnceEach
  <2>6. \A d \in Comet : d = c
    BY DEF SingleComet
  <2>7. \A n \in Msg : Due(n)' => Due(n)
    BY <1>1, <1>3, <2>1, <2>2, <2>4, <2>6 DEF Due
  <2>8. \A n \in Msg : Cardinality(Places(rows, n)') + DueRows(n)' <= 1 + nfaults'
    BY <1>0, <1>1, <2>7, RowsQuiet
  <2>9. QED
    BY <1>1, <2>5, <2>6, <2>8 DEF RowInv
<1>4. QED
  BY <1>1, <1>2, <1>3

\* LRANGE copies entries of the queue, none twice.
LEMMA LrangeRows ==
    ASSUME TypeOK, StoreInv, RowInv, SingleComet, NEW c \in Comet, Lrange(c)
    PROVE  RowInv'
<1>0. [Next]_vars
  BY DEF Next
<1>1. /\ UNCHANGED <<queue, rows, pushed>> /\ pc[c] = "idle"
      /\ UNCHANGED <<pc, work>> \/ Goto(c, "insert", NewestEntries)
  BY DEF Lrange
<1>2. CASE UNCHANGED <<pc, work>>
  BY <1>0, <1>1, <1>2, RowsIdle
<1>3. CASE Goto(c, "insert", NewestEntries)
  <2>1. /\ NewestEntries \in Seq(Msg) /\ Range(NewestEntries) \subseteq Range(queue)
        /\ OnceEach(NewestEntries)
    BY NewestEntriesRange, NewestEntriesOnce DEF TypeOK, RowInv
  <2>2. pc'[c] = "insert" /\ work'[c] = NewestEntries /\ \A d \in Comet : d = c
    BY <1>3, <2>1, GotoEffect, KindsAndSteps DEF TypeOK, SingleComet
  <2>3. \A n \in Msg : Due(n)' => Due(n)
    BY <1>1, <2>2 DEF Due
  <2>4. \A n \in Msg : Cardinality(Places(rows, n)') + DueRows(n)' <= 1 + nfaults'
    BY <1>0, <1>1, <2>3, RowsQuiet
  <2>5. QED
    BY <1>1, <2>1, <2>2, <2>4 DEF RowInv
<1>4. QED
  BY <1>1, <1>2, <1>3

\* An INSERT gives each message of the batch one row more; the messages are due
\* again only if its reply was lost.
LEMMA InsertRows ==
    ASSUME TypeOK, StoreInv, RowInv, SingleComet, NEW c \in Comet, Insert(c)
    PROVE  RowInv'
<1>0. [Next]_vars
  BY DEF Next
<1>1. /\ UNCHANGED <<queue, pushed>> /\ pc[c] = "insert" /\ \A d \in Comet : d = c
      /\ work[c] \in Seq(Msg)
  BY DEF Insert, TypeOK, SingleComet
<1>2. \/ pc'[c] = "idle" /\ rows' = rows
      \/ /\ rows' = rows \o work[c]
         /\ \/ pc'[c] = "idle" /\ nfaults' = nfaults + 1
            \/ pc'[c] = "del" /\ work'[c] = work[c]
  BY GotoEffect, KindsAndSteps DEF Insert, TypeOK, Fault
<1>3. CASE pc'[c] = "idle" /\ rows' = rows
  BY <1>0, <1>1, <1>3, RowsIdle
<1>4. CASE /\ rows' = rows \o work[c]
           /\ \/ pc'[c] = "idle" /\ nfaults' = nfaults + 1
              \/ pc'[c] = "del" /\ work'[c] = work[c]
  <2>1. OnceEach(work[c]) /\ Range(work[c]) \subseteq Range(queue)
    BY <1>1 DEF RowInv
  <2>2. ASSUME NEW m \in Msg
        PROVE  Cardinality(Places(rows, m)') + DueRows(m)' <= 1 + nfaults'
    <3>1. /\ nfaults \in Nat /\ nfaults' \in Nat /\ nfaults' >= nfaults
          /\ Cardinality(Places(rows, m)) \in Nat /\ DueRows(m) \in {0, 1}
      BY <1>0, FaultsGrow
    <3>2. Cardinality(Places(rows, m)) + DueRows(m) <= 1 + nfaults
      BY DEF RowInv
    <3>3. rows' \in Seq(Msg) /\ Places(rows, m)' = Places(rows \o work[c], m)
      BY <1>1, <1>4, ConcatProperties DEF TypeOK, Places
    <3>4. /\ Cardinality(Places(rows, m)') <= Cardinality(Places(rows, m)) + 1
          /\ m \notin Range(work[c]) => Cardinality(Places(rows, m)') <= Cardinality(Places(rows, m))
      BY <1>1, <2>1, <3>3, PlacesConcat DEF TypeOK
    <3>5. Cardinality(Places(rows, m)') \in Nat
      BY <3>3, PlacesFinite
    <3>6. Due(m)' => Due(m)
      BY <1>1 DEF Due
    <3>7. CASE m \notin Range(work[c])
      BY <3>1, <3>2, <3>4, <3>5, <3>6, <3>7 DEF DueRows
    <3>8. CASE m \in Range(work[c])
      <4>1. Due(m)
        BY <1>1, <2>1, <3>8 DEF Due
      <4>2. m \in pushed
        BY <1>1, <3>8 DEF StoreInv, WorkInv
      <4>3. Due(m)' => nfaults' = nfaults + 1
        BY <1>1, <1>4, <3>8, <4>2 DEF Due
      <4>4. Due(m)' \/ ~Due(m)'
        OBVIOUS
      <4>5. QED
        BY <3>1, <3>2, <3>4, <3>5, <4>1, <4>3, <4>4 DEF DueRows
    <3>9. QED
      BY <3>7, <3>8
  <2>3. QED
    BY <1>1, <1>4, <2>1, <2>2 DEF RowInv
<1>5. QED
  BY <1>2, <1>3, <1>4

\* A DEL leaves nothing due that was inserted; a failed one is a fault.
LEMMA DelRows ==
    ASSUME TypeOK, StoreInv, RowInv, SingleComet, NEW c \in Comet, Del(c)
    PROVE  RowInv'
<1>0. [Next]_vars
  BY DEF Next
<1>1. /\ UNCHANGED <<rows, pushed>> /\ pc'[c] = "idle" /\ \A d \in Comet : d = c
      /\ \/ queue' = <<>>
         \/ queue' = queue /\ nfaults' = nfaults + 1
  BY GotoEffect, KindsAndSteps DEF Del, TypeOK, Fault, SingleComet
<1>2. CASE queue' = queue /\ nfaults' = nfaults + 1
  BY <1>0, <1>1, <1>2, RowsIdle
<1>3. CASE queue' = <<>>
  <2>1. Range(queue)' = {} /\ OnceEach(queue)'
    BY <1>3, RangeSmall DEF OnceEach
  <2>2. \A m \in Msg : Due(m)' => Due(m)
    BY <1>1, <2>1 DEF Due
  <2>3. \A m \in Msg : Cardinality(Places(rows, m)') + DueRows(m)' <= 1 + nfaults'
    BY <1>0, <1>1, <2>2, RowsQuiet
  <2>4. QED
    BY <1>1, <2>1, <2>3 DEF RowInv
<1>4. QED
  BY <1>1, <1>2, <1>3

\* Every step of the only Comet keeps the count of the rows.
LEMMA RowStep ==
    ASSUME SingleComet, TypeOK, StoreInv, RowInv, [Next]_vars
    PROVE  RowInv'
<1>1. ASSUME UNCHANGED vars
      PROVE  RowInv'
  <2>1. UNCHANGED <<queue, rows, pc, work, pushed, nfaults>>
    BY <1>1 DEF vars
  <2>2. \A m \in Msg : Due(m)' => Due(m)
    BY <2>1 DEF Due
  <2>3. \A m \in Msg : Cardinality(Places(rows, m)') + DueRows(m)' <= 1 + nfaults'
    BY <2>1, <2>2, RowsQuiet
  <2>4. OnceEach(queue)' /\ \A c \in Comet : pc'[c] = "insert" => OnceEach(work[c])'
    BY <2>1 DEF RowInv, OnceEach
  <2>5. \A c \in Comet : pc'[c] \in {"insert", "del"} => Range(work[c])' \subseteq Range(queue)'
    BY <2>1 DEF RowInv
  <2>6. QED
    BY <2>3, <2>4, <2>5 DEF RowInv
<1>2. ASSUME NEW c \in Comet, Crash(c) \/ Restart(c) \/ \E m \in Msg : Xadd(c, m)
      PROVE  RowInv'
  <2>1. /\ UNCHANGED <<queue, rows, pushed>>
        /\ pc[c] = "del" => nfaults' = nfaults + 1
    BY <1>2 DEF Crash, Restart, Xadd, Fault
  <2>2. pc'[c] \in {"idle", "lpush", "down"}
    <3>1. ASSUME NEW m \in Msg, Xadd(c, m)
          PROVE  pc'[c] \in {"idle", "lpush"}
      <4>1. <<m>> \in Seq(Msg)
        BY SmallSeq
      <4>2. Goto(c, "lpush", <<m>>) \/ (pc' = pc /\ pc[c] = "idle")
        BY <3>1 DEF Xadd
      <4>3. QED
        BY <4>1, <4>2, GotoEffect, KindsAndSteps DEF TypeOK
    <3>2. QED
      BY <1>2, <3>1, GotoEffect, KindsAndSteps DEF Crash, Restart, TypeOK
  <2>3. QED
    BY <2>1, <2>2, RowsIdle
<1>3. QED
  BY <1>1, <1>2, LpushRows, LrangeRows, InsertRows, DelRows DEF Next, LrangeEmpty

\* With one Comet a message has one row, and one more for each fault at most
\* (api_msg.cc:228-232).
THEOREM RowsAreBounded == Spec => []RowsBounded
<1> DEFINE Inv == (TypeOK /\ StoreInv) /\ (SingleComet => RowInv)
<1>1. Init => (SingleComet => RowInv)
  <2> SUFFICES ASSUME Init
               PROVE  RowInv
    OBVIOUS
  <2>1. OnceEach(queue) /\ \A c \in Comet : pc[c] = "idle"
    BY DEF Init, OnceEach
  <2>2. ASSUME NEW m \in Msg
        PROVE  Cardinality(Places(rows, m)) + DueRows(m) <= 1 + nfaults
    <3>1. Places(rows, m) = {}
      BY DEF Init, Places
    <3>2. nfaults = 0 /\ DueRows(m) \in {0, 1}
      BY DEF Init, DueRows
    <3>3. QED
      BY <3>1, <3>2, FS_EmptySet
  <2>3. QED
    BY <2>1, <2>2 DEF RowInv
<1>2. (TypeOK /\ StoreInv) /\ (SingleComet => RowInv) /\ [Next]_vars => (SingleComet => RowInv)'
  <2>1. SingleComet' <=> SingleComet
    BY DEF SingleComet
  <2>2. QED
    BY <2>1, RowStep
<1>3. (TypeOK /\ StoreInv) /\ (SingleComet => RowInv) => RowsBounded
  <2> SUFFICES ASSUME TypeOK, RowInv, NEW m \in Msg
               PROVE  Cardinality({i \in DOMAIN rows : rows[i] = m}) <= 1 + nfaults
    BY DEF RowsBounded
  <2>1. Cardinality(Places(rows, m)) \in Nat /\ DueRows(m) \in {0, 1} /\ nfaults \in Nat
    BY PlacesFinite DEF DueRows, TypeOK
  <2>2. Cardinality(Places(rows, m)) + DueRows(m) <= 1 + nfaults
    BY DEF RowInv
  <2>3. Cardinality(Places(rows, m)) <= 1 + nfaults
    BY <2>1, <2>2
  <2>4. QED
    BY <2>3 DEF Places
<1>4. QED
  BY <1>1, <1>2, <1>3, TypeCorrect, StoreInvariant, PTL DEF Spec

-----------------------------------------------------------------------------
(* The history.                                                            *)

\* The last field of a stream entry is not its payload.
LEMMA Unreadable == ~EntryReadable
<1>1. Len(EntryFields) = 2 /\ EntryFields[2] = "room_id"
  BY DEF EntryFields
<1>2. QED
  BY <1>1 DEF EntryReadable

\* When nothing is on the way, the rows are the accepted messages.
LEMMA RowsAreAccepted ==
    ASSUME TypeOK, StoreInv, queue = <<>>, accepted = pushed, dropped = {}
    PROVE  Range(rows) = accepted /\ accepted \subseteq Range(stream)
<1>1. Range(queue) = {}
  BY RangeSmall
<1>2. QED
  BY <1>1 DEF StoreInv, QueueInv, Conservation

\* As many rows of a room are newer than a row as accepted messages of the room
\* are newer than its message.
LEMMA NewerRows ==
    ASSUME TypeOK, IsInjective(rows), Range(rows) = accepted, NEW r \in Room, NEW j \in DOMAIN rows
    PROVE  Cardinality({l \in InRoom(rows, r) : Stamp(rows[l]) > Stamp(rows[j])}) =
           Cardinality({o \in accepted : RoomOf[o] = r /\ Stamp(o) > Stamp(rows[j])})
<1> DEFINE Newer(o) == Stamp(o) > Stamp(rows[j])
           L == {l \in InRoom(rows, r) : Newer(rows[l])}
           A == {o \in accepted : RoomOf[o] = r /\ Newer(o)}
           f == [l \in L |-> rows[l]]
<1>1. /\ Len(rows) \in Nat /\ DOMAIN rows = 1 .. Len(rows)
      /\ accepted = {rows[i] : i \in 1 .. Len(rows)}
  BY LenProperties, RangeEquality DEF TypeOK
<1> HIDE DEF Newer
<1>2. IsFiniteSet(L)
  <2>1. IsFiniteSet(1 .. Len(rows)) /\ L \subseteq 1 .. Len(rows)
    BY <1>1, FS_Interval DEF InRoom
  <2> HIDE DEF L
  <2>2. QED
    BY <2>1, FS_Subset
<1>3. f \in [L -> A]
  BY <1>1 DEF InRoom
<1>4. \A a, b \in L : f[a] = f[b] => a = b
  BY <1>1 DEF InRoom, IsInjective
<1>5. \A o \in A : \E l \in L : f[l] = o
  <2> SUFFICES ASSUME NEW o \in A
               PROVE  \E l \in L : f[l] = o
    OBVIOUS
  <2>1. PICK l \in DOMAIN rows : rows[l] = o
    BY <1>1
  <2>2. l \in L
    BY <2>1 DEF InRoom
  <2>3. QED
    BY <2>1, <2>2
<1> HIDE DEF L, A, f
<1>6. f \in Bijection(L, A)
  BY <1>3, <1>4, <1>5, Fun_IsInj, Fun_IsSurj DEF Bijection
<1>7. ExistsBijection(L, A)
  BY <1>6 DEF ExistsBijection
<1>8. Cardinality(A) = Cardinality(L)
  BY <1>2, <1>7, FS_Bijection
<1>9. QED
  BY <1>8 DEF L, A, Newer

\* The history a user gets is what MySQL has.
LEMMA HistoryFollows == TypeOK /\ StoreInv => HistoryComplete
<1> SUFFICES ASSUME TypeOK, StoreInv, queue = <<>>, accepted = pushed, dropped = {},
                    IsInjective(rows), NEW r \in Room, NEW n \in 1 .. Cardinality(Msg)
             PROVE  RoomHistory(r, n) = NewestAccepted(r, n)
  BY DEF HistoryComplete
<1>1. Range(rows) = accepted /\ accepted \subseteq Range(stream)
  BY RowsAreAccepted
<1>2. /\ accepted = {rows[i] : i \in DOMAIN rows}
      /\ Range(stream) = {stream[i] : i \in DOMAIN stream}
  BY <1>1 DEF Range
<1>3. NewestRows(r, n) = NewestAccepted(r, n)
  <2>1. \A j \in InRoom(rows, r) : j \in DOMAIN rows
    BY DEF InRoom
  <2> DEFINE NewerRow(j) == {l \in InRoom(rows, r) : Stamp(rows[l]) > Stamp(rows[j])}
             NewerMsg(m) == {o \in accepted : RoomOf[o] = r /\ Stamp(o) > Stamp(m)}
  <2>2. \A j \in InRoom(rows, r) : Cardinality(NewerRow(j)) = Cardinality(NewerMsg(rows[j]))
    BY <1>1, <2>1, NewerRows
  <2>3. /\ NewestRows(r, n) = {rows[i] : i \in {j \in InRoom(rows, r) : Cardinality(NewerRow(j)) < n}}
        /\ NewestAccepted(r, n) =
               {m \in accepted : RoomOf[m] = r /\ Cardinality(NewerMsg(m)) < n}
    BY DEF NewestRows, NewestAccepted
  <2> HIDE DEF NewerRow, NewerMsg
  <2>4. QED
    BY <1>2, <2>2, <2>3 DEF InRoom
<1>4. RoomHistory(r, n) = NewestRows(r, n)
  <2>1. RedisHistory(r, n) = {}
    BY Unreadable DEF RedisHistory, RedisFails, NewestInStream
  <2>2. Cardinality({}) = 0 /\ n \in Int /\ n >= 1 /\ n - 0 = n /\ ~(0 >= n)
    BY FS_EmptySet
  <2>3. QED
    BY <2>1, <2>2 DEF RoomHistory
<1>5. QED
  BY <1>3, <1>4

\* Once the queue is empty and nothing was lost on the way, a user who enters
\* gets the newest n messages of each room: from MySQL alone
\* (api_msg.cc:242-295).
THEOREM HistoryIsComplete == Spec => []HistoryComplete
  BY HistoryFollows, TypeCorrect, StoreInvariant, PTL

-----------------------------------------------------------------------------
(* Refinement.                                                             *)

\* An LPUSH that succeeds accepts a new message.
LEMMA LpushRefines ==
    ASSUME TypeOK, StoreInv, NEW c \in Comet, Lpush(c)
    PROVE  [Archive!ArchiveNext]_(Archive!archiveVars)
<1>1. /\ UNCHANGED <<rows, longest>> /\ pc[c] = "lpush"
      /\ \/ UNCHANGED <<queue, pushed>>
         \/ queue' = work[c] \o queue /\ pushed' = pushed \cup Range(work[c])
  BY DEF Lpush
<1>2. PICK m \in Msg : work[c] = <<m>>
  BY <1>1 DEF StoreInv, WorkInv
<1>3. Range(work[c]) = {m} /\ m \notin pushed
  BY <1>1, <1>2, RangeSmall DEF StoreInv, WorkInv
<1>4. CASE UNCHANGED <<queue, pushed>>
  BY <1>1, <1>4 DEF Archive!archiveVars, Overflow
<1>5. CASE queue' = work[c] \o queue /\ pushed' = pushed \cup Range(work[c])
  <2>1. Range(queue)' = {m} \cup Range(queue)
    BY <1>3, <1>5, RangeConcatenation DEF TypeOK
  <2>2. m \notin Range(rows)
    BY <1>3 DEF StoreInv, QueueInv
  <2>3. Archive!Accept(m)
    BY <1>1, <1>3, <1>5, <2>1, <2>2 DEF Archive!Accept, Overflow
  <2>4. QED
    BY <2>3 DEF Archive!ArchiveNext
<1>6. QED
  BY <1>1, <1>4, <1>5

\* An INSERT archives its batch, or nothing.
LEMMA InsertRefines ==
    ASSUME TypeOK, StoreInv, NEW c \in Comet, Insert(c)
    PROVE  [Archive!ArchiveNext]_(Archive!archiveVars)
<1>1. /\ UNCHANGED <<queue, pushed, longest>> /\ pc[c] = "insert"
      /\ UNCHANGED rows \/ rows' = rows \o work[c]
  BY DEF Insert
<1>2. Range(work[c]) \subseteq pushed /\ pushed \subseteq Msg
  BY <1>1 DEF StoreInv, WorkInv, TypeOK
<1>3. CASE UNCHANGED rows
  BY <1>1, <1>3 DEF Archive!archiveVars, Overflow
<1>4. CASE rows' = rows \o work[c]
  <2>1. Range(rows)' = Range(rows) \cup Range(work[c])
    BY <1>4, RangeConcatenation DEF TypeOK
  <2>2. Archive!Archive(Range(work[c]))
    BY <1>1, <1>2, <2>1 DEF Archive!Archive, Overflow
  <2>3. Range(work[c]) \in SUBSET Msg
    BY <1>2
  <2>4. QED
    BY <2>2, <2>3 DEF Archive!ArchiveNext
<1>5. QED
  BY <1>1, <1>3, <1>4

\* A DEL forgets what is not in MySQL: nothing, unless the deployment is degraded.
LEMMA DelRefines ==
    ASSUME TypeOK, StoreInv, NEW c \in Comet, Del(c)
    PROVE  [Archive!ArchiveNext]_(Archive!archiveVars)
<1> DEFINE unsaved == Range(queue) \ Range(rows)
<1>1. /\ UNCHANGED <<rows, pushed, longest>> /\ pc[c] = "del"
      /\ UNCHANGED queue \/ queue' = <<>>
  BY DEF Del
<1>2. CASE UNCHANGED queue
  BY <1>1, <1>2 DEF Archive!archiveVars, Overflow
<1>3. CASE queue' = <<>>
  <2>1. Range(queue)' = {}
    BY <1>3, RangeSmall
  <2>2. CASE Overflow \/ ~SingleComet
    <3>1. Archive!Forget(unsaved)
      BY <1>1, <2>1, <2>2 DEF Archive!Forget, Overflow
    <3>2. unsaved \in SUBSET Msg
      BY DEF StoreInv, QueueInv, TypeOK
    <3>3. QED
      BY <3>1, <3>2 DEF Archive!ArchiveNext
  <2>3. CASE ~(Overflow \/ ~SingleComet)
    <3>1. unsaved = {}
      BY <1>1, <2>3 DEF StoreInv, WorkInv, CoverInv
    <3>2. QED
      BY <1>1, <2>1, <3>1 DEF Archive!archiveVars, Overflow
  <2>4. QED
    BY <2>2, <2>3
<1>4. QED
  BY <1>1, <1>2, <1>3

\* An LRANGE may be the one that finds too much.
LEMMA LrangeRefines ==
    ASSUME TypeOK, NEW c \in Comet, Lrange(c)
    PROVE  [Archive!ArchiveNext]_(Archive!archiveVars)
<1>1. UNCHANGED <<queue, rows, pushed>>
  BY DEF Lrange
<1>2. Len(queue) \in Nat /\ longest \in Nat /\ longest' \in Nat /\ Batch \in Nat /\ longest' >= longest
  BY LrangeType, LenProperties, StoreAssumption DEF TypeOK, Lrange
<1>3. Overflow => Overflow'
  BY <1>2 DEF Overflow
<1>4. CASE Overflow' <=> Overflow
  <2>1. (Overflow \/ ~SingleComet)' = (Overflow \/ ~SingleComet)
    BY <1>4 DEF SingleComet
  <2>2. QED
    BY <1>1, <2>1 DEF Archive!archiveVars
<1>5. CASE Overflow'
  <2>1. (Overflow \/ ~SingleComet)' = TRUE
    BY <1>5
  <2>2. Archive!Degrade
    BY <1>1, <2>1 DEF Archive!Degrade
  <2>3. QED
    BY <2>2 DEF Archive!ArchiveNext
<1>6. QED
  BY <1>3, <1>4, <1>5

\* The Redis queue and the MySQL table implement the archive.
THEOREM StoreRefinesArchive == Spec => ArchiveSpec
<1>1. Init => Archive!ArchiveInit
  <2> SUFFICES ASSUME Init
               PROVE  Archive!ArchiveInit
    OBVIOUS
  <2>1. Range(queue) = {} /\ Range(rows) = {} /\ pushed = {}
    BY RangeSmall DEF Init
  <2>2. (Overflow \/ ~SingleComet) \in BOOLEAN
    OBVIOUS
  <2>3. QED
    BY <2>1, <2>2 DEF Archive!ArchiveInit
<1>2. TypeOK /\ StoreInv /\ [Next]_vars => [Archive!ArchiveNext]_(Archive!archiveVars)
  <2>1. ASSUME UNCHANGED <<queue, rows, pushed, longest>>
        PROVE  UNCHANGED Archive!archiveVars
    BY <2>1 DEF Archive!archiveVars, Overflow
  <2>2. ASSUME NEW c \in Comet, NEW m \in Msg, Xadd(c, m) \/ Crash(c) \/ Restart(c)
        PROVE  UNCHANGED <<queue, rows, pushed, longest>>
    BY <2>2 DEF Xadd, Crash, Restart
  <2>3. ASSUME NEW c \in Comet, Crash(c) \/ Restart(c)
        PROVE  UNCHANGED <<queue, rows, pushed, longest>>
    BY <2>3 DEF Crash, Restart
  <2>4. ASSUME UNCHANGED vars
        PROVE  UNCHANGED <<queue, rows, pushed, longest>>
    BY <2>4 DEF vars
  <2>5. QED
    BY <2>1, <2>2, <2>3, <2>4, LpushRefines, InsertRefines, DelRefines, LrangeRefines
    DEF Next, LrangeEmpty
<1>3. QED
  BY <1>1, <1>2, TypeCorrect, StoreInvariant, PTL
  DEF Spec, ArchiveSpec, Archive!ArchiveSpec
=============================================================================
