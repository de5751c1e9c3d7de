-------------------------- MODULE RedisConnProofs --------------------------
(***************************************************************************)
(* Proofs about RedisConn and its parser, for any number of connections,   *)
(* any handlers and any replies of the server that are trees.              *)
(*                                                                         *)
(* The parser: fed with the bytes of a reply in any pieces it either       *)
(* refuses the reply or restores its nodes, each in its place, and it      *)
(* hands out a reply exactly when the last of its bytes has been read.     *)
(*                                                                         *)
(* IInv: NULL stands for a context in error and nothing else, and a        *)
(* context in error is in the pool only after a command whose wrapper      *)
(* keeps it.  Exchange: where the two halves of the command under way and  *)
(* the parts of its reply are; with what is proved of the parser it        *)
(* follows that a wrapper gets the answer to its own command, whole, and   *)
(* that nothing of an exchange is left behind.                             *)
(*                                                                         *)
(* ReplyProgress: how far the job of Codecs that reads replies from a      *)
(* stream has come; the replies come out in order, each with its nodes.    *)
(***************************************************************************)
EXTENDS RedisConn, CodecsProofs

-----------------------------------------------------------------------------
(* What is read.                                                           *)

Nodes == [type : NodeTypes, n : Int]
PartsSet == [part : {"type", "line", "bytes"}, node : Nodes]
\* what the server may send
Replies == {s \in Seq(Nodes) : IsReply(s)}

\* The count of the announced nodes, node by node.
CountsTo(nodes, n, g) ==
    g = [k \in 0..n |-> IF k = 0 THEN 1 ELSE g[k - 1] - 1 + Announced(nodes[k])]

\* Owed counts so.
LEMMA OwedSteps ==
    ASSUME NEW nodes \in Seq(Nodes)
    PROVE  /\ Owed(nodes)[0] = 1
           /\ \A k \in 1..Len(nodes) :
                Owed(nodes)[k] = Owed(nodes)[k - 1] - 1 + Announced(nodes[k])
<1>. DEFINE S == {n \in Nat : \E g : CountsTo(nodes, n, g)}
<1>1. 0 \in S
  <2>. DEFINE g == [k \in 0..0 |-> 1]
  <2>1. CountsTo(nodes, 0, g)
    BY DEF CountsTo
  <2>. QED BY <2>1
<1>2. ASSUME NEW n \in Nat, n \in S PROVE n + 1 \in S
  <2>1. PICK g : CountsTo(nodes, n, g)
    BY <1>2
  <2>. DEFINE h == [k \in 0..n + 1 |-> IF k <= n THEN g[k]
                                       ELSE g[k - 1] - 1 + Announced(nodes[k])]
  <2>2. ASSUME NEW k \in 0..n + 1
        PROVE  h[k] = IF k = 0 THEN 1 ELSE h[k - 1] - 1 + Announced(nodes[k])
    <3>1. \A j \in 0..n : g[j] = IF j = 0 THEN 1 ELSE g[j - 1] - 1 + Announced(nodes[j])
      BY <2>1 DEF CountsTo
    <3>2. k # 0 => k - 1 \in 0..n /\ h[k - 1] = g[k - 1]
      OBVIOUS
    <3>. QED BY <3>1, <3>2
  <2>3. h = [k \in 0..n + 1 |-> h[k]]
    OBVIOUS
  <2>. HIDE DEF h
  <2>4. CountsTo(nodes, n + 1, h)
    BY <2>2, <2>3, Zenon DEF CountsTo
  <2>. QED BY <2>4
<1>3. Nat \subseteq S
  <2>. HIDE DEF S
  <2>. QED BY <1>1, <1>2, SetInduction
<1>. DEFINE h == CHOOSE g : CountsTo(nodes, Len(nodes), g)
<1>4. CountsTo(nodes, Len(nodes), h)
  <2>1. \E g : CountsTo(nodes, Len(nodes), g)
    BY <1>3, LenProperties
  <2>. QED BY <2>1, Zenon
<1>5. Owed(nodes) = h
  BY DEF Owed, CountsTo
<1>. HIDE DEF h
<1>6. \A k \in 0..Len(nodes) :
        h[k] = IF k = 0 THEN 1 ELSE h[k - 1] - 1 + Announced(nodes[k])
  BY <1>4 DEF CountsTo
<1>. QED BY <1>5, <1>6, LenProperties

\* The states of the parser, turn by turn.
RunsTo(started, n, g) ==
    g = [i \in 0..n |-> IF i = 0 THEN started ELSE ReaderStep(g[i - 1])]

\* A run of the parser is a sequence of turns.
LEMMA RunSteps ==
    ASSUME NEW r, ~r.err, r.buf # <<>>, Len(r.buf) \in Nat
    PROVE  \E g :
                 /\ g[0] = IF r.stack = <<>> THEN [r EXCEPT !.stack = <<Task(0)>>] ELSE r
                 /\ \A i \in 0..Len(r.buf) - 1 : g[i + 1] = ReaderStep(g[i])
                 /\ ReaderRun(r) = g[Len(r.buf)]
<1>. DEFINE started == IF r.stack = <<>> THEN [r EXCEPT !.stack = <<Task(0)>>] ELSE r
            len == Len(r.buf)
            S == {n \in Nat : \E g : RunsTo(started, n, g)}
<1>. HIDE DEF started
<1>1. 0 \in S
  <2>. DEFINE g == [k \in 0..0 |-> started]
  <2>1. RunsTo(started, 0, g)
    BY DEF RunsTo
  <2>. QED BY <2>1
<1>2. ASSUME NEW n \in Nat, n \in S PROVE n + 1 \in S
  <2>1. PICK g : RunsTo(started, n, g)
    BY <1>2
  <2>. DEFINE h == [k \in 0..n + 1 |-> IF k <= n THEN g[k] ELSE ReaderStep(g[k - 1])]
  <2>2. ASSUME NEW k \in 0..n + 1
        PROVE  h[k] = IF k = 0 THEN started ELSE ReaderStep(h[k - 1])
    <3>1. \A j \in 0..n : g[j] = IF j = 0 THEN started ELSE ReaderStep(g[j - 1])
      BY <2>1 DEF RunsTo
    <3>2. k # 0 => k - 1 \in 0..n /\ h[k - 1] = g[k - 1]
      OBVIOUS
    <3>. QED BY <3>1, <3>2
  <2>3. h = [k \in 0..n + 1 |-> h[k]]
    OBVIOUS
  <2>. HIDE DEF h
  <2>4. RunsTo(started, n + 1, h)
    BY <2>2, <2>3, Zenon DEF RunsTo
  <2>. QED BY <2>4
<1>3. Nat \subseteq S
  <2>. HIDE DEF S
  <2>. QED BY <1>1, <1>2, SetInduction
<1>. DEFINE h == CHOOSE g : RunsTo(started, len, g)
<1>4. RunsTo(started, len, h)
  <2>1. \E g : RunsTo(started, len, g)
    BY <1>3
  <2>. QED BY <2>1, Zenon
<1>5. ReaderRun(r) = h[len]
  BY DEF ReaderRun, RunsTo, started
<1>. HIDE DEF h
<1>6. \A k \in 0..len : h[k] = IF k = 0 THEN started ELSE ReaderStep(h[k - 1])
  BY <1>4 DEF RunsTo
<1>7. h[0] = started
  BY <1>6
<1>8. \A j : \A k \in 0..len : k # 0 /\ j = k - 1 => h[k] = ReaderStep(h[j])
  BY <1>6, Zenon
<1>9. ASSUME NEW i \in 0..len - 1 PROVE h[i + 1] = ReaderStep(h[i])
  <2>1. i + 1 \in 0..len /\ i + 1 # 0 /\ i = (i + 1) - 1
    OBVIOUS
  <2>. QED BY <1>8, <2>1, Zenon
<1>. QED BY <1>5, <1>7, <1>9 DEF started

\* The parts of one node after those of another.
LEMMA WireSteps ==
    ASSUME NEW nodes \in Seq(Nodes)
    PROVE  /\ \A node \in Nodes : Parts(node) \in Seq(PartsSet)
           /\ \A m \in 0..Len(nodes) :
                WireOf(SubSeq(nodes, m + 1, Len(nodes))) \in Seq(PartsSet)
           /\ WireOf(SubSeq(nodes, Len(nodes) + 1, Len(nodes))) = <<>>
           /\ \A m \in 0..Len(nodes) - 1 :
                WireOf(SubSeq(nodes, m + 1, Len(nodes)))
                  = Parts(nodes[m + 1]) \o WireOf(SubSeq(nodes, m + 2, Len(nodes)))
<1>. DEFINE L == Len(nodes)
            Others(m) == SubSeq(nodes, m, L)
            P(s) == [i \in DOMAIN s |-> Parts(s[i])]
<1>1. ASSUME NEW node \in Nodes PROVE Parts(node) \in Seq(PartsSet)
  <2>. DEFINE part(name) == [part |-> name, node |-> node]
  <2>1. /\ part("type") \in PartsSet /\ part("line") \in PartsSet
        /\ part("bytes") \in PartsSet
    BY DEF PartsSet
  <2>2. Parts(node) = <<part("type"), part("line")>>
                        \o IF node.type = "string" /\ node.n >= 0 THEN <<part("bytes")>> ELSE <<>>
    BY DEF Parts
  <2>. HIDE DEF part
  <2>3. /\ <<part("type"), part("line")>> \in Seq(PartsSet)
        /\ <<part("bytes")>> \in Seq(PartsSet) /\ <<>> \in Seq(PartsSet)
    BY <2>1
  <2>. QED BY <2>2, <2>3, ConcatProperties
<1>2. L \in Nat /\ \A m \in 1..L : nodes[m] \in Nodes
  BY LenProperties, ElementOfSeq
<1>3. ASSUME NEW m \in 1..L + 1
      PROVE  /\ Others(m) \in Seq(Nodes) /\ Len(Others(m)) = L - m + 1
             /\ \A i \in 1..L - m + 1 : Others(m)[i] = nodes[m + i - 1]
  <2>1. m \in Int /\ L \in Int /\ \A i \in m..L : nodes[i] \in Nodes
    BY <1>2
  <2>2. /\ Others(m) \in Seq(Nodes) /\ Len(Others(m)) = IF m <= L THEN L - m + 1 ELSE 0
        /\ \A i \in 1..L - m + 1 : Others(m)[i] = nodes[m + i - 1]
    BY <2>1, SubSeqProperties
  <2>. QED BY <1>2, <2>2
<1>4. ASSUME NEW s \in Seq(Nodes)
      PROVE  /\ P(s) \in Seq(Seq(PartsSet)) /\ Len(P(s)) = Len(s)
             /\ \A i \in 1..Len(s) : P(s)[i] = Parts(s[i])
  <2>1. /\ Len(s) \in Nat /\ DOMAIN s = 1..Len(s)
        /\ \A i \in 1..Len(s) : Parts(s[i]) \in Seq(PartsSet)
    BY <1>1, LenProperties, ElementOfSeq
  <2>. QED BY <2>1
<1>. HIDE DEF P
<1>5. \A s \in Seq(Nodes) : WireOf(s) = FlattenSeq(P(s)) /\ WireOf(s) \in Seq(PartsSet)
  BY <1>4, FlattenLast DEF WireOf, P
<1>6. WireOf(Others(L + 1)) = <<>>
  <2>1. Others(L + 1) \in Seq(Nodes) /\ Len(Others(L + 1)) = 0
    BY <1>2, <1>3
  <2>2. P(Others(L + 1)) = <<>>
    BY <1>4, <2>1, EmptySeq
  <2>. QED BY <1>5, <2>1, <2>2, FlattenLast, EmptySeq
<1>7. ASSUME NEW m \in 0..L - 1
      PROVE  WireOf(Others(m + 1)) = Parts(nodes[m + 1]) \o WireOf(Others(m + 2))
  <2>. DEFINE a == Others(m + 1)
              b == Others(m + 2)
              p == Parts(nodes[m + 1])
  <2>1. /\ a \in Seq(Nodes) /\ Len(a) = L - m /\ \A i \in 1..L - m : a[i] = nodes[m + i]
        /\ b \in Seq(Nodes) /\ Len(b) = L - m - 1
        /\ \A i \in 1..L - m - 1 : b[i] = nodes[m + i + 1]
    <3>1. m + 1 \in 1..L + 1 /\ m + 2 \in 1..L + 1
      BY <1>2
    <3>. QED BY <1>2, <1>3, <3>1
  <2>2. p \in Seq(PartsSet) /\ nodes[m + 1] \in Nodes
    BY <1>1, <1>2
  <2>. HIDE DEF a, b, p
  <2>3. P(a) = <<p>> \o P(b)
    <3>1. P(a) \in Seq(Seq(PartsSet)) /\ P(b) \in Seq(Seq(PartsSet))
          /\ Len(P(a)) = L - m /\ Len(P(b)) = L - m - 1
          /\ (\A i \in 1..L - m : P(a)[i] = Parts(a[i]))
          /\ \A i \in 1..L - m - 1 : P(b)[i] = Parts(b[i])
      BY <1>4, <2>1
    <3>2. /\ <<p>> \in Seq(Seq(PartsSet)) /\ Len(<<p>>) = 1 /\ <<p>>[1] = p
      BY <2>2
    <3>. DEFINE c == <<p>> \o P(b)
    <3>3. c \in Seq(Seq(PartsSet)) /\ Len(c) = L - m
          /\ c[1] = p /\ \A i \in 2..L - m : c[i] = P(b)[i - 1]
      <4>1. /\ c \in Seq(Seq(PartsSet)) /\ Len(c) = Len(<<p>>) + Len(P(b))
            /\ \A i \in 1..Len(<<p>>) + Len(P(b)) :
                 c[i] = IF i <= Len(<<p>>) THEN <<p>>[i] ELSE P(b)[i - Len(<<p>>)]
        BY <3>1, <3>2, ConcatProperties, Zenon
      <4>. HIDE DEF c
      <4>2. Len(<<p>>) + Len(P(b)) = L - m /\ 1 \in 1..L - m /\ 2..L - m \subseteq 1..L - m
        BY <1>2, <3>1, <3>2
      <4>3. c[1] = p
        BY <3>2, <4>1, <4>2
      <4>4. ASSUME NEW i \in 2..L - m PROVE c[i] = P(b)[i - 1]
        <5>1. i \in 1..L - m /\ ~(i <= 1)
          BY <1>2
        <5>. QED BY <3>2, <4>1, <4>2, <5>1, Zenon
      <4>. QED BY <4>1, <4>2, <4>3, <4>4
    <3>. HIDE DEF c
    <3>4. ASSUME NEW i \in 1..L - m PROVE P(a)[i] = c[i]
      <4>1. CASE i = 1
        BY <1>2, <2>1, <3>1, <3>3, <4>1 DEF p
      <4>2. CASE i # 1
        <5>1. i \in 2..L - m /\ i - 1 \in 1..L - m - 1 /\ m + (i - 1) + 1 = m + i
          BY <1>2, <4>2
        <5>2. a[i] = nodes[m + i] /\ b[i - 1] = nodes[m + (i - 1) + 1]
          BY <2>1, <5>1
        <5>. QED BY <3>1, <3>3, <5>1, <5>2
      <4>. QED BY <4>1, <4>2
    <3>5. P(a) = c
      BY <3>1, <3>3, <3>4, SeqEqual
    <3>. QED BY <3>5 DEF c
  <2>4. P(b) \in Seq(Seq(PartsSet))
    BY <1>4, <2>1
  <2>5. FlattenSeq(<<p>> \o P(b)) = p \o FlattenSeq(P(b))
    BY <2>2, <2>4, FlattenFirst
  <2>6. WireOf(a) = p \o WireOf(b)
    BY <1>5, <2>1, <2>3, <2>5
  <2>. QED BY <2>6 DEF a, b, p
<1>. QED
  <2>1. \A m \in 0..L : WireOf(Others(m + 1)) \in Seq(PartsSet)
    <3>1. \A m \in 0..L : m + 1 \in 1..L + 1
      BY <1>2
    <3>. QED BY <1>3, <1>5, <3>1
  <2>. QED BY <1>1, <1>6, <1>7, <2>1

-----------------------------------------------------------------------------
(* The tree under construction.                                            *)

\* The place in the reply of what level k of the stack reads.
Place(stack, k) == [j \in 1..k - 1 |-> stack[j + 1].idx]

Levels == [type : NodeTypes \cup {"none"}, elements : Int, idx : Nat]

Objects == [path : Seq(Nat), node : Nodes]

\* An object and the level of the stack that reads its elements.
Encloses(stack, k, o) ==
    /\ o.path = Place(stack, k)
    /\ o.node.type = "array" /\ o.node.n = stack[k].elements
    /\ stack[k + 1].idx < o.node.n

\* How many elements of an object are there, when the last open level has an
\* object (top = 1) or has none yet (top = 0).
Children(stack, top, o) ==
    LET k == Len(o.path) + 1
    IN  IF k < Len(stack) /\ o.path = Place(stack, k)
        THEN stack[k + 1].idx + (IF k + 1 < Len(stack) THEN 1 ELSE top)
        ELSE IF k = Len(stack) /\ o.path = Place(stack, k)
        THEN 0
        ELSE Announced(o.node)

\* The objects are those before the end of the stack in the order of a tree.
Grown(obj, stack, top) ==
    /\ obj \in Seq(Objects) /\ stack \in Seq(Levels) /\ stack # <<>>
    /\ \A i, j \in DOMAIN obj : obj[i].path = obj[j].path => i = j
    /\ \A i \in DOMAIN obj : obj[i].path # <<>> => Front(obj[i].path) \in PathsOf(obj)
    /\ obj # <<>> => obj[1].path = <<>>
    /\ \A k \in 1..Len(stack) - 1 : \E i \in DOMAIN obj : Encloses(stack, k, obj[i])
    /\ (PathOf(stack) \in PathsOf(obj)) <=> (top = 1)
    /\ \A i \in DOMAIN obj : \A q \in Nat :
         Append(obj[i].path, q) \in PathsOf(obj) <=> q < Children(stack, top, obj[i])

\* What the levels of a stack are.
LEMMA StackTyped ==
    ASSUME NEW stack \in Seq(Levels), stack # <<>>
    PROVE  /\ Len(stack) \in Nat \ {0} /\ DOMAIN stack = 1..Len(stack)
           /\ \A j \in 1..Len(stack) :
                stack[j] \in Levels /\ stack[j].idx \in Nat /\ stack[j].elements \in Int
<1>1. Len(stack) \in Nat \ {0} /\ DOMAIN stack = 1..Len(stack)
  BY EmptySeq, LenProperties
<1>2. \A j \in 1..Len(stack) : stack[j] \in Levels
  BY ElementOfSeq
<1>3. \A x \in Levels : x.idx \in Nat /\ x.elements \in Int
  BY DEF Levels
<1>. QED BY <1>1, <1>2, <1>3

\* Front takes off what Append put there.
LEMMA FrontOfAppend ==
    ASSUME NEW S, NEW s \in Seq(S), NEW e \in S
    PROVE  /\ Front(Append(s, e)) = s /\ Append(s, e) # <<>>
           /\ \A t \in Seq(S), f \in S : Append(s, e) = Append(t, f) => s = t /\ e = f
<1>1. Front(Append(s, e)) = s
  BY DEF Front
<1>. QED BY <1>1, AppendProperties, AppendInjective

\* A sequence is its front and its last element.
LEMMA FrontAndLast ==
    ASSUME NEW S, NEW s \in Seq(S), s # <<>>
    PROVE  \E e \in S : s = Append(Front(s), e)
<1>1. PICK t \in Seq(S), e \in S : s = Append(t, e)
  BY SequenceEmptyOrAppend
<1>2. Front(s) = t
  BY <1>1, FrontOfAppend
<1>. QED BY <1>1, <1>2

\* The place of a level is that of the one before it and its own number.
LEMMA Places ==
    ASSUME NEW stack \in Seq(Levels), stack # <<>>
    PROVE  /\ PathOf(stack) = Place(stack, Len(stack))
           /\ Place(stack, 1) = <<>>
           /\ \A k \in 1..Len(stack) : Place(stack, k) \in Seq(Nat) /\ Len(Place(stack, k)) = k - 1
           /\ \A k \in 2..Len(stack) : Place(stack, k) = Append(Place(stack, k - 1), stack[k].idx)
<1>0. Len(stack) \in Nat \ {0} /\ \A j \in 1..Len(stack) : stack[j].idx \in Nat
  BY StackTyped
<1>1. PathOf(stack) = Place(stack, Len(stack))
  BY DEF PathOf, Place
<1>2. Place(stack, 1) = <<>>
  BY DEF Place
<1>3. ASSUME NEW k \in 1..Len(stack)
      PROVE  /\ Place(stack, k) \in Seq(Nat) /\ Len(Place(stack, k)) = k - 1
             /\ \A j \in 1..k - 1 : Place(stack, k)[j] = stack[j + 1].idx
  <2>1. k - 1 \in Nat
    BY <1>0
  <2>2. \A j \in 1..k - 1 : stack[j + 1].idx \in Nat
    <3>1. \A j \in 1..k - 1 : j + 1 \in 1..Len(stack)
      BY <1>0
    <3>. QED BY <1>0, <3>1
  <2>3. Place(stack, k) = [j \in 1..k - 1 |-> stack[j + 1].idx]
    BY DEF Place
  <2>4. Place(stack, k) \in [1..k - 1 -> Nat]
    BY <2>2, <2>3, Zenon
  <2>5. Place(stack, k) \in Seq(Nat) /\ Len(Place(stack, k)) = k - 1
    <3>. DEFINE n == k - 1
                f == Place(stack, k)
    <3>1. n \in Nat /\ f \in [1..n -> Nat]
      BY <2>1, <2>4
    <3>. HIDE DEF n, f
    <3>2. f \in Seq(Nat) /\ Len(f) = n
      BY <3>1
    <3>. QED BY <3>2 DEF n, f
  <2>. QED BY <2>3, <2>5
<1>4. ASSUME NEW k \in 2..Len(stack)
      PROVE  Place(stack, k) = Append(Place(stack, k - 1), stack[k].idx)
  <2>. DEFINE p == Place(stack, k)
              q == Place(stack, k - 1)
              t == Append(q, stack[k].idx)
  <2>1. /\ p \in Seq(Nat) /\ Len(p) = k - 1 /\ q \in Seq(Nat) /\ Len(q) = k - 2
        /\ \A j \in 1..k - 1 : p[j] = stack[j + 1].idx
        /\ \A j \in 1..k - 2 : q[j] = stack[j + 1].idx
    <3>1. k \in 1..Len(stack) /\ k - 1 \in 1..Len(stack) /\ (k - 1) - 1 = k - 2
      BY <1>0
    <3>. HIDE DEF p, q
    <3>2. p \in Seq(Nat) /\ Len(p) = k - 1 /\ \A j \in 1..k - 1 : p[j] = stack[j + 1].idx
      BY <1>3, <3>1 DEF p
    <3>3. /\ q \in Seq(Nat) /\ Len(q) = (k - 1) - 1
          /\ \A j \in 1..(k - 1) - 1 : q[j] = stack[j + 1].idx
      BY <1>3, <3>1 DEF q
    <3>. QED BY <3>1, <3>2, <3>3
  <2>2. stack[k].idx \in Nat
    BY <1>0
  <2>. HIDE DEF p, q
  <2>3. /\ t \in Seq(Nat) /\ Len(t) = k - 1 /\ t[k - 1] = stack[k].idx
        /\ \A j \in 1..k - 2 : t[j] = q[j]
    BY <2>1, <2>2, AppendProperties
  <2>. HIDE DEF t
  <2>4. \A j \in 1..k - 1 : p[j] = t[j]
    <3>1. (k - 1) + 1 = k
      OBVIOUS
    <3>2. p[k - 1] = stack[k].idx
      BY <1>0, <2>1, <3>1
    <3>3. \A j \in 1..k - 2 : j \in 1..k - 1 /\ p[j] = stack[j + 1].idx /\ t[j] = stack[j + 1].idx
      <4>1. \A j \in 1..k - 2 : j \in 1..k - 1
        BY <1>0
      <4>. QED BY <2>1, <2>3, <4>1, Zenon
    <3>4. \A j \in 1..k - 1 : j \in 1..k - 2 \/ j = k - 1
      BY <1>0
    <3>. QED BY <2>3, <3>2, <3>3, <3>4
  <2>5. p = t
    BY <2>1, <2>3, <2>4, SeqEqual
  <2>. QED BY <2>5 DEF p, q, t
<1>. QED BY <1>1, <1>2, <1>3, <1>4

\* The place of a level depends on the levels up to it.
LEMMA PlacesAgree ==
    ASSUME NEW stack, NEW other, NEW k \in Nat, \A j \in 2..k : stack[j].idx = other[j].idx
    PROVE  Place(stack, k) = Place(other, k)
BY DEF Place

\* How many elements of an object are there, case by case.
LEMMA ChildrenOf ==
    ASSUME NEW stack \in Seq(Levels), stack # <<>>, NEW top \in {0, 1}, NEW o \in Objects
    PROVE  /\ \A k \in 1..Len(stack) - 1 :
                o.path = Place(stack, k)
                  => Children(stack, top, o)
                       = stack[k + 1].idx + (IF k + 1 < Len(stack) THEN 1 ELSE top)
           /\ o.path = Place(stack, Len(stack)) => Children(stack, top, o) = 0
           /\ (\A k \in 1..Len(stack) : o.path # Place(stack, k))
                => Children(stack, top, o) = Announced(o.node)
<1>. DEFINE h == Len(o.path) + 1
<1>1. Len(stack) \in Nat \ {0} /\ h \in Nat /\ h >= 1
  BY EmptySeq, LenProperties DEF Objects
<1>2. \A k \in 1..Len(stack) : o.path = Place(stack, k) => h = k
  BY Places
<1>3. Children(stack, top, o)
        = IF h < Len(stack) /\ o.path = Place(stack, h)
          THEN stack[h + 1].idx + (IF h + 1 < Len(stack) THEN 1 ELSE top)
          ELSE IF h = Len(stack) /\ o.path = Place(stack, h)
          THEN 0
          ELSE Announced(o.node)
  BY DEF Children
<1>. HIDE DEF h
<1>. QED BY <1>1, <1>2, <1>3

\* An object is created for the level on top and attached to its parent.
LEMMA GrownByOne ==
    ASSUME NEW obj, NEW stack, Grown(obj, stack, 0), NEW node \in Nodes
    PROVE  Grown(Append(obj, [path |-> PathOf(stack), node |-> node]), stack, 1)
<1>. DEFINE L == Len(stack)
            n == Len(obj)
            p == PathOf(stack)
            o == [path |-> p, node |-> node]
            new == Append(obj, o)
<1>1. /\ obj \in Seq(Objects) /\ stack \in Seq(Levels) /\ stack # <<>>
      /\ L \in Nat \ {0} /\ n \in Nat /\ DOMAIN obj = 1..n
      /\ \A i \in 1..n : obj[i] \in Objects
  BY StackTyped, LenProperties, ElementOfSeq DEF Grown
<1>a. L = 1 \/ L > 1
  <2>1. L \in Nat /\ L # 0
    BY <1>1
  <2>. HIDE DEF L
  <2>. QED BY <2>1
<1>2. p = Place(stack, L) /\ p \in Seq(Nat) /\ o \in Objects
  <2>1. p = Place(stack, L)
    BY <1>1, Places
  <2>2. p \in Seq(Nat)
    BY <1>1, Places
  <2>. HIDE DEF p
  <2>3. [path |-> p, node |-> node] \in [path : Seq(Nat), node : Nodes]
    BY <2>2
  <2>. QED BY <2>1, <2>2, <2>3 DEF Objects
<1>3. /\ new \in Seq(Objects) /\ Len(new) = n + 1 /\ DOMAIN new = 1..n + 1
      /\ new[n + 1] = o /\ \A i \in 1..n : new[i] = obj[i]
  BY <1>1, <1>2, AppendProperties, LenProperties
<1>4. p \notin PathsOf(obj)
  BY DEF Grown
<1>. HIDE DEF new, p
<1>5. PathsOf(new) = PathsOf(obj) \cup {p} /\ \A i \in 1..n : obj[i].path \in PathsOf(obj)
  <2>1. o.path = p
    OBVIOUS
  <2>2. PathsOf(new) = {new[i].path : i \in 1..n + 1} /\ PathsOf(obj) = {obj[i].path : i \in 1..n}
    BY <1>1, <1>3 DEF PathsOf
  <2>3. 1..n + 1 = (1..n) \cup {n + 1}
    BY <1>1
  <2>4. /\ \A i \in 1..n : new[i].path = obj[i].path
        /\ new[n + 1].path = p
    BY <1>3, <2>1
  <2>. HIDE DEF o
  <2>. QED BY <2>2, <2>3, <2>4
<1>6. \A i, j \in DOMAIN new : new[i].path = new[j].path => i = j
  <2>1. o.path = p
    OBVIOUS
  <2>. QED BY <1>1, <1>3, <1>4, <1>5, <2>1, SMTT(30) DEF Grown
<1>7. /\ (\A i \in 1..n : obj[i].path # <<>> => Front(obj[i].path) \in PathsOf(obj))
      /\ (n # 0 => obj[1].path = <<>>)
      /\ (\A k \in 1..L - 1 : \E i \in 1..n : Encloses(stack, k, obj[i]))
      /\ \A i \in 1..n : \A q \in Nat :
           Append(obj[i].path, q) \in PathsOf(obj) <=> q < Children(stack, 0, obj[i])
  BY <1>1, EmptySeq DEF Grown
<1>8. L > 1 => /\ Place(stack, L - 1) \in Seq(Nat) /\ stack[L].idx \in Nat
               /\ p = Append(Place(stack, L - 1), stack[L].idx)
               /\ Place(stack, L - 1) \in PathsOf(obj)
  <2>. SUFFICES ASSUME L > 1
                PROVE  /\ Place(stack, L - 1) \in Seq(Nat) /\ stack[L].idx \in Nat
                       /\ p = Append(Place(stack, L - 1), stack[L].idx)
                       /\ Place(stack, L - 1) \in PathsOf(obj)
    OBVIOUS
  <2>1. L - 1 \in 1..L - 1 /\ L - 1 \in 1..L /\ L \in 2..L /\ L \in 1..L
    BY <1>1
  <2>2. PICK i \in 1..n : Encloses(stack, L - 1, obj[i])
    BY <1>7, <2>1
  <2>3. Place(stack, L - 1) \in PathsOf(obj)
    BY <1>5, <2>2 DEF Encloses
  <2>4. stack[L].idx \in Nat
    BY <1>1, <2>1, StackTyped
  <2>5. Place(stack, L - 1) \in Seq(Nat) /\ Place(stack, L) = Append(Place(stack, L - 1), stack[L].idx)
    BY <1>1, <2>1, Places
  <2>. QED BY <1>2, <2>3, <2>4, <2>5
<1>9. /\ o.path = p /\ \A i \in 1..n : obj[i].path \in Seq(Nat)
      /\ L = 1 => p = <<>>
  BY <1>1, <1>2, Places DEF Objects
<1>10. ASSUME NEW i \in 1..n + 1, new[i].path # <<>>
       PROVE  Front(new[i].path) \in PathsOf(new)
  <2>1. CASE i \in 1..n
    BY <1>3, <1>5, <1>7, <1>10, <2>1
  <2>2. CASE i = n + 1
    <3>0. new[i].path = p
      BY <1>3, <1>9, <2>2
    <3>1. L > 1
      <4>1. L # 1
        BY <1>9, <1>10, <3>0, Zenon
      <4>. QED BY <1>a, <4>1, Zenon
    <3>2. Front(p) = Place(stack, L - 1)
      <4>1. /\ Place(stack, L - 1) \in Seq(Nat) /\ stack[L].idx \in Nat
            /\ p = Append(Place(stack, L - 1), stack[L].idx)
        BY <1>8, <3>1, Zenon
      <4>2. \A s \in Seq(Nat), e \in Nat : Front(Append(s, e)) = s
        BY FrontOfAppend
      <4>. QED BY <4>1, <4>2, Zenon
    <3>. QED BY <1>5, <1>8, <3>0, <3>1, <3>2
  <2>. QED BY <2>1, <2>2
<1>11. new[1].path = <<>>
  <2>1. CASE n = 0
    <3>1. L = 1
      BY <1>1, <1>7, <2>1
    <3>. QED BY <1>3, <1>9, <2>1, <3>1
  <2>2. CASE n # 0
    BY <1>1, <1>3, <1>7, <2>2
  <2>. QED BY <2>1, <2>2
<1>12. \A k \in 1..L - 1 : \E i \in 1..n + 1 : Encloses(stack, k, new[i])
  <2>. SUFFICES ASSUME NEW k \in 1..L - 1 PROVE \E i \in 1..n + 1 : Encloses(stack, k, new[i])
    OBVIOUS
  <2>1. PICK i \in 1..n : Encloses(stack, k, obj[i])
    BY <1>7
  <2>2. i \in 1..n + 1 /\ new[i] = obj[i]
    BY <1>1, <1>3
  <2>. QED BY <2>1, <2>2
<1>13. ASSUME NEW i \in 1..n, NEW q \in Nat
       PROVE  Append(obj[i].path, q) \in PathsOf(new) <=> q < Children(stack, 1, obj[i])
  <2>. DEFINE x == obj[i]
              t == Append(x.path, q)
  <2>1. t \in PathsOf(obj) <=> q < Children(stack, 0, x)
    BY <1>7
  <2>2. t = p => L > 1 /\ x.path = Place(stack, L - 1) /\ q = stack[L].idx
    <3>1. t # <<>>
      BY <1>9, FrontOfAppend
    <3>2. L > 1 /\ t = p => x.path = Place(stack, L - 1) /\ q = stack[L].idx
      <4>. SUFFICES ASSUME L > 1, t = p PROVE x.path = Place(stack, L - 1) /\ q = stack[L].idx
        OBVIOUS
      <4>1. /\ Append(x.path, q) = Append(Place(stack, L - 1), stack[L].idx)
            /\ Place(stack, L - 1) \in Seq(Nat) /\ stack[L].idx \in Nat
        BY <1>8, Zenon
      <4>2. x.path \in Seq(Nat)
        BY <1>9
      <4>. HIDE DEF x
      <4>3. \A s, u \in Seq(Nat), e, f \in Nat : Append(s, e) = Append(u, f) => s = u /\ e = f
        BY AppendInjective
      <4>4. \A u \in Seq(Nat), f \in Nat : Append(x.path, q) = Append(u, f) => x.path = u /\ q = f
        BY <4>2, <4>3, Zenon
      <4>. QED BY <4>1, <4>4, Zenon
    <3>3. L = 1 => t # p
      BY <1>9, <3>1
    <3>. QED BY <1>a, <3>2, <3>3, Zenon
  <2>3. x \in Objects /\ x.path # Place(stack, L)
    BY <1>1, <1>2, <1>4, <1>5
  <2>4. t \in PathsOf(new) <=> t \in PathsOf(obj) \/ t = p
    BY <1>5
  <2>. SUFFICES t \in PathsOf(new) <=> q < Children(stack, 1, x)
    OBVIOUS
  <2>. HIDE DEF t, x
  <2>5. CASE L > 1 /\ x.path = Place(stack, L - 1)
    <3>1. Children(stack, 0, x) = stack[L].idx + 0 /\ Children(stack, 1, x) = stack[L].idx + 1
      <4>1. L - 1 \in 1..L - 1 /\ (L - 1) + 1 = L /\ ~(L < L)
        BY <1>1, <2>5
      <4>. QED BY <1>1, <2>3, <2>5, <4>1, ChildrenOf
    <3>2. q = stack[L].idx => t = p
      BY <1>8, <2>5 DEF t
    <3>3. stack[L].idx \in Nat
      BY <1>8, <2>5
    <3>. QED BY <2>1, <2>2, <2>4, <3>1, <3>2, <3>3
  <2>6. CASE ~(L > 1 /\ x.path = Place(stack, L - 1))
    <3>1. t # p
      BY <2>2, <2>6
    <3>2. Children(stack, 0, x) = Children(stack, 1, x)
      <4>1. CASE \E k \in 1..L - 1 : x.path = Place(stack, k)
        <5>1. PICK k \in 1..L - 1 : x.path = Place(stack, k)
          BY <4>1
        <5>2. k # L - 1 /\ k + 1 < L
          BY <1>1, <2>6, <5>1
        <5>3. /\ Children(stack, 0, x) = stack[k + 1].idx + (IF k + 1 < L THEN 1 ELSE 0)
              /\ Children(stack, 1, x) = stack[k + 1].idx + (IF k + 1 < L THEN 1 ELSE 1)
          BY <1>1, <2>3, <5>1, ChildrenOf
        <5>. QED BY <5>2, <5>3
      <4>2. CASE \A k \in 1..L - 1 : x.path # Place(stack, k)
        <5>1. \A k \in 1..L : x.path # Place(stack, k)
          BY <1>1, <2>3, <4>2
        <5>. QED BY <1>1, <2>3, <5>1, ChildrenOf
      <4>. QED BY <4>1, <4>2
    <3>. QED BY <2>1, <2>4, <3>1, <3>2
  <2>. QED BY <2>5, <2>6
<1>14. ASSUME NEW q \in Nat
       PROVE  Append(p, q) \in PathsOf(new) <=> q < Children(stack, 1, o)
  <2>1. Children(stack, 1, o) = 0
    BY <1>1, <1>2, <1>9, ChildrenOf
  <2>2. Append(p, q) # p
    BY <1>2, AppendProperties, LenProperties
  <2>3. Append(p, q) \notin PathsOf(obj)
    <3>1. Front(Append(p, q)) = p /\ Append(p, q) # <<>>
      BY <1>2, FrontOfAppend
    <3>2. \A t \in PathsOf(obj) : t # <<>> => Front(t) \in PathsOf(obj)
      BY <1>1, <1>7 DEF PathsOf
    <3>. QED BY <1>4, <3>1, <3>2
  <2>. QED BY <1>5, <2>1, <2>2, <2>3
<1>15. \A i \in 1..n + 1 : \A q \in Nat :
         Append(new[i].path, q) \in PathsOf(new) <=> q < Children(stack, 1, new[i])
  <2>1. \A i \in 1..n + 1 : i \in 1..n \/ i = n + 1
    BY <1>1
  <2>. QED BY <1>3, <1>9, <1>13, <1>14, <2>1
<1>16. p \in PathsOf(new)
  BY <1>5
<1>17. Grown(new, stack, 1)
  BY <1>1, <1>3, <1>6, <1>10, <1>11, <1>12, <1>15, <1>16 DEF Grown, p
<1>. QED BY <1>17 DEF new, p

\* The level that moveToNextTask goes on with is the last that lacks an
\* element of its parent; there is none when all are complete.
Complete(stack, k) == stack[k].idx = stack[k - 1].elements - 1

LEMMA NextTaskIs ==
    ASSUME NEW stack \in Seq(Levels), stack # <<>>
    PROVE  \/ /\ NextTask(stack) = <<>>
              /\ \A k \in 2..Len(stack) : Complete(stack, k)
           \/ \E k \in 2..Len(stack) :
                /\ ~Complete(stack, k)
                /\ \A j \in k + 1..Len(stack) : Complete(stack, j)
                /\ NextTask(stack) \in Seq(Levels) /\ Len(NextTask(stack)) = k
                /\ \A j \in 1..k - 1 : NextTask(stack)[j] = stack[j]
                /\ NextTask(stack)[k] = Task(stack[k].idx + 1)
<1>. DEFINE L == Len(stack)
            open == {k \in 2..L : stack[k].idx # stack[k - 1].elements - 1}
<1>1. L \in Nat \ {0} /\ \A j \in 1..L : stack[j] \in Levels /\ stack[j].idx \in Nat
  BY StackTyped
<1>2. CASE open = {}
  BY <1>2 DEF NextTask, Complete
<1>3. CASE open # {}
  <2>. DEFINE k == Max(open)
  <2>1. k \in open /\ \A j \in open : k >= j
    <3>1. open \in SUBSET (2..L)
      OBVIOUS
    <3>. HIDE DEF open
    <3>. QED BY <1>1, <1>3, <3>1, LargestIs
  <2>2. NextTask(stack) = [SubSeq(stack, 1, k) EXCEPT ![k] = Task(@.idx + 1)]
    BY <1>3 DEF NextTask
  <2>3. k \in 2..L /\ ~Complete(stack, k) /\ \A j \in k + 1..L : Complete(stack, j)
    <3>1. \A j \in 2..L : ~Complete(stack, j) => k >= j
      BY <2>1 DEF Complete
    <3>2. k \in 2..L /\ ~Complete(stack, k)
      BY <2>1 DEF Complete
    <3>. HIDE DEF k
    <3>3. \A j \in k + 1..L : j \in 2..L /\ ~(k >= j)
      BY <1>1, <3>2
    <3>. QED BY <3>1, <3>2, <3>3
  <2>. HIDE DEF k
  <2>4. Task(stack[k].idx + 1) \in Levels
    <3>1. k \in 1..L /\ stack[k].idx + 1 \in Nat
      BY <1>1, <2>3
    <3>. QED BY <3>1 DEF Task, Levels
  <2>5. /\ SubSeq(stack, 1, k) \in Seq(Levels) /\ Len(SubSeq(stack, 1, k)) = k
        /\ \A j \in 1..k : SubSeq(stack, 1, k)[j] = stack[j]
    <3>1. k \in Int /\ 1 \in Int /\ 1 <= k /\ \A j \in 1..k : stack[j] \in Levels
      BY <1>1, <2>3
    <3>2. /\ SubSeq(stack, 1, k) \in Seq(Levels)
          /\ Len(SubSeq(stack, 1, k)) = IF 1 <= k THEN k - 1 + 1 ELSE 0
          /\ \A j \in 1..k - 1 + 1 : SubSeq(stack, 1, k)[j] = stack[1 + j - 1]
      BY <3>1, SubSeqProperties
    <3>. QED BY <3>1, <3>2
  <2>6. NextTask(stack) = [SubSeq(stack, 1, k) EXCEPT ![k] = Task(stack[k].idx + 1)]
    <3>1. SubSeq(stack, 1, k)[k] = stack[k]
      BY <1>1, <2>3, <2>5
    <3>. HIDE DEF open, L
    <3>. QED BY <2>2, <3>1, Zenon
  <2>7. /\ NextTask(stack) \in Seq(Levels) /\ Len(NextTask(stack)) = k
        /\ \A j \in 1..k : NextTask(stack)[j]
                         = IF j = k THEN Task(stack[k].idx + 1) ELSE stack[j]
    <3>. DEFINE t == SubSeq(stack, 1, k)
                e == Task(stack[k].idx + 1)
    <3>1. t \in Seq(Levels) /\ k \in 1..Len(t) /\ e \in Levels
      BY <2>3, <2>4, <2>5
    <3>. HIDE DEF t, e
    <3>2. /\ [t EXCEPT ![k] = e] \in Seq(Levels) /\ Len([t EXCEPT ![k] = e]) = Len(t)
          /\ \A j \in 1..Len(t) : [t EXCEPT ![k] = e][j] = IF j = k THEN e ELSE t[j]
      BY <3>1, ExceptSeq
    <3>. QED BY <2>5, <2>6, <3>2 DEF t, e
  <2>8. /\ \A j \in 1..k - 1 : NextTask(stack)[j] = stack[j]
        /\ NextTask(stack)[k] = Task(stack[k].idx + 1)
    <3>1. k \in 1..k /\ \A j \in 1..k - 1 : j \in 1..k /\ j # k
      BY <2>3
    <3>. QED BY <2>7, <3>1
  <2>. QED BY <2>3, <2>7, <2>8
<1>. QED BY <1>2, <1>3

\* An object has all its elements when the levels above its own are complete
\* and the last object announces none.
LEMMA FullLevels ==
    ASSUME NEW obj, NEW stack, Grown(obj, stack, 1),
           \A i \in DOMAIN obj : obj[i].path = PathOf(stack) => Announced(obj[i].node) = 0,
           NEW b \in 1..Len(stack), \A j \in b + 1..Len(stack) : Complete(stack, j),
           NEW i \in DOMAIN obj, NEW k \in b..Len(stack), obj[i].path = Place(stack, k)
    PROVE  Children(stack, 1, obj[i]) = Announced(obj[i].node)
<1>. DEFINE L == Len(stack)
            o == obj[i]
<1>1. stack \in Seq(Levels) /\ stack # <<>> /\ o \in Objects
  BY ElementOfSeq, LenProperties DEF Grown
<1>2. /\ L \in Nat \ {0} /\ k \in 1..L
      /\ \A j \in 1..L : stack[j].idx \in Nat /\ stack[j].elements \in Int
  BY <1>1, StackTyped
<1>3. CASE k = L
  <2>1. o.path = PathOf(stack)
    BY <1>1, <1>3, Places
  <2>. QED BY <1>1, <1>3, <2>1, ChildrenOf
<1>4. CASE k # L
  <2>1. k \in 1..L - 1 /\ k + 1 \in b + 1..L /\ k + 1 \in 1..L /\ (k + 1) - 1 = k
    BY <1>2, <1>4
  <2>2. Encloses(stack, k, o)
    <3>1. PICK j \in DOMAIN obj : Encloses(stack, k, obj[j])
      BY <2>1 DEF Grown
    <3>2. j = i
      BY <3>1 DEF Encloses, Grown
    <3>. QED BY <3>1, <3>2
  <2>3. Children(stack, 1, o) = stack[k + 1].idx + 1
    <3>1. Children(stack, 1, o) = stack[k + 1].idx + (IF k + 1 < L THEN 1 ELSE 1)
      BY <1>1, <2>1, ChildrenOf
    <3>. QED BY <3>1
  <2>4. stack[k + 1].idx = stack[k].elements - 1
    <3>1. Complete(stack, k + 1)
      BY <2>1
    <3>. QED BY <2>1, <3>1 DEF Complete
  <2>5. o.node.type = "array" /\ o.node.n = stack[k].elements
    BY <2>2 DEF Encloses
  <2>. HIDE DEF o
  <2>6. stack[k + 1].idx \in Nat /\ stack[k].elements \in Int
    BY <1>2, <2>1
  <2>. QED BY <2>3, <2>4, <2>5, <2>6 DEF Announced, o
<1>. QED BY <1>3, <1>4

\* After its last object the tree is whole, or goes on at the next element of
\* a level.
LEMMA GrownOn ==
    ASSUME NEW obj, NEW stack, Grown(obj, stack, 1),
           \A i \in DOMAIN obj : obj[i].path = PathOf(stack) => Announced(obj[i].node) = 0,
           NEW k \in 2..Len(stack), ~Complete(stack, k),
           \A j \in k + 1..Len(stack) : Complete(stack, j),
           NEW next \in Seq(Levels), Len(next) = k,
           \A j \in 1..k - 1 : next[j] = stack[j],
           next[k] = Task(stack[k].idx + 1)
    PROVE  Grown(obj, next, 0) /\ stack[k].idx + 1 < stack[k - 1].elements
<1>. DEFINE L == Len(stack)
            parent == Place(stack, k - 1)
            p == PathOf(next)
<1>1. /\ stack \in Seq(Levels) /\ stack # <<>> /\ next # <<>>
      /\ \A i \in DOMAIN obj : obj[i] \in Objects /\ obj[i].path \in Seq(Nat)
  <2>1. \A i \in DOMAIN obj : obj[i] \in Objects
    BY ElementOfSeq, LenProperties DEF Grown
  <2>2. next # <<>>
    BY EmptySeq, StackTyped DEF Grown
  <2>. QED BY <2>1, <2>2 DEF Grown, Objects
<1>2. /\ L \in Nat \ {0} /\ k \in 1..L /\ k - 1 \in 1..L - 1 /\ k - 1 \in 1..L /\ k \in Nat
      /\ \A j \in 1..L : stack[j].idx \in Nat /\ stack[j].elements \in Int
  BY <1>1, StackTyped
<1>3. next[k].idx = stack[k].idx + 1
  BY DEF Task
<1>4. \A j \in 1..k - 1 : Place(next, j) = Place(stack, j) /\ Place(stack, j) \in Seq(Nat)
  <2>. SUFFICES ASSUME NEW j \in 1..k - 1
                PROVE  Place(next, j) = Place(stack, j) /\ Place(stack, j) \in Seq(Nat)
    OBVIOUS
  <2>1. j \in Nat /\ j \in 1..L /\ \A l \in 2..j : next[l].idx = stack[l].idx
    BY <1>2
  <2>2. Place(next, j) = Place(stack, j)
    BY <2>1, PlacesAgree
  <2>3. Place(stack, j) \in Seq(Nat)
    BY <1>1, <2>1, Places
  <2>. QED BY <2>2, <2>3
<1>5. p = Append(parent, stack[k].idx + 1) /\ p = Place(next, k) /\ parent \in Seq(Nat)
  <2>1. k \in 2..Len(next) /\ k - 1 \in 1..k - 1
    BY <1>2
  <2>2. Place(next, k) = Append(Place(next, k - 1), next[k].idx) /\ PathOf(next) = Place(next, k)
    BY <1>1, <2>1, Places
  <2>. QED BY <1>3, <1>4, <2>1, <2>2
<1>6. PICK e \in DOMAIN obj : Encloses(stack, k - 1, obj[e])
  BY <1>2 DEF Grown
<1>7. stack[k].idx + 1 < stack[k - 1].elements
  <2>1. (k - 1) + 1 = k
    BY <1>2
  <2>2. stack[k].idx < stack[k - 1].elements
    BY <1>6, <2>1 DEF Encloses
  <2>3. stack[k].idx # stack[k - 1].elements - 1
    BY DEF Complete
  <2>4. stack[k].idx \in Nat /\ stack[k - 1].elements \in Int
    BY <1>2
  <2>. QED BY <2>2, <2>3, <2>4
<1>8. ASSUME NEW i \in DOMAIN obj, obj[i].path = parent
      PROVE  Children(stack, 1, obj[i]) = stack[k].idx + 1
  <2>1. Children(stack, 1, obj[i]) = stack[(k - 1) + 1].idx + (IF (k - 1) + 1 < L THEN 1 ELSE 1)
    BY <1>1, <1>2, <1>8, ChildrenOf
  <2>2. (k - 1) + 1 = k
    BY <1>2
  <2>. QED BY <2>1, <2>2
<1>9. p \notin PathsOf(obj)
  <2>1. obj[e].path = parent
    BY <1>6 DEF Encloses
  <2>2. ~(stack[k].idx + 1 < Children(stack, 1, obj[e])) /\ stack[k].idx + 1 \in Nat
    BY <1>2, <1>8, <2>1
  <2>. QED BY <1>5, <2>1, <2>2 DEF Grown
<1>10. ASSUME NEW j \in 1..k - 1
       PROVE  \E i \in DOMAIN obj : Encloses(next, j, obj[i])
  <2>1. j \in 1..L - 1
    BY <1>2
  <2>2. PICK i \in DOMAIN obj : Encloses(stack, j, obj[i])
    BY <2>1 DEF Grown
  <2>3. next[j] = stack[j] /\ Place(next, j) = Place(stack, j)
    BY <1>4
  <2>4. CASE j = k - 1
    <3>1. j + 1 = k
      BY <1>2, <2>4
    <3>. QED BY <1>3, <1>7, <2>2, <2>3, <2>4, <3>1 DEF Encloses
  <2>5. CASE j # k - 1
    <3>1. next[j + 1] = stack[j + 1]
      BY <1>2, <2>5
    <3>. QED BY <2>2, <2>3, <3>1 DEF Encloses
  <2>. QED BY <2>4, <2>5
<1>11. ASSUME NEW i \in DOMAIN obj
       PROVE  Children(next, 0, obj[i]) = Children(stack, 1, obj[i])
  <2>0. obj[i] \in Objects /\ obj[i].path # p
    BY <1>1, <1>9 DEF PathsOf
  <2>1. CASE obj[i].path = parent
    <3>1. Children(next, 0, obj[i]) = next[(k - 1) + 1].idx + (IF (k - 1) + 1 < Len(next) THEN 1 ELSE 0)
      <4>1. k - 1 \in 1..Len(next) - 1 /\ k - 1 \in 1..k - 1
        BY <1>2
      <4>2. obj[i].path = Place(next, k - 1)
        BY <1>4, <2>1, <4>1
      <4>. QED BY <1>1, <2>0, <4>1, <4>2, ChildrenOf
    <3>2. (k - 1) + 1 = k
      BY <1>2
    <3>3. Children(next, 0, obj[i]) = stack[k].idx + 1 + 0
      BY <1>2, <1>3, <3>1, <3>2
    <3>. QED BY <1>2, <1>8, <2>1, <3>3
  <2>2. CASE \E j \in 1..k - 2 : obj[i].path = Place(stack, j)
    <3>1. PICK j \in 1..k - 2 : obj[i].path = Place(stack, j)
      BY <2>2
    <3>2. /\ j \in 1..L - 1 /\ j + 1 < L /\ j \in 1..Len(next) - 1 /\ j + 1 < Len(next)
          /\ j \in 1..k - 1 /\ j + 1 \in 1..k - 1
      BY <1>2
    <3>3. next[j + 1] = stack[j + 1] /\ obj[i].path = Place(next, j)
      BY <1>4, <3>1, <3>2
    <3>4. Children(stack, 1, obj[i]) = stack[j + 1].idx + 1
      BY <1>1, <2>0, <3>1, <3>2, ChildrenOf
    <3>5. Children(next, 0, obj[i]) = next[j + 1].idx + 1
      BY <1>1, <2>0, <3>2, <3>3, ChildrenOf
    <3>. QED BY <3>3, <3>4, <3>5
  <2>3. CASE \A j \in 1..k - 1 : obj[i].path # Place(stack, j)
    <3>1. Children(next, 0, obj[i]) = Announced(obj[i].node)
      <4>1. \A j \in 1..k : j \in 1..k - 1 \/ j = k
        BY <1>2
      <4>2. \A j \in 1..Len(next) : obj[i].path # Place(next, j)
        BY <1>4, <1>5, <2>0, <2>3, <4>1
      <4>. QED BY <1>1, <2>0, <4>2, ChildrenOf
    <3>2. CASE \E l \in k..L : obj[i].path = Place(stack, l)
      <4>1. PICK l \in k..L : obj[i].path = Place(stack, l)
        BY <3>2
      <4>2. Children(stack, 1, obj[i]) = Announced(obj[i].node)
        BY <1>2, <4>1, FullLevels
      <4>. QED BY <3>1, <4>2
    <3>3. CASE \A l \in k..L : obj[i].path # Place(stack, l)
      <4>1. \A j \in 1..L : j \in 1..k - 1 \/ j \in k..L
        BY <1>2
      <4>2. \A j \in 1..Len(stack) : obj[i].path # Place(stack, j)
        BY <2>3, <3>3, <4>1
      <4>3. Children(stack, 1, obj[i]) = Announced(obj[i].node)
        BY <1>1, <2>0, <4>2, ChildrenOf
      <4>. QED BY <3>1, <4>3
    <3>. QED BY <3>2, <3>3
  <2>4. \A j \in 1..k - 1 : j \in 1..k - 2 \/ j = k - 1
    BY <1>2
  <2>. QED BY <2>1, <2>2, <2>3, <2>4
<1>. HIDE DEF p
<1>12. /\ obj \in Seq(Objects)
       /\ \A i, j \in DOMAIN obj : obj[i].path = obj[j].path => i = j
       /\ \A i \in DOMAIN obj : obj[i].path # <<>> => Front(obj[i].path) \in PathsOf(obj)
       /\ obj # <<>> => obj[1].path = <<>>
  BY DEF Grown
<1>13. \A i \in DOMAIN obj : \A q \in Nat :
         Append(obj[i].path, q) \in PathsOf(obj) <=> q < Children(next, 0, obj[i])
  BY <1>11 DEF Grown
<1>14. Grown(obj, next, 0)
  BY <1>1, <1>9, <1>10, <1>12, <1>13 DEF Grown, p
<1>. QED BY <1>7, <1>14

\* After an array that announces elements the tree goes on with the first.
LEMMA GrownInto ==
    ASSUME NEW obj, NEW stack, Grown(obj, stack, 1), NEW n \in Nat \ {0},
           NEW e \in DOMAIN obj, obj[e].path = PathOf(stack),
           obj[e].node.type = "array", obj[e].node.n = n,
           NEW next \in Seq(Levels), Len(next) = Len(stack) + 1,
           \A j \in 1..Len(stack) - 1 : next[j] = stack[j],
           next[Len(stack)].elements = n, next[Len(stack)].idx = stack[Len(stack)].idx,
           next[Len(stack) + 1] = Task(0)
    PROVE  Grown(obj, next, 0)
<1>. DEFINE L == Len(stack)
            p == PathOf(next)
<1>1. /\ stack \in Seq(Levels) /\ stack # <<>> /\ next # <<>>
      /\ \A i \in DOMAIN obj : obj[i] \in Objects /\ obj[i].path \in Seq(Nat)
  <2>1. \A i \in DOMAIN obj : obj[i] \in Objects
    BY ElementOfSeq, LenProperties DEF Grown
  <2>2. next # <<>>
    BY EmptySeq, StackTyped DEF Grown
  <2>. QED BY <2>1, <2>2 DEF Grown, Objects
<1>2. /\ L \in Nat \ {0} /\ L \in 1..L /\ L \in Nat
      /\ \A j \in 1..L : stack[j] \in Levels /\ stack[j].idx \in Nat
  BY <1>1, StackTyped
<1>3. /\ next[L].elements = n /\ next[L].idx = stack[L].idx /\ next[L + 1].idx = 0
      /\ \A j \in 1..L : next[j].idx = stack[j].idx
  <2>1. next[L].elements = n /\ next[L].idx = stack[L].idx /\ next[L + 1].idx = 0
    BY DEF Task
  <2>2. \A j \in 1..L : j \in 1..L - 1 \/ j = L
    BY <1>2
  <2>. QED BY <2>1, <2>2
<1>4. \A j \in 1..L : Place(next, j) = Place(stack, j) /\ Place(stack, j) \in Seq(Nat)
  <2>. SUFFICES ASSUME NEW j \in 1..L
                PROVE  Place(next, j) = Place(stack, j) /\ Place(stack, j) \in Seq(Nat)
    OBVIOUS
  <2>1. j \in Nat /\ \A l \in 2..j : next[l].idx = stack[l].idx
    BY <1>2, <1>3
  <2>2. Place(next, j) = Place(stack, j)
    BY <2>1, PlacesAgree
  <2>3. Place(stack, j) \in Seq(Nat)
    BY <1>1, Places
  <2>. QED BY <2>2, <2>3
<1>5. /\ p = Append(Place(stack, L), 0) /\ p = Place(next, L + 1)
      /\ obj[e].path = Place(stack, L)
  <2>1. L + 1 \in 2..Len(next) /\ (L + 1) - 1 = L
    BY <1>2
  <2>2. Place(next, L + 1) = Append(Place(next, (L + 1) - 1), next[L + 1].idx)
        /\ PathOf(next) = Place(next, L + 1)
    BY <1>1, <2>1, Places
  <2>3. PathOf(stack) = Place(stack, L)
    BY <1>1, Places
  <2>. QED BY <1>2, <1>3, <1>4, <2>1, <2>2, <2>3
<1>6. \A i \in DOMAIN obj : obj[i].path = Place(stack, L) => Children(stack, 1, obj[i]) = 0
  BY <1>1, ChildrenOf
<1>7. p \notin PathsOf(obj)
  <2>1. ~(0 < Children(stack, 1, obj[e])) /\ 0 \in Nat
    BY <1>5, <1>6
  <2>. QED BY <1>5, <2>1 DEF Grown
<1>8. ASSUME NEW j \in 1..Len(next) - 1
      PROVE  \E i \in DOMAIN obj : Encloses(next, j, obj[i])
  <2>1. CASE j = L
    <3>1. n > 0
      OBVIOUS
    <3>2. Encloses(next, L, obj[e])
      BY <1>2, <1>3, <1>4, <1>5, <3>1 DEF Encloses
    <3>. QED BY <2>1, <3>2
  <2>2. CASE j # L
    <3>1. j \in 1..L - 1 /\ j \in 1..L /\ j + 1 \in 1..L
      BY <1>2, <2>2
    <3>2. PICK i \in DOMAIN obj : Encloses(stack, j, obj[i])
      BY <3>1 DEF Grown
    <3>3. next[j] = stack[j] /\ Place(next, j) = Place(stack, j) /\ next[j + 1].idx = stack[j + 1].idx
      BY <1>3, <1>4, <3>1
    <3>. QED BY <3>2, <3>3 DEF Encloses
  <2>. QED BY <2>1, <2>2
<1>9. ASSUME NEW i \in DOMAIN obj
      PROVE  Children(next, 0, obj[i]) = Children(stack, 1, obj[i])
  <2>0. obj[i] \in Objects /\ obj[i].path # p
    BY <1>1, <1>7 DEF PathsOf
  <2>1. CASE obj[i].path = Place(stack, L)
    <3>1. L \in 1..Len(next) - 1 /\ obj[i].path = Place(next, L) /\ ~(L + 1 < Len(next))
      BY <1>2, <1>4, <2>1
    <3>2. Children(next, 0, obj[i]) = next[L + 1].idx + (IF L + 1 < Len(next) THEN 1 ELSE 0)
      BY <1>1, <2>0, <3>1, ChildrenOf
    <3>. QED BY <1>3, <1>6, <2>1, <3>1, <3>2
  <2>2. CASE \E j \in 1..L - 1 : obj[i].path = Place(stack, j)
    <3>1. PICK j \in 1..L - 1 : obj[i].path = Place(stack, j)
      BY <2>2
    <3>2. /\ j \in 1..L /\ j + 1 \in 1..L
          /\ j \in 1..Len(next) - 1 /\ j + 1 < Len(next)
      BY <1>2
    <3>3. next[j + 1].idx = stack[j + 1].idx /\ obj[i].path = Place(next, j)
      BY <1>3, <1>4, <3>1, <3>2
    <3>4. Children(stack, 1, obj[i]) = stack[j + 1].idx + (IF j + 1 < L THEN 1 ELSE 1)
      BY <1>1, <2>0, <3>1, <3>2, ChildrenOf
    <3>5. Children(next, 0, obj[i]) = next[j + 1].idx + 1
      BY <1>1, <2>0, <3>2, <3>3, ChildrenOf
    <3>. QED BY <3>3, <3>4, <3>5
  <2>3. CASE \A j \in 1..L : obj[i].path # Place(stack, j)
    <3>1. \A j \in 1..Len(next) : j \in 1..L \/ j = L + 1
      BY <1>2
    <3>2. \A j \in 1..Len(next) : obj[i].path # Place(next, j)
      BY <1>4, <1>5, <2>0, <2>3, <3>1
    <3>3. Children(next, 0, obj[i]) = Announced(obj[i].node)
      BY <1>1, <2>0, <3>2, ChildrenOf
    <3>4. Children(stack, 1, obj[i]) = Announced(obj[i].node)
      BY <1>1, <2>0, <2>3, ChildrenOf
    <3>. QED BY <3>3, <3>4
  <2>4. \A j \in 1..L : j \in 1..L - 1 \/ j = L
    BY <1>2
  <2>. QED BY <2>1, <2>2, <2>3, <2>4
<1>. HIDE DEF p
<1>10. /\ obj \in Seq(Objects)
       /\ \A i, j \in DOMAIN obj : obj[i].path = obj[j].path => i = j
       /\ \A i \in DOMAIN obj : obj[i].path # <<>> => Front(obj[i].path) \in PathsOf(obj)
       /\ obj # <<>> => obj[1].path = <<>>
  BY DEF Grown
<1>11. \A i \in DOMAIN obj : \A q \in Nat :
         Append(obj[i].path, q) \in PathsOf(obj) <=> q < Children(next, 0, obj[i])
  BY <1>9 DEF Grown
<1>. QED BY <1>1, <1>7, <1>8, <1>10, <1>11 DEF Grown, p

\* When every level is complete the objects are the tree.
LEMMA GrownWhole ==
    ASSUME NEW obj, NEW stack, Grown(obj, stack, 1),
           \A i \in DOMAIN obj : obj[i].path = PathOf(stack) => Announced(obj[i].node) = 0,
           \A j \in 2..Len(stack) : Complete(stack, j)
    PROVE  IsTree(obj)
<1>. DEFINE L == Len(stack)
<1>1. /\ stack \in Seq(Levels) /\ stack # <<>>
      /\ \A i \in DOMAIN obj : obj[i] \in Objects /\ obj[i].path \in Seq(Nat)
                              /\ obj[i].node \in Nodes
  <2>1. \A i \in DOMAIN obj : obj[i] \in Objects
    BY ElementOfSeq, LenProperties DEF Grown
  <2>. QED BY <2>1 DEF Grown, Objects
<1>2. L \in Nat \ {0} /\ 1 \in 1..L
  BY <1>1, StackTyped
<1>3. obj # <<>>
  <2>1. PathOf(stack) \in PathsOf(obj)
    BY DEF Grown
  <2>. QED BY <2>1 DEF PathsOf
<1>4. Len(obj) > 0
  BY <1>3, EmptySeq DEF Grown
<1>5. ASSUME NEW i \in DOMAIN obj, NEW q \in Nat
      PROVE  Append(obj[i].path, q) \in PathsOf(obj) <=> q < Announced(obj[i].node)
  <2>1. CASE \E k \in 1..L : obj[i].path = Place(stack, k)
    <3>1. PICK k \in 1..L : obj[i].path = Place(stack, k)
      BY <2>1
    <3>2. Children(stack, 1, obj[i]) = Announced(obj[i].node)
      BY <1>2, <3>1, FullLevels
    <3>. QED BY <3>2 DEF Grown
  <2>2. CASE \A k \in 1..L : obj[i].path # Place(stack, k)
    <3>1. Children(stack, 1, obj[i]) = Announced(obj[i].node)
      BY <1>1, <2>2, ChildrenOf
    <3>. QED BY <3>1 DEF Grown
  <2>. QED BY <2>1, <2>2
<1>6. ASSUME NEW i \in DOMAIN obj
      PROVE  {p \in PathsOf(obj) : Len(p) = Len(obj[i].path) + 1 /\ Front(p) = obj[i].path}
               = {Append(obj[i].path, k) :
                    k \in {m \in 0..obj[i].node.n - 1 : obj[i].node.type = "array"}}
  <2>. DEFINE o == obj[i]
  <2>1. o.path \in Seq(Nat) /\ o.node.n \in Int
    BY <1>1 DEF Nodes
  <2>2. \A q \in Nat : q < Announced(o.node) <=> q \in {m \in 0..o.node.n - 1 : o.node.type = "array"}
    <3>. HIDE DEF o
    <3>. QED BY <2>1 DEF Announced
  <2>3. ASSUME NEW p \in PathsOf(obj), Len(p) = Len(o.path) + 1, Front(p) = o.path
        PROVE  \E q \in Nat : p = Append(o.path, q)
    <3>1. p \in Seq(Nat)
      BY <1>1 DEF PathsOf
    <3>2. p # <<>>
      BY <2>1, <2>3, EmptySeq, LenProperties
    <3>3. PICK q \in Nat : p = Append(Front(p), q)
      BY <3>1, <3>2, FrontAndLast
    <3>. QED BY <2>3, <3>3
  <2>4. ASSUME NEW q \in Nat
        PROVE  Len(Append(o.path, q)) = Len(o.path) + 1 /\ Front(Append(o.path, q)) = o.path
    BY <2>1, AppendProperties, FrontOfAppend
  <2>5. \A q \in Nat : Append(o.path, q) \in PathsOf(obj) <=> q < Announced(o.node)
    BY <1>5
  <2>6. {m \in 0..o.node.n - 1 : o.node.type = "array"} \subseteq Nat
    BY <2>1
  <2>. HIDE DEF o
  <2>7. {p \in PathsOf(obj) : Len(p) = Len(o.path) + 1 /\ Front(p) = o.path}
          = {Append(o.path, k) : k \in {m \in 0..o.node.n - 1 : o.node.type = "array"}}
    <3>. DEFINE K == {m \in 0..o.node.n - 1 : o.node.type = "array"}
    <3>1. K \subseteq Nat /\ \A q \in Nat : Append(o.path, q) \in PathsOf(obj) <=> q \in K
      BY <2>2, <2>5, <2>6
    <3>. HIDE DEF K
    <3>2. {p \in PathsOf(obj) : Len(p) = Len(o.path) + 1 /\ Front(p) = o.path}
            = {Append(o.path, k) : k \in K}
      BY <2>3, <2>4, <3>1
    <3>. QED BY <3>2 DEF K
  <2>. QED BY <2>7 DEF o
<1>. QED BY <1>3, <1>4, <1>6 DEF Grown, IsTree

-----------------------------------------------------------------------------
(* How many nodes are still announced.                                     *)

\* rest[k]: the nodes that the levels up to k wait for, without k's own.
RestOf(stack, rest) ==
    /\ rest \in [1..Len(stack) -> Nat]
    /\ rest[1] = 0
    /\ \A k \in 2..Len(stack) :
         rest[k] = rest[k - 1] + stack[k - 1].elements - 1 - stack[k].idx

\* The nodes that the open levels still wait for, and the one on top.
Awaits(stack, owed) == \E rest : RestOf(stack, rest) /\ owed = rest[Len(stack)] + 1

\* A level that is complete waits for no more than the one before it.
LEMMA RestOfComplete ==
    ASSUME NEW stack \in Seq(Levels), stack # <<>>, NEW rest, RestOf(stack, rest),
           NEW b \in 1..Len(stack), \A j \in b + 1..Len(stack) : Complete(stack, j)
    PROVE  rest[Len(stack)] = rest[b]
<1>. DEFINE L == Len(stack)
            T == {j \in b..L : rest[j] = rest[b]}
<1>1. /\ L \in Nat \ {0} /\ b \in Int /\ L \in Int
      /\ \A j \in 1..L : stack[j].idx \in Nat /\ stack[j].elements \in Int
  BY StackTyped
<1>2. \A j \in 1..L : rest[j] \in Nat
  BY DEF RestOf
<1>3. b \in T
  BY <1>1
<1>4. ASSUME NEW j \in b..L - 1, j \in T PROVE j + 1 \in T
  <2>1. j + 1 \in b + 1..L /\ j + 1 \in 2..L /\ (j + 1) - 1 = j /\ j \in 1..L /\ j + 1 \in b..L
        /\ j + 1 \in 1..L
    BY <1>1
  <2>2. rest[j + 1] = rest[j] + stack[j].elements - 1 - stack[j + 1].idx
    BY <2>1 DEF RestOf
  <2>3. stack[j + 1].idx = stack[j].elements - 1
    BY <2>1 DEF Complete
  <2>4. rest[j + 1] = rest[j]
    BY <1>1, <1>2, <2>1, <2>2, <2>3
  <2>. QED BY <1>4, <2>1, <2>4
<1>5. b..L \subseteq T
  <2>1. \A j \in b..L - 1 : j \in T => j + 1 \in T
    BY <1>4
  <2>. HIDE DEF T, L
  <2>. QED BY <1>1, <1>3, <2>1, BoundedInduction, Zenon
<1>6. L \in b..L
  BY <1>1
<1>. QED BY <1>5, <1>6

\* An open level waits for a node.
LEMMA AwaitsSome ==
    ASSUME NEW stack \in Seq(Levels), stack # <<>>, NEW owed, Awaits(stack, owed)
    PROVE  owed \in Nat /\ owed > 0
<1>1. Len(stack) \in Nat \ {0}
  BY StackTyped
<1>2. Len(stack) \in 1..Len(stack)
  BY <1>1
<1>. QED BY <1>2 DEF Awaits, RestOf

\* When all levels are complete the node on top is the last.
LEMMA AwaitsOne ==
    ASSUME NEW stack \in Seq(Levels), stack # <<>>, NEW owed, Awaits(stack, owed),
           \A j \in 2..Len(stack) : Complete(stack, j)
    PROVE  owed = 1
<1>1. PICK rest : RestOf(stack, rest) /\ owed = rest[Len(stack)] + 1
  BY DEF Awaits
<1>2. Len(stack) \in Nat \ {0}
  BY StackTyped
<1>3. 1 \in 1..Len(stack) /\ \A j \in 1 + 1..Len(stack) : Complete(stack, j)
  BY <1>2
<1>4. rest[Len(stack)] = rest[1]
  BY <1>1, <1>3, RestOfComplete
<1>. QED BY <1>1, <1>4 DEF RestOf

\* The next element of a level takes the place of the one that was read.
LEMMA AwaitsOn ==
    ASSUME NEW stack \in Seq(Levels), stack # <<>>, NEW owed, Awaits(stack, owed),
           NEW k \in 2..Len(stack), stack[k].idx + 1 < stack[k - 1].elements,
           \A j \in k + 1..Len(stack) : Complete(stack, j),
           NEW next \in Seq(Levels), Len(next) = k,
           \A j \in 1..k - 1 : next[j] = stack[j],
           next[k] = Task(stack[k].idx + 1)
    PROVE  Awaits(next, owed - 1)
<1>. DEFINE L == Len(stack)
<1>1. PICK rest : RestOf(stack, rest) /\ owed = rest[L] + 1
  BY DEF Awaits
<1>2. /\ L \in Nat \ {0} /\ k \in 1..L /\ k - 1 \in 1..L
      /\ \A j \in 1..L : stack[j].idx \in Nat /\ stack[j].elements \in Int
  BY StackTyped
<1>3. rest[L] = rest[k]
  BY <1>1, <1>2, RestOfComplete
<1>4. rest[k] = rest[k - 1] + stack[k - 1].elements - 1 - stack[k].idx
      /\ rest[1] = 0 /\ \A j \in 1..L : rest[j] \in Nat
  BY <1>1 DEF RestOf
<1>5. rest[k] - 1 \in Nat /\ rest[k] - 1 = rest[k - 1] + stack[k - 1].elements - 1 - (stack[k].idx + 1)
  <2>. DEFINE a == rest[k]
              b == rest[k - 1]
              i == stack[k].idx
              e == stack[k - 1].elements
  <2>1. a \in Nat /\ b \in Nat /\ i \in Nat /\ e \in Int
    BY <1>2, <1>4
  <2>2. a = b + e - 1 - i /\ i + 1 < e
    BY <1>4
  <2>. SUFFICES a - 1 \in Nat /\ a - 1 = b + e - 1 - (i + 1)
    OBVIOUS
  <2>. HIDE DEF a, b, i, e
  <2>. QED BY <2>1, <2>2
<1>. DEFINE less == [j \in 1..k |-> IF j = k THEN rest[k] - 1 ELSE rest[j]]
<1>6. ASSUME NEW j \in 2..k
      PROVE  less[j] = less[j - 1] + next[j - 1].elements - 1 - next[j].idx
  <2>1. j - 1 \in 1..k - 1 /\ j - 1 # k /\ j \in 1..k /\ j - 1 \in 1..k /\ k - 1 \in 1..k - 1
    OBVIOUS
  <2>2. less[j - 1] = rest[j - 1] /\ next[j - 1] = stack[j - 1]
    BY <2>1
  <2>3. CASE j = k
    <3>1. next[j].idx = stack[k].idx + 1
      BY <2>3 DEF Task
    <3>2. less[j] = rest[k] - 1
      BY <2>1, <2>3
    <3>. HIDE DEF less
    <3>. QED BY <1>5, <2>2, <2>3, <3>1, <3>2
  <2>4. CASE j # k
    <3>1. less[j] = rest[j] /\ next[j] = stack[j] /\ j \in 2..L
      BY <1>2, <2>1, <2>4
    <3>2. rest[j] = rest[j - 1] + stack[j - 1].elements - 1 - stack[j].idx
      BY <1>1, <3>1 DEF RestOf
    <3>. HIDE DEF less
    <3>. QED BY <2>2, <3>1, <3>2
  <2>. QED BY <2>3, <2>4
<1>7. less \in [1..k -> Nat] /\ less[1] = 0 /\ less[k] = rest[k] - 1
  <2>1. 1 \in 1..k /\ 1 # k /\ k \in 1..k /\ \A j \in 1..k : j \in 1..L
    BY <1>2
  <2>. QED BY <1>4, <1>5, <2>1
<1>. HIDE DEF less
<1>8. RestOf(next, less)
  BY <1>6, <1>7 DEF RestOf
<1>9. owed - 1 = less[k] + 1
  BY <1>1, <1>2, <1>3, <1>4, <1>7
<1>. QED BY <1>8, <1>9 DEF Awaits

\* An array adds the nodes it announces.
LEMMA AwaitsInto ==
    ASSUME NEW stack \in Seq(Levels), stack # <<>>, NEW owed, Awaits(stack, owed),
           NEW n \in Nat \ {0},
           NEW next \in Seq(Levels), Len(next) = Len(stack) + 1,
           \A j \in 1..Len(stack) - 1 : next[j] = stack[j],
           next[Len(stack)].elements = n, next[Len(stack)].idx = stack[Len(stack)].idx,
           next[Len(stack) + 1] = Task(0)
    PROVE  Awaits(next, owed - 1 + n)
<1>. DEFINE L == Len(stack)
<1>1. PICK rest : RestOf(stack, rest) /\ owed = rest[L] + 1
  BY DEF Awaits
<1>2. L \in Nat \ {0} /\ L \in 1..L
  BY StackTyped
<1>3. rest[1] = 0 /\ \A j \in 1..L : rest[j] \in Nat
  BY <1>1 DEF RestOf
<1>. DEFINE more == [j \in 1..L + 1 |-> IF j = L + 1 THEN rest[L] + n - 1 ELSE rest[j]]
<1>4. /\ more \in [1..L + 1 -> Nat] /\ more[1] = 0 /\ more[L + 1] = rest[L] + n - 1
      /\ \A j \in 1..L : more[j] = rest[j]
  <2>1. /\ 1 \in 1..L /\ \A j \in 1..L : j # L + 1 /\ j \in 1..L + 1
        /\ L + 1 \in 1..L + 1 /\ \A j \in 1..L + 1 : j = L + 1 \/ j \in 1..L
    BY <1>2
  <2>2. rest[L] + n - 1 \in Nat
    BY <1>2, <1>3
  <2>. QED BY <1>3, <2>1, <2>2
<1>. HIDE DEF more
<1>5. ASSUME NEW j \in 2..L + 1
      PROVE  more[j] = more[j - 1] + next[j - 1].elements - 1 - next[j].idx
  <2>1. CASE j = L + 1
    <3>1. next[j].idx = 0 /\ j - 1 = L /\ next[j - 1].elements = n
      BY <1>2, <2>1 DEF Task
    <3>2. more[j - 1] = rest[L] /\ more[j] = rest[L] + n - 1
      BY <1>2, <1>4, <2>1, <3>1
    <3>. QED BY <1>2, <1>3, <3>1, <3>2
  <2>2. CASE j # L + 1
    <3>1. /\ j \in 2..L /\ j \in 1..L /\ j - 1 \in 1..L /\ j - 1 \in 1..L - 1
      BY <1>2, <2>2
    <3>2. next[j - 1] = stack[j - 1] /\ next[j].idx = stack[j].idx
      <4>1. j \in 1..L - 1 \/ j = L
        BY <1>2, <3>1
      <4>. QED BY <3>1, <4>1
    <3>3. rest[j] = rest[j - 1] + stack[j - 1].elements - 1 - stack[j].idx
      BY <1>1, <3>1 DEF RestOf
    <3>4. more[j] = rest[j] /\ more[j - 1] = rest[j - 1]
      BY <1>4, <3>1
    <3>. QED BY <3>2, <3>3, <3>4
  <2>. QED BY <2>1, <2>2
<1>6. RestOf(next, more)
  BY <1>4, <1>5 DEF RestOf
<1>7. owed - 1 + n = more[L + 1] + 1
  <2>1. rest[L] \in Nat /\ owed = rest[L] + 1 /\ more[L + 1] = rest[L] + n - 1
    BY <1>1, <1>2, <1>3, <1>4
  <2>. HIDE DEF L
  <2>. QED BY <2>1
<1>. QED BY <1>6, <1>7 DEF Awaits

-----------------------------------------------------------------------------
(* How far the parser is.                                                  *)

\* What the server sends after the first m nodes of a reply, if later follows it.
Unsent(nodes, m, later) == WireOf(SubSeq(nodes, m + 1, Len(nodes))) \o later

\* Node by node.
LEMMA UnsentSteps ==
    ASSUME NEW nodes \in Seq(Nodes), NEW later \in Seq(PartsSet)
    PROVE  /\ \A m \in 0..Len(nodes) : Unsent(nodes, m, later) \in Seq(PartsSet)
           /\ Unsent(nodes, Len(nodes), later) = later
           /\ \A m \in 0..Len(nodes) - 1 :
                Unsent(nodes, m, later) = Parts(nodes[m + 1]) \o Unsent(nodes, m + 1, later)
<1>. DEFINE L == Len(nodes)
            W(m) == WireOf(SubSeq(nodes, m, L))
<1>1. L \in Nat /\ \A m \in 1..L : nodes[m] \in Nodes
  BY LenProperties, ElementOfSeq
<1>2. \A m \in 0..L : W(m + 1) \in Seq(PartsSet)
  BY WireSteps
<1>3. W(L + 1) = <<>>
  BY WireSteps
<1>4. \A m \in 0..L - 1 : W(m + 1) = Parts(nodes[m + 1]) \o W(m + 2)
  BY WireSteps
<1>5. \A node \in Nodes : Parts(node) \in Seq(PartsSet)
  BY WireSteps
<1>6. \A m : Unsent(nodes, m, later) = W(m + 1) \o later
  BY DEF Unsent
<1>. HIDE DEF W
<1>7. \A m \in 0..L : Unsent(nodes, m, later) \in Seq(PartsSet)
  BY <1>2, <1>6, ConcatProperties
<1>8. Unsent(nodes, L, later) = later
  BY <1>3, <1>6, ConcatEmptySeq
<1>9. ASSUME NEW m \in 0..L - 1
      PROVE  Unsent(nodes, m, later) = Parts(nodes[m + 1]) \o Unsent(nodes, m + 1, later)
  <2>1. m + 1 \in 1..L /\ m + 1 \in 0..L /\ (m + 1) + 1 = m + 2
    BY <1>1
  <2>. DEFINE p == Parts(nodes[m + 1])
              w == W(m + 2)
  <2>2. p \in Seq(PartsSet) /\ w \in Seq(PartsSet)
    BY <1>1, <1>2, <1>5, <2>1
  <2>3. Unsent(nodes, m + 1, later) = w \o later
    BY <1>6, <2>1
  <2>4. Unsent(nodes, m, later) = (p \o w) \o later
    BY <1>4, <1>6
  <2>. HIDE DEF p, w
  <2>5. (p \o w) \o later = p \o (w \o later)
    BY <2>2, ConcatAssociative
  <2>. QED BY <2>3, <2>4, <2>5 DEF p
<1>. QED BY <1>7, <1>8, <1>9

\* A parser that holds buf, stack and obj has read the first m nodes and, if
\* typed is 1, the type of the next; what it holds and what is still to come (more)
\* are the parts of the others and of later replies.
ReadUpTo(buf, stack, obj, nodes, later, more, m, typed) ==
    /\ buf \in Seq(PartsSet) /\ more \in Seq(PartsSet) /\ later \in Seq(PartsSet)
    /\ m \in 0..Len(nodes)
    /\ obj \in Seq(Objects) /\ NodesOf(obj) = SubSeq(nodes, 1, m)
    /\ IF stack = <<>>
       THEN /\ typed = 0
            /\ IF m = 0 THEN obj = <<>> ELSE Owed(nodes)[m] = 0 /\ IsTree(obj)
       ELSE /\ Grown(obj, stack, 0) /\ Awaits(stack, Owed(nodes)[m])
            /\ stack[Len(stack)].type = IF typed = 1 THEN nodes[m + 1].type ELSE "none"
    /\ IF typed = 1
       THEN m < Len(nodes) /\ buf \o more = Tail(Unsent(nodes, m, later))
       ELSE buf \o more = Unsent(nodes, m, later)

Sound(r) == r = [err |-> FALSE, buf |-> r.buf, stack |-> r.stack, obj |-> r.obj]

\* r is somewhere in the reply.
Reading(r, nodes, later, more) ==
    /\ Sound(r)
    /\ \E m \in 0..Len(nodes), typed \in {0, 1} :
         ReadUpTo(r.buf, r.stack, r.obj, nodes, later, more, m, typed)

-----------------------------------------------------------------------------
(* Every turn reads on.                                                    *)

\* Two ways to cut a text; the first cut is not before the second.
SameText(a, b, c, d) == a \o b = c \o d /\ Len(c) <= Len(a)

\* a begins with c, and what remains of it with b is d.
Remains(S, a, b, c, d) ==
    /\ SubSeq(a, Len(c) + 1, Len(a)) \in Seq(S)
    /\ SubSeq(a, Len(c) + 1, Len(a)) \o b = d
    /\ \A i \in 1..Len(c) : a[i] = c[i]

\* What is cut off one sequence was the beginning of an equal one.
LEMMA CutOff ==
    ASSUME NEW S, NEW a \in Seq(S), NEW b \in Seq(S), NEW c \in Seq(S), NEW d \in Seq(S),
           SameText(a, b, c, d)
    PROVE  Remains(S, a, b, c, d)
<1>0. a \o b = c \o d
  BY DEF SameText
<1>9. Len(c) <= Len(a)
  BY DEF SameText
<1>. DEFINE n == Len(c)
            t == SubSeq(a, n + 1, Len(a))
<1>1. /\ Len(a) \in Nat /\ Len(b) \in Nat /\ n \in Nat /\ Len(d) \in Nat
      /\ \A i \in n + 1..Len(a) : a[i] \in S
  BY LenProperties, ElementOfSeq
<1>2. /\ t \in Seq(S) /\ Len(t) = Len(a) - n
      /\ \A i \in 1..Len(a) - n : t[i] = a[n + i]
  <2>1. n + 1 \in Int /\ Len(a) \in Int
    BY <1>1
  <2>2. /\ t \in Seq(S) /\ Len(t) = IF n + 1 <= Len(a) THEN Len(a) - (n + 1) + 1 ELSE 0
        /\ \A i \in 1..Len(a) - (n + 1) + 1 : t[i] = a[(n + 1) + i - 1]
    BY <1>1, <2>1, SubSeqProperties
  <2>. QED BY <1>1, <1>9, <2>2
<1>3. /\ Len(a) + Len(b) = n + Len(d)
      /\ \A i \in 1..Len(a) + Len(b) : (a \o b)[i] = IF i <= Len(a) THEN a[i] ELSE b[i - Len(a)]
      /\ \A i \in 1..n + Len(d) : (a \o b)[i] = IF i <= n THEN c[i] ELSE d[i - n]
  <2>1. Len(a \o b) = Len(a) + Len(b) /\ Len(c \o d) = n + Len(d)
    BY ConcatProperties
  <2>2. \A i \in 1..Len(a) + Len(b) : (a \o b)[i] = IF i <= Len(a) THEN a[i] ELSE b[i - Len(a)]
    BY ConcatProperties
  <2>3. \A i \in 1..n + Len(d) : (c \o d)[i] = IF i <= n THEN c[i] ELSE d[i - n]
    BY ConcatProperties
  <2>. QED BY <1>0, <2>1, <2>2, <2>3, Zenon
<1>. HIDE DEF t, n
<1>4. /\ t \o b \in Seq(S) /\ Len(t \o b) = Len(d)
      /\ \A i \in 1..Len(d) : (t \o b)[i] = IF i <= Len(a) - n THEN t[i] ELSE b[i - (Len(a) - n)]
  <2>1. /\ t \o b \in Seq(S) /\ Len(t \o b) = Len(t) + Len(b)
        /\ \A i \in 1..Len(t) + Len(b) : (t \o b)[i] = IF i <= Len(t) THEN t[i] ELSE b[i - Len(t)]
    BY <1>2, ConcatProperties
  <2>2. Len(t) + Len(b) = Len(d)
    BY <1>1, <1>2, <1>3
  <2>. QED BY <1>2, <2>1, <2>2
<1>5. n <= Len(a)
  BY <1>9 DEF n
<1>6. ASSUME NEW i \in 1..Len(d) PROVE (t \o b)[i] = d[i]
  <2>0. n + i \in 1..n + Len(d) /\ n + i \in 1..Len(a) + Len(b) /\ ~(n + i <= n) /\ (n + i) - n = i
    BY <1>1, <1>3
  <2>1. (a \o b)[n + i] = d[i]
    BY <1>3, <2>0
  <2>2. CASE i <= Len(a) - n
    <3>1. n + i <= Len(a) /\ i \in 1..Len(a) - n
      BY <1>1, <2>2
    <3>2. (a \o b)[n + i] = a[n + i]
      BY <1>3, <2>0, <3>1
    <3>. QED BY <1>2, <1>4, <2>1, <2>2, <3>1, <3>2
  <2>3. CASE ~(i <= Len(a) - n)
    <3>1. ~(n + i <= Len(a)) /\ i - (Len(a) - n) = (n + i) - Len(a)
      BY <1>1, <2>3
    <3>2. (a \o b)[n + i] = b[(n + i) - Len(a)]
      BY <1>3, <2>0, <3>1
    <3>3. (t \o b)[i] = b[(n + i) - Len(a)]
      BY <1>4, <2>3, <3>1
    <3>. QED BY <2>1, <3>2, <3>3
  <2>. QED BY <2>2, <2>3
<1>7. t \o b = d
  BY <1>4, <1>6, SeqEqual
<1>8. ASSUME NEW i \in 1..n PROVE a[i] = c[i]
  <2>1. i \in 1..Len(a) + Len(b) /\ i \in 1..n + Len(d) /\ i <= Len(a) /\ i <= n
    BY <1>1, <1>5
  <2>. QED BY <1>3, <2>1
<1>. QED BY <1>2, <1>7, <1>8 DEF t, n, Remains

\* The type of a level says nothing of the tree.
LEMMA Retyped ==
    ASSUME NEW obj, NEW stack, NEW top, Grown(obj, stack, top), NEW owed, Awaits(stack, owed),
           NEW type \in NodeTypes, NEW next, next = [stack EXCEPT ![Len(stack)].type = type]
    PROVE  Grown(obj, next, top) /\ Awaits(next, owed)
<1>. DEFINE L == Len(stack)
            e == [stack[L] EXCEPT !.type = type]
<1>1. stack \in Seq(Levels) /\ stack # <<>>
  BY DEF Grown
<1>2. /\ L \in Nat \ {0} /\ L \in 1..L /\ L \in Nat
      /\ \A j \in 1..L : stack[j] \in Levels
  BY <1>1, StackTyped
<1>3. e \in Levels /\ e.idx = stack[L].idx /\ e.elements = stack[L].elements
  BY <1>2 DEF Levels
<1>4. next = [stack EXCEPT ![L] = e]
  BY <1>1, <1>2
<1>. HIDE DEF e
<1>5. /\ next \in Seq(Levels) /\ Len(next) = L /\ next # <<>>
      /\ \A j \in 1..L : next[j].idx = stack[j].idx /\ next[j].elements = stack[j].elements
  <2>1. /\ next \in Seq(Levels) /\ Len(next) = L
        /\ \A j \in 1..L : next[j] = IF j = L THEN e ELSE stack[j]
    BY <1>1, <1>2, <1>3, <1>4, ExceptSeq, SMTT(30)
  <2>2. next # <<>>
    BY <1>2, <2>1, EmptySeq
  <2>. QED BY <1>3, <2>1, <2>2
<1>. HIDE DEF L
<1>6. ASSUME NEW k \in 1..L PROVE Place(next, k) = Place(stack, k)
  <2>1. k \in Nat /\ \A j \in 2..k : j \in 1..L
    BY <1>2
  <2>2. \A j \in 2..k : next[j].idx = stack[j].idx
    BY <1>5, <2>1
  <2>3. \A x : (\A j \in 2..k : x[j].idx = stack[j].idx) => Place(x, k) = Place(stack, k)
    BY <2>1, PlacesAgree
  <2>. QED BY <2>2, <2>3, Zenon
<1>7. PathOf(next) = PathOf(stack)
  BY <1>1, <1>2, <1>5, <1>6, Places DEF L
<1>8. ASSUME NEW k \in 1..L - 1, NEW o PROVE Encloses(next, k, o) <=> Encloses(stack, k, o)
  <2>1. k \in 1..L /\ k + 1 \in 1..L
    BY <1>2
  <2>. QED BY <1>5, <1>6, <2>1 DEF Encloses
<1>9. ASSUME NEW o \in Objects PROVE Children(next, top, o) = Children(stack, top, o)
  <2>. DEFINE h == Len(o.path) + 1
  <2>1. h \in Nat /\ h >= 1
    BY LenProperties DEF Objects
  <2>2. \A s : Children(s, top, o)
                = IF h < Len(s) /\ o.path = Place(s, h)
                  THEN s[h + 1].idx + (IF h + 1 < Len(s) THEN 1 ELSE top)
                  ELSE IF h = Len(s) /\ o.path = Place(s, h) THEN 0 ELSE Announced(o.node)
    BY DEF Children
  <2>. HIDE DEF h
  <2>3. h < L => h \in 1..L /\ h + 1 \in 1..L
    BY <1>2, <2>1
  <2>4. h = L => h \in 1..L
    BY <1>2
  <2>5. /\ Len(next) = L /\ Len(stack) = L
        /\ h < L => Place(next, h) = Place(stack, h) /\ next[h + 1].idx = stack[h + 1].idx
        /\ h = L => Place(next, h) = Place(stack, h)
    BY <1>5, <1>6, <2>3, <2>4 DEF L
  <2>6. Children(next, top, o)
          = IF h < L /\ o.path = Place(next, h)
            THEN next[h + 1].idx + (IF h + 1 < L THEN 1 ELSE top)
            ELSE IF h = L /\ o.path = Place(next, h) THEN 0 ELSE Announced(o.node)
    BY <2>2, <2>5
  <2>7. Children(stack, top, o)
          = IF h < L /\ o.path = Place(stack, h)
            THEN stack[h + 1].idx + (IF h + 1 < L THEN 1 ELSE top)
            ELSE IF h = L /\ o.path = Place(stack, h) THEN 0 ELSE Announced(o.node)
    BY <2>2, <2>5
  <2>8. CASE h < L
    BY <2>5, <2>6, <2>7, <2>8
  <2>9. CASE ~(h < L)
    BY <2>5, <2>6, <2>7, <2>9
  <2>. QED BY <2>8, <2>9
<1>10. \A i \in DOMAIN obj : obj[i] \in Objects
  BY ElementOfSeq, LenProperties DEF Grown
<1>11. /\ \A k \in 1..L - 1 : \E i \in DOMAIN obj : Encloses(next, k, obj[i])
       /\ \A i \in DOMAIN obj : \A q \in Nat :
            Append(obj[i].path, q) \in PathsOf(obj) <=> q < Children(next, top, obj[i])
  BY <1>8, <1>9, <1>10 DEF Grown, L
<1>12. Grown(obj, next, top)
  BY <1>5, <1>7, <1>11 DEF Grown
<1>13. PICK rest : RestOf(stack, rest) /\ owed = rest[L] + 1
  BY DEF Awaits, L
<1>14. RestOf(next, rest)
  <2>1. ASSUME NEW k \in 2..L
        PROVE  rest[k] = rest[k - 1] + next[k - 1].elements - 1 - next[k].idx
    <3>1. k \in 1..L /\ k - 1 \in 1..L
      BY <1>2
    <3>. QED BY <1>5, <1>13, <3>1 DEF RestOf, L
  <2>. QED BY <1>5, <1>13, <2>1 DEF RestOf, L
<1>. QED BY <1>5, <1>12, <1>13, <1>14 DEF Awaits

\* Where the parser goes after a node: to the first element that it announces
\* or to the next that is still to come.
NextStack(stack, node) ==
    IF Announced(node) > 0
    THEN Append([stack EXCEPT ![Len(stack)].elements = node.n], Task(0))
    ELSE NextTask(stack)

\* The objects with one more, at the place of the level on top.
With(obj, stack, node) == Append(obj, [path |-> PathOf(stack), node |-> node])

\* The tree with one node more, and what it waits for then.
LEMMA TreeGoesOn ==
    ASSUME NEW obj, NEW stack, Grown(obj, stack, 0), NEW owed, Awaits(stack, owed),
           NEW node \in Nodes
    PROVE  IF NextStack(stack, node) = <<>>
           THEN IsTree(With(obj, stack, node)) /\ owed - 1 + Announced(node) = 0
           ELSE /\ Grown(With(obj, stack, node), NextStack(stack, node), 0)
                /\ Awaits(NextStack(stack, node), owed - 1 + Announced(node))
                /\ NextStack(stack, node)[Len(NextStack(stack, node))].type = "none"
<1>. DEFINE L == Len(stack)
            n == Len(obj)
            new == With(obj, stack, node)
            next == NextStack(stack, node)
<1>a. new = Append(obj, [path |-> PathOf(stack), node |-> node])
  BY DEF With
<1>b. next = NextStack(stack, node)
  OBVIOUS
<1>. SUFFICES IF next = <<>>
              THEN IsTree(new) /\ owed - 1 + Announced(node) = 0
              ELSE /\ Grown(new, next, 0) /\ Awaits(next, owed - 1 + Announced(node))
                   /\ next[Len(next)].type = "none"
  OBVIOUS
<1>. HIDE DEF new, next
<1>1. stack \in Seq(Levels) /\ stack # <<>> /\ obj \in Seq(Objects)
  BY DEF Grown
<1>2. /\ L \in Nat \ {0} /\ L \in 1..L /\ L \in Nat /\ n \in Nat
      /\ \A j \in 1..L : stack[j] \in Levels
  BY <1>1, StackTyped, LenProperties
<1>3. Grown(new, stack, 1)
  BY <1>a, GrownByOne
<1>4. /\ n + 1 \in DOMAIN new /\ new[n + 1].path = PathOf(stack) /\ new[n + 1].node = node
  <2>1. [path |-> PathOf(stack), node |-> node] \in Objects
    BY <1>1, <1>2, Places DEF Objects
  <2>2. /\ DOMAIN new = 1..n + 1 /\ n + 1 \in 1..n + 1
        /\ new[n + 1] = [path |-> PathOf(stack), node |-> node]
    BY <1>1, <1>2, <1>a, <2>1, AppendProperties, LenProperties
  <2>. QED BY <2>2
<1>5. owed \in Nat /\ owed > 0
  BY <1>1, AwaitsSome
<1>6. CASE Announced(node) > 0
  <2>. DEFINE e == [stack[L] EXCEPT !.elements = node.n]
  <2>1. Announced(node) = node.n /\ node.n \in Nat \ {0} /\ node.type = "array"
    BY <1>6 DEF Announced, Nodes
  <2>2. e \in Levels /\ e.elements = node.n /\ e.idx = stack[L].idx
    <3>1. stack[L] \in Levels /\ node.n \in Int
      BY <1>2, <2>1
    <3>. QED BY <3>1 DEF Levels
  <2>3. [stack EXCEPT ![L].elements = node.n] = [stack EXCEPT ![L] = e]
    BY <1>1, <1>2
  <2>. HIDE DEF e
  <2>. DEFINE entered == [stack EXCEPT ![L] = e]
  <2>4. /\ entered \in Seq(Levels) /\ Len(entered) = L
        /\ \A j \in 1..L : entered[j] = IF j = L THEN e ELSE stack[j]
    BY <1>1, <1>2, <2>2, ExceptSeq
  <2>5. next = Append(entered, Task(0))
    BY <1>6, <1>b, <2>3 DEF NextStack
  <2>6. Task(0) \in Levels /\ Task(0).type = "none"
    BY DEF Task, Levels
  <2>. HIDE DEF entered
  <2>7. /\ next \in Seq(Levels) /\ Len(next) = L + 1 /\ next # <<>> /\ next[L + 1] = Task(0)
        /\ \A j \in 1..L : next[j] = entered[j]
    BY <2>4, <2>5, <2>6, AppendProperties
  <2>8. /\ \A j \in 1..L - 1 : next[j] = stack[j]
        /\ next[L].elements = node.n /\ next[L].idx = stack[L].idx
    <3>1. \A j \in 1..L - 1 : j \in 1..L /\ j # L
      BY <1>2
    <3>. QED BY <1>2, <2>2, <2>4, <2>7, <3>1
  <2>9. Grown(new, next, 0)
    BY <1>3, <1>4, <2>1, <2>7, <2>8, GrownInto
  <2>10. Awaits(next, owed - 1 + node.n)
    BY <1>1, <2>1, <2>7, <2>8, AwaitsInto
  <2>. QED BY <2>1, <2>6, <2>7, <2>9, <2>10
<1>7. CASE ~(Announced(node) > 0)
  <2>1. Announced(node) = 0 /\ next = NextTask(stack)
    BY <1>7, <1>b DEF Announced, Nodes, NextStack
  <2>2. \A i \in DOMAIN new : new[i].path = PathOf(stack) => Announced(new[i].node) = 0
    BY <1>3, <1>4, <2>1 DEF Grown
  <2>3. CASE NextTask(stack) = <<>> /\ \A k \in 2..L : Complete(stack, k)
    <3>1. IsTree(new)
      BY <1>3, <2>2, <2>3, GrownWhole
    <3>2. owed = 1
      BY <1>1, <2>3, AwaitsOne
    <3>. QED BY <2>1, <2>3, <3>1, <3>2
  <2>4. ASSUME NEW k \in 2..L, ~Complete(stack, k),
               \A j \in k + 1..L : Complete(stack, j),
               next \in Seq(Levels), Len(next) = k,
               \A j \in 1..k - 1 : next[j] = stack[j],
               next[k] = Task(stack[k].idx + 1)
        PROVE  /\ next # <<>>
               /\ Grown(new, next, 0) /\ Awaits(next, owed - 1)
               /\ next[Len(next)].type = "none"
    <3>1. Grown(new, next, 0) /\ stack[k].idx + 1 < stack[k - 1].elements
      BY <1>3, <2>2, <2>4, GrownOn
    <3>2. Awaits(next, owed - 1)
      BY <1>1, <2>4, <3>1, AwaitsOn
    <3>. QED BY <2>4, <3>1, <3>2 DEF Grown, Task
  <2>5. owed - 1 + Announced(node) = owed - 1
    BY <1>5, <2>1
  <2>6. CASE \E k \in 2..L :
                /\ ~Complete(stack, k)
                /\ \A j \in k + 1..L : Complete(stack, j)
                /\ next \in Seq(Levels) /\ Len(next) = k
                /\ \A j \in 1..k - 1 : next[j] = stack[j]
                /\ next[k] = Task(stack[k].idx + 1)
    <3>1. /\ next # <<>> /\ Grown(new, next, 0) /\ Awaits(next, owed - 1)
          /\ next[Len(next)].type = "none"
      BY <2>4, <2>6, Zenon
    <3>. QED BY <2>5, <3>1
  <2>7. \/ NextTask(stack) = <<>> /\ \A k \in 2..L : Complete(stack, k)
        \/ \E k \in 2..L :
                /\ ~Complete(stack, k)
                /\ \A j \in k + 1..L : Complete(stack, j)
                /\ next \in Seq(Levels) /\ Len(next) = k
                /\ \A j \in 1..k - 1 : next[j] = stack[j]
                /\ next[k] = Task(stack[k].idx + 1)
    <3>. DEFINE g == NextTask(stack)
    <3>1. \/ g = <<>> /\ \A k \in 2..L : Complete(stack, k)
          \/ \E k \in 2..L :
                /\ ~Complete(stack, k)
                /\ \A j \in k + 1..L : Complete(stack, j)
                /\ g \in Seq(Levels) /\ Len(g) = k
                /\ \A j \in 1..k - 1 : g[j] = stack[j]
                /\ g[k] = Task(stack[k].idx + 1)
      BY <1>1, NextTaskIs, Zenon
    <3>2. g = next
      BY <2>1
    <3>. HIDE DEF g
    <3>3. g = NextTask(stack)
      BY DEF g
    <3>. QED BY <3>1, <3>2, <3>3, Zenon
  <2>. QED BY <2>3, <2>6, <2>7
<1>. QED BY <1>6, <1>7

\* What is left of the buffer when the parts of a node are taken.
LEMMA BufferGoesOn ==
    ASSUME NEW need \in Nat \ {0}
    PROVE  \A b, more, sent \in Seq(PartsSet), node \in Nodes :
             b \o more = Tail(Parts(node) \o sent) /\ Len(Parts(node)) = need + 1 /\ Len(b) >= need
               => /\ SubSeq(b, need + 1, Len(b)) \in Seq(PartsSet)
                  /\ SubSeq(b, need + 1, Len(b)) \o more = sent
                  /\ Head(b).node = node
<1>. SUFFICES ASSUME NEW b \in Seq(PartsSet), NEW more \in Seq(PartsSet),
                     NEW sent \in Seq(PartsSet), NEW node \in Nodes,
                     b \o more = Tail(Parts(node) \o sent),
                     Len(Parts(node)) = need + 1, Len(b) >= need
              PROVE  /\ SubSeq(b, need + 1, Len(b)) \in Seq(PartsSet)
                     /\ SubSeq(b, need + 1, Len(b)) \o more = sent
                     /\ Head(b).node = node
  OBVIOUS
<1>. DEFINE p == Parts(node)
            due == Tail(p)
<1>1. p \in Seq(PartsSet) /\ p # <<>> /\ Len(p) = need + 1
  <2>1. p \in Seq(PartsSet)
    <3>1. <<>> \in Seq(Nodes)
      OBVIOUS
    <3>. QED BY <3>1, WireSteps
  <2>. QED BY <2>1, EmptySeq
<1>2. due[1].node = node
  BY DEF Parts
<1>. HIDE DEF p
<1>3. due \in Seq(PartsSet) /\ Len(due) = need
  BY <1>1, HeadTailProperties
<1>4. Tail(p \o sent) = due \o sent
  BY <1>1
<1>5. SameText(b, more, due, sent)
  BY <1>3, <1>4 DEF p, SameText
<1>. HIDE DEF due
<1>6. Remains(PartsSet, b, more, due, sent)
  BY <1>3, <1>5, CutOff
<1>7. 1 \in 1..Len(due) /\ b # <<>>
  BY <1>3, EmptySeq
<1>8. Head(b) = b[1]
  BY <1>7
<1>. QED BY <1>2, <1>3, <1>6, <1>7, <1>8 DEF Remains

\* The nodes of the objects are those that were read.
LEMMA NodesGoOn ==
    ASSUME NEW nodes \in Seq(Nodes), NEW m \in 0..Len(nodes) - 1,
           NEW obj \in Seq(Objects), NodesOf(obj) = SubSeq(nodes, 1, m),
           NEW o \in Objects, o.node = nodes[m + 1]
    PROVE  Append(obj, o) \in Seq(Objects) /\ NodesOf(Append(obj, o)) = SubSeq(nodes, 1, m + 1)
<1>. DEFINE L == Len(nodes)
            new == Append(obj, o)
            s == SubSeq(nodes, 1, m)
            t == SubSeq(nodes, 1, m + 1)
<1>1. L \in Nat /\ m \in 0..L /\ m + 1 \in 0..L /\ Len(obj) \in Nat /\ DOMAIN obj = 1..Len(obj)
  BY LenProperties
<1>2. /\ new \in Seq(Objects) /\ Len(new) = Len(obj) + 1 /\ DOMAIN new = 1..Len(obj) + 1
      /\ new[Len(obj) + 1] = o /\ \A i \in 1..Len(obj) : new[i] = obj[i]
  BY <1>1, AppendProperties, LenProperties
<1>3. ASSUME NEW k \in 0..L
      PROVE  /\ SubSeq(nodes, 1, k) \in Seq(Nodes) /\ Len(SubSeq(nodes, 1, k)) = k
             /\ DOMAIN SubSeq(nodes, 1, k) = 1..k
             /\ \A i \in 1..k : SubSeq(nodes, 1, k)[i] = nodes[i]
  <2>1. 1 \in Int /\ k \in Int /\ \A i \in 1..k : nodes[i] \in Nodes
    BY <1>1, ElementOfSeq
  <2>2. /\ SubSeq(nodes, 1, k) \in Seq(Nodes)
        /\ Len(SubSeq(nodes, 1, k)) = IF 1 <= k THEN k - 1 + 1 ELSE 0
        /\ \A i \in 1..k - 1 + 1 : SubSeq(nodes, 1, k)[i] = nodes[1 + i - 1]
    BY <2>1, SubSeqProperties
  <2>. QED BY <2>2, LenProperties
<1>4. /\ DOMAIN s = 1..m /\ DOMAIN t = 1..m + 1 /\ t \in Seq(Nodes) /\ Len(t) = m + 1
      /\ (\A i \in 1..m : s[i] = nodes[i]) /\ (\A i \in 1..m + 1 : t[i] = nodes[i])
  BY <1>1, <1>3
<1>5. [i \in DOMAIN obj |-> obj[i].node] = s
  BY DEF NodesOf
<1>. HIDE DEF s, t, new
<1>6. Len(obj) = m /\ \A i \in 1..m : obj[i].node = nodes[i]
  <2>1. 1..Len(obj) = 1..m
    BY <1>1, <1>4, <1>5
  <2>2. Len(obj) = m
    <3>1. \A a, b \in Nat : 1..a = 1..b => a = b
      <4>. SUFFICES ASSUME NEW a \in Nat, NEW b \in Nat, 1..a = 1..b PROVE a = b
        OBVIOUS
      <4>1. \A i \in Int : i \in 1..a <=> i \in 1..b
        OBVIOUS
      <4>2. (1 <= a => a <= b) /\ (1 <= b => b <= a)
        BY <4>1
      <4>. QED BY <4>2
    <3>2. m \in Nat
      OBVIOUS
    <3>. QED BY <1>1, <2>1, <3>1, <3>2, Zenon
  <2>. QED BY <1>1, <1>4, <1>5, <2>2
<1>7. NodesOf(new) = [i \in 1..m + 1 |-> new[i].node]
  BY <1>2, <1>6 DEF NodesOf
<1>8. \A i \in 1..m + 1 : new[i].node = t[i]
  <2>1. \A i \in 1..m + 1 : i \in 1..m \/ i = m + 1
    BY <1>1
  <2>2. m + 1 \in 1..m + 1 /\ \A i \in 1..m : i \in 1..m + 1
    BY <1>1
  <2>. QED BY <1>2, <1>4, <1>6, <2>1, <2>2
<1>9. t = [i \in 1..m + 1 |-> t[i]]
  <2>1. t = [i \in 1..Len(t) |-> t[i]]
    BY <1>4
  <2>. QED BY <1>4, <2>1
<1>10. NodesOf(new) = t
  BY <1>7, <1>8, <1>9
<1>. QED BY <1>2, <1>10 DEF new, t

\* The node whose object is created is the next of the reply.
LEMMA CreatedReads ==
    ASSUME NEW nodes \in Seq(Nodes), NEW later, NEW more, NEW m, NEW b, NEW t, NEW u,
           ReadUpTo(b, t, u, nodes, later, more, m, 1), t # <<>>,
           NEW need \in Nat \ {0}, Len(Parts(nodes[m + 1])) = need + 1, Len(b) >= need
    PROVE  /\ Head(b).node = nodes[m + 1]
           /\ ReadUpTo(SubSeq(b, need + 1, Len(b)), NextStack(t, nodes[m + 1]),
                       With(u, t, nodes[m + 1]), nodes, later, more, m + 1, 0)
           /\ m + 1 \in 0..Len(nodes)
<1>. DEFINE L == Len(nodes)
            node == nodes[m + 1]
            owed == Owed(nodes)[m]
            sent == Unsent(nodes, m + 1, later)
            o == [path |-> PathOf(t), node |-> node]
            new == With(u, t, node)
            next == NextStack(t, node)
            buf == SubSeq(b, need + 1, Len(b))
<1>1. /\ b \in Seq(PartsSet) /\ more \in Seq(PartsSet) /\ later \in Seq(PartsSet)
      /\ m \in 0..L /\ m < L /\ u \in Seq(Objects) /\ NodesOf(u) = SubSeq(nodes, 1, m)
      /\ Grown(u, t, 0) /\ Awaits(t, owed)
      /\ b \o more = Tail(Unsent(nodes, m, later))
  BY DEF ReadUpTo
<1>2. L \in Nat /\ m \in 0..L - 1 /\ m + 1 \in 1..L /\ m + 1 \in 0..L
  BY <1>1, LenProperties
<1>3. node \in Nodes
  BY <1>2, ElementOfSeq
<1>4. sent \in Seq(PartsSet) /\ Unsent(nodes, m, later) = Parts(node) \o sent
  BY <1>1, <1>2, UnsentSteps
<1>5. sent = Unsent(nodes, m + 1, later)
  OBVIOUS
<1>6. Owed(nodes)[m + 1] = owed - 1 + Announced(node)
  <2>1. (m + 1) - 1 = m
    BY <1>2
  <2>2. \A k \in 1..L : Owed(nodes)[k] = Owed(nodes)[k - 1] - 1 + Announced(nodes[k])
    BY OwedSteps
  <2>. QED BY <1>2, <2>1, <2>2
<1>7. Len(Parts(node)) = need + 1
  OBVIOUS
<1>8. t \in Seq(Levels) /\ PathOf(t) \in Seq(Nat)
  <2>1. t \in Seq(Levels)
    BY <1>1 DEF Grown
  <2>. QED BY <2>1, StackTyped, Places
<1>9. o \in Objects /\ o.node = node /\ new = Append(u, o)
  BY <1>3, <1>8 DEF Objects, With
<1>10. new \in Seq(Objects) /\ NodesOf(new) = SubSeq(nodes, 1, m + 1)
  <2>1. \A ob \in Seq(Objects), ox \in Objects :
          NodesOf(ob) = SubSeq(nodes, 1, m) /\ ox.node = nodes[m + 1]
            => /\ Append(ob, ox) \in Seq(Objects)
               /\ NodesOf(Append(ob, ox)) = SubSeq(nodes, 1, m + 1)
    BY <1>2, NodesGoOn
  <2>2. o.node = nodes[m + 1]
    BY <1>9
  <2>. HIDE DEF o
  <2>. QED BY <1>1, <1>9, <2>1, <2>2, Zenon
<1>. HIDE DEF sent, node, owed
<1>11. buf \in Seq(PartsSet) /\ buf \o more = sent /\ Head(b).node = node
  <2>1. b \o more = Tail(Parts(node) \o sent)
    BY <1>1, <1>4
  <2>2. /\ b \in Seq(PartsSet) /\ more \in Seq(PartsSet) /\ sent \in Seq(PartsSet)
        /\ node \in Nodes /\ need \in Nat \ {0} /\ Len(Parts(node)) = need + 1
        /\ Len(b) >= need
    BY <1>1, <1>3, <1>4, <1>7
  <2>. QED BY <2>1, <2>2, BufferGoesOn, ZenonT(30)
<1>12. IF next = <<>>
       THEN IsTree(new) /\ owed - 1 + Announced(node) = 0
       ELSE /\ Grown(new, next, 0) /\ Awaits(next, owed - 1 + Announced(node))
            /\ next[Len(next)].type = "none"
  BY <1>1, <1>3, TreeGoesOn
<1>. HIDE DEF buf, new, next
<1>13. m + 1 # 0
  BY <1>2
<1>14. ReadUpTo(buf, next, new, nodes, later, more, m + 1, 0)
  BY <1>1, <1>2, <1>5, <1>6, <1>10, <1>11, <1>12, <1>13 DEF ReadUpTo
<1>. QED BY <1>2, <1>11, <1>14 DEF next, new, buf, node

\* What the parts of a node are.
LEMMA PartsAre ==
    ASSUME NEW node \in Nodes
    PROVE  /\ Parts(node) \in Seq(PartsSet)
           /\ Len(Parts(node)) = IF node.type = "string" /\ node.n >= 0 THEN 3 ELSE 2
           /\ Parts(node)[1] = [part |-> "type", node |-> node]
           /\ Parts(node)[2] = [part |-> "line", node |-> node]
<1>. DEFINE a == [part |-> "type", node |-> node]
            b == [part |-> "line", node |-> node]
            c == [part |-> "bytes", node |-> node]
<1>1. a \in PartsSet /\ b \in PartsSet /\ c \in PartsSet
  BY DEF PartsSet
<1>. DEFINE two == <<a, b>>
            rest == IF node.type = "string" /\ node.n >= 0 THEN <<c>> ELSE <<>>
<1>2. Parts(node) = two \o rest
  BY DEF Parts
<1>. HIDE DEF a, b, c
<1>3. two \in Seq(PartsSet) /\ Len(two) = 2 /\ two[1] = a /\ two[2] = b
  BY <1>1
<1>4. /\ rest \in Seq(PartsSet)
      /\ Len(rest) = IF node.type = "string" /\ node.n >= 0 THEN 1 ELSE 0
  BY <1>1
<1>. HIDE DEF two, rest
<1>5. /\ two \o rest \in Seq(PartsSet) /\ Len(two \o rest) = 2 + Len(rest)
      /\ (two \o rest)[1] = a /\ (two \o rest)[2] = b
  <2>1. /\ two \o rest \in Seq(PartsSet) /\ Len(two \o rest) = Len(two) + Len(rest)
        /\ \A i \in 1..Len(two) + Len(rest) :
             (two \o rest)[i] = IF i <= Len(two) THEN two[i] ELSE rest[i - Len(two)]
    BY <1>3, <1>4, ConcatProperties
  <2>2. Len(rest) \in Nat
    BY <1>4
  <2>3. 1 \in 1..Len(two) + Len(rest) /\ 2 \in 1..Len(two) + Len(rest)
    BY <1>3, <2>2
  <2>. QED BY <1>3, <2>1, <2>3
<1>6. /\ Parts(node) \in Seq(PartsSet) /\ Len(Parts(node)) = 2 + Len(rest)
      /\ Parts(node)[1] = a /\ Parts(node)[2] = b
  BY <1>2, <1>5, Zenon
<1>. QED BY <1>4, <1>6 DEF a, b

\* The first of what two sequences hold together.
LEMMA FirstOf ==
    ASSUME NEW S
    PROVE  \A x, y, z \in Seq(S) :
             x \o y = z /\ x # <<>>
               => /\ z # <<>> /\ Head(x) = z[1]
                  /\ Tail(x) \in Seq(S) /\ Tail(x) \o y = Tail(z)
<1>. SUFFICES ASSUME NEW x \in Seq(S), NEW y \in Seq(S), NEW z \in Seq(S), x \o y = z, x # <<>>
              PROVE  /\ z # <<>> /\ Head(x) = z[1]
                     /\ Tail(x) \in Seq(S) /\ Tail(x) \o y = Tail(z)
  OBVIOUS
<1>1. Len(x) \in Nat \ {0} /\ Len(x \o y) = Len(x) + Len(y) /\ Len(y) \in Nat
  BY EmptySeq, LenProperties, ConcatProperties
<1>2. z # <<>>
  BY <1>1, EmptySeq
<1>3. Head(x) = x[1] /\ (x \o y)[1] = x[1]
  BY <1>1, ConcatProperties
<1>4. Tail(x) \in Seq(S) /\ Tail(x \o y) = Tail(x) \o y
  BY <1>1
<1>. QED BY <1>2, <1>3, <1>4

\* The level on top when the type of what it reads is known.
Typed(stack, type) == [stack EXCEPT ![Len(stack)].type = type]

\* It is the same level otherwise.
LEMMA TypedIs ==
    ASSUME NEW stack \in Seq(Levels), stack # <<>>, NEW type \in NodeTypes
    PROVE  /\ Typed(stack, type) # <<>> /\ Len(Typed(stack, type)) = Len(stack)
           /\ Typed(stack, type)[Len(Typed(stack, type))].type = type
<1>. DEFINE L == Len(stack)
            e == [stack[L] EXCEPT !.type = type]
            next == Typed(stack, type)
<1>1. L \in 1..L /\ stack[L] \in Levels
  BY StackTyped
<1>2. next = [stack EXCEPT ![L] = e]
  BY <1>1 DEF Typed
<1>3. e \in Levels /\ e.type = type
  BY <1>1 DEF Levels
<1>. HIDE DEF e
<1>4. /\ [stack EXCEPT ![L] = e] \in Seq(Levels) /\ Len([stack EXCEPT ![L] = e]) = L
      /\ [stack EXCEPT ![L] = e][L] = e
  BY <1>1, <1>3, ExceptSeq
<1>. HIDE DEF next
<1>5. Len(next) = L /\ next[L] = e /\ next # <<>>
  BY <1>1, <1>2, <1>4, EmptySeq
<1>. QED BY <1>3, <1>5 DEF next

\* What the parser looks at is of the next node.
LEMMA NextPart ==
    ASSUME NEW nodes \in Seq(Nodes), IsReply(nodes), NEW later, NEW more, NEW m, NEW b, NEW t, NEW u,
           NEW typed \in {0, 1}, ReadUpTo(b, t, u, nodes, later, more, m, typed),
           t # <<>>
    PROVE  /\ m < Len(nodes) /\ m + 1 \in 1..Len(nodes) /\ nodes[m + 1] \in Nodes
           /\ t \in Seq(Levels)
           /\ typed = 1 => t[Len(t)].type = nodes[m + 1].type
           /\ typed = 0 => t[Len(t)].type = "none"
           /\ b # <<>> => Head(b).node = nodes[m + 1]
           /\ b # <<>> /\ typed = 0
                => /\ Head(b).part = "type"
                   /\ ReadUpTo(Tail(b), Typed(t, Head(b).node.type),
                               u, nodes, later, more, m, 1)
<1>. DEFINE L == Len(nodes)
            node == nodes[m + 1]
            sent == Unsent(nodes, m + 1, later)
            all == Parts(node) \o sent
<1>1. /\ b \in Seq(PartsSet) /\ more \in Seq(PartsSet) /\ later \in Seq(PartsSet)
      /\ m \in 0..L /\ u \in Seq(Objects) /\ NodesOf(u) = SubSeq(nodes, 1, m)
      /\ Grown(u, t, 0) /\ Awaits(t, Owed(nodes)[m])
      /\ t[Len(t)].type = IF typed = 1 THEN nodes[m + 1].type ELSE "none"
      /\ b \o more = IF typed = 1 THEN Tail(Unsent(nodes, m, later)) ELSE Unsent(nodes, m, later)
  BY DEF ReadUpTo
<1>2. t \in Seq(Levels)
  BY <1>1 DEF Grown
<1>3. m < L
  <2>1. Owed(nodes)[m] > 0
    BY <1>1, <1>2, AwaitsSome
  <2>2. Owed(nodes)[L] = 0
    BY DEF IsReply
  <2>. QED BY <1>1, <2>1, <2>2, LenProperties
<1>4. L \in Nat /\ m \in 0..L - 1 /\ m + 1 \in 1..L /\ m + 1 \in 0..L
  BY <1>1, <1>3, LenProperties
<1>5. node \in Nodes
  BY <1>4, ElementOfSeq
<1>6. sent \in Seq(PartsSet) /\ Unsent(nodes, m, later) = all
  BY <1>1, <1>4, UnsentSteps
<1>. HIDE DEF sent
<1>7. /\ all \in Seq(PartsSet) /\ Tail(all) \in Seq(PartsSet)
      /\ all[1] = [part |-> "type", node |-> node]
      /\ Tail(all)[1] = [part |-> "line", node |-> node]
  <2>. DEFINE p == Parts(node)
  <2>1. p \in Seq(PartsSet) /\ Len(p) \in {2, 3}
    BY <1>5, PartsAre
  <2>2. p[1] = [part |-> "type", node |-> node] /\ p[2] = [part |-> "line", node |-> node]
    BY <1>5, PartsAre
  <2>. HIDE DEF p
  <2>3. /\ p \o sent \in Seq(PartsSet) /\ Len(p \o sent) = Len(p) + Len(sent)
        /\ Len(sent) \in Nat /\ (p \o sent)[1] = p[1] /\ (p \o sent)[2] = p[2]
    BY <1>6, <2>1, ConcatProperties, LenProperties
  <2>. DEFINE a == p \o sent
  <2>. HIDE DEF a
  <2>4. a \in Seq(PartsSet) /\ Len(a) >= 2 /\ Len(a) \in Nat /\ a[1] = p[1] /\ a[2] = p[2]
    BY <2>1, <2>3 DEF a
  <2>5. Tail(a) \in Seq(PartsSet) /\ Tail(a)[1] = a[2]
    <3>1. a # <<>>
      BY <2>4, EmptySeq
    <3>. QED BY <2>4, <3>1
  <2>. QED BY <2>2, <2>4, <2>5 DEF a, p
<1>. HIDE DEF all, node, L
<1>8. ASSUME b # <<>>, typed = 1 PROVE Head(b) = [part |-> "line", node |-> node]
  <2>. DEFINE rest == Tail(all)
  <2>1. b \o more = rest /\ rest \in Seq(PartsSet) /\ rest[1] = [part |-> "line", node |-> node]
    BY <1>1, <1>6, <1>7, <1>8
  <2>. HIDE DEF rest
  <2>2. Head(b) = rest[1]
    <3>1. b \in Seq(PartsSet) /\ more \in Seq(PartsSet) /\ b # <<>>
      BY <1>1, <1>8
    <3>2. b \o more = rest /\ rest \in Seq(PartsSet)
      BY <2>1
    <3>. QED BY <3>1, <3>2, FirstOf, Zenon
  <2>. QED BY <2>1, <2>2
<1>9. ASSUME b # <<>>, typed = 0
      PROVE  /\ Head(b) = [part |-> "type", node |-> node]
             /\ ReadUpTo(Tail(b), Typed(t, Head(b).node.type),
                         u, nodes, later, more, m, 1)
  <2>1. b \o more = all
    BY <1>1, <1>6, <1>9
  <2>2. Head(b) = all[1] /\ Tail(b) \in Seq(PartsSet) /\ Tail(b) \o more = Tail(all)
    <3>1. b \in Seq(PartsSet) /\ more \in Seq(PartsSet)
      BY <1>1
    <3>2. all \in Seq(PartsSet) /\ b # <<>>
      BY <1>7, <1>9
    <3>. QED BY <2>1, <3>1, <3>2, FirstOf, Zenon
  <2>3. Head(b) = [part |-> "type", node |-> node] /\ Head(b).node = node
    BY <1>7, <2>2
  <2>. DEFINE next == Typed(t, node.type)
  <2>4. node.type \in NodeTypes
    BY <1>5 DEF Nodes
  <2>5. Grown(u, next, 0) /\ Awaits(next, Owed(nodes)[m])
    BY <1>1, <2>4, Retyped DEF Typed
  <2>6. next # <<>> /\ next[Len(next)].type = node.type
    BY <1>2, <2>4, TypedIs
  <2>. HIDE DEF next
  <2>7. ReadUpTo(Tail(b), next, u, nodes, later, more, m, 1)
    BY <1>1, <1>3, <1>6, <2>2, <2>5, <2>6 DEF ReadUpTo, L, node
  <2>. QED BY <2>3, <2>7 DEF next
<1>10. /\ m < L /\ m + 1 \in 1..L /\ node \in Nodes /\ t \in Seq(Levels)
       /\ typed = 1 => t[Len(t)].type = node.type
       /\ typed = 0 => t[Len(t)].type = "none"
  BY <1>1, <1>2, <1>3, <1>4, <1>5 DEF node
<1>11. b # <<>> => Head(b).node = node
  <2>1. CASE typed = 1
    BY <1>8, <2>1
  <2>2. CASE typed = 0
    BY <1>9, <2>2
  <2>. QED BY <2>1, <2>2
<1>12. b # <<>> /\ typed = 0 => Head(b).part = "type"
  BY <1>9
<1>13. b # <<>> /\ typed = 0
         => ReadUpTo(Tail(b), Typed(t, Head(b).node.type),
                     u, nodes, later, more, m, 1)
  BY <1>9, Zenon
<1>. QED BY <1>10, <1>11, <1>12, <1>13 DEF node, L

\* A parser that is not in error.
Holding(b, t, u) == [err |-> FALSE, buf |-> b, stack |-> t, obj |-> u]

\* Between two turns the parser is somewhere in the reply.
LEMMA HoldingReads ==
    ASSUME NEW nodes, NEW later, NEW more, NEW m, NEW typed \in {0, 1}, NEW b, NEW t, NEW u,
           ReadUpTo(b, t, u, nodes, later, more, m, typed)
    PROVE  Reading(Holding(b, t, u), nodes, later, more)
<1>1. m \in 0..Len(nodes)
  BY DEF ReadUpTo
<1>. DEFINE r == Holding(b, t, u)
<1>2. r.buf = b /\ r.stack = t /\ r.obj = u /\ Sound(r)
  BY DEF Holding, Sound
<1>. HIDE DEF r
<1>3. ReadUpTo(r.buf, r.stack, r.obj, nodes, later, more, m, typed)
  BY <1>2, Zenon
<1>4. \E m1 \in 0..Len(nodes), typed1 \in {0, 1} :
        ReadUpTo(r.buf, r.stack, r.obj, nodes, later, more, m1, typed1)
  BY <1>1, <1>3, Zenon
<1>5. Reading(r, nodes, later, more)
  BY <1>2, <1>4, Zenon DEF Reading
<1>. QED BY <1>5 DEF r

\* A reply with more arrays within arrays than the stack has entries.
TooDeep(nodes) == Cardinality({k \in DOMAIN nodes : nodes[k].type = "array"}) >= MaxDepth

\* What becomes of a parser that refuses a reply.
Refused(r) == r.err /\ r.buf = <<>> /\ r.obj = <<>>

\* The parser refuses no other reply, and goes on otherwise.
ReadsOrRefuses(r, nodes, later, more) ==
    \/ Reading(r, nodes, later, more)
    \/ Refused(r) /\ TooDeep(nodes)

\* When the stack is full and its last level is to read an array, the levels
\* below read arrays that enclose each other.
LEMMA FullStack ==
    ASSUME NEW nodes \in Seq(Nodes), NEW obj, NEW stack, NEW m, Grown(obj, stack, 0),
           Len(stack) = MaxDepth, m \in 0..Len(nodes) - 1, NodesOf(obj) = SubSeq(nodes, 1, m),
           nodes[m + 1].type = "array"
    PROVE  TooDeep(nodes)
<1>. DEFINE L == Len(nodes)
            A == {k \in DOMAIN nodes : nodes[k].type = "array"}
            At(k) == CHOOSE i \in DOMAIN obj : Encloses(stack, k, obj[i])
            f == [k \in 1..MaxDepth |-> IF k = MaxDepth THEN m + 1 ELSE At(k)]
<1>1. L \in Nat /\ DOMAIN nodes = 1..L /\ m + 1 \in 1..L /\ MaxDepth = 9
  BY LenProperties DEF MaxDepth
<1>2. stack \in Seq(Levels) /\ stack # <<>> /\ obj \in Seq(Objects)
  BY DEF Grown
<1>3. \A k \in 1..MaxDepth - 1 : \E i \in DOMAIN obj : Encloses(stack, k, obj[i])
  BY DEF Grown
<1>4. ASSUME NEW k \in 1..MaxDepth - 1
      PROVE  At(k) \in DOMAIN obj /\ Encloses(stack, k, obj[At(k)])
  BY <1>3, <1>4
<1>5. DOMAIN obj = 1..m /\ \A i \in 1..m : obj[i].node = nodes[i]
  <2>. DEFINE s == SubSeq(nodes, 1, m)
  <2>1. 1 \in Int /\ m \in Int /\ \A i \in 1..m : nodes[i] \in Nodes
    <3>1. \A i \in 1..m : i \in 1..L
      BY <1>1
    <3>. QED BY <1>1, <3>1, ElementOfSeq
  <2>2. /\ s \in Seq(Nodes) /\ Len(s) = (IF 1 <= m THEN m - 1 + 1 ELSE 0)
        /\ \A i \in 1..m - 1 + 1 : s[i] = nodes[1 + i - 1]
    BY <2>1, SubSeqProperties
  <2>3. DOMAIN s = 1..m /\ \A i \in 1..m : s[i] = nodes[i]
    <3>1. Len(s) = m /\ DOMAIN s = 1..Len(s)
      BY <1>1, <2>2, LenProperties
    <3>. QED BY <1>1, <2>2, <3>1
  <2>4. s = [i \in DOMAIN obj |-> obj[i].node]
    BY DEF NodesOf
  <2>. HIDE DEF s
  <2>. QED BY <2>3, <2>4
<1>6. ASSUME NEW k \in 1..MaxDepth - 1
      PROVE  /\ At(k) \in 1..m /\ nodes[At(k)].type = "array" /\ At(k) \in 1..L
             /\ Len(obj[At(k)].path) = k - 1
  <2>1. At(k) \in 1..m /\ Encloses(stack, k, obj[At(k)])
    BY <1>4, <1>5
  <2>. DEFINE i == At(k)
  <2>2. i \in 1..m /\ Encloses(stack, k, obj[i])
    BY <2>1
  <2>. HIDE DEF i, At
  <2>3. obj[i].path = Place(stack, k) /\ nodes[i].type = "array"
    BY <1>5, <2>2 DEF Encloses
  <2>4. k \in 1..Len(stack)
    BY <1>1
  <2>5. Len(Place(stack, k)) = k - 1
    BY <1>2, <2>4, Places
  <2>6. i \in 1..L
    BY <1>1, <2>2
  <2>. QED BY <2>2, <2>3, <2>5, <2>6 DEF i
<1>. HIDE DEF At
<1>7. \A k \in 1..MaxDepth : f[k] \in A
  <2>1. \A k \in 1..MaxDepth : k # MaxDepth => k \in 1..MaxDepth - 1
    BY <1>1
  <2>2. \A k \in 1..MaxDepth - 1 : At(k) \in A
    BY <1>1, <1>6
  <2>3. m + 1 \in A
    BY <1>1
  <2>. HIDE DEF A
  <2>. QED BY <2>1, <2>2, <2>3
<1>8. \A k, l \in 1..MaxDepth : f[k] = f[l] => k = l
  <2>1. \A k \in 1..MaxDepth - 1 : At(k) # m + 1
    <3>1. m \in Nat /\ ~(m + 1 \in 1..m)
      BY <1>1
    <3>. QED BY <1>6, <3>1
  <2>2. ASSUME NEW k \in 1..MaxDepth - 1, NEW l \in 1..MaxDepth - 1, At(k) = At(l) PROVE k = l
    <3>1. Len(obj[At(k)].path) = k - 1 /\ Len(obj[At(k)].path) = l - 1
      BY <1>6, <2>2
    <3>. QED BY <1>1, <3>1
  <2>3. \A k \in 1..MaxDepth : k # MaxDepth => k \in 1..MaxDepth - 1
    BY <1>1
  <2>. QED BY <2>1, <2>2, <2>3
<1>9. IsFiniteSet(1..MaxDepth) /\ Cardinality(1..MaxDepth) = 9
  <2>1. 1 \in Int /\ 9 \in Int /\ ~(1 > 9) /\ 9 - 1 + 1 = 9
    OBVIOUS
  <2>2. \A a, b \in Int : IsFiniteSet(a..b) /\ Cardinality(a..b) = IF a > b THEN 0 ELSE b - a + 1
    BY FS_Interval
  <2>3. IsFiniteSet(1..9) /\ Cardinality(1..9) = IF 1 > 9 THEN 0 ELSE 9 - 1 + 1
    BY <2>1, <2>2, Zenon
  <2>. QED BY <1>1, <2>1, <2>3
<1>10. IsFiniteSet(A)
  <2>1. IsFiniteSet(1..L) /\ A \subseteq 1..L
    BY <1>1, FS_Interval
  <2>. HIDE DEF A
  <2>. QED BY <2>1, FS_Subset
<1>11. f \in Injection(1..MaxDepth, A)
  <2>1. f = [k \in 1..MaxDepth |-> f[k]]
    OBVIOUS
  <2>. HIDE DEF A, f
  <2>2. f \in [1..MaxDepth -> A]
    BY <1>7, <2>1
  <2>. QED BY <1>8, <2>2, Zenon DEF Injection, IsInjective
<1>12. Cardinality(1..MaxDepth) <= Cardinality(A)
  <2>. HIDE DEF A, f
  <2>. QED BY <1>9, <1>10, <1>11, FS_Injection
<1>. HIDE DEF A
<1>13. Cardinality(A) >= MaxDepth
  <2>1. Cardinality(A) \in Nat
    BY <1>10, FS_CardinalityType
  <2>. QED BY <1>1, <1>9, <1>12, <2>1
<1>. QED BY <1>13 DEF A, TooDeep

\* What is read next when its type is known.
LEMMA TypedReads ==
    ASSUME NEW nodes \in Seq(Nodes), IsReply(nodes), NEW later, NEW more, NEW m, NEW b, NEW t, NEW u,
           ReadUpTo(b, t, u, nodes, later, more, m, 1), t # <<>>
    PROVE  LET r == Holding(b, t, u)
               type == t[Len(t)].type
           IN  /\ type \in NodeTypes
               /\ type \in LineTypes => Reading(ProcessLine(r), nodes, later, more)
               /\ type = "string" => Reading(ProcessBulk(r), nodes, later, more)
               /\ type = "array" => ReadsOrRefuses(ProcessMultiBulk(r), nodes, later, more)
<1>. DEFINE r == Holding(b, t, u)
            node == nodes[m + 1]
            Arrives(k) == Len(b) >= k
            Goes(k) == Created(r, k, NextStack(t, node))
<1>1. /\ m \in 0..Len(nodes) - 1 /\ node \in Nodes /\ t \in Seq(Levels)
      /\ t[Len(t)].type = node.type
      /\ b # <<>> => Head(b).node = node
  <2>1. 1 \in {0, 1} /\ 1 = 1 /\ m \in 0..Len(nodes) /\ Len(nodes) \in Nat
    BY LenProperties DEF ReadUpTo
  <2>2. /\ m < Len(nodes) /\ node \in Nodes /\ t \in Seq(Levels)
        /\ t[Len(t)].type = node.type
        /\ b # <<>> => Head(b).node = node
    BY <2>1, NextPart, SMT
  <2>. QED BY <2>1, <2>2
<1>2. b \in Seq(PartsSet) /\ Len(b) \in Nat
  BY LenProperties DEF ReadUpTo
<1>3. r.buf = b /\ r.stack = t /\ r.obj = u /\ r.err = FALSE
  BY DEF Holding
<1>4. Reading(r, nodes, later, more)
  BY HoldingReads
<1>5. Arrives(1) => b # <<>>
  BY <1>2, EmptySeq
<1>6. node.type \in NodeTypes /\ node.n \in Int /\ (node.type = "string" => node.n >= -1)
  <2>1. m + 1 \in DOMAIN nodes
    BY <1>1, LenProperties
  <2>. QED BY <1>1, <2>1 DEF Nodes, IsReply
<1>7. /\ Len(Parts(node)) = IF node.type = "string" /\ node.n >= 0 THEN 3 ELSE 2
  BY <1>1, PartsAre
<1>8. ASSUME NEW k \in Nat \ {0}, Len(Parts(node)) = k + 1, Arrives(k)
      PROVE  Reading(Goes(k), nodes, later, more)
  <2>1. /\ Head(b).node = node
        /\ ReadUpTo(SubSeq(b, k + 1, Len(b)), NextStack(t, node), With(u, t, node),
                    nodes, later, more, m + 1, 0)
    BY <1>8, CreatedReads
  <2>2. Goes(k) = Holding(SubSeq(b, k + 1, Len(b)), NextStack(t, node), With(u, t, node))
    <3>. DEFINE cut == SubSeq(b, k + 1, Len(b))
                o == [path |-> PathOf(t), node |-> node]
    <3>1. Goes(k) = [[[r EXCEPT !.buf = cut] EXCEPT !.stack = NextStack(t, node)]
                       EXCEPT !.obj = Append(u, o)]
      BY <1>3, <2>1 DEF Created
    <3>2. With(u, t, node) = Append(u, o)
      BY DEF With
    <3>. HIDE DEF cut, o, node
    <3>3. Goes(k) = Holding(cut, NextStack(t, node), Append(u, o))
      BY <3>1 DEF Holding
    <3>. QED BY <3>2, <3>3 DEF cut
  <2>. QED BY <2>1, <2>2, HoldingReads
<1>. HIDE DEF node
<1>9. CASE node.type \in LineTypes
  <2>1. ProcessLine(r) = IF Arrives(1) THEN Goes(1) ELSE r
    <3>1. NextStack(t, node) = NextTask(t)
      BY <1>9 DEF NextStack, Announced, LineTypes
    <3>. QED BY <1>3, <3>1 DEF ProcessLine, Arrived
  <2>2. Len(Parts(node)) = 1 + 1
    BY <1>7, <1>9 DEF LineTypes
  <2>3. Arrives(1) => Reading(Goes(1), nodes, later, more)
    BY <1>8, <2>2
  <2>4. node.type # "string" /\ node.type # "array"
    BY <1>9 DEF LineTypes
  <2>. HIDE DEF r, Goes, Arrives
  <2>5. Reading(ProcessLine(r), nodes, later, more)
    BY <1>4, <2>1, <2>3
  <2>. QED BY <1>1, <1>6, <2>4, <2>5 DEF r
<1>10. CASE node.type = "string"
  <2>. DEFINE need == IF node.n = -1 THEN 1 ELSE 2
  <2>1. ProcessBulk(r) = IF ~Arrives(1) THEN r ELSE IF Arrives(need) THEN Goes(need) ELSE r
    <3>1. NextStack(t, node) = NextTask(t)
      BY <1>10 DEF NextStack, Announced
    <3>. QED BY <1>1, <1>3, <1>5, <3>1 DEF ProcessBulk, Arrived
  <2>2. Len(Parts(node)) = need + 1 /\ need \in Nat \ {0}
    BY <1>6, <1>7, <1>10
  <2>. HIDE DEF need
  <2>3. Arrives(need) => Reading(Goes(need), nodes, later, more)
    BY <1>8, <2>2
  <2>4. node.type \notin LineTypes /\ node.type # "array"
    BY <1>10 DEF LineTypes
  <2>. HIDE DEF r, Goes, Arrives
  <2>5. Reading(ProcessBulk(r), nodes, later, more)
    BY <1>4, <2>1, <2>3
  <2>. QED BY <1>1, <1>6, <2>4, <2>5 DEF r
<1>11. CASE node.type = "array"
  <2>1. \/ Refused(ProcessMultiBulk(r)) /\ TooDeep(nodes)
        \/ ProcessMultiBulk(r) = IF ~Arrives(1) THEN r ELSE Goes(1)
    <3>1. CASE Len(t) = MaxDepth
      <4>1. ProcessMultiBulk(r) = ReaderFails(r)
        BY <1>3, <3>1 DEF ProcessMultiBulk
      <4>2. Refused(ReaderFails(r))
        BY DEF ReaderFails, Holding, Refused
      <4>3. TooDeep(nodes)
        <5>1. Grown(u, t, 0) /\ NodesOf(u) = SubSeq(nodes, 1, m) /\ nodes[m + 1].type = "array"
          BY <1>11 DEF ReadUpTo, node
        <5>. QED BY <1>1, <3>1, <5>1, FullStack
      <4>. QED BY <4>1, <4>2, <4>3
    <3>2. CASE Len(t) # MaxDepth /\ ~Arrives(1)
      BY <1>3, <3>2 DEF ProcessMultiBulk, Arrived
    <3>3. CASE Len(t) # MaxDepth /\ Arrives(1)
      <4>1. Head(b).node = node
        BY <1>1, <1>5, <3>3
      <4>2. CASE node.n > 0
        <5>1. NextStack(t, node) = Append([t EXCEPT ![Len(t)].elements = node.n], Task(0))
          BY <1>11, <4>2 DEF NextStack, Announced
        <5>. QED BY <1>3, <3>3, <4>1, <4>2, <5>1 DEF ProcessMultiBulk, Arrived
      <4>3. CASE ~(node.n > 0)
        <5>1. NextStack(t, node) = NextTask(t)
          BY <4>3 DEF NextStack, Announced
        <5>. QED BY <1>3, <3>3, <4>1, <4>3, <5>1 DEF ProcessMultiBulk, Arrived
      <4>. QED BY <4>2, <4>3
    <3>. QED BY <3>1, <3>2, <3>3
  <2>2. Len(Parts(node)) = 1 + 1
    BY <1>7, <1>11
  <2>3. Arrives(1) => Reading(Goes(1), nodes, later, more)
    BY <1>8, <2>2
  <2>4. node.type \notin LineTypes /\ node.type # "string"
    BY <1>11 DEF LineTypes
  <2>. HIDE DEF r, Goes, Arrives
  <2>5. ReadsOrRefuses(ProcessMultiBulk(r), nodes, later, more)
    BY <1>4, <2>1, <2>3, Zenon DEF ReadsOrRefuses
  <2>. QED BY <1>1, <1>6, <2>4, <2>5 DEF r
<1>. QED BY <1>6, <1>9, <1>10, <1>11 DEF NodeTypes

\* What the parser does with what it looks at.
Processed(q) ==
    LET type == q.stack[Len(q.stack)].type
    IN  CASE type \in LineTypes -> ProcessLine(q)
          [] type = "string"    -> ProcessBulk(q)
          [] type = "array"     -> ProcessMultiBulk(q)

\* An item is read as its type says, which is read first.
LEMMA ItemIs ==
    ASSUME NEW b, NEW t, NEW u
    PROVE  LET r == Holding(b, t, u)
               type == Head(b).node.type
               q == Holding(Tail(b), Typed(t, type), u)
           IN  /\ t[Len(t)].type \in NodeTypes => ProcessItem(r) = Processed(r)
               /\ t[Len(t)].type = "none" /\ b = <<>> => ProcessItem(r) = r
               /\ t[Len(t)].type = "none" /\ b # <<>> /\ Head(b).part = "type"
                   /\ type \in NodeTypes /\ Len(q.stack) = Len(t) /\ q.stack[Len(t)].type = type
                    => ProcessItem(r) = Processed(q)
<1>. DEFINE r == Holding(b, t, u)
            top == Len(r.stack)
            type == Head(b).node.type
            q == Holding(Tail(b), Typed(t, type), u)
            read == [r EXCEPT !.buf = Tail(@), !.stack[top].type = Head(r.buf).node.type]
            Case(x) == CASE r.stack[top].type = "none" /\ r.buf # <<>> /\ Head(r.buf).part # "type"
                              -> ReaderFails(r)
                         [] x.stack[top].type = "none"         -> x
                         [] x.stack[top].type \in LineTypes    -> ProcessLine(x)
                         [] x.stack[top].type = "string"       -> ProcessBulk(x)
                         [] x.stack[top].type = "array"        -> ProcessMultiBulk(x)
<1>. SUFFICES /\ t[Len(t)].type \in NodeTypes => ProcessItem(r) = Processed(r)
              /\ t[Len(t)].type = "none" /\ b = <<>> => ProcessItem(r) = r
              /\ t[Len(t)].type = "none" /\ b # <<>> /\ Head(b).part = "type"
                  /\ type \in NodeTypes /\ Len(q.stack) = Len(t) /\ q.stack[Len(t)].type = type
                   => ProcessItem(r) = Processed(q)
  OBVIOUS
<1>1. \A x \in NodeTypes :
        /\ x # "none" /\ (x \in LineTypes \/ x = "string" \/ x = "array")
        /\ x \in LineTypes => x # "string" /\ x # "array"
  BY DEF NodeTypes, LineTypes
<1>2. "none" \notin LineTypes
  BY DEF LineTypes
<1>3. r.buf = b /\ r.stack = t /\ r.obj = u /\ top = Len(t)
  BY DEF Holding
<1>4. ProcessItem(r) = Case(IF r.stack[top].type # "none" \/ r.buf = <<>> THEN r ELSE read)
  BY Zenon DEF ProcessItem
<1>5. read = q
  <2>1. ASSUME NEW v, NEW w, NEW x, x = [[r EXCEPT !.buf = v] EXCEPT !.stack = w]
        PROVE  x = Holding(v, w, u)
    BY <2>1 DEF Holding
  <2>2. ASSUME NEW v PROVE [r EXCEPT !.buf = v].stack = t
    BY DEF Holding
  <2>. HIDE DEF r
  <2>3. [r EXCEPT !.buf = Tail(r.buf)].stack = t
    BY <2>2, Zenon
  <2>4. read = Holding(Tail(r.buf), [t EXCEPT ![Len(r.stack)].type = Head(r.buf).node.type], u)
    BY <2>1, <2>3, Zenon
  <2>. QED BY <1>3, <2>4, Zenon DEF Typed
<1>. HIDE DEF read, r, q, type, top
\* the arm that the type of the level on top chooses
<1>6. ASSUME NEW x, Len(x.stack) = top, x.stack[top].type \in NodeTypes,
             ~(r.stack[top].type = "none" /\ r.buf # <<>> /\ Head(r.buf).part # "type")
      PROVE  Case(x) = Processed(x)
  <2>. DEFINE y == x.stack[top].type
  <2>1. /\ y \in NodeTypes /\ y # "none" /\ (y \in LineTypes \/ y = "string" \/ y = "array")
        /\ y \in LineTypes => y # "string" /\ y # "array"
    BY <1>1, <1>6
  <2>. HIDE DEF y
  <2>2. Case(x) = CASE y \in LineTypes -> ProcessLine(x)
                    [] y = "string"    -> ProcessBulk(x)
                    [] y = "array"     -> ProcessMultiBulk(x)
    <3>1. CASE y \in LineTypes
      BY <1>6, <2>1, <3>1 DEF y
    <3>2. CASE y = "string"
      BY <1>6, <2>1, <3>2 DEF y
    <3>3. CASE y = "array"
      BY <1>6, <2>1, <3>3 DEF y
    <3>. QED BY <2>1, <3>1, <3>2, <3>3
  <2>3. Processed(x) = CASE y \in LineTypes -> ProcessLine(x)
                         [] y = "string"    -> ProcessBulk(x)
                         [] y = "array"     -> ProcessMultiBulk(x)
    BY <1>6 DEF Processed, y
  <2>. HIDE DEF Case
  <2>. QED BY <2>2, <2>3
<1>7. t[Len(t)].type \in NodeTypes => ProcessItem(r) = Processed(r)
  <2>. HIDE DEF Case
  <2>1. t[Len(t)].type \in NodeTypes => t[Len(t)].type # "none"
    BY <1>1
  <2>. QED BY <1>3, <1>4, <1>6, <2>1
<1>8. t[Len(t)].type = "none" /\ b = <<>> => ProcessItem(r) = r
  <2>. SUFFICES ASSUME t[Len(t)].type = "none", b = <<>> PROVE ProcessItem(r) = r
    OBVIOUS
  <2>1. ProcessItem(r) = Case(r)
    <3>. HIDE DEF Case
    <3>. QED BY <1>3, <1>4
  <2>2. Case(r) = r
    <3>. DEFINE y == r.stack[top].type
    <3>1. y = "none" /\ ~(r.buf # <<>>)
      BY <1>3
    <3>. HIDE DEF y
    <3>2. y \notin LineTypes /\ y # "string" /\ y # "array"
      BY <1>2, <3>1
    <3>. QED BY <3>1, <3>2 DEF y
  <2>. QED BY <2>1, <2>2
<1>9. t[Len(t)].type = "none" /\ b # <<>> /\ Head(b).part = "type"
      /\ type \in NodeTypes /\ Len(q.stack) = Len(t) /\ q.stack[Len(t)].type = type
        => ProcessItem(r) = Processed(q)
  <2>. HIDE DEF Case
  <2>. SUFFICES ASSUME t[Len(t)].type = "none", b # <<>>, Head(b).part = "type",
                       type \in NodeTypes, Len(q.stack) = Len(t), q.stack[Len(t)].type = type
                PROVE  ProcessItem(r) = Processed(q)
    BY Zenon
  <2>1. ProcessItem(r) = Case(q)
    BY <1>3, <1>4, <1>5
  <2>2. Case(q) = Processed(q)
    BY <1>3, <1>6
  <2>. QED BY <2>1, <2>2
<1>. QED BY <1>7, <1>8, <1>9

\* One turn of the parser.
LEMMA StepReads ==
    ASSUME NEW nodes \in Seq(Nodes), IsReply(nodes), NEW later, NEW more,
           NEW r, Reading(r, nodes, later, more)
    PROVE  ReadsOrRefuses(ReaderStep(r), nodes, later, more)
<1>. DEFINE b == r.buf
            t == r.stack
            u == r.obj
<1>1. PICK m \in 0..Len(nodes), typed \in {0, 1} : ReadUpTo(b, t, u, nodes, later, more, m, typed)
  BY DEF Reading
<1>2. r = Holding(b, t, u) /\ r.err = FALSE
  BY DEF Reading, Sound, Holding
<1>3. CASE t = <<>>
  BY <1>3 DEF ReaderStep, ReadsOrRefuses
<1>4. CASE t # <<>>
  <2>. DEFINE top == Len(t)
  <2>1. ReaderStep(r) = ProcessItem(r)
    BY <1>2, <1>4 DEF ReaderStep
  <2>2. /\ t \in Seq(Levels)
        /\ typed = 1 => t[top].type = nodes[m + 1].type
        /\ typed = 0 => t[top].type = "none"
        /\ b # <<>> /\ typed = 0
             => /\ Head(b).part = "type"
                /\ ReadUpTo(Tail(b), Typed(t, Head(b).node.type), u, nodes, later, more, m, 1)
    BY <1>1, <1>4, NextPart, SMT
  <2>3. top \in 1..top
    BY <1>4, <2>2, StackTyped
  <2>4. ASSUME NEW x, NEW y, ReadUpTo(x, y, u, nodes, later, more, m, 1), y # <<>>
        PROVE  /\ y[Len(y)].type \in NodeTypes
               /\ ReadsOrRefuses(Processed(Holding(x, y, u)), nodes, later, more)
    <3>. DEFINE q == Holding(x, y, u)
                type == y[Len(y)].type
    <3>1. /\ type \in NodeTypes
          /\ type \in LineTypes => Reading(ProcessLine(q), nodes, later, more)
          /\ type = "string" => Reading(ProcessBulk(q), nodes, later, more)
          /\ type = "array" => ReadsOrRefuses(ProcessMultiBulk(q), nodes, later, more)
      BY <2>4, TypedReads
    <3>2. q.stack[Len(q.stack)].type = type
      BY DEF Holding
    <3>. HIDE DEF q, type
    <3>3. type \in LineTypes \/ type = "string" \/ type = "array"
      BY <3>1 DEF NodeTypes
    <3>4. type \in LineTypes => type # "string" /\ type # "array"
      BY DEF LineTypes
    <3>5. ReadsOrRefuses(Processed(q), nodes, later, more)
      <4>1. CASE type \in LineTypes
        BY <3>1, <3>2, <3>4, <4>1 DEF Processed, ReadsOrRefuses
      <4>2. CASE type = "string"
        BY <3>1, <3>2, <3>4, <4>2 DEF Processed, ReadsOrRefuses
      <4>3. CASE type = "array"
        BY <3>1, <3>2, <3>4, <4>3 DEF Processed
      <4>. QED BY <3>3, <4>1, <4>2, <4>3
    <3>. QED BY <3>1, <3>5 DEF q, type
  <2>5. CASE typed = 1
    <3>1. t[top].type \in NodeTypes /\ ReadsOrRefuses(Processed(r), nodes, later, more)
      <4>1. ReadUpTo(b, t, u, nodes, later, more, m, 1)
        BY <1>1, <2>5
      <4>. QED BY <1>2, <1>4, <2>4, <4>1
    <3>2. ProcessItem(r) = Processed(r)
      <4>1. ProcessItem(Holding(b, t, u)) = Processed(Holding(b, t, u))
        <5>1. t[Len(t)].type \in NodeTypes
          BY <3>1
        <5>. HIDE DEF b, t, u
        <5>. QED BY <5>1, ItemIs, Zenon
      <4>. QED BY <1>2, <4>1
    <3>. QED BY <2>1, <3>1, <3>2
  <2>6. CASE typed = 0 /\ b = <<>>
    <3>1. t[top].type = "none"
      BY <2>2, <2>6
    <3>2. ProcessItem(r) = r
      <4>1. ProcessItem(Holding(b, t, u)) = Holding(b, t, u)
        <5>1. t[Len(t)].type = "none" /\ b = <<>>
          BY <2>6, <3>1
        <5>. HIDE DEF b, t, u
        <5>. QED BY <5>1, ItemIs, Zenon
      <4>. QED BY <1>2, <4>1
    <3>. QED BY <2>1, <3>2 DEF ReadsOrRefuses
  <2>7. CASE typed = 0 /\ b # <<>>
    <3>. DEFINE type == Head(b).node.type
                q == Holding(Tail(b), Typed(t, type), u)
    <3>1. /\ t[top].type = "none" /\ Head(b).part = "type"
          /\ ReadUpTo(Tail(b), Typed(t, type), u, nodes, later, more, m, 1)
      BY <2>2, <2>7
    <3>2. type \in NodeTypes
      <4>1. Head(b).node \in Nodes
        BY <1>1, <1>4, <2>7, NextPart, SMT
      <4>. QED BY <4>1 DEF Nodes
    <3>3. Typed(t, type) # <<>> /\ q.stack[top].type = type /\ Len(q.stack) = top
      BY <1>4, <2>2, <3>2, TypedIs DEF Holding
    <3>4. ReadsOrRefuses(Processed(q), nodes, later, more)
      <4>. QED BY <2>4, <3>1, <3>3
    <3>5. ProcessItem(r) = Processed(q)
      <4>1. ProcessItem(Holding(b, t, u)) = Processed(q)
        <5>1. /\ t[Len(t)].type = "none" /\ b # <<>> /\ Head(b).part = "type"
              /\ type \in NodeTypes /\ Len(q.stack) = Len(t) /\ q.stack[Len(t)].type = type
          BY <2>7, <3>1, <3>2, <3>3
        <5>. HIDE DEF b, t, u
        <5>. QED BY <5>1, ItemIs, Zenon
      <4>. QED BY <1>2, <4>1
    <3>. QED BY <2>1, <3>4, <3>5
  <2>. QED BY <1>1, <2>5, <2>6, <2>7
<1>. QED BY <1>3, <1>4

-----------------------------------------------------------------------------
(* A reply from its first byte to its last.                                *)

\* Nothing of the reply has been read, or everything.
NoneOrAll(b, u, nodes, later, more, m, typed) ==
    /\ typed = 0
    /\ IF m = 0 THEN u = <<>>
       ELSE b \o more = later /\ NodesOf(u) = nodes /\ IsTree(u)

\* So it is while the parser has no task.
LEMMA BetweenReplies ==
    ASSUME NEW nodes \in Seq(Nodes), IsReply(nodes), NEW later, NEW more, NEW m, NEW typed \in {0, 1},
           NEW b, NEW t, NEW u, ReadUpTo(b, t, u, nodes, later, more, m, typed), t = <<>>
    PROVE  NoneOrAll(b, u, nodes, later, more, m, typed)
<1>. DEFINE L == Len(nodes)
<1>1. /\ b \in Seq(PartsSet) /\ more \in Seq(PartsSet) /\ later \in Seq(PartsSet)
      /\ m \in 0..L /\ typed = 0
      /\ NodesOf(u) = SubSeq(nodes, 1, m)
      /\ IF m = 0 THEN u = <<>> ELSE Owed(nodes)[m] = 0 /\ IsTree(u)
      /\ b \o more = Unsent(nodes, m, later)
  BY DEF ReadUpTo
<1>2. CASE m = 0
  BY <1>1, <1>2 DEF NoneOrAll
<1>3. CASE m # 0
  <2>1. m = L
    <3>1. \A k \in 0..L - 1 : Owed(nodes)[k] > 0
      BY DEF IsReply
    <3>2. m \in 0..L /\ Owed(nodes)[m] = 0 /\ L \in Nat
      BY <1>1, <1>3, LenProperties
    <3>. QED BY <3>1, <3>2
  <2>2. b \o more = later
    BY <1>1, <2>1, UnsentSteps
  <2>3. SubSeq(nodes, 1, L) = nodes
    BY LenProperties
  <2>. QED BY <1>1, <1>3, <2>1, <2>2, <2>3 DEF NoneOrAll
<1>. QED BY <1>2, <1>3

\* The first task is the root of the tree.
LEMMA RootReads ==
    ASSUME NEW nodes \in Seq(Nodes), IsReply(nodes), NEW later, NEW more, NEW b,
           ReadUpTo(b, <<>>, <<>>, nodes, later, more, 0, 0)
    PROVE  ReadUpTo(b, <<Task(0)>>, <<>>, nodes, later, more, 0, 0)
<1>. DEFINE t == <<Task(0)>>
<1>1. /\ t \in Seq(Levels) /\ Len(t) = 1 /\ t # <<>>
      /\ t[Len(t)].type = "none"
  BY DEF Levels, Task
<1>2. Grown(<<>>, t, 0)
  <2>1. <<>> \in Seq(Objects) /\ DOMAIN <<>> = {} /\ PathsOf(<<>>) = {}
    BY DEF PathsOf
  <2>. HIDE DEF t
  <2>2. \A k \in 1..Len(t) - 1 : FALSE
    BY <1>1
  <2>. QED BY <1>1, <2>1, <2>2 DEF Grown
<1>3. Awaits(t, Owed(nodes)[0])
  <2>. DEFINE rest == [k \in 1..1 |-> 0]
  <2>. HIDE DEF t
  <2>1. RestOf(t, rest) /\ 1 = rest[Len(t)] + 1
    BY <1>1 DEF RestOf
  <2>2. Owed(nodes)[0] = 1
    BY OwedSteps
  <2>. QED BY <2>1, <2>2 DEF Awaits
<1>. HIDE DEF t
<1>4. ReadUpTo(b, t, <<>>, nodes, later, more, 0, 0)
  BY <1>1, <1>2, <1>3 DEF ReadUpTo
<1>. QED BY <1>4 DEF t

\* A parser with no task and no object is at the beginning of the next reply.
LEMMA ReplyBegins ==
    ASSUME NEW nodes \in Seq(Nodes), NEW later \in Seq(PartsSet), NEW b \in Seq(PartsSet),
           NEW more \in Seq(PartsSet), b \o more = WireOf(nodes) \o later
    PROVE  Reading(Holding(b, <<>>, <<>>), nodes, later, more)
<1>. DEFINE L == Len(nodes)
            all == b \o more
<1>1. L \in Nat /\ SubSeq(nodes, 1, L) = nodes /\ SubSeq(nodes, 1, 0) = <<>>
  BY LenProperties
<1>2. 0 \in 0..L /\ 0 + 1 = 1 /\ 0 \in {0, 1}
  BY <1>1
<1>3. all = Unsent(nodes, 0, later)
  BY <1>1, <1>2, Zenon DEF Unsent
<1>4. <<>> \in Seq(Objects) /\ NodesOf(<<>>) = SubSeq(nodes, 1, 0)
  BY <1>1 DEF NodesOf
<1>5. all = b \o more
  OBVIOUS
<1>. HIDE DEF all
<1>6. ReadUpTo(b, <<>>, <<>>, nodes, later, more, 0, 0)
  BY <1>2, <1>3, <1>4, <1>5 DEF ReadUpTo
<1>. QED BY <1>2, <1>6, HoldingReads

\* The parser before the first byte of the only reply.
LEMMA ReplyStarts ==
    ASSUME NEW nodes \in Seq(Nodes)
    PROVE  WireOf(nodes) \in Seq(PartsSet) /\ Reading(NewReader, nodes, <<>>, WireOf(nodes))
<1>. DEFINE w == WireOf(nodes)
<1>1. w \in Seq(PartsSet)
  <2>1. \A k \in 0..Len(nodes) : WireOf(SubSeq(nodes, k + 1, Len(nodes))) \in Seq(PartsSet)
    BY WireSteps
  <2>2. 0 \in 0..Len(nodes) /\ 0 + 1 = 1 /\ SubSeq(nodes, 1, Len(nodes)) = nodes
    BY LenProperties
  <2>3. WireOf(SubSeq(nodes, 0 + 1, Len(nodes))) \in Seq(PartsSet)
    BY <2>1, <2>2
  <2>. QED BY <2>2, <2>3
<1>. HIDE DEF w
<1>2. <<>> \in Seq(PartsSet) /\ <<>> \o w = w \o <<>>
  BY <1>1, ConcatEmptySeq
<1>3. Reading(Holding(<<>>, <<>>, <<>>), nodes, <<>>, w)
  <2>. DEFINE e == <<>>
  <2>1. e \in Seq(PartsSet) /\ e \o w = w \o e
    BY <1>2
  <2>. HIDE DEF e
  <2>2. Reading(Holding(e, <<>>, <<>>), nodes, e, w)
    BY <1>1, <2>1, ReplyBegins DEF w
  <2>. QED BY <2>2 DEF e
<1>4. Holding(<<>>, <<>>, <<>>) = NewReader
  BY DEF Holding, NewReader
<1>. QED BY <1>1, <1>3, <1>4 DEF w

\* What arrives goes to the end of the buffer.
LEMMA FeedReads ==
    ASSUME NEW nodes, NEW parts \in Seq(PartsSet), NEW later, NEW more \in Seq(PartsSet),
           NEW r, Reading(r, nodes, later, parts \o more)
    PROVE  Reading(ReaderFeed(r, parts), nodes, later, more)
<1>. DEFINE b == r.buf
            t == r.stack
            u == r.obj
<1>1. PICK m \in 0..Len(nodes), typed \in {0, 1} :
        ReadUpTo(b, t, u, nodes, later, parts \o more, m, typed)
  BY DEF Reading
<1>2. r = Holding(b, t, u) /\ r.err = FALSE
  BY DEF Reading, Sound, Holding
<1>. HIDE DEF b, t, u
<1>3. ReaderFeed(r, parts) = Holding(b \o parts, t, u)
  <2>1. ReaderFeed(r, parts) = [r EXCEPT !.buf = b \o parts]
    BY <1>2 DEF ReaderFeed, b
  <2>. DEFINE new == b \o parts
  <2>. HIDE DEF new
  <2>2. ASSUME NEW x, x = [r EXCEPT !.buf = new] PROVE x = Holding(new, t, u)
    BY <1>2, <2>2 DEF Holding
  <2>. QED BY <2>1, <2>2, Zenon DEF new
<1>4. b \in Seq(PartsSet)
  BY <1>1 DEF ReadUpTo
<1>5. b \o parts \in Seq(PartsSet) /\ (b \o parts) \o more = b \o (parts \o more)
  BY <1>4, ConcatProperties, ConcatAssociative, SMTT(30)
<1>6. ReadUpTo(b \o parts, t, u, nodes, later, more, m, typed)
  <2>. DEFINE new == b \o parts
              old == b \o (parts \o more)
  <2>1. new \in Seq(PartsSet) /\ new \o more = old /\ old = b \o (parts \o more)
    BY <1>5
  <2>. HIDE DEF new, old
  <2>2. ReadUpTo(new, t, u, nodes, later, more, m, typed)
    BY <1>1, <2>1, Zenon DEF ReadUpTo
  <2>. QED BY <2>2 DEF new
<1>. QED BY <1>3, <1>6, HoldingReads

\* Two sequences that make the empty one.
LEMMA BothEmpty ==
    ASSUME NEW S, NEW x \in Seq(S), NEW y \in Seq(S), x \o y = <<>>
    PROVE  x = <<>> /\ y = <<>>
<1>1. Len(x \o y) = Len(x) + Len(y) /\ Len(x) \in Nat /\ Len(y) \in Nat
  BY ConcatProperties, LenProperties
<1>2. Len(x \o y) = 0
  OBVIOUS
<1>3. Len(x) = 0 /\ Len(y) = 0
  BY <1>1, <1>2
<1>. QED BY <1>3, EmptySeq

\* The parser reads every item of the reply that has arrived; a reply that is
\* whole has been taken before the next one is read.
THEOREM RunReads ==
    ASSUME NEW nodes \in Seq(Nodes), IsReply(nodes), NEW later, NEW more, NEW r,
           Reading(r, nodes, later, more), HasReply(r) => later = <<>>
    PROVE  ReadsOrRefuses(ReaderRun(r), nodes, later, more)
<1>. DEFINE b == r.buf
            t == r.stack
            u == r.obj
            started == IF t = <<>> THEN [r EXCEPT !.stack = <<Task(0)>>] ELSE r
<1>1. PICK m \in 0..Len(nodes), typed \in {0, 1} : ReadUpTo(b, t, u, nodes, later, more, m, typed)
  BY DEF Reading
<1>2. r = Holding(b, t, u) /\ r.err = FALSE
  BY DEF Reading, Sound, Holding
<1>3. b \in Seq(PartsSet) /\ Len(b) \in Nat
  BY <1>1, LenProperties DEF ReadUpTo
<1>4. CASE b = <<>>
  BY <1>4 DEF ReaderRun, ReadsOrRefuses
<1>5. CASE b # <<>>
  <2>1. Reading(started, nodes, later, more)
    <3>1. CASE t # <<>>
      BY <3>1
    <3>2. CASE t = <<>>
      <4>1. ReadUpTo(b, t, u, nodes, later, more, m, typed) /\ t = <<>>
        BY <1>1, <3>2
      <4>2. m = 0 /\ typed = 0 /\ u = <<>>
        <5>1. u # <<>> => later = <<>>
          BY <3>2 DEF HasReply
        <5>. HIDE DEF b, t, u
        <5>2. NoneOrAll(b, u, nodes, later, more, m, typed)
          BY <1>1, <3>2, BetweenReplies
        <5>3. CASE m = 0
          BY <5>2, <5>3 DEF NoneOrAll
        <5>4. CASE m # 0
          <6>1. u # <<>>
            BY <5>2, <5>4 DEF NoneOrAll, IsTree
          <6>2. b \o more = <<>> /\ more \in Seq(PartsSet)
            BY <1>1, <5>1, <5>2, <5>4, <6>1 DEF NoneOrAll, ReadUpTo
          <6>. QED BY <1>3, <1>5, <6>2, BothEmpty
        <5>. QED BY <5>3, <5>4
      <4>3. ReadUpTo(b, <<Task(0)>>, <<>>, nodes, later, more, 0, 0)
        <5>1. ReadUpTo(b, <<>>, <<>>, nodes, later, more, 0, 0)
          BY <4>1, <4>2, Zenon
        <5>. HIDE DEF b
        <5>. QED BY <5>1, RootReads
      <4>4. [r EXCEPT !.stack = <<Task(0)>>] = Holding(b, <<Task(0)>>, <<>>)
        <5>. DEFINE new == <<Task(0)>>
        <5>. HIDE DEF new
        <5>1. r = Holding(b, t, <<>>)
          BY <1>2, <4>2
        <5>. HIDE DEF b, t
        <5>2. ASSUME NEW x, x = [r EXCEPT !.stack = new] PROVE x = Holding(b, new, <<>>)
          BY <5>1, <5>2 DEF Holding
        <5>. QED BY <5>2, Zenon DEF new
      <4>5. Reading(Holding(b, <<Task(0)>>, <<>>), nodes, later, more)
        <5>1. 0 \in {0, 1}
          OBVIOUS
        <5>. HIDE DEF b
        <5>. QED BY <4>3, <5>1, HoldingReads
      <4>. QED BY <3>2, <4>4, <4>5
    <3>. QED BY <3>1, <3>2
  <2>2. PICK g : /\ g[0] = started
                 /\ \A i \in 0..Len(b) - 1 : g[i + 1] = ReaderStep(g[i])
                 /\ ReaderRun(r) = g[Len(b)]
    BY <1>2, <1>3, <1>5, RunSteps
  <2>. HIDE DEF started
  <2>. DEFINE S == {i \in 0..Len(b) : ReadsOrRefuses(g[i], nodes, later, more)}
  <2>3. 0 \in S
    BY <1>3, <2>1, <2>2 DEF ReadsOrRefuses
  <2>4. ASSUME NEW i \in 0..Len(b) - 1, i \in S PROVE i + 1 \in S
    <3>1. g[i + 1] = ReaderStep(g[i]) /\ i + 1 \in 0..Len(b)
      BY <1>3, <2>2
    <3>2. CASE Refused(g[i]) /\ TooDeep(nodes)
      BY <3>1, <3>2 DEF ReaderStep, Refused, ReadsOrRefuses
    <3>3. CASE Reading(g[i], nodes, later, more)
      BY <3>1, <3>3, StepReads
    <3>. QED BY <2>4, <3>2, <3>3 DEF ReadsOrRefuses
  <2>5. 0..Len(b) \subseteq S
    <3>1. 0 \in Int /\ Len(b) \in Int /\ \A i \in 0..Len(b) - 1 : i \in S => i + 1 \in S
      BY <1>3, <2>4
    <3>. HIDE DEF S, b
    <3>. QED BY <2>3, <3>1, BoundedInduction, Zenon
  <2>6. Len(b) \in 0..Len(b)
    BY <1>3
  <2>. QED BY <2>2, <2>5, <2>6
<1>. QED BY <1>4, <1>5

\* What the parser hands out is the whole reply, each node in its place, and
\* it is then at the beginning of what comes later.
THEOREM ReplyIsWhole ==
    ASSUME NEW nodes \in Seq(Nodes), IsReply(nodes), NEW later, NEW more, NEW r,
           Reading(r, nodes, later, more), HasReply(r)
    PROVE  /\ NodesOf(r.obj) = nodes /\ IsTree(r.obj)
           /\ r.buf \in Seq(PartsSet) /\ more \in Seq(PartsSet) /\ r.buf \o more = later
           /\ ReplyTaken(r) = Holding(r.buf, <<>>, <<>>)
<1>. DEFINE b == r.buf
            t == r.stack
            u == r.obj
<1>1. t = <<>> /\ u # <<>>
  BY DEF HasReply
<1>2. PICK m \in 0..Len(nodes), typed \in {0, 1} : ReadUpTo(b, t, u, nodes, later, more, m, typed)
  BY DEF Reading
<1>3. r = Holding(b, <<>>, u)
  BY <1>1 DEF Reading, Sound, Holding
<1>. HIDE DEF b, t, u
<1>4. b \o more = later /\ NodesOf(u) = nodes /\ IsTree(u)
  <2>1. NoneOrAll(b, u, nodes, later, more, m, typed)
    BY <1>1, <1>2, BetweenReplies
  <2>. QED BY <1>1, <2>1 DEF NoneOrAll
<1>5. b \in Seq(PartsSet) /\ more \in Seq(PartsSet)
  BY <1>2 DEF ReadUpTo
<1>6. ReplyTaken(r) = Holding(b, <<>>, <<>>)
  <2>1. ASSUME NEW x, x = [r EXCEPT !.obj = <<>>] PROVE x = Holding(b, <<>>, <<>>)
    BY <1>3, <2>1 DEF Holding
  <2>. QED BY <2>1, Zenon DEF ReplyTaken
<1>. QED BY <1>4, <1>5, <1>6 DEF u, b

\* When nothing comes later the parser is then as it was before.
LEMMA OnlyReply ==
    ASSUME NEW nodes \in Seq(Nodes), IsReply(nodes), NEW more, NEW r,
           Reading(r, nodes, <<>>, more), HasReply(r)
    PROVE  /\ NodesOf(r.obj) = nodes /\ IsTree(r.obj)
           /\ more = <<>> /\ ReplyTaken(r) = NewReader
<1>. DEFINE b == r.buf
<1>1. /\ NodesOf(r.obj) = nodes /\ IsTree(r.obj)
      /\ b \in Seq(PartsSet) /\ more \in Seq(PartsSet) /\ b \o more = <<>>
      /\ ReplyTaken(r) = Holding(b, <<>>, <<>>)
  BY ReplyIsWhole
<1>. HIDE DEF b
<1>2. b = <<>> /\ more = <<>>
  BY <1>1, BothEmpty
<1>3. Holding(<<>>, <<>>, <<>>) = NewReader
  BY DEF Holding, NewReader
<1>. QED BY <1>1, <1>2, <1>3

-----------------------------------------------------------------------------
(* The table of the wrappers.                                              *)

Op == DOMAIN Wrapper
Discipline == {"free", "keep", "deref"}

\* The groups give every wrapper one of the three disciplines.
LEMMA GroupDisciplines ==
    \A g \in Groups : \A op \in DOMAIN g : g[op].onNull \in Discipline
BY DEF Groups, Discipline, StringWrappers, KeyWrappers, FieldWrappers, FieldBufferWrappers,
       HashWrappers, HashListWrappers, CounterWrappers, ListWrappers, SortedSetWrappers,
       SortedSetReaders, StreamReader, StreamWriter, FlushWrapper, LoginCommands,
       Frees, Keeps, Derefs

\* So does the table they make up.
LEMMA Disciplines == \A op \in Op : Wrapper[op].onNull \in Discipline
<1>. SUFFICES ASSUME NEW op \in UNION {DOMAIN g : g \in Groups}
              PROVE  Wrapper[op].onNull \in Discipline
  BY DEF Wrapper, Op
<1>. DEFINE h == CHOOSE g \in Groups : op \in DOMAIN g
<1>1. h \in Groups /\ op \in DOMAIN h
  OBVIOUS
<1>2. Wrapper[op] = h[op]
  BY DEF Wrapper
<1>. QED BY <1>1, <1>2, GroupDisciplines

\* The commands of Init are in the table.
LEMMA LoginTyped == Login \in Seq(Op)
<1>1. LoginCommands \in Groups /\ DOMAIN LoginCommands = {"AUTH", "SELECT"}
  BY DEF Groups, LoginCommands
<1>2. "AUTH" \in Op /\ "SELECT" \in Op
  BY <1>1 DEF Wrapper, Op
<1>. QED BY <1>2 DEF Login

-----------------------------------------------------------------------------
(* The inductive invariant.                                                *)

State == {"none", "good", "error"}

\* A context is a record, and in error its reader has been reset.
ContextOK(x) ==
    /\ x = [state |-> x.state, out |-> x.out, reader |-> x.reader]
    /\ x.state \in State /\ x.out \in Seq(Op)
    /\ x.state = "error" => x.reader = NewReader

\* What a command at stage s says of the context it runs on.
StageOK(s, x) ==
    /\ s = "null" => x.state = "error"
    /\ s = "reply" => x.state # "error"
    /\ s = "read" => x.state = "good"
    /\ s = "get" => x.out # <<>>

Working == task.stage \notin {"idle", "dead"}

ServerTypes ==
    /\ up \in BOOLEAN /\ linked \in [Conn -> BOOLEAN] /\ attempted \in [Conn -> BOOLEAN]

Contexts ==
    /\ context = [c \in Conn |-> context[c]]
    /\ \A c \in Conn : ContextOK(context[c])

TaskTypes ==
    /\ task = [stage |-> task.stage, conn |-> task.conn, todo |-> task.todo,
               login |-> task.login, reply |-> task.reply]
    /\ task.stage \in Stages /\ task.conn \in Conn \cup {Null}
    /\ Working => /\ task.conn \in Conn
                  /\ task.todo \in Seq(Op) /\ task.todo # <<>> /\ task.login \in Seq(Op)

\* The queue holds a connection once, and not the one in use.
Queue ==
    /\ free \in Seq(Conn)
    /\ \A i, j \in 1..Len(free) : free[i] = free[j] => i = j
    /\ Working => \A i \in 1..Len(free) : free[i] # task.conn

Stage == Working => StageOK(task.stage, context[task.conn])

History ==
    /\ last = [c \in Conn |-> last[c]]
    /\ \A i \in 1..Len(free) :
         context[free[i]].state = "error" => last[free[i]] = "keep"

IInv == ServerTypes /\ Contexts /\ TaskTypes /\ Queue /\ Stage /\ History

-----------------------------------------------------------------------------
(* What the parts of a step do.                                            *)

\* The contexts that the code assigns are contexts.
LEMMA ContextValues ==
    /\ ContextOK(NoContext) /\ ContextOK(NewContext)
    /\ NoContext.state = "none" /\ NewContext.state = "good"
    /\ \A x : ContextOK(Failed(x)) /\ Failed(x).state = "error"
BY DEF ContextOK, NoContext, NewContext, Failed, State

\* The first element and the others.
LEMMA HeadTail ==
    ASSUME NEW S, NEW s \in Seq(S), s # <<>>
    PROVE  Head(s) \in S /\ Tail(s) \in Seq(S) /\ s = <<Head(s)>> \o Tail(s)
OBVIOUS

\* The first command of a handler at work has a wrapper.
LEMMA CurrentTyped ==
    ASSUME TaskTypes, Working
    PROVE  Current \in Op
<1>1. task.login \o task.todo \in Seq(Op) /\ task.login \o task.todo # <<>>
  BY DEF TaskTypes
<1>. QED BY <1>1, HeadTail DEF Current

\* A queue with one of each connection, as CachePool::Init leaves it.
LEMMA QueueValues ==
    ASSUME NEW s \in Queues
    PROVE  s \in Seq(Conn) /\ \A i, j \in 1..Len(s) : s[i] = s[j] => i = j
<1>1. Cardinality(Conn) \in Nat
  BY RedisAssumption, FS_CardinalityType DEF RedisAssumption
<1>. QED BY <1>1 DEF Queues

\* One context is replaced: the others stay what they were.
LEMMA ReplaceContext ==
    ASSUME Contexts, NEW c \in Conn, NEW y, ContextOK(y),
           context' = [context EXCEPT ![c] = y]
    PROVE  Contexts' /\ context'[c] = y /\ \A d \in Conn \ {c} : context'[d] = context[d]
BY DEF Contexts

\* A command goes on at stage s with y in the place of its context x.
Outcome(x, y, s, reply) ==
    /\ context' = [context EXCEPT ![task.conn] = y]
    /\ ContextOK(y)
    /\ task' = [task EXCEPT !.stage = s, !.reply = reply]
    /\ s \in {"null", "reply", "read", "write"}
    /\ s = "null" => y.state = "error"
    /\ s = "reply" => y.state # "error"
    /\ s = "read" => y.state = x.state /\ x.out = <<>>
    /\ s = "write" => x.out # <<>>

\* redisGetReplyFromReader, whatever the parser makes of what it is fed: it
\* fails, answers, or the command goes on.
LEMMA TakeReplyStep ==
    ASSUME TaskTypes, NEW x, ContextOK(x), TakeReply(x)
    PROVE  \E y, s, reply : Outcome(x, y, s, reply)
<1>. DEFINE r == ReaderRun(x.reader)
            y == [x EXCEPT !.reader = r]
<1>1. \A q : /\ [x EXCEPT !.reader = q].state = x.state
             /\ [x EXCEPT !.reader = q].out = x.out
             /\ [x EXCEPT !.reader = q].reader = q
             /\ x.state # "error" => ContextOK([x EXCEPT !.reader = q])
  BY DEF ContextOK
<1>2. x.state = "error" => r = NewReader /\ y = x
  <2>1. SUFFICES ASSUME x.state = "error" PROVE r = NewReader /\ y = x
    OBVIOUS
  <2>2. x.reader = NewReader
    BY <2>1 DEF ContextOK
  <2>3. r = NewReader
    BY <2>2 DEF ReaderRun, NewReader
  <2>. QED BY <2>2, <2>3 DEF ContextOK
<1>3. ContextOK(y)
  BY <1>1, <1>2
<1>4. ~NewReader.err /\ ~HasReply(NewReader)
  BY DEF NewReader, HasReply
<1>. HIDE DEF r, y
<1>5. CASE r.err
  <2>1. context' = [context EXCEPT ![task.conn] = Failed(y)]
        /\ task' = [task EXCEPT !.stage = "null", !.reply = task.reply]
    BY <1>5 DEF TakeReply, NullReply, TaskTypes, r, y
  <2>2. Outcome(x, Failed(y), "null", task.reply)
    BY <2>1, ContextValues DEF Outcome
  <2>. QED BY <2>2
<1>6. CASE ~r.err /\ HasReply(r)
  <2>1. context' = [context EXCEPT ![task.conn] = [y EXCEPT !.reader = ReplyTaken(r)]]
        /\ task' = [task EXCEPT !.stage = "reply", !.reply = r.obj]
    BY <1>6 DEF TakeReply, Answered, r, y
  <2>2. x.state # "error"
    BY <1>2, <1>4, <1>6
  <2>3. [y EXCEPT !.reader = ReplyTaken(r)] = [x EXCEPT !.reader = ReplyTaken(r)]
    BY DEF ContextOK, y
  <2>4. Outcome(x, [x EXCEPT !.reader = ReplyTaken(r)], "reply", r.obj)
    BY <1>1, <2>1, <2>2, <2>3 DEF Outcome
  <2>. QED BY <2>4
<1>7. CASE ~r.err /\ ~HasReply(r)
  <2>1. context' = [context EXCEPT ![task.conn] = y]
        /\ task' = [task EXCEPT !.stage = IF x.out = <<>> THEN "read" ELSE "write",
                               !.reply = task.reply]
    BY <1>7 DEF TakeReply, TaskTypes, r, y
  <2>2. y.state = x.state
    BY <1>1 DEF y
  <2>3. Outcome(x, y, IF x.out = <<>> THEN "read" ELSE "write", task.reply)
    BY <1>3, <2>1, <2>2 DEF Outcome
  <2>. QED BY <2>3
<1>. QED BY <1>5, <1>6, <1>7

-----------------------------------------------------------------------------
(* Every step preserves the invariant.                                     *)

\* The initial states have it.
LEMMA Initially == Init => IInv
<1>. SUFFICES ASSUME Init PROVE IInv
  OBVIOUS
<1>1. free \in Seq(Conn) /\ \A i, j \in 1..Len(free) : free[i] = free[j] => i = j
  BY QueueValues DEF Init
<1>2. ServerTypes /\ Contexts
  BY ContextValues DEF Init, ServerTypes, Contexts
<1>3. TaskTypes /\ ~Working
  BY DEF Init, Idle, TaskTypes, Working, Stages
<1>4. History
  BY <1>1, ContextValues DEF Init, History
<1>. QED BY <1>1, <1>2, <1>3, <1>4 DEF IInv, Queue, Stage

\* The handler goes on with its connection, whose context may be another one.
LEMMA GoesOn ==
    ASSUME IInv, Working, NEW y, ContextOK(y),
           context' = [context EXCEPT ![task.conn] = y],
           ServerTypes', TaskTypes', Working', task'.conn = task.conn,
           StageOK(task'.stage, y), free' = free,
           last' = [c \in Conn |-> last'[c]],
           \A d \in Conn \ {task.conn} : last'[d] = last[d]
    PROVE  IInv'
<1>1. task.conn \in Conn /\ free \in Seq(Conn) /\ \A i \in 1..Len(free) : free[i] # task.conn
  BY DEF IInv, TaskTypes, Queue
<1>2. Contexts' /\ context'[task.conn] = y /\ \A d \in Conn \ {task.conn} : context'[d] = context[d]
  BY <1>1, ReplaceContext DEF IInv
<1>3. Queue' /\ Stage'
  BY <1>1, <1>2 DEF IInv, Queue, Stage
<1>4. History'
  BY <1>1, <1>2 DEF IInv, History
<1>. QED BY <1>2, <1>3, <1>4 DEF IInv

\* The handler goes on with what is left of its command.
LEMMA CommandGoesOn ==
    ASSUME IInv, Working, NEW y, ContextOK(y), NEW s, NEW reply,
           context' = [context EXCEPT ![task.conn] = y],
           task' = [task EXCEPT !.stage = s, !.reply = reply],
           s \in {"append", "get", "write", "read", "reply", "null"}, StageOK(s, y),
           UNCHANGED <<up, linked, attempted, free, last>>
    PROVE  IInv'
<1>1. TaskTypes' /\ Working' /\ task'.conn = task.conn /\ task'.stage = s
  BY DEF IInv, TaskTypes, Working, Stages
<1>2. ServerTypes' /\ last' = [c \in Conn |-> last'[c]]
  BY DEF IInv, ServerTypes, History
<1>. QED BY <1>1, <1>2, GoesOn

\* The handler ends and gives its connection back.
LEMMA GivesBack ==
    ASSUME IInv, Working, NEW y, ContextOK(y),
           context' = [context EXCEPT ![task.conn] = y],
           ServerTypes', Release,
           last' = [c \in Conn |-> last'[c]],
           \A d \in Conn \ {task.conn} : last'[d] = last[d],
           y.state = "error" => last'[task.conn] = "keep"
    PROVE  IInv'
<1>. DEFINE c == task.conn
<1>1. c \in Conn /\ free \in Seq(Conn) /\ \A i \in 1..Len(free) : free[i] # c
  BY DEF IInv, TaskTypes, Queue
<1>2. Contexts' /\ context'[c] = y /\ \A d \in Conn \ {c} : context'[d] = context[d]
  BY <1>1, ReplaceContext DEF IInv
<1>3. TaskTypes' /\ ~Working'
  BY DEF Release, Idle, TaskTypes, Working, Stages
<1>4. /\ free' \in Seq(Conn) /\ Len(free') = Len(free) + 1 /\ Len(free) \in Nat
      /\ free'[Len(free) + 1] = c /\ \A i \in 1..Len(free) : free'[i] = free[i]
  BY <1>1 DEF Release
<1>5. Queue'
  BY <1>1, <1>3, <1>4 DEF IInv, Queue
<1>6. History'
  <2>. SUFFICES ASSUME NEW i \in 1..Len(free'), context'[free'[i]].state = "error"
                PROVE  last'[free'[i]] = "keep"
    BY DEF History
  <2>1. CASE i = Len(free) + 1
    BY <1>2, <1>4, <2>1
  <2>2. CASE i \in 1..Len(free)
    BY <1>1, <1>2, <1>4, <2>2 DEF IInv, History
  <2>. QED BY <1>4, <2>1, <2>2
<1>. QED BY <1>2, <1>3, <1>5, <1>6 DEF IInv, Stage

\* A handler takes the head of the queue.
LEMMA StartKeeps == ASSUME IInv, NEW h \in Handlers, Start(h) PROVE IInv'
<1>1. /\ task = Idle /\ free # <<>> /\ free' = Tail(free)
      /\ task' = [Idle EXCEPT !.stage = "init", !.conn = Head(free), !.todo = h]
      /\ UNCHANGED <<up, linked, attempted, context, last>>
  BY DEF Start, serverVars
<1>2. free \in Seq(Conn) /\ \A i, j \in 1..Len(free) : free[i] = free[j] => i = j
  BY DEF IInv, Queue
<1>3. /\ free' \in Seq(Conn) /\ Len(free') = Len(free) - 1 /\ Len(free) \in Nat
      /\ Head(free) \in Conn /\ Head(free) = free[1]
      /\ \A i \in 1..Len(free') : i + 1 \in 1..Len(free) /\ free'[i] = free[i + 1]
  BY <1>1, <1>2
<1>4. h \in Seq(Op) /\ h # <<>>
  BY RedisAssumption DEF RedisAssumption, Op
<1>5. TaskTypes' /\ Working' /\ task'.conn = free[1] /\ task'.stage = "init"
  <2>1. task' = [stage |-> "init", conn |-> free[1], todo |-> h,
                 login |-> <<>>, reply |-> <<>>]
    BY <1>1, <1>3 DEF Idle
  <2>2. <<>> \in Seq(Op)
    OBVIOUS
  <2>. QED BY <1>3, <1>4, <2>1, <2>2 DEF TaskTypes, Working, Stages
<1>6. Queue'
  <2>1. \A i, j \in 1..Len(free') : free'[i] = free'[j] => i = j
    BY <1>2, <1>3
  <2>2. \A i \in 1..Len(free') : free'[i] # free[1]
    BY <1>2, <1>3
  <2>. QED BY <1>3, <1>5, <2>1, <2>2 DEF Queue
<1>7. Stage'
  BY <1>5 DEF Stage, StageOK
<1>8. History'
  BY <1>1, <1>3 DEF IInv, History
<1>. QED BY <1>1, <1>5, <1>6, <1>7, <1>8 DEF IInv, ServerTypes, Contexts

\* What every action of a handler at work may rely on.
LEMMA AtWork ==
    ASSUME IInv, Working
    PROVE  /\ task.conn \in Conn /\ ContextOK(context[task.conn])
           /\ StageOK(task.stage, context[task.conn]) /\ Current \in Op
           /\ context = [context EXCEPT ![task.conn] = context[task.conn]]
           /\ last = [c \in Conn |-> last[c]]
           /\ task = [task EXCEPT !.stage = task.stage, !.reply = task.reply]
BY CurrentTyped DEF IInv, TaskTypes, Contexts, Stage, History

\* CacheConn::Init with a context, or in the second of the last attempt.
LEMMA SkipConnectKeeps == ASSUME IInv, SkipConnect PROVE IInv'
<1>1. Working /\ UNCHANGED <<up, linked, attempted, context, last>>
  BY DEF SkipConnect, Working, serverVars
<1>. DEFINE x == context[task.conn]
<1>2. CASE x.state # "none" /\ task' = [task EXCEPT !.stage = "append"] /\ UNCHANGED free
  <2>1. task' = [task EXCEPT !.stage = "append", !.reply = task.reply]
    BY <1>2 DEF IInv, TaskTypes
  <2>2. context' = [context EXCEPT ![task.conn] = x]
    BY <1>1, AtWork
  <2>. QED BY <1>1, <1>2, <2>1, <2>2, AtWork, CommandGoesOn DEF StageOK
<1>3. CASE x.state = "none" /\ Release
  <2>1. ServerTypes' /\ context' = [context EXCEPT ![task.conn] = x]
    BY <1>1, AtWork DEF IInv, ServerTypes
  <2>2. last' = [c \in Conn |-> last'[c]]
    BY <1>1, AtWork
  <2>3. x.state # "error"
    BY <1>3
  <2>. QED BY <1>1, <1>3, <2>1, <2>2, <2>3, AtWork, GivesBack
<1>. QED BY <1>2, <1>3 DEF SkipConnect

\* CacheConn::Init connects, or finds no server.
LEMMA ConnectKeeps == ASSUME IInv, Connect PROVE IInv'
<1>. DEFINE x == context[task.conn]
<1>1. /\ Working /\ x.state = "none" /\ UNCHANGED <<up, last>>
      /\ attempted' = [attempted EXCEPT ![task.conn] = TRUE]
  BY DEF Connect, Working
<1>2. last' = [c \in Conn |-> last'[c]] /\ task.conn \in Conn
  BY <1>1, AtWork
<1>3. CASE /\ up /\ context' = [context EXCEPT ![task.conn] = NewContext]
           /\ linked' = [linked EXCEPT ![task.conn] = TRUE]
           /\ task' = [task EXCEPT !.stage = "append", !.login = Login]
           /\ UNCHANGED free
  <2>1. ServerTypes'
    BY <1>1, <1>2, <1>3 DEF IInv, ServerTypes
  <2>2. TaskTypes' /\ Working' /\ task'.conn = task.conn /\ task'.stage = "append"
    BY <1>1, <1>3, LoginTyped DEF IInv, TaskTypes, Working, Stages
  <2>3. StageOK(task'.stage, NewContext)
    BY <2>2 DEF StageOK
  <2>. QED BY <1>1, <1>2, <1>3, <2>1, <2>2, <2>3, ContextValues, GoesOn
<1>4. CASE ~up /\ Release /\ UNCHANGED <<context, linked>>
  <2>1. ServerTypes'
    BY <1>1, <1>2, <1>4 DEF IInv, ServerTypes
  <2>2. context' = [context EXCEPT ![task.conn] = x] /\ ContextOK(x)
    BY <1>1, <1>4, AtWork
  <2>3. x.state # "error"
    BY <1>1
  <2>. QED BY <1>1, <1>2, <1>4, <2>1, <2>2, <2>3, GivesBack
<1>. QED BY <1>3, <1>4 DEF Connect

\* The output buffer of a context is replaced.
LEMMA SetOut ==
    ASSUME NEW x, ContextOK(x), NEW given \in Seq(Op)
    PROVE  /\ ContextOK([x EXCEPT !.out = given])
           /\ [x EXCEPT !.out = given].state = x.state /\ [x EXCEPT !.out = given].out = given
<1>1. [x EXCEPT !.out = given] = [state |-> x.state, out |-> given, reader |-> x.reader]
  BY DEF ContextOK
<1>. QED BY <1>1 DEF ContextOK

\* A command fails on its connection.
LEMMA CommandFails ==
    ASSUME IInv, Working,
           context' = [context EXCEPT ![task.conn] = Failed(@)], task' = NullReply,
           UNCHANGED <<up, linked, attempted, free, last>>
    PROVE  IInv'
<1>. DEFINE y == Failed(context[task.conn])
<1>1. ContextOK(y) /\ y.state = "error"
  BY ContextValues
<1>2. context' = [context EXCEPT ![task.conn] = y]
  OBVIOUS
<1>3. task' = [task EXCEPT !.stage = "null", !.reply = task.reply]
  BY DEF NullReply, IInv, TaskTypes
<1>4. StageOK("null", y)
  BY <1>1 DEF StageOK
<1>. HIDE DEF y
<1>. QED BY <1>1, <1>2, <1>3, <1>4, CommandGoesOn

\* redisvAppendCommand queues the command or cannot format it.
LEMMA AppendCommandKeeps == ASSUME IInv, AppendCommand PROVE IInv'
<1>. DEFINE x == context[task.conn]
            y == [x EXCEPT !.out = @ \o <<Current, Current>>]
<1>1. Working /\ UNCHANGED <<up, linked, attempted, free, last>>
  BY DEF AppendCommand, Working, serverVars
<1>2. CASE /\ context' = [context EXCEPT ![task.conn].out = @ \o <<Current, Current>>]
           /\ task' = [task EXCEPT !.stage = "get"]
  <2>1. ContextOK(x) /\ Current \in Op
    BY <1>1, AtWork
  <2>2. x.out \o <<Current, Current>> \in Seq(Op) /\ x.out \o <<Current, Current>> # <<>>
    BY <2>1 DEF ContextOK
  <2>3. ContextOK(y) /\ y.out # <<>>
    BY <2>1, <2>2, SetOut
  <2>4. context' = [context EXCEPT ![task.conn] = y]
    BY <1>2
  <2>5. task' = [task EXCEPT !.stage = "get", !.reply = task.reply]
    BY <1>2 DEF IInv, TaskTypes
  <2>. QED BY <1>1, <2>3, <2>4, <2>5, CommandGoesOn DEF StageOK
<1>3. CASE context' = [context EXCEPT ![task.conn] = Failed(@)] /\ task' = NullReply
  BY <1>1, <1>3, CommandFails
<1>. QED BY <1>2, <1>3 DEF AppendCommand

\* What redisGetReplyFromReader makes of a context, when it is only waiting
\* on the one it was given.
LEMMA TakeReplyKeeps ==
    ASSUME IInv, Working, NEW x, ContextOK(x), TakeReply(x),
           x.state = "good" \/ x.out # <<>>,
           UNCHANGED <<up, linked, attempted, free, last>>
    PROVE  IInv'
<1>1. PICK y, s, reply : Outcome(x, y, s, reply)
  BY TakeReplyStep DEF IInv
<1>2. StageOK(s, y)
  BY <1>1 DEF Outcome, StageOK
<1>. QED BY <1>1, <1>2, CommandGoesOn DEF Outcome

\* redisGetReply on a context whose command has not been written.
LEMMA GetPendingKeeps == ASSUME IInv, GetPending PROVE IInv'
<1>1. /\ Working /\ task.stage = "get" /\ TakeReply(context[task.conn])
      /\ UNCHANGED <<up, linked, attempted, free, last>>
  BY DEF GetPending, Working, serverVars
<1>2. ContextOK(context[task.conn]) /\ context[task.conn].out # <<>>
  BY <1>1, AtWork DEF StageOK
<1>. QED BY <1>1, <1>2, TakeReplyKeeps

\* redisBufferWrite fails, or writes a part of the command or all of it.
LEMMA BufferWriteKeeps == ASSUME IInv, BufferWrite PROVE IInv'
<1>. DEFINE x == context[task.conn]
<1>1. /\ Working /\ task.stage = "write"
      /\ UNCHANGED <<up, linked, attempted, free, last>>
  BY DEF BufferWrite, Working
<1>2. CASE context' = [context EXCEPT ![task.conn] = Failed(@)] /\ task' = NullReply
  BY <1>1, <1>2, CommandFails
<1>3. ASSUME x.state = "good", NEW n \in 1..Len(x.out),
             context' = [context EXCEPT ![task.conn].out = SubSeq(@, n + 1, Len(@))],
             task' = IF n < Len(x.out) THEN task ELSE [task EXCEPT !.stage = "read"]
      PROVE  IInv'
  <2>. DEFINE y == [x EXCEPT !.out = SubSeq(@, n + 1, Len(@))]
              s == IF n < Len(x.out) THEN "write" ELSE "read"
  <2>1. ContextOK(x)
    BY <1>1, AtWork
  <2>2. SubSeq(x.out, n + 1, Len(x.out)) \in Seq(Op)
    BY <2>1 DEF ContextOK
  <2>3. ContextOK(y) /\ y.state = "good"
    BY <1>3, <2>1, <2>2, SetOut
  <2>4. context' = [context EXCEPT ![task.conn] = y]
    BY <1>3
  <2>5. task' = [task EXCEPT !.stage = s, !.reply = task.reply]
    BY <1>1, <1>3 DEF IInv, TaskTypes
  <2>6. StageOK(s, y)
    BY <2>3 DEF StageOK
  <2>. HIDE DEF y, s
  <2>7. s \in {"write", "read"}
    BY DEF s
  <2>. QED BY <1>1, <2>3, <2>4, <2>5, <2>6, <2>7, CommandGoesOn
<1>. QED BY <1>2, <1>3 DEF BufferWrite

\* redisBufferRead fails, or feeds the parser.
LEMMA BufferReadKeeps == ASSUME IInv, BufferRead PROVE IInv'
<1>. DEFINE x == context[task.conn]
<1>1. /\ Working /\ task.stage = "read"
      /\ UNCHANGED <<up, linked, attempted, free, last>>
  BY DEF BufferRead, Working
<1>2. ContextOK(x) /\ x.state = "good"
  BY <1>1, AtWork DEF StageOK
<1>3. CASE context' = [context EXCEPT ![task.conn] = Failed(@)] /\ task' = NullReply
  BY <1>1, <1>3, CommandFails
<1>4. ASSUME NEW parts, TakeReply([x EXCEPT !.reader = ReaderFeed(@, parts)])
      PROVE  IInv'
  <2>. DEFINE z == [x EXCEPT !.reader = ReaderFeed(@, parts)]
  <2>1. ContextOK(z) /\ z.state = "good"
    BY <1>2 DEF ContextOK
  <2>. HIDE DEF z
  <2>2. TakeReply(z)
    BY <1>4 DEF z
  <2>. QED BY <1>1, <2>1, <2>2, TakeReplyKeeps
<1>. QED BY <1>3, <1>4 DEF BufferRead

\* The wrapper ends: by its discipline a context in error is freed, is kept,
\* or takes the process with it.
LEMMA FinishKeeps == ASSUME IInv, Finish PROVE IInv'
<1>. DEFINE c == task.conn
            x == context[c]
            y == ContextAfter(x)
            next == [task EXCEPT !.stage = IF task.login = <<>> THEN "init" ELSE "append",
                                 !.login = IF @ = <<>> THEN <<>> ELSE Tail(@),
                                 !.todo = IF task.login = <<>> THEN Tail(@) ELSE @,
                                 !.reply = <<>>]
<1>1. /\ Working /\ task.stage \in {"reply", "null"}
      /\ UNCHANGED <<up, linked, attempted>>
      /\ last' = [last EXCEPT ![c] = Wrapper[Current].onNull]
  BY DEF Finish, Working, serverVars
<1>2. /\ c \in Conn /\ ContextOK(x) /\ StageOK(task.stage, x) /\ Current \in Op
      /\ last = [d \in Conn |-> last[d]]
  BY <1>1, AtWork
<1>3. Wrapper[Current].onNull \in Discipline
  BY <1>2, Disciplines
<1>4. /\ last' = [d \in Conn |-> last'[d]] /\ last'[c] = Wrapper[Current].onNull
      /\ \A d \in Conn \ {c} : last'[d] = last[d]
  BY <1>1, <1>2
<1>5. ServerTypes'
  BY <1>1 DEF IInv, ServerTypes
<1>6. CASE /\ task.stage = "null" /\ Wrapper[Current].onNull = "deref"
           /\ task' = [Idle EXCEPT !.stage = "dead"]
           /\ context' = [d \in Conn |-> NoContext] /\ UNCHANGED free
  <2>1. TaskTypes' /\ ~Working'
    BY <1>6 DEF Idle, TaskTypes, Working, Stages
  <2>2. Contexts' /\ \A d \in Conn : context'[d].state = "none"
    BY <1>6, ContextValues DEF Contexts
  <2>3. Queue' /\ History'
    BY <1>4, <1>6, <2>1, <2>2 DEF IInv, Queue, History
  <2>. QED BY <1>5, <2>1, <2>2, <2>3 DEF IInv, Stage
<1>7. CASE /\ ~(task.stage = "null" /\ Wrapper[Current].onNull = "deref")
           /\ context' = [context EXCEPT ![c] = y]
           /\ Release \/ (next.todo # <<>> /\ task' = next /\ UNCHANGED free)
  <2>1. ContextOK(y)
    BY <1>2, ContextValues DEF ContextAfter
  <2>2. y.state = "error" => last'[c] = "keep"
    BY <1>1, <1>2, <1>3, <1>4, <1>7, ContextValues DEF ContextAfter, StageOK, Discipline
  <2>. HIDE DEF y
  <2>3. CASE Release
    BY <1>1, <1>4, <1>5, <1>7, <2>1, <2>2, <2>3, GivesBack
  <2>4. CASE next.todo # <<>> /\ task' = next /\ UNCHANGED free
    <3>1. /\ task.todo \in Seq(Op) /\ task.todo # <<>> /\ task.login \in Seq(Op)
      BY <1>1 DEF IInv, TaskTypes
    <3>2. task' = [stage |-> IF task.login = <<>> THEN "init" ELSE "append",
                   conn |-> c,
                   todo |-> IF task.login = <<>> THEN Tail(task.todo) ELSE task.todo,
                   login |-> IF task.login = <<>> THEN <<>> ELSE Tail(task.login),
                   reply |-> <<>>]
      BY <2>4 DEF IInv, TaskTypes
    <3>3. /\ task'.todo \in Seq(Op) /\ task'.todo # <<>> /\ task'.login \in Seq(Op)
      <4>1. Tail(task.todo) \in Seq(Op) /\ (task.login # <<>> => Tail(task.login) \in Seq(Op))
        BY <3>1, HeadTail
      <4>2. <<>> \in Seq(Op)
        OBVIOUS
      <4>3. task'.todo # <<>>
        BY <2>4
      <4>. QED BY <3>1, <3>2, <4>1, <4>2, <4>3
    <3>4. /\ task'.stage \in {"init", "append"} /\ task'.conn = c
          /\ TaskTypes' /\ Working'
      BY <1>2, <3>2, <3>3 DEF TaskTypes, Working, Stages
    <3>5. StageOK(task'.stage, y)
      BY <3>4 DEF StageOK
    <3>. QED BY <1>1, <1>4, <1>5, <1>7, <2>1, <2>4, <3>4, <3>5, GoesOn
  <2>. QED BY <1>7, <2>3, <2>4
<1>. QED BY <1>1, <1>6, <1>7 DEF Finish

\* The server, the network and the clock leave the client alone.
LEMMA EnvironmentKeeps ==
    ASSUME IInv,
           \/ \E c \in Conn : Serve(c) \/ Drop(c)
           \/ Stop \/ ServerStart \/ Tick
    PROVE  IInv'
<1>1. UNCHANGED <<context, free, task, last>>
  BY DEF Serve, Drop, Stop, ServerStart, Tick
<1>2. ServerTypes'
  BY DEF IInv, ServerTypes, Serve, Drop, Stop, ServerStart, Tick, serverVars
<1>. QED BY <1>1, <1>2 DEF IInv, Contexts, TaskTypes, Working, Queue, Stage, History

\* A process that starts again has the pool of the first one.
LEMMA RestartKeeps == ASSUME IInv, Restart PROVE IInv'
<1>1. free' \in Seq(Conn) /\ \A i, j \in 1..Len(free') : free'[i] = free'[j] => i = j
  BY QueueValues DEF Restart
<1>2. ServerTypes' /\ Contexts'
  BY ContextValues DEF IInv, Restart, ServerTypes, Contexts
<1>3. TaskTypes' /\ ~Working'
  BY DEF Restart, Idle, TaskTypes, Working, Stages
<1>4. History'
  BY <1>1, ContextValues DEF Restart, History
<1>. QED BY <1>1, <1>2, <1>3, <1>4 DEF IInv, Queue, Stage

\* IInv is inductive.
LEMMA Inductive == IInv /\ [Next]_vars => IInv'
<1>. SUFFICES ASSUME IInv, [Next]_vars PROVE IInv'
  OBVIOUS
<1>1. ASSUME NEW h \in Handlers, Start(h) PROVE IInv'
  BY <1>1, StartKeeps
<1>2. CASE SkipConnect
  BY <1>2, SkipConnectKeeps
<1>3. CASE Connect
  BY <1>3, ConnectKeeps
<1>4. CASE AppendCommand
  BY <1>4, AppendCommandKeeps
<1>5. CASE GetPending
  BY <1>5, GetPendingKeeps
<1>6. CASE BufferWrite
  BY <1>6, BufferWriteKeeps
<1>7. CASE BufferRead
  BY <1>7, BufferReadKeeps
<1>8. CASE Finish
  BY <1>8, FinishKeeps
<1>9. CASE (\E c \in Conn : Serve(c) \/ Drop(c)) \/ Stop \/ ServerStart \/ Tick
  BY <1>9, EnvironmentKeeps
<1>10. CASE Restart
  BY <1>10, RestartKeeps
<1>11. CASE UNCHANGED vars
  BY <1>11 DEF vars, serverVars, IInv, ServerTypes, Contexts, TaskTypes, Working, Queue,
               Stage, History
<1>. QED BY <1>1, <1>2, <1>3, <1>4, <1>5, <1>6, <1>7, <1>8, <1>9, <1>10, <1>11
         DEF Next, Loop, Environment

-----------------------------------------------------------------------------
(* The exchange on a connection: what one end has written and the other    *)
(* has not read.                                                           *)

InCommand == task.stage \in {"get", "write", "read"}

\* Nothing is under way on a connection.  What a context in error had received
\* is lost, what was on its way to it may still be there.
Quiet(x, in, w) ==
    /\ in = <<>> /\ x.reader = NewReader
    /\ x.state = "good" => x.out = <<>> /\ w = <<>>

\* The command is being sent: at stage s its two halves are on either side.
Sends(s, op, x, live, in, w) ==
    /\ s = "read" => x.out = <<>>
    /\ s # "read" => x.out # <<>>
    /\ IF live THEN in \o x.out = <<op, op>> ELSE in = <<>>
    /\ w = <<>> /\ x.reader = NewReader

\* The server has answered: the parser is somewhere in the reply, a part of
\* which may never arrive.
Receives(s, op, x, in, w, reply) ==
    /\ s = "read" /\ x.out = <<>> /\ in = <<>>
    /\ reply \in Answers[op]
    /\ \E lost \in Seq(PartsSet) : Reading(x.reader, reply, <<>>, w \o lost)

\* What a command at stage s has done to its connection.
Busy(s, op, x, live, in, w, reply) ==
    /\ x.state # "good" => in = <<>> /\ x.reader = NewReader
    /\ x.state = "good" => \/ Sends(s, op, x, live, in, w) /\ reply = <<>>
                           \/ Receives(s, op, x, in, w, reply)

Wires ==
    /\ inbox = [c \in Conn |-> inbox[c]] /\ wire = [c \in Conn |-> wire[c]]
    /\ \A c \in Conn : inbox[c] \in Seq(Op) /\ wire[c] \in Seq(PartsSet)

OthersQuiet ==
    \A c \in Conn : ~(InCommand /\ c = task.conn) => Quiet(context[c], inbox[c], wire[c])

CommandBusy ==
    LET c == task.conn IN
    InCommand => Busy(task.stage, Current, context[c], linked[c], inbox[c], wire[c], served)

ReplyServed == task.stage = "reply" => served = NodesOf(task.reply) /\ IsTree(task.reply)

Exchange == Wires /\ OthersQuiet /\ CommandBusy /\ ReplyServed

-----------------------------------------------------------------------------
(* What the parts of a step do to it.                                      *)

\* The answers of the server are whole replies.
LEMMA AnswerValues ==
    ASSUME NEW op \in Op, NEW reply \in Answers[op]
    PROVE  reply \in Seq(Nodes) /\ IsReply(reply)
<1>1. Answers[op] \subseteq {s \in Seq([type : NodeTypes, n : Int]) : IsReply(s)}
  BY RedisAssumption DEF RedisAssumption, Op
<1>. QED BY <1>1 DEF Nodes

\* None of them is empty.
LEMMA AnswerNotEmpty == ASSUME NEW op \in Op, NEW reply \in Answers[op] PROVE reply # <<>>
<1>1. reply \in Seq(Nodes) /\ IsReply(reply)
  BY AnswerValues
<1>2. Owed(reply)[0] = 1 /\ Owed(reply)[Len(reply)] = 0
  BY <1>1, OwedSteps DEF IsReply
<1>. QED BY <1>2

\* The parser does nothing without bytes.
LEMMA EmptyRun ==
    ReaderRun(NewReader) = NewReader /\ ~NewReader.err /\ ~HasReply(NewReader)
BY DEF ReaderRun, NewReader, HasReply

\* A context that fails, one that is new and one that was freed are quiet on a
\* connection on which nothing was sent.
LEMMA QuietValues ==
    /\ \A x, w : Quiet(Failed(x), <<>>, w) /\ Quiet(NoContext, <<>>, w)
    /\ Quiet(NewContext, <<>>, <<>>)
BY DEF Quiet, Failed, NoContext, NewContext

\* A step of the handler's connection alone.
LEMMA OneConnection ==
    ASSUME IInv, Exchange, Working, Wires',
           \A d \in Conn \ {task.conn} :
              context'[d] = context[d] /\ inbox'[d] = inbox[d] /\ wire'[d] = wire[d],
           InCommand' => task'.conn = task.conn /\ CommandBusy',
           ~InCommand' => Quiet(context'[task.conn], inbox'[task.conn], wire'[task.conn]),
           ReplyServed'
    PROVE  Exchange'
<1>1. \A d \in Conn \ {task.conn} : Quiet(context'[d], inbox'[d], wire'[d])
  BY DEF Exchange, OthersQuiet
<1>2. OthersQuiet'
  <2>. SUFFICES ASSUME NEW d \in Conn, ~(InCommand' /\ d = task'.conn)
                PROVE  Quiet(context'[d], inbox'[d], wire'[d])
    BY DEF OthersQuiet
  <2>1. CASE d = task.conn
    BY <2>1
  <2>2. CASE d # task.conn
    BY <1>1, <2>2
  <2>. QED BY <2>1, <2>2
<1>3. CommandBusy'
  BY DEF CommandBusy
<1>. QED BY <1>2, <1>3 DEF Exchange

\* A step between two commands.
LEMMA BetweenCommands ==
    ASSUME Exchange, ~InCommand, ~InCommand', task'.stage # "reply",
           UNCHANGED <<context, inbox, wire>>
    PROVE  Exchange'
<1>1. Wires' /\ ReplyServed' /\ CommandBusy'
  BY DEF Exchange, Wires, ReplyServed, CommandBusy
<1>2. OthersQuiet'
  BY DEF Exchange, OthersQuiet
<1>. QED BY <1>1, <1>2 DEF Exchange

\* A handler takes a connection.
LEMMA StartExchange == ASSUME Exchange, NEW h \in Handlers, Start(h) PROVE Exchange'
<1>1. task.stage = "idle" /\ task'.stage = "init" /\ UNCHANGED <<context, inbox, wire>>
  BY DEF Start, Idle, serverVars
<1>. QED BY <1>1, BetweenCommands DEF InCommand

\* CacheConn::Init has nothing to do.
LEMMA SkipConnectExchange == ASSUME IInv, Exchange, SkipConnect PROVE Exchange'
<1>1. task.stage = "init" /\ UNCHANGED <<context, inbox, wire>>
  BY DEF SkipConnect, serverVars
<1>2. task'.stage \in {"append", "idle"}
  BY DEF SkipConnect, Release, Idle, IInv, TaskTypes
<1>. QED BY <1>1, <1>2, BetweenCommands DEF InCommand

\* CacheConn::Init connects: the buffers of a new socket are empty.
LEMMA ConnectExchange == ASSUME IInv, Exchange, Connect PROVE Exchange'
<1>. DEFINE c == task.conn
<1>1. /\ Working /\ task.stage = "init" /\ context[c].state = "none"
      /\ inbox' = [inbox EXCEPT ![c] = <<>>] /\ wire' = [wire EXCEPT ![c] = <<>>]
  BY DEF Connect, Working
<1>2. c \in Conn
  BY <1>1, AtWork
<1>3. /\ Wires' /\ inbox'[c] = <<>> /\ wire'[c] = <<>>
      /\ \A d \in Conn \ {c} : inbox'[d] = inbox[d] /\ wire'[d] = wire[d]
  <2>1. <<>> \in Seq(Op) /\ <<>> \in Seq(PartsSet)
    OBVIOUS
  <2>. QED BY <1>1, <1>2, <2>1 DEF Exchange, Wires
<1>4. Quiet(context[c], inbox[c], wire[c])
  BY <1>1, <1>2 DEF Exchange, OthersQuiet, InCommand
<1>5. task'.stage \in {"append", "idle"}
  <2>1. CASE task' = [task EXCEPT !.stage = "append", !.login = Login]
    BY <1>1, <2>1 DEF IInv, TaskTypes
  <2>2. CASE Release
    BY <2>2 DEF Release, Idle
  <2>. QED BY <2>1, <2>2 DEF Connect
<1>6. ~InCommand' /\ ReplyServed'
  BY <1>5 DEF InCommand, ReplyServed
<1>7. CASE context' = [context EXCEPT ![c] = NewContext]
  <2>1. context'[c] = NewContext /\ \A d \in Conn \ {c} : context'[d] = context[d]
    BY <1>2, <1>7 DEF IInv, Contexts
  <2>2. Quiet(context'[c], inbox'[c], wire'[c])
    BY <1>3, <2>1, QuietValues
  <2>. QED BY <1>1, <1>3, <1>6, <2>1, <2>2, OneConnection
<1>8. CASE UNCHANGED context
  <2>1. Quiet(context'[c], inbox'[c], wire'[c])
    BY <1>1, <1>3, <1>4, <1>8 DEF Quiet
  <2>. QED BY <1>1, <1>3, <1>6, <1>8, <2>1, OneConnection
<1>. QED BY <1>7, <1>8 DEF Connect

\* redisvAppendCommand puts the command into the buffer or fails.
LEMMA AppendCommandExchange == ASSUME IInv, Exchange, AppendCommand PROVE Exchange'
<1>. DEFINE c == task.conn
            x == context[c]
            op == Current
<1>1. Working /\ task.stage = "append" /\ served' = <<>> /\ UNCHANGED <<linked, inbox, wire>>
  BY DEF AppendCommand, Working, serverVars
<1>2. c \in Conn /\ ContextOK(x) /\ op \in Op
  BY <1>1, AtWork
<1>3. Quiet(x, inbox[c], wire[c]) /\ Wires'
  BY <1>1, <1>2 DEF Exchange, OthersQuiet, InCommand, Wires
<1>4. task = [stage |-> "append", conn |-> c, todo |-> task.todo,
              login |-> task.login, reply |-> task.reply]
  BY <1>1 DEF IInv, TaskTypes
<1>5. CASE /\ context' = [context EXCEPT ![c].out = @ \o <<op, op>>]
           /\ task' = [task EXCEPT !.stage = "get"]
  <2>. DEFINE y == [x EXCEPT !.out = @ \o <<op, op>>]
  <2>1. task'.stage = "get" /\ task'.conn = c /\ Current' = op
    BY <1>4, <1>5 DEF Current
  <2>2. context'[c] = y /\ \A d \in Conn \ {c} : context'[d] = context[d]
    BY <1>2, <1>5 DEF IInv, Contexts
  <2>3. y.state = x.state /\ y.reader = x.reader /\ y.out = x.out \o <<op, op>>
    BY <1>2 DEF ContextOK
  <2>4. x.state = "good" => Sends("get", op, y, linked[c], <<>>, wire[c])
    <3>1. <<op, op>> \in Seq(Op) /\ <<op, op>> # <<>> /\ <<>> \o <<op, op>> = <<op, op>>
      BY <1>2
    <3>. QED BY <1>3, <2>3, <3>1 DEF Quiet, Sends
  <2>. HIDE DEF y
  <2>5. Busy("get", op, y, linked[c], inbox[c], wire[c], <<>>)
    BY <1>3, <2>3, <2>4 DEF Busy, Quiet
  <2>6. InCommand' /\ CommandBusy' /\ ReplyServed'
    BY <1>1, <2>1, <2>2, <2>5 DEF InCommand, CommandBusy, ReplyServed
  <2>. QED BY <1>1, <1>3, <2>1, <2>2, <2>6, OneConnection
<1>6. CASE context' = [context EXCEPT ![c] = Failed(@)] /\ task' = NullReply
  <2>1. context'[c] = Failed(x) /\ \A d \in Conn \ {c} : context'[d] = context[d]
    BY <1>2, <1>6 DEF IInv, Contexts
  <2>2. task'.stage = "null"
    BY <1>4, <1>6 DEF NullReply
  <2>3. Quiet(Failed(x), inbox[c], wire[c])
    BY <1>3, QuietValues DEF Quiet
  <2>4. ~InCommand' /\ ReplyServed'
    BY <2>2 DEF InCommand, ReplyServed
  <2>. QED BY <1>1, <1>3, <2>1, <2>3, <2>4, OneConnection
<1>. QED BY <1>5, <1>6 DEF AppendCommand

\* No bytes are left of an earlier reply, so the command is written first.
LEMMA GetPendingIs ==
    ASSUME IInv, Exchange, GetPending
    PROVE  /\ context' = [context EXCEPT ![task.conn] = context[task.conn]]
           /\ task' = [task EXCEPT !.stage = "write"]
<1>. DEFINE c == task.conn
            x == context[c]
<1>1. Working /\ InCommand /\ task.stage = "get" /\ TakeReply(x)
  BY DEF GetPending, Working, InCommand
<1>2. c \in Conn /\ ContextOK(x) /\ x.out # <<>>
  BY <1>1, AtWork DEF StageOK
<1>3. x.reader = NewReader
  BY <1>1 DEF Exchange, CommandBusy, Busy, Sends, Receives
<1>4. [x EXCEPT !.reader = NewReader] = x
  BY <1>2, <1>3 DEF ContextOK
<1>. QED BY <1>1, <1>2, <1>3, <1>4, EmptyRun DEF TakeReply

LEMMA GetPendingExchange == ASSUME IInv, Exchange, GetPending PROVE Exchange'
<1>. DEFINE c == task.conn
            x == context[c]
            op == Current
<1>1. /\ Working /\ InCommand /\ task.stage = "get"
      /\ UNCHANGED <<linked, inbox, wire, served>>
  BY DEF GetPending, Working, InCommand, serverVars
<1>2. c \in Conn
  BY <1>1, AtWork
<1>3. Busy("get", op, x, linked[c], inbox[c], wire[c], served) /\ Wires'
  BY <1>1 DEF Exchange, CommandBusy, Wires
<1>4. task = [stage |-> "get", conn |-> c, todo |-> task.todo,
              login |-> task.login, reply |-> task.reply]
  BY <1>1 DEF IInv, TaskTypes
<1>5. context' = [context EXCEPT ![c] = x] /\ task' = [task EXCEPT !.stage = "write"]
  BY GetPendingIs
<1>6. context'[c] = x /\ \A d \in Conn \ {c} : context'[d] = context[d]
  BY <1>2, <1>5 DEF IInv, Contexts
<1>7. task'.stage = "write" /\ task'.conn = c /\ Current' = op
  BY <1>4, <1>5 DEF Current
<1>8. Busy("write", op, x, linked[c], inbox[c], wire[c], served)
  BY <1>3 DEF Busy, Sends, Receives
<1>9. InCommand' /\ CommandBusy' /\ ReplyServed'
  BY <1>1, <1>6, <1>7, <1>8 DEF InCommand, CommandBusy, ReplyServed
<1>. QED BY <1>1, <1>3, <1>6, <1>7, <1>9, OneConnection

\* Sequences are concatenated in any order.
LEMMA Regroup ==
    ASSUME NEW S
    PROVE  \A s, t, u \in Seq(S) : (s \o t) \o u = s \o (t \o u) /\ t \o u \in Seq(S)
BY ConcatAssociative, ConcatProperties

\* What is written leaves one end for the other.
LEMMA Moves ==
    ASSUME NEW given \in Seq(Op), NEW in \in Seq(Op), NEW n \in 1..Len(given)
    PROVE  /\ SubSeq(given, 1, n) \in Seq(Op) /\ SubSeq(given, n + 1, Len(given)) \in Seq(Op)
           /\ (in \o SubSeq(given, 1, n)) \o SubSeq(given, n + 1, Len(given)) = in \o given
           /\ n < Len(given) <=> SubSeq(given, n + 1, Len(given)) # <<>>
<1>. DEFINE L == Len(given)
            sent == SubSeq(given, 1, n)
            remain == SubSeq(given, n + 1, L)
<1>1. n \in 0..L /\ L \in Nat
  BY LenProperties
<1>2. sent \in Seq(Op) /\ remain \in Seq(Op)
  BY <1>1, CutInTwo
<1>3. Len(remain) = L - n
  BY <1>1, CutInTwo
<1>4. sent \o remain = given
  BY <1>1, CutInTwo
<1>. HIDE DEF sent, remain
<1>5. (in \o sent) \o remain = in \o (sent \o remain)
  <2>1. \A s, t, u \in Seq(Op) : (s \o t) \o u = s \o (t \o u) /\ t \o u \in Seq(Op)
    BY Regroup, Zenon
  <2>. QED BY <1>2, <2>1, Zenon
<1>6. n < L <=> remain # <<>>
  BY <1>1, <1>2, <1>3, EmptySeq
<1>. QED BY <1>2, <1>4, <1>5, <1>6, Zenon DEF sent, remain

\* redisBufferWrite.
LEMMA BufferWriteExchange == ASSUME IInv, Exchange, BufferWrite PROVE Exchange'
<1>. DEFINE c == task.conn
            x == context[c]
            op == Current
<1>1. /\ Working /\ InCommand /\ task.stage = "write"
      /\ UNCHANGED <<linked, wire, served>>
  BY DEF BufferWrite, Working, InCommand
<1>2. c \in Conn /\ ContextOK(x) /\ op \in Op
  BY <1>1, AtWork
<1>3. Busy("write", op, x, linked[c], inbox[c], wire[c], served) /\ Wires
  BY <1>1 DEF Exchange, CommandBusy
<1>4. task = [stage |-> "write", conn |-> c, todo |-> task.todo,
              login |-> task.login, reply |-> task.reply]
  BY <1>1 DEF IInv, TaskTypes
<1>5. CASE /\ x.state = "error" \/ ~linked[c]
           /\ context' = [context EXCEPT ![c] = Failed(@)]
           /\ task' = NullReply /\ UNCHANGED inbox
  <2>1. context'[c] = Failed(x) /\ \A d \in Conn \ {c} : context'[d] = context[d]
    BY <1>2, <1>5 DEF IInv, Contexts
  <2>2. task'.stage = "null"
    BY <1>4, <1>5 DEF NullReply
  <2>3. inbox[c] = <<>>
    BY <1>3, <1>5 DEF Busy, Sends, Receives
  <2>4. Quiet(Failed(x), inbox[c], wire[c])
    BY <2>3, QuietValues
  <2>5. ~InCommand' /\ ReplyServed'
    BY <2>2 DEF InCommand, ReplyServed
  <2>6. Wires'
    BY <1>1, <1>3, <1>5 DEF Wires
  <2>. QED BY <1>1, <1>5, <2>1, <2>4, <2>5, <2>6, OneConnection
<1>6. ASSUME x.state = "good", NEW n \in 1..Len(x.out),
             context' = [context EXCEPT ![c].out = SubSeq(@, n + 1, Len(@))],
             inbox' = [inbox EXCEPT ![c] =
                         IF linked[c] THEN @ \o SubSeq(x.out, 1, n) ELSE @],
             task' = IF n < Len(x.out) THEN task ELSE [task EXCEPT !.stage = "read"]
      PROVE  Exchange'
  <2>. DEFINE remain == SubSeq(x.out, n + 1, Len(x.out))
              sent == SubSeq(x.out, 1, n)
              y == [x EXCEPT !.out = remain]
              in == IF linked[c] THEN inbox[c] \o sent ELSE inbox[c]
              s == IF n < Len(x.out) THEN "write" ELSE "read"
  <2>1. x.out \in Seq(Op) /\ inbox[c] \in Seq(Op)
    BY <1>2, <1>3 DEF ContextOK, Wires
  <2>2. /\ sent \in Seq(Op) /\ remain \in Seq(Op)
        /\ (inbox[c] \o sent) \o remain = inbox[c] \o x.out
        /\ n < Len(x.out) <=> remain # <<>>
    BY <1>6, <2>1, Moves
  <2>3. /\ context'[c] = y /\ \A d \in Conn \ {c} : context'[d] = context[d]
        /\ inbox'[c] = in /\ \A d \in Conn \ {c} : inbox'[d] = inbox[d]
    BY <1>2, <1>3, <1>6 DEF IInv, Contexts, Wires
  <2>4. y.state = "good" /\ y.reader = x.reader /\ y.out = remain
    BY <1>2, <1>6 DEF ContextOK
  <2>5. task'.stage = s /\ task'.conn = c /\ Current' = op
    BY <1>4, <1>6 DEF Current
  <2>. HIDE DEF y, remain, sent
  <2>6. in \in Seq(Op)
    BY <2>1, <2>2
  <2>7. Wires'
    BY <1>1, <1>2, <1>3, <1>6, <2>3, <2>6 DEF Wires, sent
  <2>8. Sends("write", op, x, linked[c], inbox[c], wire[c]) /\ served = <<>>
    BY <1>3, <1>6 DEF Busy, Receives
  <2>9. Sends(s, op, y, linked[c], in, wire[c])
    BY <2>2, <2>4, <2>8 DEF Sends
  <2>10. Busy(s, op, y, linked[c], in, wire[c], served)
    BY <2>4, <2>8, <2>9 DEF Busy
  <2>11. InCommand' /\ CommandBusy' /\ ReplyServed'
    BY <1>1, <2>3, <2>5, <2>10 DEF InCommand, CommandBusy, ReplyServed
  <2>. QED BY <1>1, <2>3, <2>5, <2>7, <2>11, OneConnection
<1>. QED BY <1>5, <1>6 DEF BufferWrite

\* One part after the other is what they are together.
LEMMA ReadOn ==
    ASSUME NEW w \in Seq(PartsSet), NEW lost \in Seq(PartsSet), NEW n \in 1..Len(w)
    PROVE  LET parts == SubSeq(w, 1, n)
               rest == SubSeq(w, n + 1, Len(w))
           IN  /\ parts \in Seq(PartsSet) /\ rest \in Seq(PartsSet)
               /\ rest \o lost \in Seq(PartsSet)
               /\ w \o lost = parts \o (rest \o lost)
<1>. DEFINE parts == SubSeq(w, 1, n)
            rest == SubSeq(w, n + 1, Len(w))
<1>1. n \in 0..Len(w)
  OBVIOUS
<1>2. parts \in Seq(PartsSet) /\ rest \in Seq(PartsSet)
  BY <1>1, CutInTwo
<1>3. parts \o rest = w
  BY <1>1, CutInTwo
<1>. HIDE DEF parts, rest
<1>4. (parts \o rest) \o lost = parts \o (rest \o lost) /\ rest \o lost \in Seq(PartsSet)
  BY <1>2, Regroup, Zenon
<1>. QED BY <1>2, <1>3, <1>4 DEF parts, rest

\* What the parser makes of the next parts of a reply: it refuses the reply,
\* hands out the whole of it, or waits for more.
LEMMA PartsRead ==
    ASSUME NEW op \in Op, NEW reply \in Answers[op], NEW parts \in Seq(PartsSet),
           NEW more \in Seq(PartsSet), NEW q, Reading(q, reply, <<>>, parts \o more)
    PROVE  LET r == ReaderRun(ReaderFeed(q, parts)) IN
           /\ r.err \/ Reading(r, reply, <<>>, more)
           /\ ~r.err /\ HasReply(r)
                => /\ reply = NodesOf(r.obj) /\ IsTree(r.obj)
                   /\ more = <<>> /\ ReplyTaken(r) = NewReader
<1>. DEFINE p == ReaderFeed(q, parts)
            r == ReaderRun(p)
<1>1. reply \in Seq(Nodes) /\ IsReply(reply)
  BY AnswerValues
<1>2. Reading(p, reply, <<>>, more)
  BY FeedReads
<1>. HIDE DEF p
<1>3. r.err \/ Reading(r, reply, <<>>, more)
  BY <1>1, <1>2, RunReads DEF ReadsOrRefuses, Refused
<1>. HIDE DEF r
<1>4. ASSUME ~r.err, HasReply(r)
      PROVE  /\ reply = NodesOf(r.obj) /\ IsTree(r.obj)
             /\ more = <<>> /\ ReplyTaken(r) = NewReader
  BY <1>1, <1>3, <1>4, OnlyReply
<1>. QED BY <1>3, <1>4 DEF r, p

\* redisBufferRead.
LEMMA BufferReadExchange == ASSUME IInv, Exchange, BufferRead PROVE Exchange'
<1>. DEFINE c == task.conn
            x == context[c]
            op == Current
<1>1. /\ Working /\ InCommand /\ task.stage = "read"
      /\ UNCHANGED <<linked, inbox, served>>
  BY DEF BufferRead, Working, InCommand
<1>2. c \in Conn /\ ContextOK(x) /\ x.state = "good" /\ op \in Op
  BY <1>1, AtWork DEF StageOK
<1>3. Busy("read", op, x, linked[c], inbox[c], wire[c], served) /\ Wires
  BY <1>1 DEF Exchange, CommandBusy
<1>4. task = [stage |-> "read", conn |-> c, todo |-> task.todo,
              login |-> task.login, reply |-> task.reply]
  BY <1>1 DEF IInv, TaskTypes
<1>5. CASE /\ x.state = "error" \/ (wire[c] = <<>> /\ ~linked[c])
           /\ context' = [context EXCEPT ![c] = Failed(@)]
           /\ task' = NullReply /\ UNCHANGED wire
  <2>1. context'[c] = Failed(x) /\ \A d \in Conn \ {c} : context'[d] = context[d]
    BY <1>2, <1>5 DEF IInv, Contexts
  <2>2. task'.stage = "null"
    BY <1>4, <1>5 DEF NullReply
  <2>3. inbox[c] = <<>>
    BY <1>2, <1>3, <1>5 DEF Busy, Sends, Receives
  <2>4. Quiet(Failed(x), inbox[c], wire[c])
    BY <2>3, QuietValues
  <2>5. ~InCommand' /\ ReplyServed'
    BY <2>2 DEF InCommand, ReplyServed
  <2>6. Wires'
    BY <1>1, <1>3, <1>5 DEF Wires
  <2>. QED BY <1>1, <1>5, <2>1, <2>4, <2>5, <2>6, OneConnection
<1>6. ASSUME wire[c] # <<>>, NEW n \in 1..Len(wire[c]),
             TakeReply([x EXCEPT !.reader = ReaderFeed(@, SubSeq(wire[c], 1, n))]),
             wire' = [wire EXCEPT ![c] = SubSeq(@, n + 1, Len(@))]
      PROVE  Exchange'
  <2>. DEFINE w == wire[c]
              parts == SubSeq(w, 1, n)
              rest == SubSeq(w, n + 1, Len(w))
              z == [x EXCEPT !.reader = ReaderFeed(@, parts)]
              r == ReaderRun(ReaderFeed(x.reader, parts))
              y == [z EXCEPT !.reader = r]
  <2>1. Receives("read", op, x, inbox[c], w, served)
    BY <1>2, <1>3, <1>6 DEF Busy, Sends
  <2>2. PICK lost \in Seq(PartsSet) : Reading(x.reader, served, <<>>, w \o lost)
    BY <2>1 DEF Receives
  <2>3. /\ parts \in Seq(PartsSet) /\ rest \in Seq(PartsSet)
        /\ rest \o lost \in Seq(PartsSet) /\ w \o lost = parts \o (rest \o lost)
    <3>1. w \in Seq(PartsSet)
      BY <1>2, <1>3 DEF Wires
    <3>. HIDE DEF w
    <3>. QED BY <1>6, <3>1, ReadOn DEF w
  <2>4. wire'[c] = rest /\ \A d \in Conn \ {c} : wire'[d] = wire[d]
    BY <1>2, <1>3, <1>6 DEF Wires
  <2>5. /\ z.reader = ReaderFeed(x.reader, parts) /\ z.state = x.state /\ z.out = <<>>
        /\ z = [state |-> x.state, out |-> <<>>, reader |-> ReaderFeed(x.reader, parts)]
    BY <1>2, <2>1 DEF ContextOK, Receives
  <2>6. TakeReply(z)
    BY <1>6
  <2>7. /\ r.err \/ Reading(r, served, <<>>, rest \o lost)
        /\ ~r.err /\ HasReply(r)
             => /\ served = NodesOf(r.obj) /\ IsTree(r.obj)
                /\ rest \o lost = <<>> /\ ReplyTaken(r) = NewReader
    <3>1. served \in Answers[op] /\ Reading(x.reader, served, <<>>, parts \o (rest \o lost))
      BY <2>1, <2>2, <2>3 DEF Receives
    <3>. HIDE DEF parts, rest, op, x
    <3>. QED BY <1>2, <2>3, <3>1, PartsRead
  <2>8. Wires' /\ inbox'[c] = <<>> /\ inbox[c] = <<>>
    BY <1>1, <1>2, <1>3, <1>6, <2>1, <2>3, <2>4 DEF Wires, Receives
  <2>. HIDE DEF z, parts, rest, w
  <2>9. CASE r.err
    <3>1. context' = [context EXCEPT ![c] = Failed(y)] /\ task' = NullReply
      BY <2>5, <2>6, <2>9 DEF TakeReply
    <3>2. context'[c] = Failed(y) /\ \A d \in Conn \ {c} : context'[d] = context[d]
      BY <1>2, <3>1 DEF IInv, Contexts
    <3>3. task'.stage = "null"
      BY <1>4, <3>1 DEF NullReply
    <3>4. Quiet(context'[c], inbox'[c], wire'[c])
      BY <2>8, <3>2, QuietValues
    <3>5. ~InCommand' /\ ReplyServed'
      BY <3>3 DEF InCommand, ReplyServed
    <3>. QED BY <1>1, <2>4, <2>8, <3>2, <3>4, <3>5, OneConnection
  <2>10. CASE ~r.err /\ HasReply(r)
    <3>1. /\ context' = [context EXCEPT ![c] = [y EXCEPT !.reader = ReplyTaken(r)]]
          /\ task' = Answered(r.obj)
      BY <2>5, <2>6, <2>10 DEF TakeReply
    <3>2. ReplyTaken(r) = NewReader /\ rest = <<>>
      <4>1. rest \o lost = <<>> /\ Len(rest \o lost) = Len(rest) + Len(lost)
            /\ Len(rest) \in Nat /\ Len(lost) \in Nat
        BY <2>3, <2>7, <2>10, ConcatProperties, LenProperties
      <4>2. Len(rest) = 0
        BY <4>1
      <4>. QED BY <2>3, <2>7, <2>10, <4>2, EmptySeq
    <3>3. /\ context'[c] = [y EXCEPT !.reader = ReplyTaken(r)]
          /\ \A d \in Conn \ {c} : context'[d] = context[d]
      BY <1>2, <3>1 DEF IInv, Contexts
    <3>4. context'[c].out = <<>> /\ context'[c].reader = NewReader
      BY <2>5, <3>2, <3>3
    <3>5. Quiet(context'[c], inbox'[c], wire'[c])
      BY <2>4, <2>8, <3>2, <3>4 DEF Quiet
    <3>6. task'.stage = "reply" /\ task'.reply = r.obj
      BY <1>4, <3>1 DEF Answered
    <3>7. ~InCommand' /\ ReplyServed'
      BY <1>1, <2>7, <2>10, <3>6 DEF InCommand, ReplyServed
    <3>. QED BY <1>1, <2>4, <2>8, <3>3, <3>5, <3>7, OneConnection
  <2>11. CASE ~r.err /\ ~HasReply(r)
    <3>1. context' = [context EXCEPT ![c] = y] /\ task' = [task EXCEPT !.stage = "read"]
      BY <2>5, <2>6, <2>11 DEF TakeReply
    <3>2. context'[c] = y /\ \A d \in Conn \ {c} : context'[d] = context[d]
      BY <1>2, <3>1 DEF IInv, Contexts
    <3>3. y.state = "good" /\ y.out = <<>> /\ y.reader = r
      BY <1>2, <2>5
    <3>4. task'.stage = "read" /\ task'.conn = c /\ Current' = op
      BY <1>4, <3>1 DEF Current
    <3>. HIDE DEF y, r
    <3>5. Receives("read", op, y, inbox'[c], wire'[c], served)
      BY <2>1, <2>4, <2>7, <2>8, <2>11, <3>3 DEF Receives
    <3>6. Busy("read", op, y, linked[c], inbox'[c], wire'[c], served)
      BY <3>3, <3>5 DEF Busy
    <3>7. InCommand' /\ CommandBusy' /\ ReplyServed'
      BY <1>1, <3>2, <3>4, <3>6 DEF InCommand, CommandBusy, ReplyServed
    <3>. QED BY <1>1, <2>4, <2>8, <3>2, <3>4, <3>7, OneConnection
  <2>. QED BY <2>9, <2>10, <2>11
<1>. QED BY <1>5, <1>6 DEF BufferRead

\* The wrapper ends, with the context, without it, or with the process.
LEMMA FinishExchange == ASSUME IInv, Exchange, Finish PROVE Exchange'
<1>. DEFINE c == task.conn
            x == context[c]
            next == [task EXCEPT !.stage = IF task.login = <<>> THEN "init" ELSE "append",
                                 !.login = IF @ = <<>> THEN <<>> ELSE Tail(@),
                                 !.todo = IF task.login = <<>> THEN Tail(@) ELSE @,
                                 !.reply = <<>>]
<1>1. /\ Working /\ task.stage \in {"reply", "null"} /\ ~InCommand
      /\ UNCHANGED <<linked, inbox, wire>>
  BY DEF Finish, Working, InCommand, serverVars
<1>2. c \in Conn
  BY <1>1, AtWork
<1>3. Wires' /\ \A d \in Conn : Quiet(context[d], inbox[d], wire[d])
  BY <1>1 DEF Exchange, OthersQuiet, Wires
<1>4. CASE /\ task' = [Idle EXCEPT !.stage = "dead"]
           /\ context' = [d \in Conn |-> NoContext]
  <2>1. task'.stage = "dead"
    BY <1>4 DEF Idle
  <2>2. ~InCommand' /\ ReplyServed' /\ CommandBusy'
    BY <2>1 DEF InCommand, ReplyServed, CommandBusy
  <2>3. \A d \in Conn : inbox'[d] = <<>> /\ context'[d] = NoContext
    BY <1>1, <1>3, <1>4 DEF Quiet
  <2>4. OthersQuiet'
    BY <2>3, QuietValues DEF OthersQuiet
  <2>. QED BY <1>3, <2>2, <2>4 DEF Exchange
<1>5. CASE /\ context' = [context EXCEPT ![c] = ContextAfter(x)]
           /\ Release \/ task' = next
  <2>1. ContextAfter(x) \in {NoContext, x}
    BY DEF ContextAfter
  <2>2. /\ context'[c] = ContextAfter(x)
        /\ \A d \in Conn \ {c} : context'[d] = context[d]
    BY <1>2, <1>5 DEF IInv, Contexts
  <2>3. Quiet(context'[c], inbox'[c], wire'[c])
    <3>1. Quiet(x, inbox[c], wire[c]) /\ inbox[c] = <<>>
      BY <1>2, <1>3 DEF Quiet
    <3>2. Quiet(NoContext, inbox[c], wire[c])
      BY <3>1, QuietValues
    <3>. QED BY <1>1, <2>1, <2>2, <3>1, <3>2
  <2>4. task'.stage \in {"idle", "init", "append"}
    <3>1. CASE Release
      BY <3>1 DEF Release, Idle
    <3>2. CASE task' = next
      BY <1>1, <3>2 DEF IInv, TaskTypes
    <3>. QED BY <1>5, <3>1, <3>2
  <2>5. ~InCommand' /\ ReplyServed'
    BY <2>4 DEF InCommand, ReplyServed
  <2>. QED BY <1>1, <1>3, <2>2, <2>3, <2>5, OneConnection
<1>. QED BY <1>4, <1>5 DEF Finish

\* What a command looks like when it waits for the server.
LEMMA CommandWaits ==
    ASSUME IInv, Exchange, NEW c \in Conn, Len(inbox[c]) >= 2
    PROVE  /\ InCommand /\ task.stage = "read" /\ task.conn = c /\ served = <<>>
           /\ inbox[c] = <<Current, Current>> /\ Current \in Op
<1>. DEFINE x == context[c]
            op == Current
<1>1. inbox[c] # <<>> /\ Wires
  BY DEF Exchange
<1>2. InCommand /\ task.conn = c
  BY <1>1 DEF Exchange, OthersQuiet, Quiet
<1>3. Working /\ Busy(task.stage, op, x, linked[c], inbox[c], wire[c], served)
  BY <1>2 DEF Exchange, CommandBusy, InCommand, Working
<1>4. Sends(task.stage, op, x, linked[c], inbox[c], wire[c]) /\ linked[c] /\ served = <<>>
  BY <1>1, <1>3 DEF Busy, Receives, Sends
<1>5. x.out \in Seq(Op) /\ inbox[c] \in Seq(Op) /\ op \in Op
  BY <1>1, <1>2, <1>3, AtWork DEF ContextOK, Wires
<1>6. inbox[c] \o x.out = <<op, op>>
  BY <1>4 DEF Sends
<1>7. x.out = <<>>
  <2>1. Len(inbox[c] \o x.out) = Len(inbox[c]) + Len(x.out) /\ Len(x.out) \in Nat
        /\ Len(inbox[c]) \in Nat
    BY <1>5, ConcatProperties, LenProperties
  <2>2. Len(<<op, op>>) = 2
    OBVIOUS
  <2>. DEFINE here == Len(inbox[c])
              there == Len(x.out)
  <2>3. here + there = 2 /\ here >= 2 /\ here \in Nat /\ there \in Nat
    BY <1>6, <2>1, <2>2
  <2>. HIDE DEF here, there
  <2>4. there = 0
    BY <2>3
  <2>. QED BY <1>5, <2>4, EmptySeq DEF there
<1>8. inbox[c] = <<op, op>>
  BY <1>5, <1>6, <1>7, ConcatEmptySeq
<1>. QED BY <1>2, <1>4, <1>5, <1>7, <1>8 DEF Sends

\* What the server executes is the command of the handler on the loop.
LEMMA ServeExchange == ASSUME IInv, Exchange, NEW c \in Conn, Serve(c) PROVE Exchange'
<1>. DEFINE x == context[c]
            op == Current
<1>1. linked[c] /\ Len(inbox[c]) >= 2 /\ UNCHANGED <<linked, context, task>>
  BY DEF Serve
<1>2. Wires /\ inbox[c] # <<>>
  BY <1>1 DEF Exchange
<1>3. InCommand /\ task.conn = c /\ inbox[c] = <<op, op>> /\ op \in Op
  BY <1>1, CommandWaits
<1>4. Working /\ Busy(task.stage, op, x, linked[c], inbox[c], wire[c], served)
  BY <1>3 DEF Exchange, CommandBusy, InCommand, Working
<1>5. Sends(task.stage, op, x, linked[c], inbox[c], wire[c]) /\ x.state = "good"
  BY <1>2, <1>4 DEF Busy, Receives
<1>6. task.stage = "read"
  BY <1>1, CommandWaits
<1>7. x.out = <<>>
  BY <1>5, <1>6 DEF Sends
<1>8. task.stage = "read" /\ wire[c] = <<>> /\ x.reader = NewReader
  BY <1>5, <1>6 DEF Sends
<1>9. PICK reply \in Answers[inbox[c][1]] :
        /\ served' = IF task.conn = c THEN reply ELSE served
        /\ wire' = [wire EXCEPT ![c] = @ \o WireOf(reply)]
  BY DEF Serve
<1>10. reply \in Answers[op] /\ served' = reply
  BY <1>3, <1>9
<1>11. WireOf(reply) \in Seq(PartsSet) /\ Reading(NewReader, reply, <<>>, WireOf(reply))
  BY <1>3, <1>10, AnswerValues, ReplyStarts
<1>12. <<>> \in Seq(PartsSet) /\ WireOf(reply) \o <<>> = WireOf(reply)
       /\ <<>> \o WireOf(reply) = WireOf(reply)
  BY <1>11, ConcatEmptySeq
<1>13. wire'[c] = WireOf(reply) /\ \A d \in Conn \ {c} : wire'[d] = wire[d]
  BY <1>2, <1>8, <1>9, <1>12 DEF Wires
<1>14. inbox'[c] = <<>> /\ \A d \in Conn \ {c} : inbox'[d] = inbox[d]
  <2>1. inbox' = [inbox EXCEPT ![c] = SubSeq(@, 3, Len(@))]
    BY DEF Serve
  <2>2. SubSeq(<<op, op>>, 3, Len(<<op, op>>)) = <<>>
    OBVIOUS
  <2>. QED BY <1>2, <1>3, <2>1, <2>2 DEF Wires
<1>15. Wires'
  <2>1. inbox' = [d \in Conn |-> inbox'[d]] /\ wire' = [d \in Conn |-> wire'[d]]
    BY <1>2, <1>9 DEF Serve, Wires
  <2>2. <<>> \in Seq(Op)
    OBVIOUS
  <2>. QED BY <1>2, <1>11, <1>13, <1>14, <2>1, <2>2 DEF Wires
<1>16. Receives("read", op, x, <<>>, wire'[c], reply)
  BY <1>7, <1>8, <1>10, <1>11, <1>12, <1>13 DEF Receives
<1>17. CommandBusy' /\ InCommand' /\ ReplyServed'
  <2>1. Busy("read", op, x, linked[c], <<>>, wire'[c], reply)
    BY <1>5, <1>16 DEF Busy
  <2>2. Current' = op
    BY <1>1 DEF Current
  <2>. QED BY <1>1, <1>3, <1>8, <1>10, <1>14, <2>1, <2>2
         DEF CommandBusy, InCommand, ReplyServed
<1>. QED BY <1>1, <1>3, <1>4, <1>13, <1>14, <1>15, <1>17, OneConnection

\* The beginning of a sequence and what follows it.
LEMMA Beginning ==
    ASSUME NEW w \in Seq(PartsSet), NEW n \in 0..Len(w)
    PROVE  /\ SubSeq(w, 1, n) \in Seq(PartsSet) /\ (w = <<>> => SubSeq(w, 1, n) = <<>>)
           /\ \E rest \in Seq(PartsSet) : SubSeq(w, 1, n) \o rest = w
<1>. DEFINE begin == SubSeq(w, 1, n)
            rest == SubSeq(w, n + 1, Len(w))
<1>1. /\ begin \in Seq(PartsSet) /\ rest \in Seq(PartsSet) /\ begin \o rest = w
      /\ Len(begin) = n
  BY CutInTwo
<1>2. w = <<>> => n = 0
  OBVIOUS
<1>. HIDE DEF begin, rest
<1>3. w = <<>> => begin = <<>>
  BY <1>1, <1>2, EmptySeq
<1>. QED BY <1>1, <1>3 DEF begin, rest

\* A connection is as it was, or it is broken and a part of what was on its
\* way still arrives.
Cut(c) ==
    \/ linked'[c] = linked[c] /\ inbox'[c] = inbox[c] /\ wire'[c] = wire[c]
    \/ /\ linked'[c] = FALSE /\ inbox'[c] = <<>>
       /\ \E n \in 0..Len(wire[c]) : wire'[c] = SubSeq(wire[c], 1, n)

\* Connections break under whatever is under way on them.
LEMMA CutExchange ==
    ASSUME IInv, Exchange, UNCHANGED <<context, task, served>>,
           inbox' = [c \in Conn |-> inbox'[c]], wire' = [c \in Conn |-> wire'[c]],
           \A c \in Conn : Cut(c)
    PROVE  Exchange'
<1>1. \A c \in Conn : inbox[c] \in Seq(Op) /\ wire[c] \in Seq(PartsSet)
  BY DEF Exchange, Wires
<1>2. Wires'
  <2>. SUFFICES ASSUME NEW c \in Conn PROVE inbox'[c] \in Seq(Op) /\ wire'[c] \in Seq(PartsSet)
    BY DEF Wires
  <2>1. Cut(c) /\ inbox[c] \in Seq(Op) /\ wire[c] \in Seq(PartsSet)
    BY <1>1
  <2>2. \A n \in 0..Len(wire[c]) : SubSeq(wire[c], 1, n) \in Seq(PartsSet)
    BY <2>1, Beginning
  <2>3. <<>> \in Seq(Op)
    OBVIOUS
  <2>. QED BY <2>1, <2>2, <2>3 DEF Cut
<1>3. OthersQuiet'
  <2>. SUFFICES ASSUME NEW c \in Conn, Quiet(context[c], inbox[c], wire[c])
                PROVE  Quiet(context[c], inbox'[c], wire'[c])
    BY DEF Exchange, OthersQuiet, InCommand
  <2>1. Cut(c) /\ wire[c] \in Seq(PartsSet)
    BY <1>1
  <2>2. ASSUME NEW n \in 0..Len(wire[c]), wire[c] = <<>> PROVE SubSeq(wire[c], 1, n) = <<>>
    BY <2>1, <2>2, Beginning
  <2>. QED BY <2>1, <2>2 DEF Cut, Quiet
<1>4. CommandBusy'
  <2>. DEFINE c == task.conn
              s == task.stage
              op == Current
              x == context[c]
  <2>. SUFFICES ASSUME InCommand, Busy(s, op, x, linked[c], inbox[c], wire[c], served)
                PROVE  Busy(s, op, x, linked'[c], inbox'[c], wire'[c], served)
    BY DEF Exchange, CommandBusy, InCommand, Current
  <2>1. c \in Conn
    BY DEF InCommand, IInv, TaskTypes, Working
  <2>2. Cut(c) /\ wire[c] \in Seq(PartsSet)
    BY <1>1, <2>1
  <2>3. ASSUME linked'[c] = FALSE, inbox'[c] = <<>>,
               NEW n \in 0..Len(wire[c]), wire'[c] = SubSeq(wire[c], 1, n)
        PROVE  Busy(s, op, x, linked'[c], inbox'[c], wire'[c], served)
    <3>1. (wire[c] = <<>> => wire'[c] = <<>>) /\ wire'[c] \in Seq(PartsSet)
      BY <2>2, <2>3, Beginning
    <3>2. PICK rest \in Seq(PartsSet) : wire'[c] \o rest = wire[c]
      BY <2>2, <2>3, Beginning, ZenonT(30)
    <3>3. ASSUME Sends(s, op, x, linked[c], inbox[c], wire[c])
          PROVE  Sends(s, op, x, linked'[c], inbox'[c], wire'[c])
      BY <2>3, <3>1, <3>3 DEF Sends
    <3>4. ASSUME Receives(s, op, x, inbox[c], wire[c], served)
          PROVE  Receives(s, op, x, inbox'[c], wire'[c], served)
      <4>1. PICK lost \in Seq(PartsSet) : Reading(x.reader, served, <<>>, wire[c] \o lost)
        BY <3>4 DEF Receives
      <4>. DEFINE w == wire'[c]
      <4>. HIDE DEF w
      <4>2. (w \o rest) \o lost = w \o (rest \o lost) /\ rest \o lost \in Seq(PartsSet)
        <5>1. w \in Seq(PartsSet)
          BY <3>1 DEF w
        <5>. QED BY <5>1, Regroup, Zenon
      <4>3. Reading(x.reader, served, <<>>, wire'[c] \o (rest \o lost))
        BY <3>2, <4>1, <4>2 DEF w
      <4>. QED BY <2>3, <3>4, <4>2, <4>3 DEF Receives
    <3>. QED BY <2>3, <3>3, <3>4 DEF Busy
  <2>. QED BY <2>2, <2>3 DEF Cut
<1>5. ReplyServed'
  BY DEF Exchange, ReplyServed
<1>. QED BY <1>2, <1>3, <1>4, <1>5 DEF Exchange

\* One connection breaks.
LEMMA DropCuts ==
    ASSUME IInv, Exchange, NEW d \in Conn, Drop(d)
    PROVE  /\ inbox' = [c \in Conn |-> inbox'[c]] /\ wire' = [c \in Conn |-> wire'[c]]
           /\ \A c \in Conn : Cut(c)
           /\ UNCHANGED <<context, task, served>>
<1>1. /\ linked' = [linked EXCEPT ![d] = FALSE] /\ inbox' = [inbox EXCEPT ![d] = <<>>]
      /\ \E n \in 0..Len(wire[d]) : wire' = [wire EXCEPT ![d] = SubSeq(@, 1, n)]
      /\ UNCHANGED <<context, task, served>>
  BY DEF Drop
<1>2. Wires /\ linked \in [Conn -> BOOLEAN]
  BY DEF Exchange, IInv, ServerTypes
<1>3. inbox' = [c \in Conn |-> inbox'[c]] /\ wire' = [c \in Conn |-> wire'[c]]
  BY <1>1, <1>2 DEF Wires
<1>4. ASSUME NEW c \in Conn PROVE Cut(c)
  <2>1. CASE c = d
    BY <1>1, <1>2, <2>1 DEF Cut, Wires
  <2>2. CASE c # d
    BY <1>1, <1>2, <2>2 DEF Cut, Wires
  <2>. QED BY <2>1, <2>2
<1>. QED BY <1>1, <1>3, <1>4

LEMMA DropExchange == ASSUME IInv, Exchange, NEW d \in Conn, Drop(d) PROVE Exchange'
BY DropCuts, CutExchange

\* The values of a function on a finite set are bounded.
LEMMA ValuesBounded ==
    ASSUME NEW S, IsFiniteSet(S), NEW f \in [S -> Nat]
    PROVE  \E b \in Nat : \A d \in S : f[d] <= b
<1>1. PICK n \in Nat : ExistsSurjection(1..n, S)
  BY FS_NatSurjection
<1>2. PICK M \in [1..n -> S] : \A d \in S : \E i \in 1..n : M[i] = d
  BY <1>1 DEF ExistsSurjection, Surjection
<1>. DEFINE T == {i \in 0..n : \E b \in Nat : \A j \in 1..i : f[M[j]] <= b}
<1>3. 0 \in T
  <2>1. 0 \in Nat /\ 0 \in 0..n /\ \A j \in 1..0 : f[M[j]] <= 0
    OBVIOUS
  <2>. QED BY <2>1
<1>4. ASSUME NEW i \in 0..n - 1, i \in T PROVE i + 1 \in T
  <2>1. PICK b \in Nat : \A j \in 1..i : f[M[j]] <= b
    BY <1>4
  <2>2. i + 1 \in 1..n /\ f[M[i + 1]] \in Nat
    BY <1>2
  <2>3. b + f[M[i + 1]] \in Nat
    BY <2>2
  <2>4. ASSUME NEW j \in 1..i + 1 PROVE f[M[j]] <= b + f[M[i + 1]]
    <3>1. CASE j = i + 1
      BY <2>2, <3>1
    <3>2. CASE j \in 1..i
      <4>1. f[M[j]] <= b /\ f[M[j]] \in Nat
        BY <1>2, <2>1, <3>2
      <4>. QED BY <2>2, <4>1
    <3>. QED BY <3>1, <3>2
  <2>. QED BY <2>2, <2>3, <2>4
<1>5. n \in T
  <2>1. 0 \in Int /\ n \in Int /\ \A i \in 0..n - 1 : i \in T => i + 1 \in T
    BY <1>4
  <2>2. 0..n \subseteq T
    <3>. HIDE DEF T
    <3>. QED BY <1>3, <2>1, BoundedInduction, Zenon
  <2>3. n \in 0..n
    OBVIOUS
  <2>. HIDE DEF T
  <2>. QED BY <2>2, <2>3
<1>6. PICK b \in Nat : \A j \in 1..n : f[M[j]] <= b
  BY <1>5
<1>. QED BY <1>2, <1>6

\* The server stops, and every connection breaks at one moment.
LEMMA StopCuts ==
    ASSUME IInv, Exchange, Stop
    PROVE  /\ inbox' = [c \in Conn |-> inbox'[c]] /\ wire' = [c \in Conn |-> wire'[c]]
           /\ \A c \in Conn : Cut(c)
           /\ UNCHANGED <<context, task, served>>
<1>. DEFINE lens == {Len(wire[c]) : c \in Conn}
<1>1. PICK n \in 0..Max(lens) :
        wire' = [c \in Conn |-> SubSeq(wire[c], 1, Min({n, Len(wire[c])}))]
  BY DEF Stop
<1>2. /\ linked' = [c \in Conn |-> FALSE] /\ inbox' = [c \in Conn |-> <<>>]
      /\ UNCHANGED <<context, task, served>>
  BY DEF Stop
<1>3. \A c \in Conn : Len(wire[c]) \in Nat
  BY DEF Exchange, Wires
<1>4. ASSUME NEW c \in Conn PROVE Cut(c)
  <2>. DEFINE L == Len(wire[c])
  <2>1. Max(lens) \in Nat
    <3>1. lens \subseteq Nat /\ lens # {}
      BY <1>3
    <3>. DEFINE f == [d \in Conn |-> Len(wire[d])]
    <3>2. PICK b \in Nat : \A d \in Conn : f[d] <= b
      <4>1. IsFiniteSet(Conn) /\ f \in [Conn -> Nat]
        BY <1>3, RedisAssumption DEF RedisAssumption
      <4>. HIDE DEF f
      <4>. QED BY <4>1, ValuesBounded, Zenon
    <3>3. lens \in SUBSET (0..b)
      BY <1>3, <3>2
    <3>. HIDE DEF lens, f
    <3>4. Max(lens) \in lens
      BY <3>1, <3>3, LargestIs
    <3>. QED BY <3>1, <3>4
  <2>2. n \in Nat /\ L \in Nat
    BY <1>1, <1>3, <2>1
  <2>3. Min({n, L}) \in 0..L
    <3>1. \E m \in {n, L} : \A k \in {n, L} : m <= k
      BY <2>2
    <3>2. Min({n, L}) \in {n, L} /\ Min({n, L}) <= L
      BY <2>2, <3>1 DEF Min
    <3>. QED BY <2>2, <3>2
  <2>4. wire'[c] = SubSeq(wire[c], 1, Min({n, L}))
    BY <1>1
  <2>. QED BY <1>2, <2>3, <2>4 DEF Cut
<1>5. inbox' = [c \in Conn |-> inbox'[c]] /\ wire' = [c \in Conn |-> wire'[c]]
  BY <1>1, <1>2
<1>. QED BY <1>2, <1>4, <1>5

LEMMA StopExchange == ASSUME IInv, Exchange, Stop PROVE Exchange'
BY StopCuts, CutExchange

\* The pool of a process that starts again is at rest.
LEMMA FreshExchange ==
    /\ Init => Exchange
    /\ Restart => Exchange'
<1>1. <<>> \in Seq(Op) /\ <<>> \in Seq(PartsSet)
  OBVIOUS
<1>2. Idle.stage = "idle"
  BY DEF Idle
<1>3. ASSUME Init PROVE Exchange
  BY <1>1, <1>2, <1>3, QuietValues
     DEF Init, Exchange, Wires, OthersQuiet, CommandBusy, InCommand, ReplyServed
<1>4. ASSUME Restart PROVE Exchange'
  BY <1>1, <1>2, <1>4, QuietValues
     DEF Restart, Exchange, Wires, OthersQuiet, CommandBusy, InCommand, ReplyServed
<1>. QED BY <1>3, <1>4

\* Exchange is inductive on top of IInv.
LEMMA ExchangeInductive == IInv /\ Exchange /\ [Next]_vars => Exchange'
<1>. SUFFICES ASSUME IInv, Exchange, [Next]_vars PROVE Exchange'
  OBVIOUS
<1>1. ASSUME NEW h \in Handlers, Start(h) PROVE Exchange'
  BY <1>1, StartExchange
<1>2. CASE SkipConnect
  BY <1>2, SkipConnectExchange
<1>3. CASE Connect
  BY <1>3, ConnectExchange
<1>4. CASE AppendCommand
  BY <1>4, AppendCommandExchange
<1>5. CASE GetPending
  BY <1>5, GetPendingExchange
<1>6. CASE BufferWrite
  BY <1>6, BufferWriteExchange
<1>7. CASE BufferRead
  BY <1>7, BufferReadExchange
<1>8. CASE Finish
  BY <1>8, FinishExchange
<1>9. ASSUME NEW c \in Conn, Serve(c) PROVE Exchange'
  BY <1>9, ServeExchange
<1>10. ASSUME NEW c \in Conn, Drop(c) PROVE Exchange'
  BY <1>10, DropExchange
<1>11. CASE Stop
  BY <1>11, StopExchange
<1>12. CASE UNCHANGED <<linked, inbox, wire, context, task, served>>
  BY <1>12 DEF Exchange, Wires, OthersQuiet, CommandBusy, InCommand, ReplyServed, Current
<1>13. CASE ServerStart \/ Tick \/ UNCHANGED vars
  BY <1>12, <1>13 DEF ServerStart, Tick, vars, serverVars
<1>14. CASE Restart
  BY <1>14, FreshExchange
<1>. QED BY <1>1, <1>2, <1>3, <1>4, <1>5, <1>6, <1>7, <1>8, <1>9, <1>10, <1>11, <1>13, <1>14
         DEF Next, Loop, Environment

-----------------------------------------------------------------------------
(* The call.                                                               *)

Unserved == task.stage \notin {"read", "reply", "null"} => served = <<>>

\* What the caller sees of each stage.
CallView ==
    /\ task.stage \in {"get", "write", "read"}
         => CallPhase = "called" /\ CallCommand = Current /\ CallResult = <<>>
    /\ task.stage = "reply"
         => CallPhase = "answered" /\ CallCommand = Current /\ CallResult = NodesOf(task.reply)
    /\ task.stage = "null"
         => CallPhase = "failed" /\ CallCommand = Current /\ CallResult = <<>>
    /\ task.stage \in {"idle", "init", "append", "dead"}
         => CallPhase = "idle" /\ CallCommand = "none" /\ CallResult = <<>>
    /\ task.stage # "read" => CallWaiting = FALSE

LEMMA CallStates == IInv /\ Exchange => CallView
<1>. SUFFICES ASSUME IInv, Exchange PROVE CallView
  OBVIOUS
<1>1. task.stage # "read" => CallWaiting = FALSE
  BY CommandWaits DEF CallWaiting
<1>. QED BY <1>1 DEF CallView, CallPhase, CallCommand, CallResult, InCall

LEMMA CallStatesNext == IInv' /\ Exchange' => CallView'
BY CallStates, PTL

\* A step outside of calls.
LEMMA BetweenCalls ==
    ASSUME CallView, CallView',
           task.stage \in {"idle", "init", "append", "dead"},
           task'.stage \in {"idle", "init", "append", "dead"},
           served = <<>>, served' = <<>>
    PROVE  UNCHANGED RemoteCalls!callVars
<1>1. UNCHANGED <<CallPhase, CallCommand, CallWaiting, CallResult>>
  BY DEF CallView
<1>. QED BY <1>1 DEF RemoteCalls!callVars

Refines == [RemoteCalls!CallNext]_(RemoteCalls!callVars) /\ Unserved'

\* The wrapper calls when its command is in the output buffer; a command that
\* cannot be formatted is refused.
LEMMA AppendCommandRefines ==
    ASSUME IInv, Exchange, CallView, CallView', Unserved, AppendCommand
    PROVE  Refines
<1>1. Working /\ task.stage = "append" /\ served' = <<>> /\ served = <<>>
  BY DEF AppendCommand, Working, Unserved
<1>2. Current \in DOMAIN Wrapper
  BY <1>1, AtWork DEF Op
<1>3. task = [stage |-> "append", conn |-> task.conn, todo |-> task.todo,
              login |-> task.login, reply |-> task.reply]
  BY <1>1 DEF IInv, TaskTypes
<1>4. task' = [task EXCEPT !.stage = "get"] \/ task' = [task EXCEPT !.stage = "null"]
  BY DEF AppendCommand, NullReply
<1>5. task'.stage \in {"get", "null"} /\ Current' = Current
  BY <1>3, <1>4 DEF Current
<1>6. RemoteCalls!Call(Current)
  BY <1>1, <1>5 DEF CallView, RemoteCalls!Call
<1>. QED BY <1>1, <1>2, <1>6 DEF Refines, RemoteCalls!CallNext, Unserved

\* What a command does next is seen at its stage: it goes on, fails, or has
\* its answer.
LEMMA CommandRefines ==
    ASSUME IInv, Exchange, CallView, CallView', Unserved, Unserved',
           task.stage \in {"get", "write", "read"}, UNCHANGED served, Current' = Current,
           \/ /\ task'.stage \in {"get", "write", "read"}
              /\ UNCHANGED inbox \/ (task.stage = "write" /\ served = <<>>)
           \/ task'.stage = "null" /\ UNCHANGED inbox
           \/ /\ task'.stage = "reply" /\ UNCHANGED inbox
              /\ served # <<>> /\ served = NodesOf(task'.reply)
    PROVE  Refines
<1>1. UNCHANGED inbox => CallWaiting' = CallWaiting
  BY DEF CallWaiting
<1>2. CallWaiting \in BOOLEAN /\ CallWaiting' \in BOOLEAN
  BY DEF CallWaiting
<1>3. CASE task'.stage \in {"get", "write", "read"} /\ UNCHANGED inbox
  <2>1. UNCHANGED RemoteCalls!callVars
    BY <1>1, <1>3 DEF CallView, RemoteCalls!callVars
  <2>. QED BY <2>1 DEF Refines
<1>4. CASE task'.stage \in {"get", "write", "read"} /\ task.stage = "write" /\ served = <<>>
  <2>1. CallWaiting = FALSE /\ UNCHANGED <<CallPhase, CallCommand, CallResult>>
        /\ CallPhase = "called"
    BY <1>4 DEF CallView
  <2>2. CASE CallWaiting' = FALSE
    <3>1. UNCHANGED RemoteCalls!callVars
      BY <2>1, <2>2 DEF RemoteCalls!callVars
    <3>. QED BY <3>1 DEF Refines
  <2>3. CASE CallWaiting' = TRUE
    <3>1. RemoteCalls!Arrive
      BY <1>4, <2>1, <2>3 DEF RemoteCalls!Arrive
    <3>. QED BY <3>1 DEF Refines, RemoteCalls!CallNext
  <2>. QED BY <1>2, <2>2, <2>3
<1>5. CASE task'.stage = "null" /\ UNCHANGED inbox
  <2>1. CallWaiting' = FALSE /\ CallWaiting = FALSE
    BY <1>1, <1>5 DEF CallView
  <2>2. RemoteCalls!Fail
    BY <1>5, <2>1 DEF CallView, RemoteCalls!Fail
  <2>. QED BY <2>2 DEF Refines, RemoteCalls!CallNext
<1>6. CASE /\ task'.stage = "reply" /\ UNCHANGED inbox
           /\ served # <<>> /\ served = NodesOf(task'.reply)
  <2>1. CallWaiting' = CallWaiting /\ CallPhase = "called" /\ CallPhase' = "answered"
        /\ CallCommand' = CallCommand /\ CallResult' = served
    BY <1>1, <1>6 DEF CallView
  <2>2. RemoteCalls!Return
    BY <1>6, <2>1 DEF RemoteCalls!Return
  <2>. QED BY <2>2 DEF Refines, RemoteCalls!CallNext
<1>. QED BY <1>3, <1>4, <1>5, <1>6

\* The command of the handler stays what it is while it is under way.
LEMMA SameCommand ==
    ASSUME IInv, Working, NEW s, NEW reply, task' = [task EXCEPT !.stage = s, !.reply = reply]
    PROVE  Current' = Current /\ task'.stage = s /\ task'.reply = reply
<1>1. task = [stage |-> task.stage, conn |-> task.conn, todo |-> task.todo,
              login |-> task.login, reply |-> task.reply]
  BY DEF IInv, TaskTypes
<1>2. task' = [stage |-> s, conn |-> task.conn, todo |-> task.todo,
               login |-> task.login, reply |-> reply]
  BY <1>1
<1>. QED BY <1>2 DEF Current

\* The command waits to be written.
LEMMA GetPendingRefines ==
    ASSUME IInv, Exchange, CallView, CallView', Unserved, GetPending
    PROVE  Refines
<1>1. Working /\ task.stage = "get" /\ UNCHANGED <<served, inbox>>
  BY DEF GetPending, Working, serverVars
<1>2. task' = [task EXCEPT !.stage = "write", !.reply = task.reply]
  BY GetPendingIs DEF IInv, TaskTypes
<1>3. Current' = Current /\ task'.stage = "write"
  BY <1>1, <1>2, SameCommand
<1>4. Unserved'
  BY <1>1, <1>3 DEF Unserved
<1>. QED BY <1>1, <1>3, <1>4, CommandRefines

\* The command arrives at the server when its last half is written.
LEMMA BufferWriteRefines ==
    ASSUME IInv, Exchange, CallView, CallView', Unserved, BufferWrite
    PROVE  Refines
<1>1. Working /\ task.stage = "write" /\ UNCHANGED served /\ served = <<>>
  BY DEF BufferWrite, Working, Unserved
<1>2. PICK s \in {"null", "write", "read"} :
        /\ task' = [task EXCEPT !.stage = s, !.reply = task.reply]
        /\ s = "null" => UNCHANGED inbox
  <2>1. task = [stage |-> "write", conn |-> task.conn, todo |-> task.todo,
                login |-> task.login, reply |-> task.reply]
    BY <1>1 DEF IInv, TaskTypes
  <2>2. task = [task EXCEPT !.stage = "write", !.reply = task.reply]
    BY <1>1, AtWork
  <2>3. \A s : [task EXCEPT !.stage = s] = [task EXCEPT !.stage = s, !.reply = task.reply]
    BY <2>1
  <2>4. \/ task' = [task EXCEPT !.stage = "null"] /\ UNCHANGED inbox
        \/ task' = task
        \/ task' = [task EXCEPT !.stage = "read"]
    BY DEF BufferWrite, NullReply
  <2>. QED BY <2>2, <2>3, <2>4
<1>3. Current' = Current /\ task'.stage = s
  BY <1>1, <1>2, SameCommand
<1>4. Unserved'
  BY <1>1 DEF Unserved
<1>. QED BY <1>1, <1>2, <1>3, <1>4, CommandRefines

\* The wrapper gets the answer when the parser has the whole of it.
LEMMA BufferReadRefines ==
    ASSUME IInv, Exchange, Exchange', CallView, CallView', Unserved, BufferRead
    PROVE  Refines
<1>. DEFINE c == task.conn
            x == context[c]
<1>1. Working /\ InCommand /\ task.stage = "read" /\ UNCHANGED <<served, inbox>>
  BY DEF BufferRead, Working, InCommand
<1>2. c \in Conn /\ ContextOK(x) /\ x.state = "good" /\ Current \in Op
  BY <1>1, AtWork DEF StageOK
<1>3. Busy("read", Current, x, linked[c], inbox[c], wire[c], served)
  BY <1>1 DEF Exchange, CommandBusy
<1>4. CASE task' = NullReply
  <2>1. task' = [task EXCEPT !.stage = "null", !.reply = task.reply]
    BY <1>4 DEF NullReply, IInv, TaskTypes
  <2>2. Current' = Current /\ task'.stage = "null"
    BY <1>1, <2>1, SameCommand
  <2>3. Unserved'
    BY <2>2 DEF Unserved
  <2>. QED BY <1>1, <2>2, <2>3, CommandRefines
<1>5. ASSUME wire[c] # <<>>, NEW parts, TakeReply([x EXCEPT !.reader = ReaderFeed(@, parts)])
      PROVE  Refines
  <2>. DEFINE z == [x EXCEPT !.reader = ReaderFeed(@, parts)]
  <2>1. Receives("read", Current, x, inbox[c], wire[c], served)
    BY <1>2, <1>3, <1>5 DEF Busy, Sends
  <2>2. served # <<>>
    BY <1>2, <2>1, AnswerNotEmpty DEF Receives
  <2>3. ContextOK(z) /\ z.out = <<>>
    <3>1. x = [state |-> x.state, out |-> x.out, reader |-> x.reader] /\ x.out = <<>>
      BY <1>2, <2>1 DEF ContextOK, Receives
    <3>2. z = [state |-> x.state, out |-> x.out, reader |-> z.reader]
      BY <3>1
    <3>. HIDE DEF z, x
    <3>3. z.state = "good" /\ z.out = <<>>
      BY <1>2, <3>1, <3>2
    <3>4. <<>> \in Seq(Op)
      OBVIOUS
    <3>. QED BY <1>2, <3>1, <3>2, <3>3, <3>4 DEF ContextOK, State
  <2>. HIDE DEF z
  <2>4. PICK y, s, reply : Outcome(z, y, s, reply)
    BY <1>5, <2>3, TakeReplyStep DEF z, IInv
  <2>5. s \in {"null", "reply", "read"} /\ task' = [task EXCEPT !.stage = s, !.reply = reply]
    BY <2>3, <2>4 DEF Outcome
  <2>6. Current' = Current /\ task'.stage = s
    BY <1>1, <2>5, SameCommand
  <2>7. Unserved'
    BY <2>5, <2>6 DEF Unserved
  <2>8. task'.stage = "reply" => served' = NodesOf(task'.reply)
    BY DEF Exchange, ReplyServed
  <2>. QED BY <1>1, <2>2, <2>5, <2>6, <2>7, <2>8, CommandRefines
<1>. QED BY <1>4, <1>5 DEF BufferRead

\* The wrapper is done with the reply.
LEMMA FinishRefines ==
    ASSUME IInv, CallView, CallView', Finish
    PROVE  Refines
<1>1. Working /\ task.stage \in {"reply", "null"} /\ served' = <<>>
  BY DEF Finish, Working
<1>2. task'.stage \in {"idle", "init", "append", "dead"}
  <2>1. task = [stage |-> task.stage, conn |-> task.conn, todo |-> task.todo,
                login |-> task.login, reply |-> task.reply]
    BY DEF IInv, TaskTypes
  <2>. DEFINE next == [task EXCEPT !.stage = IF task.login = <<>> THEN "init" ELSE "append",
                                   !.login = IF @ = <<>> THEN <<>> ELSE Tail(@),
                                   !.todo = IF task.login = <<>> THEN Tail(@) ELSE @,
                                   !.reply = <<>>]
  <2>2. next.stage \in {"init", "append"}
    BY <2>1
  <2>3. task' = [Idle EXCEPT !.stage = "dead"] \/ task' = next \/ task' = Idle
    BY DEF Finish, Release
  <2>. HIDE DEF next
  <2>. QED BY <2>2, <2>3 DEF Idle
<1>3. RemoteCalls!Forget
  BY <1>1, <1>2 DEF CallView, RemoteCalls!Forget
<1>. QED BY <1>1, <1>3 DEF Refines, RemoteCalls!CallNext, Unserved

\* The server executes the command that is waited for.
LEMMA ServeRefines ==
    ASSUME IInv, Exchange, IInv', Exchange', CallView, CallView', NEW c \in Conn, Serve(c)
    PROVE  Refines
<1>1. Len(inbox[c]) >= 2 /\ UNCHANGED <<context, task>>
      /\ inbox' = [inbox EXCEPT ![c] = SubSeq(@, 3, Len(@))]
  BY DEF Serve
<1>2. /\ task.stage = "read" /\ task.conn = c /\ inbox[c] = <<Current, Current>>
      /\ Current \in Op
  BY <1>1, CommandWaits
<1>3. served' \in Answers[Current]
  BY <1>2 DEF Serve
<1>4. CallWaiting = TRUE
  BY <1>1 DEF CallWaiting
<1>5. CallWaiting' = FALSE
  <2>. SUFFICES ASSUME NEW d \in Conn, Len(inbox'[d]) >= 2 PROVE FALSE
    BY DEF CallWaiting
  <2>1. CASE d = c
    <3>1. SubSeq(<<Current, Current>>, 3, Len(<<Current, Current>>)) = <<>>
      OBVIOUS
    <3>2. inbox'[c] = <<>>
      BY <1>1, <1>2, <3>1 DEF Exchange, Wires
    <3>. QED BY <2>1, <3>2
  <2>2. CASE d # c
    <3>1. Len(inbox[d]) >= 2
      BY <1>1, <2>2 DEF Exchange, Wires
    <3>. QED BY <1>2, <2>2, <3>1, CommandWaits
  <2>. QED BY <2>1, <2>2
<1>6. Current' = Current
  BY <1>1 DEF Current
<1>7. RemoteCalls!Execute
  BY <1>1, <1>2, <1>3, <1>4, <1>5, <1>6 DEF CallView, RemoteCalls!Execute
<1>. QED BY <1>1, <1>2, <1>7 DEF Refines, RemoteCalls!CallNext, Unserved

\* A connection that breaks loses what was waiting.
LEMMA CutRefines ==
    ASSUME IInv, Exchange, CallView, CallView', Unserved,
           UNCHANGED <<task, served>>, \A c \in Conn : Cut(c)
    PROVE  Refines
<1>1. CallWaiting' => CallWaiting
  <2>. SUFFICES ASSUME NEW c \in Conn, Len(inbox'[c]) >= 2 PROVE CallWaiting
    BY DEF CallWaiting
  <2>1. inbox'[c] # <<>>
    OBVIOUS
  <2>2. inbox'[c] = inbox[c]
    BY <2>1 DEF Cut
  <2>. QED BY <2>2 DEF CallWaiting
<1>2. UNCHANGED <<CallPhase, CallCommand, CallResult>>
  BY DEF CallPhase, CallCommand, CallResult, InCall, Current
<1>3. CallWaiting \in BOOLEAN /\ CallWaiting' \in BOOLEAN
  BY DEF CallWaiting
<1>4. RemoteCalls!Lose \/ UNCHANGED RemoteCalls!callVars
  BY <1>1, <1>2, <1>3 DEF RemoteCalls!Lose, RemoteCalls!callVars
<1>5. Unserved'
  BY DEF Unserved
<1>. QED BY <1>4, <1>5 DEF Refines, RemoteCalls!CallNext

\* The handler takes a connection, prepares it, or gives it back: no call.
LEMMA StartRefines ==
    ASSUME IInv, CallView, CallView', Unserved, NEW h \in Handlers, Start(h)
    PROVE  Refines
<1>1. task.stage = "idle" /\ served' = served /\ task'.stage = "init"
  BY DEF Start, Idle
<1>2. served = <<>>
  BY <1>1 DEF Unserved
<1>3. UNCHANGED RemoteCalls!callVars
  BY <1>1, <1>2, BetweenCalls
<1>. QED BY <1>1, <1>2, <1>3 DEF Refines, Unserved

LEMMA InitRefines ==
    ASSUME IInv, CallView, CallView', Unserved, SkipConnect \/ Connect
    PROVE  Refines
<1>1. Working /\ task.stage = "init" /\ served' = served
  BY DEF SkipConnect, Connect, Working
<1>2. task = [stage |-> "init", conn |-> task.conn, todo |-> task.todo,
              login |-> task.login, reply |-> task.reply]
  BY <1>1 DEF IInv, TaskTypes
<1>3. \/ task' = [task EXCEPT !.stage = "append"]
      \/ task' = [task EXCEPT !.stage = "append", !.login = Login]
      \/ task' = Idle
  BY DEF SkipConnect, Connect, Release
<1>4. task'.stage \in {"append", "idle"}
  <2>1. CASE task' = [task EXCEPT !.stage = "append"]
    BY <1>2, <2>1
  <2>2. CASE task' = [task EXCEPT !.stage = "append", !.login = Login]
    BY <1>2, <2>2
  <2>3. CASE task' = Idle
    BY <2>3 DEF Idle
  <2>. QED BY <1>3, <2>1, <2>2, <2>3
<1>5. served = <<>>
  BY <1>1 DEF Unserved
<1>6. UNCHANGED RemoteCalls!callVars
  BY <1>1, <1>4, <1>5, BetweenCalls
<1>. QED BY <1>1, <1>5, <1>6 DEF Refines, Unserved

\* The process starts again after it ended on a reply, when no call was left.
LEMMA RestartRefines ==
    ASSUME CallView, CallView', Unserved, Restart
    PROVE  Refines
<1>1. task.stage = "dead" /\ served' = <<>> /\ task'.stage = "idle"
  BY DEF Restart, Idle
<1>2. served = <<>>
  BY <1>1 DEF Unserved
<1>3. UNCHANGED RemoteCalls!callVars
  BY <1>1, <1>2, BetweenCalls
<1>. QED BY <1>1, <1>3 DEF Refines, Unserved

\* What says nothing of the exchange says nothing of the call.
LEMMA StutterRefines ==
    ASSUME Unserved, UNCHANGED <<inbox, task, served>>
    PROVE  Refines
BY DEF Refines, Unserved, RemoteCalls!callVars, CallPhase, CallCommand, CallWaiting,
       CallResult, InCall, Current

\* Every step is a step of the call or no step of it.
LEMMA StepRefines ==
    IInv /\ Exchange /\ IInv' /\ Exchange' /\ Unserved /\ [Next]_vars => Refines
<1>. SUFFICES ASSUME IInv, Exchange, IInv', Exchange', Unserved, [Next]_vars
              PROVE  Refines
  OBVIOUS
<1>0. CallView /\ CallView'
  BY CallStates, CallStatesNext
<1>1. ASSUME NEW h \in Handlers, Start(h) PROVE Refines
  BY <1>0, <1>1, StartRefines
<1>2. CASE SkipConnect \/ Connect
  BY <1>0, <1>2, InitRefines
<1>3. CASE AppendCommand
  BY <1>0, <1>3, AppendCommandRefines
<1>4. CASE GetPending
  BY <1>0, <1>4, GetPendingRefines
<1>5. CASE BufferWrite
  BY <1>0, <1>5, BufferWriteRefines
<1>6. CASE BufferRead
  BY <1>0, <1>6, BufferReadRefines
<1>7. CASE Finish
  BY <1>0, <1>7, FinishRefines
<1>8. ASSUME NEW c \in Conn, Serve(c) PROVE Refines
  BY <1>0, <1>8, ServeRefines
<1>9. ASSUME NEW c \in Conn, Drop(c) PROVE Refines
  BY <1>0, <1>9, DropCuts, CutRefines
<1>10. CASE Stop
  BY <1>0, <1>10, StopCuts, CutRefines
<1>11. CASE ServerStart \/ Tick \/ UNCHANGED vars
  BY <1>11, StutterRefines DEF ServerStart, Tick, vars, serverVars
<1>12. CASE Restart
  BY <1>0, <1>12, RestartRefines
<1>. QED BY <1>1, <1>2, <1>3, <1>4, <1>5, <1>6, <1>7, <1>8, <1>9, <1>10, <1>11, <1>12
         DEF Next, Loop, Environment

\* No call is under way at first.
LEMMA InitCalls == Init => RemoteCalls!CallInit /\ Unserved
<1>. SUFFICES ASSUME Init PROVE RemoteCalls!CallInit /\ Unserved
  OBVIOUS
<1>1. task.stage = "idle" /\ served = <<>>
  BY DEF Init, Idle
<1>2. IInv /\ Exchange
  BY Initially, FreshExchange
<1>3. CallView
  BY <1>2, CallStates
<1>. QED BY <1>1, <1>3 DEF CallView, RemoteCalls!CallInit, Unserved

-----------------------------------------------------------------------------
(* The theorems.                                                           *)

\* Every reachable state satisfies IInv.
THEOREM Invariant == Spec => []IInv
BY Initially, Inductive, PTL DEF Spec

\* The state is of its type and the queue never holds the connection of the
\* handler on the loop.
THEOREM TypeCorrect == Spec => []TypeOK
<1>1. IInv => TypeOK
  <2>. SUFFICES ASSUME IInv PROVE TypeOK
    OBVIOUS
  <2>1. Working => ~Free(task.conn)
    BY DEF IInv, Queue, Free
  <2>2. \A c \in Conn : context[c].state \in {"none", "good", "error"}
    BY DEF IInv, Contexts, ContextOK, State
  <2>. QED BY <2>1, <2>2 DEF IInv, ServerTypes, TaskTypes, Working, TypeOK
<1>. QED BY Invariant, <1>1, PTL

\* redisCommand returns NULL only with the error of the context set.
THEOREM NullIsError == Spec => []NullMeansError
<1>1. IInv => NullMeansError
  BY DEF IInv, Working, Stage, StageOK, NullMeansError
<1>. QED BY Invariant, <1>1, PTL

\* What the pool holds in error was put there by a wrapper that keeps it.
THEOREM ErrorsKept == Spec => []ErrorOnlyKept
<1>1. IInv => ErrorOnlyKept
  <2>. SUFFICES ASSUME IInv, NEW c \in Conn, Free(c), context[c].state = "error"
                PROVE  last[c] = "keep"
    BY DEF ErrorOnlyKept
  <2>1. PICK i \in 1..Len(free) : free[i] = c
    BY DEF IInv, Queue, Free
  <2>. QED BY <2>1 DEF IInv, History
<1>. QED BY Invariant, <1>1, PTL

\* Every reachable state satisfies Exchange too.
THEOREM ExchangeInvariant == Spec => [](IInv /\ Exchange)
<1>1. Init => IInv /\ Exchange
  BY Initially, FreshExchange
<1>2. IInv /\ Exchange /\ [Next]_vars => (IInv /\ Exchange)'
  BY Inductive, ExchangeInductive
<1>. QED BY <1>1, <1>2, PTL DEF Spec

\* Nothing is left on a connection of the pool that is not in error, however
\* its bytes were cut, whatever the handlers did.
THEOREM CleanInPool == Spec => []CleanBetween
<1>1. IInv /\ Exchange => CleanBetween
  <2>. SUFFICES ASSUME IInv, Exchange, NEW c \in Conn, Free(c), context[c].state = "good"
                PROVE  /\ context[c].out = <<>> /\ wire[c] = <<>> /\ inbox[c] = <<>>
                       /\ context[c].reader = NewReader
    BY DEF CleanBetween, NewReader
  <2>1. ~(InCommand /\ c = task.conn)
    BY DEF IInv, Queue, Free, InCommand, Working
  <2>. QED BY <2>1 DEF Exchange, OthersQuiet, Quiet
<1>. QED BY ExchangeInvariant, <1>1, PTL

\* A wrapper is given the whole of what the server answered to its command,
\* each node in its place, whatever the cuts.
THEOREM AnswersServed == Spec => []AnswerIsServed
<1>1. Exchange => AnswerIsServed
  BY DEF Exchange, ReplyServed, AnswerIsServed
<1>. QED BY ExchangeInvariant, <1>1, PTL

\* What a wrapper sees of the connection is a call that is executed at most
\* once, while it waits for it, and that ends with the answer of that
\* execution or with NULL.
THEOREM RedisRefinesCalls == Spec => CallSpec
<1>1. Init => RemoteCalls!CallInit /\ Unserved
  BY InitCalls
<1>2. IInv /\ Exchange /\ IInv' /\ Exchange' /\ Unserved /\ [Next]_vars
        => [RemoteCalls!CallNext]_(RemoteCalls!callVars) /\ Unserved'
  BY StepRefines DEF Refines
<1>. QED BY <1>1, <1>2, ExchangeInvariant, PTL DEF Spec, CallSpec, RemoteCalls!CallSpec

-----------------------------------------------------------------------------
(* Replies one after the other.                                            *)

\* The wire of a sequence of nodes is that of the first before that of the
\* others.
LEMMA WireFirst ==
    ASSUME NEW node \in Nodes, NEW s \in Seq(Nodes)
    PROVE  /\ Parts(node) \in Seq(PartsSet) /\ WireOf(s) \in Seq(PartsSet)
           /\ WireOf(<<node>> \o s) = Parts(node) \o WireOf(s)
           /\ WireOf(<<>>) = <<>>
<1>. DEFINE a == <<node>> \o s
            L == Len(a)
            b == SubSeq(a, 2, L)
<1>1. /\ a \in Seq(Nodes) /\ L = Len(s) + 1 /\ Len(s) \in Nat /\ a[1] = node
      /\ \A i \in 1..Len(s) : a[i + 1] = s[i]
  <2>. DEFINE e == <<node>>
              c == e \o s
  <2>1. e \in Seq(Nodes) /\ Len(e) = 1 /\ e[1] = node /\ Len(s) \in Nat
    BY LenProperties
  <2>. HIDE DEF e
  <2>2. /\ c \in Seq(Nodes) /\ Len(c) = Len(e) + Len(s)
        /\ \A i \in 1..Len(e) + Len(s) : c[i] = IF i <= Len(e) THEN e[i] ELSE s[i - Len(e)]
    BY <2>1, ConcatProperties, Zenon
  <2>. HIDE DEF c
  <2>3. c[1] = node /\ Len(c) = Len(s) + 1
    BY <2>1, <2>2
  <2>4. ASSUME NEW i \in 1..Len(s) PROVE c[i + 1] = s[i]
    <3>1. i + 1 \in 1..Len(e) + Len(s) /\ ~(i + 1 <= Len(e)) /\ (i + 1) - Len(e) = i
      BY <2>1
    <3>. QED BY <2>2, <3>1
  <2>. QED BY <2>1, <2>2, <2>3, <2>4 DEF c, e
<1>. HIDE DEF a
<1>2. b = s
  <2>1. 2 \in Int /\ L \in Int /\ \A i \in 2..L : a[i] \in Nodes
    <3>1. \A i \in 2..L : i \in 1..L
      OBVIOUS
    <3>. QED BY <1>1, <3>1, ElementOfSeq
  <2>2. /\ b \in Seq(Nodes) /\ Len(b) = (IF 2 <= L THEN L - 2 + 1 ELSE 0)
        /\ \A i \in 1..L - 2 + 1 : b[i] = a[2 + i - 1]
    BY <2>1, SubSeqProperties
  <2>. HIDE DEF b, L
  <2>3. Len(b) = Len(s) /\ \A i \in 1..Len(s) : b[i] = a[i + 1]
    BY <1>1, <2>2
  <2>. QED BY <1>1, <2>2, <2>3, SeqEqual
<1>3. /\ \A k \in 0..L : WireOf(SubSeq(a, k + 1, L)) \in Seq(PartsSet)
      /\ WireOf(SubSeq(a, L + 1, L)) = <<>>
      /\ \A k \in 0..L - 1 :
           WireOf(SubSeq(a, k + 1, L)) = Parts(a[k + 1]) \o WireOf(SubSeq(a, k + 2, L))
  BY <1>1, WireSteps
<1>4. SubSeq(a, 1, L) = a
  BY <1>1, LenProperties
<1>5. 0 \in 0..L - 1 /\ 0 + 1 = 1 /\ 0 + 2 = 2 /\ 1 \in 0..L /\ 1 + 1 = 2
  BY <1>1
<1>. DEFINE W(x) == WireOf(SubSeq(a, x, L))
<1>6. W(0 + 1) = Parts(a[0 + 1]) \o W(0 + 2) /\ W(1 + 1) \in Seq(PartsSet)
  BY <1>3, <1>5
<1>. HIDE DEF W
<1>7. W(1) = Parts(a[1]) \o W(2) /\ W(2) \in Seq(PartsSet)
  BY <1>5, <1>6
<1>8. WireOf(<<>>) = <<>>
  <2>1. WireOf(SubSeq(s, Len(s) + 1, Len(s))) = <<>>
    BY WireSteps
  <2>2. SubSeq(s, Len(s) + 1, Len(s)) = <<>>
    BY <1>1
  <2>. QED BY <2>1, <2>2
<1>9. Parts(node) \in Seq(PartsSet)
  BY PartsAre
<1>10. W(1) = WireOf(a) /\ W(2) = WireOf(s)
  BY <1>2, <1>4 DEF W
<1>. QED BY <1>1, <1>7, <1>8, <1>9, <1>10 DEF a

\* The wire of two sequences of nodes is that of one after that of the other.
LEMMA WireConcat ==
    ASSUME NEW s \in Seq(Nodes)
    PROVE  \A a \in Seq(Nodes) : WireOf(a \o s) = WireOf(a) \o WireOf(s)
<1>. DEFINE T == {n \in Nat : \A a \in Seq(Nodes) :
                               Len(a) = n => WireOf(a \o s) = WireOf(a) \o WireOf(s)}
<1>0. <<>> \in Seq(Nodes) /\ WireOf(s) \in Seq(PartsSet) /\ WireOf(<<>>) = <<>>
  <2>1. Node("integer", 0) \in Nodes
    BY DEF Node, Nodes, NodeTypes, LineTypes
  <2>2. <<>> \in Seq(Nodes)
    OBVIOUS
  <2>3. WireOf(s) \in Seq(PartsSet)
    BY <2>1, WireFirst
  <2>4. WireOf(<<>>) = <<>>
    BY <2>1, WireFirst
  <2>. QED BY <2>2, <2>3, <2>4
<1>1. 0 \in T
  <2>1. ASSUME NEW a \in Seq(Nodes), Len(a) = 0 PROVE WireOf(a \o s) = WireOf(a) \o WireOf(s)
    <3>1. a = <<>>
      BY <2>1, EmptySeq
    <3>2. <<>> \o s = s
      BY ConcatEmptySeq
    <3>. DEFINE w == WireOf(s)
    <3>3. w \in Seq(PartsSet)
      BY <1>0
    <3>. HIDE DEF w
    <3>4. <<>> \o w = w
      BY <3>3, ConcatEmptySeq
    <3>. QED BY <1>0, <3>1, <3>2, <3>4 DEF w
  <2>. QED BY <2>1
<1>2. ASSUME NEW n \in Nat, n \in T PROVE n + 1 \in T
  <2>1. ASSUME NEW a \in Seq(Nodes), Len(a) = n + 1
        PROVE  WireOf(a \o s) = WireOf(a) \o WireOf(s)
    <3>. DEFINE h == Head(a)
                t == Tail(a)
                p == Parts(h)
                v == WireOf(t)
                w == WireOf(s)
    <3>1. a # <<>> /\ Len(a) \in Nat
      BY <2>1
    <3>2. h \in Nodes /\ t \in Seq(Nodes) /\ Len(t) = n /\ a = <<h>> \o t
      <4>1. h \in Nodes /\ t \in Seq(Nodes) /\ Len(t) = n
        BY <2>1, <3>1, HeadTailProperties
      <4>2. a = <<h>> \o t
        BY <3>1
      <4>. QED BY <4>1, <4>2
    <3>. HIDE DEF h, t
    <3>3. WireOf(t \o s) = v \o w
      BY <1>2, <3>2
    <3>4. t \o s \in Seq(Nodes) /\ <<h>> \in Seq(Nodes)
      BY <3>2, ConcatProperties
    <3>5. a \o s = <<h>> \o (t \o s)
      BY <3>2, <3>4, ConcatAssociative
    <3>6. WireOf(<<h>> \o (t \o s)) = p \o (v \o w)
      BY <3>2, <3>3, <3>4, WireFirst
    <3>7. WireOf(a) = p \o v /\ p \in Seq(PartsSet) /\ v \in Seq(PartsSet)
      BY <3>2, WireFirst
    <3>8. w \in Seq(PartsSet)
      BY <1>0
    <3>. HIDE DEF p, v, w
    <3>9. (p \o v) \o w = p \o (v \o w)
      BY <3>7, <3>8, ConcatAssociative
    <3>. QED BY <3>5, <3>6, <3>7, <3>9 DEF w
  <2>. QED BY <2>1
<1>3. Nat \subseteq T
  <2>. HIDE DEF T
  <2>. QED BY <1>1, <1>2, SetInduction
<1>. QED BY <1>3, LenProperties

\* What the server sends after the first k replies.
Stream(replies, k) == WireOf(FlattenSeq(SubSeq(replies, k + 1, Len(replies))))

\* Reply by reply.
LEMMA StreamSteps ==
    ASSUME NEW replies \in Seq(Seq(Nodes))
    PROVE  /\ \A k \in 0..Len(replies) : Stream(replies, k) \in Seq(PartsSet)
           /\ Stream(replies, 0) = WireOf(FlattenSeq(replies))
           /\ Stream(replies, Len(replies)) = <<>>
           /\ \A k \in 0..Len(replies) - 1 :
                Stream(replies, k) = WireOf(replies[k + 1]) \o Stream(replies, k + 1)
<1>. DEFINE L == Len(replies)
            Others(k) == SubSeq(replies, k + 1, L)
<1>1. L \in Nat /\ SubSeq(replies, 1, L) = replies
      /\ \A k \in 1..L : replies[k] \in Seq(Nodes)
  BY LenProperties, ElementOfSeq
<1>2. ASSUME NEW k \in 0..L PROVE Others(k) \in Seq(Seq(Nodes))
  BY <1>1, CutInTwo
<1>3. \A q \in Seq(Seq(Nodes)) :
        FlattenSeq(q) \in Seq(Nodes) /\ (q = <<>> => FlattenSeq(q) = <<>>)
  BY FlattenLast
<1>4. \A q \in Seq(Nodes) : WireOf(q) \in Seq(PartsSet)
  <2>1. Node("integer", 0) \in Nodes
    BY DEF Node, Nodes, NodeTypes, LineTypes
  <2>. QED BY <2>1, WireFirst
<1>5. WireOf(<<>>) = <<>>
  <2>1. Node("integer", 0) \in Nodes /\ <<>> \in Seq(Nodes)
    BY DEF Node, Nodes, NodeTypes, LineTypes
  <2>. QED BY <2>1, WireFirst
<1>6. Others(L) = <<>>
  BY <1>1
<1>7. \A k : Stream(replies, k) = WireOf(FlattenSeq(Others(k)))
  BY DEF Stream
<1>8. Others(0) = replies
  BY <1>1
<1>9. ASSUME NEW k \in 0..L - 1
      PROVE  Stream(replies, k) = WireOf(replies[k + 1]) \o Stream(replies, k + 1)
  <2>. DEFINE e == replies[k + 1]
              q == Others(k + 1)
  <2>1. k + 1 \in 1..L /\ k + 1 \in 0..L /\ (k + 1) + 1 = k + 2
    BY <1>1
  <2>2. e \in Seq(Nodes) /\ q \in Seq(Seq(Nodes))
    BY <1>1, <1>2, <2>1
  <2>3. Others(k) = <<e>> \o q
    <3>1. SubSeq(replies, k + 1, L) = <<replies[k + 1]>> \o SubSeq(replies, k + 2, L)
      BY NextOfRest
    <3>. QED BY <2>1, <3>1
  <2>. HIDE DEF e, q
  <2>4. FlattenSeq(<<e>> \o q) = e \o FlattenSeq(q)
    BY <2>2, FlattenFirst
  <2>5. FlattenSeq(q) \in Seq(Nodes)
    BY <1>3, <2>2
  <2>6. WireOf(e \o FlattenSeq(q)) = WireOf(e) \o WireOf(FlattenSeq(q))
    BY <2>2, <2>5, WireConcat
  <2>7. WireOf(FlattenSeq(q)) = Stream(replies, k + 1)
    BY <1>7 DEF q
  <2>8. WireOf(FlattenSeq(Others(k))) = WireOf(e) \o Stream(replies, k + 1)
    BY <2>3, <2>4, <2>6, <2>7
  <2>. QED BY <1>7, <2>8 DEF e
<1>10. ASSUME NEW k \in 0..L PROVE Stream(replies, k) \in Seq(PartsSet)
  <2>1. FlattenSeq(Others(k)) \in Seq(Nodes)
    BY <1>2, <1>3
  <2>. QED BY <1>4, <1>7, <2>1
<1>11. Stream(replies, 0) = WireOf(FlattenSeq(replies))
  BY <1>7, <1>8
<1>12. Stream(replies, L) = <<>>
  <2>1. FlattenSeq(Others(L)) = <<>>
    <3>1. <<>> \in Seq(Seq(Nodes))
      OBVIOUS
    <3>2. FlattenSeq(<<>>) = <<>>
      BY <1>3, <3>1
    <3>. QED BY <1>6, <3>2
  <2>2. Stream(replies, L) = WireOf(FlattenSeq(Others(L)))
    BY <1>7
  <2>. QED BY <1>5, <2>1, <2>2
<1>. QED BY <1>9, <1>10, <1>11, <1>12

\* While something of a reply has not been handed out, a part of it has not
\* been read.
LEMMA PartsRemain ==
    ASSUME NEW nodes \in Seq(Nodes), IsReply(nodes), NEW later, NEW more, NEW r,
           Reading(r, nodes, later, more), ~HasReply(r), r.buf = <<>>
    PROVE  more # <<>>
<1>. SUFFICES ASSUME more = <<>> PROVE FALSE
  OBVIOUS
<1>. DEFINE L == Len(nodes)
            t == r.stack
            u == r.obj
<1>1. PICK m \in 0..L, typed \in {0, 1} : ReadUpTo(<<>>, t, u, nodes, later, <<>>, m, typed)
  BY DEF Reading
<1>2. later \in Seq(PartsSet) /\ L \in Nat /\ m \in 0..L /\ typed \in {0, 1}
  BY <1>1, LenProperties DEF ReadUpTo
<1>3. \A x \in Seq(Levels) : x # <<>> => ~Awaits(x, 0)
  BY AwaitsSome
<1>4. ASSUME m < L PROVE Len(Unsent(nodes, m, later)) \in Nat /\ Len(Unsent(nodes, m, later)) > 1
  <2>. DEFINE p == Parts(nodes[m + 1])
              v == Unsent(nodes, m + 1, later)
  <2>1. m \in 0..L - 1 /\ m + 1 \in 0..L /\ m + 1 \in 1..L
    BY <1>2, <1>4
  <2>2. nodes[m + 1] \in Nodes
    BY <2>1, ElementOfSeq
  <2>3. p \in Seq(PartsSet) /\ Len(p) >= 2 /\ Len(p) \in Nat
    <3>1. p \in Seq(PartsSet)
      BY <2>2, PartsAre
    <3>2. Len(p) = 2 \/ Len(p) = 3
      BY <2>2, PartsAre
    <3>. HIDE DEF p
    <3>. DEFINE n == Len(p)
    <3>3. n = 2 \/ n = 3
      BY <3>2
    <3>. HIDE DEF n
    <3>4. n >= 2 /\ n \in Nat
      BY <3>3
    <3>. QED BY <3>1, <3>4 DEF n
  <2>4. v \in Seq(PartsSet) /\ Unsent(nodes, m, later) = p \o v
    BY <1>2, <2>1, UnsentSteps
  <2>. HIDE DEF p, v
  <2>5. Len(p \o v) = Len(p) + Len(v) /\ Len(v) \in Nat
    BY <2>3, <2>4, ConcatProperties, LenProperties
  <2>. QED BY <2>3, <2>4, <2>5
<1>5. CASE typed = 1
  <2>. DEFINE w == Unsent(nodes, m, later)
  <2>1. m < L /\ <<>> \o <<>> = Tail(w)
    BY <1>1, <1>5 DEF ReadUpTo
  <2>2. w \in Seq(PartsSet)
    BY <1>2, UnsentSteps
  <2>3. Len(w) \in Nat /\ Len(w) > 1
    BY <1>4, <2>1
  <2>. HIDE DEF w
  <2>. DEFINE x == Tail(w)
              n == Len(x)
              k == Len(w)
  <2>4. w # <<>> /\ x = <<>>
    BY <2>1, <2>3
  <2>5. n = k - 1 /\ k \in Nat /\ k > 1
    BY <2>2, <2>3, <2>4, HeadTailProperties
  <2>. HIDE DEF x
  <2>6. n = 0
    BY <2>4
  <2>. HIDE DEF n, k
  <2>. QED BY <2>5, <2>6
<1>6. CASE typed = 0
  <2>. DEFINE w == Unsent(nodes, m, later)
  <2>1. <<>> \o <<>> = w
    BY <1>1, <1>6 DEF ReadUpTo
  <2>2. Len(w) = 0
    <3>. HIDE DEF w
    <3>. QED BY <2>1
  <2>. HIDE DEF w
  <2>3. m = L
    <3>1. ~(m < L)
      BY <1>4, <2>2 DEF w
    <3>. QED BY <1>2, <3>1
  <2>4. Owed(nodes)[L] = 0 /\ Owed(nodes)[0] = 1
    BY OwedSteps DEF IsReply
  <2>5. CASE t # <<>>
    <3>1. Grown(u, t, 0) /\ Awaits(t, Owed(nodes)[m])
      BY <1>1, <2>5 DEF ReadUpTo
    <3>2. t \in Seq(Levels)
      BY <3>1 DEF Grown
    <3>. HIDE DEF t
    <3>. QED BY <1>3, <2>3, <2>4, <2>5, <3>1, <3>2
  <2>6. CASE t = <<>>
    <3>1. IF m = 0 THEN u = <<>> ELSE IsTree(u)
      BY <1>1, <2>6 DEF ReadUpTo
    <3>2. m # 0
      BY <2>3, <2>4
    <3>3. Len(u) > 0
      BY <3>1, <3>2 DEF IsTree
    <3>4. u # <<>>
      BY <3>3
    <3>. QED BY <2>6, <3>4 DEF HasReply
  <2>. QED BY <2>5, <2>6
<1>. QED BY <1>5, <1>6

\* The replies handed out are the first of those the server sends.
Restored(replies, input) ==
    /\ replies \in Seq(Seq(Objects)) /\ Len(replies) <= Len(input)
    /\ \A i \in 1..Len(replies) : NodesOf(replies[i]) = input[i] /\ IsTree(replies[i])

\* The parser has refused one of them, or it is in the next one, or everything
\* was read.
Continues(r, replies, input, rest) ==
    \/ Refused(r) /\ \E i \in DOMAIN input : TooDeep(input[i])
    \/ /\ ~HasReply(r)
       /\ LET k == Len(replies)
          IN  IF k < Len(input) THEN Reading(r, input[k + 1], Stream(input, k + 1), rest)
              ELSE r = NewReader /\ rest = <<>>

\* After k replies the parser holds the beginning of what comes next.
LEMMA NextBegins ==
    ASSUME NEW input \in Seq(Replies), NEW replies, Len(replies) \in 0..Len(input),
           NEW b \in Seq(PartsSet), NEW rest \in Seq(PartsSet),
           b \o rest = Stream(input, Len(replies))
    PROVE  Continues(Holding(b, <<>>, <<>>), replies, input, rest)
<1>. DEFINE k == Len(replies)
            L == Len(input)
            r == Holding(b, <<>>, <<>>)
<1>1. L \in Nat /\ k \in 0..L /\ input \in Seq(Seq(Nodes))
  <2>1. Replies \subseteq Seq(Nodes)
    BY DEF Replies
  <2>2. input \in Seq(Seq(Nodes))
    BY <2>1, SeqMonotonic
  <2>. QED BY <2>2, LenProperties
<1>2. ~HasReply(r)
  BY DEF HasReply, Holding
<1>3. CASE k < L
  <2>1. k \in 0..L - 1 /\ k + 1 \in 0..L /\ k + 1 \in 1..L
    BY <1>1, <1>3
  <2>2. input[k + 1] \in Seq(Nodes)
    BY <1>1, <2>1, ElementOfSeq
  <2>3. Stream(input, k + 1) \in Seq(PartsSet)
        /\ Stream(input, k) = WireOf(input[k + 1]) \o Stream(input, k + 1)
    BY <1>1, <2>1, StreamSteps
  <2>4. Reading(r, input[k + 1], Stream(input, k + 1), rest)
    BY <2>2, <2>3, ReplyBegins
  <2>. QED BY <1>2, <1>3, <2>4 DEF Continues
<1>4. CASE ~(k < L)
  <2>1. k = L
    BY <1>1, <1>4
  <2>2. b \o rest = <<>>
    <3>1. Stream(input, L) = <<>>
      BY <1>1, StreamSteps
    <3>2. Stream(input, k) = Stream(input, L)
      BY <2>1
    <3>. QED BY <3>1, <3>2
  <2>3. b = <<>> /\ rest = <<>>
    BY <2>2, BothEmpty
  <2>4. r = NewReader
    BY <2>3 DEF Holding, NewReader
  <2>. QED BY <1>2, <1>4, <2>3, <2>4 DEF Continues
<1>. QED BY <1>3, <1>4

\* One more reply is handed out.
LEMMA OneMore ==
    ASSUME NEW replies, NEW input, Restored(replies, input), Len(input) \in Nat,
           Len(replies) < Len(input), NEW obj \in Seq(Objects),
           NodesOf(obj) = input[Len(replies) + 1], IsTree(obj)
    PROVE  /\ Restored(Append(replies, obj), input)
           /\ Len(Append(replies, obj)) = Len(replies) + 1
<1>. DEFINE new == Append(replies, obj)
            k == Len(replies)
            S == Seq(Objects)
<1>1. replies \in Seq(S) /\ k \in Nat /\ obj \in S
  BY LenProperties DEF Restored
<1>. HIDE DEF S
<1>2. /\ new \in Seq(S) /\ Len(new) = k + 1
      /\ \A i \in 1..k : new[i] = replies[i]
      /\ new[k + 1] = obj
  BY <1>1, AppendProperties
<1>. HIDE DEF new, k
<1>3. ASSUME NEW i \in 1..k + 1 PROVE NodesOf(new[i]) = input[i] /\ IsTree(new[i])
  <2>1. CASE i = k + 1
    BY <1>2, <2>1 DEF k
  <2>2. CASE i # k + 1
    <3>1. i \in 1..k
      BY <1>1, <2>2
    <3>2. NodesOf(replies[i]) = input[i] /\ IsTree(replies[i])
      BY <3>1 DEF Restored, k
    <3>. QED BY <1>2, <3>1, <3>2
  <2>. QED BY <2>1, <2>2
<1>4. k + 1 <= Len(input)
  BY <1>1 DEF k
<1>5. Restored(new, input)
  BY <1>2, <1>3, <1>4 DEF Restored, S
<1>. QED BY <1>2, <1>5 DEF new, k

\* A parser that has refused a reply stays as it is.
LEMMA RefusedStays ==
    ASSUME NEW r, Refused(r), NEW parts
    PROVE  ReaderRun(ReaderFeed(r, parts)) = r /\ ~HasReply(r)
BY DEF Refused, ReaderFeed, ReaderRun, HasReply

\* When everything was read nothing more arrives.
LEMMA NothingToRead == ReaderRun(ReaderFeed(NewReader, <<>>)) = NewReader /\ ~HasReply(NewReader)
<1>1. /\ NewReader.err = FALSE /\ NewReader.buf = <<>> /\ NewReader.obj = <<>>
      /\ NewReader = [err |-> FALSE, buf |-> <<>>, stack |-> <<>>, obj |-> <<>>]
  BY DEF NewReader
<1>2. ASSUME NEW x, x = [NewReader EXCEPT !.buf = <<>> \o <<>>] PROVE x = NewReader
  <2>1. <<>> \o <<>> = <<>>
    OBVIOUS
  <2>. QED BY <1>1, <1>2, <2>1
<1>3. ReaderFeed(NewReader, <<>>) = NewReader
  BY <1>1, <1>2 DEF ReaderFeed
<1>4. ReaderRun(NewReader) = NewReader
  BY <1>1 DEF ReaderRun
<1>. QED BY <1>1, <1>3, <1>4 DEF HasReply

\* A read takes a reply, or goes on with it.
LEMMA ReplyStep ==
    ASSUME NEW input \in Seq(Replies), NEW replies, Restored(replies, input),
           NEW parts \in Seq(PartsSet), NEW rest \in Seq(PartsSet),
           NEW r, Continues(r, replies, input, parts \o rest),
           NEW q, q = ReaderRun(ReaderFeed(r, parts))
    PROVE  IF HasReply(q)
           THEN /\ Restored(Append(replies, q.obj), input)
                /\ Continues(ReplyTaken(q), Append(replies, q.obj), input, rest)
           ELSE Continues(q, replies, input, rest)
<1>. DEFINE k == Len(replies)
            L == Len(input)
            all == parts \o rest
<1>1. L \in Nat /\ k \in 0..L /\ \A i \in 1..L : input[i] \in Replies
  <2>1. k \in Nat /\ k <= L
    BY LenProperties DEF Restored
  <2>. QED BY <2>1, LenProperties, ElementOfSeq
<1>2. CASE Refused(r) /\ \E i \in DOMAIN input : TooDeep(input[i])
  <2>1. q = r /\ ~HasReply(q)
    BY <1>2, RefusedStays
  <2>. QED BY <1>2, <2>1 DEF Continues
<1>3. CASE k < L /\ ~HasReply(r) /\ Reading(r, input[k + 1], Stream(input, k + 1), all)
  <2>. DEFINE nodes == input[k + 1]
              later == Stream(input, k + 1)
              fed == ReaderFeed(r, parts)
  <2>1. k + 1 \in 1..L
    BY <1>1, <1>3
  <2>2. nodes \in Seq(Nodes) /\ IsReply(nodes) /\ nodes \in Replies
    BY <1>1, <2>1 DEF Replies
  <2>. HIDE DEF nodes, later
  <2>3. Reading(fed, nodes, later, rest)
    BY <1>3, FeedReads DEF nodes, later
  <2>4. ~HasReply(fed)
    <3>1. r.err = FALSE /\ ~(r.stack = <<>> /\ r.obj # <<>>)
      BY <1>3 DEF Reading, Sound, HasReply
    <3>2. r = [err |-> FALSE, buf |-> r.buf, stack |-> r.stack, obj |-> r.obj]
      BY <1>3 DEF Reading, Sound
    <3>3. fed.stack = r.stack /\ fed.obj = r.obj
      BY <3>1, <3>2 DEF ReaderFeed
    <3>. QED BY <3>1, <3>3 DEF HasReply
  <2>. HIDE DEF fed
  <2>5. ReadsOrRefuses(q, nodes, later, rest)
    <3>1. q = ReaderRun(fed)
      BY DEF fed
    <3>. QED BY <2>2, <2>3, <2>4, <3>1, RunReads
  <2>6. CASE Refused(q) /\ TooDeep(nodes)
    <3>1. ~HasReply(q)
      BY <2>6 DEF Refused, HasReply
    <3>2. DOMAIN input = 1..L
      BY LenProperties
    <3>3. \E i \in DOMAIN input : TooDeep(input[i])
      BY <2>1, <2>6, <3>2 DEF nodes
    <3>. QED BY <2>6, <3>1, <3>3 DEF Continues
  <2>7. CASE Reading(q, nodes, later, rest) /\ ~HasReply(q)
    BY <1>3, <2>7 DEF Continues, nodes, later
  <2>8. CASE Reading(q, nodes, later, rest) /\ HasReply(q)
    <3>. DEFINE b == q.buf
                new == Append(replies, q.obj)
    <3>1. /\ NodesOf(q.obj) = nodes /\ IsTree(q.obj)
          /\ b \in Seq(PartsSet) /\ b \o rest = later
          /\ ReplyTaken(q) = Holding(b, <<>>, <<>>)
      BY <2>2, <2>8, ReplyIsWhole
    <3>2. q.obj \in Seq(Objects)
      BY <2>8 DEF Reading, ReadUpTo
    <3>3. Restored(new, input) /\ Len(new) = k + 1
      BY <1>1, <1>3, <3>1, <3>2, OneMore DEF nodes
    <3>. HIDE DEF b, new
    <3>4. Len(new) \in 0..L
      BY <1>1, <1>3, <3>3
    <3>5. b \o rest = Stream(input, Len(new))
      <4>1. later = Stream(input, Len(new))
        BY <3>3, Zenon DEF later
      <4>. QED BY <3>1, <4>1
    <3>6. Continues(Holding(b, <<>>, <<>>), new, input, rest)
      BY <3>1, <3>4, <3>5, NextBegins
    <3>7. Continues(ReplyTaken(q), new, input, rest)
      BY <3>1, <3>6, Zenon
    <3>. QED BY <2>8, <3>3, <3>7 DEF new
  <2>. QED BY <2>5, <2>6, <2>7, <2>8 DEF ReadsOrRefuses
<1>4. CASE ~(k < L) /\ r = NewReader /\ all = <<>>
  <2>1. parts = <<>> /\ rest = <<>>
    BY <1>4, BothEmpty
  <2>2. q = NewReader /\ ~HasReply(q)
    BY <1>4, <2>1, NothingToRead
  <2>. QED BY <1>4, <2>1, <2>2 DEF Continues
<1>. QED BY <1>2, <1>3, <1>4 DEF Continues

-----------------------------------------------------------------------------
(* The job that reads replies, whatever the pieces.                        *)

ReplyProgress ==
    /\ job \in Jobs
    /\ job.fn = "redisReader" =>
         /\ left \in Seq(PartsSet) /\ out = [reader |-> out.reader, replies |-> out.replies]
         /\ Restored(out.replies, job.input)
         /\ Continues(out.reader, out.replies, job.input, left)

LEMMA InputReplies ==
    ASSUME job \in Jobs, job.fn = "redisReader"
    PROVE  job.input \in Seq(Replies) /\ job.input \in Seq(Seq(Nodes))
<1>1. job.input \in Inputs("redisReader")
  BY DEF Inputs
<1>2. job.input \in Seq(Replies)
  BY <1>1, InputsAssumption DEF Replies, Nodes
<1>3. Replies \subseteq Seq(Nodes)
  BY DEF Replies
<1>. QED BY <1>2, <1>3, SeqMonotonic

LEMMA ReadingBegins == CodecsInit => ReplyProgress
<1>. SUFFICES ASSUME CodecsInit, job.fn = "redisReader"
              PROVE  /\ left \in Seq(PartsSet)
                     /\ out = [reader |-> out.reader, replies |-> out.replies]
                     /\ Restored(out.replies, job.input)
                     /\ Continues(out.reader, out.replies, job.input, left)
  BY DEF ReplyProgress, CodecsInit
<1>1. /\ job \in Jobs
      /\ left = WireOf(FlattenSeq(job.input))
      /\ out = [reader |-> NewReader, replies |-> <<>>]
  BY DEF CodecsInit, AtOnce
<1>. DEFINE input == job.input
            none == <<>>
<1>2. input \in Seq(Replies) /\ input \in Seq(Seq(Nodes)) /\ Len(input) \in Nat
  BY <1>1, InputReplies, LenProperties
<1>. HIDE DEF input
<1>3. left = Stream(input, 0) /\ Stream(input, 0) \in Seq(PartsSet)
  <2>1. Stream(input, 0) = WireOf(FlattenSeq(input)) /\ 0 \in 0..Len(input)
    BY <1>2, StreamSteps
  <2>2. Stream(input, 0) \in Seq(PartsSet)
    BY <1>2, <2>1, StreamSteps
  <2>. QED BY <1>1, <2>1, <2>2 DEF input
<1>4. none \in Seq(PartsSet) /\ none \o left = left /\ Len(none) = 0
  BY <1>3, ConcatEmptySeq
<1>5. Restored(none, input)
  BY <1>2 DEF Restored
<1>6. Continues(Holding(none, none, none), none, input, left)
  <2>1. none \o left = Stream(input, Len(none))
    BY <1>3, <1>4, Zenon
  <2>2. Len(none) \in 0..Len(input) /\ left \in Seq(PartsSet)
    BY <1>2, <1>3, <1>4
  <2>. HIDE DEF none
  <2>3. Continues(Holding(none, <<>>, <<>>), none, input, left)
    BY <1>2, <1>4, <2>1, <2>2, NextBegins
  <2>. QED BY <2>3 DEF none
<1>7. Holding(none, none, none) = NewReader
  BY DEF Holding, NewReader
<1>8. out.reader = NewReader /\ out.replies = none
  BY <1>1
<1>9. out = [reader |-> out.reader, replies |-> out.replies]
  BY <1>1
<1>. QED BY <1>3, <1>5, <1>6, <1>7, <1>8, <1>9 DEF input

LEMMA ReadingGoesOn == ReplyProgress /\ [CodecsNext]_codecsVars => ReplyProgress'
<1>. SUFFICES ASSUME ReplyProgress, [CodecsNext]_codecsVars PROVE ReplyProgress'
  OBVIOUS
<1>1. CASE UNCHANGED codecsVars
  BY <1>1 DEF codecsVars, ReplyProgress
<1>2. ASSUME job.fn # "redisReader", job' = job PROVE ReplyProgress'
  BY <1>2 DEF ReplyProgress
<1>3. CASE \/ ExplodeList \/ EncodeBase64 \/ RewriteConfig \/ ReadFrame \/ SendXadd
           \/ Md5Update \/ Md5Digest
  <2>1. job.fn # "redisReader" /\ job' = job
    BY <1>3 DEF ExplodeList, EncodeBase64, RewriteConfig, ReadFrame, SendXadd, Computes,
                Md5Update, Md5Digest
  <2>. QED BY <1>2, <2>1
<1>4. CASE ReadReply
  <2>. DEFINE q(n) == ReaderRun(ReaderFeed(out.reader, Piece(n)))
  <2>1. PICK n \in 0..Len(left) :
          /\ Take(n)
          /\ out' = IF HasReply(q(n))
                    THEN [reader |-> ReplyTaken(q(n)), replies |-> Append(out.replies, q(n).obj)]
                    ELSE [out EXCEPT !.reader = q(n)]
    BY <1>4 DEF ReadReply
  <2>2. job.fn = "redisReader" /\ job' = job
    BY <1>4 DEF ReadReply
  <2>. DEFINE p == Piece(n)
              rest == SubSeq(left, n + 1, Len(left))
              input == job.input
              replies == out.replies
              r == out.reader
              s == ReaderRun(ReaderFeed(r, p))
  <2>3. /\ job \in Jobs /\ left \in Seq(PartsSet) /\ out = [reader |-> r, replies |-> replies]
        /\ Restored(replies, input) /\ Continues(r, replies, input, left)
    BY <2>2 DEF ReplyProgress
  <2>4. p \in Seq(PartsSet) /\ rest \in Seq(PartsSet) /\ p \o rest = left
    BY <2>3, CutInTwo DEF Piece
  <2>5. input \in Seq(Replies)
    BY <2>2, <2>3, InputReplies
  <2>6. left' = rest
    BY <2>1 DEF Take
  <2>7. out' = IF HasReply(s) THEN [reader |-> ReplyTaken(s), replies |-> Append(replies, s.obj)]
               ELSE [out EXCEPT !.reader = s]
    BY <2>1
  <2>8. input' = input /\ job' \in Jobs
    BY <2>2, <2>3
  <2>. HIDE DEF p, rest, input, r, replies
  <2>9. Continues(r, replies, input, p \o rest)
    BY <2>3, <2>4, Zenon
  <2>10. IF HasReply(s)
         THEN /\ Restored(Append(replies, s.obj), input)
              /\ Continues(ReplyTaken(s), Append(replies, s.obj), input, rest)
         ELSE Continues(s, replies, input, rest)
    BY <2>3, <2>4, <2>5, <2>9, ReplyStep
  <2>. HIDE DEF s
  <2>11. CASE HasReply(s)
    <3>1. out' = [reader |-> ReplyTaken(s), replies |-> Append(replies, s.obj)]
      BY <2>7, <2>11
    <3>2. /\ out'.reader = ReplyTaken(s) /\ out'.replies = Append(replies, s.obj)
          /\ out' = [reader |-> out'.reader, replies |-> out'.replies]
      BY <3>1
    <3>. QED BY <2>4, <2>6, <2>8, <2>10, <2>11, <3>2 DEF ReplyProgress, input
  <2>12. CASE ~HasReply(s)
    <3>1. out' = [reader |-> s, replies |-> replies]
      BY <2>3, <2>7, <2>12
    <3>2. /\ out'.reader = s /\ out'.replies = replies
          /\ out' = [reader |-> out'.reader, replies |-> out'.replies]
      BY <3>1
    <3>. QED BY <2>3, <2>4, <2>6, <2>8, <2>10, <2>12, <3>2 DEF ReplyProgress, input
  <2>. QED BY <2>11, <2>12
<1>. QED BY <1>1, <1>3, <1>4 DEF CodecsNext

LEMMA ProgressRestores == ReplyProgress => ReaderRestores
<1>. SUFFICES ASSUME ReplyProgress, job.fn = "redisReader"
              PROVE  /\ \A i \in DOMAIN out.replies :
                          NodesOf(out.replies[i]) = job.input[i] /\ IsTree(out.replies[i])
                     /\ left = <<>> /\ out.reader.buf = <<>> /\ ~out.reader.err
                          => Len(out.replies) = Len(job.input)
                     /\ out.reader.err => \E i \in DOMAIN job.input : TooDeep(job.input[i])
  BY DEF ReaderRestores, TooDeep
<1>. DEFINE r == out.reader
            replies == out.replies
            input == job.input
            k == Len(replies)
            L == Len(input)
<1>1. Restored(replies, input) /\ Continues(r, replies, input, left) /\ input \in Seq(Replies)
  BY InputReplies DEF ReplyProgress
<1>2. k \in Nat /\ L \in Nat /\ k <= L /\ DOMAIN replies = 1..k
  BY <1>1, LenProperties DEF Restored
<1>. HIDE DEF r, replies, input
<1>3. \A i \in DOMAIN replies : NodesOf(replies[i]) = input[i] /\ IsTree(replies[i])
  BY <1>1, <1>2 DEF Restored
<1>4. CASE Refused(r) /\ \E i \in DOMAIN input : TooDeep(input[i])
  BY <1>3, <1>4 DEF Refused, r, replies, input
<1>5. CASE /\ ~HasReply(r)
           /\ IF k < L THEN Reading(r, input[k + 1], Stream(input, k + 1), left)
              ELSE r = NewReader /\ left = <<>>
  <2>1. r.err = FALSE
    <3>1. CASE k < L
      BY <1>5, <3>1 DEF Reading, Sound
    <3>2. CASE ~(k < L)
      BY <1>5, <3>2 DEF NewReader
    <3>. QED BY <3>1, <3>2
  <2>2. ASSUME left = <<>>, r.buf = <<>>, k # L PROVE FALSE
    <3>1. k < L /\ k + 1 \in 1..L
      BY <1>2, <2>2
    <3>2. input[k + 1] \in Replies
      BY <1>1, <3>1, ElementOfSeq
    <3>3. input[k + 1] \in Seq(Nodes) /\ IsReply(input[k + 1])
      BY <3>2 DEF Replies
    <3>. QED BY <1>5, <2>2, <3>1, <3>3, PartsRemain
  <2>. QED BY <1>3, <2>1, <2>2 DEF r, replies, input
<1>. QED BY <1>1, <1>4, <1>5 DEF Continues

\* Whatever the pieces and the replies, those handed out are the first of
\* those sent, each whole and with its nodes in their places; no other reply
\* than one too deep for the stack is refused, and when everything was read
\* none is left (redisReaderGetReply, redis/read.c).
THEOREM RepliesRestored == CodecsSpec => []ReaderRestores
<1>1. CodecsInit => ReplyProgress
  BY ReadingBegins
<1>2. ReplyProgress /\ [CodecsNext]_codecsVars => ReplyProgress'
  BY ReadingGoesOn
<1>3. ReplyProgress => ReaderRestores
  BY ProgressRestores
<1>. QED BY <1>1, <1>2, <1>3, PTL DEF CodecsSpec

=============================================================================
