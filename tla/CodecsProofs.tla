---------------------------- MODULE CodecsProofs ----------------------------
(***************************************************************************)
(* Proofs about the encodings of a Comet: what each function answers for   *)
(* every input, where the runs try the short ones.  The first two sections *)
(* hold what the proofs about replies (RedisConnProofs) rest on too; what  *)
(* is read of a stream of replies is proved there, with the parser.        *)
(***************************************************************************)
EXTENDS Codecs, FiniteSetTheorems, SequenceTheorems, WellFoundedInduction, TLAPS

-----------------------------------------------------------------------------
(* Induction and recursion.                                                *)

\* A set of natural numbers that is not empty has a least element.
LEMMA LeastElement ==
    ASSUME NEW T \in SUBSET Nat, T # {}
    PROVE  \E x \in T : \A y \in T : x <= y
<1>. DEFINE R == OpToRel(<, Nat)
<1>1. IsWellFoundedOn(R, Nat)
  BY NatLessThanWellFounded
<1>2. \A x, y \in Nat : x < y => <<x, y>> \in R
  BY DEF OpToRel
<1>. HIDE DEF R
<1>3. PICK x \in T : \A y \in T : ~(<<y, x>> \in R)
  BY <1>1, WFMin
<1>4. \A y \in T : ~(y < x)
  BY <1>2, <1>3, Zenon
<1>. QED BY <1>4

\* Max is the largest of a bounded set.
LEMMA LargestIs ==
    ASSUME NEW a \in Nat, NEW L \in Nat, NEW T \in SUBSET (a..L), T # {}
    PROVE  Max(T) \in T /\ \A y \in T : Max(T) >= y
<1>. DEFINE D == {L - x : x \in T}
<1>1. D \in SUBSET Nat /\ D # {}
  OBVIOUS
<1>2. PICK d \in D : \A u \in D : d <= u
  <2>. HIDE DEF D
  <2>. QED BY <1>1, LeastElement
<1>3. PICK x \in T : d = L - x
  OBVIOUS
<1>4. \A y \in T : d <= L - y
  BY <1>2
<1>5. \A y \in T : y \in Int
  OBVIOUS
<1>6. \A y \in T : x >= y
  BY <1>3, <1>4, <1>5
<1>. QED BY <1>6 DEF Max

\* A set that has 0 and the successor of what it has holds all numbers.
LEMMA SetInduction ==
    ASSUME NEW S, 0 \in S, \A n \in Nat : n \in S => n + 1 \in S
    PROVE  Nat \subseteq S
<1>. SUFFICES ASSUME Nat \ S # {} PROVE FALSE
  OBVIOUS
<1>1. PICK x \in Nat \ S : \A y \in Nat \ S : x <= y
  BY LeastElement
<1>. QED BY <1>1

\* The same up to a bound.
LEMMA UpTo ==
    ASSUME NEW n \in Nat, NEW S, 0 \in S, \A i \in 0..n - 1 : i \in S => i + 1 \in S
    PROVE  0..n \subseteq S
<1>. DEFINE T == {i \in Nat : i <= n => i \in S}
<1>1. 0 \in T
  OBVIOUS
<1>2. ASSUME NEW i \in Nat, i \in T PROVE i + 1 \in T
  BY <1>2
<1>. HIDE DEF T
<1>3. Nat \subseteq T
  BY <1>1, <1>2, SetInduction
<1>. QED BY <1>3 DEF T

\* The same between two bounds.
LEMMA BoundedInduction ==
    ASSUME NEW S, NEW a \in Int, NEW b \in Int,
           a <= b => a \in S,
           \A n \in a..b - 1 : n \in S => n + 1 \in S
    PROVE  a..b \subseteq S
<1>. DEFINE T == {n \in Nat : a + n <= b => a + n \in S}
<1>1. 0 \in T
  OBVIOUS
<1>2. ASSUME NEW n \in Nat, n \in T PROVE n + 1 \in T
  BY <1>2
<1>3. Nat \subseteq T
  <2>. HIDE DEF T
  <2>. QED BY <1>1, <1>2, SetInduction
<1>. QED
  <2>. SUFFICES ASSUME NEW k \in a..b PROVE k \in S
    OBVIOUS
  <2>1. k - a \in T
    BY <1>3
  <2>. QED BY <2>1

\* A recursive function on 0..n exists, its step given as a function.
Recursive(f, V, base, n, step) ==
    f \in [0..n -> V] /\ f[0] = base /\ \A i \in 1..n : f[i] = step[<<i, f[i - 1]>>]

LEMMA Recursion ==
    ASSUME NEW V, NEW base \in V, NEW n \in Nat, NEW step \in [(1..n) \X V -> V]
    PROVE  \E f : Recursive(f, V, base, n, step)
<1>. DEFINE Upto(k, f) == f \in [0..k -> V] /\ f[0] = base
                          /\ \A i \in 1..k : f[i] = step[<<i, f[i - 1]>>]
            S == {k \in 0..n : \E f : Upto(k, f)}
<1>1. 0 \in S
  <2>. DEFINE f == [i \in 0..0 |-> base]
  <2>1. Upto(0, f)
    OBVIOUS
  <2>2. 0 \in 0..n
    OBVIOUS
  <2>. QED BY <2>1, <2>2, Zenon
<1>2. ASSUME NEW k \in 0..n - 1, k \in S PROVE k + 1 \in S
  <2>1. PICK f : Upto(k, f)
    BY <1>2
  <2>. DEFINE next == step[<<k + 1, f[k]>>]
              g == [i \in 0..k + 1 |-> IF i <= k THEN f[i] ELSE next]
  <2>2. k + 1 \in 1..n /\ f[k] \in V
    BY <2>1
  <2>3. next \in V
    BY <2>2
  <2>. HIDE DEF next
  <2>4. g \in [0..k + 1 -> V] /\ g[0] = base
    BY <2>1, <2>3
  <2>5. ASSUME NEW i \in 1..k + 1 PROVE g[i] = step[<<i, g[i - 1]>>]
    <3>1. CASE i <= k
      <4>1. g[i] = f[i] /\ g[i - 1] = f[i - 1] /\ i \in 1..k
        BY <3>1
      <4>. QED BY <2>1, <4>1
    <3>2. CASE i = k + 1
      <4>1. g[i] = next /\ g[i - 1] = f[k]
        BY <3>2
      <4>. QED BY <3>2, <4>1 DEF next
    <3>. QED BY <3>1, <3>2
  <2>. HIDE DEF g
  <2>6. Upto(k + 1, g)
    BY <2>4, <2>5
  <2>. QED BY <2>2, <2>6
<1>. HIDE DEF S
<1>3. n \in S
  BY <1>1, <1>2, UpTo
<1>4. PICK f : Upto(n, f)
  BY <1>3 DEF S
<1>5. Recursive(f, V, base, n, step)
  BY <1>4 DEF Recursive
<1>. QED BY <1>5

\* A function on 1..n is a sequence.
LEMMA FunctionIsSeq ==
    ASSUME NEW S, NEW n \in Nat, NEW f \in [1..n -> S]
    PROVE  f \in Seq(S) /\ Len(f) = n
<1>1. f \in Seq(S)
  BY SeqDef
<1>. QED BY <1>1

-----------------------------------------------------------------------------
(* Sequences.                                                              *)

\* The function by which FlattenSeq concatenates the first n sequences.
FlattensTo(seqs, n, g) ==
    g = [i \in 1..n |-> IF i = 1 THEN seqs[i] ELSE g[i - 1] \o seqs[i]]

\* Step by step.
LEMMA FlattenSteps ==
    ASSUME NEW seqs, NEW n \in Nat, NEW g, FlattensTo(seqs, n, g)
    PROVE  /\ n >= 1 => g[1] = seqs[1]
           /\ \A i \in 1..n - 1 : g[i + 1] = g[i] \o seqs[i + 1]
<1>1. \A i \in 1..n : g[i] = IF i = 1 THEN seqs[i] ELSE g[i - 1] \o seqs[i]
  BY DEF FlattensTo
<1>2. n >= 1 => g[1] = seqs[1]
  BY <1>1
<1>3. \A j : \A k \in 1..n : k # 1 /\ j = k - 1 => g[k] = g[j] \o seqs[k]
  BY <1>1, Zenon
<1>4. ASSUME NEW i \in 1..n - 1
      PROVE  g[i + 1] = g[i] \o seqs[i + 1]
  <2>1. i + 1 \in 1..n /\ i + 1 # 1 /\ i = (i + 1) - 1
    OBVIOUS
  <2>. QED BY <1>3, <2>1, Zenon
<1>. QED BY <1>2, <1>4

\* It exists.
LEMMA FlattenExists ==
    ASSUME NEW seqs, NEW len \in Nat
    PROVE  \E g : FlattensTo(seqs, len, g)
<1>. DEFINE S == {n \in Nat : \E g : FlattensTo(seqs, n, g)}
<1>1. 0 \in S
  <2>. DEFINE g == [i \in 1..0 |-> 0]
  <2>1. FlattensTo(seqs, 0, g)
    BY DEF FlattensTo
  <2>. QED BY <2>1
<1>2. ASSUME NEW n \in Nat, n \in S PROVE n + 1 \in S
  <2>1. PICK g : FlattensTo(seqs, n, g)
    BY <1>2
  <2>. DEFINE h == [i \in 1..n + 1 |-> IF i <= n THEN g[i]
                                       ELSE IF i = 1 THEN seqs[i] ELSE g[i - 1] \o seqs[i]]
  <2>2. ASSUME NEW i \in 1..n + 1
        PROVE  h[i] = IF i = 1 THEN seqs[i] ELSE h[i - 1] \o seqs[i]
    <3>1. \A j \in 1..n : g[j] = IF j = 1 THEN seqs[j] ELSE g[j - 1] \o seqs[j]
      BY <2>1 DEF FlattensTo
    <3>2. CASE i = 1
      BY <3>1, <3>2
    <3>3. CASE i # 1
      <4>1. i - 1 \in 1..n /\ h[i - 1] = g[i - 1]
        BY <3>3
      <4>2. i <= n => i \in 1..n
        OBVIOUS
      <4>3. i <= n => g[i] = g[i - 1] \o seqs[i]
        BY <3>1, <3>3, <4>2, Zenon
      <4>. QED BY <3>3, <4>1, <4>3
    <3>. QED BY <3>2, <3>3
  <2>3. h = [i \in 1..n + 1 |-> h[i]]
    OBVIOUS
  <2>. HIDE DEF h
  <2>4. FlattensTo(seqs, n + 1, h)
    BY <2>2, <2>3, Zenon DEF FlattensTo
  <2>. QED BY <2>4
<1>3. Nat \subseteq S
  <2>. HIDE DEF S
  <2>. QED BY <1>1, <1>2, SetInduction
<1>. QED BY <1>3

\* FlattenSeq is what the function makes of all.
LEMMA FlattenIs ==
    ASSUME NEW seqs, Len(seqs) \in Nat, Len(seqs) # 0
    PROVE  \E g : FlattensTo(seqs, Len(seqs), g) /\ FlattenSeq(seqs) = g[Len(seqs)]
<1>. DEFINE h == CHOOSE g : FlattensTo(seqs, Len(seqs), g)
<1>1. \E g : FlattensTo(seqs, Len(seqs), g)
  BY FlattenExists
<1>2. FlattensTo(seqs, Len(seqs), h)
  BY <1>1, Zenon
<1>3. FlattenSeq(seqs) = h[Len(seqs)]
  BY DEF FlattenSeq, FlattensTo
<1>. QED BY <1>2, <1>3

\* FlattenSeq appends the last sequence to what the others make.
LEMMA FlattenLast ==
    ASSUME NEW S, NEW seqs \in Seq(Seq(S))
    PROVE  /\ FlattenSeq(seqs) \in Seq(S)
           /\ seqs = <<>> => FlattenSeq(seqs) = <<>>
           /\ \A s \in Seq(S) :
                FlattenSeq(Append(seqs, s)) = FlattenSeq(seqs) \o s
<1>. DEFINE n == Len(seqs)
<1>0. n \in Nat /\ \A i \in 1..n : seqs[i] \in Seq(S)
  BY ElementOfSeq, LenProperties
<1>1. seqs = <<>> => FlattenSeq(seqs) = <<>>
  BY DEF FlattenSeq
<1>2. n = 0 => FlattenSeq(seqs) = <<>>
  BY <1>1
<1>3. ASSUME NEW g, FlattensTo(seqs, n, g)
      PROVE  \A i \in 1..n : g[i] \in Seq(S)
  <2>. DEFINE T == {i \in 1..n : g[i] \in Seq(S)}
  <2>0. /\ n >= 1 => g[1] = seqs[1]
        /\ \A i \in 1..n - 1 : g[i + 1] = g[i] \o seqs[i + 1]
    BY <1>0, <1>3, FlattenSteps, Zenon
  <2>1. 1 <= n => 1 \in T
    BY <1>0, <2>0
  <2>2. ASSUME NEW i \in 1..n - 1, i \in T PROVE i + 1 \in T
    <3>1. i + 1 \in 1..n
      BY <1>0
    <3>2. g[i] \in Seq(S) /\ seqs[i + 1] \in Seq(S)
      BY <1>0, <2>2, <3>1
    <3>3. g[i + 1] = g[i] \o seqs[i + 1]
      BY <2>0, Zenon
    <3>4. g[i + 1] \in Seq(S)
      BY <3>2, <3>3, ConcatProperties
    <3>. QED BY <3>1, <3>4
  <2>3. 1..n \subseteq T
    <3>. HIDE DEF T
    <3>1. 1 \in Int /\ n \in Int
      BY <1>0
    <3>. HIDE DEF n
    <3>. QED BY <2>1, <2>2, <3>1, BoundedInduction, Zenon
  <2>. QED BY <2>3
<1>4. FlattenSeq(seqs) \in Seq(S)
  <2>1. CASE n = 0
    BY <1>2, <2>1, EmptySeq
  <2>2. CASE n # 0
    <3>1. PICK g : FlattensTo(seqs, n, g) /\ FlattenSeq(seqs) = g[n]
      BY <1>0, <2>2, FlattenIs
    <3>. QED BY <1>0, <1>3, <2>2, <3>1
  <2>. QED BY <2>1, <2>2
<1>5. ASSUME NEW s \in Seq(S)
      PROVE  FlattenSeq(Append(seqs, s)) = FlattenSeq(seqs) \o s
  <2>. DEFINE q == Append(seqs, s)
  <2>1. /\ Len(q) = n + 1 /\ q[n + 1] = s
        /\ \A i \in 1..n : q[i] = seqs[i]
    BY AppendProperties
  <2>. HIDE DEF q, n
  <2>2. PICK g : FlattensTo(q, n + 1, g) /\ FlattenSeq(q) = g[n + 1]
    BY <1>0, <2>1, FlattenIs
  <2>5. /\ n + 1 >= 1 => g[1] = q[1]
        /\ \A i \in 1..(n + 1) - 1 : g[i + 1] = g[i] \o q[i + 1]
    <3>1. n + 1 \in Nat
      BY <1>0
    <3>. QED BY <2>2, <3>1, FlattenSteps, Zenon
  <2>3. CASE n = 0
    <3>1. FlattenSeq(q) = s
      BY <2>1, <2>2, <2>3, <2>5
    <3>. QED BY <1>2, <2>3, <3>1, ConcatEmptySeq DEF q
  <2>4. CASE n # 0
    <3>1. PICK h : FlattensTo(seqs, n, h) /\ FlattenSeq(seqs) = h[n]
      BY <1>0, <2>4, FlattenIs DEF n
    <3>6. /\ n >= 1 => h[1] = seqs[1]
          /\ \A i \in 1..n - 1 : h[i + 1] = h[i] \o seqs[i + 1]
      BY <1>0, <3>1, FlattenSteps, Zenon
    <3>. DEFINE T == {i \in 1..n : g[i] = h[i]}
    <3>2. 1 \in T
      <4>1. g[1] = q[1] /\ h[1] = seqs[1] /\ 1 \in 1..n
        BY <1>0, <2>4, <2>5, <3>6
      <4>. QED BY <2>1, <4>1
    <3>3. ASSUME NEW i \in 1..n - 1, i \in T PROVE i + 1 \in T
      <4>1. i \in 1..(n + 1) - 1 /\ i + 1 \in 1..n
        BY <1>0
      <4>2. g[i + 1] = g[i] \o q[i + 1]
        BY <2>5, <4>1
      <4>3. h[i + 1] = h[i] \o seqs[i + 1]
        BY <3>6
      <4>. QED BY <2>1, <3>3, <4>1, <4>2, <4>3
    <3>4. 1..n \subseteq T
      <4>. HIDE DEF T
      <4>1. 1 \in Int /\ n \in Int
        BY <1>0
      <4>. QED BY <3>2, <3>3, <4>1, BoundedInduction, Zenon
    <3>5. g[n] = h[n]
      BY <1>0, <2>4, <3>4
    <3>7. g[n + 1] = g[n] \o s
      <4>1. n \in 1..(n + 1) - 1
        BY <1>0, <2>4
      <4>. QED BY <2>1, <2>5, <4>1, Zenon
    <3>. QED BY <2>2, <3>1, <3>5, <3>7 DEF q
  <2>. QED BY <2>3, <2>4 DEF q
<1>. QED BY <1>1, <1>4, <1>5

\* FlattenSeq puts the first sequence before what the others make.
LEMMA FlattenFirst ==
    ASSUME NEW S, NEW s \in Seq(S), NEW seqs \in Seq(Seq(S))
    PROVE  FlattenSeq(<<s>> \o seqs) = s \o FlattenSeq(seqs)
<1>. DEFINE T == {n \in Nat : \A q \in Seq(Seq(S)) : Len(q) = n =>
                     FlattenSeq(<<s>> \o q) = s \o FlattenSeq(q)}
<1>0. <<s>> \in Seq(Seq(S)) /\ <<>> \in Seq(Seq(S))
  OBVIOUS
<1>1. 0 \in T
  <2>. SUFFICES ASSUME NEW q \in Seq(Seq(S)), Len(q) = 0
                PROVE  FlattenSeq(<<s>> \o q) = s \o FlattenSeq(q)
    OBVIOUS
  <2>1. q = <<>>
    BY EmptySeq
  <2>2. <<s>> \o q = Append(<<>>, s)
    BY <2>1
  <2>3. FlattenSeq(Append(<<>>, s)) = FlattenSeq(<<>>) \o s /\ FlattenSeq(<<>>) = <<>>
    BY <1>0, FlattenLast
  <2>4. <<>> \o s = s /\ s \o <<>> = s
    BY ConcatEmptySeq
  <2>. QED BY <2>1, <2>2, <2>3, <2>4
<1>2. ASSUME NEW n \in Nat, n \in T PROVE n + 1 \in T
  <2>1. ASSUME NEW q \in Seq(Seq(S)), Len(q) = n + 1
        PROVE  FlattenSeq(<<s>> \o q) = s \o FlattenSeq(q)
    <3>1. PICK p \in Seq(Seq(S)), e \in Seq(S) : q = Append(p, e)
      <4>1. q # <<>>
        BY <2>1, EmptySeq
      <4>. QED BY <4>1, SequenceEmptyOrAppend
    <3>2. Len(p) = n
      BY <2>1, <3>1, AppendProperties, LenProperties
    <3>3. FlattenSeq(<<s>> \o p) = s \o FlattenSeq(p)
      BY <1>2, <3>2
    <3>4. <<s>> \o p \in Seq(Seq(S)) /\ <<s>> \o q = Append(<<s>> \o p, e)
      BY <1>0, <3>1
    <3>5. FlattenSeq(Append(<<s>> \o p, e)) = FlattenSeq(<<s>> \o p) \o e
      BY <3>4, FlattenLast, Zenon
    <3>6. FlattenSeq(q) = FlattenSeq(p) \o e /\ FlattenSeq(p) \in Seq(S)
      BY <3>1, FlattenLast, Zenon
    <3>7. (s \o FlattenSeq(p)) \o e = s \o (FlattenSeq(p) \o e)
      BY <3>6, ConcatAssociative, SMTT(30)
    <3>. QED BY <3>3, <3>4, <3>5, <3>6, <3>7, Zenon
  <2>2. n + 1 \in Nat
    OBVIOUS
  <2>. QED BY <2>1, <2>2
<1>3. Nat \subseteq T
  <2>. HIDE DEF T
  <2>. QED BY <1>1, <1>2, SetInduction
<1>. QED BY <1>3, LenProperties

\* A sequence is its beginning and what follows.
LEMMA CutInTwo ==
    ASSUME NEW S
    PROVE  \A s \in Seq(S) : \A n \in 0..Len(s) :
             /\ SubSeq(s, 1, n) \in Seq(S) /\ SubSeq(s, n + 1, Len(s)) \in Seq(S)
             /\ Len(SubSeq(s, 1, n)) = n /\ Len(SubSeq(s, n + 1, Len(s))) = Len(s) - n
             /\ SubSeq(s, 1, n) \o SubSeq(s, n + 1, Len(s)) = s
<1>. SUFFICES ASSUME NEW s \in Seq(S), NEW n \in 0..Len(s)
              PROVE  LET begin == SubSeq(s, 1, n)
                         remain == SubSeq(s, n + 1, Len(s))
                     IN  /\ begin \in Seq(S) /\ remain \in Seq(S)
                         /\ Len(begin) = n /\ Len(remain) = Len(s) - n
                         /\ begin \o remain = s
  OBVIOUS
<1>. DEFINE L == Len(s)
            begin == SubSeq(s, 1, n)
            remain == SubSeq(s, n + 1, L)
            both == begin \o remain
<1>1. L \in Nat /\ begin \in Seq(S) /\ remain \in Seq(S)
  <2>1. L \in Nat /\ \A i \in 1..L : s[i] \in S
    BY LenProperties, ElementOfSeq
  <2>. QED BY <2>1
<1>2. /\ Len(begin) = n /\ Len(remain) = L - n
      /\ \A i \in 1..n : begin[i] = s[i]
      /\ \A i \in 1..L - n : remain[i] = s[n + i]
  BY <1>1
<1>. HIDE DEF begin, remain
<1>3. /\ both \in Seq(S) /\ Len(both) = Len(begin) + Len(remain)
      /\ \A i \in 1..Len(begin) + Len(remain) :
           both[i] = IF i <= Len(begin) THEN begin[i] ELSE remain[i - Len(begin)]
  BY <1>1, ConcatProperties, Zenon
<1>. HIDE DEF both
<1>4. Len(begin) + Len(remain) = L
  BY <1>1, <1>2
<1>5. ASSUME NEW i \in 1..L PROVE both[i] = s[i]
  <2>1. CASE i <= n
    BY <1>2, <1>3, <1>4, <2>1
  <2>2. CASE ~(i <= n)
    <3>1. i - n \in 1..L - n /\ n + (i - n) = i
      BY <1>1, <2>2
    <3>. QED BY <1>2, <1>3, <1>4, <2>2, <3>1
  <2>. QED BY <2>1, <2>2
<1>6. both = s
  BY <1>1, <1>3, <1>4, <1>5, SeqEqual
<1>. QED BY <1>1, <1>2, <1>6 DEF begin, remain, both

\* What remains of a sequence begins with its next element.
LEMMA NextOfRest ==
    ASSUME NEW S, NEW s \in Seq(S), NEW k \in 0..Len(s) - 1
    PROVE  SubSeq(s, k + 1, Len(s)) = <<s[k + 1]>> \o SubSeq(s, k + 2, Len(s))
<1>. DEFINE L == Len(s)
            a == SubSeq(s, k + 1, L)
            b == SubSeq(s, k + 2, L)
            e == <<s[k + 1]>>
            c == e \o b
<1>1. L \in Nat /\ k + 1 \in 1..L /\ k + 1 \in Int /\ k + 2 \in Int /\ L \in Int
  BY LenProperties
<1>2. \A i \in k + 1..L : s[i] \in S
  <2>1. \A i \in k + 1..L : i \in 1..L
    BY <1>1
  <2>. QED BY <2>1, ElementOfSeq
<1>3. /\ a \in Seq(S) /\ Len(a) = L - k /\ \A i \in 1..L - k : a[i] = s[k + i]
  <2>1. /\ a \in Seq(S) /\ Len(a) = (IF k + 1 <= L THEN L - (k + 1) + 1 ELSE 0)
        /\ \A i \in 1..L - (k + 1) + 1 : a[i] = s[(k + 1) + i - 1]
    BY <1>1, <1>2, SubSeqProperties
  <2>. HIDE DEF a
  <2>. QED BY <1>1, <2>1
<1>4. /\ b \in Seq(S) /\ Len(b) = L - k - 1 /\ \A i \in 1..L - k - 1 : b[i] = s[k + i + 1]
  <2>1. \A i \in k + 2..L : s[i] \in S
    <3>1. \A i \in k + 2..L : i \in k + 1..L
      BY <1>1
    <3>. QED BY <1>2, <3>1
  <2>2. /\ b \in Seq(S) /\ Len(b) = (IF k + 2 <= L THEN L - (k + 2) + 1 ELSE 0)
        /\ \A i \in 1..L - (k + 2) + 1 : b[i] = s[(k + 2) + i - 1]
    BY <1>1, <2>1, SubSeqProperties
  <2>. HIDE DEF b
  <2>. QED BY <1>1, <2>2
<1>5. e \in Seq(S) /\ Len(e) = 1 /\ e[1] = s[k + 1]
  <2>1. s[k + 1] \in S
    BY <1>1, <1>2
  <2>. QED BY <2>1
<1>. HIDE DEF a, b, e
<1>6. /\ c \in Seq(S) /\ Len(c) = L - k
      /\ \A i \in 1..L - k : c[i] = IF i <= 1 THEN e[i] ELSE b[i - 1]
  <2>1. /\ c \in Seq(S) /\ Len(c) = Len(e) + Len(b)
        /\ \A i \in 1..Len(e) + Len(b) : c[i] = IF i <= Len(e) THEN e[i] ELSE b[i - Len(e)]
    <3>1. e \in Seq(S) /\ b \in Seq(S)
      BY <1>4, <1>5
    <3>. QED BY <3>1, ConcatProperties, Zenon
  <2>. HIDE DEF c
  <2>2. Len(e) + Len(b) = L - k
    BY <1>1, <1>4, <1>5
  <2>. QED BY <1>5, <2>1, <2>2
<1>. HIDE DEF c
<1>7. ASSUME NEW i \in 1..L - k PROVE a[i] = c[i]
  <2>1. CASE i = 1
    BY <1>1, <1>3, <1>5, <1>6, <2>1
  <2>2. CASE i # 1
    <3>1. i - 1 \in 1..L - k - 1 /\ ~(i <= 1) /\ k + (i - 1) + 1 = k + i
      BY <1>1, <2>2
    <3>2. b[i - 1] = s[k + (i - 1) + 1]
      BY <1>4, <3>1
    <3>3. c[i] = b[i - 1]
      BY <1>6, <3>1
    <3>. QED BY <1>3, <3>1, <3>2, <3>3
  <2>. QED BY <2>1, <2>2
<1>8. a = c
  BY <1>3, <1>6, <1>7, SeqEqual
<1>. QED BY <1>8 DEF a, b, c, e

-----------------------------------------------------------------------------
(* base64.                                                                 *)

\* A place counted from 1, in groups of four counted from 0.
LEMMA InFours ==
    /\ \A k \in Int, j \in 1..4 : ((4 * k + j) - 1) \div 4 = k /\ (((4 * k + j) - 1) % 4) + 1 = j
    /\ \A i \in Int : ((i - 1) % 4) + 1 \in 1..4 /\ i = 4 * ((i - 1) \div 4) + (((i - 1) % 4) + 1)
  OBVIOUS

\* The same in groups of three.
LEMMA InThrees ==
    \A i \in Int : ((i - 1) % 3) + 1 \in 1..3 /\ i = 3 * ((i - 1) \div 3) + (((i - 1) % 3) + 1)
  OBVIOUS

\* Four sextets keep three bytes.
HoldsBytes(q, a, b, c) ==
    /\ q[1] \in 0..63 /\ q[2] \in 0..63 /\ q[3] \in 0..63 /\ q[4] \in 0..63
    /\ 4 * q[1] + (q[2] \div 16) = a
    /\ (q[2] % 16) * 16 + (q[3] \div 4) = b
    /\ (q[3] % 4) * 64 + q[4] = c

LEMMA SextetsKeep ==
    ASSUME NEW a \in 0..255, NEW b \in 0..255, NEW c \in 0..255
    PROVE  HoldsBytes(Sextets(a, b, c), a, b, c)
<1>. DEFINE q == Sextets(a, b, c)
<1>1. /\ q[1] = a \div 4 /\ q[2] = (a % 4) * 16 + (b \div 16)
      /\ q[3] = (b % 16) * 4 + (c \div 64) /\ q[4] = c % 64
  BY DEF Sextets
<1>. HIDE DEF q
<1>2. a \div 4 \in 0..63 /\ a % 4 \in 0..3 /\ a = 4 * (a \div 4) + (a % 4)
  OBVIOUS
<1>3. b \div 16 \in 0..15 /\ b % 16 \in 0..15 /\ b = 16 * (b \div 16) + (b % 16)
  OBVIOUS
<1>4. c \div 64 \in 0..3 /\ c % 64 \in 0..63 /\ c = 64 * (c \div 64) + (c % 64)
  OBVIOUS
<1>5. q[2] \div 16 = a % 4 /\ q[2] % 16 = b \div 16
  BY <1>1, <1>2, <1>3
<1>6. q[3] \div 4 = b % 16 /\ q[3] % 4 = c \div 64
  BY <1>1, <1>3, <1>4
<1>7. HoldsBytes(q, a, b, c)
  BY <1>1, <1>2, <1>3, <1>4, <1>5, <1>6 DEF HoldsBytes
<1>. QED BY <1>7 DEF q

LEMMA NotPadded ==
    ASSUME NEW q, NEW a, NEW b, NEW c, HoldsBytes(q, a, b, c), NEW j \in 1..4
    PROVE  q[j] # 64
<1>1. q[1] \in 0..63 /\ q[2] \in 0..63 /\ q[3] \in 0..63 /\ q[4] \in 0..63
  BY Zenon DEF HoldsBytes
<1>2. CASE j = 1
  BY <1>1, <1>2
<1>3. CASE j = 2
  BY <1>1, <1>3
<1>4. CASE j = 3
  BY <1>1, <1>4
<1>5. CASE j = 4
  BY <1>1, <1>5
<1>. QED BY <1>2, <1>3, <1>4, <1>5

\* The characters of data in groups of four, counted from 0.
Byte(data, i) == IF i \in DOMAIN data THEN data[i] ELSE 0
Group(data, k) == Sextets(Byte(data, 3 * k + 1), Byte(data, 3 * k + 2), Byte(data, 3 * k + 3))

LEMMA GroupKeeps ==
    ASSUME NEW data \in Seq(0..255), NEW k \in Nat
    PROVE  HoldsBytes(Group(data, k), Byte(data, 3 * k + 1), Byte(data, 3 * k + 2), Byte(data, 3 * k + 3))
<1>1. ASSUME NEW i \in Nat PROVE Byte(data, i) \in 0..255
  <2>1. CASE i \in DOMAIN data
    <3>1. i \in 1..Len(data)
      BY <2>1
    <3>2. data[i] \in 0..255
      BY <3>1, ElementOfSeq
    <3>. QED BY <2>1, <3>2 DEF Byte
  <2>2. CASE i \notin DOMAIN data
    BY <2>2 DEF Byte
  <2>. QED BY <2>1, <2>2
<1>2. 3 * k + 1 \in Nat /\ 3 * k + 2 \in Nat /\ 3 * k + 3 \in Nat
  OBVIOUS
<1>3. /\ Byte(data, 3 * k + 1) \in 0..255 /\ Byte(data, 3 * k + 2) \in 0..255
      /\ Byte(data, 3 * k + 3) \in 0..255
  BY <1>1, <1>2
<1>. QED BY <1>3, SextetsKeep, Zenon DEF Group

\* What base64_encode writes for data of n bytes: g groups of characters, the
\* last of them padded.
Written(s, data, n, g) ==
    /\ n = Len(data) /\ n \in Nat /\ g \in Nat /\ 3 * g >= n /\ 3 * g <= n + 2
    /\ s = [i \in 1..4 * g |-> s[i]]
    /\ \A k \in 0..g - 1, j \in 1..4 :
         s[4 * k + j] = IF 3 * k + j <= n + 1 THEN Group(data, k)[j] ELSE 64

LEMMA Base64Letters ==
    ASSUME NEW data \in Seq(0..255)
    PROVE  Written(Base64(data), data, Len(data), (Len(data) + 2) \div 3)
<1>. DEFINE n == Len(data)
            g == (n + 2) \div 3
            s == Base64(data)
<1>1. n \in Nat
  BY LenProperties
<1>2. g \in Nat /\ 3 * g >= n /\ 3 * g <= n + 2
  BY <1>1
<1>3. s = [i \in 1..4 * g |->
            IF ((i - 1) % 4) + 1 <= Letters(n - 3 * ((i - 1) \div 4))
            THEN Group(data, (i - 1) \div 4)[((i - 1) % 4) + 1] ELSE 64]
  BY DEF Base64, Group, Byte
<1>. HIDE DEF g, s
<1>4. ASSUME NEW k \in 0..g - 1, NEW j \in 1..4
      PROVE  s[4 * k + j] = IF 3 * k + j <= n + 1 THEN Group(data, k)[j] ELSE 64
  <2>1. 4 * k + j \in 1..4 * g
    BY <1>2
  <2>2. ((4 * k + j) - 1) \div 4 = k /\ (((4 * k + j) - 1) % 4) + 1 = j
    <3>1. k \in Int
      BY <1>2
    <3>. QED BY <3>1, InFours, Zenon
  <2>3. s[4 * k + j] = IF j <= Letters(n - 3 * k) THEN Group(data, k)[j] ELSE 64
    BY <1>3, <2>1, <2>2
  <2>4. j <= Letters(n - 3 * k) <=> 3 * k + j <= n + 1
    BY <1>1, <1>2 DEF Letters
  <2>. QED BY <2>3, <2>4
<1>5. s = [i \in 1..4 * g |-> s[i]]
  BY <1>3
<1>6. Written(s, data, n, g)
  BY <1>1, <1>2, <1>4, <1>5 DEF Written
<1>. QED BY <1>6 DEF s, g

\* The padded characters are the last ones.
LEMMA PaddedLast ==
    ASSUME NEW data \in Seq(0..255), NEW n, NEW g, NEW s, Written(s, data, n, g)
    PROVE  Cardinality({i \in DOMAIN s : s[i] = 64}) = 3 * g - n
<1>1. /\ n \in Nat /\ g \in Nat /\ 3 * g >= n /\ 3 * g <= n + 2
      /\ DOMAIN s = 1..4 * g
  BY DEF Written
<1>2. ASSUME NEW i \in 1..4 * g
      PROVE  s[i] = 64 <=> i \in n + g + 1..4 * g
  <2>. DEFINE k == (i - 1) \div 4
              j == ((i - 1) % 4) + 1
  <2>1. k \in 0..g - 1 /\ j \in 1..4 /\ i = 4 * k + j
    BY <1>1, InFours
  <2>. HIDE DEF k, j
  <2>2. Group(data, k)[j] # 64
    <3>1. HoldsBytes(Group(data, k), Byte(data, 3 * k + 1), Byte(data, 3 * k + 2), Byte(data, 3 * k + 3))
      BY <1>1, <2>1, GroupKeeps
    <3>. QED BY <2>1, <3>1, NotPadded
  <2>3. s[4 * k + j] = IF 3 * k + j <= n + 1 THEN Group(data, k)[j] ELSE 64
    BY <2>1, ZenonT(30) DEF Written
  <2>4. s[i] = 64 <=> ~(3 * k + j <= n + 1)
    BY <2>1, <2>2, <2>3
  <2>5. ~(3 * k + j <= n + 1) <=> i >= n + g + 1
    <3>1. CASE k = g - 1
      BY <1>1, <2>1, <3>1
    <3>2. CASE k <= g - 2
      BY <1>1, <2>1, <3>2
    <3>. QED BY <1>1, <2>1, <3>1, <3>2
  <2>. QED BY <1>1, <2>4, <2>5
<1>3. {i \in DOMAIN s : s[i] = 64} = n + g + 1..4 * g
  BY <1>1, <1>2
<1>4. n + g + 1 \in Int /\ 4 * g \in Int
  BY <1>1
<1>5. Cardinality(n + g + 1..4 * g) = IF n + g + 1 > 4 * g THEN 0 ELSE (4 * g - (n + g + 1)) + 1
  BY <1>4, FS_Interval
<1>6. Cardinality(n + g + 1..4 * g) = 3 * g - n
  BY <1>1, <1>5
<1>. QED BY <1>3, <1>6

\* Decoding gives the bytes back.
Three(q) == <<4 * q[1] + (q[2] \div 16), (q[2] % 16) * 16 + (q[3] \div 4), (q[3] % 4) * 64 + q[4]>>
Four(s, k) == SubSeq(s, 4 * k + 1, 4 * k + 4)

GroupBack(s, data, n, k) ==
    \A j \in 1..3 : 3 * k + j <= n => Three(Four(s, k))[j] = data[3 * k + j]

LEMMA ByteBack ==
    ASSUME NEW data \in Seq(0..255), NEW n, NEW g, NEW s, Written(s, data, n, g),
           NEW k \in 0..g - 1
    PROVE  GroupBack(s, data, n, k)
<1>. SUFFICES ASSUME NEW j \in 1..3, 3 * k + j <= n
              PROVE  Three(Four(s, k))[j] = data[3 * k + j]
  BY DEF GroupBack
<1>. DEFINE q == Four(s, k)
            r == Group(data, k)
<1>1. /\ n = Len(data) /\ n \in Nat /\ g \in Nat
      /\ s = [i \in 1..4 * g |-> s[i]] /\ k \in Nat
  BY DEF Written
<1>2. ASSUME NEW m \in 1..4 PROVE q[m] = s[4 * k + m]
  <2>1. 4 * k + 1 \in 1..4 * g /\ 4 * k + 4 \in 1..4 * g /\ 4 * k + m = (4 * k + 1 + m) - 1
    BY <1>1
  <2>2. s \in Seq({s[i] : i \in 1..4 * g}) /\ Len(s) = 4 * g
    <3>. DEFINE e == 4 * g
                V == {s[i] : i \in 1..e}
    <3>1. e \in Nat /\ s = [i \in 1..e |-> s[i]]
      BY <1>1
    <3>2. \A i \in 1..e : s[i] \in V
      OBVIOUS
    <3>. HIDE DEF e, V
    <3>3. s \in [1..e -> V]
      BY <3>1, <3>2, Zenon
    <3>4. s \in Seq(V) /\ Len(s) = e
      BY <3>1, <3>3
    <3>. QED BY <3>4 DEF e, V
  <2>3. \A i \in 1..(4 * k + 4 - (4 * k + 1)) + 1 : q[i] = s[(4 * k + 1 + i) - 1]
    <3>. DEFINE V == {s[i] : i \in 1..4 * g}
                a == 4 * k + 1
                b == 4 * k + 4
    <3>1. a \in Int /\ b \in Int /\ \A i \in a..b : i \in 1..4 * g
      BY <1>1, <2>1
    <3>2. s \in Seq(V)
      BY <2>2
    <3>. HIDE DEF a, b
    <3>3. \A i \in a..b : s[i] \in V
      BY <3>1
    <3>. HIDE DEF V
    <3>4. \A i \in 1..(b - a) + 1 : SubSeq(s, a, b)[i] = s[(a + i) - 1]
      BY <3>1, <3>2, <3>3, SubSeqProperties
    <3>. QED BY <3>4 DEF Four, a, b
  <2>4. m \in 1..(4 * k + 4 - (4 * k + 1)) + 1
    BY <1>1
  <2>. QED BY <2>1, <2>3, <2>4
<1>3. ASSUME NEW m \in 1..4, 3 * k + m <= n + 1 PROVE q[m] = r[m]
  <2>1. s[4 * k + m] = IF 3 * k + m <= n + 1 THEN Group(data, k)[m] ELSE 64
    BY ZenonT(30) DEF Written
  <2>. QED BY <1>2, <1>3, <2>1
<1>4. Byte(data, 3 * k + j) = data[3 * k + j]
  BY <1>1 DEF Byte
<1>5. HoldsBytes(r, Byte(data, 3 * k + 1), Byte(data, 3 * k + 2), Byte(data, 3 * k + 3))
  BY <1>1, GroupKeeps
<1>. HIDE DEF q, r
<1>6. CASE j = 1
  <2>1. q[1] = r[1] /\ q[2] = r[2]
    BY <1>1, <1>3, <1>6
  <2>2. Three(q)[1] = 4 * r[1] + (r[2] \div 16)
    BY <2>1 DEF Three
  <2>3. Three(q)[1] = Byte(data, 3 * k + 1)
    BY <1>5, <2>2 DEF HoldsBytes
  <2>. QED BY <1>4, <1>6, <2>3 DEF q
<1>7. CASE j = 2
  <2>1. q[2] = r[2] /\ q[3] = r[3]
    BY <1>1, <1>3, <1>7
  <2>2. Three(q)[2] = (r[2] % 16) * 16 + (r[3] \div 4)
    BY <2>1 DEF Three
  <2>3. Three(q)[2] = Byte(data, 3 * k + 2)
    BY <1>5, <2>2 DEF HoldsBytes
  <2>. QED BY <1>4, <1>7, <2>3 DEF q
<1>8. CASE j = 3
  <2>1. q[3] = r[3] /\ q[4] = r[4]
    BY <1>1, <1>3, <1>8
  <2>2. Three(q)[3] = (r[3] % 4) * 64 + r[4]
    BY <2>1 DEF Three
  <2>3. Three(q)[3] = Byte(data, 3 * k + 3)
    BY <1>5, <2>2 DEF HoldsBytes
  <2>. QED BY <1>4, <1>8, <2>3 DEF q
<1>. QED BY <1>6, <1>7, <1>8

DecodesTo(s, data) == Len(s) % 4 = 0 /\ Decode64(s) = data

LEMMA Base64Back ==
    ASSUME NEW data \in Seq(0..255), NEW n, NEW g, NEW s, Written(s, data, n, g)
    PROVE  DecodesTo(s, data)
<1>1. /\ n = Len(data) /\ n \in Nat /\ g \in Nat /\ 3 * g >= n /\ 3 * g <= n + 2
      /\ s = [i \in 1..4 * g |-> s[i]]
  BY DEF Written
<1>2. Len(s) = 4 * g
  BY <1>1
<1>3. Len(s) \div 4 = g /\ Len(s) % 4 = 0
  BY <1>1, <1>2
<1>4. 3 * (Len(s) \div 4) - Cardinality({i \in DOMAIN s : s[i] = 64}) = n
  <2>1. Cardinality({i \in DOMAIN s : s[i] = 64}) = 3 * g - n
    BY PaddedLast
  <2>. QED BY <1>1, <1>3, <2>1
<1>5. Decode64(s) =
        [i \in 1..3 * (Len(s) \div 4) - Cardinality({i \in DOMAIN s : s[i] = 64})
            |-> Three(Four(s, (i - 1) \div 3))[((i - 1) % 3) + 1]]
  BY DEF Decode64, Three, Four
<1>6. Decode64(s) = [i \in 1..n |-> Three(Four(s, (i - 1) \div 3))[((i - 1) % 3) + 1]]
  BY <1>4, <1>5
<1>7. \A k \in 0..g - 1 : GroupBack(s, data, n, k)
  BY ByteBack
<1>8. ASSUME NEW i \in 1..n
      PROVE  Three(Four(s, (i - 1) \div 3))[((i - 1) % 3) + 1] = data[i]
  <2>. DEFINE k == (i - 1) \div 3
              j == ((i - 1) % 3) + 1
  <2>1. k \in 0..g - 1 /\ j \in 1..3 /\ i = 3 * k + j /\ 3 * k + j <= n
    <3>1. j \in 1..3 /\ i = 3 * k + j
      BY <1>1, InThrees
    <3>2. k \in Int
      BY <1>1
    <3>. HIDE DEF k, j
    <3>. QED BY <1>1, <3>1, <3>2
  <2>. HIDE DEF k, j
  <2>2. Three(Four(s, k))[j] = data[3 * k + j]
    BY <1>7, <2>1 DEF GroupBack
  <2>. QED BY <2>1, <2>2 DEF k, j
<1>9. data = [i \in 1..n |-> data[i]]
  BY <1>1
<1>10. Decode64(s) = data
  BY <1>6, <1>8, <1>9
<1>. QED BY <1>3, <1>10 DEF DecodesTo

-----------------------------------------------------------------------------
(* WebSocket frames.                                                       *)

\* The values of a byte are an even number, twice Half.
LEMMA ByteValues ==
    /\ ByteBase \in Nat /\ Half \in 3..128 /\ ByteBase = 2 * Half
<1>1. PICK h \in 3..128 : ByteBase = 2 * h
  BY SizesAssumption
<1>2. (2 * h) \div 2 = h
  BY <1>1
<1>. QED BY <1>1, <1>2 DEF Half

\* Division by the number of values of a byte.
LEMMA DivideByte ==
    ASSUME NEW n \in Nat, NEW b \in Nat \ {0}
    PROVE  /\ n \div b \in Nat /\ n % b \in 0..b - 1
           /\ n = b * (n \div b) + (n % b)
  OBVIOUS

\* A number below b * m, divided by b, is below m.
LEMMA DivideLess ==
    ASSUME NEW n \in Nat, NEW b \in Nat \ {0}, NEW m \in Nat, n < b * m
    PROVE  n \div b < m
<1>. DEFINE q == n \div b
            r == n % b
<1>1. q \in Nat /\ r \in Nat /\ n = b * q + r
  BY DivideByte
<1>. HIDE DEF q, r
<1>2. ASSUME q >= m PROVE FALSE
  <2>1. PICK d \in Nat : q = m + d
    <3>1. q - m \in Nat /\ q = m + (q - m)
      BY <1>1, <1>2
    <3>. QED BY <3>1
  <2>2. b * q = b * m + b * d
    BY <2>1
  <2>3. b * d \in Nat /\ b * m \in Nat
    BY <2>1
  <2>. QED BY <1>1, <2>2, <2>3
<1>3. q < m
  BY <1>1, <1>2
<1>. QED BY <1>3 DEF q

ShiftsDown(F, n, k) ==
    /\ F \in [0..k -> Nat] /\ F[0] = n
    /\ \A i \in 1..k : F[i] = F[i - 1] \div ByteBase

LEMMA ShiftedIs ==
    ASSUME NEW n \in Nat, NEW k \in Nat
    PROVE  ShiftsDown(Shifted(n, k), n, k)
<1>. DEFINE step == [p \in (1..k) \X Nat |-> p[2] \div ByteBase]
            Is(f) == f = [i \in 0..k |-> IF i = 0 THEN n ELSE f[i - 1] \div ByteBase]
<1>1. ByteBase \in Nat \ {0}
  BY ByteValues
<1>2. step \in [(1..k) \X Nat -> Nat]
  BY <1>1, DivideByte
<1>3. \A i \in 1..k, v \in Nat : step[<<i, v>>] = v \div ByteBase
  OBVIOUS
<1>. HIDE DEF step
<1>4. PICK f : Recursive(f, Nat, n, k, step)
  BY <1>2, Recursion
<1>5. Is(f)
  <2>1. f \in [0..k -> Nat] /\ f[0] = n /\ \A i \in 1..k : f[i] = step[<<i, f[i - 1]>>]
    BY <1>4 DEF Recursive
  <2>2. ASSUME NEW i \in 1..k PROVE f[i] = f[i - 1] \div ByteBase
    <3>1. f[i - 1] \in Nat
      BY <2>1
    <3>. QED BY <1>3, <2>1, <3>1
  <2>. QED BY <2>1, <2>2
<1>6. Is(Shifted(n, k))
  <2>1. Shifted(n, k) = CHOOSE g : Is(g)
    BY DEF Shifted
  <2>. HIDE DEF Is
  <2>. QED BY <1>5, <2>1, Zenon
<1>. DEFINE F == Shifted(n, k)
<1>. HIDE DEF F
<1>7. Is(F)
  BY <1>6 DEF F
<1>8. F[0] = n /\ \A i \in 1..k : F[i] = F[i - 1] \div ByteBase
  BY <1>7
<1>9. 0..k \subseteq {i \in 0..k : F[i] \in Nat}
  <2>. DEFINE S == {i \in 0..k : F[i] \in Nat}
  <2>1. 0 \in S
    BY <1>8
  <2>2. ASSUME NEW i \in 0..k - 1, i \in S PROVE i + 1 \in S
    <3>1. i + 1 \in 1..k /\ i + 1 \in 0..k /\ (i + 1) - 1 = i /\ F[i] \in Nat
      BY <2>2
    <3>2. F[i + 1] = F[i] \div ByteBase
      BY <1>8, <3>1
    <3>3. F[i + 1] \in Nat
      BY <1>1, <3>1, <3>2, DivideByte
    <3>. QED BY <3>1, <3>3
  <2>. HIDE DEF S
  <2>. QED BY <2>1, <2>2, UpTo DEF S
<1>10. F \in [0..k -> Nat]
  BY <1>7, <1>9
<1>11. ShiftsDown(F, n, k)
  BY <1>8, <1>10 DEF ShiftsDown
<1>. QED BY <1>11 DEF F

LEMMA NumberIs ==
    ASSUME NEW bytes \in Seq(Nat)
    PROVE  \E f \in [0..Len(bytes) -> Nat] :
             /\ f[0] = 0 /\ Number(bytes) = f[Len(bytes)]
             /\ \A i \in 1..Len(bytes) : f[i] = ByteBase * f[i - 1] + bytes[i]
<1>. DEFINE k == Len(bytes)
            step == [p \in (1..k) \X Nat |-> ByteBase * p[2] + bytes[p[1]]]
            Is(f) == f = [i \in 0..k |-> IF i = 0 THEN 0 ELSE ByteBase * f[i - 1] + bytes[i]]
<1>1. ByteBase \in Nat /\ k \in Nat /\ \A i \in 1..k : bytes[i] \in Nat
  BY ByteValues
<1>2. Number(bytes) = (CHOOSE g : Is(g))[k]
  BY DEF Number
<1>. HIDE DEF k
<1>3. step \in [(1..k) \X Nat -> Nat]
  <2>1. ASSUME NEW p \in (1..k) \X Nat PROVE ByteBase * p[2] + bytes[p[1]] \in Nat
    <3>1. p[1] \in 1..k /\ p[2] \in Nat
      OBVIOUS
    <3>2. ByteBase * p[2] \in Nat
      BY <1>1, <3>1
    <3>. QED BY <1>1, <3>1, <3>2
  <2>. QED BY <2>1
<1>4. \A i \in 1..k, v \in Nat : step[<<i, v>>] = ByteBase * v + bytes[i]
  OBVIOUS
<1>. HIDE DEF step
<1>5. PICK f : Recursive(f, Nat, 0, k, step)
  <2>1. 0 \in Nat
    OBVIOUS
  <2>. QED BY <1>1, <1>3, <2>1, Recursion
<1>6. Is(f)
  <2>1. f \in [0..k -> Nat] /\ f[0] = 0 /\ \A i \in 1..k : f[i] = step[<<i, f[i - 1]>>]
    BY <1>5 DEF Recursive
  <2>2. ASSUME NEW i \in 1..k PROVE f[i] = ByteBase * f[i - 1] + bytes[i]
    <3>1. f[i - 1] \in Nat
      BY <1>1, <2>1
    <3>. QED BY <1>4, <2>1, <3>1
  <2>. QED BY <1>1, <2>1, <2>2
<1>7. PICK g : Is(g) /\ Number(bytes) = g[k]
  <2>. HIDE DEF Is
  <2>1. Is(CHOOSE g : Is(g))
    BY <1>6, Zenon
  <2>. QED BY <1>2, <2>1, Zenon
<1>8. g[0] = 0 /\ \A i \in 1..k : g[i] = ByteBase * g[i - 1] + bytes[i]
  BY <1>1, <1>7
<1>9. 0..k \subseteq {i \in 0..k : g[i] \in Nat}
  <2>. DEFINE S == {i \in 0..k : g[i] \in Nat}
  <2>1. 0 \in S
    BY <1>1, <1>8
  <2>2. ASSUME NEW i \in 0..k - 1, i \in S PROVE i + 1 \in S
    <3>1. i + 1 \in 1..k /\ (i + 1) - 1 = i /\ g[i] \in Nat
      BY <1>1, <2>2
    <3>2. g[i + 1] = ByteBase * g[i] + bytes[i + 1] /\ bytes[i + 1] \in Nat
      BY <1>1, <1>8, <3>1
    <3>3. ByteBase * g[i] \in Nat
      BY <1>1, <3>1
    <3>4. g[i + 1] \in Nat
      BY <3>2, <3>3
    <3>. QED BY <1>1, <3>1, <3>4
  <2>. HIDE DEF S
  <2>. QED BY <1>1, <2>1, <2>2, UpTo DEF S
<1>10. g \in [0..k -> Nat]
  BY <1>7, <1>9
<1>. QED BY <1>7, <1>8, <1>10 DEF k

\* A number is written in k digits and read back if nothing is left of it.
LEMMA DigitsRead ==
    ASSUME NEW n \in Nat, NEW k \in Nat, Shifted(n, k)[k] = 0
    PROVE  /\ Digits(n, k) \in Seq(0..ByteBase - 1) /\ Len(Digits(n, k)) = k
           /\ Number(Digits(n, k)) = n
<1>. DEFINE F == Shifted(n, k)
            D == Digits(n, k)
<1>1. /\ F \in [0..k -> Nat] /\ F[0] = n
      /\ \A i \in 1..k : F[i] = F[i - 1] \div ByteBase
  <2>1. ShiftsDown(F, n, k)
    BY ShiftedIs
  <2>. QED BY <2>1 DEF ShiftsDown
<1>2. D = [i \in 1..k |-> F[k - i] % ByteBase]
  BY DEF Digits
<1>3. F[k] = 0
  OBVIOUS
<1>4. ByteBase \in Nat \ {0}
  BY ByteValues
<1>. HIDE DEF F, D
<1>5. \A i \in 1..k : D[i] = F[k - i] % ByteBase /\ D[i] \in 0..ByteBase - 1
  <2>. SUFFICES ASSUME NEW i \in 1..k
                PROVE  D[i] = F[k - i] % ByteBase /\ D[i] \in 0..ByteBase - 1
    OBVIOUS
  <2>1. F[k - i] \in Nat
    BY <1>1
  <2>2. D[i] = F[k - i] % ByteBase
    BY <1>2
  <2>. QED BY <1>4, <2>1, <2>2, DivideByte
<1>6. D \in Seq(0..ByteBase - 1) /\ Len(D) = k
  <2>1. D = [i \in 1..k |-> D[i]]
    BY <1>2
  <2>2. D \in [1..k -> 0..ByteBase - 1]
    BY <1>5, <2>1
  <2>. QED BY <2>2, FunctionIsSeq
<1>7. D \in Seq(Nat)
  BY <1>4, <1>6
<1>8. PICK g \in [0..k -> Nat] :
        /\ g[0] = 0 /\ Number(D) = g[k]
        /\ \A i \in 1..k : g[i] = ByteBase * g[i - 1] + D[i]
  BY <1>6, <1>7, NumberIs
<1>9. 0..k \subseteq {i \in 0..k : g[i] = F[k - i]}
  <2>. DEFINE S == {i \in 0..k : g[i] = F[k - i]}
  <2>1. 0 \in S
    BY <1>3, <1>8
  <2>2. ASSUME NEW i \in 0..k - 1, i \in S PROVE i + 1 \in S
    <3>. DEFINE x == F[k - (i + 1)]
    <3>1. i + 1 \in 1..k /\ (i + 1) - 1 = i /\ k - i \in 1..k /\ (k - i) - 1 = k - (i + 1)
      BY <2>2
    <3>2. x \in Nat /\ F[k - i] = x \div ByteBase
      BY <1>1, <3>1
    <3>3. g[i + 1] = ByteBase * g[i] + D[i + 1] /\ D[i + 1] = x % ByteBase
      BY <1>5, <1>8, <3>1
    <3>4. g[i] = x \div ByteBase
      BY <2>2, <3>2
    <3>. HIDE DEF x
    <3>5. g[i + 1] = x
      BY <1>4, <3>2, <3>3, <3>4, DivideByte
    <3>. QED BY <2>2, <3>1, <3>5 DEF x
  <2>. HIDE DEF S
  <2>. QED BY <2>1, <2>2, UpTo DEF S
<1>10. g[k] = n
  <2>1. k \in 0..k /\ k - k = 0
    OBVIOUS
  <2>. QED BY <1>1, <1>9, <2>1
<1>. QED BY <1>6, <1>8, <1>10 DEF D

\* Two bytes hold a number below the square of ByteBase.
LEMMA TwoDigits ==
    ASSUME NEW n \in Nat, n < ByteBase * ByteBase
    PROVE  Shifted(n, 2)[2] = 0
<1>. DEFINE F == Shifted(n, 2)
<1>1. /\ F \in [0..2 -> Nat] /\ F[0] = n
      /\ \A i \in 1..2 : F[i] = F[i - 1] \div ByteBase
  <2>1. 2 \in Nat
    OBVIOUS
  <2>2. ShiftsDown(F, n, 2)
    BY <2>1, ShiftedIs
  <2>. HIDE DEF F
  <2>. QED BY <2>2 DEF ShiftsDown
<1>2. ByteBase \in Nat \ {0}
  BY ByteValues
<1>. HIDE DEF F
<1>3. F[1] = F[0] \div ByteBase /\ F[2] = F[1] \div ByteBase /\ F[1] \in Nat /\ F[2] \in Nat
  BY <1>1
<1>4. F[1] < ByteBase
  BY <1>1, <1>2, <1>3, DivideLess
<1>5. F[2] < 1
  BY <1>2, <1>3, <1>4, DivideLess
<1>. QED BY <1>3, <1>5 DEF F

\* Eight bytes hold a number below the eighth power of ByteBase.
LEMMA EightDigits ==
    ASSUME NEW n \in Nat, NEW b \in Nat, b = ByteBase, NEW p, p = b * b * b * b, n < p * p
    PROVE  Shifted(n, 8)[8] = 0
<1>. DEFINE F == Shifted(n, 8)
            p1 == b
            p2 == b * p1
            p3 == b * p2
            p4 == b * p3
            p5 == b * p4
            p6 == b * p5
            p7 == b * p6
            p8 == b * p7
<1>1. /\ F \in [0..8 -> Nat] /\ F[0] = n
      /\ \A i \in 1..8 : F[i] = F[i - 1] \div b
  <2>1. 8 \in Nat
    OBVIOUS
  <2>2. ShiftsDown(F, n, 8)
    BY <2>1, ShiftedIs
  <2>. HIDE DEF F
  <2>. QED BY <2>2 DEF ShiftsDown
<1>2. b \in Nat \ {0}
  BY ByteValues
<1>3. /\ p1 \in Nat /\ p2 \in Nat /\ p3 \in Nat /\ p4 \in Nat
      /\ p5 \in Nat /\ p6 \in Nat /\ p7 \in Nat
  <2>1. \A x \in Nat : b * x \in Nat
    OBVIOUS
  <2>. HIDE DEF p1, p2, p3, p4, p5, p6, p7
  <2>. QED BY <2>1 DEF p1, p2, p3, p4, p5, p6, p7
<1>4. p * p = p8
  BY <1>2
<1>. HIDE DEF F
<1>5. \A i \in 1..8 : F[i] = F[i - 1] \div b /\ F[i] \in Nat /\ F[i - 1] \in Nat
  BY <1>1
<1>6. \A i \in 1..8, m \in Nat : F[i - 1] < b * m => F[i] < m
  <2>. SUFFICES ASSUME NEW i \in 1..8, NEW m \in Nat, F[i - 1] < b * m PROVE F[i] < m
    OBVIOUS
  <2>. QED BY <1>2, <1>5, DivideLess
<1>7. F[0] < p8
  BY <1>1, <1>4
<1>. HIDE DEF p1, p2, p3, p4, p5, p6, p7, p8
<1>8. F[1] < p7 /\ F[2] < p6 /\ F[3] < p5 /\ F[4] < p4
  <2>1. F[1] < p7
    BY <1>3, <1>6, <1>7 DEF p8
  <2>2. F[2] < p6
    BY <1>3, <1>6, <2>1 DEF p7
  <2>3. F[3] < p5
    BY <1>3, <1>6, <2>2 DEF p6
  <2>4. F[4] < p4
    BY <1>3, <1>6, <2>3 DEF p5
  <2>. QED BY <2>1, <2>2, <2>3, <2>4
<1>9. F[8] < 1
  <2>1. F[5] < p3
    BY <1>3, <1>6, <1>8 DEF p4
  <2>2. F[6] < p2
    BY <1>3, <1>6, <2>1 DEF p3
  <2>3. F[7] < p1
    BY <1>3, <1>6, <2>2 DEF p2
  <2>4. b * 1 = p1
    BY <1>2 DEF p1
  <2>. QED BY <1>6, <2>3, <2>4
<1>10. F[8] = 0
  BY <1>5, <1>9
<1>. QED BY <1>10 DEF F

\* How a frame gives a length n: in its second byte, or in the digits after it.
Announces(n, first, digits) ==
    /\ LengthBytes(n) = <<first>> \o digits
    /\ digits \in Seq(0..ByteBase - 1) /\ first \in 0..Half - 1
    /\ \/ first < Half - 2 /\ first = n /\ Len(digits) = 0
       \/ first = Half - 2 /\ Len(digits) = 2 /\ Number(digits) = n
       \/ first = Half - 1 /\ Len(digits) = 8 /\ Number(digits) = n

Carried(n) == LET p == ByteBase * ByteBase * ByteBase * ByteBase IN n < p * p

LEMMA LengthAnnounced ==
    ASSUME NEW n \in Nat, Carried(n)
    PROVE  \E first, digits : Announces(n, first, digits)
<1>1. ByteBase \in Nat /\ Half \in 3..128 /\ ByteBase = 2 * Half
  BY ByteValues
<1>2. CASE n < Half - 2
  <2>1. LengthBytes(n) = <<n>>
    <3>1. n \notin Half - 2..ByteBase * ByteBase - 1
      BY <1>1, <1>2
    <3>. QED BY <1>2, <3>1, Zenon DEF LengthBytes
  <2>2. <<n>> = <<n>> \o <<>> /\ Len(<<>>) = 0 /\ <<>> \in Seq(0..ByteBase - 1)
    OBVIOUS
  <2>3. n \in 0..Half - 1
    BY <1>1, <1>2
  <2>4. Announces(n, n, <<>>)
    BY <1>2, <2>1, <2>2, <2>3 DEF Announces
  <2>. QED BY <2>4
<1>3. CASE n \in Half - 2..ByteBase * ByteBase - 1
  <2>1. LengthBytes(n) = <<Half - 2>> \o Digits(n, 2)
    BY <1>1, <1>3 DEF LengthBytes
  <2>2. n < ByteBase * ByteBase
    BY <1>1, <1>3
  <2>3. Shifted(n, 2)[2] = 0
    BY <2>2, TwoDigits
  <2>4. Digits(n, 2) \in Seq(0..ByteBase - 1) /\ Len(Digits(n, 2)) = 2 /\ Number(Digits(n, 2)) = n
    BY <2>3, DigitsRead
  <2>5. Half - 2 \in 0..Half - 1
    BY <1>1
  <2>6. Announces(n, Half - 2, Digits(n, 2))
    BY <2>1, <2>4, <2>5, Zenon DEF Announces
  <2>. QED BY <2>6
<1>4. CASE ~(n < Half - 2) /\ n \notin Half - 2..ByteBase * ByteBase - 1
  <2>1. LengthBytes(n) = <<Half - 1>> \o Digits(n, 8)
    BY <1>1, <1>4 DEF LengthBytes
  <2>3. Shifted(n, 8)[8] = 0
    BY <1>1, EightDigits DEF Carried
  <2>4. Digits(n, 8) \in Seq(0..ByteBase - 1) /\ Len(Digits(n, 8)) = 8 /\ Number(Digits(n, 8)) = n
    BY <2>3, DigitsRead
  <2>5. Half - 1 \in 0..Half - 1
    BY <1>1
  <2>6. Announces(n, Half - 1, Digits(n, 8))
    BY <2>1, <2>4, <2>5, Zenon DEF Announces
  <2>. QED BY <2>6
<1>. QED BY <1>2, <1>3, <1>4

\* The bits of a byte, the lowest first, and the byte they make.
BitsOf(a) == <<a % 2, (a \div 2) % 2, (a \div 4) % 2, (a \div 8) % 2,
               (a \div 16) % 2, (a \div 32) % 2, (a \div 64) % 2, (a \div 128) % 2>>
Bits == [1..8 -> 0..1]
ByteOf(b) == b[1] + 2 * b[2] + 4 * b[3] + 8 * b[4] + 16 * b[5] + 32 * b[6] + 64 * b[7] + 128 * b[8]

LEMMA BitsMakeByte ==
    ASSUME NEW a \in 0..255
    PROVE  BitsOf(a) \in Bits /\ ByteOf(BitsOf(a)) = a
<1>. DEFINE b == BitsOf(a)
<1>1. b \in Bits
  BY DEF BitsOf, Bits
<1>2. /\ b[1] = a % 2 /\ b[2] = (a \div 2) % 2 /\ b[3] = (a \div 4) % 2 /\ b[4] = (a \div 8) % 2
      /\ b[5] = (a \div 16) % 2 /\ b[6] = (a \div 32) % 2 /\ b[7] = (a \div 64) % 2
      /\ b[8] = (a \div 128) % 2
  BY DEF BitsOf
<1>3. a = 2 * (a \div 2) + (a % 2)
  OBVIOUS
<1>4. \A x \in 0..127 : x = 2 * (x \div 2) + (x % 2) /\ x \div 2 \in 0..63
  OBVIOUS
<1>5. /\ (a \div 2) \div 2 = a \div 4 /\ (a \div 4) \div 2 = a \div 8 /\ (a \div 8) \div 2 = a \div 16
      /\ (a \div 16) \div 2 = a \div 32 /\ (a \div 32) \div 2 = a \div 64
      /\ (a \div 64) \div 2 = a \div 128
  OBVIOUS
<1>6. a \div 2 \in 0..127 /\ a \div 128 \in 0..1
  OBVIOUS
<1>. HIDE DEF b
<1>7. /\ a \div 2 = 2 * (a \div 4) + b[2] /\ a \div 4 = 2 * (a \div 8) + b[3]
      /\ a \div 8 = 2 * (a \div 16) + b[4] /\ a \div 16 = 2 * (a \div 32) + b[5]
      /\ a \div 32 = 2 * (a \div 64) + b[6] /\ a \div 64 = 2 * (a \div 128) + b[7]
  BY <1>2, <1>4, <1>5, <1>6
<1>8. a \div 128 = b[8]
  BY <1>2, <1>6
<1>9. a = b[1] + 2 * b[2] + 4 * b[3] + 8 * b[4] + 16 * b[5] + 32 * b[6] + 64 * b[7] + 128 * b[8]
  BY <1>1, <1>2, <1>3, <1>7, <1>8
<1>. QED BY <1>1, <1>9 DEF b, ByteOf

\* The byte some bits make has these bits.
LEMMA Halved ==
    ASSUME NEW n, NEW h \in Nat, NEW c \in 0..1, n = 2 * h + c
    PROVE  n \in Nat /\ n \div 2 = h /\ n % 2 = c
  OBVIOUS

LEMMA ByteHasBits ==
    ASSUME NEW b \in Bits
    PROVE  ByteOf(b) \in 0..255 /\ BitsOf(ByteOf(b)) = b
<1>. DEFINE h6 == 2 * b[8] + b[7]
            h5 == 2 * h6 + b[6]
            h4 == 2 * h5 + b[5]
            h3 == 2 * h4 + b[4]
            h2 == 2 * h3 + b[3]
            h1 == 2 * h2 + b[2]
            a  == 2 * h1 + b[1]
<1>1. /\ b[1] \in 0..1 /\ b[2] \in 0..1 /\ b[3] \in 0..1 /\ b[4] \in 0..1
      /\ b[5] \in 0..1 /\ b[6] \in 0..1 /\ b[7] \in 0..1 /\ b[8] \in 0..1
  BY DEF Bits
<1>2. ByteOf(b) = a
  <2>. DEFINE b1 == b[1]  b2 == b[2]  b3 == b[3]  b4 == b[4]
              b5 == b[5]  b6 == b[6]  b7 == b[7]  b8 == b[8]
  <2>1. /\ b1 \in Int /\ b2 \in Int /\ b3 \in Int /\ b4 \in Int
        /\ b5 \in Int /\ b6 \in Int /\ b7 \in Int /\ b8 \in Int
    BY <1>1
  <2>2. ByteOf(b) = b1 + 2 * b2 + 4 * b3 + 8 * b4 + 16 * b5 + 32 * b6 + 64 * b7 + 128 * b8
    BY DEF ByteOf
  <2>3. a = 2 * (2 * (2 * (2 * (2 * (2 * (2 * b8 + b7) + b6) + b5) + b4) + b3) + b2) + b1
    OBVIOUS
  <2>. HIDE DEF b1, b2, b3, b4, b5, b6, b7, b8, a
  <2>. QED BY <2>1, <2>2, <2>3
<1>. HIDE DEF a, h1, h2, h3, h4, h5, h6
<1>3. b[8] \in Nat /\ b[8] <= 1 /\ b[8] % 2 = b[8]
  BY <1>1
<1>4. h6 \in Nat /\ h6 \div 2 = b[8] /\ h6 % 2 = b[7]
  BY <1>1, <1>3, Halved DEF h6
<1>5. h5 \in Nat /\ h5 \div 2 = h6 /\ h5 % 2 = b[6]
  BY <1>1, <1>4, Halved DEF h5
<1>6. h4 \in Nat /\ h4 \div 2 = h5 /\ h4 % 2 = b[5]
  BY <1>1, <1>5, Halved DEF h4
<1>7. h3 \in Nat /\ h3 \div 2 = h4 /\ h3 % 2 = b[4]
  BY <1>1, <1>6, Halved DEF h3
<1>8. h2 \in Nat /\ h2 \div 2 = h3 /\ h2 % 2 = b[3]
  BY <1>1, <1>7, Halved DEF h2
<1>9. h1 \in Nat /\ h1 \div 2 = h2 /\ h1 % 2 = b[2]
  BY <1>1, <1>8, Halved DEF h1
<1>10. a \in Nat /\ a \div 2 = h1 /\ a % 2 = b[1]
  BY <1>1, <1>9, Halved DEF a
<1>11. a <= 255
  <2>1. \A h \in Nat, c \in 0..1, m \in Nat : h <= m => 2 * h + c <= 2 * m + 1
    OBVIOUS
  <2>2. h6 <= 3
    BY <1>1, <1>3, <2>1 DEF h6
  <2>3. h5 <= 7
    BY <1>1, <1>4, <2>1, <2>2 DEF h5
  <2>4. h4 <= 15
    BY <1>1, <1>5, <2>1, <2>3 DEF h4
  <2>5. h3 <= 31
    BY <1>1, <1>6, <2>1, <2>4 DEF h3
  <2>6. h2 <= 63
    BY <1>1, <1>7, <2>1, <2>5 DEF h2
  <2>7. h1 <= 127
    BY <1>1, <1>8, <2>1, <2>6 DEF h1
  <2>. QED BY <1>1, <1>9, <2>1, <2>7 DEF a
<1>12. \A n \in 0..255 :
        /\ n \div 4 = (n \div 2) \div 2 /\ n \div 8 = (n \div 4) \div 2 /\ n \div 16 = (n \div 8) \div 2
        /\ n \div 32 = (n \div 16) \div 2 /\ n \div 64 = (n \div 32) \div 2
        /\ n \div 128 = (n \div 64) \div 2
  OBVIOUS
<1>13. a \in 0..255
  BY <1>10, <1>11
<1>14. a \div 4 = (a \div 2) \div 2 /\ a \div 8 = (a \div 4) \div 2 /\ a \div 16 = (a \div 8) \div 2
  BY <1>12, <1>13
<1>15. /\ a \div 32 = (a \div 16) \div 2 /\ a \div 64 = (a \div 32) \div 2
       /\ a \div 128 = (a \div 64) \div 2
  BY <1>12, <1>13
<1>16. a \div 4 = h2 /\ a \div 8 = h3 /\ a \div 16 = h4
  BY <1>10, <1>9, <1>8, <1>7, <1>14, Zenon
<1>17. a \div 32 = h5 /\ a \div 64 = h6 /\ a \div 128 = b[8]
  BY <1>4, <1>5, <1>6, <1>15, <1>16, Zenon
<1>18. BitsOf(a) = <<b[1], b[2], b[3], b[4], b[5], b[6], b[7], b[8]>>
  BY <1>3, <1>4, <1>5, <1>6, <1>7, <1>8, <1>9, <1>10, <1>16, <1>17, Zenon DEF BitsOf
<1>19. b = <<b[1], b[2], b[3], b[4], b[5], b[6], b[7], b[8]>>
  BY DEF Bits
<1>. QED BY <1>2, <1>13, <1>18, <1>19, Zenon

XorBits(a, b) == [i \in 1..8 |-> (a[i] + b[i]) % 2]

LEMMA XorIs ==
    ASSUME NEW a \in 0..255, NEW b \in 0..255
    PROVE  Xor(a, b) = ByteOf(XorBits(BitsOf(a), BitsOf(b)))
<1>1. \A x, y \in Nat : (x + y) % 2 = ((x % 2) + (y % 2)) % 2
  OBVIOUS
<1>2. \A x \in 0..255 : /\ x \in Nat /\ x \div 1 = x /\ x \div 2 \in Nat /\ x \div 4 \in Nat /\ x \div 8 \in Nat
                        /\ x \div 16 \in Nat /\ x \div 32 \in Nat /\ x \div 64 \in Nat /\ x \div 128 \in Nat
  OBVIOUS
<1>. DEFINE x == XorBits(BitsOf(a), BitsOf(b))
<1>3. /\ x[1] = ((a % 2) + (b % 2)) % 2
      /\ x[2] = (((a \div 2) % 2) + ((b \div 2) % 2)) % 2
      /\ x[3] = (((a \div 4) % 2) + ((b \div 4) % 2)) % 2
      /\ x[4] = (((a \div 8) % 2) + ((b \div 8) % 2)) % 2
      /\ x[5] = (((a \div 16) % 2) + ((b \div 16) % 2)) % 2
      /\ x[6] = (((a \div 32) % 2) + ((b \div 32) % 2)) % 2
      /\ x[7] = (((a \div 64) % 2) + ((b \div 64) % 2)) % 2
      /\ x[8] = (((a \div 128) % 2) + ((b \div 128) % 2)) % 2
  <2>. DEFINE p == BitsOf(a)
              q == BitsOf(b)
  <2>1. /\ p[1] = a % 2 /\ p[2] = (a \div 2) % 2 /\ p[3] = (a \div 4) % 2 /\ p[4] = (a \div 8) % 2
        /\ p[5] = (a \div 16) % 2 /\ p[6] = (a \div 32) % 2 /\ p[7] = (a \div 64) % 2
        /\ p[8] = (a \div 128) % 2
    BY DEF BitsOf
  <2>2. /\ q[1] = b % 2 /\ q[2] = (b \div 2) % 2 /\ q[3] = (b \div 4) % 2 /\ q[4] = (b \div 8) % 2
        /\ q[5] = (b \div 16) % 2 /\ q[6] = (b \div 32) % 2 /\ q[7] = (b \div 64) % 2
        /\ q[8] = (b \div 128) % 2
    BY DEF BitsOf
  <2>. HIDE DEF p, q
  <2>3. \A i \in 1..8 : x[i] = (p[i] + q[i]) % 2
    BY DEF XorBits, p, q
  <2>. HIDE DEF x
  <2>. QED BY <2>1, <2>2, <2>3
<1>. HIDE DEF x
<1>4. /\ x[1] = ((a \div 1) + (b \div 1)) % 2 /\ x[2] = ((a \div 2) + (b \div 2)) % 2
      /\ x[3] = ((a \div 4) + (b \div 4)) % 2 /\ x[4] = ((a \div 8) + (b \div 8)) % 2
      /\ x[5] = ((a \div 16) + (b \div 16)) % 2 /\ x[6] = ((a \div 32) + (b \div 32)) % 2
      /\ x[7] = ((a \div 64) + (b \div 64)) % 2 /\ x[8] = ((a \div 128) + (b \div 128)) % 2
  BY <1>1, <1>2, <1>3
<1>5. Xor(a, b) = x[1] + 2 * x[2] + 4 * x[3] + 8 * x[4] + 16 * x[5] + 32 * x[6] + 64 * x[7] + 128 * x[8]
  BY <1>4 DEF Xor
<1>. QED BY <1>5 DEF x, ByteOf

\* What is masked twice with the same byte is as it was.
LEMMA XorTwice ==
    ASSUME NEW a \in 0..255, NEW b \in 0..255
    PROVE  Xor(a, b) \in 0..255 /\ Xor(Xor(a, b), b) = a
<1>. DEFINE p == BitsOf(a)
            q == BitsOf(b)
            x == XorBits(p, q)
<1>1. p \in Bits /\ q \in Bits /\ ByteOf(p) = a
  BY BitsMakeByte
<1>2. Xor(a, b) = ByteOf(x)
  BY XorIs
<1>. HIDE DEF p, q
<1>3. x \in Bits
  <2>1. \A i \in 1..8 : (p[i] + q[i]) % 2 \in 0..1
    BY <1>1 DEF Bits
  <2>. QED BY <2>1 DEF XorBits, Bits
<1>4. XorBits(x, q) = p
  <2>1. \A i \in 1..8 : x[i] = (p[i] + q[i]) % 2 /\ p[i] \in 0..1 /\ q[i] \in 0..1
    BY <1>1 DEF XorBits, Bits
  <2>2. \A i \in 1..8 : (x[i] + q[i]) % 2 = p[i]
    BY <2>1
  <2>3. p = [i \in 1..8 |-> p[i]]
    BY <1>1 DEF Bits
  <2>. QED BY <2>2, <2>3 DEF XorBits
<1>. HIDE DEF x
<1>5. ByteOf(x) \in 0..255 /\ BitsOf(ByteOf(x)) = x
  BY <1>3, ByteHasBits
<1>6. Xor(ByteOf(x), b) = ByteOf(XorBits(BitsOf(ByteOf(x)), q))
  BY <1>5, XorIs DEF q
<1>7. Xor(ByteOf(x), b) = a
  BY <1>1, <1>4, <1>5, <1>6
<1>. QED BY <1>2, <1>5, <1>7

\* The elements of a concatenation.
LEMMA ConcatIs ==
    ASSUME NEW S, NEW s \in Seq(S), NEW t \in Seq(S)
    PROVE  /\ s \o t \in Seq(S) /\ Len(s \o t) = Len(s) + Len(t)
           /\ Len(s) \in Nat /\ Len(t) \in Nat
           /\ \A i \in 1..Len(s) : (s \o t)[i] = s[i]
           /\ \A i \in 1..Len(t) : (s \o t)[Len(s) + i] = t[i]
<1>. DEFINE u == s \o t
<1>1. /\ u \in Seq(S) /\ Len(u) = Len(s) + Len(t)
      /\ \A i \in 1..Len(s) + Len(t) : u[i] = IF i <= Len(s) THEN s[i] ELSE t[i - Len(s)]
  BY ConcatProperties
<1>2. Len(s) \in Nat /\ Len(t) \in Nat
  BY LenProperties
<1>. HIDE DEF u
<1>3. \A i \in 1..Len(s) : u[i] = s[i]
  BY <1>1, <1>2
<1>4. ASSUME NEW i \in 1..Len(t) PROVE u[Len(s) + i] = t[i]
  <2>. DEFINE k == Len(s) + i
  <2>1. k \in 1..Len(s) + Len(t) /\ ~(k <= Len(s)) /\ k - Len(s) = i
    BY <1>2
  <2>. HIDE DEF k
  <2>2. u[k] = t[k - Len(s)]
    BY <1>1, <2>1
  <2>. QED BY <2>1, <2>2 DEF k
<1>. QED BY <1>1, <1>2, <1>3, <1>4 DEF u

\* What follows a sequence, and what begins one, taken back out.
LEMMA EndOf ==
    ASSUME NEW S, NEW s \in Seq(S), NEW t \in Seq(S)
    PROVE  SubSeq(s \o t, Len(s) + 1, Len(s \o t)) = t
<1>. DEFINE u == s \o t
            e == SubSeq(u, Len(s) + 1, Len(u))
<1>1. /\ u \in Seq(S) /\ Len(u) = Len(s) + Len(t) /\ Len(s) \in Nat /\ Len(t) \in Nat
      /\ \A i \in 1..Len(s) + Len(t) : u[i] = IF i <= Len(s) THEN s[i] ELSE t[i - Len(s)]
  BY ConcatProperties, LenProperties
<1>. HIDE DEF u
<1>2. \A i \in Len(s) + 1..Len(u) : u[i] \in S
  BY <1>1, ElementOfSeq
<1>3. /\ e \in Seq(S) /\ Len(e) = IF Len(s) + 1 <= Len(u) THEN Len(u) - (Len(s) + 1) + 1 ELSE 0
      /\ \A i \in 1..Len(u) - (Len(s) + 1) + 1 : e[i] = u[Len(s) + 1 + i - 1]
  <2>1. Len(s) + 1 \in Int /\ Len(u) \in Int
    BY <1>1
  <2>. QED BY <1>2, <2>1, SubSeqProperties
<1>. HIDE DEF e
<1>4. Len(e) = Len(t)
  BY <1>1, <1>3
<1>5. ASSUME NEW i \in 1..Len(e) PROVE e[i] = t[i]
  <2>1. e[i] = u[Len(s) + i]
    BY <1>1, <1>3, <1>4
  <2>2. u[Len(s) + i] = t[i]
    BY <1>4, ConcatIs DEF u
  <2>. QED BY <2>1, <2>2
<1>6. e = t
  BY <1>3, <1>4, <1>5, SeqEqual
<1>. QED BY <1>6 DEF e, u

LEMMA PartOf ==
    ASSUME NEW S, NEW s \in Seq(S), NEW t \in Seq(S),
           NEW m \in 1..Len(s) + 1, NEW n \in 0..Len(s)
    PROVE  SubSeq(s \o t, m, n) = SubSeq(s, m, n)
<1>. DEFINE u == s \o t
            d == SubSeq(u, m, n)
            e == SubSeq(s, m, n)
<1>1. /\ u \in Seq(S) /\ Len(u) = Len(s) + Len(t) /\ Len(s) \in Nat /\ Len(t) \in Nat
      /\ \A i \in 1..Len(s) + Len(t) : u[i] = IF i <= Len(s) THEN s[i] ELSE t[i - Len(s)]
  BY ConcatProperties, LenProperties
<1>. HIDE DEF u
<1>2. \A i \in m..n : s[i] \in S /\ u[i] = s[i] /\ u[i] \in S
  BY <1>1, ElementOfSeq
<1>3. m \in Int /\ n \in Int
  BY <1>1
<1>4. /\ d \in Seq(S) /\ Len(d) = IF m <= n THEN n - m + 1 ELSE 0
      /\ \A i \in 1..n - m + 1 : d[i] = u[m + i - 1]
  BY <1>2, <1>3, SubSeqProperties
<1>5. /\ e \in Seq(S) /\ Len(e) = IF m <= n THEN n - m + 1 ELSE 0
      /\ \A i \in 1..n - m + 1 : e[i] = s[m + i - 1]
  BY <1>2, <1>3, SubSeqProperties
<1>. HIDE DEF d, e
<1>6. ASSUME NEW i \in 1..Len(d) PROVE d[i] = e[i]
  <2>1. i \in 1..n - m + 1 /\ m + i - 1 \in m..n
    BY <1>3, <1>4
  <2>. QED BY <1>2, <1>4, <1>5, <2>1
<1>7. d = e
  BY <1>4, <1>5, <1>6, SeqEqual
<1>. QED BY <1>7 DEF d, e, u

\* The parts of a frame, by the places where ParseFrame looks for them.
FrameOf(data, a, b, digits, key, rest) ==
    /\ data[1] = a /\ data[2] = b
    /\ SubSeq(data, 3, 2 + Len(digits)) = digits
    /\ SubSeq(data, 2 + Len(digits) + 1, 2 + Len(digits) + Len(key)) = key
    /\ SubSeq(data, 2 + Len(digits) + Len(key) + 1, Len(data)) = rest

LEMMA FrameParts ==
    ASSUME NEW a \in Nat, NEW b \in Nat, NEW digits \in Seq(Nat), NEW key \in Seq(Nat),
           NEW rest \in Seq(Nat)
    PROVE  FrameOf(((<<a, b>> \o digits) \o key) \o rest, a, b, digits, key, rest)
<1>. DEFINE h == <<a, b>>
            u == h \o digits
            v == u \o key
            w == v \o rest
<1>1. h \in Seq(Nat) /\ Len(h) = 2 /\ h[1] = a /\ h[2] = b
  OBVIOUS
<1>. HIDE DEF h
<1>2. /\ u \in Seq(Nat) /\ Len(u) = 2 + Len(digits) /\ Len(digits) \in Nat /\ Len(key) \in Nat
      /\ u[1] = a /\ u[2] = b
  <2>1. /\ u \in Seq(Nat) /\ Len(u) = Len(h) + Len(digits) /\ Len(digits) \in Nat
        /\ \A i \in 1..Len(h) : u[i] = h[i]
    BY <1>1, ConcatIs, ZenonT(30)
  <2>2. Len(key) \in Nat
    BY LenProperties
  <2>. HIDE DEF u
  <2>. QED BY <1>1, <2>1, <2>2
<1>3. SubSeq(u, 3, 2 + Len(digits)) = digits
  BY <1>1, <1>2, EndOf
<1>. HIDE DEF u
<1>4. v \in Seq(Nat) /\ Len(v) = 2 + Len(digits) + Len(key) /\ v[1] = a /\ v[2] = b
  <2>1. /\ v \in Seq(Nat) /\ Len(v) = Len(u) + Len(key)
        /\ \A i \in 1..Len(u) : v[i] = u[i]
    <3>1. u \in Seq(Nat)
      BY <1>2
    <3>. QED BY <3>1, ConcatIs
  <2>. HIDE DEF v
  <2>. QED BY <1>2, <2>1, SMTT(30)
<1>5. SubSeq(v, 3, 2 + Len(digits)) = digits
  <2>1. 3 \in 1..Len(u) + 1 /\ 2 + Len(digits) \in 0..Len(u)
    BY <1>2
  <2>2. SubSeq(v, 3, 2 + Len(digits)) = SubSeq(u, 3, 2 + Len(digits))
    BY <1>2, <2>1, PartOf
  <2>. QED BY <1>3, <2>2
<1>6. SubSeq(v, 2 + Len(digits) + 1, 2 + Len(digits) + Len(key)) = key
  <2>1. SubSeq(v, Len(u) + 1, Len(v)) = key
    BY <1>2, EndOf
  <2>. QED BY <1>2, <1>4, <2>1
<1>. HIDE DEF v
<1>7. w[1] = a /\ w[2] = b
  <2>1. \A i \in 1..Len(v) : w[i] = v[i]
    <3>1. v \in Seq(Nat)
      BY <1>4
    <3>. QED BY <3>1, ConcatIs
  <2>. HIDE DEF w
  <2>. QED BY <1>2, <1>4, <2>1, SMTT(30)
<1>8. SubSeq(w, 3, 2 + Len(digits)) = digits
  <2>1. 3 \in 1..Len(v) + 1 /\ 2 + Len(digits) \in 0..Len(v)
    BY <1>2, <1>4
  <2>2. SubSeq(w, 3, 2 + Len(digits)) = SubSeq(v, 3, 2 + Len(digits))
    BY <1>4, <2>1, PartOf
  <2>. QED BY <1>5, <2>2
<1>9. SubSeq(w, 2 + Len(digits) + 1, 2 + Len(digits) + Len(key)) = key
  <2>. DEFINE m == 2 + Len(digits) + 1
              n == 2 + Len(digits) + Len(key)
  <2>1. m \in 1..Len(v) + 1 /\ n \in 0..Len(v)
    BY <1>2, <1>4, SMTT(30)
  <2>. HIDE DEF m, n
  <2>2. SubSeq(w, m, n) = SubSeq(v, m, n)
    BY <1>4, <2>1, PartOf
  <2>. QED BY <1>6, <2>2 DEF m, n
<1>10. SubSeq(w, 2 + Len(digits) + Len(key) + 1, Len(w)) = rest
  <2>1. SubSeq(w, Len(v) + 1, Len(w)) = rest
    BY <1>4, EndOf
  <2>. QED BY <1>4, <2>1
<1>11. FrameOf(w, a, b, digits, key, rest)
  BY <1>7, <1>8, <1>9, <1>10 DEF FrameOf
<1>. QED BY <1>11 DEF h, u, v, w

\* What ParseFrame makes of the parts.
LEMMA PartsParsed ==
    ASSUME NEW n, NEW first, NEW digits, Announces(n, first, digits),
           NEW data, NEW a, NEW b, NEW key, NEW rest, FrameOf(data, a, b, digits, key, rest),
           \/ b = first /\ key = <<>>
           \/ b = Half + first /\ Len(key) = 4
    PROVE  /\ ParseFrame(data).payload_length = n
           /\ ParseFrame(data).payload_data = IF b = first THEN rest ELSE Unmask(rest, key)
<1>. DEFINE k == Len(digits)
            short == data[2] % Half
            more == CASE short = Half - 2 -> 2 [] short = Half - 1 -> 8 [] OTHER -> 0
            masked == data[2] >= Half
            place == 2 + more
            offset == place + (IF masked THEN 4 ELSE 0)
            after == SubSeq(data, offset + 1, Len(data))
<1>1. Half \in 3..128
  BY ByteValues
<1>2. /\ first \in 0..Half - 1
      /\ \/ first < Half - 2 /\ first = n /\ k = 0
         \/ first = Half - 2 /\ k = 2 /\ Number(digits) = n
         \/ first = Half - 1 /\ k = 8 /\ Number(digits) = n
  BY DEF Announces
<1>3. /\ data[2] = b /\ SubSeq(data, 3, 2 + k) = digits
      /\ SubSeq(data, 2 + k + 1, 2 + k + Len(key)) = key
      /\ SubSeq(data, 2 + k + Len(key) + 1, Len(data)) = rest
  BY DEF FrameOf
<1>4. /\ ParseFrame(data).payload_length = IF more = 0 THEN short ELSE Number(SubSeq(data, 3, 2 + more))
      /\ ParseFrame(data).payload_data =
           IF masked THEN Unmask(after, SubSeq(data, place + 1, place + 4)) ELSE after
  BY DEF ParseFrame
<1>. HIDE DEF k
<1>5. short = first /\ (masked <=> b # first)
  <2>1. CASE b = first /\ key = <<>>
    <3>1. first % Half = first /\ ~(first >= Half)
      BY <1>1, <1>2
    <3>. QED BY <1>3, <2>1, <3>1
  <2>2. CASE b = Half + first /\ Len(key) = 4
    <3>1. b = Half * 1 + first /\ first < Half /\ first >= 0
      BY <1>1, <1>2, <2>2
    <3>2. b % Half = first
      BY <1>1, <1>2, <2>2
    <3>. QED BY <1>1, <1>2, <1>3, <2>2, <3>2
  <2>. QED BY <2>1, <2>2
<1>. HIDE DEF short, masked
<1>6. more = k
  <2>1. CASE first < Half - 2 /\ first = n /\ k = 0
    <3>1. short # Half - 2 /\ short # Half - 1
      BY <1>1, <1>2, <1>5, <2>1
    <3>. QED BY <2>1, <3>1
  <2>2. CASE first = Half - 2 /\ k = 2
    <3>1. short = Half - 2 /\ short # Half - 1
      BY <1>1, <1>5, <2>2
    <3>. QED BY <2>2, <3>1
  <2>3. CASE first = Half - 1 /\ k = 8
    <3>1. short = Half - 1 /\ short # Half - 2
      BY <1>1, <1>5, <2>3
    <3>. QED BY <2>3, <3>1
  <2>. QED BY <1>2, <2>1, <2>2, <2>3
<1>7. offset = 2 + k + Len(key) /\ (masked => Len(key) = 4)
  <2>1. CASE b = first /\ key = <<>>
    BY <1>2, <1>5, <1>6, <2>1
  <2>2. CASE b = Half + first /\ Len(key) = 4
    <3>1. b # first
      BY <1>1, <1>2, <2>2
    <3>. QED BY <1>2, <1>5, <1>6, <2>2, <3>1
  <2>. QED BY <2>1, <2>2
<1>. HIDE DEF more
<1>8. after = rest
  BY <1>3, <1>7
<1>. HIDE DEF offset, after
<1>9. ParseFrame(data).payload_data = IF b = first THEN rest ELSE Unmask(rest, key)
  <2>1. CASE masked
    <3>1. SubSeq(data, place + 1, place + 4) = key
      BY <1>3, <1>6, <1>7, <2>1
    <3>. QED BY <1>4, <1>5, <1>8, <2>1, <3>1
  <2>2. CASE ~masked
    BY <1>4, <1>5, <1>8, <2>2
  <2>. QED BY <2>1, <2>2
<1>10. ParseFrame(data).payload_length = n
  <2>1. CASE k = 0
    BY <1>1, <1>2, <1>4, <1>5, <1>6, <2>1
  <2>2. CASE k # 0
    BY <1>1, <1>2, <1>3, <1>4, <1>6, <2>2
  <2>. QED BY <2>1, <2>2
<1>. QED BY <1>9, <1>10

\* What arrives, in these parts.
IsFrame(i) ==
    /\ i.payload \in Seq(0..ByteBase - 1) /\ i.more \in Seq(0..ByteBase - 1)
    /\ Carried(Len(i.payload)) /\ i.opcode \in 0..Half - 1
    /\ i.key = <<>> \/ i.key \in [1..4 -> 0..ByteBase - 1]

Masked(s, key) == [i \in DOMAIN s |-> Xor(s[i], key[((i - 1) % 4) + 1])]

Cat(s, t) == s \o t

LEMMA CatAssociative ==
    \A s, t, u \in Seq(Nat) : Cat(s, t) \in Seq(Nat) /\ Cat(Cat(s, t), u) = Cat(s, Cat(t, u))
<1>. SUFFICES ASSUME NEW s \in Seq(Nat), NEW t \in Seq(Nat), NEW u \in Seq(Nat)
              PROVE  Cat(s, t) \in Seq(Nat) /\ Cat(Cat(s, t), u) = Cat(s, Cat(t, u))
  OBVIOUS
<1>1. Cat(s, t) \in Seq(Nat)
  BY ConcatProperties DEF Cat
<1>2. Cat(Cat(s, t), u) = Cat(s, Cat(t, u))
  BY ConcatAssociative, SMTT(30) DEF Cat
<1>. QED BY <1>1, <1>2

LEMMA CatPair ==
    ASSUME NEW h \in Nat, NEW x \in Nat
    PROVE  Cat(<<h>>, <<x>>) = <<h, x>>
<1>. DEFINE s == <<h>>
            t == <<x>>
            d == <<h, x>>
            c == s \o t
<1>1. s \in Seq(Nat) /\ Len(s) = 1 /\ s[1] = h /\ t \in Seq(Nat) /\ Len(t) = 1 /\ t[1] = x
  OBVIOUS
<1>2. d \in Seq(Nat) /\ Len(d) = 2 /\ d[1] = h /\ d[2] = x
  OBVIOUS
<1>. HIDE DEF s, t, d
<1>3. /\ c \in Seq(Nat) /\ Len(c) = Len(s) + Len(t)
      /\ \A i \in 1..Len(s) : c[i] = s[i]
      /\ \A i \in 1..Len(t) : c[Len(s) + i] = t[i]
  <2>1. s \in Seq(Nat) /\ t \in Seq(Nat)
    BY <1>1
  <2>. QED BY <2>1, ConcatIs
<1>. HIDE DEF c
<1>4. Len(c) = 2 /\ c[1] = h /\ c[2] = x
  <2>1. Len(c) = 2 /\ c[1] = h
    BY <1>1, <1>3
  <2>2. c[Len(s) + 1] = t[1]
    BY <1>1, <1>3
  <2>. QED BY <1>1, <2>1, <2>2
<1>5. \A i \in 1..Len(c) : c[i] = d[i]
  BY <1>2, <1>4
<1>6. c = d
  BY <1>2, <1>3, <1>4, <1>5, SeqEqual
<1>. QED BY <1>6 DEF Cat, c, d, s, t

LEMMA HeadAndTail ==
    ASSUME NEW x \in Nat, NEW s \in Seq(Nat)
    PROVE  Head(<<x>> \o s) = x /\ Tail(<<x>> \o s) = s
<1>. DEFINE one == <<x>>
            u == one \o s
<1>1. one \in Seq(Nat) /\ Len(one) = 1 /\ one[1] = x
  OBVIOUS
<1>. HIDE DEF one
<1>2. /\ u \in Seq(Nat) /\ Len(u) = Len(one) + Len(s) /\ Len(s) \in Nat
      /\ \A i \in 1..Len(one) : u[i] = one[i]
      /\ \A i \in 1..Len(s) : u[Len(one) + i] = s[i]
  <2>1. one \in Seq(Nat)
    BY <1>1
  <2>. QED BY <2>1, ConcatIs
<1>. HIDE DEF u
<1>3. u # <<>> /\ u[1] = x /\ Len(u) = 1 + Len(s)
  BY <1>1, <1>2
<1>4. Head(u) = x
  BY <1>2, <1>3
<1>5. Tail(u) \in Seq(Nat) /\ Len(Tail(u)) = Len(s) /\ \A i \in 1..Len(Tail(u)) : Tail(u)[i] = u[i + 1]
  BY <1>2, <1>3, HeadTailProperties
<1>6. ASSUME NEW i \in 1..Len(Tail(u)) PROVE Tail(u)[i] = s[i]
  <2>1. i \in 1..Len(s) /\ Len(one) + i = i + 1
    BY <1>1, <1>2, <1>5
  <2>. QED BY <1>2, <1>5, <2>1
<1>7. Tail(u) = s
  BY <1>5, <1>6, SeqEqual
<1>. QED BY <1>4, <1>7 DEF u, one

\* The parts of what is sent, in the order FrameParts takes them.
LEMMA PlainParts ==
    ASSUME NEW h \in Nat, NEW first \in Nat, NEW digits \in Seq(Nat),
           NEW body \in Seq(Nat), NEW more \in Seq(Nat)
    PROVE  Cat(Cat(Cat(<<h>>, Cat(<<first>>, digits)), body), more)
             = Cat(Cat(Cat(<<h, first>>, digits), <<>>), Cat(body, more))
<1>1. <<first>> \in Seq(Nat) /\ <<h, first>> \in Seq(Nat) /\ <<h>> \in Seq(Nat)
  OBVIOUS
<1>2. Cat(<<h>>, <<first>>) = <<h, first>>
  BY CatPair
<1>. DEFINE a == <<h>>
            c == <<first>>
            d == <<h, first>>
<1>. HIDE DEF a, c, d
<1>3. a \in Seq(Nat) /\ c \in Seq(Nat) /\ d \in Seq(Nat) /\ Cat(a, c) = d
  BY <1>1, <1>2 DEF a, c, d
<1>4. Cat(a, Cat(c, digits)) = Cat(d, digits)
  <2>1. Cat(Cat(a, c), digits) = Cat(a, Cat(c, digits))
    BY <1>3, CatAssociative
  <2>. QED BY <1>3, <2>1
<1>5. Cat(d, digits) \in Seq(Nat)
  BY <1>3, CatAssociative, Zenon
<1>6. Cat(Cat(d, digits), <<>>) = Cat(d, digits)
  BY <1>5, ConcatEmptySeq DEF Cat
<1>7. Cat(Cat(Cat(d, digits), body), more) = Cat(Cat(d, digits), Cat(body, more))
  BY <1>5, CatAssociative
<1>. QED BY <1>4, <1>6, <1>7, Zenon DEF a, c, d

LEMMA KeyedParts ==
    ASSUME NEW h \in Nat, NEW f \in Nat, NEW digits \in Seq(Nat),
           NEW key \in Seq(Nat), NEW body \in Seq(Nat), NEW more \in Seq(Nat)
    PROVE  Cat(Cat(Cat(Cat(<<h, f>>, digits), key), body), more)
             = Cat(Cat(Cat(<<h, f>>, digits), key), Cat(body, more))
<1>. DEFINE e == <<h, f>>
<1>1. e \in Seq(Nat)
  OBVIOUS
<1>. HIDE DEF e
<1>2. Cat(Cat(e, digits), key) \in Seq(Nat)
  BY <1>1, CatAssociative, Zenon
<1>3. Cat(Cat(Cat(Cat(e, digits), key), body), more) = Cat(Cat(Cat(e, digits), key), Cat(body, more))
  BY <1>2, CatAssociative
<1>. QED BY <1>3, Zenon DEF e

\* What the payload and the bytes behind it come to, unmasked.
LEMMA MaskedIs ==
    ASSUME NEW s \in Seq(0..ByteBase - 1), NEW key \in [1..4 -> 0..ByteBase - 1]
    PROVE  /\ Unmask(s, key) = Masked(s, key)
           /\ Masked(s, key) \in Seq(0..255) /\ Len(Masked(s, key)) = Len(s)
           /\ \A i \in 1..Len(s) : /\ Masked(s, key)[i] = Xor(s[i], key[((i - 1) % 4) + 1])
                                   /\ Xor(Masked(s, key)[i], key[((i - 1) % 4) + 1]) = s[i]
<1>. DEFINE n == Len(s)
            m == Masked(s, key)
            k(i) == key[((i - 1) % 4) + 1]
<1>1. n \in Nat /\ DOMAIN s = 1..n
  BY LenProperties
<1>2. m = [i \in 1..n |-> Xor(s[i], k(i))]
  BY <1>1 DEF Masked
<1>. HIDE DEF n, m
<1>3. ASSUME NEW i \in 1..n PROVE s[i] \in 0..255 /\ k(i) \in 0..255
  <2>1. 0..ByteBase - 1 \subseteq 0..255
    BY ByteValues
  <2>2. s[i] \in 0..ByteBase - 1
    BY ElementOfSeq DEF n
  <2>3. ((i - 1) % 4) + 1 \in 1..4
    BY <1>1
  <2>4. k(i) \in 0..ByteBase - 1
    BY <2>3
  <2>. HIDE DEF k
  <2>. QED BY <2>1, <2>2, <2>4, Zenon
<1>4. ASSUME NEW i \in 1..n PROVE m[i] = Xor(s[i], k(i)) /\ m[i] \in 0..255 /\ Xor(m[i], k(i)) = s[i]
  <2>1. m[i] = Xor(s[i], k(i))
    BY <1>2
  <2>. HIDE DEF k
  <2>2. Xor(s[i], k(i)) \in 0..255 /\ Xor(Xor(s[i], k(i)), k(i)) = s[i]
    BY <1>3, XorTwice
  <2>. QED BY <2>1, <2>2
<1>5. m \in [1..n -> 0..255]
  BY <1>2, <1>4
<1>6. m \in Seq(0..255) /\ Len(m) = n
  BY <1>1, <1>5, FunctionIsSeq
<1>7. Unmask(s, key) = m
  BY DEF Unmask, Masked, m
<1>. QED BY <1>4, <1>6, <1>7 DEF n, m

\* The bytes a frame is restored to.
BeginsWith(d, payload, more) ==
    /\ Len(d) = Len(payload) + Len(more)
    /\ SubSeq(d, 1, Len(payload)) = payload

LEMMA PlainRestored ==
    ASSUME NEW payload \in Seq(Nat), NEW more \in Seq(Nat)
    PROVE  BeginsWith(Cat(payload, more), payload, more)
<1>1. Len(payload \o more) = Len(payload) + Len(more) /\ Len(payload) \in Nat
  BY ConcatProperties, LenProperties
<1>2. 1 \in 1..Len(payload) + 1 /\ Len(payload) \in 0..Len(payload)
  BY <1>1
<1>3. SubSeq(payload \o more, 1, Len(payload)) = SubSeq(payload, 1, Len(payload))
  BY <1>2, PartOf
<1>4. SubSeq(payload, 1, Len(payload)) = payload
  BY SubSeqFull
<1>. QED BY <1>1, <1>3, <1>4 DEF BeginsWith, Cat

LEMMA KeyedRestored ==
    ASSUME NEW payload \in Seq(0..ByteBase - 1), NEW more \in Seq(0..ByteBase - 1),
           NEW key \in [1..4 -> 0..ByteBase - 1]
    PROVE  BeginsWith(Unmask(Cat(Masked(payload, key), more), key), payload, more)
<1>. DEFINE m == Masked(payload, key)
            c == Cat(m, more)
            d == Unmask(c, key)
            L == Len(payload)
            k(i) == key[((i - 1) % 4) + 1]
<1>1. /\ m \in Seq(0..255) /\ Len(m) = L
      /\ \A i \in 1..L : Xor(m[i], k(i)) = payload[i]
  BY MaskedIs
<1>. HIDE DEF m
<1>2. more \in Seq(0..255)
  <2>. DEFINE S == 0..ByteBase - 1
              T == 0..255
  <2>1. S \subseteq T /\ more \in Seq(S)
    BY ByteValues
  <2>. HIDE DEF S, T
  <2>2. more \in Seq(T)
    BY <2>1, SeqMonotonic
  <2>. QED BY <2>2 DEF T
<1>3. /\ c \in Seq(0..255) /\ Len(c) = Len(m) + Len(more) /\ Len(m) \in Nat /\ Len(more) \in Nat
      /\ \A i \in 1..Len(m) : c[i] = m[i]
  <2>1. m \in Seq(0..255)
    BY <1>1
  <2>. QED BY <1>2, <2>1, ConcatIs DEF Cat
<1>. HIDE DEF c
<1>4. d = [i \in 1..Len(c) |-> Xor(c[i], k(i))]
  <2>1. DOMAIN c = 1..Len(c)
    BY <1>3, LenProperties
  <2>. QED BY <2>1 DEF Unmask
<1>. HIDE DEF d, k
<1>5. Len(c) \in Nat /\ Len(d) = Len(c)
  BY <1>3, <1>4
<1>6. ASSUME NEW i \in 1..L PROVE d[i] = payload[i]
  <2>1. i \in 1..Len(c) /\ c[i] = m[i]
    BY <1>1, <1>3
  <2>2. d[i] = Xor(c[i], k(i))
    BY <1>4, <2>1
  <2>. QED BY <1>1, <2>1, <2>2
<1>. DEFINE e == SubSeq(d, 1, L)
<1>7. L \in Int
  BY LenProperties
<1>8. \A i \in 1..L : d[i] \in 0..ByteBase - 1
  BY <1>6, ElementOfSeq
<1>9. /\ e \in Seq(0..ByteBase - 1) /\ Len(e) = IF 1 <= L THEN L - 1 + 1 ELSE 0
      /\ \A i \in 1..L - 1 + 1 : e[i] = d[1 + i - 1]
  BY <1>7, <1>8, SubSeqProperties
<1>. HIDE DEF e
<1>10. Len(e) = L
  BY <1>1, <1>3, <1>9
<1>11. ASSUME NEW i \in 1..Len(e) PROVE e[i] = payload[i]
  <2>1. i \in 1..L /\ i \in 1..L - 1 + 1 /\ 1 + i - 1 = i
    BY <1>1, <1>3, <1>10
  <2>. QED BY <1>6, <1>9, <2>1
<1>12. e = payload
  BY <1>9, <1>10, <1>11, SeqEqual
<1>. QED BY <1>1, <1>3, <1>5, <1>12 DEF BeginsWith, e, d, c, m

\* ParseFrame reads the frame that was sent, masked or not.
ReadsFrame(v, i) ==
    /\ v.payload_length = Len(i.payload)
    /\ BeginsWith(v.payload_data, i.payload, i.more)

LEMMA FrameRead ==
    ASSUME NEW i, IsFrame(i)
    PROVE  ReadsFrame(ParseFrame(Received(i)), i)
<1>. DEFINE n == Len(i.payload)
            h == Half + i.opcode
<1>1. /\ i.payload \in Seq(0..ByteBase - 1) /\ i.more \in Seq(0..ByteBase - 1)
      /\ Carried(n) /\ i.opcode \in 0..Half - 1
      /\ i.key = <<>> \/ i.key \in [1..4 -> 0..ByteBase - 1]
  BY DEF IsFrame
<1>2. n \in Nat /\ Half \in Nat
  BY <1>1, LenProperties, ByteValues
<1>3. h \in Nat
  BY <1>1, <1>2
<1>4. PICK first, digits : Announces(n, first, digits)
  BY <1>1, <1>2, LengthAnnounced
<1>5. /\ LengthBytes(n) = <<first>> \o digits
      /\ digits \in Seq(0..ByteBase - 1) /\ first \in 0..Half - 1
  BY <1>4 DEF Announces
<1>6. 0..ByteBase - 1 \subseteq Nat /\ 0..255 \subseteq Nat
  BY ByteValues
<1>7. digits \in Seq(Nat) /\ i.payload \in Seq(Nat) /\ i.more \in Seq(Nat)
  BY <1>1, <1>5, <1>6, SeqMonotonic
<1>8. first \in Nat /\ Half + first \in Nat /\ Half + first # first
  BY <1>2, <1>5, ByteValues
<1>. HIDE DEF n, h
<1>9. CASE i.key = <<>>
  <2>. DEFINE data == Received(i)
              rest == Cat(i.payload, i.more)
  <2>1. data = Cat(Cat(Cat(<<h>>, Cat(<<first>>, digits)), i.payload), i.more)
    BY <1>5, <1>9, Zenon DEF Received, BuildFrame, Cat, n, h
  <2>2. <<>> \in Seq(Nat)
    OBVIOUS
  <2>3. data = Cat(Cat(Cat(<<h, first>>, digits), <<>>), rest)
    <3>1. Cat(Cat(Cat(<<h>>, Cat(<<first>>, digits)), i.payload), i.more)
            = Cat(Cat(Cat(<<h, first>>, digits), <<>>), rest)
      BY <1>3, <1>7, <1>8, PlainParts
    <3>. QED BY <2>1, <3>1, Zenon
  <2>4. rest \in Seq(Nat)
    BY <1>7, ConcatProperties DEF Cat
  <2>. HIDE DEF rest
  <2>5. FrameOf(((<<h, first>> \o digits) \o <<>>) \o rest, h, first, digits, <<>>, rest)
    BY <1>3, <1>7, <1>8, <2>2, <2>4, FrameParts
  <2>6. FrameOf(data, h, first, digits, <<>>, rest)
    BY <2>3, <2>5, Zenon DEF Cat
  <2>. HIDE DEF data
  <2>7. ParseFrame(data).payload_length = n /\ ParseFrame(data).payload_data = rest
    <3>1. first = first /\ <<>> = <<>>
      OBVIOUS
    <3>2. ParseFrame(data).payload_data = IF first = first THEN rest ELSE Unmask(rest, <<>>)
      BY <1>4, <2>6, <3>1, PartsParsed
    <3>3. ParseFrame(data).payload_length = n
      BY <1>4, <2>6, <3>1, PartsParsed
    <3>. QED BY <3>2, <3>3
  <2>8. BeginsWith(rest, i.payload, i.more)
    BY <1>7, PlainRestored DEF rest
  <2>. QED BY <2>7, <2>8 DEF ReadsFrame, data, n
<1>10. CASE i.key \in [1..4 -> 0..ByteBase - 1]
  <2>. DEFINE data == Received(i)
              key == i.key
              body == Masked(i.payload, key)
              rest == Cat(body, i.more)
              f == Half + first
  <2>1. key \in Seq(Nat) /\ Len(key) = 4 /\ key # <<>>
    <3>1. key \in [1..4 -> Nat] /\ 4 \in Nat
      BY <1>6, <1>10
    <3>2. key \in Seq(Nat) /\ Len(key) = 4
      BY <3>1, FunctionIsSeq
    <3>. QED BY <3>2, SMTT(30)
  <2>2. body \in Seq(Nat)
    <3>1. body \in Seq(0..255)
      BY <1>1, <1>10, MaskedIs
    <3>. QED BY <1>6, <3>1, SeqMonotonic
  <2>3. Head(LengthBytes(n)) = first /\ Tail(LengthBytes(n)) = digits
    BY <1>5, <1>7, <1>8, HeadAndTail
  <2>4. data = Cat(Cat(Cat(Cat(<<h, f>>, digits), key), body), i.more)
    BY <2>1, <2>3, Zenon DEF Received, ClientFrame, Masked, Cat, n, h
  <2>. HIDE DEF body, f, key
  <2>5. f \in Nat
    BY <1>8 DEF f
  <2>6. data = Cat(Cat(Cat(<<h, f>>, digits), key), rest)
    <3>1. Cat(Cat(Cat(Cat(<<h, f>>, digits), key), body), i.more) = Cat(Cat(Cat(<<h, f>>, digits), key), rest)
      BY <1>3, <1>7, <2>1, <2>2, <2>5, KeyedParts
    <3>. QED BY <2>4, <3>1, Zenon
  <2>7. rest \in Seq(Nat)
    BY <1>7, <2>2, ConcatProperties DEF Cat
  <2>. HIDE DEF rest
  <2>8. FrameOf(((<<h, f>> \o digits) \o key) \o rest, h, f, digits, key, rest)
    BY <1>3, <1>7, <2>1, <2>5, <2>7, FrameParts
  <2>9. FrameOf(data, h, f, digits, key, rest)
    BY <2>6, <2>8, Zenon DEF Cat
  <2>. HIDE DEF data
  <2>10. ParseFrame(data).payload_length = n /\ ParseFrame(data).payload_data = Unmask(rest, key)
    <3>1. f = Half + first /\ Len(key) = 4 /\ f # first
      BY <1>8, <2>1 DEF f
    <3>2. ParseFrame(data).payload_data = IF f = first THEN rest ELSE Unmask(rest, key)
      BY <1>4, <2>9, <3>1, PartsParsed
    <3>3. ParseFrame(data).payload_length = n
      BY <1>4, <2>9, <3>1, PartsParsed
    <3>. QED BY <3>1, <3>2, <3>3
  <2>11. BeginsWith(Unmask(rest, key), i.payload, i.more)
    BY <1>1, <1>10, KeyedRestored DEF rest, body, key
  <2>. QED BY <2>10, <2>11 DEF ReadsFrame, data, n
<1>. QED BY <1>1, <1>9, <1>10

-----------------------------------------------------------------------------
(* The jobs.                                                               *)

\* What is computed at once is what the functions above answer.
Configured(input) ==
    LET map == LoadFile(FileOf(input)) IN [map |-> map, again |-> LoadFile(WriteFile(map))]

Results ==
    /\ job \in Jobs
    /\ Computed("CStrExplode") => out.value = Explode(job.input)
    /\ Computed("base64_encode") => out.value = Base64(job.input)
    /\ Computed("config") => out.value = Configured(job.input)
    /\ Computed("frame") => out.value = ParseFrame(Received(job.input))
    /\ Computed("Xadd") => out.value = Xadd(job.input)

LEMMA ResultsFirst == CodecsInit => Results
<1>. SUFFICES ASSUME CodecsInit PROVE Results
  OBVIOUS
<1>1. job \in Jobs
  BY DEF CodecsInit
<1>2. job.fn \in AtOnce => ~out.done
  <2>. SUFFICES ASSUME job.fn \in AtOnce PROVE ~out.done
    OBVIOUS
  <2>1. job.fn # "MD5" /\ job.fn # "redisReader"
    BY DEF AtOnce
  <2>2. out = Waiting
    BY <2>1 DEF CodecsInit
  <2>. QED BY <2>2 DEF Waiting
<1>. QED BY <1>1, <1>2 DEF Results, Computed, AtOnce

LEMMA ResultsKept == Results /\ [CodecsNext]_codecsVars => Results'
<1>. SUFFICES ASSUME Results, [CodecsNext]_codecsVars PROVE Results'
  OBVIOUS
<1>1. /\ job \in Jobs
      /\ Computed("CStrExplode") => out.value = Explode(job.input)
      /\ Computed("base64_encode") => out.value = Base64(job.input)
      /\ Computed("config") => out.value = Configured(job.input)
      /\ Computed("frame") => out.value = ParseFrame(Received(job.input))
      /\ Computed("Xadd") => out.value = Xadd(job.input)
  BY DEF Results
<1>2. CASE ExplodeList
  <2>1. job.fn = "CStrExplode" /\ job' = job /\ out' = [done |-> TRUE, value |-> Explode(job.input)]
    BY <1>2 DEF ExplodeList, Computes
  <2>2. out'.value = Explode(job.input)
    BY <2>1
  <2>. QED BY <1>1, <2>1, <2>2 DEF Results, Computed
<1>3. CASE EncodeBase64
  <2>1. job.fn = "base64_encode" /\ job' = job /\ out' = [done |-> TRUE, value |-> Base64(job.input)]
    BY <1>3 DEF EncodeBase64, Computes
  <2>2. out'.value = Base64(job.input)
    BY <2>1
  <2>. QED BY <1>1, <2>1, <2>2 DEF Results, Computed
<1>4. CASE ReadFrame
  <2>1. /\ job.fn = "frame" /\ job' = job
        /\ out' = [done |-> TRUE, value |-> ParseFrame(Received(job.input))]
    BY <1>4 DEF ReadFrame, Computes
  <2>2. out'.value = ParseFrame(Received(job.input))
    BY <2>1
  <2>. QED BY <1>1, <2>1, <2>2 DEF Results, Computed
<1>5. CASE SendXadd
  <2>1. job.fn = "Xadd" /\ job' = job /\ out' = [done |-> TRUE, value |-> Xadd(job.input)]
    BY <1>5 DEF SendXadd, Computes
  <2>2. out'.value = Xadd(job.input)
    BY <2>1
  <2>. QED BY <1>1, <2>1, <2>2 DEF Results, Computed
<1>6. CASE job.fn \in {"MD5", "redisReader"} /\ job' = job
  BY <1>1, <1>6 DEF Results, Computed
<1>7. CASE RewriteConfig
  <2>1. job.fn = "config" /\ job' = job /\ out' = [done |-> TRUE, value |-> Configured(job.input)]
    BY <1>7 DEF RewriteConfig, Computes, Configured
  <2>2. out'.value = Configured(job.input)
    BY <2>1
  <2>. QED BY <1>1, <2>1, <2>2 DEF Results, Computed
<1>8. Md5Update \/ Md5Digest => job.fn \in {"MD5", "redisReader"} /\ job' = job
  BY DEF Md5Update, Md5Digest
<1>9. ReadReply => job.fn \in {"MD5", "redisReader"} /\ job' = job
  BY DEF ReadReply
<1>10. CASE UNCHANGED codecsVars
  BY <1>1, <1>10 DEF Results, Computed, codecsVars
<1>. QED BY <1>2, <1>3, <1>4, <1>5, <1>6, <1>7, <1>8, <1>9, <1>10 DEF CodecsNext

\* Each function is asked once and answers what its definition says.
THEOREM Computations == CodecsSpec => []Results
  BY ResultsFirst, ResultsKept, PTL DEF CodecsSpec

\* The inputs are those of the assumption.
LEMMA InputsTyped ==
    ASSUME job \in Jobs
    PROVE  /\ job.fn = "CStrExplode" => job.input \in Seq(STRING)
           /\ job.fn = "Xadd" => job.input \in Seq(STRING)
           /\ job.fn = "base64_encode" => job.input \in Seq(0..255)
           /\ job.fn = "MD5" => job.input \in Seq(Nat)
           /\ job.fn = "frame" => IsFrame(job.input)
<1>1. job.input \in Inputs(job.fn)
  BY DEF Inputs
<1>2. Inputs("CStrExplode") \subseteq Seq(STRING) /\ Inputs("Xadd") \subseteq Seq(STRING)
  BY InputsAssumption
<1>3. Inputs("base64_encode") \subseteq Seq(0..255) /\ Inputs("MD5") \subseteq Seq(Nat)
  BY InputsAssumption
<1>4. \A i \in Inputs("frame") : IsFrame(i)
  BY InputsAssumption DEF IsFrame, Carried
<1>. QED BY <1>1, <1>2, <1>3, <1>4

\* base64_encode of any bytes is whole groups and decodes to these bytes.
THEOREM EncodingDecodes == CodecsSpec => []Base64Decodes
<1>1. Results => Base64Decodes
  <2>. SUFFICES ASSUME Results, Computed("base64_encode")
                PROVE  Len(out.value) % 4 = 0 /\ Decode64(out.value) = job.input
    BY DEF Base64Decodes
  <2>1. out.value = Base64(job.input)
    BY DEF Results
  <2>2. job.input \in Seq(0..255)
    BY InputsTyped DEF Results, Computed
  <2>3. Written(Base64(job.input), job.input, Len(job.input), (Len(job.input) + 2) \div 3)
    BY <2>2, Base64Letters
  <2>4. DecodesTo(Base64(job.input), job.input)
    BY <2>2, <2>3, Base64Back
  <2>. QED BY <2>1, <2>4 DEF DecodesTo
<1>. QED BY <1>1, Computations, PTL

\* A frame is read as it was sent, its payload running on into what follows.
THEOREM FramesRead == CodecsSpec => []FrameOfRead
<1>1. Results => FrameOfRead
  <2>. SUFFICES ASSUME Results, Computed("frame")
                PROVE  /\ out.value.payload_length = Len(job.input.payload)
                       /\ SubSeq(out.value.payload_data, 1, Len(job.input.payload)) = job.input.payload
                       /\ job.input.more = <<>> <=>
                            Len(out.value.payload_data) = out.value.payload_length
    BY DEF FrameOfRead
  <2>1. out.value = ParseFrame(Received(job.input))
    BY DEF Results
  <2>2. IsFrame(job.input)
    BY InputsTyped DEF Results, Computed
  <2>3. ReadsFrame(out.value, job.input)
    BY <2>1, <2>2, FrameRead
  <2>4. job.input.payload \in Seq(0..ByteBase - 1) /\ job.input.more \in Seq(0..ByteBase - 1)
    BY <2>2 DEF IsFrame
  <2>5. /\ Len(job.input.payload) \in Nat /\ Len(job.input.more) \in Nat
        /\ job.input.more = <<>> <=> Len(job.input.more) = 0
    BY <2>4, LenProperties, EmptySeq
  <2>. DEFINE n == Len(job.input.payload)
              m == Len(job.input.more)
              d == Len(out.value.payload_data)
  <2>6. /\ out.value.payload_length = n /\ d = n + m
        /\ SubSeq(out.value.payload_data, 1, n) = job.input.payload
    BY <2>3 DEF ReadsFrame, BeginsWith
  <2>. HIDE DEF n, m, d
  <2>7. n \in Nat /\ m \in Nat
    BY <2>5 DEF n, m
  <2>8. m = 0 <=> d = n
    BY <2>6, <2>7
  <2>. QED BY <2>5, <2>6, <2>8, Zenon DEF n, m, d
<1>. QED BY <1>1, Computations, PTL

-----------------------------------------------------------------------------
(* CStrExplode.                                                            *)

Characters == STRING \cup {Separator}
Text == Seq(Characters)

\* A sequence of one element.
LEMMA Singleton ==
    ASSUME NEW S, NEW c \in S
    PROVE  <<c>> \in Seq(S) /\ Len(<<c>>) = 1 /\ <<c>>[1] = c
  OBVIOUS

LEMMA Comma == <<Separator>> \in Text /\ Len(<<Separator>>) = 1 /\ <<Separator>>[1] = Separator
<1>1. Separator \in Characters
  BY DEF Characters
<1>. QED BY <1>1, Singleton DEF Text

\* The reference's list of some items, item by item.
JoinStep(k, v, items) == IF k = 1 THEN items[k] ELSE Cat(v, Cat(<<Separator>>, items[k]))
Joins(g, items, n) ==
    g \in [0..n -> Text] /\ g[0] = <<>> /\ \A k \in 1..n : g[k] = JoinStep(k, g[k - 1], items)

LEMMA TextCat ==
    \A s, t, u \in Text : Cat(s, t) \in Text /\ Cat(Cat(s, t), u) = Cat(s, Cat(t, u))
<1>. SUFFICES ASSUME NEW s \in Text, NEW t \in Text, NEW u \in Text
              PROVE  Cat(s, t) \in Text /\ Cat(Cat(s, t), u) = Cat(s, Cat(t, u))
  OBVIOUS
<1>1. Cat(s, t) \in Text
  BY ConcatProperties DEF Cat, Text
<1>2. Cat(Cat(s, t), u) = Cat(s, Cat(t, u))
  BY ConcatAssociative DEF Cat, Text
<1>. QED BY <1>1, <1>2

LEMMA JoinStepTyped ==
    ASSUME NEW items \in Seq(Text), NEW k \in 1..Len(items), NEW v \in Text
    PROVE  JoinStep(k, v, items) \in Text
<1>1. items[k] \in Text
  BY ElementOfSeq
<1>2. <<Separator>> \in Text
  BY Comma
<1>3. Cat(<<Separator>>, items[k]) \in Text
  BY <1>1, <1>2, TextCat
<1>4. Cat(v, Cat(<<Separator>>, items[k])) \in Text
  BY <1>3, TextCat
<1>. QED BY <1>1, <1>4 DEF JoinStep

LEMMA JoinedIs ==
    ASSUME NEW items \in Seq(Text)
    PROVE  \E g : Joins(g, items, Len(items)) /\ Joined(items) = g[Len(items)]
<1>. DEFINE n == Len(items)
            step == [p \in (1..n) \X Text |-> JoinStep(p[1], p[2], items)]
            e == <<>>
            Flat(k, v) == IF k = 1 THEN items[k] ELSE v \o <<Separator>> \o items[k]
            Is(g) == g = [k \in 0..n |-> IF k = 0 THEN e ELSE Flat(k, g[k - 1])]
<1>1. n \in Nat
  BY LenProperties
<1>2. Joined(items) = (CHOOSE g : Is(g))[n]
  BY DEF Joined
<1>3. step \in [(1..n) \X Text -> Text]
  <2>1. ASSUME NEW p \in (1..n) \X Text PROVE JoinStep(p[1], p[2], items) \in Text
    <3>1. p[1] \in 1..Len(items) /\ p[2] \in Text
      OBVIOUS
    <3>. QED BY <3>1, JoinStepTyped
  <2>. QED BY <2>1
<1>4. \A k \in 1..n, v \in Text : step[<<k, v>>] = JoinStep(k, v, items)
  OBVIOUS
<1>5. e \in Text
  BY DEF Text
<1>. HIDE DEF n, step, e
<1>6. PICK f : Recursive(f, Text, e, n, step)
  BY <1>1, <1>3, <1>5, Recursion
<1>7. Joins(f, items, n)
  <2>1. f \in [0..n -> Text] /\ f[0] = e /\ \A k \in 1..n : f[k] = step[<<k, f[k - 1]>>]
    BY <1>6 DEF Recursive
  <2>2. ASSUME NEW k \in 1..n PROVE f[k] = JoinStep(k, f[k - 1], items)
    <3>1. f[k - 1] \in Text
      BY <1>1, <2>1
    <3>. QED BY <1>4, <2>1, <3>1
  <2>. QED BY <2>1, <2>2 DEF Joins, e
<1>8. \A g \in [0..n -> Text] : Is(g) <=> Joins(g, items, n)
  <2>. SUFFICES ASSUME NEW g \in [0..n -> Text] PROVE Is(g) <=> Joins(g, items, n)
    OBVIOUS
  <2>1. ASSUME NEW k \in 1..n
        PROVE  JoinStep(k, g[k - 1], items)
                 = Flat(k, g[k - 1])
    <3>1. g[k - 1] \in Text
      BY <1>1
    <3>2. items[k] \in Text /\ <<Separator>> \in Text
      BY Comma, ElementOfSeq DEF n
    <3>3. Cat(g[k - 1], Cat(<<Separator>>, items[k])) = Cat(Cat(g[k - 1], <<Separator>>), items[k])
      BY <3>1, <3>2, TextCat
    <3>. QED BY <3>3 DEF JoinStep, Cat
  <2>. HIDE DEF Flat
  <2>2. ASSUME Is(g) PROVE Joins(g, items, n)
    <3>1. g[0] = e /\ \A k \in 1..n : g[k] = Flat(k, g[k - 1])
      BY <1>1, <2>2
    <3>2. \A k \in 1..n : g[k] = JoinStep(k, g[k - 1], items)
      BY <2>1, <3>1
    <3>. QED BY <3>1, <3>2 DEF Joins, e
  <2>3. ASSUME Joins(g, items, n) PROVE Is(g)
    <3>1. g[0] = e /\ \A k \in 1..n : g[k] = JoinStep(k, g[k - 1], items)
      BY <2>3 DEF Joins, e
    <3>2. \A k \in 1..n : g[k] = Flat(k, g[k - 1])
      BY <2>1, <3>1
    <3>. QED BY <1>1, <3>1, <3>2
  <2>. QED BY <2>2, <2>3
<1>. HIDE DEF Flat
<1>9. Is(f)
  BY <1>7, <1>8 DEF Joins
<1>. DEFINE c == CHOOSE g : Is(g)
<1>10. Is(c)
  <2>. HIDE DEF Is
  <2>. QED BY <1>9, Zenon
<1>. HIDE DEF c
<1>11. c = f
  <2>1. DOMAIN c = 0..n /\ DOMAIN f = 0..n
    BY <1>9, <1>10
  <2>2. 0..n \subseteq {k \in 0..n : c[k] = f[k]}
    <3>. DEFINE S == {k \in 0..n : c[k] = f[k]}
    <3>1. 0 \in S
      BY <1>1, <1>9, <1>10
    <3>2. ASSUME NEW k \in 0..n - 1, k \in S PROVE k + 1 \in S
      <4>1. k + 1 \in 0..n /\ k + 1 # 0 /\ (k + 1) - 1 = k /\ c[k] = f[k]
        BY <1>1, <3>2
      <4>2. c[k + 1] = Flat(k + 1, c[k])
        BY <1>10, <4>1
      <4>3. f[k + 1] = Flat(k + 1, f[k])
        BY <1>9, <4>1
      <4>. QED BY <4>1, <4>2, <4>3
    <3>. HIDE DEF S
    <3>. QED BY <1>1, <3>1, <3>2, UpTo DEF S
  <2>3. c = [k \in 0..n |-> c[k]] /\ f = [k \in 0..n |-> f[k]]
    BY <1>9, <1>10
  <2>. QED BY <2>2, <2>3
<1>12. Joined(items) = f[n]
  BY <1>2, <1>11 DEF c
<1>. QED BY <1>7, <1>12 DEF n

\* One item more.
LEMMA JoinedAppend ==
    ASSUME NEW items \in Seq(Text), NEW x \in Text
    PROVE  /\ Joined(items) \in Text
           /\ Joined(Append(items, x)) = IF items = <<>> THEN x ELSE Cat(Joined(items), Cat(<<Separator>>, x))
<1>. DEFINE n == Len(items)
            more == Append(items, x)
<1>1. /\ n \in Nat /\ more \in Seq(Text) /\ Len(more) = n + 1 /\ more[n + 1] = x
      /\ \A k \in 1..n : more[k] = items[k]
      /\ items = <<>> <=> n = 0
  BY AppendProperties, LenProperties, EmptySeq
<1>. HIDE DEF more, n
<1>2. PICK f : Joins(f, items, n) /\ Joined(items) = f[n]
  BY JoinedIs DEF n
<1>3. PICK g : Joins(g, more, n + 1) /\ Joined(more) = g[n + 1]
  BY <1>1, JoinedIs
<1>4. /\ f \in [0..n -> Text] /\ f[0] = <<>> /\ \A k \in 1..n : f[k] = JoinStep(k, f[k - 1], items)
  BY <1>2 DEF Joins
<1>5. /\ g[0] = <<>> /\ \A k \in 1..n + 1 : g[k] = JoinStep(k, g[k - 1], more)
  BY <1>3 DEF Joins
<1>6. 0..n \subseteq {k \in 0..n : g[k] = f[k]}
  <2>. DEFINE S == {k \in 0..n : g[k] = f[k]}
  <2>1. 0 \in S
    BY <1>1, <1>4, <1>5
  <2>2. ASSUME NEW k \in 0..n - 1, k \in S PROVE k + 1 \in S
    <3>1. k + 1 \in 1..n /\ k + 1 \in 1..n + 1 /\ k + 1 \in 0..n /\ (k + 1) - 1 = k /\ g[k] = f[k]
      BY <1>1, <2>2
    <3>2. more[k + 1] = items[k + 1]
      BY <1>1, <3>1
    <3>3. g[k + 1] = JoinStep(k + 1, g[k], more) /\ f[k + 1] = JoinStep(k + 1, f[k], items)
      BY <1>4, <1>5, <3>1
    <3>4. g[k + 1] = f[k + 1]
      BY <3>1, <3>2, <3>3 DEF JoinStep
    <3>. QED BY <3>1, <3>4
  <2>. HIDE DEF S
  <2>. QED BY <1>1, <2>1, <2>2, UpTo DEF S
<1>7. g[n] = f[n] /\ f[n] \in Text
  BY <1>1, <1>4, <1>6
<1>8. g[n + 1] = JoinStep(n + 1, g[n], more)
  <2>1. n + 1 \in 1..n + 1 /\ (n + 1) - 1 = n
    BY <1>1
  <2>. QED BY <1>5, <2>1
<1>9. Joined(more) = IF n = 0 THEN x ELSE Cat(Joined(items), Cat(<<Separator>>, x))
  <2>1. n + 1 = 1 <=> n = 0
    BY <1>1
  <2>. QED BY <1>1, <1>2, <1>3, <1>7, <1>8, <2>1 DEF JoinStep
<1>. QED BY <1>1, <1>2, <1>7, <1>9 DEF more

\* Reads a list up to a place: the items ended before it, and where the next
\* one starts.
SplitStep(s, i, a) ==
    IF i # a.start /\ s[i] = Separator
    THEN [items |-> Append(a.items, SubSeq(s, a.start, i - 1)), start |-> i + 1]
    ELSE a
Split == [items : Seq(Text), start : Nat \ {0}]
Splits(f, s) ==
    /\ f \in [0..Len(s) -> Split] /\ f[0] = [items |-> <<>>, start |-> 1]
    /\ \A i \in 1..Len(s) : f[i] = SplitStep(s, i, f[i - 1])

LEMMA PartTyped ==
    ASSUME NEW s \in Text, NEW a \in Nat \ {0}, NEW b \in 0..Len(s)
    PROVE  SubSeq(s, a, b) \in Text
<1>1. \A i \in a..b : s[i] \in Characters
  <2>1. \A i \in 1..Len(s) : s[i] \in Characters
    BY ElementOfSeq DEF Text
  <2>2. Len(s) \in Nat
    BY LenProperties DEF Text
  <2>. QED BY <2>1, <2>2
<1>2. a \in Int /\ b \in Int
  OBVIOUS
<1>. QED BY <1>1, <1>2, SubSeqProperties DEF Text

LEMMA SplitStepTyped ==
    ASSUME NEW s \in Text, NEW i \in 1..Len(s), NEW a \in Split
    PROVE  SplitStep(s, i, a) \in Split
<1>1. a.items \in Seq(Text) /\ a.start \in Nat \ {0}
  BY DEF Split
<1>2. i - 1 \in 0..Len(s) /\ i + 1 \in Nat \ {0}
  <2>1. Len(s) \in Nat
    BY LenProperties DEF Text
  <2>. QED BY <2>1
<1>3. SubSeq(s, a.start, i - 1) \in Text
  BY <1>1, <1>2, PartTyped
<1>. DEFINE x == SubSeq(s, a.start, i - 1)
            more == Append(a.items, x)
<1>4. more \in Seq(Text)
  BY <1>1, <1>3, AppendProperties
<1>. HIDE DEF x, more
<1>5. [items |-> more, start |-> i + 1] \in Split
  BY <1>2, <1>4 DEF Split
<1>. QED BY <1>5 DEF SplitStep, more, x

LEMMA FilledIs ==
    ASSUME NEW s \in Text
    PROVE  \E f : Splits(f, s) /\ Filled(s) = f[Len(s)]
<1>. DEFINE n == Len(s)
            step == [p \in (1..n) \X Split |-> SplitStep(s, p[1], p[2])]
            first == [items |-> <<>>, start |-> 1]
            Next1(i, a) == IF i # a.start /\ s[i] = Separator
                           THEN [items |-> Append(a.items, SubSeq(s, a.start, i - 1)), start |-> i + 1]
                           ELSE a
            Is(g) == g = [i \in 0..n |-> IF i = 0 THEN first ELSE Next1(i, g[i - 1])]
<1>1. n \in Nat
  BY LenProperties DEF Text
<1>2. Filled(s) = (CHOOSE g : Is(g))[n]
  BY DEF Filled
<1>3. step \in [(1..n) \X Split -> Split]
  <2>1. ASSUME NEW p \in (1..n) \X Split PROVE SplitStep(s, p[1], p[2]) \in Split
    <3>1. p[1] \in 1..Len(s) /\ p[2] \in Split
      OBVIOUS
    <3>. QED BY <3>1, SplitStepTyped
  <2>. QED BY <2>1
<1>4. \A i \in 1..n, a \in Split : step[<<i, a>>] = SplitStep(s, i, a)
  OBVIOUS
<1>5. first \in Split
  <2>1. <<>> \in Seq(Text)
    OBVIOUS
  <2>. DEFINE e == <<>>
  <2>2. e \in Seq(Text)
    BY <2>1
  <2>. HIDE DEF e
  <2>3. [items |-> e, start |-> 1] \in Split
    BY <2>2 DEF Split
  <2>. QED BY <2>3 DEF e
<1>. HIDE DEF n, step, first
<1>6. PICK f : Recursive(f, Split, first, n, step)
  BY <1>1, <1>3, <1>5, Recursion
<1>7. /\ f \in [0..n -> Split] /\ f[0] = first
      /\ \A i \in 1..n : f[i] = SplitStep(s, i, f[i - 1])
  <2>1. /\ f \in [0..n -> Split] /\ f[0] = first
        /\ \A i \in 1..n : f[i] = step[<<i, f[i - 1]>>]
    BY <1>6 DEF Recursive
  <2>2. ASSUME NEW i \in 1..n PROVE f[i] = SplitStep(s, i, f[i - 1])
    <3>1. f[i - 1] \in Split
      BY <1>1, <2>1
    <3>. QED BY <1>4, <2>1, <3>1
  <2>. QED BY <2>1, <2>2
<1>8. \A i, a : SplitStep(s, i, a) = Next1(i, a)
  BY DEF SplitStep
<1>. HIDE DEF Next1
<1>9. Is(f)
  BY <1>1, <1>7, <1>8
<1>. DEFINE c == CHOOSE g : Is(g)
<1>10. Is(c)
  <2>. HIDE DEF Is
  <2>. QED BY <1>9, Zenon
<1>. HIDE DEF c
<1>11. c = f
  <2>1. 0..n \subseteq {i \in 0..n : c[i] = f[i]}
    <3>. DEFINE S == {i \in 0..n : c[i] = f[i]}
    <3>1. 0 \in S
      BY <1>1, <1>9, <1>10
    <3>2. ASSUME NEW i \in 0..n - 1, i \in S PROVE i + 1 \in S
      <4>1. i + 1 \in 0..n /\ i + 1 # 0 /\ (i + 1) - 1 = i /\ c[i] = f[i]
        BY <1>1, <3>2
      <4>2. c[i + 1] = Next1(i + 1, c[i])
        BY <1>10, <4>1
      <4>3. f[i + 1] = Next1(i + 1, f[i])
        BY <1>9, <4>1
      <4>. QED BY <4>1, <4>2, <4>3
    <3>. HIDE DEF S
    <3>. QED BY <1>1, <3>1, <3>2, UpTo DEF S
  <2>2. c = [i \in 0..n |-> c[i]] /\ f = [i \in 0..n |-> f[i]]
    BY <1>9, <1>10
  <2>. QED BY <2>1, <2>2
<1>12. Filled(s) = f[n]
  BY <1>2, <1>11 DEF c
<1>. QED BY <1>7, <1>12 DEF Splits, n, first

\* The separators up to a place.
SeparatorsTo(s, i) == {k \in Separators(s) : k <= i}
Separated(s, i) == Cardinality(SeparatorsTo(s, i))

LEMMA TextLength == \A s \in Text : Len(s) \in Nat
  BY LenProperties DEF Text

LEMMA SeparatorsAre ==
    \A s \in Text : Separators(s) = {k \in 1..Len(s) : s[k] = Separator}
<1>. SUFFICES ASSUME NEW s \in Text PROVE Separators(s) = {k \in 1..Len(s) : s[k] = Separator}
  OBVIOUS
<1>1. DOMAIN s = 1..Len(s)
  BY LenProperties DEF Text
<1>. QED BY <1>1 DEF Separators

LEMMA SeparatedTyped ==
    ASSUME NEW s \in Text, NEW i \in Nat
    PROVE  IsFiniteSet(SeparatorsTo(s, i)) /\ Separated(s, i) \in Nat
<1>1. SeparatorsTo(s, i) \in SUBSET (1..Len(s)) /\ Len(s) \in Nat
  BY TextLength, SeparatorsAre DEF SeparatorsTo
<1>2. IsFiniteSet(1..Len(s))
  BY <1>1, FS_Interval
<1>3. IsFiniteSet(SeparatorsTo(s, i))
  BY <1>1, <1>2, FS_Subset
<1>. QED BY <1>3, FS_CardinalityType DEF Separated

LEMMA SeparatedFirst ==
    ASSUME NEW s \in Text
    PROVE  Separated(s, 0) = 0
<1>1. Separators(s) = {k \in 1..Len(s) : s[k] = Separator}
  BY SeparatorsAre
<1>2. SeparatorsTo(s, 0) = {}
  BY <1>1 DEF SeparatorsTo
<1>. QED BY <1>2, FS_EmptySet DEF Separated

LEMMA SeparatedAll ==
    ASSUME NEW s \in Text
    PROVE  Separated(s, Len(s)) = Cardinality(Separators(s))
<1>1. Separators(s) = {k \in 1..Len(s) : s[k] = Separator}
  BY SeparatorsAre
<1>2. Len(s) \in Nat
  BY TextLength
<1>3. SeparatorsTo(s, Len(s)) = Separators(s)
  BY <1>1, <1>2 DEF SeparatorsTo
<1>. QED BY <1>3 DEF Separated

LEMMA SeparatedNext ==
    ASSUME NEW s \in Text, NEW i \in 1..Len(s)
    PROVE  Separated(s, i) = IF s[i] = Separator THEN Separated(s, i - 1) + 1 ELSE Separated(s, i - 1)
<1>. DEFINE S == Separators(s)
<1>0. S = {k \in 1..Len(s) : s[k] = Separator}
  BY SeparatorsAre
<1>1. Len(s) \in Nat /\ i - 1 \in Nat
  <2>1. Len(s) \in Nat
    BY TextLength
  <2>. QED BY <2>1
<1>. HIDE DEF S
<1>2. IsFiniteSet(SeparatorsTo(s, i - 1))
  BY <1>1, SeparatedTyped
<1>3. i \notin SeparatorsTo(s, i - 1)
  BY <1>1 DEF SeparatorsTo
<1>4. CASE s[i] = Separator
  <2>1. SeparatorsTo(s, i) = SeparatorsTo(s, i - 1) \cup {i}
    <3>1. ASSUME NEW k PROVE k \in SeparatorsTo(s, i) <=> k \in SeparatorsTo(s, i - 1) \/ k = i
      <4>1. k \in S => k \in Nat
        BY <1>0, <1>1
      <4>2. i \in S
        BY <1>0, <1>4
      <4>3. k \in S => (k <= i <=> k <= i - 1 \/ k = i)
        BY <1>1, <4>1
      <4>. QED BY <1>1, <4>2, <4>3 DEF SeparatorsTo, S
    <3>. QED BY <3>1
  <2>. QED BY <1>2, <1>3, <1>4, <2>1, FS_AddElement DEF Separated
<1>5. CASE s[i] # Separator
  <2>1. SeparatorsTo(s, i) = SeparatorsTo(s, i - 1)
    <3>1. ASSUME NEW k \in S PROVE k <= i <=> k <= i - 1
      <4>1. k \in Nat /\ k # i
        BY <1>0, <1>1, <1>5
      <4>. QED BY <1>1, <4>1
    <3>. QED BY <3>1 DEF SeparatorsTo, S
  <2>. QED BY <1>5, <2>1 DEF Separated
<1>. QED BY <1>4, <1>5

\* Either every separator ended an item, or the list names an empty one.
NoComma(t) == \A k \in 1..Len(t) : t[k] # Separator
Begun(s, a) ==
    \/ a.start = 1 /\ a.items = <<>>
    \/ /\ a.start # 1 /\ a.items # <<>> /\ s[a.start - 1] = Separator
       /\ Cat(Joined(a.items), <<Separator>>) = SubSeq(s, 1, a.start - 1)
Whole(s, i, a) ==
    /\ Len(a.items) = Separated(s, i)
    /\ a.start \in 1..i + 1
    /\ \A k \in a.start..i : s[k] # Separator
    /\ \A k \in 1..i : s[k] = Separator => k # 1 /\ s[k - 1] # Separator
    /\ \A j \in 1..Len(a.items) : NoComma(a.items[j])
    /\ Begun(s, a)
Behind(s, i, a) ==
    /\ Len(a.items) < Separated(s, i)
    /\ a.start \in 1..i + 1
    /\ NamesEmpty(s)

\* The item that has begun, if it ends here.
LEMMA EndedItem ==
    ASSUME NEW s \in Text, NEW a \in Split, NEW b \in 0..Len(s), Whole(s, b, a)
    PROVE  LET x == SubSeq(s, a.start, b)
               items == Append(a.items, x)
           IN  /\ x \in Text /\ items \in Seq(Text) /\ items # <<>>
               /\ Len(items) = Separated(s, b) + 1
               /\ \A j \in 1..Len(items) : NoComma(items[j])
               /\ Joined(items) = SubSeq(s, 1, b)
<1>. DEFINE x == SubSeq(s, a.start, b)
            items == Append(a.items, x)
<1>0. Len(s) \in Nat
  BY TextLength
<1>1. a.items \in Seq(Text) /\ a.start \in Nat \ {0}
  BY DEF Split
<1>2. x \in Text
  BY <1>1, PartTyped
<1>3. NoComma(x)
  <2>1. Len(s) \in Nat /\ a.start \in Int /\ b \in Int /\ a.start <= b + 1
    BY <1>0, <1>1 DEF Whole
  <2>2. \A k \in a.start..b : s[k] \in Characters
    <3>1. \A k \in 1..Len(s) : s[k] \in Characters
      BY ElementOfSeq DEF Text
    <3>. QED BY <1>1, <2>1, <3>1
  <2>3. /\ Len(x) = IF a.start <= b THEN b - a.start + 1 ELSE 0
        /\ \A k \in 1..b - a.start + 1 : x[k] = s[a.start + k - 1]
    BY <2>1, <2>2, SubSeqProperties
  <2>. HIDE DEF x
  <2>4. ASSUME NEW k \in 1..Len(x) PROVE x[k] # Separator
    <3>1. k \in 1..b - a.start + 1 /\ a.start + k - 1 \in a.start..b
      BY <2>1, <2>3
    <3>2. s[a.start + k - 1] # Separator
      BY <3>1 DEF Whole
    <3>. QED BY <2>3, <3>1, <3>2
  <2>. QED BY <2>4 DEF NoComma
<1>. HIDE DEF x
<1>4. /\ items \in Seq(Text) /\ items # <<>> /\ Len(items) = Len(a.items) + 1
      /\ \A j \in 1..Len(a.items) : items[j] = a.items[j]
      /\ items[Len(a.items) + 1] = x
  BY <1>1, <1>2, AppendProperties
<1>5. Len(a.items) = Separated(s, b) /\ Len(a.items) \in Nat
  <2>1. Len(a.items) \in Nat
    BY <1>1, LenProperties
  <2>. QED BY <2>1 DEF Whole
<1>6. Joined(items) = IF a.items = <<>> THEN x ELSE Cat(Joined(a.items), Cat(<<Separator>>, x))
  BY <1>1, <1>2, JoinedAppend
<1>. HIDE DEF items
<1>7. \A j \in 1..Len(items) : NoComma(items[j])
  <2>1. \A j \in 1..Len(a.items) : NoComma(a.items[j])
    BY DEF Whole
  <2>2. ASSUME NEW j \in 1..Len(items) PROVE NoComma(items[j])
    <3>1. j \in 1..Len(a.items) \/ j = Len(a.items) + 1
      BY <1>4, <1>5
    <3>. QED BY <1>3, <1>4, <2>1, <3>1
  <2>. QED BY <2>2
<1>8. Joined(items) = SubSeq(s, 1, b)
  <2>1. CASE a.start = 1 /\ a.items = <<>>
    BY <1>6, <2>1 DEF x
  <2>2. CASE /\ a.items # <<>> /\ a.start # 1
             /\ Cat(Joined(a.items), <<Separator>>) = SubSeq(s, 1, a.start - 1)
    <3>1. Joined(a.items) \in Text
      BY <1>1, <1>2, JoinedAppend
    <3>2. Cat(Joined(a.items), Cat(<<Separator>>, x)) = Cat(Cat(Joined(a.items), <<Separator>>), x)
      BY <1>2, <3>1, Comma, TextCat
    <3>3. Joined(items) = Cat(SubSeq(s, 1, a.start - 1), x)
      BY <1>6, <2>2, <3>2
    <3>4. Cat(SubSeq(s, 1, a.start - 1), x) = SubSeq(s, 1, b)
      <4>. DEFINE c == a.start - 1
      <4>1. c \in 0..Len(s) /\ b \in c..Len(s) /\ 1 \in 1..Len(s) + 1 /\ a.start = c + 1
        BY <1>0, <1>1 DEF Whole
      <4>. HIDE DEF c
      <4>2. SubSeq(s, 1, c) \o SubSeq(s, c + 1, b) = SubSeq(s, 1, b)
        BY <4>1, ConcatAdjacentSubSeq DEF Text
      <4>. QED BY <4>1, <4>2 DEF Cat, c, x
    <3>. QED BY <3>3, <3>4
  <2>. QED BY <2>1, <2>2 DEF Whole, Begun
<1>. QED BY <1>2, <1>4, <1>5, <1>7, <1>8 DEF items, x

\* The next character of the list.
LEMMA SplitKept ==
    ASSUME NEW s \in Text, NEW i \in 1..Len(s), NEW a \in Split, Whole(s, i - 1, a)
    PROVE  Whole(s, i, SplitStep(s, i, a)) \/ Behind(s, i, SplitStep(s, i, a))
<1>. DEFINE b == i - 1
<1>1. Len(s) \in Nat
  BY TextLength
<1>2. a.start \in 1..b + 1 /\ a.start \in Nat \ {0} /\ a.items \in Seq(Text)
  BY DEF Whole, Split
<1>3. /\ \A k \in a.start..b : s[k] # Separator
      /\ \A k \in 1..b : s[k] = Separator => k # 1 /\ s[k - 1] # Separator
      /\ Len(a.items) = Separated(s, b)
      /\ \A j \in 1..Len(a.items) : NoComma(a.items[j])
      /\ Begun(s, a)
  BY DEF Whole
<1>4. b \in 0..Len(s) /\ i = b + 1 /\ b \in Nat
  BY <1>1
<1>5. Separated(s, i) = IF s[i] = Separator THEN Separated(s, b) + 1 ELSE Separated(s, b)
  BY SeparatedNext
<1>6. Separated(s, b) \in Nat
  BY <1>4, SeparatedTyped
<1>. HIDE DEF b
<1>7. CASE s[i] # Separator
  <2>1. SplitStep(s, i, a) = a
    BY <1>7 DEF SplitStep
  <2>2. Separated(s, i) = Separated(s, b)
    BY <1>5, <1>7
  <2>3. a.start \in 1..i + 1
    BY <1>2, <1>4
  <2>4. \A k \in a.start..i : s[k] # Separator
    BY <1>2, <1>3, <1>4, <1>7
  <2>5. \A k \in 1..i : s[k] = Separator => k # 1 /\ s[k - 1] # Separator
    BY <1>3, <1>4, <1>7
  <2>6. Whole(s, i, a)
    BY <1>3, <2>2, <2>3, <2>4, <2>5 DEF Whole
  <2>. QED BY <2>1, <2>6
<1>8. CASE s[i] = Separator /\ i = a.start
  <2>1. SplitStep(s, i, a) = a
    BY <1>8 DEF SplitStep
  <2>2. Len(a.items) < Separated(s, i)
    BY <1>3, <1>5, <1>6, <1>8
  <2>3. a.start \in 1..i + 1
    BY <1>2, <1>4
  <2>4. NamesEmpty(s)
    <3>. DEFINE S == Separators(s)
    <3>1. S = {k \in 1..Len(s) : s[k] = Separator}
      BY SeparatorsAre
    <3>. HIDE DEF S
    <3>2. i \in S
      BY <1>8, <3>1
    <3>3. CASE a.start = 1
      BY <1>8, <3>2, <3>3 DEF NamesEmpty, S
    <3>4. CASE a.start # 1 /\ s[a.start - 1] = Separator
      <4>1. b \in S /\ b + 1 \in S
        BY <1>1, <1>4, <1>8, <3>1, <3>2, <3>4
      <4>. QED BY <4>1 DEF NamesEmpty, S
    <3>. QED BY <1>3, <3>3, <3>4 DEF Begun
  <2>5. Behind(s, i, a)
    BY <2>2, <2>3, <2>4 DEF Behind
  <2>. QED BY <2>1, <2>5
<1>9. CASE s[i] = Separator /\ i # a.start
  <2>. DEFINE x == SubSeq(s, a.start, b)
              items == Append(a.items, x)
              d == [items |-> items, start |-> i + 1]
  <2>1. SplitStep(s, i, a) = d
    BY <1>9 DEF SplitStep, b
  <2>2. Whole(s, b, a)
    BY DEF b
  <2>3. /\ items \in Seq(Text) /\ items # <<>>
        /\ Len(items) = Separated(s, b) + 1
        /\ \A j \in 1..Len(items) : NoComma(items[j])
        /\ Joined(items) = SubSeq(s, 1, b)
    BY <1>4, <2>2, EndedItem
  <2>. HIDE DEF items
  <2>4. d.items = items /\ d.start = i + 1
    OBVIOUS
  <2>. HIDE DEF d
  <2>5. d.start \in 1..i + 1 /\ d.start # 1 /\ d.start - 1 = i
    BY <1>4, <2>4
  <2>6. \A k \in d.start..i : s[k] # Separator
    BY <1>4, <2>4
  <2>7. \A k \in 1..i : s[k] = Separator => k # 1 /\ s[k - 1] # Separator
    <3>1. i # 1 /\ b \in a.start..b
      BY <1>2, <1>4, <1>9
    <3>2. s[b] # Separator
      BY <1>3, <3>1
    <3>. QED BY <1>3, <1>4, <3>1, <3>2
  <2>8. Cat(Joined(items), <<Separator>>) = SubSeq(s, 1, i)
    <3>1. SubSeq(s, 1, b) \o SubSeq(s, b + 1, i) = SubSeq(s, 1, i)
      <4>1. 1 \in 1..Len(s) + 1 /\ b \in 1 - 1..Len(s) /\ i \in b..Len(s)
        BY <1>1, <1>4
      <4>. QED BY <4>1, ConcatAdjacentSubSeq DEF Text
    <3>2. SubSeq(s, i, i) = <<Separator>>
      <4>1. \A k \in i..i : s[k] \in Characters
        BY <1>9 DEF Characters
      <4>. DEFINE o == SubSeq(s, i, i)
                  one == <<Separator>>
      <4>2. i \in Int
        BY <1>4
      <4>3. o \in Seq(Characters) /\ Len(o) = 1 /\ o[1] = s[i]
        <5>1. /\ o \in Seq(Characters) /\ Len(o) = IF i <= i THEN i - i + 1 ELSE 0
              /\ \A k \in 1..i - i + 1 : o[k] = s[i + k - 1]
          BY <4>1, <4>2, SubSeqProperties
        <5>. HIDE DEF o
        <5>. QED BY <4>2, <5>1
      <4>4. one \in Seq(Characters) /\ Len(one) = 1 /\ one[1] = Separator
        BY Comma DEF Text
      <4>. HIDE DEF o, one
      <4>5. \A k \in 1..Len(o) : o[k] = one[k]
        BY <1>9, <4>3, <4>4
      <4>6. o = one
        BY <4>3, <4>4, <4>5, SeqEqual
      <4>. QED BY <4>6 DEF o, one
    <3>. QED BY <1>4, <2>3, <3>1, <3>2 DEF Cat
  <2>9. Begun(s, d)
    BY <1>9, <2>3, <2>4, <2>5, <2>8 DEF Begun
  <2>10. Len(d.items) = Separated(s, i)
    BY <1>5, <1>9, <2>3, <2>4
  <2>11. Whole(s, i, d)
    BY <2>3, <2>4, <2>5, <2>6, <2>7, <2>9, <2>10 DEF Whole
  <2>. QED BY <2>1, <2>11
<1>. QED BY <1>7, <1>8, <1>9

LEMMA BehindKept ==
    ASSUME NEW s \in Text, NEW i \in 1..Len(s), NEW a \in Split, Behind(s, i - 1, a)
    PROVE  Behind(s, i, SplitStep(s, i, a))
<1>. DEFINE b == i - 1
            d == SplitStep(s, i, a)
            x == SubSeq(s, a.start, b)
<1>1. Len(s) \in Nat
  BY TextLength
<1>2. b \in 0..Len(s) /\ i = b + 1 /\ b \in Nat
  BY <1>1
<1>3. /\ a.start \in 1..b + 1 /\ a.start \in Nat \ {0} /\ a.items \in Seq(Text)
      /\ Len(a.items) < Separated(s, b) /\ NamesEmpty(s)
  BY DEF Behind, Split
<1>4. Separated(s, i) = IF s[i] = Separator THEN Separated(s, b) + 1 ELSE Separated(s, b)
  BY SeparatedNext
<1>5. Separated(s, b) \in Nat /\ Len(a.items) \in Nat
  BY <1>2, <1>3, SeparatedTyped, LenProperties
<1>6. x \in Text
  BY <1>2, <1>3, PartTyped
<1>7. Len(Append(a.items, x)) = Len(a.items) + 1
  BY <1>3, <1>6, AppendProperties
<1>8. d = IF i # a.start /\ s[i] = Separator
          THEN [items |-> Append(a.items, x), start |-> i + 1] ELSE a
  BY DEF SplitStep
<1>. HIDE DEF b, x, d
<1>9. d.start \in 1..i + 1
  BY <1>2, <1>3, <1>8
<1>10. Len(d.items) < Separated(s, i)
  <2>1. CASE i # a.start /\ s[i] = Separator
    <3>1. d.items = Append(a.items, x)
      BY <1>8, <2>1
    <3>. QED BY <1>3, <1>4, <1>5, <1>7, <2>1, <3>1
  <2>2. CASE ~(i # a.start /\ s[i] = Separator)
    <3>1. d = a
      BY <1>8, <2>2
    <3>. QED BY <1>3, <1>4, <1>5, <3>1
  <2>. QED BY <2>1, <2>2
<1>. QED BY <1>3, <1>9, <1>10 DEF Behind, d

\* The whole list read.
LEMMA SplitEnds ==
    ASSUME NEW s \in Text
    PROVE  \E a \in Split : Filled(s) = a /\ (Whole(s, Len(s), a) \/ Behind(s, Len(s), a))
<1>. DEFINE n == Len(s)
            State(i, a) == Whole(s, i, a) \/ Behind(s, i, a)
<1>1. n \in Nat
  BY TextLength
<1>2. PICK f : Splits(f, s) /\ Filled(s) = f[n]
  BY FilledIs
<1>3. /\ f \in [0..n -> Split] /\ f[0] = [items |-> <<>>, start |-> 1]
      /\ \A i \in 1..n : f[i] = SplitStep(s, i, f[i - 1])
  BY <1>2 DEF Splits
<1>. HIDE DEF n
<1>4. State(0, f[0])
  <2>. DEFINE a == f[0]
              e == <<>>
  <2>1. a.start = 1 /\ a.items = e
    BY <1>3
  <2>2. Len(e) = 0 /\ e = <<>>
    OBVIOUS
  <2>. HIDE DEF a, e
  <2>3. Separated(s, 0) = 0
    BY SeparatedFirst
  <2>4. Len(a.items) = Separated(s, 0)
    BY <2>1, <2>2, <2>3
  <2>5. a.start \in 1..0 + 1 /\ \A k \in a.start..0 : s[k] # Separator
    BY <2>1
  <2>6. \A k \in 1..0 : s[k] = Separator => k # 1 /\ s[k - 1] # Separator
    OBVIOUS
  <2>7. \A j \in 1..Len(a.items) : NoComma(a.items[j])
    BY <2>1, <2>2
  <2>8. Begun(s, a)
    BY <2>1, <2>2 DEF Begun
  <2>9. Whole(s, 0, a)
    BY <2>4, <2>5, <2>6, <2>7, <2>8 DEF Whole
  <2>. QED BY <2>9 DEF a
<1>. HIDE DEF State
<1>5. 0..n \subseteq {i \in 0..n : State(i, f[i])}
  <2>. DEFINE S == {i \in 0..n : State(i, f[i])}
  <2>1. 0 \in S
    BY <1>1, <1>4
  <2>2. ASSUME NEW i \in 0..n - 1, i \in S PROVE i + 1 \in S
    <3>. DEFINE j == i + 1
                a == f[i]
    <3>1. j \in 1..n /\ j \in 0..n /\ j - 1 = i /\ State(i, f[i]) /\ f[i] \in Split
      BY <1>1, <1>3, <2>2
    <3>2. f[j] = SplitStep(s, j, a)
      BY <1>3, <3>1
    <3>. HIDE DEF j, a
    <3>3. a \in Split /\ j \in 1..Len(s) /\ (Whole(s, j - 1, a) \/ Behind(s, j - 1, a))
      BY <3>1 DEF a, n, State
    <3>4. Whole(s, j, SplitStep(s, j, a)) \/ Behind(s, j, SplitStep(s, j, a))
      BY <3>3, SplitKept, BehindKept
    <3>. QED BY <3>1, <3>2, <3>4 DEF State, j
  <2>. HIDE DEF S
  <2>. QED BY <1>1, <2>1, <2>2, UpTo DEF S
<1>6. State(n, f[n]) /\ f[n] \in Split
  BY <1>1, <1>3, <1>5
<1>. QED BY <1>2, <1>6 DEF State, n

\* CStrExplode announces and fills in the items, or names an empty one.
ItemsOf(e, s) ==
    IF NamesEmpty(s) THEN Len(e.items) < e.count
    ELSE e.count = Len(e.items) /\ Joined(e.items) = s
           /\ \A j \in 1..Len(e.items) : NoComma(e.items[j])

LEMMA ExplodeIs ==
    ASSUME NEW s \in Text
    PROVE  /\ Explode(s).items \in Seq(Text)
           /\ ItemsOf(Explode(s), s)
<1>. DEFINE n == Len(s)
            e == Explode(s)
            total == Cardinality(Separators(s))
<1>1. n \in Nat /\ Separated(s, n) = total /\ total \in Nat
  BY TextLength, SeparatedAll, SeparatedTyped
<1>2. PICK a \in Split : Filled(s) = a /\ (Whole(s, n, a) \/ Behind(s, n, a))
  BY SplitEnds
<1>. DEFINE rest == SubSeq(s, a.start, n)
            items == a.items \o (IF rest = <<>> THEN <<>> ELSE <<rest>>)
<1>3. e = [count |-> total + 1, items |-> items]
  BY <1>2 DEF Explode
<1>4. e.count = total + 1 /\ e.items = items
  <2>. HIDE DEF e, items, total
  <2>. QED BY <1>3
<1>5. a.start \in 1..n + 1 /\ a.start \in Nat \ {0} /\ a.items \in Seq(Text) /\ Len(a.items) \in Nat
  BY <1>2, LenProperties DEF Whole, Behind, Split
<1>6. n \in 0..n
  BY <1>1
<1>7. rest \in Text
  BY <1>5, <1>6, PartTyped
<1>8. rest = <<>> <=> a.start = n + 1
  <2>1. \A k \in a.start..n : s[k] \in Characters
    <3>1. \A k \in 1..n : s[k] \in Characters
      BY ElementOfSeq DEF Text
    <3>. QED BY <1>1, <1>5, <3>1
  <2>2. a.start \in Int /\ n \in Int
    BY <1>1, <1>5
  <2>3. Len(rest) = IF a.start <= n THEN n - a.start + 1 ELSE 0
    BY <2>1, <2>2, SubSeqProperties
  <2>4. rest = <<>> <=> Len(rest) = 0
    BY <1>7, EmptySeq DEF Text
  <2>. HIDE DEF rest, n
  <2>. QED BY <1>1, <1>5, <2>3, <2>4
<1>. DEFINE S == Separators(s)
<1>9. S = {k \in 1..n : s[k] = Separator}
  BY SeparatorsAre
<1>. HIDE DEF n, total, e, rest, S
<1>10. items = IF a.start = n + 1 THEN a.items ELSE Append(a.items, rest)
  <2>1. a.items \o <<>> = a.items
    BY <1>5, ConcatEmptySeq
  <2>2. Append(a.items, rest) = a.items \o <<rest>>
    BY <1>5, <1>7, AppendIsConcat
  <2>. QED BY <1>8, <2>1, <2>2
<1>. HIDE DEF items
<1>11. items \in Seq(Text) /\ Len(items) <= Len(a.items) + 1
  <2>1. Append(a.items, rest) \in Seq(Text) /\ Len(Append(a.items, rest)) = Len(a.items) + 1
    BY <1>5, <1>7, AppendProperties
  <2>. QED BY <1>5, <1>10, <2>1
<1>12. s = <<>> <=> n = 0
  BY EmptySeq DEF Text, n
<1>13. CASE Behind(s, n, a)
  <2>1. NamesEmpty(s) /\ Len(a.items) < total
    BY <1>1, <1>13 DEF Behind
  <2>2. Len(items) \in Nat
    BY <1>11, LenProperties
  <2>3. Len(items) < total + 1
    BY <1>1, <1>5, <1>11, <2>1, <2>2
  <2>. QED BY <1>4, <1>11, <2>1, <2>3 DEF ItemsOf, e
<1>14. CASE Whole(s, n, a) /\ a.start = n + 1
  <2>1. NamesEmpty(s)
    <3>1. CASE a.start = 1
      BY <1>1, <1>12, <1>14, <3>1 DEF NamesEmpty
    <3>2. CASE a.start # 1 /\ s[a.start - 1] = Separator
      <4>1. n \in 1..n /\ a.start - 1 = n
        BY <1>1, <1>5, <1>14, <3>2
      <4>2. n \in S
        BY <1>9, <3>2, <4>1
      <4>. QED BY <4>2 DEF NamesEmpty, S, n
    <3>. QED BY <1>14, <3>1, <3>2 DEF Whole, Begun
  <2>2. Len(items) = total
    BY <1>1, <1>10, <1>14 DEF Whole
  <2>3. Len(items) < total + 1
    BY <1>1, <2>2
  <2>. QED BY <1>4, <1>11, <2>1, <2>3 DEF ItemsOf, e
<1>15. CASE Whole(s, n, a) /\ a.start # n + 1
  <2>. DEFINE all == Append(a.items, rest)
  <2>1. n \in 0..Len(s) /\ Whole(s, n, a)
    BY <1>6, <1>15 DEF n
  <2>2. /\ all # <<>> /\ Len(all) = Separated(s, n) + 1
        /\ \A j \in 1..Len(all) : NoComma(all[j])
        /\ Joined(all) = SubSeq(s, 1, n)
    BY <2>1, EndedItem DEF rest
  <2>. HIDE DEF all
  <2>3. items = all
    BY <1>10, <1>15 DEF all
  <2>4. SubSeq(s, 1, n) = s
    BY SubSeqFull DEF Text, n
  <2>5. /\ \A k \in a.start..n : s[k] # Separator
        /\ \A k \in 1..n : s[k] = Separator => k # 1 /\ s[k - 1] # Separator
    BY <1>15 DEF Whole
  <2>6. n \in a.start..n /\ n # 0
    BY <1>1, <1>5, <1>15
  <2>7. 1 \notin S /\ n \notin S
    BY <1>9, <2>5, <2>6
  <2>8. \A k \in S : k + 1 \notin S
    <3>. SUFFICES ASSUME NEW k \in S, k + 1 \in S PROVE FALSE
      OBVIOUS
    <3>1. k + 1 \in 1..n /\ s[k + 1] = Separator /\ s[k] = Separator /\ k \in Nat
      BY <1>1, <1>9
    <3>2. s[(k + 1) - 1] # Separator
      BY <2>5, <3>1
    <3>. QED BY <3>1, <3>2
  <2>9. ~NamesEmpty(s)
    BY <1>12, <2>6, <2>7, <2>8 DEF NamesEmpty, S, n
  <2>10. total + 1 = Len(items) /\ Joined(items) = s /\ \A j \in 1..Len(items) : NoComma(items[j])
    BY <1>1, <2>2, <2>3, <2>4
  <2>. QED BY <1>4, <1>11, <2>9, <2>10 DEF ItemsOf, e
<1>. QED BY <1>2, <1>13, <1>14, <1>15

\* A list is taken apart into its items, as many as are announced, unless it
\* names an empty one: then fewer are filled in than are announced.
THEOREM ListsExploded == CodecsSpec => []ExplodeItems
<1>1. Results => ExplodeItems
  <2>. DEFINE s == job.input
              items == out.value.items
  <2>. SUFFICES ASSUME Results, Computed("CStrExplode")
                PROVE  IF NamesEmpty(s) THEN Len(items) < out.value.count
                       ELSE out.value.count = Len(items) /\ Joined(items) = s
                              /\ \A i \in DOMAIN items : ~Contains(items[i], Separator)
    BY DEF ExplodeItems
  <2>1. out.value = Explode(s)
    BY DEF Results
  <2>2. s \in Text
    <3>1. s \in Seq(STRING)
      BY InputsTyped DEF Results, Computed
    <3>. QED BY <3>1, SeqMonotonic DEF Text, Characters
  <2>. HIDE DEF s
  <2>3. items \in Seq(Text) /\ ItemsOf(out.value, s)
    BY <2>1, <2>2, ExplodeIs
  <2>4. \A i \in DOMAIN items : NoComma(items[i]) => ~Contains(items[i], Separator)
    BY DEF Contains, NoComma
  <2>5. DOMAIN items = 1..Len(items)
    BY <2>3, LenProperties
  <2>. QED BY <2>3, <2>4, <2>5 DEF ItemsOf
<1>. QED BY <1>1, Computations, PTL

-----------------------------------------------------------------------------
(* MD5 over pieces.                                                        *)

\* A quotient and a remainder are the only ones.
LEMMA Divided ==
    ASSUME NEW d \in Nat \ {0}, NEW q \in Nat, NEW r \in 0..d - 1
    PROVE  (d * q + r) \div d = q /\ (d * q + r) % d = r
<1>. DEFINE n == d * q + r
            p == n \div d
            s == n % d
<1>1. d * q \in Nat /\ n \in Nat
  OBVIOUS
<1>2. p \in Nat /\ s \in 0..d - 1 /\ n = d * p + s
  <2>1. n \in Nat
    BY <1>1
  <2>. HIDE DEF n
  <2>. QED BY <2>1, DivideByte
<1>3. d * p + s = d * q + r
  BY <1>2
<1>. HIDE DEF n, p, s
<1>4. ASSUME NEW x \in Nat, NEW y \in Nat, NEW u \in 0..d - 1, NEW v \in 0..d - 1,
             d * x + u = d * y + v, x < y
      PROVE  FALSE
  <2>1. y - x - 1 \in Nat /\ y = x + 1 + (y - x - 1)
    BY <1>4
  <2>2. PICK e \in Nat : y = x + 1 + e
    BY <2>1
  <2>3. d * y = d * x + d + d * e
    BY <2>2
  <2>4. d * e \in Nat /\ d * x \in Nat
    OBVIOUS
  <2>. QED BY <1>4, <2>3, <2>4
<1>5. ~(p < q) /\ ~(q < p)
  BY <1>2, <1>3, <1>4
<1>6. p = q
  BY <1>2, <1>5
<1>7. s = r
  BY <1>1, <1>2, <1>3, <1>6
<1>. QED BY <1>6, <1>7 DEF p, s, n

\* The sum of two numbers: with a carry when the remainders come to d.
Carry(m, n, d) == IF (m % d) + (n % d) >= d THEN 1 ELSE 0

LEMMA AddDivided ==
    ASSUME NEW d \in Nat \ {0}, NEW m \in Nat, NEW n \in Nat
    PROVE  /\ (m + n) \div d = (m \div d) + Carry(m, n, d) + (n \div d)
           /\ (m + n) % d = (m % d) + (n % d) - (IF Carry(m, n, d) = 1 THEN d ELSE 0)
<1>. DEFINE p == m \div d
            q == n \div d
            r == m % d
            s == n % d
            c == Carry(m, n, d)
            u == r + s - (IF c = 1 THEN d ELSE 0)
            w == p + c + q
<1>1. p \in Nat /\ q \in Nat /\ r \in 0..d - 1 /\ s \in 0..d - 1
  BY DivideByte
<1>2. m = d * p + r /\ n = d * q + s
  BY DivideByte
<1>3. c = IF r + s >= d THEN 1 ELSE 0
  BY DEF Carry
<1>. HIDE DEF p, q, r, s, c
<1>4. u \in 0..d - 1 /\ w \in Nat
  BY <1>1, <1>3
<1>5. d * w = d * p + d * q + (IF c = 1 THEN d ELSE 0)
  <2>1. CASE c = 1
    BY <1>1, <2>1
  <2>2. CASE c = 0
    BY <1>1, <2>2
  <2>. QED BY <1>3, <2>1, <2>2
<1>6. d * p \in Nat /\ d * q \in Nat
  BY <1>1
<1>7. m + n = d * w + u
  BY <1>1, <1>2, <1>3, <1>5, <1>6
<1>. HIDE DEF u, w
<1>8. (m + n) \div d = w /\ (m + n) % d = u
  BY <1>4, <1>7, Divided
<1>. QED BY <1>8 DEF u, w, p, q, r, s, c

\* A remainder may be taken early.
LEMMA EarlyRemainder ==
    ASSUME NEW d \in Nat \ {0}, NEW m \in Nat, NEW n \in Nat
    PROVE  ((m % d) + n) % d = (m + n) % d
<1>. DEFINE r == m % d
            k == d * (m \div d)
<1>1. r \in 0..d - 1 /\ m \div d \in Nat /\ m = d * (m \div d) + r
  BY DivideByte
<1>2. PICK p \in Nat : m = d * p + r
  BY <1>1
<1>. HIDE DEF r
<1>3. (r + n) % d \in 0..d - 1 /\ (r + n) \div d \in Nat
      /\ r + n = d * ((r + n) \div d) + ((r + n) % d)
  <2>1. r + n \in Nat
    BY <1>1
  <2>. QED BY <2>1, DivideByte
<1>4. PICK q \in Nat : r + n = d * q + ((r + n) % d)
  BY <1>3
<1>. DEFINE s == (r + n) % d
<1>5. s \in 0..d - 1 /\ r + n = d * q + s
  BY <1>3, <1>4
<1>. HIDE DEF s
<1>6. d * (p + q) = d * p + d * q
  OBVIOUS
<1>7. d * p \in Nat /\ d * q \in Nat
  OBVIOUS
<1>8. m + n = d * (p + q) + s
  BY <1>1, <1>2, <1>5, <1>6, <1>7
<1>9. (m + n) % d = s
  <2>1. p + q \in Nat
    OBVIOUS
  <2>. QED BY <1>5, <1>8, <2>1, Divided
<1>. QED BY <1>9 DEF s, r

LEMMA BlockValues ==
    BlockSize \in Nat \ {0} /\ BlockSize > 2 /\ Word \in Nat \ {0} /\ LengthSize = 2
<1>1. BlockSize \in Nat /\ BlockSize > 2
  BY SizesAssumption DEF LengthSize
<1>2. Word \in Nat /\ Word >= 8 * BlockSize
  BY SizesAssumption
<1>. QED BY <1>1, <1>2 DEF LengthSize

\* The two words for the bits of n bytes.
Bits64(n) == <<(8 * n) % Word, ((8 * n) \div Word) % Word>>

\* A word keeps the place in the block.
LEMMA IndexIs ==
    ASSUME NEW n \in Nat
    PROVE  Index(Bits64(n)) = n % BlockSize
<1>. DEFINE b == BlockSize
            r == (8 * n) % Word
            k == r \div 8
<1>1. b \in Nat \ {0} /\ Word \in Nat \ {0}
  BY BlockValues
<1>2. PICK w \in Nat : Word = (8 * b) * w
  <2>1. Word % (8 * b) = 0
    BY SizesAssumption
  <2>2. 8 * b \in Nat \ {0}
    BY <1>1
  <2>. DEFINE e == 8 * b
  <2>. HIDE DEF e
  <2>3. Word = e * (Word \div e) + (Word % e) /\ Word \div e \in Nat
    BY <1>1, <2>2, DivideByte DEF e
  <2>4. Word = e * (Word \div e)
    <3>. DEFINE x == e * (Word \div e)
    <3>1. x \in Nat
      BY <2>2, <2>3 DEF e
    <3>. HIDE DEF x
    <3>2. Word = x + 0
      BY <2>1, <2>3 DEF e, x
    <3>. QED BY <3>1, <3>2 DEF x
  <2>. QED BY <2>3, <2>4 DEF e
<1>3. PICK q \in Nat : 8 * n = Word * q + r /\ r \in 0..Word - 1
  <2>1. 8 * n \in Nat
    OBVIOUS
  <2>2. (8 * n) \div Word \in Nat /\ r \in 0..Word - 1 /\ 8 * n = Word * ((8 * n) \div Word) + r
    BY <1>1, <2>1, DivideByte
  <2>. QED BY <2>2
<1>. HIDE DEF r
<1>4. Word * q = 8 * (b * (w * q))
  BY <1>1, <1>2
<1>5. b * (w * q) \in Nat /\ w * q \in Nat
  BY <1>1
<1>. DEFINE x == b * (w * q)
<1>6. x \in Nat /\ 8 * n = 8 * x + r /\ r \in Nat
  BY <1>1, <1>3, <1>4, <1>5
<1>. HIDE DEF x, b
<1>7. k = n - x /\ k \in Nat
  BY <1>6
<1>. HIDE DEF k
<1>8. PICK u \in Nat : k = b * u + (k % b) /\ k % b \in 0..b - 1
  <2>1. k \div b \in Nat /\ k % b \in 0..b - 1 /\ k = b * (k \div b) + (k % b)
    BY <1>1, <1>7, DivideByte DEF b
  <2>. QED BY <2>1
<1>. DEFINE v == k % b
            y == w * q
<1>9. y \in Nat /\ x = b * y
  BY <1>5 DEF x
<1>10. v \in 0..b - 1 /\ k = b * u + v
  BY <1>8
<1>. HIDE DEF v, y
<1>11. b * (y + u) = b * y + b * u
  BY <1>1, <1>9
<1>12. n = b * (y + u) + v
  <2>1. b * y \in Nat /\ b * u \in Nat /\ v \in Nat
    <3>1. b \in Nat /\ y \in Nat /\ u \in Nat /\ v \in Nat
      BY <1>1, <1>9, <1>10 DEF b
    <3>. HIDE DEF b
    <3>. QED BY <3>1
  <2>. DEFINE e == b * y
              f == b * u
  <2>2. k = n - e /\ k = f + v /\ k \in Nat
    BY <1>7, <1>9, <1>10
  <2>3. b * (y + u) = e + f
    BY <1>11
  <2>. HIDE DEF e, f
  <2>4. n = (e + f) + v
    BY <2>1, <2>2 DEF e, f
  <2>. QED BY <2>3, <2>4
<1>13. n % b = v
  <2>1. y + u \in Nat
    BY <1>9
  <2>. QED BY <1>1, <1>10, <1>12, <2>1, Divided DEF b
<1>14. Index(Bits64(n)) = k % BlockSize
  BY DEF Index, Bits64, k, r
<1>. QED BY <1>13, <1>14 DEF v, b

\* The count of more bytes.
LEMMA CountedIs ==
    ASSUME NEW m \in Nat, NEW n \in Nat
    PROVE  Counted(Bits64(m), n) = Bits64(m + n)
<1>. DEFINE a == 8 * m
            b == 8 * n
            low == ((a % Word) + b) % Word
            c == Carry(a, b, Word)
            high == (((a \div Word) % Word) + (IF low < b % Word THEN 1 ELSE 0) + (b \div Word)) % Word
<1>1. Word \in Nat \ {0} /\ a \in Nat /\ b \in Nat /\ 8 * (m + n) = a + b
  BY BlockValues
<1>2. Counted(Bits64(m), n) = <<low, high>>
  BY DEF Counted, Bits64
<1>3. Bits64(m + n) = <<(a + b) % Word, ((a + b) \div Word) % Word>>
  BY <1>1 DEF Bits64
<1>. HIDE DEF a, b
<1>4. low = (a + b) % Word
  BY <1>1, EarlyRemainder
<1>5. /\ (a + b) \div Word = (a \div Word) + c + (b \div Word)
      /\ (a + b) % Word = (a % Word) + (b % Word) - (IF c = 1 THEN Word ELSE 0)
  BY <1>1, AddDivided
<1>6. /\ a \div Word \in Nat /\ b \div Word \in Nat /\ a % Word \in 0..Word - 1 /\ b % Word \in 0..Word - 1
  BY <1>1, DivideByte
<1>7. c = IF (a % Word) + (b % Word) >= Word THEN 1 ELSE 0
  BY DEF Carry
<1>8. (IF low < b % Word THEN 1 ELSE 0) = c
  <2>. DEFINE r == a % Word
              s == b % Word
  <2>1. low = r + s - (IF c = 1 THEN Word ELSE 0) /\ c = IF r + s >= Word THEN 1 ELSE 0
    BY <1>4, <1>5, <1>7
  <2>2. r \in 0..Word - 1 /\ s \in 0..Word - 1
    BY <1>6
  <2>. HIDE DEF r, s, c, low
  <2>3. (IF low < s THEN 1 ELSE 0) = c
    BY <1>1, <2>1, <2>2
  <2>. QED BY <2>3 DEF s
<1>9. high = ((a + b) \div Word) % Word
  <2>. DEFINE p == a \div Word
              q == b \div Word
  <2>1. high = ((p % Word) + c + q) % Word
    BY <1>8
  <2>2. p \in Nat /\ q \in Nat /\ c \in Nat /\ p % Word \in Nat
    <3>1. p \in Nat /\ q \in Nat /\ c \in Nat
      BY <1>6, <1>7
    <3>. HIDE DEF p
    <3>. QED BY <1>1, <3>1, DivideByte
  <2>. HIDE DEF p, q, c, high
  <2>3. (p % Word) + c + q = (p % Word) + (c + q) /\ p + c + q = p + (c + q)
    BY <2>2
  <2>4. ((p % Word) + (c + q)) % Word = (p + (c + q)) % Word
    <3>1. c + q \in Nat
      BY <2>2
    <3>. QED BY <1>1, <2>2, <3>1, EarlyRemainder
  <2>5. (a + b) \div Word = p + c + q
    BY <1>5 DEF p, q
  <2>. QED BY <2>1, <2>3, <2>4, <2>5
<1>. QED BY <1>2, <1>3, <1>4, <1>9

\* The whole blocks of a text, and the rest of it.
Bytes == Seq(Nat)
Ended(t) == BlockSize * (Len(t) \div BlockSize)
Rest(t) == SubSeq(t, Ended(t) + 1, Len(t))

LEMMA BytesLength == \A t \in Bytes : Len(t) \in Nat
  BY LenProperties DEF Bytes

LEMMA BytesAssociate ==
    ASSUME NEW s \in Bytes, NEW t \in Bytes, NEW u \in Bytes
    PROVE  (s \o t) \o u = s \o (t \o u)
BY ConcatAssociative, SMTT(30) DEF Bytes

LEMMA EndedIs ==
    ASSUME NEW t \in Bytes
    PROVE  /\ Ended(t) \in 0..Len(t) /\ Len(t) = Ended(t) + (Len(t) % BlockSize)
           /\ Len(t) % BlockSize \in 0..BlockSize - 1 /\ Len(t) \div BlockSize \in Nat
<1>1. Len(t) \in Nat /\ BlockSize \in Nat \ {0}
  BY BytesLength, BlockValues
<1>2. Len(t) \div BlockSize \in Nat /\ Len(t) % BlockSize \in 0..BlockSize - 1
      /\ Len(t) = Ended(t) + (Len(t) % BlockSize)
  BY <1>1, DivideByte DEF Ended
<1>3. Ended(t) \in Nat
  BY <1>1, <1>2 DEF Ended
<1>. QED BY <1>1, <1>2, <1>3

\* A part of a text.
IsPart(p, t, a, b) == p \in Bytes /\ Len(p) = b /\ \A i \in 1..b : p[i] = t[a + i]

LEMMA BytesPart ==
    ASSUME NEW t \in Bytes, NEW a \in Nat, NEW b \in Nat, a + b <= Len(t)
    PROVE  IsPart(SubSeq(t, a + 1, a + b), t, a, b)
<1>. DEFINE m == a + 1
            n == a + b
            p == SubSeq(t, m, n)
<1>1. m \in Int /\ n \in Int /\ n - m + 1 = b /\ (b = 0 <=> ~(m <= n))
  OBVIOUS
<1>2. \A i \in m..n : t[i] \in Nat
  <2>1. \A i \in 1..Len(t) : t[i] \in Nat
    BY ElementOfSeq DEF Bytes
  <2>2. Len(t) \in Nat
    BY BytesLength
  <2>. QED BY <2>1, <2>2
<1>. HIDE DEF m, n
<1>3. /\ p \in Seq(Nat) /\ Len(p) = IF m <= n THEN n - m + 1 ELSE 0
      /\ \A i \in 1..n - m + 1 : p[i] = t[m + i - 1]
  BY <1>1, <1>2, SubSeqProperties
<1>. HIDE DEF p
<1>4. Len(p) = b
  BY <1>1, <1>3
<1>5. ASSUME NEW i \in 1..b PROVE p[i] = t[a + i]
  <2>1. p[i] = t[m + i - 1]
    BY <1>1, <1>3
  <2>2. m + i - 1 = a + i
    BY DEF m
  <2>. QED BY <2>1, <2>2
<1>. QED BY <1>3, <1>4, <1>5 DEF p, m, n, Bytes, IsPart

LEMMA RestIs ==
    ASSUME NEW t \in Bytes
    PROVE  /\ Rest(t) \in Bytes /\ Len(Rest(t)) = Len(t) % BlockSize
           /\ \A i \in 1..Len(t) % BlockSize : Rest(t)[i] = t[Ended(t) + i]
<1>. DEFINE a == Ended(t)
            b == Len(t) % BlockSize
<1>1. a \in Nat /\ b \in Nat /\ a + b <= Len(t) /\ a + b = Len(t)
  BY EndedIs, BlockValues, BytesLength
<1>. HIDE DEF a, b
<1>2. IsPart(SubSeq(t, a + 1, a + b), t, a, b)
  BY <1>1, BytesPart
<1>3. Rest(t) = SubSeq(t, a + 1, a + b)
  BY <1>1 DEF Rest, a
<1>. QED BY <1>2, <1>3 DEF a, b, IsPart

\* The whole blocks before the rest, as one text.
LEMMA WholeAndRest ==
    ASSUME NEW t \in Bytes
    PROVE  \E w \in Bytes : t = w \o Rest(t) /\ Len(w) = Ended(t)
<1>. DEFINE w == SubSeq(t, 1, Ended(t))
            n == Len(t)
            a == Ended(t)
<1>1. a \in 0..n /\ n \in Nat
  BY EndedIs, BytesLength
<1>2. w \in Bytes /\ Len(w) = a
  <2>. HIDE DEF a
  <2>1. 0 \in Nat /\ a \in Nat /\ 0 + a <= Len(t) /\ 0 + 1 = 1 /\ 0 + a = a
    BY <1>1
  <2>2. IsPart(SubSeq(t, 0 + 1, 0 + a), t, 0, a)
    BY <2>1, BytesPart
  <2>. QED BY <2>1, <2>2 DEF a, IsPart
<1>3. w \o Rest(t) = SubSeq(t, 1, n)
  <2>. HIDE DEF a
  <2>1. 1 \in 1..Len(t) + 1 /\ a \in 1 - 1..Len(t) /\ n \in a..Len(t)
    BY <1>1
  <2>2. SubSeq(t, 1, a) \o SubSeq(t, a + 1, n) = SubSeq(t, 1, n)
    BY <2>1, ConcatAdjacentSubSeq DEF Bytes
  <2>. QED BY <2>2 DEF a, Rest
<1>4. SubSeq(t, 1, n) = t
  BY SubSeqFull DEF Bytes
<1>. QED BY <1>2, <1>3, <1>4

SamePart(t, a, e, c, b) == \A i \in 1..b : t[a + i] = e[c + i]

LEMMA PartEqual ==
    ASSUME NEW p, NEW t, NEW a, NEW d, NEW e, NEW c, NEW b \in Nat,
           IsPart(p, t, a, b), IsPart(d, e, c, b), SamePart(t, a, e, c, b)
    PROVE  p = d
<1>1. p \in Seq(Nat) /\ d \in Seq(Nat) /\ Len(p) = b /\ Len(d) = b
  BY DEF IsPart, Bytes
<1>2. \A i \in 1..b : p[i] = d[i]
  BY DEF IsPart, SamePart
<1>. QED BY <1>1, <1>2, SeqEqual

\* One block of a text.
Block(t, k) == SubSeq(t, BlockSize * (k - 1) + 1, BlockSize * k)

LEMMA BlockIs ==
    ASSUME NEW t \in Bytes, NEW k \in 1..Len(t) \div BlockSize
    PROVE  IsPart(Block(t, k), t, BlockSize * (k - 1), BlockSize)
<1>. DEFINE b == BlockSize
            q == Len(t) \div b
            a == b * (k - 1)
<1>1. b \in Nat \ {0} /\ q \in Nat /\ Ended(t) = b * q /\ Ended(t) <= Len(t) /\ Len(t) \in Nat
  BY BlockValues, EndedIs, BytesLength DEF Ended
<1>2. k \in 1..q
  OBVIOUS
<1>. HIDE DEF b, q
<1>3. k \in Nat /\ k - 1 \in Nat /\ q - k \in Nat /\ q = k + (q - k)
  BY <1>1, <1>2
<1>4. PICK e \in Nat : q = k + e
  BY <1>3
<1>5. b * q = b * k + b * e /\ b * e \in Nat /\ b * k \in Nat
  BY <1>1, <1>3, <1>4
<1>6. a \in Nat /\ b * k = a + b
  BY <1>1, <1>3
<1>. HIDE DEF a
<1>7. a + b <= Len(t)
  BY <1>1, <1>5, <1>6
<1>8. IsPart(SubSeq(t, a + 1, a + b), t, a, b)
  BY <1>1, <1>6, <1>7, BytesPart
<1>. QED BY <1>6, <1>8 DEF Block, a, b

LEMMA BlocksAre ==
    ASSUME NEW t \in Bytes
    PROVE  /\ Blocks(t) \in Seq(Bytes) /\ Len(Blocks(t)) = Len(t) \div BlockSize
           /\ \A k \in 1..Len(t) \div BlockSize : Blocks(t)[k] = Block(t, k)
<1>. DEFINE q == Len(t) \div BlockSize
            f == Blocks(t)
<1>1. q \in Nat
  BY EndedIs
<1>2. f = [k \in 1..q |-> Block(t, k)]
  BY DEF Blocks, Block
<1>3. \A k \in 1..q : Block(t, k) \in Bytes
  BY BlockIs DEF IsPart
<1>. HIDE DEF q, f
<1>4. f \in [1..q -> Bytes]
  BY <1>2, <1>3
<1>5. f \in Seq(Bytes) /\ Len(f) = q
  BY <1>1, <1>4, FunctionIsSeq
<1>. QED BY <1>2, <1>5 DEF f, q

\* What a sequence of whole blocks and another text hold.
LEMMA CatDivided ==
    ASSUME NEW u \in Bytes, NEW v \in Bytes, NEW q \in Nat, Len(u) = BlockSize * q
    PROVE  /\ u \o v \in Bytes /\ Len(u \o v) = Len(u) + Len(v)
           /\ Len(u \o v) \div BlockSize = q + (Len(v) \div BlockSize)
           /\ Len(u \o v) % BlockSize = Len(v) % BlockSize
           /\ Len(u) \div BlockSize = q
<1>. DEFINE b == BlockSize
            n == Len(v)
            x == n \div b
            r == n % b
<1>1. u \o v \in Bytes /\ Len(u \o v) = Len(u) + n
  BY ConcatProperties DEF Bytes
<1>2. b \in Nat \ {0} /\ n \in Nat /\ x \in Nat /\ r \in 0..b - 1 /\ n = b * x + r
  <2>1. b \in Nat \ {0} /\ n \in Nat
    BY BlockValues, BytesLength
  <2>. HIDE DEF b, n
  <2>. QED BY <2>1, DivideByte
<1>. HIDE DEF n, x, r, b
<1>3. Len(u) = b * q
  BY DEF b
<1>4. b * (q + x) = b * q + b * x /\ b * q \in Nat /\ b * x \in Nat /\ q + x \in Nat
  BY <1>2
<1>5. Len(u \o v) = b * (q + x) + r
  BY <1>1, <1>2, <1>3, <1>4
<1>6. Len(u \o v) \div b = q + x /\ Len(u \o v) % b = r
  BY <1>2, <1>4, <1>5, Divided
<1>7. Len(u) \div b = q
  <2>1. 0 \in 0..b - 1 /\ b * q = b * q + 0
    BY <1>2, <1>4
  <2>2. (b * q + 0) \div b = q
    BY <1>2, <2>1, Divided
  <2>. QED BY <1>3, <2>1, <2>2
<1>. QED BY <1>1, <1>6, <1>7 DEF b, n, x, r

LEMMA RestOfCat ==
    ASSUME NEW u \in Bytes, NEW v \in Bytes, NEW q \in Nat, Len(u) = BlockSize * q
    PROVE  Rest(u \o v) = Rest(v)
<1>. DEFINE b == Len(v) % BlockSize
            t == u \o v
            a == Ended(t)
            c == Ended(v)
<1>1. t \in Bytes /\ Len(t) % BlockSize = b /\ Len(t) = Len(u) + Len(v)
  BY CatDivided
<1>2. b \in Nat /\ c \in 0..Len(v) /\ Len(v) = c + b /\ Len(v) \in Nat /\ Len(u) \in Nat
  BY EndedIs, BlockValues, BytesLength
<1>3. a = Len(u) + c
  <2>. HIDE DEF t
  <2>0. Ended(t) \in 0..Len(t) /\ Len(t) = Ended(t) + (Len(t) % BlockSize)
    BY <1>1, EndedIs
  <2>1. Len(t) = a + b /\ a \in Nat
    BY <1>1, <2>0
  <2>. HIDE DEF a, b, c
  <2>. QED BY <1>1, <1>2, <2>1
<1>4. IsPart(Rest(t), t, a, b) /\ IsPart(Rest(v), v, c, b)
  BY <1>1, RestIs DEF IsPart
<1>5. \A i \in 1..Len(v) : t[Len(u) + i] = v[i]
  BY ConcatIs DEF Bytes
<1>. HIDE DEF a, b, c, t
<1>6. ASSUME NEW i \in 1..b PROVE t[a + i] = v[c + i]
  <2>1. c + i \in 1..Len(v) /\ a + i = Len(u) + (c + i)
    BY <1>2, <1>3
  <2>. QED BY <1>5, <2>1
<1>7. Rest(t) = Rest(v)
  BY <1>2, <1>4, <1>6, PartEqual DEF SamePart
<1>. QED BY <1>7 DEF t

LEMMA BlocksOfCat ==
    ASSUME NEW u \in Bytes, NEW v \in Bytes, NEW q \in Nat, Len(u) = BlockSize * q
    PROVE  Blocks(u \o v) = Blocks(u) \o Blocks(v)
<1>. DEFINE t == u \o v
            x == Len(v) \div BlockSize
            f == Blocks(u)
            g == Blocks(v)
            h == Blocks(t)
            c == f \o g
<1>1. /\ t \in Bytes /\ Len(t) \div BlockSize = q + x /\ Len(u) \div BlockSize = q
      /\ Len(t) = Len(u) + Len(v)
  BY CatDivided
<1>2. BlockSize \in Nat \ {0} /\ x \in Nat /\ Len(u) \in Nat /\ Len(v) \in Nat
  BY BlockValues, EndedIs, BytesLength
<1>3. /\ \A i \in 1..Len(u) : t[i] = u[i]
      /\ \A i \in 1..Len(v) : t[Len(u) + i] = v[i]
  BY ConcatIs, SMTT(30) DEF Bytes
<1>4. f \in Seq(Bytes) /\ Len(f) = q /\ \A k \in 1..q : f[k] = Block(u, k)
  BY <1>1, BlocksAre
<1>5. g \in Seq(Bytes) /\ Len(g) = x /\ \A k \in 1..x : g[k] = Block(v, k)
  BY BlocksAre
<1>6. h \in Seq(Bytes) /\ Len(h) = q + x /\ \A k \in 1..q + x : h[k] = Block(t, k)
  <2>. HIDE DEF t, h
  <2>1. Len(t) \div BlockSize = q + x
    BY <1>1
  <2>. QED BY <1>1, <2>1, BlocksAre DEF h
<1>. HIDE DEF f, g, h
<1>7. /\ c \in Seq(Bytes) /\ Len(c) = q + x
      /\ \A k \in 1..q : c[k] = f[k]
      /\ \A k \in 1..x : c[q + k] = g[k]
  <2>. HIDE DEF x
  <2>1. f \in Seq(Bytes) /\ g \in Seq(Bytes)
    BY <1>4, <1>5
  <2>2. /\ c \in Seq(Bytes) /\ Len(c) = Len(f) + Len(g)
        /\ \A k \in 1..Len(f) : c[k] = f[k]
        /\ \A k \in 1..Len(g) : c[Len(f) + k] = g[k]
    BY <2>1, ConcatIs
  <2>3. Len(f) = q /\ Len(g) = x
    BY <1>4, <1>5
  <2>. QED BY <2>2, <2>3
<1>8. \A k \in 1..q : IsPart(Block(u, k), u, BlockSize * (k - 1), BlockSize)
  BY <1>1, BlockIs
<1>9. \A k \in 1..x : IsPart(Block(v, k), v, BlockSize * (k - 1), BlockSize)
  BY BlockIs
<1>10. \A k \in 1..q + x : IsPart(Block(t, k), t, BlockSize * (k - 1), BlockSize)
  BY <1>1, BlockIs
<1>. HIDE DEF t, c, x
<1>11. ASSUME NEW k \in 1..q PROVE h[k] = c[k]
  <2>1. k \in 1..q + x
    BY <1>2
  <2>2. ASSUME NEW i \in 1..BlockSize
        PROVE  t[BlockSize * (k - 1) + i] = u[BlockSize * (k - 1) + i]
    <3>. DEFINE b == BlockSize
                a == b * (k - 1)
    <3>1. k - 1 \in Nat /\ q - k \in Nat
      OBVIOUS
    <3>2. a \in Nat /\ b * (q - k) \in Nat
      BY <1>2, <3>1
    <3>3. b * q = b * (k - 1) + b + b * (q - k)
      BY <1>2, <3>1
    <3>4. Len(u) = b * q
      OBVIOUS
    <3>. HIDE DEF b
    <3>5. Len(u) = a + b + b * (q - k)
      BY <3>3, <3>4
    <3>. HIDE DEF a
    <3>6. a + i \in 1..Len(u)
      BY <1>2, <3>2, <3>5 DEF b
    <3>7. t[a + i] = u[a + i]
      BY <1>3, <3>6
    <3>. QED BY <3>7 DEF a, b
  <2>. DEFINE a == BlockSize * (k - 1)
  <2>3. SamePart(t, a, u, a, BlockSize)
    BY <2>2 DEF SamePart
  <2>4. IsPart(Block(t, k), t, a, BlockSize) /\ IsPart(Block(u, k), u, a, BlockSize)
    BY <1>8, <1>10, <2>1
  <2>. HIDE DEF a
  <2>5. Block(t, k) = Block(u, k)
    BY <1>2, <2>3, <2>4, PartEqual
  <2>. QED BY <1>4, <1>6, <1>7, <2>1, <2>5
<1>12. ASSUME NEW k \in 1..x PROVE h[q + k] = c[q + k]
  <2>1. q + k \in 1..q + x
    BY <1>2
  <2>2. ASSUME NEW i \in 1..BlockSize
        PROVE  t[BlockSize * ((q + k) - 1) + i] = v[BlockSize * (k - 1) + i]
    <3>. DEFINE b == BlockSize
                a == b * (k - 1)
                y == Len(v) % b
    <3>1. k - 1 \in Nat /\ x - k \in Nat
      BY <1>2
    <3>2. a \in Nat /\ b * (x - k) \in Nat
      BY <1>2, <3>1
    <3>3. b * x = b * (k - 1) + b + b * (x - k)
      BY <1>2, <3>1
    <3>4. b * ((q + k) - 1) = b * q + b * (k - 1) /\ b * q = Len(u)
      BY <1>2, <3>1
    <3>5. b * x <= Len(v)
      <4>1. Ended(v) <= Len(v) /\ Ended(v) = b * x
        BY EndedIs, <1>2 DEF Ended, x
      <4>. QED BY <4>1
    <3>. HIDE DEF b
    <3>6. b * ((q + k) - 1) = Len(u) + a /\ a + b + b * (x - k) <= Len(v)
      BY <3>3, <3>4, <3>5
    <3>. HIDE DEF a
    <3>7. a + i \in 1..Len(v)
      BY <1>2, <3>2, <3>6 DEF b
    <3>8. t[Len(u) + (a + i)] = v[a + i]
      BY <1>3, <3>7
    <3>9. b * ((q + k) - 1) + i = Len(u) + (a + i)
      BY <1>2, <3>2, <3>6
    <3>. QED BY <3>8, <3>9 DEF a, b
  <2>. DEFINE a == BlockSize * ((q + k) - 1)
              d == BlockSize * (k - 1)
  <2>3. SamePart(t, a, v, d, BlockSize)
    BY <2>2 DEF SamePart
  <2>4. IsPart(Block(t, q + k), t, a, BlockSize) /\ IsPart(Block(v, k), v, d, BlockSize)
    BY <1>9, <1>10, <2>1
  <2>. HIDE DEF a, d
  <2>5. Block(t, q + k) = Block(v, k)
    BY <1>2, <2>3, <2>4, PartEqual
  <2>. QED BY <1>5, <1>6, <1>7, <2>1, <2>5
<1>13. \A k \in 1..Len(h) : h[k] = c[k]
  <2>. SUFFICES ASSUME NEW k \in 1..q + x PROVE h[k] = c[k]
    BY <1>6
  <2>1. CASE k \in 1..q
    BY <1>11, <2>1
  <2>2. CASE k \notin 1..q
    <3>1. k - q \in 1..x /\ q + (k - q) = k
      BY <1>2, <2>2
    <3>2. h[q + (k - q)] = c[q + (k - q)]
      BY <1>12, <3>1
    <3>. QED BY <3>1, <3>2
  <2>. QED BY <2>1, <2>2
<1>14. h = c
  BY <1>6, <1>7, <1>13, SeqEqual
<1>. QED BY <1>14 DEF h, c, f, g, t

\* The buffer, and a text at its start.
Buffers == [1..BlockSize -> Nat]
Holds(buffer, d) == \A i \in 1..Len(d) : buffer[i] = d[i]
Overlaid(new, buffer, at, s) ==
    /\ new \in Buffers
    /\ \A i \in 1..at : new[i] = buffer[i]
    /\ \A i \in 1..Len(s) : new[at + i] = s[i]

LEMMA OverlayIs ==
    ASSUME NEW buffer \in Buffers, NEW at \in Nat, NEW s \in Bytes, at + Len(s) <= BlockSize
    PROVE  Overlaid(Overlay(buffer, at, s), buffer, at, s)
<1>. DEFINE new == Overlay(buffer, at, s)
            n == Len(s)
<1>1. BlockSize \in Nat /\ n \in Nat /\ DOMAIN buffer = 1..BlockSize /\ DOMAIN s = 1..n
  BY BlockValues, LenProperties DEF Buffers, Bytes
<1>2. \A i \in 1..n : s[i] \in Nat
  BY ElementOfSeq DEF Bytes
<1>3. new = [i \in 1..BlockSize |-> IF i - at \in 1..n THEN s[i - at] ELSE buffer[i]]
  BY <1>1 DEF Overlay
<1>. HIDE DEF new, n
<1>4. \A i \in 1..BlockSize : (IF i - at \in 1..n THEN s[i - at] ELSE buffer[i]) \in Nat
  BY <1>2 DEF Buffers
<1>5. new \in Buffers
  BY <1>3, <1>4 DEF Buffers
<1>6. ASSUME NEW i \in 1..at PROVE new[i] = buffer[i]
  <2>1. i \in 1..BlockSize /\ i - at \notin 1..n
    BY <1>1 DEF n
  <2>. QED BY <1>3, <2>1
<1>7. ASSUME NEW i \in 1..n PROVE new[at + i] = s[i]
  <2>1. at + i \in 1..BlockSize /\ (at + i) - at = i
    BY <1>1 DEF n
  <2>. QED BY <1>3, <2>1
<1>. QED BY <1>5, <1>6, <1>7 DEF Overlaid, new, n

LEMMA HeldPart ==
    ASSUME NEW buffer \in Buffers, NEW d \in Bytes, Len(d) <= BlockSize, Holds(buffer, d)
    PROVE  SubSeq(buffer, 1, Len(d)) = d
<1>. DEFINE n == Len(d)
            p == SubSeq(buffer, 1, n)
<1>1. n \in Nat /\ BlockSize \in Nat /\ 1 \in Int /\ n \in Int /\ n - 1 + 1 = n
  BY BytesLength, BlockValues
<1>2. \A i \in 1..n : buffer[i] \in Nat
  BY <1>1 DEF Buffers
<1>3. /\ p \in Seq(Nat) /\ Len(p) = IF 1 <= n THEN n - 1 + 1 ELSE 0
      /\ \A i \in 1..n - 1 + 1 : p[i] = buffer[1 + i - 1]
  <2>. HIDE DEF n
  <2>. QED BY <1>1, <1>2, SubSeqProperties
<1>. HIDE DEF p
<1>4. Len(p) = n
  BY <1>1, <1>3
<1>5. ASSUME NEW i \in 1..n PROVE p[i] = d[i]
  <2>1. p[i] = buffer[1 + i - 1] /\ 1 + i - 1 = i
    BY <1>1, <1>3
  <2>. QED BY <2>1 DEF Holds
<1>6. p = d
  BY <1>3, <1>4, <1>5, SeqEqual DEF Bytes
<1>. QED BY <1>6 DEF p

\* A text too short for a block.
LEMMA NoBlocks ==
    ASSUME NEW t \in Bytes, Len(t) < BlockSize
    PROVE  Len(t) \div BlockSize = 0 /\ Len(t) % BlockSize = Len(t)
           /\ Blocks(t) = <<>> /\ Rest(t) = t
<1>. DEFINE n == Len(t)
<1>1. n \in Nat /\ BlockSize \in Nat \ {0}
  BY BytesLength, BlockValues
<1>2. n \div BlockSize = 0 /\ n % BlockSize = n
  <2>1. BlockSize * 0 + n = n /\ n \in 0..BlockSize - 1
    BY <1>1
  <2>. HIDE DEF n
  <2>2. (BlockSize * 0 + n) \div BlockSize = 0 /\ (BlockSize * 0 + n) % BlockSize = n
    BY <1>1, <2>1, Divided
  <2>. QED BY <2>1, <2>2
<1>3. Blocks(t) = <<>>
  <2>. DEFINE f == Blocks(t)
  <2>1. f \in Seq(Bytes) /\ Len(f) = 0
    BY <1>2, BlocksAre
  <2>. HIDE DEF f
  <2>2. f = <<>>
    BY <2>1, EmptySeq
  <2>. QED BY <2>2 DEF f
<1>4. Rest(t) = t
  <2>1. Ended(t) = 0
    <3>1. Ended(t) = BlockSize * 0
      BY <1>2 DEF Ended
    <3>. QED BY <1>1, <3>1
  <2>2. Rest(t) = SubSeq(t, 1, Len(t))
    BY <2>1 DEF Rest
  <2>. QED BY <2>2, SubSeqFull DEF Bytes
<1>. QED BY <1>2, <1>3, <1>4

\* The state has absorbed a text: its whole blocks are in the state, the rest
\* of it begins the buffer.
Md5s == [state : Seq(Bytes), count : Nat \X Nat, buffer : Buffers,
         finished : {FALSE}, digest : Seq(Bytes)]
Absorbed(m, t) ==
    /\ m \in Md5s
    /\ m.count = Bits64(Len(t))
    /\ m.state = Blocks(t)
    /\ Holds(m.buffer, Rest(t))

LEMMA FirstAbsorbed == Absorbed(NewMd5, <<>>)
<1>. DEFINE m == NewMd5
            e == <<>>
<1>1. e \in Bytes /\ e \in Seq(Bytes) /\ Len(e) = 0
  BY DEF Bytes
<1>2. BlockSize \in Nat \ {0} /\ Word \in Nat \ {0}
  BY BlockValues
<1>. DEFINE buffer == [i \in 1..BlockSize |-> 0]
<1>3. buffer \in Buffers
  BY DEF Buffers
<1>4. m = [state |-> e, count |-> <<0, 0>>, buffer |-> buffer, finished |-> FALSE, digest |-> e]
  BY DEF NewMd5
<1>. HIDE DEF e, buffer, m
<1>5. m \in Md5s
  <2>1. <<0, 0>> \in Nat \X Nat
    OBVIOUS
  <2>. DEFINE c == <<0, 0>>
  <2>. HIDE DEF c
  <2>2. m = [state |-> e, count |-> c, buffer |-> buffer, finished |-> FALSE, digest |-> e]
    BY <1>4 DEF c
  <2>3. c \in Nat \X Nat
    BY <2>1 DEF c
  <2>. QED BY <1>1, <1>3, <2>2, <2>3 DEF Md5s
<1>6. m.count = <<0, 0>> /\ m.state = e
  BY <1>4
<1>7. Bits64(0) = <<0, 0>>
  <2>1. 8 * 0 = 0 /\ Word * 0 + 0 = 0 /\ 0 \in 0..Word - 1
    BY <1>2
  <2>2. (Word * 0 + 0) \div Word = 0 /\ (Word * 0 + 0) % Word = 0
    BY <1>2, <2>1, Divided
  <2>3. 0 \div Word = 0 /\ 0 % Word = 0
    BY <2>1, <2>2
  <2>. QED BY <2>1, <2>3 DEF Bits64
<1>8. Blocks(e) = e /\ Rest(e) = e
  <2>1. Len(e) < BlockSize
    BY <1>1, <1>2
  <2>2. Blocks(e) = <<>> /\ Rest(e) = e
    BY <1>1, <2>1, NoBlocks
  <2>. QED BY <2>2 DEF e
<1>9. Holds(m.buffer, Rest(e))
  BY <1>1, <1>8 DEF Holds
<1>10. Absorbed(m, e)
  BY <1>1, <1>5, <1>6, <1>7, <1>8, <1>9 DEF Absorbed
<1>. QED BY <1>10 DEF m, e

\* What stands in the buffer after an update.
BufferAfter(buffer, index, input, data) ==
    IF Len(data) \div BlockSize = 0 THEN Overlay(buffer, index, input)
    ELSE Overlay(Blocks(data)[1], 0, Rest(data))

LEMMA BufferIs ==
    ASSUME NEW buffer \in Buffers, NEW head \in Bytes, NEW input \in Bytes,
           Len(head) < BlockSize, Holds(buffer, head)
    PROVE  LET data == head \o input
               new == BufferAfter(buffer, Len(head), input, data)
           IN  new \in Buffers /\ Holds(new, Rest(data))
<1>. DEFINE data == head \o input
            new == BufferAfter(buffer, Len(head), input, data)
            n == Len(data) \div BlockSize
<1>1. /\ data \in Bytes /\ Len(data) = Len(head) + Len(input)
      /\ \A i \in 1..Len(head) : data[i] = head[i]
      /\ \A i \in 1..Len(input) : data[Len(head) + i] = input[i]
  BY ConcatIs DEF Bytes
<1>2. Len(data) \in Nat /\ Len(head) \in Nat /\ Len(input) \in Nat /\ BlockSize \in Nat \ {0}
  BY <1>1, BytesLength, BlockValues
<1>. HIDE DEF data
<1>3. n \in Nat /\ Len(data) % BlockSize \in 0..BlockSize - 1
      /\ Ended(data) = BlockSize * n /\ Len(data) = Ended(data) + (Len(data) % BlockSize)
  BY <1>1, EndedIs DEF Ended
<1>4. CASE n = 0
  <2>1. Len(data) < BlockSize
    <3>1. Ended(data) = 0
      <4>1. BlockSize * n = 0
        BY <1>2, <1>4
      <4>. QED BY <1>3, <4>1
    <3>. QED BY <1>2, <1>3, <3>1
  <2>2. Rest(data) = data
    BY <1>1, <2>1, NoBlocks
  <2>3. new = Overlay(buffer, Len(head), input)
    BY <1>4 DEF BufferAfter
  <2>4. Overlaid(Overlay(buffer, Len(head), input), buffer, Len(head), input)
    <3>1. Len(head) + Len(input) <= BlockSize
      BY <1>1, <1>2, <2>1
    <3>. QED BY <1>2, <3>1, OverlayIs
  <2>. HIDE DEF new
  <2>5. /\ new \in Buffers
        /\ \A i \in 1..Len(head) : new[i] = buffer[i]
        /\ \A i \in 1..Len(input) : new[Len(head) + i] = input[i]
    BY <2>3, <2>4 DEF Overlaid
  <2>6. ASSUME NEW i \in 1..Len(data) PROVE new[i] = data[i]
    <3>1. CASE i <= Len(head)
      <4>1. i \in 1..Len(head)
        BY <1>2, <3>1
      <4>. QED BY <1>1, <2>5, <4>1 DEF Holds
    <3>2. CASE ~(i <= Len(head))
      <4>1. i - Len(head) \in 1..Len(input) /\ Len(head) + (i - Len(head)) = i
        BY <1>1, <1>2, <3>2
      <4>2. PICK j \in 1..Len(input) : i = Len(head) + j
        BY <4>1
      <4>. QED BY <1>1, <2>5, <4>2
    <3>. QED BY <3>1, <3>2
  <2>. QED BY <2>2, <2>5, <2>6 DEF Holds, new, data
<1>5. CASE n # 0
  <2>. DEFINE b == Blocks(data)[1]
  <2>1. 1 \in 1..n
    BY <1>3, <1>5
  <2>2. b = Block(data, 1)
    BY <1>1, <2>1, BlocksAre
  <2>3. b \in Bytes /\ Len(b) = BlockSize
    <3>1. IsPart(Block(data, 1), data, BlockSize * (1 - 1), BlockSize)
      BY <1>1, <2>1, BlockIs
    <3>. QED BY <2>2, <3>1 DEF IsPart
  <2>. HIDE DEF b
  <2>4. b \in Buffers
    <3>1. b \in [1..Len(b) -> Nat]
      BY <2>3, LenProperties DEF Bytes
    <3>. QED BY <2>3, <3>1 DEF Buffers
  <2>5. Rest(data) \in Bytes /\ Len(Rest(data)) = Len(data) % BlockSize
    BY <1>1, RestIs
  <2>6. 0 + Len(Rest(data)) <= BlockSize /\ 0 \in Nat
    BY <1>2, <1>3, <2>5
  <2>7. Overlaid(Overlay(b, 0, Rest(data)), b, 0, Rest(data))
    BY <2>4, <2>5, <2>6, OverlayIs
  <2>8. new = Overlay(b, 0, Rest(data))
    BY <1>5 DEF BufferAfter, b
  <2>. HIDE DEF new
  <2>9. new \in Buffers /\ \A i \in 1..Len(Rest(data)) : new[0 + i] = Rest(data)[i]
    BY <2>7, <2>8 DEF Overlaid
  <2>10. Holds(new, Rest(data))
    BY <2>9 DEF Holds
  <2>. QED BY <2>9, <2>10 DEF new, data
<1>. QED BY <1>4, <1>5

LEMMA UpdateAbsorbs ==
    ASSUME NEW t \in Bytes, NEW m, Absorbed(m, t), NEW input \in Bytes
    PROVE  Absorbed(Update(m, input), t \o input)
<1>. DEFINE head == Rest(t)
            data == head \o input
            all == t \o input
            q == Len(t) \div BlockSize
            new == Update(m, input)
            after == BufferAfter(m.buffer, Len(head), input, data)
<1>1. /\ m \in Md5s /\ m.count = Bits64(Len(t)) /\ m.state = Blocks(t) /\ Holds(m.buffer, head)
  BY DEF Absorbed
<1>2. m.buffer \in Buffers /\ m.digest \in Seq(Bytes)
  BY <1>1 DEF Md5s
<1>3. BlockSize \in Nat \ {0} /\ Word \in Nat \ {0} /\ Len(t) \in Nat /\ Len(input) \in Nat
  BY BytesLength, BlockValues
<1>4. /\ head \in Bytes /\ Len(head) = Len(t) % BlockSize /\ Len(head) < BlockSize
      /\ Len(head) \in Nat /\ q \in Nat
  <2>1. head \in Bytes /\ Len(head) = Len(t) % BlockSize
    BY RestIs
  <2>2. Len(t) % BlockSize \in 0..BlockSize - 1 /\ q \in Nat
    BY EndedIs
  <2>. QED BY <1>3, <2>1, <2>2
<1>5. Index(m.count) = Len(head)
  BY <1>1, <1>3, <1>4, IndexIs
<1>6. SubSeq(m.buffer, 1, Len(head)) = head
  BY <1>1, <1>2, <1>3, <1>4, HeldPart
<1>7. data \in Bytes /\ all \in Bytes /\ Len(all) = Len(t) + Len(input)
  BY <1>4, ConcatProperties DEF Bytes
<1>8. new = [m EXCEPT !.finished = FALSE, !.count = Counted(m.count, Len(input)),
                      !.state = m.state \o Blocks(data), !.buffer = after]
  <2>1. Rest(data) = SubSeq(data, BlockSize * (Len(data) \div BlockSize) + 1, Len(data))
    BY DEF Rest, Ended
  <2>. HIDE DEF head
  <2>2. SubSeq(m.buffer, 1, Index(m.count)) \o input = data
    BY <1>5, <1>6
  <2>. QED BY <1>5, <2>1, <2>2 DEF Update, BufferAfter
<1>. HIDE DEF head, q
<1>9. after \in Buffers /\ Holds(after, Rest(data))
  BY <1>1, <1>2, <1>4, BufferIs
<1>10. Counted(m.count, Len(input)) = Bits64(Len(all))
  BY <1>1, <1>3, <1>7, CountedIs
<1>11. PICK w \in Bytes : t = w \o head /\ Len(w) = BlockSize * q
  BY WholeAndRest DEF head, Ended, q
<1>12. all = w \o data
  <2>1. (w \o head) \o input = w \o (head \o input)
    <3>1. w \in Bytes /\ head \in Bytes /\ input \in Bytes
      BY <1>4
    <3>. QED BY <3>1, BytesAssociate
  <2>2. t = w \o head
    BY <1>11
  <2>. QED BY <2>1, <2>2, Zenon
<1>13. Blocks(t) = Blocks(w)
  <2>1. Blocks(w \o head) = Blocks(w) \o Blocks(head)
    BY <1>4, <1>11, BlocksOfCat
  <2>2. Blocks(head) = <<>>
    BY <1>4, NoBlocks
  <2>3. Blocks(w) \in Seq(Bytes)
    BY BlocksAre
  <2>4. Blocks(w) \o <<>> = Blocks(w)
    BY <2>3, ConcatEmptySeq
  <2>. QED BY <1>11, <2>1, <2>2, <2>4
<1>. HIDE DEF data, all, new, after
<1>14. m.state \o Blocks(data) = Blocks(all)
  <2>1. Blocks(w \o data) = Blocks(w) \o Blocks(data)
    BY <1>4, <1>7, <1>11, BlocksOfCat
  <2>. QED BY <1>1, <1>12, <1>13, <2>1
<1>15. Rest(data) = Rest(all)
  BY <1>4, <1>7, <1>11, <1>12, RestOfCat
<1>16. Blocks(all) \in Seq(Bytes)
  BY <1>7, BlocksAre
<1>17. Bits64(Len(all)) \in Nat \X Nat
  <2>. DEFINE n == 8 * Len(all)
  <2>1. n \in Nat
    BY <1>3, <1>7
  <2>. HIDE DEF n
  <2>2. n % Word \in Nat /\ n \div Word \in Nat
    <3>1. n \div Word \in Nat /\ n % Word \in 0..Word - 1
      BY <1>3, <2>1, DivideByte
    <3>. QED BY <1>3, <3>1
  <2>. DEFINE k == n \div Word
  <2>. HIDE DEF k
  <2>3. k % Word \in Nat
    <3>1. k \in Nat
      BY <2>2 DEF k
    <3>2. k % Word \in 0..Word - 1
      BY <1>3, <3>1, DivideByte
    <3>. QED BY <1>3, <3>2
  <2>. QED BY <2>2, <2>3 DEF Bits64, n, k
<1>18. /\ new.finished = FALSE /\ new.count = Bits64(Len(all)) /\ new.state = Blocks(all)
       /\ new.buffer = after /\ new \in Md5s
  <2>. DEFINE c == Bits64(Len(all))
              s == Blocks(all)
  <2>1. new = [m EXCEPT !.finished = FALSE, !.count = c, !.state = s, !.buffer = after]
    BY <1>8, <1>10, <1>14
  <2>2. c \in Nat \X Nat /\ s \in Seq(Bytes)
    BY <1>16, <1>17
  <2>. HIDE DEF c, s
  <2>3. /\ new.finished = FALSE /\ new.count = c /\ new.state = s
        /\ new.buffer = after /\ new \in Md5s
    BY <1>1, <1>9, <2>1, <2>2 DEF Md5s
  <2>. QED BY <2>3 DEF c, s
<1>. QED BY <1>9, <1>15, <1>18 DEF Absorbed, new, all

\* The padding of a text whose last block has r bytes, and the two words.
PadLength(r) == IF r < BlockSize - LengthSize THEN (BlockSize - LengthSize) - r
                ELSE (BlockSize - LengthSize) + (BlockSize - r)
Padded(t) == t \o Padding(PadLength(Len(t) % BlockSize))
Closed(t) == Padded(t) \o Bits64(Len(t))

LEMMA PadIs ==
    ASSUME NEW t \in Bytes
    PROVE  LET p == PadLength(Len(t) % BlockSize)
           IN  /\ p \in 1..BlockSize /\ (Len(t) + p + LengthSize) % BlockSize = 0
               /\ \A n \in 1..BlockSize : (Len(t) + n + LengthSize) % BlockSize = 0 => n = p
<1>. DEFINE b == BlockSize
            q == Len(t) \div b
            r == Len(t) % b
            p == PadLength(r)
            l == Len(t)
<1>1. b \in Nat \ {0} /\ b > 2 /\ LengthSize = 2
  BY BlockValues
<1>2. l \in Nat /\ q \in Nat /\ r \in 0..b - 1 /\ l = b * q + r
  <2>1. l \in Nat
    BY BytesLength
  <2>. HIDE DEF b, l
  <2>. QED BY <1>1, <2>1, DivideByte DEF l
<1>3. p = IF r < b - 2 THEN (b - 2) - r ELSE (b - 2) + (b - r)
  BY <1>1 DEF PadLength
<1>. HIDE DEF b, q, r, p, l
<1>4. p \in 1..b
  BY <1>1, <1>2, <1>3
<1>5. \E k \in Nat : l + p + 2 = b * k
  <2>1. b * (q + 1) = b * q + b /\ b * (q + 2) = b * q + b + b /\ b * q \in Nat
    BY <1>1, <1>2
  <2>2. CASE r < b - 2
    <3>1. l + p + 2 = b * q + b
      BY <1>1, <1>2, <1>3, <2>1, <2>2
    <3>. QED BY <1>2, <2>1, <3>1
  <2>3. CASE ~(r < b - 2)
    <3>1. l + p + 2 = b * q + b + b
      BY <1>1, <1>2, <1>3, <2>1, <2>3
    <3>. QED BY <1>2, <2>1, <3>1
  <2>. QED BY <2>2, <2>3
<1>6. PICK k \in Nat : l + p + 2 = b * k
  BY <1>5
<1>7. (l + p + 2) % b = 0
  <2>1. 0 \in 0..b - 1 /\ b * k = b * k + 0
    BY <1>1
  <2>2. (b * k + 0) % b = 0
    BY <1>1, <2>1, Divided
  <2>. QED BY <1>6, <2>1, <2>2
<1>8. ASSUME NEW n \in 1..b, (l + n + 2) % b = 0 PROVE n = p
  <2>. DEFINE x == l + n + 2
  <2>1. x \in Nat
    BY <1>1, <1>2
  <2>. HIDE DEF x
  <2>2. x \div b \in Nat /\ x % b = 0 /\ x = b * (x \div b) + (x % b)
    BY <1>1, <1>8, <2>1, DivideByte DEF x
  <2>3. PICK j \in Nat : x = b * j
    <3>. DEFINE w == x \div b
    <3>1. w \in Nat /\ b \in Nat /\ x = b * w + 0
      BY <1>1, <2>2
    <3>. HIDE DEF w
    <3>2. b * w \in Nat
      BY <3>1
    <3>. QED BY <3>1, <3>2
  <2>4. b * j = l + n + 2
    BY <2>3 DEF x
  <2>5. ASSUME NEW u \in Nat, NEW v \in Nat, NEW c \in 1..b, NEW d \in 1..b,
               b * u = l + c + 2, b * v = l + d + 2, u < v
        PROVE  FALSE
    <3>1. v - u - 1 \in Nat /\ v = u + 1 + (v - u - 1)
      BY <2>5
    <3>2. PICK e \in Nat : v = u + 1 + e
      BY <3>1
    <3>3. b * v = b * u + b + b * e /\ b * e \in Nat /\ b * u \in Nat
      BY <1>1, <3>2
    <3>. QED BY <1>1, <1>2, <2>5, <3>3
  <2>6. ~(j < k) /\ ~(k < j)
    BY <1>4, <1>6, <2>4, <2>5
  <2>7. j = k
    BY <2>6
  <2>. QED BY <1>1, <1>2, <1>4, <1>6, <2>4, <2>7
<1>. QED BY <1>1, <1>4, <1>7, <1>8 DEF b, p, r, l

LEMMA ReferenceIs ==
    ASSUME NEW t \in Bytes
    PROVE  Md5Reference(t) = Blocks(Closed(t))
<1>. DEFINE p == PadLength(Len(t) % BlockSize)
            Fits(n) == (Len(t) + n + LengthSize) % BlockSize = 0
            pad == CHOOSE n \in 1..BlockSize : Fits(n)
<1>1. p \in 1..BlockSize /\ Fits(p) /\ \A n \in 1..BlockSize : Fits(n) => n = p
  BY PadIs
<1>2. Md5Reference(t) = Blocks((t \o Padding(pad)) \o Bits64(Len(t)))
  BY DEF Md5Reference, Bits64
<1>. HIDE DEF p, Fits
<1>3. pad = p
  BY <1>1
<1>. QED BY <1>2, <1>3 DEF Closed, Padded, p

LEMMA PaddingIs ==
    ASSUME NEW n \in Nat
    PROVE  Padding(n) \in Bytes /\ Len(Padding(n)) = n
<1>. DEFINE f == Padding(n)
<1>1. f \in [1..n -> Nat]
  BY DEF Padding
<1>. HIDE DEF f
<1>2. f \in Seq(Nat) /\ Len(f) = n
  BY <1>1, FunctionIsSeq
<1>. QED BY <1>2 DEF f, Bytes

LEMMA WordsAre ==
    ASSUME NEW n \in Nat
    PROVE  Bits64(n) \in Bytes /\ Len(Bits64(n)) = 2
<1>. DEFINE a == (8 * n) % Word
            k == (8 * n) \div Word
            c == k % Word
<1>1. Word \in Nat \ {0} /\ 8 * n \in Nat
  BY BlockValues
<1>2. a \in 0..Word - 1 /\ k \in Nat
  <2>. DEFINE x == 8 * n
  <2>1. x \in Nat
    BY <1>1
  <2>. HIDE DEF x
  <2>2. x % Word \in 0..Word - 1 /\ x \div Word \in Nat
    BY <1>1, <2>1, DivideByte
  <2>. QED BY <2>2 DEF x
<1>3. Bits64(n) = <<a, c>>
  BY DEF Bits64
<1>. HIDE DEF a, k
<1>4. c \in 0..Word - 1
  BY <1>1, <1>2, DivideByte
<1>. HIDE DEF c
<1>5. a \in Nat /\ c \in Nat
  BY <1>1, <1>2, <1>4
<1>6. <<a, c>> \in Seq(Nat) /\ Len(<<a, c>>) = 2
  BY <1>5
<1>. QED BY <1>3, <1>6 DEF Bytes

\* What digest() does: the padded text is absorbed, the state and the count are
\* put back.
Finished(f, m, t) ==
    /\ f \in Md5s /\ f.state = m.state /\ f.count = m.count
    /\ f.digest = Md5Reference(t)

LEMMA FinalIs ==
    ASSUME NEW t \in Bytes, NEW m, Absorbed(m, t)
    PROVE  Finished(Final(m), m, t)
<1>. DEFINE r == Len(t) % BlockSize
            pad == Padding(PadLength(r))
            padded == Update(m, pad)
            ended == Update(padded, m.count)
<1>1. m \in Md5s /\ m.count = Bits64(Len(t)) /\ Len(t) \in Nat
  BY BytesLength DEF Absorbed
<1>2. Index(m.count) = r
  BY <1>1, IndexIs
<1>3. PadLength(r) \in Nat
  BY PadIs, BlockValues
<1>4. pad \in Bytes
  BY <1>3, PaddingIs
<1>5. Absorbed(padded, Padded(t)) /\ Padded(t) \in Bytes
  <2>1. Absorbed(padded, t \o pad)
    BY <1>4, UpdateAbsorbs
  <2>2. t \o pad \in Bytes
    BY <1>4, ConcatProperties DEF Bytes
  <2>. QED BY <2>1, <2>2 DEF Padded
<1>6. m.count \in Bytes
  BY <1>1, WordsAre
<1>7. Absorbed(ended, Closed(t))
  <2>. HIDE DEF padded
  <2>1. Absorbed(ended, Padded(t) \o m.count)
    BY <1>5, <1>6, UpdateAbsorbs
  <2>. QED BY <1>1, <2>1 DEF Closed
<1>8. Final(m) = [ended EXCEPT !.digest = ended.state, !.state = m.state, !.count = m.count]
  BY <1>2 DEF Final, PadLength
<1>. HIDE DEF ended
<1>9. ended \in Md5s /\ ended.state = Md5Reference(t) /\ ended.state \in Seq(Bytes)
  <2>1. ended \in Md5s /\ ended.state = Blocks(Closed(t))
    BY <1>7 DEF Absorbed
  <2>2. ended.state \in Seq(Bytes)
    BY <2>1 DEF Md5s
  <2>. QED BY <2>1, <2>2, ReferenceIs
<1>10. m.state \in Seq(Bytes) /\ m.count \in Nat \X Nat
  BY <1>1 DEF Md5s
<1>. DEFINE f == [ended EXCEPT !.digest = ended.state, !.state = m.state, !.count = m.count]
<1>11. f \in Md5s /\ f.state = m.state /\ f.count = m.count /\ f.digest = ended.state
  <2>. DEFINE s == m.state
              c == m.count
              d == ended.state
  <2>1. s \in Seq(Bytes) /\ c \in Nat \X Nat /\ d \in Seq(Bytes)
    BY <1>9, <1>10
  <2>. HIDE DEF s, c, d
  <2>. DEFINE g == [ended EXCEPT !.digest = d, !.state = s, !.count = c]
  <2>2. g \in Md5s /\ g.state = s /\ g.count = c /\ g.digest = d
    BY <1>9, <2>1 DEF Md5s
  <2>. QED BY <2>2 DEF s, c, d
<1>. QED BY <1>8, <1>9, <1>11 DEF Finished

\* The buffer of an update, and one that just fills the block.
LEMMA UpdateBuffer ==
    ASSUME NEW t \in Bytes, NEW m, Absorbed(m, t), NEW input \in Bytes
    PROVE  Update(m, input).buffer
             = BufferAfter(m.buffer, Len(Rest(t)), input, Rest(t) \o input)
<1>. DEFINE head == Rest(t)
            data == head \o input
            new == Update(m, input)
            after == BufferAfter(m.buffer, Len(head), input, data)
<1>1. m \in Md5s /\ m.count = Bits64(Len(t)) /\ Holds(m.buffer, head)
  BY DEF Absorbed
<1>2. m.buffer \in Buffers
  BY <1>1 DEF Md5s
<1>3. BlockSize \in Nat \ {0} /\ Len(t) \in Nat
  BY BytesLength, BlockValues
<1>4. head \in Bytes /\ Len(head) = Len(t) % BlockSize /\ Len(head) <= BlockSize
  <2>1. head \in Bytes /\ Len(head) = Len(t) % BlockSize
    BY RestIs
  <2>2. Len(t) % BlockSize \in 0..BlockSize - 1
    BY EndedIs
  <2>. QED BY <1>3, <2>1, <2>2
<1>5. Index(m.count) = Len(head)
  BY <1>1, <1>3, <1>4, IndexIs
<1>6. SubSeq(m.buffer, 1, Len(head)) = head
  BY <1>1, <1>2, <1>4, HeldPart
<1>7. new = [m EXCEPT !.finished = FALSE, !.count = Counted(m.count, Len(input)),
                      !.state = m.state \o Blocks(data), !.buffer = after]
  <2>1. Rest(data) = SubSeq(data, BlockSize * (Len(data) \div BlockSize) + 1, Len(data))
    BY DEF Rest, Ended
  <2>. HIDE DEF head
  <2>2. SubSeq(m.buffer, 1, Index(m.count)) \o input = data
    BY <1>5, <1>6
  <2>. QED BY <1>5, <2>1, <2>2 DEF Update, BufferAfter
<1>. HIDE DEF after, new, data
<1>8. new.buffer = after
  BY <1>1, <1>7 DEF Md5s
<1>. QED BY <1>8 DEF new, after, data

LEMMA BufferFilled ==
    ASSUME NEW buffer, NEW head \in Bytes, NEW input \in Bytes,
           Len(head) + Len(input) = BlockSize
    PROVE  Holds(BufferAfter(buffer, Len(head), input, head \o input), head)
<1>. DEFINE data == head \o input
            new == BufferAfter(buffer, Len(head), input, data)
            b == Blocks(data)[1]
<1>1. /\ data \in Bytes /\ Len(data) = BlockSize
      /\ \A i \in 1..Len(head) : data[i] = head[i]
  BY ConcatIs DEF Bytes
<1>2. BlockSize \in Nat \ {0} /\ Len(head) \in Nat /\ Len(input) \in Nat
  BY BytesLength, BlockValues
<1>3. Len(data) \div BlockSize = 1 /\ Len(data) % BlockSize = 0
  <2>1. BlockSize * 1 + 0 = BlockSize /\ 0 \in 0..BlockSize - 1
    BY <1>2
  <2>2. (BlockSize * 1 + 0) \div BlockSize = 1 /\ (BlockSize * 1 + 0) % BlockSize = 0
    BY <1>2, <2>1, Divided
  <2>. HIDE DEF data
  <2>. QED BY <1>1, <2>1, <2>2
<1>. HIDE DEF data
<1>4. new = Overlay(b, 0, Rest(data))
  BY <1>3 DEF BufferAfter
<1>5. Rest(data) \in Bytes /\ Len(Rest(data)) = 0
  BY <1>1, <1>3, RestIs
<1>6. IsPart(b, data, BlockSize * (1 - 1), BlockSize)
  <2>1. 1 \in 1..Len(data) \div BlockSize
    BY <1>3
  <2>2. b = Block(data, 1)
    BY <1>1, <2>1, BlocksAre
  <2>3. IsPart(Block(data, 1), data, BlockSize * (1 - 1), BlockSize)
    BY <1>1, <2>1, BlockIs
  <2>. QED BY <2>2, <2>3
<1>. HIDE DEF b, new
<1>7. b \in Bytes /\ Len(b) = BlockSize /\ \A i \in 1..BlockSize : b[i] = data[i]
  <2>1. BlockSize * (1 - 1) = 0
    BY <1>2
  <2>. QED BY <1>2, <1>6, <2>1 DEF IsPart
<1>8. \A i \in 1..BlockSize : new[i] = b[i]
  <2>1. DOMAIN b = 1..BlockSize /\ DOMAIN Rest(data) = 1..0
    BY <1>5, <1>7, LenProperties DEF Bytes
  <2>. QED BY <1>2, <1>4, <2>1 DEF Overlay
<1>9. \A i \in 1..Len(head) : new[i] = head[i]
  BY <1>1, <1>2, <1>7, <1>8
<1>. QED BY <1>9 DEF Holds, new, data

\* When the padding fits, the bytes of the text in the buffer survive.
LEMMA FinalKeeps ==
    ASSUME NEW t \in Bytes, NEW m, Absorbed(m, t),
           Len(t) % BlockSize < BlockSize - LengthSize
    PROVE  Absorbed(Final(m), t)
<1>. DEFINE r == Len(t) % BlockSize
            pad == Padding(PadLength(r))
            padded == Update(m, pad)
            ended == Update(padded, m.count)
            head == Rest(t)
            whole == Padded(t)
<1>1. m \in Md5s /\ m.count = Bits64(Len(t)) /\ Len(t) \in Nat /\ m.state = Blocks(t)
  BY BytesLength DEF Absorbed
<1>2. Index(m.count) = r
  BY <1>1, IndexIs
<1>3. BlockSize \in Nat \ {0} /\ LengthSize = 2 /\ r \in Nat /\ r < BlockSize - 2
  BY BlockValues, EndedIs
<1>4. PadLength(r) = (BlockSize - 2) - r /\ PadLength(r) \in Nat
  <2>. HIDE DEF r
  <2>. QED BY <1>3 DEF PadLength
<1>5. pad \in Bytes /\ Len(pad) = (BlockSize - 2) - r
  BY <1>4, PaddingIs
<1>6. Absorbed(padded, whole) /\ whole \in Bytes /\ whole = t \o pad
  <2>1. Absorbed(padded, t \o pad)
    BY <1>5, UpdateAbsorbs
  <2>2. t \o pad \in Bytes
    BY <1>5, ConcatProperties DEF Bytes
  <2>. QED BY <2>1, <2>2 DEF Padded
<1>7. head \in Bytes /\ Len(head) = r
  BY RestIs
<1>. HIDE DEF r, pad, whole, head
<1>8. head \o pad \in Bytes /\ Len(head \o pad) = BlockSize - 2
  <2>1. head \o pad \in Bytes /\ Len(head \o pad) = Len(head) + Len(pad)
    BY <1>5, <1>7, ConcatProperties DEF Bytes
  <2>. QED BY <1>3, <1>5, <1>7, <2>1
<1>9. Rest(whole) = head \o pad
  <2>1. PICK w \in Bytes : t = w \o head /\ Len(w) = BlockSize * (Len(t) \div BlockSize)
    BY WholeAndRest DEF head, Ended
  <2>2. Len(t) \div BlockSize \in Nat
    BY EndedIs
  <2>3. (w \o head) \o pad = w \o (head \o pad)
    <3>1. w \in Bytes /\ head \in Bytes /\ pad \in Bytes
      BY <1>5, <1>7
    <3>. QED BY <3>1, BytesAssociate
  <2>4. whole = w \o (head \o pad)
    BY <1>6, <2>1, <2>3
  <2>5. Rest(w \o (head \o pad)) = Rest(head \o pad)
    BY <1>8, <2>1, <2>2, RestOfCat
  <2>6. Rest(head \o pad) = head \o pad
    <3>1. Len(head \o pad) < BlockSize
      BY <1>3, <1>8
    <3>. QED BY <1>8, <3>1, NoBlocks
  <2>. QED BY <2>4, <2>5, <2>6
<1>10. m.count \in Bytes /\ Len(m.count) = 2
  BY <1>1, WordsAre
<1>11. Holds(ended.buffer, head \o pad)
  <2>. DEFINE d == head \o pad
  <2>. HIDE DEF d, padded
  <2>1. ended.buffer = BufferAfter(padded.buffer, Len(d), m.count, d \o m.count)
    <3>. DEFINE c == m.count
    <3>1. Absorbed(padded, whole) /\ whole \in Bytes /\ c \in Bytes
      BY <1>6, <1>10
    <3>. HIDE DEF c
    <3>2. Update(padded, c).buffer
            = BufferAfter(padded.buffer, Len(Rest(whole)), c, Rest(whole) \o c)
      BY <3>1, UpdateBuffer
    <3>. QED BY <1>9, <3>2 DEF c, d
  <2>2. d \in Bytes /\ Len(d) + Len(m.count) = BlockSize
    BY <1>3, <1>8, <1>10 DEF d
  <2>3. Holds(BufferAfter(padded.buffer, Len(d), m.count, d \o m.count), d)
    BY <1>10, <2>2, BufferFilled
  <2>. QED BY <2>1, <2>3 DEF d
<1>12. Holds(ended.buffer, head)
  <2>1. \A i \in 1..Len(head) : (head \o pad)[i] = head[i]
    BY <1>5, <1>7, ConcatIs DEF Bytes
  <2>. DEFINE d == head \o pad
              f == ended.buffer
  <2>2. Len(head) <= Len(d) /\ Len(head) \in Nat /\ Len(d) \in Nat
    BY <1>3, <1>7, <1>8
  <2>3. \A i \in 1..Len(d) : f[i] = d[i]
    BY <1>11 DEF Holds
  <2>4. \A i \in 1..Len(head) : d[i] = head[i]
    BY <2>1
  <2>. HIDE DEF d, f
  <2>5. \A i \in 1..Len(head) : f[i] = head[i]
    BY <2>2, <2>3, <2>4
  <2>. QED BY <2>5 DEF Holds, f
<1>13. Finished(Final(m), m, t)
  BY FinalIs
<1>14. Final(m).buffer = ended.buffer
  <2>1. Final(m) = [ended EXCEPT !.digest = ended.state, !.state = m.state, !.count = m.count]
    BY <1>2 DEF Final, PadLength, pad
  <2>2. ended \in Md5s
    <3>. HIDE DEF padded
    <3>1. Absorbed(ended, whole \o m.count)
      BY <1>6, <1>10, UpdateAbsorbs
    <3>. QED BY <3>1 DEF Absorbed
  <2>. HIDE DEF ended
  <2>. QED BY <2>1, <2>2 DEF Md5s
<1>. HIDE DEF ended
<1>15. Final(m) \in Md5s /\ Final(m).state = Blocks(t) /\ Final(m).count = Bits64(Len(t))
  BY <1>1, <1>13 DEF Finished
<1>16. Holds(Final(m).buffer, Rest(t))
  BY <1>12, <1>14 DEF head
<1>. QED BY <1>15, <1>16 DEF Absorbed

\* How far the digest of a text has come: what was given of it is absorbed,
\* or digest() was asked for.
Fits(input) == Len(input) % BlockSize < BlockSize - LengthSize
Absorbing(input, l, o) ==
    o.digests = <<>> /\ \E t \in Bytes : input = t \o l /\ Absorbed(o.md5, t)
Asked(input, l, o) ==
    /\ l = <<>> /\ o.digests # <<>> /\ o.digests[1] = Md5Reference(input)
    /\ Fits(input) => /\ Absorbed(o.md5, input)
                      /\ \A i \in 1..Len(o.digests) : o.digests[i] = Md5Reference(input)
Progress(input, l, o) ==
    /\ l \in Bytes /\ o = [md5 |-> o.md5, digests |-> o.digests]
    /\ \E S : o.digests \in Seq(S)
    /\ Absorbing(input, l, o) \/ Asked(input, l, o)

LEMMA ProgressFirst ==
    ASSUME NEW input \in Bytes
    PROVE  Progress(input, input, [md5 |-> NewMd5, digests |-> <<>>])
<1>. DEFINE e == <<>>
            m == NewMd5
            o == [md5 |-> m, digests |-> e]
<1>1. e \in Bytes /\ e = <<>>
  BY DEF Bytes
<1>2. e \o input = input
  BY ConcatEmptySeq DEF Bytes
<1>3. Absorbed(m, e)
  BY FirstAbsorbed
<1>. HIDE DEF e, m
<1>4. o.md5 = m /\ o.digests = e /\ o = [md5 |-> o.md5, digests |-> o.digests]
  OBVIOUS
<1>5. o.digests \in Seq(Nat)
  BY <1>1, <1>4 DEF Bytes
<1>. HIDE DEF o
<1>6. Absorbing(input, input, o)
  BY <1>1, <1>2, <1>3, <1>4 DEF Absorbing
<1>7. Progress(input, input, o)
  BY <1>4, <1>5, <1>6 DEF Progress
<1>. QED BY <1>7 DEF o, m, e

LEMMA ProgressUpdate ==
    ASSUME NEW input \in Bytes, NEW l, NEW o, Progress(input, l, o), NEW n \in 1..Len(l)
    PROVE  Progress(input, SubSeq(l, n + 1, Len(l)),
                    [o EXCEPT !.md5 = Update(o.md5, SubSeq(l, 1, n))])
<1>. DEFINE x == SubSeq(l, 1, n)
            y == SubSeq(l, n + 1, Len(l))
            m == Update(o.md5, x)
            new == [o EXCEPT !.md5 = m]
<1>1. l \in Bytes /\ Len(l) \in Nat /\ o = [md5 |-> o.md5, digests |-> o.digests]
  BY BytesLength DEF Progress
<1>2. x \in Bytes /\ y \in Bytes /\ x \o y = l
  <2>1. /\ 0 \in Nat /\ n \in Nat /\ 0 + n <= Len(l) /\ 0 + 1 = 1 /\ 0 + n = n
        /\ Len(l) - n \in Nat /\ n + (Len(l) - n) = Len(l)
    BY <1>1
  <2>2. IsPart(SubSeq(l, 0 + 1, 0 + n), l, 0, n)
    BY <1>1, <2>1, BytesPart
  <2>3. IsPart(SubSeq(l, n + 1, n + (Len(l) - n)), l, n, Len(l) - n)
    <3>1. n + (Len(l) - n) <= Len(l)
      BY <1>1
    <3>. QED BY <1>1, <2>1, <3>1, BytesPart
  <2>4. SubSeq(l, 1, n) \o SubSeq(l, n + 1, Len(l)) = SubSeq(l, 1, Len(l))
    <3>1. 1 \in 1..Len(l) + 1 /\ n \in 1 - 1..Len(l) /\ Len(l) \in n..Len(l)
      BY <1>1
    <3>. QED BY <1>1, <3>1, ConcatAdjacentSubSeq DEF Bytes
  <2>5. SubSeq(l, 1, Len(l)) = l
    BY <1>1, SubSeqFull DEF Bytes
  <2>. QED BY <2>1, <2>2, <2>3, <2>4, <2>5 DEF IsPart
<1>3. ~Asked(input, l, o)
  <2>1. l # <<>>
    BY <1>1, EmptySeq DEF Bytes
  <2>. QED BY <2>1 DEF Asked
<1>4. PICK t \in Bytes : input = t \o l /\ Absorbed(o.md5, t) /\ o.digests = <<>>
  BY <1>3 DEF Progress, Absorbing
<1>. HIDE DEF x, y
<1>5. Absorbed(m, t \o x)
  BY <1>2, <1>4, UpdateAbsorbs
<1>6. t \o x \in Bytes
  BY <1>2, ConcatProperties DEF Bytes
<1>7. input = (t \o x) \o y
  <2>1. (t \o x) \o y = t \o (x \o y)
    <3>1. x \in Bytes /\ y \in Bytes
      BY <1>2
    <3>. QED BY <3>1, BytesAssociate
  <2>. QED BY <1>2, <1>4, <2>1
<1>. HIDE DEF m
<1>8. new.md5 = m /\ new.digests = o.digests /\ new = [md5 |-> m, digests |-> o.digests]
  BY <1>1
<1>. HIDE DEF new
<1>9. Absorbing(input, y, new)
  BY <1>4, <1>5, <1>6, <1>7, <1>8 DEF Absorbing
<1>10. \E S : new.digests \in Seq(S)
  BY <1>8 DEF Progress
<1>11. new = [md5 |-> new.md5, digests |-> new.digests]
  BY <1>8
<1>12. Progress(input, y, new)
  BY <1>2, <1>9, <1>10, <1>11 DEF Progress
<1>. QED BY <1>12 DEF new, m, x, y

LEMMA ProgressDigest ==
    ASSUME NEW input \in Bytes, NEW l, NEW o, Progress(input, l, o), l = <<>>
    PROVE  Progress(input, l, [md5 |-> Digest(o.md5),
                               digests |-> Append(o.digests, Digest(o.md5).digest)])
<1>. DEFINE m == Digest(o.md5)
            x == m.digest
            d == o.digests
            more == Append(d, x)
            new == [md5 |-> m, digests |-> more]
            ref == Md5Reference(input)
<1>1. l \in Bytes
  BY DEF Progress
<1>2. PICK S : d \in Seq(S)
  BY DEF Progress
<1>. HIDE DEF m, d, x
<1>3. /\ Len(d) \in Nat /\ more \in Seq(S \cup {x}) /\ more # <<>> /\ Len(more) = Len(d) + 1
      /\ \A i \in 1..Len(d) : more[i] = d[i]
      /\ more[Len(d) + 1] = x
  <2>1. d \in Seq(S \cup {x}) /\ x \in S \cup {x}
    BY <1>2, SeqMonotonic
  <2>2. Len(d) \in Nat
    BY <1>2, LenProperties
  <2>. QED BY <2>1, <2>2, AppendProperties
<1>4. ASSUME Absorbed(o.md5, input)
      PROVE  x = ref /\ (Fits(input) => Absorbed(m, input))
  <2>1. o.md5.finished = FALSE
    BY <1>4 DEF Absorbed, Md5s
  <2>2. m = Final(o.md5)
    BY <2>1 DEF m, Digest
  <2>3. Finished(Final(o.md5), o.md5, input)
    BY <1>4, FinalIs
  <2>4. Fits(input) => Absorbed(Final(o.md5), input)
    BY <1>4, FinalKeeps DEF Fits
  <2>. QED BY <2>2, <2>3, <2>4 DEF Finished, x
<1>. HIDE DEF more, ref
<1>5. new.md5 = m /\ new.digests = more /\ new = [md5 |-> new.md5, digests |-> new.digests]
  OBVIOUS
<1>. HIDE DEF new
<1>6. ASSUME Absorbing(input, l, o) PROVE Asked(input, l, new)
  <2>1. PICK t \in Bytes : input = t \o l /\ Absorbed(o.md5, t) /\ d = <<>>
    BY <1>6 DEF Absorbing, d
  <2>2. input = t
    <3>1. t \o <<>> = t
      BY ConcatEmptySeq DEF Bytes
    <3>. QED BY <2>1, <3>1
  <2>3. Len(d) = 0
    BY <2>1
  <2>4. x = ref /\ (Fits(input) => Absorbed(m, input))
    BY <1>4, <2>1, <2>2
  <2>5. more[1] = ref /\ Len(more) = 1
    BY <1>3, <2>3, <2>4
  <2>6. Asked(input, l, new)
    <3>1. \A i \in 1..Len(more) : more[i] = ref
      BY <2>5
    <3>. QED BY <1>3, <1>5, <2>4, <2>5, <3>1 DEF Asked, ref
  <2>. QED BY <2>6
<1>7. ASSUME Asked(input, l, o) PROVE Asked(input, l, new)
  <2>1. d # <<>> /\ d[1] = ref
    BY <1>7 DEF Asked, d, ref
  <2>2. 1 \in 1..Len(d)
    <3>1. Len(d) # 0
      BY <1>2, <2>1, EmptySeq
    <3>. QED BY <1>3, <3>1
  <2>3. more[1] = ref
    BY <1>3, <2>1, <2>2
  <2>4. ASSUME Fits(input)
        PROVE  Absorbed(m, input) /\ \A i \in 1..Len(more) : more[i] = ref
    <3>1. Absorbed(o.md5, input) /\ \A i \in 1..Len(d) : d[i] = ref
      BY <1>7, <2>4 DEF Asked, d, ref
    <3>2. x = ref /\ Absorbed(m, input)
      BY <1>4, <2>4, <3>1
    <3>3. ASSUME NEW i \in 1..Len(more) PROVE more[i] = ref
      <4>1. i \in 1..Len(d) \/ i = Len(d) + 1
        BY <1>3
      <4>. QED BY <1>3, <3>1, <3>2, <4>1
    <3>. QED BY <3>2, <3>3
  <2>5. Asked(input, l, new)
    BY <1>3, <1>5, <2>3, <2>4 DEF Asked, ref
  <2>. QED BY <2>5
<1>8. Progress(input, l, new)
  <2>1. Absorbing(input, l, o) \/ Asked(input, l, o)
    BY DEF Progress
  <2>2. Asked(input, l, new)
    BY <1>6, <1>7, <2>1
  <2>3. \E T : new.digests \in Seq(T)
    BY <1>3, <1>5
  <2>. QED BY <1>1, <1>5, <2>2, <2>3 DEF Progress
<1>. QED BY <1>8 DEF new, more, x, d, m

Md5Progress == job.fn = "MD5" => job.input \in Bytes /\ Progress(job.input, left, out)

LEMMA Md5First == CodecsInit => Md5Progress
<1>. SUFFICES ASSUME CodecsInit, job.fn = "MD5" PROVE Progress(job.input, left, out) /\ job.input \in Bytes
  BY DEF Md5Progress
<1>1. job \in Jobs
  BY DEF CodecsInit
<1>2. job.input \in Bytes
  BY <1>1, InputsTyped DEF Bytes
<1>3. job.fn \notin AtOnce
  BY DEF AtOnce
<1>4. left = job.input
  BY <1>3 DEF CodecsInit
<1>5. out = [md5 |-> NewMd5, digests |-> <<>>]
  BY <1>3 DEF CodecsInit
<1>. QED BY <1>2, <1>4, <1>5, ProgressFirst

LEMMA Md5Kept == Md5Progress /\ [CodecsNext]_codecsVars => Md5Progress'
<1>. SUFFICES ASSUME Md5Progress, [CodecsNext]_codecsVars, job'.fn = "MD5"
              PROVE  job'.input \in Bytes /\ Progress(job'.input, left', out')
  BY DEF Md5Progress
<1>1. job' = job
  BY DEF CodecsNext, codecsVars, ExplodeList, EncodeBase64, RewriteConfig, ReadFrame, SendXadd, Computes,
         Md5Update, Md5Digest, ReadReply
<1>2. job.fn = "MD5" /\ job.input \in Bytes /\ Progress(job.input, left, out)
  BY <1>1 DEF Md5Progress
<1>3. Md5Update \/ Md5Digest \/ UNCHANGED codecsVars
  BY <1>2 DEF CodecsNext, ExplodeList, EncodeBase64, RewriteConfig, ReadFrame, SendXadd, Computes,
              ReadReply
<1>4. CASE Md5Update
  <2>1. PICK n \in 1..Len(left) : /\ left' = SubSeq(left, n + 1, Len(left))
                                  /\ out' = [out EXCEPT !.md5 = Update(@, SubSeq(left, 1, n))]
    BY <1>4 DEF Md5Update, Take, Piece
  <2>2. Progress(job.input, SubSeq(left, n + 1, Len(left)),
                 [out EXCEPT !.md5 = Update(out.md5, SubSeq(left, 1, n))])
    BY <1>2, ProgressUpdate
  <2>. QED BY <1>1, <1>2, <2>1, <2>2
<1>5. CASE Md5Digest
  <2>1. /\ left = <<>> /\ left' = left
        /\ out' = [md5 |-> Digest(out.md5),
                   digests |-> Append(out.digests, Digest(out.md5).digest)]
    BY <1>5 DEF Md5Digest
  <2>2. Progress(job.input, left, [md5 |-> Digest(out.md5),
                                   digests |-> Append(out.digests, Digest(out.md5).digest)])
    BY <1>2, <2>1, ProgressDigest
  <2>. QED BY <1>1, <1>2, <2>1, <2>2
<1>6. CASE UNCHANGED codecsVars
  BY <1>2, <1>6 DEF codecsVars
<1>. QED BY <1>3, <1>4, <1>5, <1>6

\* However a text is cut, its first digest is that of RFC 1321; asked again,
\* digest() answers the same when the padding fits the block.
THEOREM DigestsHold == CodecsSpec => []Digests
<1>1. Md5Progress => Digests
  <2>. SUFFICES ASSUME Md5Progress, job.fn = "MD5", Len(out.digests) > 0
                PROVE  /\ out.digests[1] = Md5Reference(job.input)
                       /\ Len(out.digests) = 2 /\ Fits(job.input) => out.digests[2] = out.digests[1]
    <3>1. Len(out.digests) = 2 => Len(out.digests) > 0
      OBVIOUS
    <3>. QED BY <3>1 DEF Digests, DigestOfText, DigestAgain, Fits
  <2>1. Progress(job.input, left, out)
    BY DEF Md5Progress
  <2>2. out.digests # <<>>
    OBVIOUS
  <2>3. Asked(job.input, left, out)
    BY <2>1, <2>2 DEF Progress, Absorbing
  <2>4. Len(out.digests) = 2 => 1 \in 1..Len(out.digests) /\ 2 \in 1..Len(out.digests)
    OBVIOUS
  <2>. QED BY <2>3, <2>4 DEF Asked
<1>2. CodecsSpec => []Md5Progress
  BY Md5First, Md5Kept, PTL DEF CodecsSpec
<1>. QED BY <1>1, <1>2, PTL

-----------------------------------------------------------------------------
(* The words of a command.                                                 *)

\* The blank and the percent sign are neither each other nor a character of
\* the command around the message.
Plain == {"A", "k", "*", "p", "x", "r"}

LEMMA SignsDiffer == Blank # Percent /\ Blank \notin Plain /\ Percent \notin Plain
<1>1. \A c \in Plain : c # Percent
  BY DEF Plain, Percent
<1>2. \A c \in Plain : c # Blank
  BY DEF Plain, Blank
<1>3. Blank # Percent
  BY DEF Blank, Percent
<1>. QED BY <1>1, <1>2, <1>3

Signs == STRING \cup Plain \cup {Blank, Percent}
Phrase == Seq(Signs)
FormatStates == [words : Seq(Phrase), word : Phrase, upto : Nat, err : STRING \cup {"none", "argument", "illegal"}]

\* The state of the reading while there is no error.
Reads(words, word, upto) == [words |-> words, word |-> word, upto |-> upto, err |-> "none"]

LEMMA ConversionFails ==
    ASSUME NEW s, NEW i
    PROVE  Conversion(s, i) \in {"argument", "illegal"} /\ Conversion(s, i) # "none"
<1>1. "argument" # "none" /\ "illegal" # "none"
  OBVIOUS
<1>2. Conversion(s, i) = "argument" \/ Conversion(s, i) = "illegal"
  BY DEF Conversion
<1>. QED BY <1>1, <1>2

\* What each kind of character does.
LEMMA CharSkipped ==
    ASSUME NEW s, NEW i, NEW a, i <= a.upto \/ a.err # "none"
    PROVE  ReadChar(s, i, a) = a
BY DEF ReadChar

LEMMA LetterRead ==
    ASSUME NEW s, NEW i, NEW w, NEW v, NEW u, ~(i <= u), s[i] # Percent, s[i] # Blank
    PROVE  ReadChar(s, i, Reads(w, v, u)) = Reads(w, Append(v, s[i]), u)
BY DEF ReadChar, Reads

LEMMA BlankRead ==
    ASSUME NEW s, NEW i, NEW w, NEW v, NEW u, ~(i <= u), s[i] = Blank, v # <<>>
    PROVE  ReadChar(s, i, Reads(w, v, u)) = Reads(Append(w, v), <<>>, u)
<1>1. s[i] # Percent
  BY SignsDiffer
<1>. QED BY <1>1 DEF ReadChar, Reads

LEMMA PairRead ==
    ASSUME NEW s, NEW i, NEW w, NEW v, NEW u, ~(i <= u), s[i] = Percent, i < Len(s),
           s[i + 1] = Percent
    PROVE  ReadChar(s, i, Reads(w, v, u)) = Reads(w, Append(v, Percent), i + 1)
BY DEF ReadChar, ReadPercent, Reads

LEMMA ConversionRead ==
    ASSUME NEW s, NEW i, NEW w, NEW v, NEW u, ~(i <= u), s[i] = Percent, i < Len(s),
           s[i + 1] # Percent
    PROVE  ReadChar(s, i, Reads(w, v, u)).err # "none"
<1>. DEFINE a == Reads(w, v, u)
            e == Conversion(s, i + 1)
<1>1. e # "none"
  BY ConversionFails
<1>. HIDE DEF e
<1>2. ReadChar(s, i, a) = [a EXCEPT !.err = e]
  BY <1>1 DEF ReadChar, ReadPercent, Reads, e
<1>3. [a EXCEPT !.err = e].err = e
  BY DEF Reads
<1>. QED BY <1>1, <1>2, <1>3

LEMMA ReadCharTyped ==
    ASSUME NEW s \in Phrase, NEW i \in 1..Len(s), NEW a \in FormatStates
    PROVE  ReadChar(s, i, a) \in FormatStates
<1>. DEFINE next == ReadChar(s, i, a)
            Errs == STRING \cup {"none", "argument", "illegal"}
<1>1. a.words \in Seq(Phrase) /\ a.word \in Phrase /\ a.upto \in Nat /\ a.err \in Errs
  BY DEF FormatStates
<1>2. i \in Nat /\ i + 1 \in Nat
  BY LenProperties DEF Phrase
<1>3. s[i] \in Signs /\ Percent \in Signs
  BY ElementOfSeq DEF Phrase, Signs
<1>4. \A c \in Signs : Append(a.word, c) \in Phrase
  BY <1>1, AppendProperties DEF Phrase
<1>5. Append(a.words, a.word) \in Seq(Phrase)
  BY <1>1, AppendProperties
<1>6. Conversion(s, i + 1) \in Errs
  <2>. DEFINE e == Conversion(s, i + 1)
  <2>1. e \in {"argument", "illegal"}
    BY ConversionFails
  <2>. HIDE DEF e
  <2>. QED BY <2>1 DEF e
<1>7. <<>> \in Phrase
  BY DEF Phrase
<1>. HIDE DEF Errs
<1>8. \A w \in Seq(Phrase), v \in Phrase, u \in Nat, e \in Errs :
        [words |-> w, word |-> v, upto |-> u, err |-> e] \in FormatStates
  BY DEF FormatStates, Errs
<1>9. a = [words |-> a.words, word |-> a.word, upto |-> a.upto, err |-> a.err]
  BY DEF FormatStates
<1>10. ASSUME NEW e \in Errs PROVE [a EXCEPT !.err = e] \in FormatStates
  <2>1. [a EXCEPT !.err = e] = [words |-> a.words, word |-> a.word, upto |-> a.upto, err |-> e]
    BY <1>9
  <2>. QED BY <1>1, <1>8, <1>10, <2>1
<1>11. ASSUME NEW v \in Phrase PROVE [a EXCEPT !.word = v] \in FormatStates
  <2>1. [a EXCEPT !.word = v] = [words |-> a.words, word |-> v, upto |-> a.upto, err |-> a.err]
    BY <1>9
  <2>. QED BY <1>1, <1>8, <1>11, <2>1
<1>12. ASSUME NEW v \in Phrase, NEW u \in Nat PROVE [a EXCEPT !.word = v, !.upto = u] \in FormatStates
  <2>. DEFINE b == [a EXCEPT !.word = v]
  <2>1. b = [words |-> a.words, word |-> v, upto |-> a.upto, err |-> a.err]
    BY <1>9
  <2>. HIDE DEF b
  <2>2. [b EXCEPT !.upto = u] = [words |-> a.words, word |-> v, upto |-> u, err |-> a.err]
    BY <2>1
  <2>3. [b EXCEPT !.upto = u] \in FormatStates
    BY <1>1, <1>8, <1>12, <2>2
  <2>. QED BY <2>3 DEF b
<1>13. ASSUME NEW w \in Seq(Phrase), NEW v \in Phrase
       PROVE  [a EXCEPT !.words = w, !.word = v] \in FormatStates
  <2>. DEFINE b == [a EXCEPT !.words = w]
  <2>1. b = [words |-> w, word |-> a.word, upto |-> a.upto, err |-> a.err]
    BY <1>9
  <2>. HIDE DEF b
  <2>2. [b EXCEPT !.word = v] = [words |-> w, word |-> v, upto |-> a.upto, err |-> a.err]
    BY <2>1
  <2>3. [b EXCEPT !.word = v] \in FormatStates
    BY <1>1, <1>8, <1>13, <2>2
  <2>. QED BY <2>3 DEF b
<1>14. \/ next = a
       \/ \E c \in {s[i], Percent} : next = [a EXCEPT !.word = Append(a.word, c)]
       \/ next = [a EXCEPT !.word = Append(a.word, Percent), !.upto = i + 1]
       \/ next = [a EXCEPT !.err = Conversion(s, i + 1)]
       \/ next = [a EXCEPT !.words = Append(a.words, a.word), !.word = <<>>]
  BY Zenon DEF ReadChar, ReadPercent
<1>15. CASE \E c \in {s[i], Percent} : next = [a EXCEPT !.word = Append(a.word, c)]
  BY <1>3, <1>4, <1>11, <1>15
<1>16. CASE next = [a EXCEPT !.word = Append(a.word, Percent), !.upto = i + 1]
  BY <1>2, <1>3, <1>4, <1>12, <1>16, ZenonT(30)
<1>17. CASE next = [a EXCEPT !.err = Conversion(s, i + 1)]
  BY <1>6, <1>10, <1>17
<1>18. CASE next = [a EXCEPT !.words = Append(a.words, a.word), !.word = <<>>]
  BY <1>5, <1>7, <1>13, <1>18
<1>. QED BY <1>14, <1>15, <1>16, <1>17, <1>18

\* The states of the reading, one behind each character.
Readings(f, s) ==
    /\ f \in [0..Len(s) -> FormatStates] /\ f[0] = Unread
    /\ \A i \in 1..Len(s) : f[i] = ReadChar(s, i, f[i - 1])

\* What the last of them makes of the command.
Formatted(a) ==
    [err |-> a.err, words |-> IF a.word = <<>> THEN a.words ELSE Append(a.words, a.word)]

LEMMA FormatIs ==
    ASSUME NEW s \in Phrase
    PROVE  \E f : Readings(f, s) /\ Format(s) = Formatted(f[Len(s)])
<1>. DEFINE n == Len(s)
            step == [p \in (1..n) \X FormatStates |-> ReadChar(s, p[1], p[2])]
            Is(g) == g = [i \in 0..n |-> IF i = 0 THEN Unread ELSE ReadChar(s, i, g[i - 1])]
<1>1. n \in Nat
  BY LenProperties DEF Phrase
<1>2. Format(s) = Formatted((CHOOSE g : Is(g))[n])
  BY DEF Format, Formatted
<1>3. step \in [(1..n) \X FormatStates -> FormatStates]
  <2>1. ASSUME NEW p \in (1..n) \X FormatStates PROVE ReadChar(s, p[1], p[2]) \in FormatStates
    <3>1. p[1] \in 1..Len(s) /\ p[2] \in FormatStates
      OBVIOUS
    <3>. QED BY <3>1, ReadCharTyped
  <2>. QED BY <2>1
<1>4. \A i \in 1..n, a \in FormatStates : step[<<i, a>>] = ReadChar(s, i, a)
  OBVIOUS
<1>5. Unread \in FormatStates
  <2>. DEFINE e == <<>>
  <2>1. e \in Seq(Phrase) /\ e \in Phrase
    BY DEF Phrase
  <2>. HIDE DEF e
  <2>2. [words |-> e, word |-> e, upto |-> 0, err |-> "none"] \in FormatStates
    BY <2>1 DEF FormatStates
  <2>. QED BY <2>2 DEF e, Unread
<1>. HIDE DEF n, step
<1>6. PICK f : Recursive(f, FormatStates, Unread, n, step)
  BY <1>1, <1>3, <1>5, Recursion
<1>7. /\ f \in [0..n -> FormatStates] /\ f[0] = Unread
      /\ \A i \in 1..n : f[i] = ReadChar(s, i, f[i - 1])
  <2>1. /\ f \in [0..n -> FormatStates] /\ f[0] = Unread
        /\ \A i \in 1..n : f[i] = step[<<i, f[i - 1]>>]
    BY <1>6 DEF Recursive
  <2>2. ASSUME NEW i \in 1..n PROVE f[i] = ReadChar(s, i, f[i - 1])
    <3>1. f[i - 1] \in FormatStates
      BY <1>1, <2>1
    <3>. QED BY <1>4, <2>1, <3>1
  <2>. QED BY <2>1, <2>2
<1>8. Is(f)
  BY <1>1, <1>7
<1>. DEFINE c == CHOOSE g : Is(g)
<1>9. Is(c)
  <2>. HIDE DEF Is
  <2>. QED BY <1>8, Zenon
<1>. HIDE DEF c
<1>10. c = f
  <2>1. 0..n \subseteq {i \in 0..n : c[i] = f[i]}
    <3>. DEFINE S == {i \in 0..n : c[i] = f[i]}
    <3>1. 0 \in S
      BY <1>1, <1>8, <1>9
    <3>2. ASSUME NEW i \in 0..n - 1, i \in S PROVE i + 1 \in S
      <4>1. i + 1 \in 0..n /\ i + 1 # 0 /\ (i + 1) - 1 = i /\ c[i] = f[i]
        BY <1>1, <3>2
      <4>2. c[i + 1] = ReadChar(s, i + 1, c[i])
        BY <1>9, <4>1
      <4>3. f[i + 1] = ReadChar(s, i + 1, f[i])
        BY <1>8, <4>1
      <4>. QED BY <4>1, <4>2, <4>3
    <3>. HIDE DEF S
    <3>. QED BY <1>1, <3>1, <3>2, UpTo DEF S
  <2>2. c = [i \in 0..n |-> c[i]] /\ f = [i \in 0..n |-> f[i]]
    BY <1>8, <1>9
  <2>. QED BY <2>1, <2>2
<1>11. Format(s) = Formatted(f[n])
  BY <1>2, <1>10 DEF c
<1>. QED BY <1>7, <1>11 DEF Readings, n

\* The command for a text of n characters: its key and id, the message from
\* the ninth character on, its room.
Around(s, n) ==
    /\ s[1] = "A" /\ s[2] = Blank /\ s[3] = "k" /\ s[4] = Blank
    /\ s[5] = "*" /\ s[6] = Blank /\ s[7] = "p" /\ s[8] = Blank
    /\ s[n + 11] = Blank /\ s[n + 12] = "r" /\ s[n + 13] = Blank /\ s[n + 14] = "k"
IsCommand(s, p, text, n) ==
    /\ n \in Nat /\ s \in Phrase /\ Len(s) = n + 14 /\ Around(s, n)
    /\ p \in Phrase /\ Len(p) = n + 2 /\ \A j \in 1..n + 2 : s[j + 8] = p[j]
    /\ text \in Phrase /\ Len(text) = n
    /\ p[1] = "x" /\ p[n + 2] = "x" /\ \A j \in 1..n : p[j + 1] = text[j]

\* w is u and v behind it.
Followed(w, u, v, l, m) ==
    /\ w \in Phrase /\ Len(w) = l + m
    /\ \A i \in 1..l : w[i] = u[i]
    /\ \A i \in 1..m : w[l + i] = v[i]

LEMMA PhraseCat ==
    ASSUME NEW u \in Phrase, NEW v \in Phrase, NEW l \in Nat, NEW m \in Nat, Len(u) = l, Len(v) = m
    PROVE  Followed(u \o v, u, v, l, m)
<1>. DEFINE w == u \o v
<1>1. u \in Seq(Signs) /\ v \in Seq(Signs)
  BY DEF Phrase
<1>2. /\ w \in Seq(Signs) /\ Len(w) = Len(u) + Len(v)
      /\ \A i \in 1..Len(u) + Len(v) : w[i] = IF i <= Len(u) THEN u[i] ELSE v[i - Len(u)]
  BY <1>1, ConcatProperties
<1>. HIDE DEF w
<1>3. \A i \in 1..l : w[i] = u[i]
  BY <1>2
<1>4. ASSUME NEW i \in 1..m PROVE w[l + i] = v[i]
  <2>1. l + i \in 1..l + m /\ ~(l + i <= l) /\ (l + i) - l = i
    OBVIOUS
  <2>. QED BY <1>2, <2>1
<1>5. Followed(w, u, v, l, m)
  BY <1>2, <1>3, <1>4 DEF Followed, Phrase
<1>. QED BY <1>5 DEF w

LEMMA PayloadIs ==
    ASSUME NEW text \in Phrase
    PROVE  /\ Payload(text) \in Phrase /\ Len(Payload(text)) = Len(text) + 2 /\ Len(text) \in Nat
           /\ Payload(text)[1] = "x" /\ Payload(text)[Len(text) + 2] = "x"
           /\ \A j \in 1..Len(text) : Payload(text)[j + 1] = text[j]
<1>. DEFINE q == <<"x">>
            a == q \o text
            b == a \o q
            n == Len(text)
<1>1. q \in Phrase /\ Len(q) = 1 /\ q[1] = "x"
  <2>1. "x" \in Signs
    BY DEF Signs, Plain
  <2>. QED BY <2>1 DEF Phrase
<1>2. n \in Nat
  BY LenProperties DEF Phrase
<1>. HIDE DEF q
<1>3. Followed(a, q, text, 1, n)
  BY <1>1, <1>2, PhraseCat
<1>. HIDE DEF a
<1>4. a \in Phrase /\ Len(a) = 1 + n /\ 1 + n \in Nat
  BY <1>2, <1>3 DEF Followed
<1>5. Followed(b, a, q, 1 + n, 1)
  BY <1>1, <1>4, PhraseCat
<1>6. Payload(text) = b
  BY DEF Payload, a, q
<1>. HIDE DEF b, n
<1>7. b[1] = "x"
  <2>1. b[1] = a[1] /\ a[1] = q[1]
    BY <1>2, <1>3, <1>5 DEF Followed
  <2>. QED BY <1>1, <2>1
<1>8. b[n + 2] = "x"
  <2>1. b[(1 + n) + 1] = q[1] /\ (1 + n) + 1 = n + 2
    BY <1>2, <1>5 DEF Followed
  <2>. QED BY <1>1, <2>1
<1>9. ASSUME NEW j \in 1..n PROVE b[j + 1] = text[j]
  <2>1. 1 + j \in 1..1 + n /\ 1 + j = j + 1
    BY <1>2
  <2>2. b[1 + j] = a[1 + j]
    BY <1>5, <2>1 DEF Followed
  <2>3. a[1 + j] = text[j]
    BY <1>3 DEF Followed
  <2>. QED BY <2>1, <2>2, <2>3
<1>10. b \in Phrase /\ Len(b) = n + 2
  BY <1>2, <1>5 DEF Followed
<1>. QED BY <1>2, <1>6, <1>7, <1>8, <1>9, <1>10 DEF n

LEMMA CommandIs ==
    ASSUME NEW text \in Phrase
    PROVE  IsCommand(XaddCommand(text), Payload(text), text, Len(text))
<1>. DEFINE n == Len(text)
            p == Payload(text)
            h == <<"A", Blank, "k", Blank, "*", Blank, "p", Blank>>
            t == <<Blank, "r", Blank, "k">>
            a == h \o p
            s == a \o t
<1>1. /\ h \in Phrase /\ Len(h) = 8
      /\ h[1] = "A" /\ h[2] = Blank /\ h[3] = "k" /\ h[4] = Blank
      /\ h[5] = "*" /\ h[6] = Blank /\ h[7] = "p" /\ h[8] = Blank
  <2>1. "A" \in Signs /\ "k" \in Signs /\ "*" \in Signs /\ "p" \in Signs /\ Blank \in Signs
    BY DEF Signs, Plain
  <2>. QED BY <2>1 DEF Phrase
<1>2. t \in Phrase /\ Len(t) = 4 /\ t[1] = Blank /\ t[2] = "r" /\ t[3] = Blank /\ t[4] = "k"
  <2>1. "r" \in Signs /\ "k" \in Signs /\ Blank \in Signs
    BY DEF Signs, Plain
  <2>. QED BY <2>1 DEF Phrase
<1>3. /\ p \in Phrase /\ Len(p) = n + 2 /\ n \in Nat /\ p[1] = "x" /\ p[n + 2] = "x"
      /\ \A j \in 1..n : p[j + 1] = text[j]
  BY PayloadIs
<1>. HIDE DEF h, t, p, n
<1>4. Followed(a, h, p, 8, n + 2)
  <2>1. n + 2 \in Nat /\ 8 \in Nat
    BY <1>3
  <2>. QED BY <1>1, <1>3, <2>1, PhraseCat
<1>. HIDE DEF a
<1>5. a \in Phrase /\ Len(a) = n + 10 /\ n + 10 \in Nat
  BY <1>3, <1>4 DEF Followed
<1>6. Followed(s, a, t, n + 10, 4)
  BY <1>2, <1>5, PhraseCat
<1>. HIDE DEF s
<1>7. s \in Phrase /\ Len(s) = n + 14
  BY <1>3, <1>6 DEF Followed
<1>8. ASSUME NEW i \in 1..8 PROVE s[i] = h[i]
  <2>1. i \in 1..n + 10
    BY <1>3
  <2>. QED BY <1>4, <1>6, <2>1 DEF Followed
<1>9. ASSUME NEW j \in 1..n + 2 PROVE s[j + 8] = p[j]
  <2>1. 8 + j \in 1..n + 10 /\ 8 + j = j + 8
    BY <1>3
  <2>2. s[8 + j] = a[8 + j]
    BY <1>6, <2>1 DEF Followed
  <2>3. a[8 + j] = p[j]
    BY <1>4 DEF Followed
  <2>. QED BY <2>1, <2>2, <2>3
<1>10. ASSUME NEW j \in 1..4 PROVE s[(n + 10) + j] = t[j]
  BY <1>6 DEF Followed
<1>11. s[n + 11] = Blank /\ s[n + 12] = "r" /\ s[n + 13] = Blank /\ s[n + 14] = "k"
  <2>1. (n + 10) + 1 = n + 11 /\ (n + 10) + 2 = n + 12 /\ (n + 10) + 3 = n + 13 /\ (n + 10) + 4 = n + 14
    BY <1>3
  <2>. QED BY <1>2, <1>10, <2>1
<1>12. Around(s, n)
  BY <1>1, <1>8, <1>11 DEF Around
<1>13. IsCommand(s, p, text, n)
  BY <1>3, <1>7, <1>9, <1>12 DEF IsCommand, n
<1>14. XaddCommand(text) = s
  BY DEF XaddCommand, s, a, h, t, p
<1>. QED BY <1>13, <1>14 DEF n, p

\* One word more.
LEMMA WordAdded ==
    ASSUME NEW w \in Seq(Phrase), NEW v \in Phrase, NEW k \in Nat, Len(w) = k, NEW m, m = k + 1
    PROVE  /\ Append(w, v) \in Seq(Phrase) /\ Len(Append(w, v)) = m
           /\ \A i \in 1..k : Append(w, v)[i] = w[i]
           /\ Append(w, v)[m] = v
<1>. DEFINE x == Append(w, v)
<1>1. /\ x \in Seq(Phrase) /\ Len(x) = Len(w) + 1 /\ \A i \in 1..Len(w) : x[i] = w[i]
      /\ x[Len(w) + 1] = v
  BY AppendProperties
<1>. HIDE DEF x
<1>2. /\ x \in Seq(Phrase) /\ Len(x) = m /\ \A i \in 1..k : x[i] = w[i]
      /\ x[m] = v
  BY <1>1
<1>. QED BY <1>2 DEF x

\* The four words before the message.
Head0 == <<>>
Head1 == Append(Head0, <<"A">>)
Head2 == Append(Head1, <<"k">>)
Head3 == Append(Head2, <<"*">>)
Head4 == Append(Head3, <<"p">>)

LEMMA Head4Typed == Head4 \in Seq(Phrase) /\ Len(Head4) = 4
<1>. DEFINE a == <<"A">>
            b == <<"k">>
            c == <<"*">>
            d == <<"p">>
<1>1. a \in Phrase /\ b \in Phrase /\ c \in Phrase /\ d \in Phrase
  <2>1. "A" \in Signs /\ "k" \in Signs /\ "*" \in Signs /\ "p" \in Signs
    BY DEF Signs, Plain
  <2>. QED BY <2>1, Singleton DEF Phrase
<1>2. Head0 \in Seq(Phrase) /\ Len(Head0) = 0
  BY DEF Head0
<1>. HIDE DEF a, b, c, d
<1>3. Head1 \in Seq(Phrase) /\ Len(Head1) = 1
  <2>1. Append(Head0, a) \in Seq(Phrase) /\ Len(Append(Head0, a)) = 1
    <3>1. 1 = 0 + 1
      OBVIOUS
    <3>. QED BY <1>1, <1>2, <3>1, WordAdded
  <2>2. Head1 = Append(Head0, a)
    BY DEF Head1, a
  <2>. QED BY <2>1, <2>2
<1>4. Head2 \in Seq(Phrase) /\ Len(Head2) = 2
  <2>1. Append(Head1, b) \in Seq(Phrase) /\ Len(Append(Head1, b)) = 2
    <3>1. 1 \in Nat /\ 2 = 1 + 1
      OBVIOUS
    <3>. QED BY <1>1, <1>3, <3>1, WordAdded
  <2>2. Head2 = Append(Head1, b)
    BY DEF Head2, b
  <2>. QED BY <2>1, <2>2
<1>5. Head3 \in Seq(Phrase) /\ Len(Head3) = 3
  <2>1. Append(Head2, c) \in Seq(Phrase) /\ Len(Append(Head2, c)) = 3
    <3>1. 2 \in Nat /\ 3 = 2 + 1
      OBVIOUS
    <3>. QED BY <1>1, <1>4, <3>1, WordAdded, SMTT(30)
  <2>2. Head3 = Append(Head2, c)
    BY DEF Head3, c
  <2>. QED BY <2>1, <2>2
<1>6. Head4 \in Seq(Phrase) /\ Len(Head4) = 4
  <2>1. Append(Head3, d) \in Seq(Phrase) /\ Len(Append(Head3, d)) = 4
    <3>1. 3 \in Nat /\ 4 = 3 + 1
      OBVIOUS
    <3>. QED BY <1>1, <1>5, <3>1, WordAdded
  <2>2. Head4 = Append(Head3, d)
    BY DEF Head4, d
  <2>. QED BY <2>1, <2>2
<1>. QED BY <1>6

\* A word of one letter, ended by a blank.
LEMMA ShortWord ==
    ASSUME NEW s, NEW i \in Nat, NEW c \in Plain, NEW w, s[i] = c, s[i + 1] = Blank, i > 0
    PROVE  /\ ReadChar(s, i, Reads(w, <<>>, 0)) = Reads(w, <<c>>, 0)
           /\ ReadChar(s, i + 1, Reads(w, <<c>>, 0)) = Reads(Append(w, <<c>>), <<>>, 0)
<1>1. s[i] # Percent /\ s[i] # Blank
  BY SignsDiffer
<1>2. Append(<<>>, s[i]) = <<c>>
  OBVIOUS
<1>3. ~(i <= 0) /\ ~(i + 1 <= 0)
  OBVIOUS
<1>4. ReadChar(s, i, Reads(w, <<>>, 0)) = Reads(w, <<c>>, 0)
  <2>. DEFINE e == <<>>
  <2>. HIDE DEF e
  <2>1. ReadChar(s, i, Reads(w, e, 0)) = Reads(w, Append(e, s[i]), 0)
    BY <1>1, <1>3, LetterRead
  <2>. QED BY <1>2, <2>1 DEF e
<1>. DEFINE v == <<c>>
<1>5. v # <<>>
  OBVIOUS
<1>. HIDE DEF v
<1>6. ReadChar(s, i + 1, Reads(w, v, 0)) = Reads(Append(w, v), <<>>, 0)
  BY <1>3, <1>5, BlankRead
<1>. QED BY <1>4, <1>6 DEF v

\* The eight characters before the message.
LEMMA HeadRead ==
    ASSUME NEW text \in Phrase, NEW s, NEW p, NEW n, IsCommand(s, p, text, n), NEW f, Readings(f, s)
    PROVE  f[8] = Reads(Head4, <<>>, 0)
<1>1. \A i \in 1..8 : f[i] = ReadChar(s, i, f[i - 1])
  <2>1. Len(s) = n + 14 /\ n \in Nat
    BY DEF IsCommand
  <2>2. \A i \in 1..8 : i \in 1..Len(s)
    BY <2>1
  <2>. QED BY <2>2 DEF Readings
<1>2. /\ f[1] = ReadChar(s, 1, f[0]) /\ f[2] = ReadChar(s, 2, f[1])
      /\ f[3] = ReadChar(s, 3, f[2]) /\ f[4] = ReadChar(s, 4, f[3])
      /\ f[5] = ReadChar(s, 5, f[4]) /\ f[6] = ReadChar(s, 6, f[5])
      /\ f[7] = ReadChar(s, 7, f[6]) /\ f[8] = ReadChar(s, 8, f[7])
  BY <1>1
<1>3. f[0] = Reads(Head0, <<>>, 0)
  BY DEF Readings, Reads, Unread, Head0
<1>4. Around(s, n)
  BY DEF IsCommand
<1>5. f[2] = Reads(Head1, <<>>, 0)
  <2>1. "A" \in Plain /\ s[1] = "A" /\ s[1 + 1] = Blank
    BY <1>4 DEF Around, Plain
  <2>2. ReadChar(s, 1, Reads(Head0, <<>>, 0)) = Reads(Head0, <<"A">>, 0)
    BY <2>1, ShortWord
  <2>3. ReadChar(s, 1 + 1, Reads(Head0, <<"A">>, 0)) = Reads(Head1, <<>>, 0)
    BY <2>1, ShortWord DEF Head1
  <2>. QED BY <1>2, <1>3, <2>2, <2>3
<1>6. f[4] = Reads(Head2, <<>>, 0)
  <2>1. "k" \in Plain /\ s[3] = "k" /\ s[3 + 1] = Blank
    BY <1>4 DEF Around, Plain
  <2>2. ReadChar(s, 3, Reads(Head1, <<>>, 0)) = Reads(Head1, <<"k">>, 0)
    BY <2>1, ShortWord
  <2>3. ReadChar(s, 3 + 1, Reads(Head1, <<"k">>, 0)) = Reads(Head2, <<>>, 0)
    BY <2>1, ShortWord DEF Head2
  <2>. QED BY <1>2, <1>5, <2>2, <2>3
<1>7. f[6] = Reads(Head3, <<>>, 0)
  <2>1. "*" \in Plain /\ s[5] = "*" /\ s[5 + 1] = Blank
    BY <1>4 DEF Around, Plain
  <2>2. ReadChar(s, 5, Reads(Head2, <<>>, 0)) = Reads(Head2, <<"*">>, 0)
    BY <2>1, ShortWord
  <2>3. ReadChar(s, 5 + 1, Reads(Head2, <<"*">>, 0)) = Reads(Head3, <<>>, 0)
    BY <2>1, ShortWord DEF Head3
  <2>. QED BY <1>2, <1>6, <2>2, <2>3
<1>8. f[8] = Reads(Head4, <<>>, 0)
  <2>1. "p" \in Plain /\ s[7] = "p" /\ s[7 + 1] = Blank
    BY <1>4 DEF Around, Plain
  <2>2. ReadChar(s, 7, Reads(Head3, <<>>, 0)) = Reads(Head3, <<"p">>, 0)
    BY <2>1, ShortWord
  <2>3. ReadChar(s, 7 + 1, Reads(Head3, <<"p">>, 0)) = Reads(Head4, <<>>, 0)
    BY <2>1, ShortWord DEF Head4
  <2>. QED BY <1>2, <1>7, <2>2, <2>3
<1>. QED BY <1>8

\* A text of one word without a percent sign.
OneWord(text) ==
    \A j \in DOMAIN text : text[j] # Blank /\ text[j] # Percent

\* The next character of a word.
LEMMA Lengthened ==
    ASSUME NEW p \in Phrase, NEW k \in Nat, k + 1 <= Len(p)
    PROVE  Append(SubSeq(p, 1, k), p[k + 1]) = SubSeq(p, 1, k + 1)
<1>. DEFINE v == SubSeq(p, 1, k)
            w == SubSeq(p, 1, k + 1)
<1>1. p \in Seq(Signs) /\ Len(p) \in Nat
  BY LenProperties DEF Phrase
<1>2. v \in Seq(Signs) /\ Len(v) = k /\ \A i \in 1..k : v[i] = p[i]
  <2>1. \A i \in 1..k : i \in 1..Len(p)
    BY <1>1
  <2>. QED BY <1>1, <2>1
<1>3. w \in Seq(Signs) /\ Len(w) = k + 1 /\ \A i \in 1..k + 1 : w[i] = p[i]
  <2>1. \A i \in 1..k + 1 : i \in 1..Len(p)
    BY <1>1
  <2>. QED BY <1>1, <2>1
<1>4. p[k + 1] \in Signs
  BY <1>1, ElementOfSeq
<1>. HIDE DEF v, w
<1>. DEFINE x == Append(v, p[k + 1])
<1>5. x \in Seq(Signs) /\ Len(x) = k + 1 /\ (\A i \in 1..k : x[i] = v[i]) /\ x[k + 1] = p[k + 1]
  BY <1>2, <1>4, AppendProperties
<1>. HIDE DEF x
<1>6. \A i \in 1..k + 1 : x[i] = w[i]
  BY <1>2, <1>3, <1>5
<1>7. x = w
  BY <1>3, <1>5, <1>6, SeqEqual
<1>. QED BY <1>7 DEF x, v, w

\* Such a text is read into one word with its quotes.
LEMMA WordRead ==
    ASSUME NEW text \in Phrase, NEW s, NEW p, NEW n, IsCommand(s, p, text, n),
           NEW f, Readings(f, s), OneWord(text)
    PROVE  f[n + 10] = Reads(Head4, p, 0)
<1>1. n \in Nat /\ p \in Phrase /\ Len(p) = n + 2 /\ Len(s) = n + 14
  BY DEF IsCommand
<1>2. ASSUME NEW j \in 1..n + 2 PROVE p[j] # Blank /\ p[j] # Percent
  <2>1. CASE j = 1 \/ j = n + 2
    <3>1. p[j] = "x" /\ "x" \in Plain
      BY <2>1 DEF IsCommand, Plain
    <3>. QED BY <3>1, SignsDiffer
  <2>2. CASE j # 1 /\ j # n + 2
    <3>1. j - 1 \in 1..n /\ (j - 1) + 1 = j
      BY <1>1, <2>2
    <3>2. p[j] = text[j - 1]
      BY <3>1 DEF IsCommand
    <3>3. DOMAIN text = 1..n
      BY LenProperties DEF IsCommand, Phrase
    <3>. QED BY <3>1, <3>2, <3>3 DEF OneWord
  <2>. QED BY <2>1, <2>2
<1>. DEFINE w(k) == SubSeq(p, 1, k)
            S == {k \in 0..n + 2 : f[8 + k] = Reads(Head4, w(k), 0)}
<1>3. 0..n + 2 \subseteq S
  <2>1. 0 \in S
    <3>1. w(0) = <<>>
      BY <1>1 DEF Phrase
    <3>2. f[8] = Reads(Head4, <<>>, 0)
      BY HeadRead
    <3>3. 8 + 0 = 8 /\ 0 \in 0..n + 2
      BY <1>1
    <3>. HIDE DEF w
    <3>4. f[8 + 0] = Reads(Head4, w(0), 0)
      BY <3>1, <3>2, <3>3
    <3>. QED BY <3>3, <3>4
  <2>2. ASSUME NEW k \in 0..(n + 2) - 1, k \in S PROVE k + 1 \in S
    <3>1. /\ k \in Nat /\ k + 1 \in 1..n + 2 /\ k + 1 <= Len(p)
          /\ 8 + (k + 1) \in 1..Len(s) /\ (8 + (k + 1)) - 1 = 8 + k
          /\ 8 + (k + 1) = (k + 1) + 8 /\ k + 1 \in 0..n + 2
          /\ ~(8 + (k + 1) <= 0)
      BY <1>1
    <3>2. f[8 + (k + 1)] = ReadChar(s, 8 + (k + 1), f[8 + k])
      BY <3>1 DEF Readings
    <3>3. f[8 + k] = Reads(Head4, w(k), 0)
      BY <2>2
    <3>4. s[8 + (k + 1)] = p[k + 1]
      BY <3>1 DEF IsCommand
    <3>5. p[k + 1] # Blank /\ p[k + 1] # Percent
      BY <1>2, <3>1
    <3>6. Append(w(k), p[k + 1]) = w(k + 1)
      BY <1>1, <3>1, Lengthened
    <3>. HIDE DEF w
    <3>7. ReadChar(s, 8 + (k + 1), Reads(Head4, w(k), 0)) = Reads(Head4, Append(w(k), s[8 + (k + 1)]), 0)
      BY <3>1, <3>4, <3>5, LetterRead
    <3>8. f[8 + (k + 1)] = Reads(Head4, w(k + 1), 0)
      BY <3>2, <3>3, <3>4, <3>6, <3>7
    <3>. QED BY <3>1, <3>8
  <2>3. n + 2 \in Nat
    BY <1>1
  <2>. HIDE DEF S
  <2>. QED BY <2>1, <2>2, <2>3, UpTo
<1>4. w(n + 2) = p
  <2>1. p \in Seq(Signs)
    BY <1>1 DEF Phrase
  <2>. QED BY <1>1, <2>1
<1>5. n + 2 \in S
  BY <1>1, <1>3
<1>6. 8 + (n + 2) = n + 10
  BY <1>1
<1>. QED BY <1>4, <1>5, <1>6

\* The last four characters of the command: what was read before ends a word,
\* the room is another.
LEMMA TailRead ==
    ASSUME NEW text \in Phrase, NEW s, NEW p, NEW n, IsCommand(s, p, text, n),
           NEW f, Readings(f, s), f[n + 10] = Reads(Head4, p, 0)
    PROVE  LET a == f[n + 14]
           IN  a = Reads(Append(Append(Head4, p), <<"r">>), <<"k">>, 0)
<1>. DEFINE w == Append(Head4, p)
            i == n + 11
            j == n + 12
            k == n + 14
<1>1. n \in Nat /\ Len(s) = n + 14 /\ p # <<>>
  BY DEF IsCommand
<1>2. /\ n + 11 \in 1..Len(s) /\ (n + 11) - 1 = n + 10 /\ n + 12 \in 1..Len(s) /\ (n + 12) - 1 = n + 11
      /\ n + 13 \in 1..Len(s) /\ (n + 13) - 1 = n + 12 /\ n + 14 \in 1..Len(s) /\ (n + 14) - 1 = n + 13
      /\ (n + 12) + 1 = n + 13 /\ n + 12 > 0 /\ ~(n + 11 <= 0) /\ ~(n + 14 <= 0)
      /\ n + 12 \in Nat
  BY <1>1
<1>3. /\ f[n + 11] = ReadChar(s, n + 11, f[n + 10]) /\ f[n + 12] = ReadChar(s, n + 12, f[n + 11])
      /\ f[n + 13] = ReadChar(s, n + 13, f[n + 12]) /\ f[n + 14] = ReadChar(s, n + 14, f[n + 13])
  BY <1>2 DEF Readings
<1>4. s[n + 11] = Blank /\ s[n + 12] = "r" /\ s[n + 13] = Blank /\ s[n + 14] = "k"
  BY DEF IsCommand, Around
<1>. HIDE DEF w
<1>5. f[n + 11] = Reads(w, <<>>, 0)
  <2>1. ReadChar(s, n + 11, Reads(Head4, p, 0)) = Reads(w, <<>>, 0)
    BY <1>1, <1>2, <1>4, BlankRead DEF w
  <2>. QED BY <1>3, <2>1
<1>6. f[n + 13] = Reads(Append(w, <<"r">>), <<>>, 0)
  <2>1. "r" \in Plain /\ s[(n + 12) + 1] = Blank
    BY <1>2, <1>4 DEF Plain
  <2>2. ReadChar(s, n + 12, Reads(w, <<>>, 0)) = Reads(w, <<"r">>, 0)
    BY <1>2, <1>4, <2>1, ShortWord
  <2>3. ReadChar(s, (n + 12) + 1, Reads(w, <<"r">>, 0)) = Reads(Append(w, <<"r">>), <<>>, 0)
    BY <1>2, <1>4, <2>1, ShortWord
  <2>. QED BY <1>2, <1>3, <1>5, <2>2, <2>3
<1>. DEFINE v == Append(w, <<"r">>)
            e == <<>>
<1>7. Append(e, s[n + 14]) = <<"k">>
  BY <1>4
<1>8. s[n + 14] # Percent /\ s[n + 14] # Blank
  <2>1. s[n + 14] \in Plain
    BY <1>4 DEF Plain
  <2>. QED BY <2>1, SignsDiffer
<1>. HIDE DEF v, e
<1>9. ReadChar(s, n + 14, Reads(v, e, 0)) = Reads(v, Append(e, s[n + 14]), 0)
  BY <1>2, <1>8, LetterRead, SMTT(30)
<1>. QED BY <1>3, <1>6, <1>7, <1>9 DEF w, v, e

\* What the server makes of the words of a command.
Made(s) ==
    LET f == Format(s)
        pairs == SubSeq(f.words, 4, Len(f.words))
    IN  [err |-> f.err, words |-> f.words,
         accepted |-> f.err = "none" /\ Len(pairs) % 2 = 0,
         payload |-> pairs[2]]

LEMMA FifthWord ==
    ASSUME NEW w \in Seq(Phrase), NEW m \in Nat, Len(w) = m, m >= 5
    PROVE  SubSeq(w, 4, Len(w))[2] = w[5] /\ Len(SubSeq(w, 4, Len(w))) = m - 3
<1>1. 4 + 2 - 1 = 5 /\ 2 \in 1..m - 4 + 1 /\ m - 4 + 1 = m - 3 /\ 4 <= m + 1
  OBVIOUS
<1>2. \A i \in 4..m : i \in 1..Len(w)
  OBVIOUS
<1>. DEFINE v == SubSeq(w, 4, m)
<1>3. v \in Seq(Phrase) /\ Len(v) = m - 3 /\ \A i \in 1..m - 3 : v[i] = w[4 + i - 1]
  BY <1>1, <1>2
<1>4. v[2] = w[4 + 2 - 1]
  <2>1. 2 \in 1..m - 3
    OBVIOUS
  <2>. HIDE DEF v
  <2>. QED BY <1>3, <2>1
<1>. HIDE DEF v
<1>5. v[2] = w[5] /\ Len(v) = m - 3
  BY <1>1, <1>3, <1>4
<1>. QED BY <1>5 DEF v

\* A word behind others.
LEMMA WordBehind ==
    ASSUME NEW w \in Seq(Phrase), NEW v \in Phrase
    PROVE  /\ Append(w, v) \in Seq(Phrase) /\ Len(Append(w, v)) = Len(w) + 1
           /\ \A i \in 1..Len(w) : Append(w, v)[i] = w[i]
           /\ Append(w, v)[Len(w) + 1] = v
BY AppendProperties

\* One word without a percent sign is stored as it was sent.
LEMMA StoredWhole ==
    ASSUME NEW text \in Phrase, OneWord(text)
    PROVE  Xadd(text).accepted /\ Xadd(text).payload = Payload(text)
<1>. DEFINE s == XaddCommand(text)
            p == Payload(text)
            n == Len(text)
            w == Append(Head4, p)
            r == <<"r">>
            k == <<"k">>
            v == Append(w, r)
            x == Append(v, k)
<1>1. IsCommand(s, p, text, n)
  BY CommandIs
<1>. HIDE DEF s, p, n
<1>2. PICK f : Readings(f, s) /\ Format(s) = Formatted(f[Len(s)])
  <2>1. s \in Phrase
    BY <1>1 DEF IsCommand
  <2>. QED BY <2>1, FormatIs
<1>3. f[n + 10] = Reads(Head4, p, 0)
  BY <1>1, <1>2, WordRead
<1>4. f[n + 14] = Reads(v, k, 0)
  BY <1>1, <1>2, <1>3, TailRead
<1>5. Format(s).err = "none" /\ Format(s).words = x
  <2>1. Len(s) = n + 14
    BY <1>1 DEF IsCommand
  <2>2. k # <<>>
    OBVIOUS
  <2>. HIDE DEF v, k
  <2>3. Formatted(Reads(v, k, 0)).err = "none" /\ Formatted(Reads(v, k, 0)).words = Append(v, k)
    BY <2>2 DEF Formatted, Reads
  <2>. QED BY <1>2, <1>4, <2>1, <2>3
<1>6. r \in Phrase /\ k \in Phrase /\ p \in Phrase
  <2>1. "r" \in Signs /\ "k" \in Signs
    BY DEF Signs, Plain
  <2>2. p \in Phrase
    BY <1>1 DEF IsCommand
  <2>. QED BY <2>1, <2>2, Singleton DEF Phrase
<1>. HIDE DEF r, k
<1>8. w \in Seq(Phrase) /\ Len(w) = 5 /\ w[5] = p
  <2>1. /\ w \in Seq(Phrase) /\ Len(w) = Len(Head4) + 1
        /\ \A i \in 1..Len(Head4) : w[i] = Head4[i]
        /\ w[Len(Head4) + 1] = p
    BY <1>6, Head4Typed, WordBehind, Zenon
  <2>. HIDE DEF w
  <2>. QED BY Head4Typed, <2>1
<1>. HIDE DEF w
<1>9. v \in Seq(Phrase) /\ Len(v) = 6 /\ \A i \in 1..5 : v[i] = w[i]
  <2>1. /\ v \in Seq(Phrase) /\ Len(v) = Len(w) + 1
        /\ \A i \in 1..Len(w) : v[i] = w[i]
        /\ v[Len(w) + 1] = r
    BY <1>6, <1>8, WordBehind, Zenon
  <2>. HIDE DEF v
  <2>. QED BY <1>8, <2>1
<1>. HIDE DEF v
<1>10. x \in Seq(Phrase) /\ Len(x) = 7 /\ \A i \in 1..6 : x[i] = v[i]
  <2>1. /\ x \in Seq(Phrase) /\ Len(x) = Len(v) + 1
        /\ \A i \in 1..Len(v) : x[i] = v[i]
        /\ x[Len(v) + 1] = k
    BY <1>6, <1>9, WordBehind, Zenon
  <2>. HIDE DEF x
  <2>. QED BY <1>9, <2>1
<1>. HIDE DEF x
<1>11. x[5] = p
  <2>1. x[5] = v[5] /\ v[5] = w[5]
    BY <1>9, <1>10
  <2>. QED BY <1>8, <2>1
<1>12. SubSeq(x, 4, Len(x))[2] = p /\ Len(SubSeq(x, 4, Len(x))) = 4
  <2>1. 7 \in Nat /\ 7 >= 5 /\ 7 - 3 = 4
    OBVIOUS
  <2>2. SubSeq(x, 4, Len(x))[2] = x[5] /\ Len(SubSeq(x, 4, Len(x))) = 7 - 3
    BY <1>10, <2>1, FifthWord
  <2>. QED BY <1>11, <2>1, <2>2
<1>13. Made(s).accepted /\ Made(s).payload = p
  <2>. DEFINE pairs == SubSeq(x, 4, Len(x))
  <2>1. pairs[2] = p /\ Len(pairs) % 2 = 0
    <3>1. Len(pairs) = 4 /\ 4 % 2 = 0 /\ pairs[2] = p
      BY <1>12
    <3>. HIDE DEF pairs
    <3>. QED BY <3>1
  <2>2. SubSeq(Format(s).words, 4, Len(Format(s).words)) = pairs
    BY <1>5
  <2>. HIDE DEF pairs
  <2>. QED BY <1>5, <2>1, <2>2 DEF Made
<1>14. Xadd(text) = Made(s)
  BY DEF Xadd, Made, s
<1>. QED BY <1>13, <1>14 DEF p

\* The reading has failed, or the word in the message's place is shorter than
\* the message.
Short(a, n) ==
    a.err # "none" \/ (Len(a.words) >= 5 /\ Len(a.words[5]) < n + 2)

LEMMA ShortBehind ==
    ASSUME NEW a \in FormatStates, NEW n \in Nat, Len(a.words) >= 5, Len(a.words[5]) < n + 2, NEW v \in Phrase
    PROVE  Len(Append(a.words, v)) >= 5 /\ Len(Append(a.words, v)[5]) < n + 2
<1>. DEFINE w == a.words
            x == Append(w, v)
<1>1. w \in Seq(Phrase)
  BY DEF FormatStates
<1>2. Len(w) \in Nat /\ Len(w) >= 5 /\ Len(w[5]) < n + 2
  BY <1>1, LenProperties
<1>. HIDE DEF w
<1>3. Len(x) = Len(w) + 1 /\ \A i \in 1..Len(w) : x[i] = w[i]
  BY <1>1, WordBehind
<1>. HIDE DEF x
<1>4. x[5] = w[5] /\ Len(x) >= 5
  BY <1>2, <1>3
<1>5. Len(x) >= 5 /\ Len(x[5]) < n + 2
  BY <1>2, <1>4
<1>. QED BY <1>5 DEF x, w

LEMMA ShortKept ==
    ASSUME NEW s, NEW i, NEW a \in FormatStates, NEW n \in Nat, Short(a, n)
    PROVE  Short(ReadChar(s, i, a), n)
<1>. DEFINE next == ReadChar(s, i, a)
<1>1. CASE a.err # "none"
  <2>1. next = a
    BY <1>1, CharSkipped
  <2>. QED BY <2>1
<1>2. CASE a.err = "none"
  <2>1. Len(a.words) >= 5 /\ Len(a.words[5]) < n + 2
    BY <1>2 DEF Short
  <2>2. a.word \in Phrase
    BY DEF FormatStates
  <2>3. Len(Append(a.words, a.word)) >= 5 /\ Len(Append(a.words, a.word)[5]) < n + 2
    BY <2>1, <2>2, ShortBehind
  <2>4. next.words = a.words \/ next.words = Append(a.words, a.word)
    BY DEF ReadChar, ReadPercent, FormatStates
  <2>. HIDE DEF next
  <2>5. Len(next.words) >= 5 /\ Len(next.words[5]) < n + 2
    <3>1. CASE next.words = a.words
      BY <2>1, <3>1
    <3>2. CASE next.words = Append(a.words, a.word)
      BY <2>3, <3>2
    <3>. QED BY <2>4, <3>1, <3>2
  <2>. QED BY <2>5 DEF Short, next
<1>. QED BY <1>1, <1>2

\* The word read from the first k characters of the message: shorter than
\* they are when there was a percent sign among them.
Shrunk(p, k, v) ==
    /\ v \in Phrase /\ Len(v) <= k /\ (k > 0 => Len(v) > 0)
    /\ \A j \in 1..k : p[j] # Blank
    /\ (\E j \in 1..k : p[j] = Percent) => Len(v) < k

\* Behind k characters: the second sign of a pair may have been read already.
Running(a, p, k, n) ==
    \/ Short(a, n)
    \/ \E v \in Phrase, u \in 0..k + 8 : a = Reads(Head4, v, u) /\ Shrunk(p, k, v)
    \/ k < n + 2 /\ \E v \in Phrase : a = Reads(Head4, v, k + 9) /\ Shrunk(p, k + 1, v)

LEMMA ShrunkGrows ==
    ASSUME NEW p, NEW k \in Nat, NEW v, Shrunk(p, k, v), NEW c \in Signs, p[k + 1] = c, c # Blank
    PROVE  c # Percent => Shrunk(p, k + 1, Append(v, c))
<1>. DEFINE w == Append(v, c)
<1>1. v \in Seq(Signs)
  BY DEF Shrunk, Phrase
<1>2. w \in Seq(Signs) /\ Len(w) = Len(v) + 1 /\ Len(v) \in Nat
  BY <1>1, AppendProperties, LenProperties
<1>. HIDE DEF w
<1>3. w \in Phrase
  BY <1>2 DEF Phrase
<1>4. \A j \in 1..k + 1 : j \in 1..k \/ j = k + 1
  OBVIOUS
<1>5. Len(w) <= k + 1 /\ Len(w) > 0
  BY <1>2 DEF Shrunk
<1>6. \A j \in 1..k + 1 : p[j] # Blank
  BY <1>4 DEF Shrunk
<1>7. ASSUME c # Percent, NEW j \in 1..k + 1, p[j] = Percent PROVE Len(w) < k + 1
  <2>1. j \in 1..k
    BY <1>4, <1>7
  <2>2. Len(v) < k
    BY <1>7, <2>1 DEF Shrunk
  <2>. QED BY <1>2, <2>2
<1>8. c # Percent => Shrunk(p, k + 1, w)
  BY <1>3, <1>5, <1>6, <1>7 DEF Shrunk
<1>. QED BY <1>8 DEF w

LEMMA PairShrinks ==
    ASSUME NEW p, NEW k \in Nat, NEW v, Shrunk(p, k, v), p[k + 1] = Percent, p[k + 2] = Percent
    PROVE  Shrunk(p, k + 2, Append(v, Percent))
<1>. DEFINE w == Append(v, Percent)
<1>1. v \in Seq(Signs) /\ Percent \in Signs
  BY DEF Shrunk, Phrase, Signs
<1>2. w \in Seq(Signs) /\ Len(w) = Len(v) + 1 /\ Len(v) \in Nat
  BY <1>1, AppendProperties, LenProperties
<1>. HIDE DEF w
<1>3. w \in Phrase
  BY <1>2 DEF Phrase
<1>4. \A j \in 1..k + 2 : j \in 1..k \/ j = k + 1 \/ j = k + 2
  OBVIOUS
<1>5. Len(w) < k + 2 /\ Len(w) > 0
  BY <1>2 DEF Shrunk
<1>6. \A j \in 1..k + 2 : p[j] # Blank
  BY <1>4, SignsDiffer DEF Shrunk
<1>7. Shrunk(p, k + 2, w)
  <2>1. Len(w) <= k + 2 /\ Len(w) < k + 2
    BY <1>2, <1>5
  <2>. QED BY <1>3, <1>5, <1>6, <2>1 DEF Shrunk
<1>. QED BY <1>7 DEF w

\* One character of the message more.
LEMMA RunningKept ==
    ASSUME NEW text \in Phrase, NEW s, NEW p, NEW n, IsCommand(s, p, text, n),
           NEW k \in 0..n + 1, NEW a \in FormatStates, Running(a, p, k, n)
    PROVE  Running(ReadChar(s, k + 9, a), p, k + 1, n)
<1>. DEFINE next == ReadChar(s, k + 9, a)
<1>1. n \in Nat /\ p \in Phrase /\ Len(p) = n + 2 /\ Len(s) = n + 14 /\ k \in Nat
  BY DEF IsCommand
<1>2. /\ k + 1 \in 1..n + 2 /\ (k + 1) + 8 = k + 9 /\ (k + 1) + 1 = k + 2 /\ (k + 9) + 1 = k + 10
      /\ (k + 1) + 9 = k + 10 /\ k + 9 < Len(s) /\ (k + 2) + 8 = k + 10
  BY <1>1
<1>3. s[k + 9] = p[k + 1] /\ p[k + 1] \in Signs
  <2>1. s[(k + 1) + 8] = p[k + 1]
    BY <1>2 DEF IsCommand
  <2>2. p \in Seq(Signs) /\ k + 1 \in 1..Len(p)
    BY <1>1, <1>2 DEF Phrase
  <2>3. p[k + 1] \in Signs
    BY <2>2, ElementOfSeq
  <2>. QED BY <1>2, <2>1, <2>3
<1>4. CASE Short(a, n)
  <2>1. Short(next, n)
    BY <1>1, <1>4, ShortKept
  <2>. HIDE DEF next
  <2>2. Running(next, p, k + 1, n)
    BY <2>1 DEF Running
  <2>. QED BY <2>2 DEF next
<1>5. ASSUME NEW v \in Phrase, a = Reads(Head4, v, k + 9), Shrunk(p, k + 1, v) PROVE Running(next, p, k + 1, n)
  <2>1. next = a
    <3>1. k + 9 <= a.upto
      BY <1>1, <1>5 DEF Reads
    <3>. QED BY <3>1, CharSkipped
  <2>. HIDE DEF next
  <2>2. k + 9 \in 0..(k + 1) + 8
    BY <1>1
  <2>. QED BY <1>5, <2>1, <2>2 DEF Running
<1>6. ASSUME NEW v \in Phrase, NEW u \in 0..k + 8, a = Reads(Head4, v, u), Shrunk(p, k, v)
      PROVE  Running(next, p, k + 1, n)
  <2>1. ~(k + 9 <= u) /\ u \in 0..(k + 1) + 8
    BY <1>1
  <2>2. v \in Phrase /\ Len(v) \in Nat /\ Len(v) <= k
    BY <1>6, LenProperties DEF Shrunk, Phrase
  <2>3. CASE p[k + 1] = Blank
    <3>1. k > 0
      <4>1. p[1] = "x" /\ "x" \in Plain
        BY DEF IsCommand, Plain
      <4>2. k # 0
        BY <2>3, <4>1, SignsDiffer
      <4>. QED BY <1>1, <4>2
    <3>2. v # <<>>
      BY <1>6, <3>1 DEF Shrunk
    <3>3. next = Reads(Append(Head4, v), <<>>, u)
      BY <1>3, <1>6, <2>1, <2>3, <3>2, BlankRead
    <3>4. Len(Append(Head4, v)) = 5 /\ Append(Head4, v)[5] = v
      <4>. DEFINE x == Append(Head4, v)
      <4>1. Len(x) = Len(Head4) + 1 /\ x[Len(Head4) + 1] = v
        BY <2>2, Head4Typed, WordBehind, Zenon
      <4>. HIDE DEF x
      <4>2. Len(x) = 5 /\ x[5] = v
        BY <4>1, Head4Typed
      <4>. QED BY <4>2 DEF x
    <3>5. next.words = Append(Head4, v)
      BY <3>3 DEF Reads
    <3>. HIDE DEF next
    <3>6. Len(next.words) >= 5 /\ Len(next.words[5]) < n + 2
      <4>1. Len(v) < n + 2
        BY <1>1, <2>2
      <4>. DEFINE w == next.words
      <4>2. Len(w) = 5 /\ w[5] = v
        BY <3>4, <3>5
      <4>. HIDE DEF w
      <4>3. Len(w) >= 5 /\ Len(w[5]) < n + 2
        BY <4>1, <4>2
      <4>. QED BY <4>3 DEF w
    <3>. QED BY <3>6 DEF Running, Short
  <2>4. CASE p[k + 1] = Percent /\ s[k + 10] = Percent
    <3>1. k + 1 < n + 2
      <4>1. p[n + 2] = "x" /\ "x" \in Plain
        BY DEF IsCommand, Plain
      <4>2. k + 1 # n + 2
        BY <2>4, <4>1, SignsDiffer
      <4>. QED BY <1>1, <4>2
    <3>2. p[k + 2] = Percent
      <4>1. k + 2 \in 1..n + 2
        BY <1>1, <3>1
      <4>2. s[(k + 2) + 8] = p[k + 2]
        BY <4>1 DEF IsCommand
      <4>. QED BY <1>2, <2>4, <4>2
    <3>3. next = Reads(Head4, Append(v, Percent), k + 10)
      BY <1>2, <1>3, <1>6, <2>1, <2>4, PairRead
    <3>4. Shrunk(p, k + 2, Append(v, Percent))
      BY <1>1, <1>6, <2>4, <3>2, PairShrinks
    <3>0. Append(v, Percent) \in Phrase
      BY <3>4 DEF Shrunk
    <3>. DEFINE w == Append(v, Percent)
    <3>. HIDE DEF next, w
    <3>5. next = Reads(Head4, w, (k + 1) + 9) /\ Shrunk(p, (k + 1) + 1, w)
      BY <1>2, <3>3, <3>4 DEF w
    <3>. QED BY <3>0, <3>1, <3>5 DEF Running, w
  <2>5. CASE p[k + 1] = Percent /\ s[k + 10] # Percent
    <3>1. next.err # "none"
      BY <1>2, <1>3, <1>6, <2>1, <2>5, ConversionRead
    <3>. HIDE DEF next
    <3>. QED BY <3>1 DEF Running, Short
  <2>6. CASE p[k + 1] # Blank /\ p[k + 1] # Percent
    <3>. DEFINE w == Append(v, p[k + 1])
    <3>1. next = Reads(Head4, w, u)
      BY <1>3, <1>6, <2>1, <2>6, LetterRead
    <3>2. Shrunk(p, k + 1, w)
      BY <1>1, <1>3, <1>6, <2>6, ShrunkGrows
    <3>. HIDE DEF next, w
    <3>3. w \in Phrase
      BY <3>2 DEF Shrunk
    <3>. QED BY <2>1, <3>1, <3>2, <3>3 DEF Running
  <2>. QED BY <2>3, <2>4, <2>5, <2>6
<1>7. CASE \E v \in Phrase, u \in 0..k + 8 : a = Reads(Head4, v, u) /\ Shrunk(p, k, v)
  BY <1>6, <1>7
<1>8. CASE \E v \in Phrase : a = Reads(Head4, v, k + 9) /\ Shrunk(p, k + 1, v)
  BY <1>5, <1>8
<1>9. \/ Short(a, n)
      \/ \E v \in Phrase, u \in 0..k + 8 : a = Reads(Head4, v, u) /\ Shrunk(p, k, v)
      \/ \E v \in Phrase : a = Reads(Head4, v, k + 9) /\ Shrunk(p, k + 1, v)
  BY DEF Running
<1>. QED BY <1>4, <1>7, <1>8, <1>9

\* Any other text is not stored as it was sent.
LEMMA ShortAtEnd ==
    ASSUME NEW text \in Phrase, NEW s, NEW p, NEW n, IsCommand(s, p, text, n),
           NEW f, Readings(f, s), ~OneWord(text)
    PROVE  Short(f[n + 14], n)
<1>1. n \in Nat /\ Len(s) = n + 14 /\ Len(text) = n
  BY DEF IsCommand
<1>2. ASSUME NEW i \in 0..n + 14 PROVE f[i] \in FormatStates
  BY <1>1 DEF Readings
<1>. DEFINE S == {k \in 0..n + 2 : Running(f[k + 8], p, k, n)}
<1>3. 0..n + 2 \subseteq S
  <2>1. 0 \in S
    <3>1. Shrunk(p, 0, <<>>)
      <4>. DEFINE e == <<>>
      <4>1. e \in Phrase /\ Len(e) = 0
        BY DEF Phrase
      <4>. HIDE DEF e
      <4>2. Shrunk(p, 0, e)
        BY <4>1 DEF Shrunk
      <4>. QED BY <4>2 DEF e
    <3>2. f[8] = Reads(Head4, <<>>, 0)
      BY HeadRead
    <3>3. <<>> \in Phrase /\ 0 + 8 = 8 /\ 0 \in 0..0 + 8 /\ 0 \in 0..n + 2
      BY <1>1 DEF Phrase
    <3>4. Running(f[0 + 8], p, 0, n)
      BY <3>1, <3>2, <3>3 DEF Running
    <3>. QED BY <3>3, <3>4
  <2>2. ASSUME NEW k \in 0..(n + 2) - 1, k \in S PROVE k + 1 \in S
    <3>1. /\ k \in 0..n + 1 /\ k + 1 \in 0..n + 2 /\ k + 8 \in 0..n + 14
          /\ k + 9 \in 1..Len(s) /\ (k + 9) - 1 = k + 8 /\ (k + 1) + 8 = k + 9
      BY <1>1
    <3>2. f[k + 9] = ReadChar(s, k + 9, f[k + 8])
      BY <3>1 DEF Readings
    <3>3. f[k + 8] \in FormatStates
      BY <1>2, <3>1
    <3>4. Running(f[k + 8], p, k, n)
      BY <2>2
    <3>5. Running(f[k + 9], p, k + 1, n)
      BY <3>1, <3>2, <3>3, <3>4, RunningKept
    <3>. QED BY <3>1, <3>5
  <2>3. n + 2 \in Nat
    BY <1>1
  <2>. HIDE DEF S
  <2>. QED BY <2>1, <2>2, <2>3, UpTo
<1>4. Running(f[n + 10], p, n + 2, n)
  <2>1. n + 2 \in S /\ (n + 2) + 8 = n + 10
    BY <1>1, <1>3
  <2>. QED BY <2>1
<1>5. /\ n + 11 \in 1..Len(s) /\ (n + 11) - 1 = n + 10 /\ n + 12 \in 1..Len(s) /\ (n + 12) - 1 = n + 11
      /\ n + 13 \in 1..Len(s) /\ (n + 13) - 1 = n + 12 /\ n + 14 \in 1..Len(s) /\ (n + 14) - 1 = n + 13
      /\ n + 10 \in 0..n + 14 /\ n + 11 \in 0..n + 14 /\ n + 12 \in 0..n + 14 /\ n + 13 \in 0..n + 14
  BY <1>1
<1>6. /\ f[n + 11] = ReadChar(s, n + 11, f[n + 10]) /\ f[n + 12] = ReadChar(s, n + 12, f[n + 11])
      /\ f[n + 13] = ReadChar(s, n + 13, f[n + 12]) /\ f[n + 14] = ReadChar(s, n + 14, f[n + 13])
  BY <1>5 DEF Readings
<1>7. f[n + 10] \in FormatStates /\ f[n + 11] \in FormatStates /\ f[n + 12] \in FormatStates /\ f[n + 13] \in FormatStates
  BY <1>2, <1>5
<1>8. Short(f[n + 11], n)
  <2>1. CASE Short(f[n + 10], n)
    BY <1>1, <1>6, <1>7, <2>1, ShortKept
  <2>2. ASSUME NEW v \in Phrase, NEW u \in 0..(n + 2) + 8,
               f[n + 10] = Reads(Head4, v, u), Shrunk(p, n + 2, v)
        PROVE  Short(f[n + 11], n)
    <3>1. PICK j \in 1..n : text[j] = Blank \/ text[j] = Percent
      <4>1. DOMAIN text = 1..n
        BY <1>1, LenProperties DEF Phrase
      <4>. QED BY <4>1 DEF OneWord
    <3>2. p[j + 1] = text[j] /\ j + 1 \in 1..n + 2
      BY <1>1, <3>1 DEF IsCommand
    <3>3. Len(v) < n + 2 /\ Len(v) > 0
      <4>1. p[j + 1] = Percent
        BY <2>2, <3>1, <3>2 DEF Shrunk
      <4>2. n + 2 > 0
        BY <1>1
      <4>. QED BY <2>2, <3>2, <4>1, <4>2 DEF Shrunk
    <3>4. v # <<>> /\ ~(n + 11 <= u) /\ s[n + 11] = Blank
      BY <1>1, <3>3 DEF IsCommand, Around
    <3>5. f[n + 11] = Reads(Append(Head4, v), <<>>, u)
      BY <1>6, <2>2, <3>4, BlankRead
    <3>. DEFINE x == Append(Head4, v)
                a == f[n + 11]
    <3>6. a.words = x /\ a.err = "none"
      BY <3>5 DEF Reads
    <3>7. Len(x) = Len(Head4) + 1 /\ x[Len(Head4) + 1] = v
      BY Head4Typed, WordBehind, Zenon
    <3>. HIDE DEF x, a
    <3>8. Len(x) >= 5 /\ x[5] = v
      BY <3>7, Head4Typed
    <3>9. Short(a, n)
      BY <3>3, <3>6, <3>8 DEF Short
    <3>. QED BY <3>9 DEF a
  <2>3. ~(n + 2 < n + 2)
    BY <1>1
  <2>4. \/ Short(f[n + 10], n)
        \/ \E v \in Phrase, u \in 0..(n + 2) + 8 :
             f[n + 10] = Reads(Head4, v, u) /\ Shrunk(p, n + 2, v)
    BY <1>4, <2>3 DEF Running
  <2>. QED BY <2>1, <2>2, <2>4
<1>9. Short(f[n + 12], n)
  BY <1>1, <1>6, <1>7, <1>8, ShortKept
<1>10. Short(f[n + 13], n)
  BY <1>1, <1>6, <1>7, <1>9, ShortKept
<1>. QED BY <1>1, <1>6, <1>7, <1>10, ShortKept

\* Any other text is not.
LEMMA StoredOtherwise ==
    ASSUME NEW text \in Phrase, ~OneWord(text)
    PROVE  ~(Xadd(text).accepted /\ Xadd(text).payload = Payload(text))
<1>. DEFINE s == XaddCommand(text)
            p == Payload(text)
            n == Len(text)
<1>1. IsCommand(s, p, text, n)
  BY CommandIs
<1>2. Xadd(text) = Made(s)
  BY DEF Xadd, Made
<1>. HIDE DEF s, p, n
<1>3. n \in Nat /\ Len(s) = n + 14 /\ s \in Phrase /\ Len(p) = n + 2
  BY <1>1 DEF IsCommand
<1>4. PICK f : Readings(f, s) /\ Format(s) = Formatted(f[Len(s)])
  BY <1>3, FormatIs
<1>. DEFINE a == f[n + 14]
            w == Formatted(a).words
<1>5. a \in FormatStates /\ Short(a, n)
  <2>1. n + 14 \in 0..Len(s)
    BY <1>3
  <2>. QED BY <1>1, <1>4, <2>1, ShortAtEnd DEF Readings
<1>6. Format(s) = Formatted(a)
  BY <1>3, <1>4
<1>. HIDE DEF a
<1>7. CASE a.err # "none"
  <2>1. Format(s).err # "none"
    BY <1>6, <1>7 DEF Formatted
  <2>. DEFINE paired == Len(SubSeq(Format(s).words, 4, Len(Format(s).words))) % 2 = 0
  <2>2. Made(s).accepted = (Format(s).err = "none" /\ paired)
    BY DEF Made
  <2>. HIDE DEF paired
  <2>3. ~Made(s).accepted
    BY <2>1, <2>2
  <2>. QED BY <1>2, <2>3
<1>8. CASE a.err = "none"
  <2>1. Len(a.words) >= 5 /\ Len(a.words[5]) < n + 2
    BY <1>5, <1>8 DEF Short
  <2>2. a.words \in Seq(Phrase) /\ a.word \in Phrase
    BY <1>5 DEF FormatStates
  <2>3. Len(Append(a.words, a.word)) >= 5 /\ Len(Append(a.words, a.word)[5]) < n + 2
    BY <1>3, <1>5, <2>1, <2>2, ShortBehind
  <2>4. Append(a.words, a.word) \in Seq(Phrase)
    BY <2>2, WordBehind, Zenon
  <2>5. w = a.words \/ w = Append(a.words, a.word)
    BY DEF Formatted
  <2>. HIDE DEF w
  <2>6. w \in Seq(Phrase) /\ Len(w) >= 5 /\ Len(w[5]) < n + 2
    <3>1. CASE w = a.words
      BY <2>1, <2>2, <3>1
    <3>2. CASE w = Append(a.words, a.word)
      BY <2>3, <2>4, <3>2
    <3>. QED BY <2>5, <3>1, <3>2
  <2>7. SubSeq(w, 4, Len(w))[2] = w[5]
    <3>1. Len(w) \in Nat
      BY <2>6, LenProperties
    <3>. QED BY <2>6, <3>1, FifthWord
  <2>8. Made(s).payload = SubSeq(w, 4, Len(w))[2]
    BY <1>6 DEF Made, w
  <2>. DEFINE q == Made(s).payload
  <2>. HIDE DEF q
  <2>9. q = w[5]
    BY <2>7, <2>8 DEF q
  <2>10. q # p
    <3>1. Len(w[5]) # n + 2
      <4>1. w[5] \in Phrase
        <5>1. Len(w) \in Nat /\ 5 \in 1..Len(w)
          BY <2>6, LenProperties
        <5>. QED BY <2>6, <5>1, ElementOfSeq
      <4>. DEFINE l == Len(w[5])
      <4>2. l \in Nat /\ l < n + 2
        BY <2>6, <4>1, LenProperties DEF Phrase
      <4>. HIDE DEF l
      <4>3. l # n + 2
        BY <1>3, <4>2
      <4>. QED BY <4>3 DEF l
    <3>. QED BY <1>3, <2>9, <3>1
  <2>. QED BY <1>2, <2>10 DEF q, p
<1>. QED BY <1>7, <1>8

\* A message is stored as it was sent exactly when its text is one word
\* without a percent sign, whatever the text: the words redisvFormatCommand
\* makes of the command of ApiSaveMessage.
THEOREM TextsStored == CodecsSpec => []StoredAsSent
<1>1. Results => StoredAsSent
  <2>. DEFINE text == job.input
              stored == out.value.accepted /\ out.value.payload = Payload(text)
  <2>. SUFFICES ASSUME Results, Computed("Xadd")
                PROVE  stored <=> ~Contains(text, Blank) /\ ~Contains(text, Percent)
    BY DEF StoredAsSent
  <2>1. out.value = Xadd(text)
    BY DEF Results
  <2>2. text \in Phrase
    <3>1. text \in Seq(STRING)
      BY InputsTyped DEF Results, Computed
    <3>2. STRING \subseteq Signs
      BY DEF Signs
    <3>. QED BY <3>1, <3>2, SeqMonotonic DEF Phrase
  <2>. HIDE DEF text
  <2>3. OneWord(text) <=> ~Contains(text, Blank) /\ ~Contains(text, Percent)
    <3>1. DOMAIN text = 1..Len(text)
      BY <2>2, LenProperties DEF Phrase
    <3>. QED BY <3>1 DEF Contains, OneWord
  <2>4. OneWord(text) => stored
    BY <2>1, <2>2, StoredWhole
  <2>5. ~OneWord(text) => ~stored
    BY <2>1, <2>2, StoredOtherwise
  <2>. QED BY <2>3, <2>4, <2>5
<1>. QED BY <1>1, Computations, PTL

-----------------------------------------------------------------------------
(* The configuration file.                                                 *)

\* Min is the least of a set of natural numbers.
LEMMA LeastIs ==
    ASSUME NEW T \in SUBSET Nat, T # {}
    PROVE  Min(T) \in T /\ \A y \in T : Min(T) <= y
<1>1. \E x \in T : \A y \in T : x <= y
  BY LeastElement
<1>. QED BY <1>1 DEF Min

\* w is u and then v.
Joint(S, w, u, v) ==
    /\ w \in Seq(S) /\ Len(w) = Len(u) + Len(v) /\ Len(u) \in Nat /\ Len(v) \in Nat
    /\ \A i \in 1..Len(u) : w[i] = u[i]
    /\ \A i \in 1..Len(v) : w[Len(u) + i] = v[i]

LEMMA Joints == ASSUME NEW S, NEW u \in Seq(S), NEW v \in Seq(S) PROVE Joint(S, u \o v, u, v)
<1>1. u \o v \in Seq(S) /\ Len(u \o v) = Len(u) + Len(v)
  BY ConcatIs
<1>2. Len(u) \in Nat /\ Len(v) \in Nat
  BY LenProperties
<1>3. \A i \in 1..Len(u) : (u \o v)[i] = u[i]
  BY ConcatIs
<1>4. \A i \in 1..Len(v) : (u \o v)[Len(u) + i] = v[i]
  BY ConcatIs
<1>. QED BY <1>1, <1>2, <1>3, <1>4, Zenon DEF Joint

Marks == STRING \cup {LineEnd, Hash, Equals, Blank}
FileText == Seq(Marks)

\* None of the characters is c.
Avoids(s, c) == \A i \in 1..Len(s) : s[i] # c

\* A text without the character is not cut.
LEMMA NotCut ==
    ASSUME NEW s, NEW c, Avoids(s, c)
    PROVE  ~Contains(s, c) /\ Before(s, c) = s
BY DEF Avoids, Contains, Before

\* A text is cut at the first of the characters.
LEMMA FirstCut ==
    ASSUME NEW S, NEW s \in Seq(S), NEW c \in S, Avoids(s, c), NEW t \in Seq(S)
    PROVE  /\ s \o (<<c>> \o t) \in Seq(S)
           /\ Contains(s \o (<<c>> \o t), c)
           /\ Before(s \o (<<c>> \o t), c) = s
           /\ After(s \o (<<c>> \o t), c) = t
<1>. DEFINE d == <<c>>
            e == d \o t
            w == s \o e
            u == s \o d
            l == Len(s)
<1>1. d \in Seq(S) /\ Len(d) = 1 /\ d[1] = c
  BY Singleton
<1>. HIDE DEF d
<1>a. Joint(S, e, d, t) /\ Joint(S, u, s, d)
  BY <1>1, Joints
<1>4. w = u \o t
  BY <1>1, ConcatAssociative
<1>. HIDE DEF e
<1>2. e \in Seq(S) /\ Len(e) = 1 + Len(t) /\ Len(t) \in Nat /\ e[1] = c
  BY <1>1, <1>a DEF Joint
<1>b. Joint(S, w, s, e)
  BY <1>2, Joints
<1>. HIDE DEF w, u
<1>3. u \in Seq(S) /\ Len(u) = l + 1 /\ l \in Nat
  BY <1>1, <1>a DEF Joint
<1>5. /\ w \in Seq(S) /\ Len(w) = l + Len(e) /\ \A i \in 1..l : w[i] = s[i]
      /\ \A i \in 1..Len(e) : w[l + i] = e[i]
  BY <1>b DEF Joint
<1>6. SubSeq(w, l + 1 + 1, Len(w)) = t
  <2>1. SubSeq(u \o t, Len(u) + 1, Len(u \o t)) = t
    BY <1>3, EndOf
  <2>. QED BY <1>3, <1>4, <2>1
<1>7. SubSeq(w, 1, l) = s
  <2>1. 1 \in 1..l + 1 /\ l \in 0..l
    BY <1>3
  <2>2. SubSeq(s \o e, 1, l) = SubSeq(s, 1, l)
    BY <1>2, <2>1, PartOf
  <2>3. SubSeq(s, 1, l) = s
    BY LenProperties
  <2>. QED BY <2>2, <2>3 DEF w
<1>8. w[l + 1] = c /\ l + 1 \in 1..Len(w) /\ Len(w) \in Nat
  BY <1>2, <1>3, <1>5
<1>. DEFINE T == {i \in DOMAIN w : w[i] = c}
<1>9. T \in SUBSET Nat /\ l + 1 \in T /\ \A i \in T : i > l
  <2>1. DOMAIN w = 1..Len(w)
    BY <1>5, LenProperties
  <2>2. \A i \in 1..l : w[i] # c
    BY <1>5 DEF Avoids
  <2>. QED BY <1>3, <1>8, <2>1, <2>2
<1>10. FirstPlace(w, c) = Min(T)
  BY DEF FirstPlace
<1>. HIDE DEF T
<1>11. FirstPlace(w, c) = l + 1
  <2>1. Min(T) \in T /\ Min(T) <= l + 1
    BY <1>9, LeastIs
  <2>2. Min(T) \in Nat /\ Min(T) > l
    BY <1>9, <2>1
  <2>. QED BY <1>3, <1>10, <2>1, <2>2
<1>12. Contains(w, c)
  BY <1>8 DEF Contains
<1>13. Before(w, c) = s
  <2>1. (l + 1) - 1 = l
    BY <1>3
  <2>. QED BY <1>7, <1>11, <1>12, <2>1 DEF Before
<1>14. After(w, c) = t
  BY <1>6, <1>11 DEF After
<1>. QED BY <1>5, <1>12, <1>13, <1>14 DEF w, e, d

\* fgets takes a whole line that fits the buffer.
LEMMA LineTaken ==
    ASSUME NEW body \in FileText, Avoids(body, LineEnd), Len(body) + 1 < LineSize,
           NEW rest \in FileText
    PROVE  LET line == body \o <<LineEnd>>
           IN  /\ line \in FileText /\ Len(line) \in Nat \ {0} /\ line \o rest \in FileText
               /\ line \o rest # <<>>
               /\ Gets(line \o rest) = line
               /\ SubSeq(line \o rest, Len(line) + 1, Len(line \o rest)) = rest
<1>. DEFINE d == <<LineEnd>>
            line == body \o d
            w == line \o rest
            l == Len(body)
<1>0. /\ body \in Seq(Marks) /\ rest \in Seq(Marks) /\ LineSize \in Nat
  BY SizesAssumption DEF FileText
<1>1. d \in Seq(Marks) /\ Len(d) = 1 /\ d[1] = LineEnd
  <2>1. LineEnd \in Marks
    BY DEF Marks
  <2>. QED BY <2>1, Singleton
<1>. HIDE DEF d
<1>a. Joint(Marks, line, body, d)
  BY <1>0, <1>1, Joints
<1>. HIDE DEF line
<1>2. /\ line \in Seq(Marks) /\ Len(line) = l + 1 /\ l \in Nat
      /\ \A i \in 1..l : line[i] = body[i]
      /\ line[l + 1] = LineEnd
  BY <1>1, <1>a DEF Joint
<1>b. Joint(Marks, w, line, rest)
  BY <1>0, <1>2, Joints
<1>. HIDE DEF w
<1>3. /\ w \in Seq(Marks) /\ Len(w) = l + 1 + Len(rest) /\ Len(rest) \in Nat
      /\ \A i \in 1..l + 1 : w[i] = line[i]
  BY <1>2, <1>b DEF Joint
<1>4. SubSeq(w, Len(line) + 1, Len(w)) = rest
  BY <1>0, <1>2, EndOf DEF w
<1>5. SubSeq(w, 1, l + 1) = line
  <2>1. 1 \in 1..Len(line) + 1 /\ l + 1 \in 0..Len(line)
    BY <1>2
  <2>2. SubSeq(line \o rest, 1, l + 1) = SubSeq(line, 1, l + 1)
    BY <1>0, <1>2, <2>1, PartOf
  <2>3. SubSeq(line, 1, l + 1) = line
    BY <1>2, LenProperties
  <2>. QED BY <2>2, <2>3 DEF w
<1>. DEFINE T == {i \in DOMAIN w : w[i] = LineEnd} \cup {Len(w), LineSize - 1}
<1>6. DOMAIN w = 1..Len(w) /\ l + 1 \in 1..Len(w) /\ w[l + 1] = LineEnd
      /\ \A i \in 1..l : w[i] # LineEnd
  BY <1>2, <1>3, LenProperties DEF Avoids
<1>7. T \in SUBSET Nat /\ l + 1 \in T /\ \A i \in T : i >= l + 1
  BY <1>0, <1>2, <1>3, <1>6
<1>8. Gets(w) = SubSeq(w, 1, Min(T))
  BY DEF Gets
<1>. HIDE DEF T
<1>9. Min(T) = l + 1
  <2>1. Min(T) \in T /\ Min(T) <= l + 1
    BY <1>7, LeastIs
  <2>2. Min(T) \in Nat /\ Min(T) >= l + 1
    BY <1>7, <2>1
  <2>. QED BY <1>2, <2>1, <2>2
<1>10. Gets(w) = line
  BY <1>5, <1>8, <1>9
<1>11. w # <<>>
  BY <1>2, <1>3
<1>12. Len(line) \in Nat \ {0}
  BY <1>2
<1>. QED BY <1>2, <1>3, <1>4, <1>10, <1>11, <1>12 DEF w, line, d, FileText

\* A line that fits the reader's buffer, with its end.
WholeLines ==
    {line \in FileText : \E body \in FileText :
        line = body \o <<LineEnd>> /\ Avoids(body, LineEnd) /\ Len(body) + 1 < LineSize}

\* A turn of the loop takes the next line.
LEMMA NextLineRead ==
    ASSUME NEW line \in WholeLines, NEW rest \in FileText, NEW a, a.rest = line \o rest
    PROVE  ReadLine(a) = [lines |-> Append(a.lines, line), rest |-> rest]
<1>1. PICK body \in FileText :
        line = body \o <<LineEnd>> /\ Avoids(body, LineEnd) /\ Len(body) + 1 < LineSize
  BY DEF WholeLines
<1>. DEFINE w == line \o rest
<1>2. w # <<>> /\ Gets(w) = line /\ SubSeq(w, Len(line) + 1, Len(w)) = rest
  BY <1>1, LineTaken
<1>. HIDE DEF w
<1>3. a.rest = w
  BY DEF w
<1>. QED BY <1>2, <1>3 DEF ReadLine

LEMMA NothingMoreRead == ASSUME NEW a, a.rest = <<>> PROVE ReadLine(a) = a
BY DEF ReadLine

\* The function by which LinesOf reads n times.
ReadsLines(file, n, g) ==
    g = [i \in 0..n |-> IF i = 0 THEN [lines |-> <<>>, rest |-> file] ELSE ReadLine(g[i - 1])]

LEMMA LinesExist == ASSUME NEW file, NEW len \in Nat PROVE \E g : ReadsLines(file, len, g)
<1>. DEFINE first == [lines |-> <<>>, rest |-> file]
            S == {n \in Nat : \E g : ReadsLines(file, n, g)}
<1>0. \A n, g : ReadsLines(file, n, g)
                  <=> g = [i \in 0..n |-> IF i = 0 THEN first ELSE ReadLine(g[i - 1])]
  BY Zenon DEF ReadsLines
<1>. HIDE DEF first
<1>1. 0 \in S
  <2>. DEFINE g == [i \in 0..0 |-> first]
  <2>1. g = [i \in 0..0 |-> IF i = 0 THEN first ELSE ReadLine(g[i - 1])]
    OBVIOUS
  <2>. HIDE DEF g
  <2>2. ReadsLines(file, 0, g)
    BY <1>0, <2>1
  <2>. QED BY <2>2
<1>2. ASSUME NEW n \in Nat, n \in S PROVE n + 1 \in S
  <2>1. PICK g : ReadsLines(file, n, g)
    BY <1>2
  <2>. DEFINE h == [i \in 0..n + 1 |-> IF i <= n THEN g[i] ELSE ReadLine(g[n])]
  <2>2. g = [i \in 0..n |-> IF i = 0 THEN first ELSE ReadLine(g[i - 1])]
    BY <1>0, <2>1
  <2>3. \A i \in 0..n : g[i] = IF i = 0 THEN first ELSE ReadLine(g[i - 1])
    BY <2>2
  <2>4. ASSUME NEW i \in 0..n + 1 PROVE h[i] = IF i = 0 THEN first ELSE ReadLine(h[i - 1])
    <3>1. CASE i = 0
      BY <2>3, <3>1
    <3>2. CASE i # 0 /\ i <= n
      <4>1. i \in 0..n /\ i - 1 \in 0..n
        BY <3>2
      <4>2. h[i] = g[i] /\ h[i - 1] = g[i - 1]
        BY <4>1
      <4>. QED BY <2>3, <3>2, <4>1, <4>2
    <3>3. CASE i = n + 1
      <4>1. h[i] = ReadLine(g[n]) /\ h[i - 1] = g[n] /\ i # 0
        BY <3>3
      <4>. QED BY <4>1
    <3>. QED BY <3>1, <3>2, <3>3
  <2>5. h = [i \in 0..n + 1 |-> h[i]]
    OBVIOUS
  <2>. HIDE DEF h
  <2>6. h = [i \in 0..n + 1 |-> IF i = 0 THEN first ELSE ReadLine(h[i - 1])]
    BY <2>4, <2>5, Zenon
  <2>7. ReadsLines(file, n + 1, h)
    BY <1>0, <2>6
  <2>. QED BY <2>7
<1>3. Nat \subseteq S
  <2>. HIDE DEF S
  <2>. QED BY <1>1, <1>2, SetInduction
<1>. QED BY <1>3

LEMMA LinesSteps ==
    ASSUME NEW file, Len(file) \in Nat
    PROVE  \E g : /\ g[0] = [lines |-> <<>>, rest |-> file]
                  /\ \A i \in 0..Len(file) - 1 : g[i + 1] = ReadLine(g[i])
                  /\ LinesOf(file) = g[Len(file)].lines
<1>. DEFINE n == Len(file)
            first == [lines |-> <<>>, rest |-> file]
            g == CHOOSE f : ReadsLines(file, n, f)
<1>1. ReadsLines(file, n, g)
  <2>1. \E f : ReadsLines(file, n, f)
    BY LinesExist
  <2>. QED BY <2>1, Zenon
<1>2. LinesOf(file) = g[n].lines
  BY Zenon DEF LinesOf, ReadsLines
<1>. HIDE DEF g
<1>3. g = [i \in 0..n |-> IF i = 0 THEN first ELSE ReadLine(g[i - 1])]
  BY <1>1, Zenon DEF ReadsLines
<1>. HIDE DEF first
<1>4. g[0] = first
  BY <1>3
<1>5. ASSUME NEW i \in 0..n - 1 PROVE g[i + 1] = ReadLine(g[i])
  <2>1. i + 1 \in 0..n /\ i + 1 # 0 /\ (i + 1) - 1 = i
    OBVIOUS
  <2>2. g[i + 1] = ReadLine(g[(i + 1) - 1])
    BY <1>3, <2>1
  <2>. QED BY <2>1, <2>2
<1>. QED BY <1>2, <1>4, <1>5 DEF first

\* Every line makes the file longer.
LEMMA LinesCounted ==
    ASSUME NEW lines \in Seq(WholeLines)
    PROVE  /\ lines \in Seq(FileText) /\ FlattenSeq(lines) \in FileText
           /\ Len(FlattenSeq(lines)) \in Nat /\ Len(FlattenSeq(lines)) >= Len(lines)
<1>0. WholeLines \subseteq FileText
  BY DEF WholeLines
<1>1. \A q \in Seq(WholeLines) : q \in Seq(FileText)
  BY <1>0, SeqMonotonic
<1>2. \A q \in Seq(WholeLines) : FlattenSeq(q) \in FileText
  BY <1>1, FlattenLast DEF FileText
<1>. DEFINE T == {n \in Nat : \A q \in Seq(WholeLines) : Len(q) = n => Len(FlattenSeq(q)) >= n}
<1>3. 0 \in T
  <2>1. \A q \in Seq(WholeLines) : Len(FlattenSeq(q)) \in Nat
    BY <1>2, LenProperties DEF FileText
  <2>. QED BY <2>1
<1>4. ASSUME NEW n \in Nat, n \in T PROVE n + 1 \in T
  <2>1. ASSUME NEW q \in Seq(WholeLines), Len(q) = n + 1 PROVE Len(FlattenSeq(q)) >= n + 1
    <3>1. PICK p \in Seq(WholeLines), e \in WholeLines : q = Append(p, e)
      <4>1. q # <<>>
        BY <2>1, EmptySeq
      <4>. QED BY <4>1, SequenceEmptyOrAppend
    <3>2. Len(p) = n
      BY <2>1, <3>1, AppendProperties, LenProperties
    <3>. DEFINE w == FlattenSeq(p)
    <3>3. w \in Seq(Marks) /\ e \in Seq(Marks)
      BY <1>0, <1>2 DEF FileText
    <3>4. FlattenSeq(q) = w \o e
      BY <1>1, <3>1, <3>3, FlattenLast DEF FileText
    <3>5. Len(e) \in Nat \ {0}
      <4>1. PICK body \in FileText :
              e = body \o <<LineEnd>> /\ Avoids(body, LineEnd) /\ Len(body) + 1 < LineSize
        BY DEF WholeLines
      <4>2. <<>> \in FileText
        BY DEF FileText
      <4>. QED BY <4>1, <4>2, LineTaken
    <3>6. Len(w) >= n
      BY <1>4, <3>2
    <3>. HIDE DEF w
    <3>7. Len(w \o e) = Len(w) + Len(e) /\ Len(w) \in Nat
      BY <3>3, ConcatProperties, LenProperties
    <3>. QED BY <3>4, <3>5, <3>6, <3>7
  <2>. QED BY <2>1
<1>5. Nat \subseteq T
  <2>. HIDE DEF T
  <2>. QED BY <1>3, <1>4, SetInduction
<1>6. Len(lines) \in Nat
  BY LenProperties
<1>7. Len(FlattenSeq(lines)) >= Len(lines)
  BY <1>5, <1>6
<1>. QED BY <1>1, <1>2, <1>7, LenProperties DEF FileText

\* The reader after k lines.
Remaining(lines, k) == FlattenSeq(SubSeq(lines, k + 1, Len(lines)))
HasRead(a, lines, k) ==
    /\ a.lines \in Seq(WholeLines) /\ Len(a.lines) = k
    /\ \A i \in 1..k : a.lines[i] = lines[i]
    /\ a.rest = Remaining(lines, k)

LEMMA RemainingSteps ==
    ASSUME NEW lines \in Seq(WholeLines)
    PROVE  /\ Remaining(lines, 0) = FlattenSeq(lines)
           /\ Remaining(lines, Len(lines)) = <<>>
           /\ \A k \in 0..Len(lines) - 1 :
                /\ lines[k + 1] \in WholeLines /\ Remaining(lines, k + 1) \in FileText
                /\ Remaining(lines, k) = lines[k + 1] \o Remaining(lines, k + 1)
<1>. DEFINE n == Len(lines)
<1>1. n \in Nat /\ SubSeq(lines, 1, n) = lines
      /\ \A k \in 1..n : lines[k] \in WholeLines
  BY LenProperties, ElementOfSeq
<1>2. Remaining(lines, 0) = FlattenSeq(lines)
  <2>1. \A k : k = 1 => SubSeq(lines, k, n) = lines
    BY <1>1
  <2>2. SubSeq(lines, 0 + 1, n) = lines
    BY <2>1
  <2>. QED BY <2>2 DEF Remaining
<1>3. Remaining(lines, n) = <<>>
  <2>1. SubSeq(lines, n + 1, n) = <<>>
    BY <1>1
  <2>2. FlattenSeq(<<>>) = <<>>
    BY DEF FlattenSeq
  <2>. QED BY <2>1, <2>2 DEF Remaining
<1>4. ASSUME NEW k \in 0..n - 1
      PROVE  /\ lines[k + 1] \in WholeLines /\ Remaining(lines, k + 1) \in FileText
             /\ Remaining(lines, k) = lines[k + 1] \o Remaining(lines, k + 1)
  <2>. DEFINE e == lines[k + 1]
              q == SubSeq(lines, (k + 1) + 1, n)
  <2>1. k + 1 \in 1..n /\ k + 1 \in 0..n /\ (k + 1) + 1 = k + 2
    BY <1>1
  <2>2. e \in WholeLines /\ q \in Seq(WholeLines)
    BY <1>1, <2>1, CutInTwo
  <2>3. SubSeq(lines, k + 1, n) = <<e>> \o q
    BY <2>1, NextOfRest
  <2>. HIDE DEF e, q
  <2>4. q \in Seq(FileText) /\ FlattenSeq(q) \in FileText /\ e \in FileText
    BY <2>2, LinesCounted DEF WholeLines
  <2>5. FlattenSeq(<<e>> \o q) = e \o FlattenSeq(q)
    BY <2>4, FlattenFirst DEF FileText
  <2>6. Remaining(lines, k + 1) = FlattenSeq(q)
    BY DEF Remaining, q
  <2>7. Remaining(lines, k) = FlattenSeq(<<e>> \o q)
    BY <2>3 DEF Remaining
  <2>. QED BY <2>2, <2>4, <2>5, <2>6, <2>7 DEF e
<1>. QED BY <1>2, <1>3, <1>4

\* A file is read line by line.
LEMMA LinesRead ==
    ASSUME NEW lines \in Seq(WholeLines)
    PROVE  LinesOf(FlattenSeq(lines)) = lines
<1>. DEFINE n == Len(lines)
            file == FlattenSeq(lines)
            m == Len(file)
<1>1. n \in Nat /\ m \in Nat /\ m >= n
  BY LinesCounted, LenProperties
<1>2. PICK g : /\ g[0] = [lines |-> <<>>, rest |-> file]
               /\ \A i \in 0..m - 1 : g[i + 1] = ReadLine(g[i])
               /\ LinesOf(file) = g[m].lines
  BY <1>1, LinesSteps
<1>. DEFINE S == {i \in 0..n : HasRead(g[i], lines, i)}
<1>3. 0 \in S
  <2>1. g[0].lines = <<>> /\ g[0].rest = file /\ <<>> \in Seq(WholeLines)
    BY <1>2
  <2>2. file = Remaining(lines, 0)
    BY RemainingSteps
  <2>3. HasRead(g[0], lines, 0)
    BY <2>1, <2>2 DEF HasRead
  <2>. QED BY <1>1, <2>3
<1>. HIDE DEF file, m
<1>4. ASSUME NEW i \in 0..n - 1, i \in S PROVE i + 1 \in S
  <2>. DEFINE a == g[i].lines
              new == Append(a, lines[i + 1])
  <2>1. /\ a \in Seq(WholeLines) /\ Len(a) = i /\ \A j \in 1..i : a[j] = lines[j]
        /\ g[i].rest = Remaining(lines, i)
    BY <1>4 DEF HasRead
  <2>2. /\ lines[i + 1] \in WholeLines /\ Remaining(lines, i + 1) \in FileText
        /\ Remaining(lines, i) = lines[i + 1] \o Remaining(lines, i + 1)
    BY RemainingSteps
  <2>3. ReadLine(g[i]) = [lines |-> new, rest |-> Remaining(lines, i + 1)]
    <3>. DEFINE line == lines[i + 1]
                rest == Remaining(lines, i + 1)
    <3>1. line \in WholeLines /\ rest \in FileText /\ g[i].rest = line \o rest
      BY <2>1, <2>2
    <3>. HIDE DEF line, rest
    <3>2. ReadLine(g[i]) = [lines |-> Append(g[i].lines, line), rest |-> rest]
      BY <3>1, NextLineRead, Zenon
    <3>. QED BY <3>2 DEF line, rest
  <2>4. g[i + 1] = ReadLine(g[i]) /\ i + 1 \in 0..n /\ i \in Nat
    BY <1>1, <1>2
  <2>. HIDE DEF a
  <2>5. /\ new \in Seq(WholeLines) /\ Len(new) = i + 1 /\ new[i + 1] = lines[i + 1]
        /\ \A j \in 1..i : new[j] = a[j]
    BY <2>1, <2>2, AppendProperties
  <2>. HIDE DEF new
  <2>6. \A j \in 1..i + 1 : new[j] = lines[j]
    <3>1. \A j \in 1..i + 1 : j \in 1..i \/ j = i + 1
      BY <2>4
    <3>. QED BY <2>1, <2>5, <3>1
  <2>7. g[i + 1].lines = new /\ g[i + 1].rest = Remaining(lines, i + 1)
    BY <2>3, <2>4
  <2>8. HasRead(g[i + 1], lines, i + 1)
    BY <2>5, <2>6, <2>7 DEF HasRead
  <2>. QED BY <2>4, <2>8
<1>5. HasRead(g[n], lines, n)
  <2>1. n \in 0..n
    BY <1>1
  <2>. HIDE DEF S, n
  <2>2. 0..n \subseteq S
    BY <1>1, <1>3, <1>4, UpTo
  <2>. QED BY <2>1, <2>2 DEF S, n
<1>. DEFINE T == {i \in n..m : HasRead(g[i], lines, n)}
<1>6. n <= m => n \in T
  BY <1>1, <1>5
<1>7. ASSUME NEW i \in n..m - 1, i \in T PROVE i + 1 \in T
  <2>1. g[i].rest = <<>>
    BY <1>7, RemainingSteps DEF HasRead
  <2>2. g[i + 1] = ReadLine(g[i]) /\ i + 1 \in n..m
    BY <1>1, <1>2
  <2>. QED BY <1>7, <2>1, <2>2, NothingMoreRead
<1>8. HasRead(g[m], lines, n)
  <2>1. m \in n..m /\ n \in Int /\ m \in Int
    BY <1>1
  <2>. HIDE DEF T, n
  <2>2. n..m \subseteq T
    BY <1>6, <1>7, <2>1, BoundedInduction, Zenon
  <2>. QED BY <2>1, <2>2 DEF T, n
<1>9. g[m].lines = lines
  BY <1>8, SeqEqual DEF HasRead
<1>. QED BY <1>2, <1>9 DEF file

LEMMA FreeJoint ==
    ASSUME NEW S, NEW w, NEW u, NEW v, Joint(S, w, u, v), NEW c, Avoids(u, c), Avoids(v, c)
    PROVE  Avoids(w, c)
<1>. DEFINE l == Len(u)
            m == Len(v)
<1>1. /\ Len(w) = l + m /\ l \in Nat /\ m \in Nat
      /\ \A i \in 1..l : w[i] = u[i]
      /\ \A i \in 1..m : w[l + i] = v[i]
      /\ \A i \in 1..l : u[i] # c
      /\ \A i \in 1..m : v[i] # c
  BY DEF Joint, Avoids
<1>2. ASSUME NEW i \in 1..Len(w) PROVE w[i] # c
  <2>. HIDE DEF l, m
  <2>1. CASE i <= l
    BY <1>1, <2>1
  <2>2. CASE ~(i <= l)
    <3>1. i - l \in 1..m /\ l + (i - l) = i
      BY <1>1, <2>2
    <3>2. w[l + (i - l)] = v[i - l] /\ v[i - l] # c
      BY <1>1, <3>1
    <3>. QED BY <3>1, <3>2
  <2>. QED BY <2>1, <2>2
<1>. QED BY <1>2 DEF Avoids

\* Concatenation keeps a character out.
LEMMA FreeConcat ==
    ASSUME NEW u \in FileText, NEW v \in FileText
    PROVE  /\ u \o v \in FileText
           /\ \A c : Avoids(u, c) /\ Avoids(v, c) => Avoids(u \o v, c)
<1>. DEFINE w == u \o v
<1>1. Joint(Marks, w, u, v)
  BY Joints DEF FileText
<1>. HIDE DEF w
<1>2. \A c : Avoids(u, c) /\ Avoids(v, c) => Avoids(w, c)
  BY <1>1, FreeJoint
<1>. QED BY <1>1, <1>2 DEF w, Joint, FileText

\* The blanks around a word are removed.
LEMMA Trims ==
    ASSUME NEW p \in Seq({Blank}), NEW q \in Seq({Blank}), NEW x \in FileText, Trimmed(x)
    PROVE  TrimSpace(p \o (x \o q)) = x
<1>. DEFINE e == x \o q
            w == p \o e
            l == Len(p)
            m == Len(x)
            n == Len(q)
<1>1. p \in Seq(Marks) /\ q \in Seq(Marks) /\ x \in Seq(Marks)
  <2>1. {Blank} \subseteq Marks
    BY DEF Marks
  <2>. QED BY <2>1, SeqMonotonic DEF FileText
<1>2. Joint(Marks, e, x, q)
  BY <1>1, Joints
<1>. HIDE DEF e
<1>3. e \in Seq(Marks) /\ Joint(Marks, w, p, e)
  <2>1. e \in Seq(Marks)
    BY <1>2 DEF Joint
  <2>. QED BY <1>1, <2>1, Joints
<1>. HIDE DEF w
<1>4. /\ l \in Nat /\ m \in Nat /\ n \in Nat /\ Len(e) = m + n /\ Len(w) = l + (m + n)
      /\ \A i \in 1..m : e[i] = x[i]
      /\ \A i \in 1..n : e[m + i] = q[i]
      /\ \A i \in 1..l : w[i] = p[i]
      /\ \A i \in 1..m + n : w[l + i] = e[i]
  BY <1>2, <1>3 DEF Joint
<1>5. \A i \in 1..l : p[i] = Blank
  BY ElementOfSeq
<1>6. \A i \in 1..n : q[i] = Blank
  BY ElementOfSeq
<1>. HIDE DEF l, m, n
<1>7. \A i \in 1..m : w[l + i] = x[i]
  <2>1. \A i \in 1..m : i \in 1..m + n
    BY <1>4
  <2>. QED BY <1>4, <2>1
<1>8. ASSUME NEW i \in 1..Len(w), w[i] # Blank PROVE i \in l + 1..l + m
  <2>1. CASE i <= l
    BY <1>4, <1>5, <1>8, <2>1
  <2>2. CASE i > l + m
    <3>1. i - l \in 1..m + n /\ l + (i - l) = i /\ (i - l) - m \in 1..n /\ m + ((i - l) - m) = i - l
      BY <1>4, <2>2
    <3>2. w[l + (i - l)] = e[i - l] /\ e[m + ((i - l) - m)] = q[(i - l) - m]
      BY <1>4, <3>1
    <3>. QED BY <1>6, <1>8, <3>1, <3>2
  <2>. QED BY <1>4, <2>1, <2>2
<1>. DEFINE T == {i \in DOMAIN w : w[i] # Blank}
<1>9. DOMAIN w = 1..Len(w)
  BY <1>3, LenProperties DEF Joint
<1>10. TrimSpace(w) = IF T = {} THEN <<>> ELSE SubSeq(w, Min(T), Max(T))
  BY DEF TrimSpace
<1>11. T \in SUBSET (l + 1..l + m)
  BY <1>8, <1>9
<1>12. CASE x = <<>>
  <2>1. m = 0
    BY <1>12 DEF m
  <2>2. T = {}
    BY <1>4, <1>11, <2>1
  <2>. QED BY <1>10, <1>12, <2>2 DEF w, e
<1>13. CASE x # <<>>
  <2>1. m # 0
    BY <1>13, EmptySeq DEF m
  <2>2. x[1] # Blank /\ x[m] # Blank
    BY <1>13 DEF Trimmed, m
  <2>3. 1 \in 1..m /\ m \in 1..m
    BY <1>4, <2>1
  <2>4. w[l + 1] # Blank /\ w[l + m] # Blank
    BY <1>7, <2>2, <2>3
  <2>5. l + 1 \in T /\ l + m \in T
    <3>1. l + 1 \in 1..Len(w) /\ l + m \in 1..Len(w)
      BY <1>4, <2>1
    <3>. QED BY <1>9, <2>4, <3>1
  <2>. HIDE DEF T
  <2>6. T # {} /\ T \in SUBSET Nat /\ l + 1 \in Nat /\ l + m \in Nat
    BY <1>4, <1>11, <2>5
  <2>7. Min(T) = l + 1
    <3>1. Min(T) \in T /\ Min(T) <= l + 1
      BY <2>5, <2>6, LeastIs
    <3>2. Min(T) \in l + 1..l + m
      BY <1>11, <3>1
    <3>. QED BY <1>4, <3>1, <3>2
  <2>8. Max(T) = l + m
    <3>. DEFINE largest == Max(T)
    <3>1. largest \in T /\ largest >= l + m
      BY <1>11, <2>5, <2>6, LargestIs
    <3>. HIDE DEF largest
    <3>2. largest \in l + 1..l + m
      BY <1>11, <3>1
    <3>3. largest = l + m
      BY <1>4, <3>1, <3>2
    <3>. QED BY <3>3 DEF largest
  <2>. DEFINE y == SubSeq(w, l + 1, l + m)
  <2>9. /\ y \in Seq(Marks) /\ Len(y) = m
        /\ \A i \in 1..m : y[i] = w[l + i]
    <3>1. \A i \in l + 1..l + m : w[i] \in Marks
      <4>1. \A i \in l + 1..l + m : i \in 1..Len(w)
        BY <1>4
      <4>2. w \in Seq(Marks)
        BY <1>3 DEF Joint
      <4>. QED BY <4>1, <4>2, ElementOfSeq
    <3>2. l + 1 \in Int /\ l + m \in Int
      BY <1>4
    <3>3. /\ y \in Seq(Marks)
          /\ Len(y) = (IF l + 1 <= l + m THEN (l + m) - (l + 1) + 1 ELSE 0)
          /\ \A i \in 1..(l + m) - (l + 1) + 1 : y[i] = w[(l + 1) + i - 1]
      BY <3>1, <3>2, SubSeqProperties
    <3>. HIDE DEF y
    <3>4. (l + m) - (l + 1) + 1 = m /\ l + 1 <= l + m
      BY <1>4, <2>1
    <3>5. \A i \in 1..m : (l + 1) + i - 1 = l + i
      BY <1>4
    <3>. QED BY <3>3, <3>4, <3>5
  <2>. HIDE DEF y
  <2>10. y = x
    <3>1. \A i \in 1..m : y[i] = x[i]
      BY <1>7, <2>9
    <3>2. Len(x) = m /\ Len(y) = m
      BY <2>9 DEF m
    <3>. QED BY <1>1, <2>9, <3>1, <3>2, SeqEqual
  <2>. QED BY <1>10, <2>6, <2>7, <2>8, <2>10 DEF y, w, e
<1>. QED BY <1>12, <1>13

LEMMA TextAssociates ==
    ASSUME NEW u \in FileText, NEW v \in FileText, NEW w \in FileText
    PROVE  (u \o v) \o w = u \o (v \o w)
  BY ConcatAssociative DEF FileText

\* A line's parts: the key and the value between blanks, the sign between them.
KeyPart(l) == l.pad[1] \o (l.key \o l.pad[2])
ValuePart(l) == l.pad[3] \o (l.value \o l.pad[4])
SettingPart(l) == KeyPart(l) \o (l.sign \o ValuePart(l))
Body(l) == SettingPart(l) \o l.note

LineParts(l) ==
    /\ \A i \in 1..4 : l.pad[i] \in FileText
    /\ l.key \in FileText /\ l.sign \in FileText /\ l.value \in FileText /\ l.note \in FileText

LEMMA Regrouped ==
    ASSUME NEW l, LineParts(l)
    PROVE  /\ KeyPart(l) \in FileText /\ ValuePart(l) \in FileText
           /\ SettingPart(l) \in FileText /\ Body(l) \in FileText
           /\ LineText(l) = Body(l) \o <<LineEnd>>
<1>. DEFINE p1 == l.pad[1]
            p2 == l.pad[2]
            p3 == l.pad[3]
            p4 == l.pad[4]
            a == KeyPart(l)
            c == ValuePart(l)
            x == a \o l.sign
<1>1. /\ p1 \in FileText /\ p2 \in FileText /\ p3 \in FileText /\ p4 \in FileText
      /\ l.key \in FileText /\ l.sign \in FileText /\ l.value \in FileText /\ l.note \in FileText
  BY DEF LineParts
<1>. HIDE DEF p1, p2, p3, p4
<1>2. a = (p1 \o l.key) \o p2 /\ a \in FileText
  <2>1. a = p1 \o (l.key \o p2)
    BY DEF KeyPart, p1, p2
  <2>2. l.key \o p2 \in FileText
    BY <1>1, FreeConcat, Zenon
  <2>3. p1 \o (l.key \o p2) \in FileText
    BY <1>1, <2>2, FreeConcat, Zenon
  <2>4. (p1 \o l.key) \o p2 = p1 \o (l.key \o p2)
    <3>1. p1 \in FileText /\ l.key \in FileText /\ p2 \in FileText
      BY <1>1
    <3>. QED BY <3>1, TextAssociates
  <2>. QED BY <2>1, <2>3, <2>4
<1>3. c = p3 \o (l.value \o p4) /\ c \in FileText
  BY <1>1, FreeConcat DEF ValuePart, p3, p4
<1>4. LineText(l) = (((((((p1 \o l.key) \o p2) \o l.sign) \o p3) \o l.value) \o p4) \o l.note)
                      \o <<LineEnd>>
  BY DEF LineText, p1, p2, p3, p4
<1>5. SettingPart(l) = a \o (l.sign \o c)
  BY DEF SettingPart
<1>6. Body(l) = SettingPart(l) \o l.note
  BY DEF Body
<1>. HIDE DEF a, c
<1>7. x \in FileText /\ l.sign \o c \in FileText /\ x \o c = SettingPart(l) /\ x \o c \in FileText
  <2>1. x \in FileText /\ l.sign \o c \in FileText
    BY <1>1, <1>2, <1>3, FreeConcat, Zenon
  <2>2. x \o c \in FileText
    BY <1>3, <2>1, FreeConcat, Zenon
  <2>3. x \o c = a \o (l.sign \o c)
    <3>1. a \in FileText /\ l.sign \in FileText /\ c \in FileText
      BY <1>1, <1>2, <1>3
    <3>. QED BY <3>1, TextAssociates
  <2>. QED BY <1>5, <2>1, <2>2, <2>3
<1>8. LineText(l) = ((((x \o p3) \o l.value) \o p4) \o l.note) \o <<LineEnd>>
  BY <1>2, <1>4
<1>. HIDE DEF x
<1>9. ((x \o p3) \o l.value) \o p4 = x \o c
  <2>1. x \o p3 \in FileText /\ l.value \o p4 \in FileText
    BY <1>1, <1>7, FreeConcat
  <2>2. ((x \o p3) \o l.value) \o p4 = (x \o p3) \o (l.value \o p4)
    <3>1. x \o p3 \in FileText /\ l.value \in FileText /\ p4 \in FileText
      BY <1>1, <2>1
    <3>. QED BY <3>1, TextAssociates
  <2>3. (x \o p3) \o (l.value \o p4) = x \o (p3 \o (l.value \o p4))
    <3>1. x \in FileText /\ p3 \in FileText /\ l.value \o p4 \in FileText
      BY <1>1, <1>7, <2>1
    <3>. QED BY <3>1, TextAssociates
  <2>. QED BY <1>3, <2>2, <2>3
<1>10. Body(l) \in FileText
  BY <1>1, <1>6, <1>7, FreeConcat
<1>11. LineText(l) = Body(l) \o <<LineEnd>>
  BY <1>6, <1>7, <1>8, <1>9
<1>. QED BY <1>2, <1>3, <1>7, <1>10, <1>11 DEF a, c

\* The four signs of a configuration file.
LEMMA MarksDiffer ==
    /\ LineEnd # Hash /\ LineEnd # Equals /\ LineEnd # Blank
    /\ Hash # Equals /\ Hash # Blank /\ Equals # Blank
<1>1. LineEnd # Hash
  BY DEF LineEnd, Hash
<1>2. LineEnd # Equals
  BY DEF LineEnd, Equals
<1>3. LineEnd # Blank
  BY DEF LineEnd, Blank
<1>4. Hash # Equals
  BY DEF Hash, Equals
<1>5. Hash # Blank
  BY DEF Hash, Blank
<1>6. Equals # Blank
  BY DEF Equals, Blank
<1>. QED BY <1>1, <1>2, <1>3, <1>4, <1>5, <1>6

LEMMA FreeBlanks ==
    ASSUME NEW p \in Seq({Blank})
    PROVE  /\ p \in FileText
           /\ Avoids(p, LineEnd) /\ Avoids(p, Hash) /\ Avoids(p, Equals)
<1>1. p \in FileText
  <2>1. {Blank} \subseteq Marks
    BY DEF Marks
  <2>. QED BY <2>1, SeqMonotonic DEF FileText
<1>2. \A i \in 1..Len(p) : p[i] = Blank
  BY ElementOfSeq
<1>. QED BY <1>1, <1>2, MarksDiffer DEF Avoids

LEMMA FreeWord ==
    ASSUME NEW s \in Seq(STRING)
    PROVE  s \in FileText /\ \A signs : Lacks(s, signs) => \A c \in signs : Avoids(s, c)
<1>1. s \in FileText
  <2>1. STRING \subseteq Marks
    BY DEF Marks
  <2>. QED BY <2>1, SeqMonotonic DEF FileText
<1>2. DOMAIN s = 1..Len(s)
  BY LenProperties
<1>. QED BY <1>1, <1>2, Zenon DEF Lacks, Avoids

\* A line as the assumption has it.
ProperLine(l) ==
    /\ l.pad \in [1..4 -> Seq({Blank})] /\ l.sign \in {<<>>, <<Equals>>}
    /\ l.key \in FileText /\ Trimmed(l.key)
    /\ Avoids(l.key, LineEnd) /\ Avoids(l.key, Hash) /\ Avoids(l.key, Equals)
    /\ l.value \in FileText /\ Trimmed(l.value)
    /\ Avoids(l.value, LineEnd) /\ Avoids(l.value, Hash)
    /\ l.sign = <<>> => Avoids(l.value, Equals)
    /\ l.note \in FileText /\ Avoids(l.note, LineEnd)
    /\ l.note # <<>> => l.note[1] = Hash
\* The lines of the jobs are proper ones.
LEMMA ConfigTyped ==
    ASSUME job \in Jobs, job.fn = "config"
    PROVE  /\ \E S : job.input \in Seq(S)
           /\ \A i \in DOMAIN job.input : ProperLine(job.input[i])
<1>1. job.input \in Inputs("config")
  BY DEF Inputs
<1>2. \A lines \in Inputs("config") : \E S : lines \in Seq(S)
  BY InputsAssumption
<1>3. ASSUME NEW i \in DOMAIN job.input PROVE ProperLine(job.input[i])
  <2>. DEFINE l == job.input[i]
  <2>1. /\ l.pad \in [1..4 -> Seq({Blank})] /\ l.sign \in {<<>>, <<Equals>>}
        /\ l.key \in Seq(STRING) /\ Trimmed(l.key) /\ Lacks(l.key, {LineEnd, Hash, Equals})
        /\ l.value \in Seq(STRING) /\ Trimmed(l.value) /\ Lacks(l.value, {LineEnd, Hash})
        /\ l.sign = <<>> => Lacks(l.value, {Equals})
        /\ l.note \in Seq(STRING) /\ Lacks(l.note, {LineEnd})
        /\ l.note # <<>> => l.note[1] = Hash
    BY <1>1, InputsAssumption
  <2>. HIDE DEF l
  <2>2. l.key \in FileText /\ \A c \in {LineEnd, Hash, Equals} : Avoids(l.key, c)
    BY <2>1, FreeWord
  <2>3. l.value \in FileText /\ \A c \in {LineEnd, Hash} : Avoids(l.value, c)
    BY <2>1, FreeWord
  <2>4. l.sign = <<>> => \A c \in {Equals} : Avoids(l.value, c)
    BY <2>1, FreeWord
  <2>5. l.note \in FileText /\ \A c \in {LineEnd} : Avoids(l.note, c)
    BY <2>1, FreeWord
  <2>6. ProperLine(l)
    BY <2>1, <2>2, <2>3, <2>4, <2>5 DEF ProperLine
  <2>. QED BY <2>6 DEF l
<1>. QED BY <1>1, <1>2, <1>3

LEMMA MarkTexts ==
    /\ LineEnd \in Marks /\ Hash \in Marks /\ Equals \in Marks
    /\ <<>> \in FileText /\ \A c : Avoids(<<>>, c)
    /\ <<Equals>> \in FileText /\ <<LineEnd>> \in FileText
    /\ Avoids(<<Equals>>, LineEnd) /\ Avoids(<<Equals>>, Hash)
<1>1. LineEnd \in Marks /\ Hash \in Marks /\ Equals \in Marks
  BY DEF Marks
<1>2. <<>> \in FileText /\ \A c : Avoids(<<>>, c)
  BY EmptySeq DEF FileText, Avoids
<1>3. <<LineEnd>> \in FileText
  BY <1>1, Singleton DEF FileText
<1>4. <<Equals>> \in FileText /\ Len(<<Equals>>) = 1 /\ <<Equals>>[1] = Equals
  BY <1>1, Singleton DEF FileText
<1>. DEFINE e == <<Equals>>
<1>. HIDE DEF e
<1>5. Len(e) = 1 /\ e[1] = Equals
  BY <1>4 DEF e
<1>6. \A c : c # Equals => Avoids(e, c)
  BY <1>5 DEF Avoids
<1>. QED BY <1>1, <1>2, <1>3, <1>4, <1>6, MarksDiffer DEF e

\* The signs that may stand in the parts of a line.
LEMMA PartsFree ==
    ASSUME NEW l, ProperLine(l)
    PROVE  /\ LineParts(l)
           /\ Avoids(KeyPart(l), LineEnd) /\ Avoids(KeyPart(l), Hash) /\ Avoids(KeyPart(l), Equals)
           /\ Avoids(ValuePart(l), LineEnd) /\ Avoids(ValuePart(l), Hash)
           /\ l.sign = <<>> => Avoids(ValuePart(l), Equals)
           /\ Avoids(SettingPart(l), LineEnd) /\ Avoids(SettingPart(l), Hash)
           /\ l.sign = <<>> => Avoids(SettingPart(l), Equals)
           /\ Avoids(Body(l), LineEnd)
<1>. DEFINE Blanks(p) == /\ p \in FileText
                         /\ Avoids(p, LineEnd) /\ Avoids(p, Hash) /\ Avoids(p, Equals)
<1>1. \A i \in 1..4 : Blanks(l.pad[i])
  <2>1. \A i \in 1..4 : l.pad[i] \in Seq({Blank})
    BY DEF ProperLine
  <2>. QED BY <2>1, FreeBlanks
<1>2. Blanks(l.pad[1]) /\ Blanks(l.pad[2]) /\ Blanks(l.pad[3]) /\ Blanks(l.pad[4])
  BY <1>1
<1>3. Blanks(l.key)
  BY DEF ProperLine
<1>4. l.value \in FileText /\ Avoids(l.value, LineEnd) /\ Avoids(l.value, Hash)
  BY DEF ProperLine
<1>5. l.sign = <<>> => Avoids(l.value, Equals)
  BY DEF ProperLine
<1>6. l.note \in FileText /\ Avoids(l.note, LineEnd)
  BY DEF ProperLine
<1>7. /\ l.sign \in FileText /\ Avoids(l.sign, LineEnd) /\ Avoids(l.sign, Hash)
      /\ l.sign = <<>> => Avoids(l.sign, Equals)
  <2>1. l.sign = <<>> \/ l.sign = <<Equals>>
    BY DEF ProperLine
  <2>. QED BY <2>1, MarkTexts, Zenon
<1>8. LineParts(l)
  BY <1>1, <1>3, <1>4, <1>6, <1>7 DEF LineParts
<1>9. Blanks(KeyPart(l))
  <2>1. Blanks(l.key \o l.pad[2])
    BY <1>2, <1>3, FreeConcat
  <2>. QED BY <1>2, <2>1, FreeConcat DEF KeyPart
<1>10. /\ ValuePart(l) \in FileText /\ Avoids(ValuePart(l), LineEnd) /\ Avoids(ValuePart(l), Hash)
       /\ l.sign = <<>> => Avoids(ValuePart(l), Equals)
  <2>. DEFINE v == l.value \o l.pad[4]
  <2>1. /\ v \in FileText /\ Avoids(v, LineEnd) /\ Avoids(v, Hash)
        /\ l.sign = <<>> => Avoids(v, Equals)
    BY <1>2, <1>4, <1>5, FreeConcat
  <2>2. ValuePart(l) = l.pad[3] \o v
    BY DEF ValuePart
  <2>. HIDE DEF v
  <2>. QED BY <1>2, <2>1, <2>2, FreeConcat
<1>11. /\ SettingPart(l) \in FileText
       /\ Avoids(SettingPart(l), LineEnd) /\ Avoids(SettingPart(l), Hash)
       /\ l.sign = <<>> => Avoids(SettingPart(l), Equals)
  <2>. DEFINE v == l.sign \o ValuePart(l)
  <2>1. /\ v \in FileText /\ Avoids(v, LineEnd) /\ Avoids(v, Hash)
        /\ l.sign = <<>> => Avoids(v, Equals)
    BY <1>7, <1>10, FreeConcat
  <2>2. SettingPart(l) = KeyPart(l) \o v
    BY DEF SettingPart
  <2>. HIDE DEF v
  <2>. QED BY <1>9, <2>1, <2>2, FreeConcat
<1>12. Avoids(Body(l), LineEnd)
  BY <1>6, <1>11, FreeConcat DEF Body
<1>. QED BY <1>8, <1>9, <1>10, <1>11, <1>12

\* A text is cut at its last character.
LEMMA LastCut ==
    ASSUME NEW s \in FileText, NEW c \in Marks, Avoids(s, c)
    PROVE  Before(s \o <<c>>, c) = s
<1>. DEFINE one == <<c>>
<1>1. one \in Seq(Marks)
  BY Singleton
<1>2. one \o <<>> = one
  BY <1>1, ConcatEmptySeq
<1>3. <<>> \in Seq(Marks)
  BY EmptySeq
<1>4. Before(s \o (<<c>> \o <<>>), c) = s
  BY <1>3, FirstCut DEF FileText
<1>. QED BY <1>2, <1>4

\* A comment is cut off.
LEMMA NoteCut ==
    ASSUME NEW s \in FileText, Avoids(s, Hash), NEW note \in FileText, note # <<>> => note[1] = Hash
    PROVE  Before(s \o note, Hash) = s
<1>1. CASE note = <<>>
  <2>1. s \o note = s
    BY <1>1, ConcatEmptySeq DEF FileText
  <2>. QED BY <2>1, NotCut
<1>2. CASE note # <<>>
  <2>. DEFINE t == Tail(note)
              one == <<Hash>>
              w == one \o t
  <2>1. /\ t \in Seq(Marks) /\ Len(t) = Len(note) - 1
        /\ \A i \in 1..Len(t) : t[i] = note[i + 1]
    BY <1>2, HeadTailProperties DEF FileText
  <2>2. one \in Seq(Marks) /\ Len(one) = 1 /\ one[1] = Hash
    BY MarkTexts, Singleton
  <2>3. note \in Seq(Marks) /\ Len(note) \in Nat \ {0}
    BY <1>2, EmptySeq DEF FileText
  <2>. HIDE DEF t, one
  <2>4. Joint(Marks, w, one, t)
    BY <2>1, <2>2, Joints
  <2>. HIDE DEF w
  <2>5. /\ w \in Seq(Marks) /\ Len(w) = Len(one) + Len(t)
        /\ \A i \in 1..Len(one) : w[i] = one[i]
        /\ \A i \in 1..Len(t) : w[Len(one) + i] = t[i]
    BY <2>4 DEF Joint
  <2>6. Len(w) = Len(note) /\ w[1] = note[1]
    BY <1>2, <2>1, <2>2, <2>3, <2>5
  <2>7. ASSUME NEW i \in 1..Len(w) PROVE w[i] = note[i]
    <3>1. CASE i = 1
      BY <2>6, <3>1
    <3>2. CASE i # 1
      <4>1. i - 1 \in 1..Len(t) /\ Len(one) + (i - 1) = i /\ (i - 1) + 1 = i
        BY <2>1, <2>2, <2>3, <2>6, <3>2
      <4>2. w[Len(one) + (i - 1)] = t[i - 1] /\ t[i - 1] = note[(i - 1) + 1]
        BY <2>1, <2>5, <4>1
      <4>. QED BY <4>1, <4>2
    <3>. QED BY <3>1, <3>2
  <2>8. w = note
    BY <2>3, <2>5, <2>6, <2>7, SeqEqual
  <2>9. Before(s \o (<<Hash>> \o t), Hash) = s
    BY <2>1, FirstCut, MarkTexts DEF FileText
  <2>. QED BY <2>8, <2>9 DEF w, one
<1>. QED BY <1>1, <1>2

\* What a line sets: a key and a value, or two empty texts.
SettingOf(l) == IF l.sign = <<>> THEN <<<<>>, <<>>>> ELSE <<l.key, l.value>>

LEMMA LineParsed ==
    ASSUME NEW l, ProperLine(l)
    PROVE  /\ LineText(l) \in FileText /\ ParseLine(LineText(l)) = SettingOf(l)
           /\ Fitting(l) => LineText(l) \in WholeLines
<1>. DEFINE line == LineText(l)
            body == Body(l)
            s == SettingPart(l)
            a == KeyPart(l)
            c == ValuePart(l)
<1>1. /\ a \in FileText /\ c \in FileText /\ s \in FileText /\ body \in FileText
      /\ line = body \o <<LineEnd>>
  BY PartsFree, Regrouped
<1>2. /\ Avoids(a, Equals) /\ Avoids(s, LineEnd) /\ Avoids(s, Hash)
      /\ l.sign = <<>> => Avoids(s, Equals)
      /\ Avoids(body, LineEnd)
  BY PartsFree
<1>3. s = a \o (l.sign \o c) /\ body = s \o l.note
  BY DEF SettingPart, Body
<1>4. Fitting(l) <=> Len(line) < LineSize
  BY DEF Fitting
<1>5. l.note \in FileText /\ (l.note # <<>> => l.note[1] = Hash)
  BY PartsFree DEF LineParts, ProperLine
<1>6. TrimSpace(a) = l.key
  <2>1. l.pad[1] \in Seq({Blank}) /\ l.pad[2] \in Seq({Blank})
    BY DEF ProperLine
  <2>2. l.key \in FileText /\ Trimmed(l.key)
    BY PartsFree DEF LineParts, ProperLine
  <2>. QED BY <2>1, <2>2, Trims DEF KeyPart
<1>7. TrimSpace(c) = l.value
  <2>1. l.pad[3] \in Seq({Blank}) /\ l.pad[4] \in Seq({Blank})
    BY DEF ProperLine
  <2>2. l.value \in FileText /\ Trimmed(l.value)
    BY PartsFree DEF LineParts, ProperLine
  <2>. QED BY <2>1, <2>2, Trims DEF ValuePart
<1>. HIDE DEF line, body, s, a, c
<1>8. line \in FileText /\ (Fitting(l) => line \in WholeLines)
  <2>. DEFINE one == <<LineEnd>>
  <2>1. one \in Seq(Marks) /\ Len(one) = 1
    BY MarkTexts, Singleton
  <2>. HIDE DEF one
  <2>2. line = body \o one
    BY <1>1 DEF one
  <2>3. Joint(Marks, line, body, one)
    BY <1>1, <2>1, <2>2, Joints DEF FileText
  <2>4. line \in FileText /\ Len(line) = Len(body) + 1
    BY <2>1, <2>3 DEF Joint, FileText
  <2>. QED BY <1>1, <1>2, <1>4, <2>4 DEF WholeLines
<1>9. Before(Before(line, LineEnd), Hash) = s
  <2>1. Before(line, LineEnd) = body
    BY <1>1, <1>2, LastCut, MarkTexts
  <2>2. Before(body, Hash) = s
    BY <1>1, <1>2, <1>3, <1>5, NoteCut
  <2>. QED BY <2>1, <2>2
<1>10. CASE l.sign = <<>>
  <2>1. ~Contains(s, Equals)
    BY <1>2, <1>10, NotCut
  <2>2. ParseLine(line) = <<<<>>, <<>>>>
    BY <1>9, <2>1 DEF ParseLine
  <2>. QED BY <1>8, <1>10, <2>2 DEF SettingOf, line
<1>11. CASE l.sign # <<>>
  <2>1. l.sign = <<Equals>>
    BY <1>11 DEF ProperLine
  <2>2. s = a \o (<<Equals>> \o c)
    BY <1>3, <2>1
  <2>3. Contains(s, Equals) /\ Before(s, Equals) = a /\ After(s, Equals) = c
    BY <1>1, <1>2, <2>2, FirstCut, MarkTexts DEF FileText
  <2>4. ParseLine(line) = <<TrimSpace(a), TrimSpace(c)>>
    BY <1>9, <2>3 DEF ParseLine
  <2>. QED BY <1>6, <1>7, <1>8, <1>11, <2>4 DEF SettingOf, line
<1>. QED BY <1>10, <1>11

\* The function by which LoadFile makes a map of the first n lines.
LoadsLines(lines, n, g) ==
    g = [i \in 0..n |-> IF i = 0 THEN {} ELSE Inserted(g[i - 1], ParseLine(lines[i]))]

LEMMA LoadExists == ASSUME NEW lines, NEW len \in Nat PROVE \E g : LoadsLines(lines, len, g)
<1>. DEFINE Grown(map, i) == Inserted(map, ParseLine(lines[i]))
            S == {n \in Nat : \E g : LoadsLines(lines, n, g)}
<1>0. \A n, g : LoadsLines(lines, n, g)
                  <=> g = [i \in 0..n |-> IF i = 0 THEN {} ELSE Grown(g[i - 1], i)]
  BY Zenon DEF LoadsLines
<1>. HIDE DEF Grown
<1>1. 0 \in S
  <2>. DEFINE g == [i \in 0..0 |-> {}]
  <2>1. g = [i \in 0..0 |-> IF i = 0 THEN {} ELSE Grown(g[i - 1], i)]
    OBVIOUS
  <2>. HIDE DEF g
  <2>2. LoadsLines(lines, 0, g)
    BY <1>0, <2>1
  <2>. QED BY <2>2
<1>2. ASSUME NEW n \in Nat, n \in S PROVE n + 1 \in S
  <2>1. PICK g : LoadsLines(lines, n, g)
    BY <1>2
  <2>. DEFINE h == [i \in 0..n + 1 |-> IF i <= n THEN g[i] ELSE Grown(g[n], i)]
  <2>2. g = [i \in 0..n |-> IF i = 0 THEN {} ELSE Grown(g[i - 1], i)]
    BY <1>0, <2>1
  <2>3. \A i \in 0..n : g[i] = IF i = 0 THEN {} ELSE Grown(g[i - 1], i)
    BY <2>2
  <2>4. ASSUME NEW i \in 0..n + 1 PROVE h[i] = IF i = 0 THEN {} ELSE Grown(h[i - 1], i)
    <3>1. CASE i = 0
      BY <2>3, <3>1
    <3>2. CASE i # 0 /\ i <= n
      <4>1. i \in 0..n /\ i - 1 \in 0..n
        BY <3>2
      <4>2. h[i] = g[i] /\ h[i - 1] = g[i - 1]
        BY <4>1
      <4>. QED BY <2>3, <3>2, <4>1, <4>2
    <3>3. CASE i = n + 1
      <4>1. h[i] = Grown(g[n], i) /\ h[i - 1] = g[n] /\ i # 0
        BY <3>3
      <4>. QED BY <4>1
    <3>. QED BY <3>1, <3>2, <3>3
  <2>5. h = [i \in 0..n + 1 |-> h[i]]
    OBVIOUS
  <2>. HIDE DEF h
  <2>6. h = [i \in 0..n + 1 |-> IF i = 0 THEN {} ELSE Grown(h[i - 1], i)]
    BY <2>4, <2>5, Zenon
  <2>7. LoadsLines(lines, n + 1, h)
    BY <1>0, <2>6
  <2>. QED BY <2>7
<1>3. Nat \subseteq S
  <2>. HIDE DEF S
  <2>. QED BY <1>1, <1>2, SetInduction
<1>. QED BY <1>3

LEMMA LoadSteps ==
    ASSUME NEW file, NEW lines, lines = LinesOf(file), Len(lines) \in Nat
    PROVE  \E g : /\ g[0] = {}
                  /\ \A i \in 0..Len(lines) - 1 : g[i + 1] = Inserted(g[i], ParseLine(lines[i + 1]))
                  /\ LoadFile(file) = g[Len(lines)]
<1>. DEFINE n == Len(lines)
            g == CHOOSE f : LoadsLines(lines, n, f)
            Grown(map, i) == Inserted(map, ParseLine(lines[i]))
<1>1. LoadsLines(lines, n, g)
  <2>1. \E f : LoadsLines(lines, n, f)
    BY LoadExists
  <2>. QED BY <2>1, Zenon
<1>2. LoadFile(file) = g[n]
  BY Zenon DEF LoadFile, LoadsLines
<1>. HIDE DEF g
<1>3. g = [i \in 0..n |-> IF i = 0 THEN {} ELSE Grown(g[i - 1], i)]
  BY <1>1, Zenon DEF LoadsLines
<1>4. \A i, map : Grown(map, i) = Inserted(map, ParseLine(lines[i]))
  OBVIOUS
<1>. HIDE DEF Grown
<1>5. g[0] = {}
  BY <1>3
<1>6. ASSUME NEW i \in 0..n - 1 PROVE g[i + 1] = Grown(g[i], i + 1)
  <2>1. i + 1 \in 0..n /\ i + 1 # 0 /\ (i + 1) - 1 = i
    OBVIOUS
  <2>2. g[i + 1] = Grown(g[(i + 1) - 1], i + 1)
    BY <1>3, <2>1
  <2>. QED BY <2>1, <2>2
<1>7. \A i \in 0..n - 1 : g[i + 1] = Inserted(g[i], ParseLine(lines[i + 1]))
  BY <1>4, <1>6, Zenon
<1>. QED BY <1>2, <1>5, <1>7

\* The pairs of keys and values, each key with its first value.
IsSet(pair) == pair[1] # <<>> /\ pair[2] # <<>>
SetsFirst(s, k) == IsSet(s[k]) /\ \A j \in 1..k - 1 : IsSet(s[j]) => s[j][1] # s[k][1]
FirstPairs(s, n) == {s[i] : i \in {k \in 1..n : SetsFirst(s, k)}}

\* One more line: its key may have a value already.
LEMMA FirstsGrow ==
    ASSUME NEW s, NEW n \in Nat
    PROVE  Inserted(FirstPairs(s, n), s[n + 1]) = FirstPairs(s, n + 1)
<1>. DEFINE map == FirstPairs(s, n)
            pair == s[n + 1]
<1>1. (\A p \in map : p[1] # pair[1]) <=> (\A j \in 1..n : IsSet(s[j]) => s[j][1] # pair[1])
  <2>1. ASSUME NEW j \in 1..n, IsSet(s[j]), s[j][1] = pair[1]
        PROVE  \E p \in map : p[1] = pair[1]
    <3>. DEFINE T == {k \in 1..n : IsSet(s[k]) /\ s[k][1] = pair[1]}
    <3>1. T \in SUBSET Nat /\ T # {}
      BY <2>1
    <3>2. PICK k \in T : \A y \in T : k <= y
      BY <3>1, LeastElement
    <3>3. k \in 1..n /\ IsSet(s[k]) /\ s[k][1] = pair[1]
      BY <3>2
    <3>4. \A i \in 1..k - 1 : i \notin T /\ i \in 1..n
      BY <3>2, <3>3
    <3>5. SetsFirst(s, k)
      BY <3>3, <3>4 DEF SetsFirst
    <3>6. s[k] \in map
      BY <3>3, <3>5 DEF FirstPairs
    <3>. QED BY <3>3, <3>6
  <2>2. ASSUME NEW p \in map, p[1] = pair[1]
        PROVE  \E j \in 1..n : IsSet(s[j]) /\ s[j][1] = pair[1]
    <3>1. PICK j \in 1..n : SetsFirst(s, j) /\ p = s[j]
      BY DEF FirstPairs
    <3>. QED BY <2>2, <3>1 DEF SetsFirst
  <2>. QED BY <2>1, <2>2
<1>2. (n + 1) - 1 = n
  OBVIOUS
<1>3. SetsFirst(s, n + 1) <=> IsSet(pair) /\ \A p \in map : p[1] # pair[1]
  BY <1>1, <1>2 DEF SetsFirst
<1>4. \A k : k \in 1..n + 1 <=> (k \in 1..n \/ k = n + 1)
  OBVIOUS
<1>5. FirstPairs(s, n + 1) = IF SetsFirst(s, n + 1) THEN map \cup {pair} ELSE map
  <2>1. \A x : x \in FirstPairs(s, n + 1) <=> \E k \in 1..n + 1 : SetsFirst(s, k) /\ x = s[k]
    BY DEF FirstPairs
  <2>2. \A x : x \in map <=> \E k \in 1..n : SetsFirst(s, k) /\ x = s[k]
    BY DEF FirstPairs
  <2>3. \A x : x \in FirstPairs(s, n + 1) <=> (x \in map \/ (SetsFirst(s, n + 1) /\ x = pair))
    BY <1>4, <2>1, <2>2
  <2>. HIDE DEF map, pair
  <2>. QED BY <2>3
<1>6. Inserted(map, pair) = IF IsSet(pair) /\ \A p \in map : p[1] # pair[1]
                            THEN map \cup {pair} ELSE map
  BY DEF Inserted, IsSet
<1>. QED BY <1>3, <1>5, <1>6

\* They are finitely many, and no two have the same key.
LEMMA FirstsFinite ==
    ASSUME NEW s, NEW n \in Nat
    PROVE  /\ IsFiniteSet(FirstPairs(s, n))
           /\ \A p, q \in FirstPairs(s, n) : p[1] = q[1] => p = q
           /\ \A p \in FirstPairs(s, n) : IsSet(p) /\ \E k \in 1..n : p = s[k]
<1>. DEFINE T == {i \in 0..n : IsFiniteSet(FirstPairs(s, i))}
<1>1. 0 \in T
  <2>1. FirstPairs(s, 0) = {}
    BY DEF FirstPairs
  <2>. QED BY <2>1, FS_EmptySet
<1>2. ASSUME NEW i \in 0..n - 1, i \in T PROVE i + 1 \in T
  <2>1. i \in Nat /\ i + 1 \in 0..n /\ IsFiniteSet(FirstPairs(s, i))
    BY <1>2
  <2>2. FirstPairs(s, i + 1) = Inserted(FirstPairs(s, i), s[i + 1])
    BY <2>1, FirstsGrow
  <2>3. \/ FirstPairs(s, i + 1) = FirstPairs(s, i)
        \/ FirstPairs(s, i + 1) = FirstPairs(s, i) \cup {s[i + 1]}
    BY <2>2 DEF Inserted
  <2>4. IsFiniteSet(FirstPairs(s, i) \cup {s[i + 1]})
    BY <2>1, FS_AddElement
  <2>5. IsFiniteSet(FirstPairs(s, i + 1))
    BY <2>1, <2>3, <2>4
  <2>. QED BY <2>1, <2>5
<1>3. IsFiniteSet(FirstPairs(s, n))
  <2>. HIDE DEF T
  <2>1. 0..n \subseteq T
    BY <1>1, <1>2, UpTo
  <2>. QED BY <2>1 DEF T
<1>4. \A p \in FirstPairs(s, n) : \E k \in 1..n : SetsFirst(s, k) /\ p = s[k]
  BY DEF FirstPairs
<1>5. ASSUME NEW p \in FirstPairs(s, n), NEW q \in FirstPairs(s, n), p[1] = q[1] PROVE p = q
  <2>1. PICK i \in 1..n : SetsFirst(s, i) /\ p = s[i]
    BY <1>4
  <2>2. PICK j \in 1..n : SetsFirst(s, j) /\ q = s[j]
    BY <1>4
  <2>3. ~(i < j)
    <3>1. i < j => i \in 1..j - 1
      OBVIOUS
    <3>. QED BY <1>5, <2>1, <2>2, <3>1 DEF SetsFirst
  <2>4. ~(j < i)
    <3>1. j < i => j \in 1..i - 1
      OBVIOUS
    <3>. QED BY <1>5, <2>1, <2>2, <3>1 DEF SetsFirst
  <2>5. i = j
    BY <2>3, <2>4
  <2>. QED BY <2>1, <2>2, <2>5
<1>6. ASSUME NEW p \in FirstPairs(s, n) PROVE IsSet(p) /\ \E k \in 1..n : p = s[k]
  BY <1>4 DEF SetsFirst
<1>. QED BY <1>3, <1>5, <1>6

\* SetToSeq gives each element of a finite set one place.
LEMMA SetInOrder ==
    ASSUME NEW M, IsFiniteSet(M)
    PROVE  \E n \in Nat : /\ SetToSeq(M) \in [1..n -> M]
                          /\ \A i, j \in 1..n : SetToSeq(M)[i] = SetToSeq(M)[j] => i = j
                          /\ \A x \in M : \E i \in 1..n : SetToSeq(M)[i] = x
<1>. DEFINE n == Cardinality(M)
            f == SetToSeq(M)
<1>1. n \in Nat /\ \E g : g \in Bijection(1..n, M)
  BY FS_CardinalityType DEF ExistsBijection
<1>2. \E g \in [1..n -> M] : IsInjective(g)
  BY <1>1 DEF Bijection, Injection
<1>3. f \in [1..n -> M] /\ IsInjective(f)
  BY <1>2, Zenon DEF SetToSeq
<1>. HIDE DEF f
<1>4. f \in Injection(1..n, M)
  BY <1>3 DEF Injection
<1>5. Cardinality(1..n) = n
  BY <1>1, FS_Interval
<1>6. f \in Surjection(1..n, M)
  BY <1>4, <1>5, FS_Injection
<1>7. \A x \in M : \E i \in 1..n : f[i] = x
  BY <1>6 DEF Surjection
<1>8. \A i, j \in 1..n : f[i] = f[j] => i = j
  BY <1>3 DEF IsInjective
<1>. QED BY <1>1, <1>3, <1>7, <1>8 DEF f

\* The line for a pair as _WriteFile writes it: nothing around the key and the value.
BareLine(p) == [pad |-> [k \in 1..4 |-> <<>>], key |-> p[1], sign |-> <<Equals>>, value |-> p[2],
                note |-> <<>>]

LEMMA BareLineText ==
    ASSUME NEW p, p[1] \in FileText, p[2] \in FileText
    PROVE  LineText(BareLine(p)) = Line(p) /\ Line(p) \in FileText
<1>. DEFINE l == BareLine(p)
            e == <<Equals>>
            end == <<LineEnd>>
            k == p[1]
            v == p[2]
            w == (k \o e) \o v
<1>1. /\ l.pad[1] = <<>> /\ l.pad[2] = <<>> /\ l.pad[3] = <<>> /\ l.pad[4] = <<>>
      /\ l.key = k /\ l.sign = e /\ l.value = v /\ l.note = <<>>
  BY DEF BareLine
<1>2. e \in FileText /\ end \in FileText
  BY MarkTexts
<1>. HIDE DEF l, e, end
<1>3. LineText(l) = (((((((<<>> \o k) \o <<>>) \o e) \o <<>>) \o v) \o <<>>) \o <<>>) \o end
  BY <1>1 DEF LineText, end
<1>4. \A x \in FileText : x \o <<>> = x /\ <<>> \o x = x
  BY ConcatEmptySeq DEF FileText
<1>5. k \in FileText /\ k \o e \in FileText
  BY <1>2, FreeConcat
<1>6. w \in FileText
  BY <1>5, FreeConcat
<1>7. w \o end \in FileText
  BY <1>2, <1>6, FreeConcat
<1>8. Line(p) = w \o end
  BY DEF Line, e, end
<1>. HIDE DEF k, v
<1>9. LineText(l) = w \o end
  <2>1. <<>> \o k = k /\ k \o <<>> = k
    BY <1>4, <1>5
  <2>2. (k \o e) \o <<>> = k \o e
    BY <1>4, <1>5
  <2>3. w \o <<>> = w
    <3>. HIDE DEF w
    <3>. QED BY <1>4, <1>6
  <2>. QED BY <1>3, <2>1, <2>2, <2>3
<1>. QED BY <1>7, <1>8, <1>9 DEF l

\* A line that fits the writer's buffer is written whole.
LEMMA LineWritten ==
    ASSUME NEW p, Line(p) \in FileText, Len(Line(p)) < PairSize
    PROVE  PairText(p) = Line(p)
<1>. DEFINE n == Len(Line(p))
<1>1. n \in Nat /\ PairSize \in Nat /\ n < PairSize
  BY LenProperties, SizesAssumption DEF FileText
<1>2. SubSeq(Line(p), 1, n) = Line(p)
  BY LenProperties DEF FileText
<1>3. PairText(p) = SubSeq(Line(p), 1, Min({n, PairSize - 1}))
  BY DEF PairText
<1>. HIDE DEF n
<1>. DEFINE T == {n, PairSize - 1}
            least == Min(T)
<1>4. T \in SUBSET Nat /\ T # {} /\ n \in T
  BY <1>1
<1>5. least \in T /\ least <= n
  BY <1>4, LeastIs
<1>. HIDE DEF least
<1>6. least = n
  BY <1>1, <1>5
<1>. QED BY <1>2, <1>3, <1>6 DEF least, n

\* A part of a text has no character the text has not.
LEMMA PartAvoids ==
    ASSUME NEW s \in FileText, NEW a \in Nat \ {0}, NEW b \in Nat, b <= Len(s)
    PROVE  LET part == SubSeq(s, a, b)
           IN  /\ part \in FileText /\ Len(part) \in Nat
               /\ Len(part) = (IF a <= b THEN (b - a) + 1 ELSE 0)
               /\ \A i \in 1..Len(part) : (a + i) - 1 \in a..b /\ part[i] = s[(a + i) - 1]
               /\ \A c : Avoids(s, c) => Avoids(part, c)
<1>. DEFINE part == SubSeq(s, a, b)
            n == Len(s)
            l == IF a <= b THEN (b - a) + 1 ELSE 0
<1>0. n \in Nat /\ b <= n
  BY LenProperties DEF FileText
<1>1. \A i \in a..b : s[i] \in Marks
  <2>1. \A i \in a..b : i \in 1..n
    BY <1>0
  <2>. QED BY <2>1, ElementOfSeq DEF FileText
<1>2. /\ part \in Seq(Marks)
      /\ Len(part) = (IF a <= b THEN b - a + 1 ELSE 0)
      /\ \A i \in 1..b - a + 1 : part[i] = s[a + i - 1]
  <2>1. a \in Int /\ b \in Int
    OBVIOUS
  <2>. QED BY <1>1, <2>1, SubSeqProperties
<1>. HIDE DEF part, n
<1>3. Len(part) = l /\ l \in Nat
  BY <1>2
<1>4. \A i \in 1..l : (a + i) - 1 \in a..b /\ (a + i) - 1 \in 1..n /\ part[i] = s[(a + i) - 1]
  <2>1. ASSUME NEW i \in 1..l
        PROVE  (a + i) - 1 \in a..b /\ (a + i) - 1 \in 1..n /\ i \in 1..b - a + 1
    BY <1>0
  <2>2. \A i \in 1..l : part[i] = s[a + i - 1]
    BY <1>2, <2>1
  <2>. QED BY <2>1, <2>2
<1>. HIDE DEF l
<1>5. \A c : Avoids(s, c) => Avoids(part, c)
  BY <1>3, <1>4 DEF Avoids, n
<1>. QED BY <1>2, <1>3, <1>4, <1>5 DEF part, l, FileText

\* fgets takes a part of any text.
LEMMA GetsTyped ==
    ASSUME NEW file \in FileText
    PROVE  Gets(file) \in FileText /\ Len(Gets(file)) \in Nat
<1>. DEFINE n == Len(file)
            T == {i \in DOMAIN file : file[i] = LineEnd} \cup {n, LineSize - 1}
            m == Min(T)
<1>1. n \in Nat /\ DOMAIN file = 1..n
  BY LenProperties DEF FileText
<1>2. LineSize - 1 \in Nat
  BY SizesAssumption
<1>3. T \in SUBSET Nat /\ n \in T
  BY <1>1, <1>2
<1>4. Gets(file) = SubSeq(file, 1, m)
  BY DEF Gets
<1>. HIDE DEF T
<1>5. m \in Nat /\ m <= n
  <2>1. T # {}
    BY <1>3
  <2>2. Min(T) \in T /\ Min(T) <= n
    BY <1>3, <2>1, LeastIs
  <2>. QED BY <1>3, <2>2
<1>. HIDE DEF m
<1>6. 1 \in Nat \ {0}
  OBVIOUS
<1>. QED BY <1>4, <1>5, <1>6, PartAvoids DEF n

LEMMA LinesTyped ==
    ASSUME NEW file \in FileText
    PROVE  LinesOf(file) \in Seq(FileText)
<1>. DEFINE n == Len(file)
            Typed(a) == a.lines \in Seq(FileText) /\ a.rest \in FileText
<1>1. n \in Nat
  BY LenProperties DEF FileText
<1>2. PICK g : /\ g[0] = [lines |-> <<>>, rest |-> file]
               /\ \A i \in 0..n - 1 : g[i + 1] = ReadLine(g[i])
               /\ LinesOf(file) = g[n].lines
  BY <1>1, LinesSteps
<1>3. ASSUME NEW a, Typed(a) PROVE Typed(ReadLine(a))
  <2>1. CASE a.rest = <<>>
    BY <1>3, <2>1, NothingMoreRead
  <2>2. CASE a.rest # <<>>
    <3>. DEFINE line == Gets(a.rest)
                lines == Append(a.lines, line)
                rest == SubSeq(a.rest, Len(line) + 1, Len(a.rest))
    <3>1. line \in FileText /\ Len(line) \in Nat
      BY <1>3, GetsTyped
    <3>2. ReadLine(a) = [lines |-> lines, rest |-> rest]
      BY <2>2 DEF ReadLine
    <3>3. lines \in Seq(FileText)
      <4>1. a.lines \in Seq(FileText) /\ line \in FileText
        BY <1>3, <3>1
      <4>. HIDE DEF line
      <4>. QED BY <4>1, AppendProperties
    <3>4. rest \in FileText
      <4>1. Len(a.rest) \in Nat
        BY <1>3, LenProperties DEF FileText
      <4>2. Len(line) + 1 \in Nat \ {0} /\ a.rest \in FileText /\ Len(a.rest) <= Len(a.rest)
        BY <1>3, <3>1, <4>1
      <4>. HIDE DEF line
      <4>. QED BY <4>1, <4>2, PartAvoids
    <3>. HIDE DEF lines, rest
    <3>. QED BY <3>2, <3>3, <3>4
  <2>. QED BY <2>1, <2>2
<1>. DEFINE T == {i \in 0..n : Typed(g[i])}
<1>4. 0 \in T
  <2>1. <<>> \in Seq(FileText)
    BY EmptySeq
  <2>. DEFINE e == <<>>
  <2>2. e \in Seq(FileText) /\ g[0] = [lines |-> e, rest |-> file]
    BY <1>2, <2>1
  <2>. HIDE DEF e
  <2>. QED BY <1>1, <2>2
<1>5. ASSUME NEW i \in 0..n - 1, i \in T PROVE i + 1 \in T
  <2>1. i + 1 \in 0..n /\ Typed(g[i]) /\ g[i + 1] = ReadLine(g[i])
    BY <1>1, <1>2, <1>5
  <2>. HIDE DEF Typed
  <2>2. Typed(g[i + 1])
    BY <1>3, <2>1
  <2>. QED BY <2>1, <2>2
<1>6. n \in T
  <2>. HIDE DEF T
  <2>1. 0..n \subseteq T
    BY <1>1, <1>4, <1>5, UpTo
  <2>. QED BY <1>1, <2>1
<1>. QED BY <1>2, <1>6

\* The map is made of the settings of the lines as they are read.
LEMMA TextLoaded ==
    ASSUME NEW file, NEW n \in Nat, Len(LinesOf(file)) = n
    PROVE  LoadFile(file) = FirstPairs([i \in 1..n |-> ParseLine(LinesOf(file)[i])], n)
<1>. DEFINE texts == LinesOf(file)
            s == [i \in 1..n |-> ParseLine(texts[i])]
<1>1. \A i \in 1..n : s[i] = ParseLine(texts[i])
  OBVIOUS
<1>2. Len(texts) = n /\ texts = LinesOf(file)
  OBVIOUS
<1>. HIDE DEF texts, s
<1>3. PICK g : /\ g[0] = {}
               /\ \A i \in 0..n - 1 : g[i + 1] = Inserted(g[i], ParseLine(texts[i + 1]))
               /\ LoadFile(file) = g[n]
  <2>1. Len(texts) \in Nat
    BY <1>2
  <2>2. \E g : /\ g[0] = {}
               /\ \A i \in 0..Len(texts) - 1 : g[i + 1] = Inserted(g[i], ParseLine(texts[i + 1]))
               /\ LoadFile(file) = g[Len(texts)]
    BY <1>2, <2>1, LoadSteps, Zenon
  <2>. QED BY <1>2, <2>2
<1>. DEFINE T == {i \in 0..n : g[i] = FirstPairs(s, i)}
<1>4. 0 \in T
  BY <1>3 DEF FirstPairs
<1>5. ASSUME NEW i \in 0..n - 1, i \in T PROVE i + 1 \in T
  <2>1. i + 1 \in 1..n /\ i \in Nat /\ g[i] = FirstPairs(s, i)
    BY <1>5
  <2>2. g[i + 1] = Inserted(g[i], s[i + 1])
    BY <1>1, <1>3, <2>1
  <2>3. Inserted(FirstPairs(s, i), s[i + 1]) = FirstPairs(s, i + 1)
    BY <2>1, FirstsGrow
  <2>. QED BY <2>1, <2>2, <2>3
<1>6. n \in T
  <2>. HIDE DEF T
  <2>1. 0..n \subseteq T
    BY <1>4, <1>5, UpTo
  <2>. QED BY <2>1
<1>. QED BY <1>3, <1>6 DEF s, texts

\* A file of proper lines that fit sets each key to the first value.
LEMMA FileLoaded ==
    ASSUME NEW n \in Nat, NEW lines, DOMAIN lines = 1..n,
           \A i \in 1..n : ProperLine(lines[i]) /\ Fitting(lines[i])
    PROVE  LoadFile(FileOf(lines)) = FirstPairs([i \in 1..n |-> SettingOf(lines[i])], n)
<1>. DEFINE texts == [i \in 1..n |-> LineText(lines[i])]
            file == FlattenSeq(texts)
<1>1. FileOf(lines) = file
  BY DEF FileOf
<1>2. texts \in [1..n -> WholeLines] /\ \A i \in 1..n : ParseLine(texts[i]) = SettingOf(lines[i])
  BY LineParsed
<1>3. texts \in Seq(WholeLines) /\ Len(texts) = n
  BY <1>2, FunctionIsSeq
<1>. HIDE DEF texts
<1>4. LinesOf(file) = texts
  BY <1>3, LinesRead
<1>. HIDE DEF file
<1>5. LoadFile(file) = FirstPairs([i \in 1..n |-> ParseLine(texts[i])], n)
  BY <1>3, <1>4, TextLoaded
<1>6. [i \in 1..n |-> ParseLine(texts[i])] = [i \in 1..n |-> SettingOf(lines[i])]
  BY <1>2
<1>. QED BY <1>1, <1>5, <1>6

\* Cutting a text at a character.
LEMMA CutAvoids ==
    ASSUME NEW s \in FileText, NEW c
    PROVE  /\ Before(s, c) \in FileText /\ Avoids(Before(s, c), c)
           /\ \A d : Avoids(s, d) => Avoids(Before(s, c), d)
           /\ Contains(s, c) => After(s, c) \in FileText
           /\ Contains(s, c) => \A d : Avoids(s, d) => Avoids(After(s, c), d)
<1>. DEFINE n == Len(s)
            T == {i \in DOMAIN s : s[i] = c}
            m == Min(T)
<1>1. n \in Nat /\ DOMAIN s = 1..n
  BY LenProperties DEF FileText
<1>2. CASE ~Contains(s, c)
  <2>1. Before(s, c) = s
    BY <1>2 DEF Before
  <2>2. Avoids(s, c)
    BY <1>2 DEF Avoids, Contains
  <2>. QED BY <1>2, <2>1, <2>2
<1>3. CASE Contains(s, c)
  <2>1. T \in SUBSET Nat /\ T # {}
    BY <1>1, <1>3 DEF Contains
  <2>2. FirstPlace(s, c) = m
    BY DEF FirstPlace
  <2>. HIDE DEF T
  <2>3. m \in T /\ \A y \in T : m <= y
    BY <2>1, LeastIs
  <2>. HIDE DEF m
  <2>4. m \in 1..n
    BY <1>1, <2>3 DEF T
  <2>5. Before(s, c) = SubSeq(s, 1, m - 1) /\ After(s, c) = SubSeq(s, m + 1, n)
    BY <1>3, <2>2 DEF Before, After
  <2>6. /\ 1 \in Nat \ {0} /\ m - 1 \in Nat /\ m - 1 <= n
        /\ m + 1 \in Nat \ {0} /\ n <= n
    BY <1>1, <2>4
  <2>. DEFINE front == SubSeq(s, 1, m - 1)
              rest == SubSeq(s, m + 1, n)
  <2>7. /\ front \in FileText
        /\ \A i \in 1..Len(front) : (1 + i) - 1 \in 1..m - 1 /\ front[i] = s[(1 + i) - 1]
        /\ \A d : Avoids(s, d) => Avoids(front, d)
    BY <2>6, PartAvoids
  <2>8. rest \in FileText /\ \A d : Avoids(s, d) => Avoids(rest, d)
    BY <1>1, <2>6, PartAvoids
  <2>. HIDE DEF front, rest
  <2>9. Avoids(front, c)
    <3>1. ASSUME NEW i \in 1..Len(front) PROVE front[i] # c
      <4>1. (1 + i) - 1 \in 1..m - 1 /\ front[i] = s[(1 + i) - 1]
        BY <2>7
      <4>2. (1 + i) - 1 \in 1..n /\ (1 + i) - 1 < m
        BY <1>1, <2>4, <4>1
      <4>3. (1 + i) - 1 \notin T
        BY <2>3, <2>4, <4>2
      <4>. QED BY <1>1, <4>1, <4>2, <4>3 DEF T
    <3>. QED BY <3>1 DEF Avoids
  <2>. QED BY <1>3, <2>5, <2>7, <2>8, <2>9 DEF front, rest
<1>. QED BY <1>2, <1>3

\* What is left of a text without the blanks around it.
LEMMA TrimSound ==
    ASSUME NEW s \in FileText
    PROVE  /\ TrimSpace(s) \in FileText /\ Trimmed(TrimSpace(s))
           /\ \A d : Avoids(s, d) => Avoids(TrimSpace(s), d)
<1>. DEFINE n == Len(s)
            T == {i \in DOMAIN s : s[i] # Blank}
            a == Min(T)
            b == Max(T)
<1>1. n \in Nat /\ DOMAIN s = 1..n
  BY LenProperties DEF FileText
<1>2. TrimSpace(s) = IF T = {} THEN <<>> ELSE SubSeq(s, a, b)
  BY DEF TrimSpace
<1>3. CASE T = {}
  <2>1. TrimSpace(s) = <<>>
    BY <1>2, <1>3
  <2>. QED BY <2>1, MarkTexts DEF Trimmed
<1>4. CASE T # {}
  <2>1. T \in SUBSET Nat /\ T \in SUBSET (1..n)
    BY <1>1
  <2>. HIDE DEF T
  <2>2. a \in T /\ \A y \in T : a <= y
    BY <1>4, <2>1, LeastIs
  <2>3. b \in T /\ \A y \in T : y <= b
    <3>1. PICK y \in T : TRUE
      BY <1>4
    <3>2. 1 \in Nat /\ n \in Nat /\ T \in SUBSET (1..n) /\ y \in T
      BY <1>1, <2>1, <3>1
    <3>. QED BY <3>2, LargestIs
  <2>4. TrimSpace(s) = SubSeq(s, a, b)
    BY <1>2, <1>4
  <2>. HIDE DEF a, b
  <2>5. a \in Nat \ {0} /\ b \in Nat /\ b <= n /\ a <= b /\ a \in 1..n /\ b \in 1..n
    BY <1>1, <2>1, <2>2, <2>3
  <2>. DEFINE part == SubSeq(s, a, b)
  <2>6. /\ part \in FileText /\ Len(part) = (IF a <= b THEN (b - a) + 1 ELSE 0)
        /\ \A i \in 1..Len(part) : part[i] = s[(a + i) - 1]
        /\ \A d : Avoids(s, d) => Avoids(part, d)
    BY <2>5, PartAvoids
  <2>. HIDE DEF part
  <2>7. s[a] # Blank /\ s[b] # Blank
    BY <2>2, <2>3 DEF T
  <2>8. part[1] = s[a] /\ part[Len(part)] = s[b]
    <3>. DEFINE l == (b - a) + 1
    <3>1. l \in Nat /\ 1 \in 1..l /\ l \in 1..l /\ (a + 1) - 1 = a /\ (a + l) - 1 = b
      BY <2>5
    <3>2. Len(part) = l
      BY <2>5, <2>6
    <3>. HIDE DEF l
    <3>3. part[1] = s[(a + 1) - 1] /\ part[l] = s[(a + l) - 1]
      BY <2>6, <3>1, <3>2
    <3>. QED BY <3>1, <3>2, <3>3
  <2>9. Trimmed(part)
    BY <2>7, <2>8 DEF Trimmed
  <2>. QED BY <2>4, <2>6, <2>9 DEF part
<1>. QED BY <1>3, <1>4

\* A key and a value as the parser finds them.
SoundPair(p) ==
    /\ p = <<p[1], p[2]>>
    /\ p[1] \in FileText /\ Trimmed(p[1])
    /\ Avoids(p[1], LineEnd) /\ Avoids(p[1], Hash) /\ Avoids(p[1], Equals)
    /\ p[2] \in FileText /\ Trimmed(p[2])
    /\ Avoids(p[2], LineEnd) /\ Avoids(p[2], Hash)

LEMMA ParsedSound ==
    ASSUME NEW line \in FileText
    PROVE  SoundPair(ParseLine(line))
<1>. DEFINE b == Before(line, LineEnd)
            l == Before(b, Hash)
            k == Before(l, Equals)
            v == After(l, Equals)
<1>1. b \in FileText /\ Avoids(b, LineEnd)
  BY CutAvoids
<1>. HIDE DEF b
<1>2. l \in FileText /\ Avoids(l, Hash) /\ Avoids(l, LineEnd)
  BY <1>1, CutAvoids
<1>3. ParseLine(line) = IF Contains(l, Equals) THEN <<TrimSpace(k), TrimSpace(v)>>
                        ELSE <<<<>>, <<>>>>
  BY DEF ParseLine, b
<1>. HIDE DEF l
<1>4. CASE ~Contains(l, Equals)
  <2>. DEFINE e == <<>>
              p == <<e, e>>
  <2>1. e \in FileText /\ Trimmed(e) /\ \A c : Avoids(e, c)
    BY MarkTexts DEF Trimmed
  <2>2. ParseLine(line) = p
    BY <1>3, <1>4
  <2>. HIDE DEF e
  <2>3. p[1] = e /\ p[2] = e /\ p = <<p[1], p[2]>>
    OBVIOUS
  <2>. HIDE DEF p
  <2>. QED BY <2>1, <2>2, <2>3 DEF SoundPair
<1>5. CASE Contains(l, Equals)
  <2>1. k \in FileText /\ Avoids(k, Equals) /\ Avoids(k, LineEnd) /\ Avoids(k, Hash)
    BY <1>2, CutAvoids
  <2>2. v \in FileText /\ Avoids(v, LineEnd) /\ Avoids(v, Hash)
    BY <1>2, <1>5, CutAvoids
  <2>. HIDE DEF k, v
  <2>. DEFINE x == TrimSpace(k)
              y == TrimSpace(v)
              p == <<x, y>>
  <2>3. /\ x \in FileText /\ Trimmed(x)
        /\ Avoids(x, Equals) /\ Avoids(x, LineEnd) /\ Avoids(x, Hash)
    BY <2>1, TrimSound
  <2>4. y \in FileText /\ Trimmed(y) /\ Avoids(y, LineEnd) /\ Avoids(y, Hash)
    BY <2>2, TrimSound
  <2>5. ParseLine(line) = p
    BY <1>3, <1>5
  <2>. HIDE DEF x, y
  <2>6. p[1] = x /\ p[2] = y /\ p = <<p[1], p[2]>>
    OBVIOUS
  <2>. HIDE DEF p
  <2>. QED BY <2>3, <2>4, <2>5, <2>6 DEF SoundPair
<1>. QED BY <1>4, <1>5

\* A map of such pairs is read back when all of its lines fit the writer's
\* buffer.
LEMMA MapReread ==
    ASSUME NEW M, IsFiniteSet(M), \A p, q \in M : p[1] = q[1] => p = q,
           \A p \in M : IsSet(p) /\ SoundPair(p) /\ Len(Line(p)) < PairSize
    PROVE  LoadFile(WriteFile(M)) = M
<1>1. PICK n \in Nat : /\ SetToSeq(M) \in [1..n -> M]
                       /\ \A i, j \in 1..n : SetToSeq(M)[i] = SetToSeq(M)[j] => i = j
                       /\ \A x \in M : \E i \in 1..n : SetToSeq(M)[i] = x
  BY SetInOrder
<1>. DEFINE s == SetToSeq(M)
            lines == [i \in 1..n |-> BareLine(s[i])]
<1>2. ASSUME NEW p \in M
      PROVE  /\ ProperLine(BareLine(p)) /\ Fitting(BareLine(p)) /\ SettingOf(BareLine(p)) = p
             /\ PairText(p) = LineText(BareLine(p))
  <2>. DEFINE b == BareLine(p)
  <2>1. /\ p = <<p[1], p[2]>>
        /\ p[1] \in FileText /\ Trimmed(p[1])
        /\ Avoids(p[1], LineEnd) /\ Avoids(p[1], Hash) /\ Avoids(p[1], Equals)
        /\ p[2] \in FileText /\ Trimmed(p[2])
        /\ Avoids(p[2], LineEnd) /\ Avoids(p[2], Hash)
    BY DEF SoundPair
  <2>2. LineText(b) = Line(p) /\ Line(p) \in FileText
    BY <2>1, BareLineText
  <2>3. PairText(p) = Line(p)
    BY <2>2, LineWritten
  <2>4. /\ b.pad = [k \in 1..4 |-> <<>>] /\ b.key = p[1] /\ b.sign = <<Equals>>
        /\ b.value = p[2] /\ b.note = <<>>
    BY DEF BareLine
  <2>5. <<Equals>> # <<>>
    OBVIOUS
  <2>. HIDE DEF b
  <2>6. SettingOf(b) = p
    BY <2>1, <2>4, <2>5 DEF SettingOf
  <2>7. b.pad \in [1..4 -> Seq({Blank})]
    <3>1. <<>> \in Seq({Blank})
      BY EmptySeq
    <3>. QED BY <2>4, <3>1
  <2>8. b.note \in FileText /\ Avoids(b.note, LineEnd) /\ b.note = <<>>
    BY <2>4, MarkTexts
  <2>9. b.sign \in {<<>>, <<Equals>>} /\ b.sign # <<>>
    BY <2>4, <2>5
  <2>10. ProperLine(b)
    BY <2>1, <2>4, <2>7, <2>8, <2>9 DEF ProperLine
  <2>11. Fitting(b)
    <3>1. Len(Line(p)) \in Nat
      BY <2>2, LenProperties DEF FileText
    <3>. QED BY <2>2, <3>1, SizesAssumption DEF Fitting
  <2>. QED BY <2>2, <2>3, <2>6, <2>10, <2>11 DEF b
<1>3. s \in [1..n -> M] /\ DOMAIN s = 1..n /\ DOMAIN lines = 1..n
  BY <1>1
<1>4. \A i, j \in 1..n : s[i] = s[j] => i = j
  BY <1>1
<1>5. \A x \in M : \E i \in 1..n : s[i] = x
  BY <1>1
<1>6. WriteFile(M) = FlattenSeq([i \in DOMAIN s |-> PairText(s[i])])
  BY DEF WriteFile
<1>. HIDE DEF s
<1>7. \A i \in 1..n : s[i] \in M /\ lines[i] = BareLine(s[i])
  BY <1>3
<1>8. [i \in DOMAIN s |-> PairText(s[i])] = [i \in DOMAIN lines |-> LineText(lines[i])]
  <2>1. \A i \in 1..n : PairText(s[i]) = LineText(lines[i])
    BY <1>2, <1>7
  <2>. HIDE DEF lines
  <2>. QED BY <1>3, <2>1
<1>9. WriteFile(M) = FileOf(lines)
  BY <1>6, <1>8 DEF FileOf
<1>. HIDE DEF lines
<1>10. \A i \in 1..n : ProperLine(lines[i]) /\ Fitting(lines[i]) /\ SettingOf(lines[i]) = s[i]
  BY <1>2, <1>7
<1>11. LoadFile(FileOf(lines)) = FirstPairs([i \in 1..n |-> SettingOf(lines[i])], n)
  BY <1>3, <1>10, FileLoaded
<1>12. [i \in 1..n |-> SettingOf(lines[i])] = s
  BY <1>3, <1>10
<1>13. \A k \in 1..n : SetsFirst(s, k)
  <2>1. ASSUME NEW k \in 1..n, NEW j \in 1..k - 1 PROVE s[j][1] # s[k][1]
    <3>1. j \in 1..n /\ j # k
      OBVIOUS
    <3>2. s[j] # s[k] /\ s[j] \in M /\ s[k] \in M
      BY <1>4, <1>7, <3>1
    <3>. QED BY <3>2
  <2>2. \A k \in 1..n : IsSet(s[k])
    BY <1>7
  <2>. QED BY <2>1, <2>2 DEF SetsFirst
<1>14. FirstPairs(s, n) = M
  <2>1. \A x : x \in FirstPairs(s, n) <=> \E k \in 1..n : x = s[k]
    BY <1>13 DEF FirstPairs
  <2>2. \A x : x \in M <=> \E k \in 1..n : x = s[k]
    BY <1>5, <1>7
  <2>3. \A x : x \in FirstPairs(s, n) <=> x \in M
    BY <2>1, <2>2, Zenon
  <2>. QED BY <2>3
<1>. QED BY <1>9, <1>11, <1>12, <1>14

\* Any file is read into a map that is read back, when its lines fit the
\* writer's buffer: lines of the file that are too long for the reader's make
\* several lines, each with a setting or none.
LEMMA TextReread ==
    ASSUME NEW file \in FileText, NEW map, map = LoadFile(file),
           \A p \in map : Len(Line(p)) < PairSize
    PROVE  LoadFile(WriteFile(map)) = map
<1>. DEFINE texts == LinesOf(file)
            n == Len(texts)
            s == [i \in 1..n |-> ParseLine(texts[i])]
<1>1. texts \in Seq(FileText)
  BY LinesTyped
<1>2. n \in Nat
  BY <1>1, LenProperties
<1>3. map = FirstPairs(s, n)
  BY <1>2, TextLoaded
<1>4. \A i \in 1..n : SoundPair(s[i])
  <2>1. \A i \in 1..n : texts[i] \in FileText
    BY <1>1, ElementOfSeq
  <2>2. \A i \in 1..n : s[i] = ParseLine(texts[i])
    OBVIOUS
  <2>. HIDE DEF texts, s, n
  <2>. QED BY <2>1, <2>2, ParsedSound
<1>. HIDE DEF s, n
<1>5. IsFiniteSet(map) /\ \A p, q \in map : p[1] = q[1] => p = q
  BY <1>2, <1>3, FirstsFinite
<1>6. \A p \in map : IsSet(p) /\ \E k \in 1..n : p = s[k]
  BY <1>2, <1>3, FirstsFinite
<1>7. \A p \in map : IsSet(p) /\ SoundPair(p) /\ Len(Line(p)) < PairSize
  BY <1>4, <1>6
<1>. QED BY <1>5, <1>7, MapReread

\* The text of proper lines.
LEMMA FileTyped ==
    ASSUME NEW S, NEW lines \in Seq(S), \A i \in DOMAIN lines : ProperLine(lines[i])
    PROVE  FileOf(lines) \in FileText
<1>. DEFINE n == Len(lines)
            texts == [i \in 1..n |-> LineText(lines[i])]
<1>1. n \in Nat /\ DOMAIN lines = 1..n
  BY LenProperties
<1>. HIDE DEF n
<1>2. texts \in [1..n -> FileText]
  BY <1>1, LineParsed
<1>3. texts \in Seq(FileText)
  BY <1>1, <1>2, FunctionIsSeq
<1>4. FileOf(lines) = FlattenSeq(texts)
  BY <1>1 DEF FileOf
<1>. HIDE DEF texts
<1>. QED BY <1>3, <1>4, FlattenLast DEF FileText

\* A file of proper lines that fit gives each key the first of its values.
LEMMA FirstWins ==
    ASSUME NEW S, NEW lines \in Seq(S),
           \A i \in DOMAIN lines : ProperLine(lines[i]) /\ Fitting(lines[i]),
           NEW map, map = LoadFile(FileOf(lines))
    PROVE  LET first(k) == Setting(lines[k]) /\ \A j \in 1..k - 1 :
                             Setting(lines[j]) => lines[j].key # lines[k].key
           IN  map = {<<lines[k].key, lines[k].value>> : k \in {i \in DOMAIN lines : first(i)}}
<1>. DEFINE n == Len(lines)
            s == [i \in 1..n |-> SettingOf(lines[i])]
            First(k) == Setting(lines[k]) /\ \A j \in 1..k - 1 :
                          Setting(lines[j]) => lines[j].key # lines[k].key
<1>1. n \in Nat /\ DOMAIN lines = 1..n
  BY LenProperties
<1>. HIDE DEF n
<1>2. \A i \in 1..n : ProperLine(lines[i]) /\ Fitting(lines[i])
  BY <1>1
<1>3. map = FirstPairs(s, n)
  BY <1>1, <1>2, FileLoaded
<1>4. \A i \in 1..n : s[i] = SettingOf(lines[i])
  OBVIOUS
<1>5. ASSUME NEW i \in 1..n
      PROVE  /\ IsSet(s[i]) <=> Setting(lines[i])
             /\ Setting(lines[i]) =>
                  s[i] = <<lines[i].key, lines[i].value>> /\ s[i][1] = lines[i].key
  <2>1. CASE lines[i].sign = <<>>
    <3>1. s[i] = <<<<>>, <<>>>>
      BY <1>4, <2>1 DEF SettingOf
    <3>2. s[i][1] = <<>>
      BY <3>1
    <3>. QED BY <2>1, <3>2 DEF IsSet, Setting
  <2>2. CASE lines[i].sign # <<>>
    <3>1. s[i] = <<lines[i].key, lines[i].value>>
      BY <1>4, <2>2 DEF SettingOf
    <3>2. s[i][1] = lines[i].key /\ s[i][2] = lines[i].value
      BY <3>1
    <3>. QED BY <2>2, <3>1, <3>2 DEF IsSet, Setting
  <2>. QED BY <2>1, <2>2
<1>. HIDE DEF s
<1>6. ASSUME NEW k \in 1..n PROVE SetsFirst(s, k) <=> First(k)
  <2>1. \A j \in 1..k - 1 : j \in 1..n
    BY <1>1
  <2>2. ASSUME Setting(lines[k])
        PROVE  \A j \in 1..k - 1 : (IsSet(s[j]) => s[j][1] # s[k][1])
                                     <=> (Setting(lines[j]) => lines[j].key # lines[k].key)
    BY <1>5, <2>1, <2>2
  <2>. QED BY <1>5, <2>2 DEF SetsFirst
<1>. DEFINE pairs == {<<lines[k].key, lines[k].value>> : k \in {i \in 1..n : First(i)}}
<1>7. \A x : x \in map <=> \E k \in 1..n : SetsFirst(s, k) /\ x = s[k]
  BY <1>3 DEF FirstPairs
<1>8. \A x : x \in pairs <=> \E k \in 1..n : First(k) /\ x = <<lines[k].key, lines[k].value>>
  OBVIOUS
<1>9. \A k \in 1..n : First(k) => s[k] = <<lines[k].key, lines[k].value>>
  BY <1>5
<1>. HIDE DEF First, pairs
<1>10. map = pairs
  <2>1. ASSUME NEW x \in map PROVE x \in pairs
    <3>1. PICK k \in 1..n : SetsFirst(s, k) /\ x = s[k]
      BY <1>7
    <3>2. First(k)
      BY <1>6, <3>1
    <3>. QED BY <1>8, <1>9, <3>1, <3>2
  <2>2. ASSUME NEW x \in pairs PROVE x \in map
    <3>1. PICK k \in 1..n : First(k) /\ x = <<lines[k].key, lines[k].value>>
      BY <1>8
    <3>2. SetsFirst(s, k)
      BY <1>6, <3>1
    <3>. QED BY <1>7, <1>9, <3>1, <3>2
  <2>. QED BY <2>1, <2>2
<1>. QED BY <1>1, <1>10 DEF pairs, First

\* What is read of a configuration is kept by writing it back, each key with
\* the first of its values if the lines fit the buffer
\* (CConfigFileReader, config_file_reader.cc:29-135).
THEOREM ConfigurationsReread == CodecsSpec => []ConfigReread
<1>1. Results => ConfigReread
  <2>. SUFFICES ASSUME Results, Computed("config") PROVE ConfigFirstWins /\ ConfigKept
    BY DEF ConfigReread, ConfigFirstWins, ConfigKept
  <2>. DEFINE map == LoadFile(FileOf(job.input))
  <2>1. out.value.map = map /\ out.value.again = LoadFile(WriteFile(map))
    BY DEF Results, Configured
  <2>2. \A i \in DOMAIN job.input : ProperLine(job.input[i])
    BY ConfigTyped DEF Results, Computed
  <2>3. \E S : job.input \in Seq(S)
    BY ConfigTyped DEF Results, Computed
  <2>. HIDE DEF map
  <2>4. map = LoadFile(FileOf(job.input))
    BY DEF map
  <2>5. ConfigFirstWins
    <3>. SUFFICES ASSUME \A i \in DOMAIN job.input : Fitting(job.input[i])
                  PROVE  LET first(k) == Setting(job.input[k]) /\ \A j \in 1..k - 1 :
                               Setting(job.input[j]) => job.input[j].key # job.input[k].key
                         IN  out.value.map = {<<job.input[k].key, job.input[k].value>> :
                                                k \in {i \in DOMAIN job.input : first(i)}}
      BY DEF ConfigFirstWins
    <3>1. \A i \in DOMAIN job.input : ProperLine(job.input[i]) /\ Fitting(job.input[i])
      BY <2>2
    <3>. QED BY <2>1, <2>3, <2>4, <3>1, FirstWins
  <2>6. ConfigKept
    <3>1. FileOf(job.input) \in FileText
      BY <2>2, <2>3, FileTyped
    <3>2. (\A p \in map : Len(Line(p)) < PairSize) => LoadFile(WriteFile(map)) = map
      BY <2>4, <3>1, TextReread
    <3>. QED BY <2>1, <3>2 DEF ConfigKept
  <2>. QED BY <2>5, <2>6
<1>. QED BY <1>1, Computations, PTL

=============================================================================
