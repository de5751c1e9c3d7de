------------------------- MODULE LogicServiceProofs -------------------------
(***************************************************************************)
(* Proofs about LogicService, for any messages, connections, partitions,   *)
(* queue limit and number of faults: where every accepted message is, that *)
(* it was accepted from a whole body and once, and what a consumer that    *)
(* has gone past a record has done with it.                                *)
(***************************************************************************)
EXTENDS LogicService, FiniteSetTheorems, FunctionTheorems, SequenceTheorems,
        WellFoundedInduction, TLAPS

-----------------------------------------------------------------------------
(* Smallest elements.                                                      *)

LEMMA SmallestIn ==
    ASSUME NEW S \in SUBSET Nat, S # {}
    PROVE  Min(S) \in S
<1>1. \E x \in S : \A y \in S : ~ (<<y, x>> \in OpToRel(<, Nat))
  BY NatLessThanWellFounded, WFMin
<1>2. ASSUME NEW x \in S, NEW y \in S, ~ (<<y, x>> \in OpToRel(<, Nat))
      PROVE  x <= y
  <2>1. ~ (y < x)
    BY <1>2 DEF OpToRel
  <2>. QED BY <2>1
<1>3. \E x \in S : \A y \in S : x <= y
  BY <1>1, <1>2
<1>. QED BY <1>3 DEF Min

-----------------------------------------------------------------------------
(* How often a message occurs in a sequence.                               *)

Positions(s, m) == {i \in DOMAIN s : s[i] = m}

LEMMA PositionsFinite ==
    ASSUME NEW S, NEW s \in Seq(S), NEW m
    PROVE  /\ IsFiniteSet(Positions(s, m))
           /\ Times(s, m) = Cardinality(Positions(s, m))
           /\ Times(s, m) \in Nat
<1>1. Positions(s, m) \in SUBSET (1..Len(s)) /\ Len(s) \in Nat
  BY DEF Positions
<1>2. IsFiniteSet(1..Len(s))
  BY <1>1, FS_Interval
<1>3. IsFiniteSet(Positions(s, m))
  BY <1>1, <1>2, FS_Subset
<1>4. Times(s, m) = Cardinality(Positions(s, m))
  BY DEF Times, Positions
<1>. QED BY <1>3, <1>4, FS_CardinalityType

LEMMA TimesNone ==
    ASSUME NEW S, NEW s \in Seq(S), NEW m
    PROVE  Times(s, m) = 0 <=> ~Contains(s, m)
<1>1. Times(s, m) = 0 <=> Positions(s, m) = {}
  BY PositionsFinite, FS_EmptySet
<1>2. Positions(s, m) = {} <=> ~Contains(s, m)
  BY DEF Positions, Contains
<1>. QED BY <1>1, <1>2

LEMMA TimesEmpty ==
    ASSUME NEW m
    PROVE  Times(<<>>, m) = 0
<1>1. <<>> \in Seq({}) /\ ~Contains(<<>>, m)
  BY DEF Contains
<1>. QED BY <1>1, TimesNone

LEMMA TimesAppend ==
    ASSUME NEW S, NEW s \in Seq(S), NEW x \in S, NEW m
    PROVE  Times(Append(s, x), m) = Times(s, m) + (IF x = m THEN 1 ELSE 0)
<1>1. /\ Append(s, x) \in Seq(S) /\ Len(s) \in Nat /\ DOMAIN s = 1..Len(s)
      /\ DOMAIN Append(s, x) = 1..(Len(s) + 1)
      /\ Append(s, x)[Len(s) + 1] = x
      /\ \A i \in 1..Len(s) : Append(s, x)[i] = s[i]
  OBVIOUS
<1>2. Positions(Append(s, x), m)
        = IF x = m THEN Positions(s, m) \cup {Len(s) + 1} ELSE Positions(s, m)
  BY <1>1 DEF Positions
<1>3. Len(s) + 1 \notin Positions(s, m)
  BY <1>1 DEF Positions
<1>4. IsFiniteSet(Positions(s, m)) /\ Times(s, m) = Cardinality(Positions(s, m))
  BY PositionsFinite
<1>5. Times(Append(s, x), m) = Cardinality(Positions(Append(s, x), m)) /\ Times(s, m) \in Nat
  BY <1>1, PositionsFinite
<1>6. Cardinality(Positions(s, m) \cup {Len(s) + 1}) = Cardinality(Positions(s, m)) + 1
  BY <1>3, <1>4, FS_AddElement
<1>. QED BY <1>2, <1>4, <1>5, <1>6

LEMMA TimesConcat ==
    ASSUME NEW S, NEW s \in Seq(S), NEW t \in Seq(S), NEW m
    PROVE  Times(s \o t, m) = Times(s, m) + Times(t, m)
<1>1. /\ s \o t \in Seq(S) /\ Len(s) \in Nat /\ Len(t) \in Nat
      /\ DOMAIN s = 1..Len(s) /\ DOMAIN t = 1..Len(t)
      /\ DOMAIN (s \o t) = 1..(Len(s) + Len(t))
  BY ConcatProperties, LenProperties
<1>2. \A i \in 1..Len(s) : (s \o t)[i] = s[i]
  BY <1>1, ConcatProperties
<1>3. \A i \in (Len(s) + 1)..(Len(s) + Len(t)) : (s \o t)[i] = t[i - Len(s)]
  BY <1>1, ConcatProperties
<1> DEFINE upper == {i \in (Len(s) + 1)..(Len(s) + Len(t)) : (s \o t)[i] = m}
           shift == [j \in Positions(t, m) |-> j + Len(s)]
<1>4. Positions(s \o t, m) = Positions(s, m) \cup upper
  BY <1>1, <1>2 DEF Positions
<1>5. Positions(s, m) \cap upper = {}
  BY <1>1 DEF Positions
<1>6. shift \in Bijection(Positions(t, m), upper)
  <2>1. shift \in [Positions(t, m) -> upper]
    BY <1>1, <1>3 DEF Positions
  <2>2. \A a, b \in Positions(t, m) : shift[a] = shift[b] => a = b
    BY <1>1 DEF Positions
  <2>3. ASSUME NEW u \in upper
        PROVE  \E a \in Positions(t, m) : shift[a] = u
    <3>1. u - Len(s) \in Positions(t, m) /\ shift[u - Len(s)] = u
      BY <1>1, <1>3 DEF Positions
    <3>. QED BY <3>1
  <2>. QED BY <2>1, <2>2, <2>3, Fun_IsBij
<1>7. IsFiniteSet(upper) /\ Cardinality(upper) = Times(t, m)
  <2>1. IsFiniteSet(Positions(t, m)) /\ Cardinality(Positions(t, m)) = Times(t, m)
    BY PositionsFinite
  <2>2. ExistsBijection(Positions(t, m), upper)
    BY <1>6 DEF ExistsBijection
  <2>. HIDE DEF upper, shift
  <2>. QED BY <2>1, <2>2, FS_Bijection
<1>8. IsFiniteSet(Positions(s, m)) /\ Cardinality(Positions(s, m)) = Times(s, m)
  BY PositionsFinite
<1>9. Cardinality(Positions(s \o t, m)) = Cardinality(Positions(s, m)) + Cardinality(upper)
  <2>. HIDE DEF upper, shift
  <2>1. Cardinality(Positions(s, m) \cup upper)
          = Cardinality(Positions(s, m)) + Cardinality(upper) - Cardinality(Positions(s, m) \cap upper)
    BY <1>7, <1>8, FS_Union
  <2>2. Cardinality(Positions(s, m) \cap upper) = 0
    BY <1>5, FS_EmptySet
  <2>3. Cardinality(Positions(s, m)) \in Nat /\ Cardinality(upper) \in Nat
    BY <1>7, <1>8, FS_CardinalityType
  <2>. QED BY <1>4, <2>1, <2>2, <2>3
<1>10. Times(s \o t, m) = Cardinality(Positions(s \o t, m))
  BY <1>1, PositionsFinite
<1>. HIDE DEF upper, shift
<1>. QED BY <1>7, <1>8, <1>9, <1>10

LEMMA TimesRemoveAt ==
    ASSUME NEW S, NEW s \in Seq(S), NEW i \in DOMAIN s, NEW m
    PROVE  /\ RemoveAt(s, i) \in Seq(S)
           /\ Times(s, m) = Times(RemoveAt(s, i), m) + (IF s[i] = m THEN 1 ELSE 0)
<1>1. Len(s) \in Nat /\ DOMAIN s = 1..Len(s) /\ i \in 1..Len(s)
  OBVIOUS
<1> DEFINE low == SubSeq(s, 1, i - 1)
           high == SubSeq(s, i + 1, Len(s))
<1>2. low \in Seq(S) /\ high \in Seq(S)
  BY <1>1, SubSeqProperties, ElementOfSeq
<1>3. SubSeq(s, 1, i) = low \o <<s[i]>>
  <2>1. 1 \in 1..Len(s) /\ i \in 1..Len(s)
    BY <1>1
  <2>. QED BY <2>1, SubSeqRecursiveSecond, Zenon
<1>4. s[i] \in S
  BY <1>1, ElementOfSeq
<1>5. low \o <<s[i]>> = Append(low, s[i])
  <2>. HIDE DEF low
  <2>. QED BY <1>2, <1>4, AppendIsConcat, Zenon
<1>6. Append(low, s[i]) \in Seq(S)
  <2>. HIDE DEF low
  <2>. QED BY <1>2, <1>4, AppendProperties, Zenon
<1>7. s = SubSeq(s, 1, i) \o high
  <2>1. 1 \in 1..(Len(s) + 1) /\ i \in (1 - 1)..Len(s) /\ Len(s) \in i..Len(s)
    BY <1>1
  <2>2. SubSeq(s, 1, i) \o high = SubSeq(s, 1, Len(s))
    BY <2>1, ConcatAdjacentSubSeq, Zenon
  <2>3. SubSeq(s, 1, Len(s)) = s
    BY SubSeqFull, Zenon
  <2>. QED BY <2>2, <2>3, Zenon
<1>8. Times(s, m) = Times(low, m) + (IF s[i] = m THEN 1 ELSE 0) + Times(high, m)
  <2>. HIDE DEF low, high
  <2>1. s = Append(low, s[i]) \o high
    BY <1>3, <1>5, <1>7, Zenon
  <2>2. Times(Append(low, s[i]) \o high, m) = Times(Append(low, s[i]), m) + Times(high, m)
    BY <1>2, <1>6, TimesConcat, Zenon
  <2>3. Times(Append(low, s[i]), m) = Times(low, m) + (IF s[i] = m THEN 1 ELSE 0)
    BY <1>2, <1>4, TimesAppend
  <2>. QED BY <2>1, <2>2, <2>3, Zenon
<1>9. RemoveAt(s, i) = low \o high
  BY DEF RemoveAt
<1>10. low \o high \in Seq(S) /\ Times(low \o high, m) = Times(low, m) + Times(high, m)
  <2>. HIDE DEF low, high
  <2>. QED BY <1>2, TimesConcat, ConcatProperties, Zenon
<1>11. Times(low, m) \in Nat /\ Times(high, m) \in Nat
  BY <1>2, PositionsFinite
<1>. HIDE DEF low, high
<1>. QED BY <1>8, <1>9, <1>10, <1>11

-----------------------------------------------------------------------------
(* The bytes of a connection, and the request that one read takes them for. *)

Piece == [part : {"line", "head", "body", "rest"}, msg : Msg]

LEMMA PieceOf ==
    ASSUME NEW s \in Seq(Msg)
    PROVE  /\ Bytes(s) \in Seq(Piece) /\ Len(Bytes(s)) = 4 * Len(s)
           /\ \A i \in 1..4 * Len(s) :
                /\ Bytes(s)[i].part = Parts[((i - 1) % 4) + 1]
                /\ Bytes(s)[i].msg = s[((i - 1) \div 4) + 1]
                /\ ((i - 1) \div 4) + 1 \in 1..Len(s)
<1>1. Len(s) \in Nat /\ 4 * Len(s) \in Nat /\ s \in [1..Len(s) -> Msg]
  OBVIOUS
<1>2. \A i \in 1..4 * Len(s) : ((i - 1) % 4) + 1 \in 1..4 /\ ((i - 1) \div 4) + 1 \in 1..Len(s)
  BY <1>1
<1>3. \A i \in 1..4 : Parts[i] \in {"line", "head", "body", "rest"}
  BY DEF Parts
<1>4. \A i \in 1..4 * Len(s) :
        [part |-> Parts[((i - 1) % 4) + 1], msg |-> s[((i - 1) \div 4) + 1]] \in Piece
  BY <1>1, <1>2, <1>3 DEF Piece
<1>5. Bytes(s) \in [1..4 * Len(s) -> Piece]
  BY <1>4 DEF Bytes
<1>6. Bytes(s) \in Seq(Piece) /\ Len(Bytes(s)) = 4 * Len(s)
  BY <1>1, <1>5
<1>. QED BY <1>2, <1>6 DEF Bytes

\* Only the two parts of its own body belong to the body of a message.
LEMMA OwnBody ==
    ASSUME NEW s \in Seq(Msg), NEW i \in 1..4 * Len(s), NEW j \in 1..4 * Len(s),
           \A a, b \in DOMAIN s : s[a] = s[b] => a = b,
           Bytes(s)[i].part = "body", Bytes(s)[j].part \in {"body", "rest"},
           Bytes(s)[i].msg = Bytes(s)[j].msg
    PROVE  j \in {i, i + 1}
<1>1. Len(s) \in Nat /\ DOMAIN s = 1..Len(s) /\ i \in Nat /\ j \in Nat
  OBVIOUS
<1>2. \A k \in 1..4 * Len(s) :
        /\ Bytes(s)[k].part = Parts[((k - 1) % 4) + 1]
        /\ Bytes(s)[k].msg = s[((k - 1) \div 4) + 1]
        /\ ((k - 1) \div 4) + 1 \in 1..Len(s)
  BY PieceOf
<1>3. \A k \in 1..4 : /\ Parts[k] = "body" => k = 3
                      /\ Parts[k] \in {"body", "rest"} => k \in {3, 4}
  BY DEF Parts
<1>4. ((i - 1) % 4) + 1 \in 1..4 /\ ((j - 1) % 4) + 1 \in 1..4
  BY <1>1
<1>5. /\ Parts[((i - 1) % 4) + 1] = "body"
      /\ Parts[((j - 1) % 4) + 1] \in {"body", "rest"}
  BY <1>2
<1>6. (i - 1) % 4 = 2 /\ (j - 1) % 4 \in {2, 3}
  BY <1>1, <1>3, <1>4, <1>5
<1>7. ((i - 1) \div 4) + 1 = ((j - 1) \div 4) + 1
  <2>1. s[((i - 1) \div 4) + 1] = s[((j - 1) \div 4) + 1]
    BY <1>2
  <2>2. ((i - 1) \div 4) + 1 \in DOMAIN s /\ ((j - 1) \div 4) + 1 \in DOMAIN s
    BY <1>1, <1>2
  <2>. QED BY <2>1, <2>2, Zenon
<1>. QED BY <1>1, <1>6, <1>7

\* A whole body is two parts of what was read.
LEMMA BodyIn ==
    ASSUME NEW r \in Seq(Piece), WholeBody(Body(r))
    PROVE  \E h \in 1..Len(r) : h + 2 <= Len(r) /\ Body(r)[1] = r[h + 1]
<1> DEFINE heads == {i \in 1..Len(r) : r[i].part = "head"}
<1>1. Len(r) \in Nat /\ DOMAIN r = 1..Len(r) /\ heads \in SUBSET Nat
  OBVIOUS
<1>2. Has(r, "head")
  <2>1. CASE ~Has(r, "head")
    <3>1. Len(Body(r)) = 0
      BY <2>1 DEF Body
    <3>. QED BY <3>1 DEF WholeBody
  <2>. QED BY <2>1
<1>3. heads # {}
  BY <1>1, <1>2 DEF Has
<1>4. Min(heads) \in heads
  BY <1>1, <1>3, SmallestIn
<1>5. Body(r) = SubSeq(r, 1 + Min(heads), Len(r))
  BY <1>2, <1>3 DEF Body, SelectInSeq
<1> DEFINE h == Min(heads)
<1>6. h \in 1..Len(r) /\ Body(r) = SubSeq(r, 1 + h, Len(r))
  BY <1>4, <1>5
<1>. HIDE DEF h, heads
<1>7. \A k \in (1 + h)..Len(r) : r[k] \in Piece
  BY <1>1, <1>6, ElementOfSeq
<1>8. /\ Len(SubSeq(r, 1 + h, Len(r))) = IF 1 + h <= Len(r) THEN Len(r) - h ELSE 0
      /\ \A k \in 1..Len(r) - h : SubSeq(r, 1 + h, Len(r))[k] = r[h + k]
  BY <1>1, <1>6, <1>7, SubSeqProperties
<1>9. Len(Body(r)) >= 2
  BY DEF WholeBody
<1>10. h + 2 <= Len(r)
  BY <1>1, <1>6, <1>8, <1>9
<1>11. Body(r)[1] = r[h + 1]
  <2>1. 1 \in 1..Len(r) - h
    BY <1>1, <1>6, <1>10
  <2>. QED BY <1>6, <1>8, <2>1
<1>. QED BY <1>6, <1>10, <1>11

-----------------------------------------------------------------------------
(* The inductive invariant.                                                *)

Typed ==
    /\ left \in [Client -> Seq(Piece)]
    /\ accepted \in Seq(Msg) /\ queue \in Seq(Msg) /\ lost \in Seq(Msg) /\ copies \in Seq(Msg)
    /\ topic \in [Partition -> Seq(Msg)]
    /\ position \in [Partition -> Nat] /\ committed \in [Partition -> Nat]
    /\ current \in [Partition -> {<<>>} \cup {<<n>> : n \in Nat}]
    /\ handled \in [Partition -> SUBSET Nat]

\* What is left to read of a connection are its last parts.
From(c, k) ==
    /\ Len(left[c]) = 4 * Len(Sends[c]) - k
    /\ \A i \in 1..Len(left[c]) : left[c][i] = Bytes(Sends[c])[k + i]
LastParts == \A c \in Client : \E k \in 0..4 * Len(Sends[c]) : From(c, k)

RecordsFinite == \A m \in Msg : IsFiniteSet(Records(m))

IInv ==
    /\ Typed
    /\ LastParts
    /\ RecordsFinite
    /\ Ledger
    /\ AcceptedWhole
    /\ PassedHandled

LEMMA SendsOf ==
    ASSUME NEW c \in Client
    PROVE  /\ Sends[c] \in Seq(Msg) /\ Len(Sends[c]) \in Nat
           /\ \A a, b \in DOMAIN Sends[c] : Sends[c][a] = Sends[c][b] => a = b
BY LogicAssumption DEF LogicAssumption

LEMMA InitInv == Init => IInv
<1>. SUFFICES ASSUME Init PROVE IInv
  OBVIOUS
<1>1. Typed
  <2>1. \A c \in Client : Bytes(Sends[c]) \in Seq(Piece)
    BY SendsOf, PieceOf
  <2>. QED BY <2>1 DEF Init, Typed
<1>2. LastParts
  <2>1. ASSUME NEW c \in Client PROVE From(c, 0) /\ 0 \in 0..4 * Len(Sends[c])
    BY SendsOf, PieceOf DEF Init, From
  <2>. QED BY <2>1 DEF LastParts
<1>3. \A m \in Msg : Records(m) = {}
  BY DEF Init, Records
<1>4. RecordsFinite
  BY <1>3, FS_EmptySet DEF RecordsFinite
<1>5. Ledger
  <2>1. accepted = <<>> /\ copies = <<>> /\ queue = <<>> /\ lost = <<>>
    BY DEF Init
  <2>2. ASSUME NEW m \in Msg PROVE Times(<<>>, m) = 0 /\ Cardinality(Records(m)) = 0
    BY <1>3, TimesEmpty, FS_EmptySet
  <2>. QED BY <2>1, <2>2 DEF Ledger
<1>6. AcceptedWhole
  BY TimesEmpty DEF Init, AcceptedWhole, Contains
<1>7. PassedHandled
  BY DEF Init, PassedHandled
<1>. QED BY <1>1, <1>2, <1>4, <1>5, <1>6, <1>7 DEF IInv

-----------------------------------------------------------------------------
(* Logic reads.                                                            *)

\* What one read leaves of its connection, and of the others.
LEMMA ReadLeaves ==
    ASSUME Typed, LastParts, NEW c \in Client, NEW n \in 1..Len(left[c]),
           left' = [left EXCEPT ![c] = SubSeq(@, n + 1, Len(@))]
    PROVE  /\ left' \in [Client -> Seq(Piece)]
           /\ LastParts'
           /\ \A d \in Client : \A i \in DOMAIN left'[d] : \E j \in DOMAIN left[d] :
                /\ left'[d][i] = left[d][j]
                /\ d = c => j = i + n
<1>1. /\ left[c] \in Seq(Piece) /\ Len(left[c]) \in Nat /\ DOMAIN left[c] = 1..Len(left[c])
      /\ n \in Nat /\ n <= Len(left[c])
  BY DEF Typed
<1> DEFINE after == SubSeq(left[c], n + 1, Len(left[c]))
<1>2. \A i \in (n + 1)..Len(left[c]) : left[c][i] \in Piece
  BY <1>1, ElementOfSeq
<1>3. /\ after \in Seq(Piece) /\ Len(after) = Len(left[c]) - n
      /\ \A i \in 1..Len(left[c]) - n : after[i] = left[c][n + i]
  BY <1>1, <1>2, SubSeqProperties
<1>4. left'[c] = after /\ \A d \in Client : d # c => left'[d] = left[d]
  BY DEF Typed
<1>. HIDE DEF after
<1>5. left' \in [Client -> Seq(Piece)]
  BY <1>3 DEF Typed, after
<1>6. ASSUME NEW d \in Client PROVE \E k \in 0..4 * Len(Sends[d]) : From(d, k)'
  <2>1. CASE d # c
    BY <1>4, <2>1 DEF LastParts, From
  <2>2. CASE d = c
    <3>1. PICK k \in 0..4 * Len(Sends[c]) : From(c, k)
      BY DEF LastParts
    <3>2. k + n \in 0..4 * Len(Sends[c]) /\ Len(left'[c]) = 4 * Len(Sends[c]) - (k + n)
      <4>1. Len(left[c]) = 4 * Len(Sends[c]) - k
        BY <3>1 DEF From
      <4>2. Len(left'[c]) = Len(left[c]) - n
        BY <1>3, <1>4
      <4>3. Len(Sends[c]) \in Nat
        BY SendsOf
      <4>. QED BY <1>1, <3>1, <4>1, <4>2, <4>3
    <3>3. ASSUME NEW i \in 1..Len(left'[c])
          PROVE  left'[c][i] = Bytes(Sends[c])[(k + n) + i]
      <4>1. i \in 1..Len(left[c]) - n /\ n + i \in 1..Len(left[c]) /\ k + (n + i) = (k + n) + i
        BY <1>1, <1>3, <1>4
      <4>. QED BY <1>3, <1>4, <3>1, <4>1 DEF From
    <3>. QED BY <2>2, <3>2, <3>3 DEF From
  <2>. QED BY <2>1, <2>2
<1>7. ASSUME NEW d \in Client, NEW i \in DOMAIN left'[d]
      PROVE  \E j \in DOMAIN left[d] : left'[d][i] = left[d][j] /\ (d = c => j = i + n)
  <2>1. CASE d # c
    BY <1>4, <2>1
  <2>2. CASE d = c
    <3>1. i \in 1..Len(left[c]) - n
      BY <1>1, <1>3, <1>4, <2>2
    <3>2. i + n \in DOMAIN left[c] /\ left'[c][i] = left[c][i + n]
      BY <1>1, <1>3, <1>4, <3>1
    <3>. QED BY <2>2, <3>2
  <2>. QED BY <2>1, <2>2
<1>. QED BY <1>5, <1>6, <1>7 DEF LastParts

LEMMA PostedWhere ==
    ASSUME NEW c \in Client, NEW i \in 1..4 * Len(Sends[c])
    PROVE  \E a \in DOMAIN Sends[c] : Bytes(Sends[c])[i].msg = Sends[c][a]
<1> DEFINE s == Sends[c]
<1>1. s \in Seq(Msg) /\ DOMAIN s = 1..Len(s)
  BY SendsOf
<1>2. /\ Bytes(s)[i].msg = s[((i - 1) \div 4) + 1]
      /\ ((i - 1) \div 4) + 1 \in 1..Len(s)
  <2>. HIDE DEF s
  <2>1. i \in 1..4 * Len(s)
    BY DEF s
  <2>. QED BY <1>1, <2>1, PieceOf
<1>. QED BY <1>1, <1>2

\* The message whose body a read has found whole was not accepted before, and
\* nothing of that body is left, on any connection.
LEMMA BodyRead ==
    ASSUME Typed, LastParts, AcceptedWhole, NEW c \in Client, NEW n \in 1..Len(left[c]),
           WholeBody(Body(SubSeq(left[c], 1, n))),
           left' = [left EXCEPT ![c] = SubSeq(@, n + 1, Len(@))],
           NEW m, m = Body(SubSeq(left[c], 1, n))[1].msg
    PROVE  /\ m \in Msg /\ ~Contains(accepted, m)
           /\ \A d \in Client : \A i \in DOMAIN left'[d] :
                left'[d][i].msg = m => left'[d][i].part \notin {"body", "rest"}
<1>0. /\ left' \in [Client -> Seq(Piece)]
      /\ \A d \in Client : \A i \in DOMAIN left'[d] : \E j \in DOMAIN left[d] :
           left'[d][i] = left[d][j] /\ (d = c => j = i + n)
  BY ReadLeaves, Zenon
<1>1. /\ left[c] \in Seq(Piece) /\ Len(left[c]) \in Nat /\ DOMAIN left[c] = 1..Len(left[c])
      /\ n \in Nat /\ n <= Len(left[c])
  BY DEF Typed
<1> DEFINE read == SubSeq(left[c], 1, n)
<1>2. \A i \in 1..n : left[c][i] \in Piece
  BY <1>1, ElementOfSeq
<1>3. read \in Seq(Piece) /\ Len(read) = n /\ \A i \in 1..n : read[i] = left[c][i]
  BY <1>1, <1>2, SubSeqProperties
<1>. HIDE DEF read
<1>4. PICK h \in 1..n : h + 2 <= n /\ Body(read)[1] = left[c][h + 1]
  <2>1. WholeBody(Body(read))
    BY DEF read
  <2>2. PICK h \in 1..Len(read) : h + 2 <= Len(read) /\ Body(read)[1] = read[h + 1]
    BY <1>3, <2>1, BodyIn
  <2>3. h \in 1..n /\ h + 2 <= n /\ h + 1 \in 1..n
    BY <1>1, <1>3, <2>2
  <2>. QED BY <1>3, <2>2, <2>3
<1>5. left[c][h + 1].part = "body" /\ left[c][h + 1].msg = m /\ h + 1 \in 1..Len(left[c])
  <2>1. Body(read)[1].part = "body" /\ m = Body(read)[1].msg
    BY DEF read, WholeBody
  <2>. QED BY <1>1, <1>4, <2>1
<1>6. m \in Msg
  BY <1>1, <1>2, <1>4, <1>5 DEF Piece
<1>7. ~Contains(accepted, m)
  BY <1>1, <1>5, <1>6 DEF AcceptedWhole
<1>8. PICK k \in 0..4 * Len(Sends[c]) : From(c, k)
  BY DEF LastParts
<1>9. \A i \in 1..Len(left[c]) : k + i \in 1..4 * Len(Sends[c]) /\ left[c][i] = Bytes(Sends[c])[k + i]
  BY <1>1, <1>8, SendsOf DEF From
\* Another part of the body stands right behind it, in the same connection.
<1>10. ASSUME NEW d \in Client, NEW j \in DOMAIN left[d],
              left[d][j].msg = m, left[d][j].part \in {"body", "rest"}
       PROVE  d = c /\ j \in {h + 1, h + 2}
  <2>1. PICK l \in 0..4 * Len(Sends[d]) : From(d, l)
    BY DEF LastParts
  <2>2. left[d] \in Seq(Piece) /\ j \in 1..Len(left[d]) /\ Len(left[d]) \in Nat
    BY DEF Typed
  <2>3. l + j \in 1..4 * Len(Sends[d]) /\ left[d][j] = Bytes(Sends[d])[l + j]
    <3>1. /\ Len(left[d]) = 4 * Len(Sends[d]) - l
          /\ left[d][j] = Bytes(Sends[d])[l + j]
      BY <2>1, <2>2 DEF From
    <3>2. Len(Sends[d]) \in Nat
      BY SendsOf
    <3>3. l + j \in 1..4 * Len(Sends[d])
      BY <2>1, <2>2, <3>1, <3>2
    <3>. QED BY <3>1, <3>3
  <2>4. k + (h + 1) \in 1..4 * Len(Sends[c]) /\ left[c][h + 1] = Bytes(Sends[c])[k + (h + 1)]
    BY <1>5, <1>9
  <2>5. PICK a \in DOMAIN Sends[c] : Bytes(Sends[c])[k + (h + 1)].msg = Sends[c][a]
    BY <2>4, PostedWhere
  <2>6. PICK b \in DOMAIN Sends[d] : Bytes(Sends[d])[l + j].msg = Sends[d][b]
    BY <2>3, PostedWhere
  <2>7. Sends[c][a] = Sends[d][b]
    BY <1>5, <1>10, <2>3, <2>4, <2>5, <2>6
  <2>8. d = c
    BY <2>7, LogicAssumption DEF LogicAssumption
  <2>9. j \in 1..Len(left[c]) /\ k + j \in 1..4 * Len(Sends[c]) /\ left[c][j] = Bytes(Sends[c])[k + j]
    BY <1>9, <2>2, <2>8
  <2>10. k + j \in {k + (h + 1), (k + (h + 1)) + 1}
    <3> DEFINE s == Sends[c]
                p == k + (h + 1)
                q == k + j
    <3>1. /\ s \in Seq(Msg) /\ p \in 1..4 * Len(s) /\ q \in 1..4 * Len(s)
          /\ \A x, y \in DOMAIN s : s[x] = s[y] => x = y
      BY <2>4, <2>9, SendsOf
    <3>2. /\ Bytes(s)[p].part = "body" /\ Bytes(s)[q].part \in {"body", "rest"}
          /\ Bytes(s)[p].msg = Bytes(s)[q].msg
      BY <1>5, <1>10, <2>4, <2>8, <2>9
    <3>3. q \in {p, p + 1}
      <4>. HIDE DEF s, p, q
      <4>. QED BY <3>1, <3>2, OwnBody
    <3>. QED BY <3>3
  <2>. QED BY <2>8, <2>9, <2>10, <1>4
<1>11. ASSUME NEW d \in Client, NEW i \in DOMAIN left'[d], left'[d][i].msg = m
       PROVE  left'[d][i].part \notin {"body", "rest"}
  <2>1. PICK j \in DOMAIN left[d] : left'[d][i] = left[d][j] /\ (d = c => j = i + n)
    BY <1>0
  <2>2. i \in Nat /\ i >= 1
    <3>1. left'[d] \in Seq(Piece)
      BY <1>0
    <3>. QED BY <3>1
  <2>3. CASE left'[d][i].part \in {"body", "rest"}
    <3>1. left[d][j].msg = m /\ left[d][j].part \in {"body", "rest"}
      BY <1>11, <2>1, <2>3
    <3>2. d = c /\ j \in {h + 1, h + 2}
      BY <1>10, <3>1
    <3>. QED BY <1>1, <1>4, <2>1, <2>2, <3>2
  <2>. QED BY <2>3
<1>. QED BY <1>6, <1>7, <1>11

-----------------------------------------------------------------------------
(* Every action keeps the invariant.                                       *)

LEMMA OnMessageInv ==
    ASSUME IInv, NEW c \in Client, OnMessage(c)
    PROVE  IInv'
<1>. USE DEF IInv
<1>1. PICK n \in 1..Len(left[c]) :
        LET read == SubSeq(left[c], 1, n)
            body == Body(read)
        IN  /\ left' = [left EXCEPT ![c] = SubSeq(@, n + 1, Len(@))]
            /\ IF ~Has(read, "line") THEN NotFound(c)
               ELSE IF ~WholeBody(body) \/ body[1].msg \in Incomplete THEN Silent
               ELSE Produce(c, body[1].msg)
  BY DEF OnMessage
<1>2. UNCHANGED <<topic, lost, copies, job, faults>>
  BY DEF OnMessage
<1>3. left' = [left EXCEPT ![c] = SubSeq(@, n + 1, Len(@))]
  BY <1>1
<1>4. /\ left' \in [Client -> Seq(Piece)] /\ LastParts'
      /\ \A d \in Client : \A i \in DOMAIN left'[d] : \E j \in DOMAIN left[d] :
           left'[d][i] = left[d][j] /\ (d = c => j = i + n)
  BY <1>3, ReadLeaves, Zenon
<1>5. RecordsFinite' /\ \A m \in Msg : Records(m)' = Records(m)
  BY <1>2 DEF RecordsFinite, Records
<1>6. PassedHandled'
  BY <1>2 DEF job, PassedHandled
<1>7. CASE UNCHANGED <<accepted, queue>>
  <2>1. Typed'
    BY <1>2, <1>4, <1>7 DEF Typed, job
  <2>2. Ledger'
    BY <1>2, <1>5, <1>7 DEF Ledger, Times
  <2>3. AcceptedWhole'
    <3>1. \A k \in Msg : Times(accepted', k) <= 1
      BY <1>7 DEF AcceptedWhole
    <3>2. ASSUME NEW k \in Msg, Contains(accepted', k),
                 NEW d \in Client, NEW i \in DOMAIN left'[d], left'[d][i].msg = k
          PROVE  left'[d][i].part \notin {"body", "rest"}
      BY <1>4, <1>7, <3>2 DEF AcceptedWhole
    <3>. QED BY <3>1, <3>2 DEF AcceptedWhole, Times, Contains
  <2>. QED BY <1>4, <1>5, <1>6, <2>1, <2>2, <2>3
<1>8. CASE \E m : /\ WholeBody(Body(SubSeq(left[c], 1, n)))
                  /\ m = Body(SubSeq(left[c], 1, n))[1].msg
                  /\ accepted' = Append(accepted, m) /\ queue' = Append(queue, m)
  <2>1. PICK m : /\ WholeBody(Body(SubSeq(left[c], 1, n)))
                 /\ m = Body(SubSeq(left[c], 1, n))[1].msg
                 /\ accepted' = Append(accepted, m) /\ queue' = Append(queue, m)
    BY <1>8
  <2>2. /\ m \in Msg /\ ~Contains(accepted, m)
        /\ \A d \in Client : \A i \in DOMAIN left'[d] :
             left'[d][i].msg = m => left'[d][i].part \notin {"body", "rest"}
    BY <1>3, <2>1, BodyRead, Zenon
  <2>3. accepted \in Seq(Msg) /\ queue \in Seq(Msg)
    BY DEF Typed
  <2>4. Typed'
    BY <1>2, <1>4, <2>1, <2>2, <2>3 DEF Typed, job
  <2>5. ASSUME NEW k \in Msg
        PROVE  /\ Times(accepted', k) = Times(accepted, k) + (IF m = k THEN 1 ELSE 0)
               /\ Times(queue', k) = Times(queue, k) + (IF m = k THEN 1 ELSE 0)
    BY <2>1, <2>2, <2>3, TimesAppend
  <2>6. Ledger'
    <3>1. ASSUME NEW k \in Msg
          PROVE  Times(accepted', k) + Times(copies', k)
                   = Times(queue', k) + Times(lost', k) + Cardinality(Records(k)')
      <4>1. Times(accepted, k) + Times(copies, k)
              = Times(queue, k) + Times(lost, k) + Cardinality(Records(k))
        BY DEF Ledger
      <4>2. /\ Times(accepted, k) \in Nat /\ Times(copies, k) \in Nat
            /\ Times(queue, k) \in Nat /\ Times(lost, k) \in Nat
            /\ Cardinality(Records(k)) \in Nat
        BY PositionsFinite, FS_CardinalityType DEF Typed, RecordsFinite
      <4>3. Times(copies', k) = Times(copies, k) /\ Times(lost', k) = Times(lost, k)
        BY <1>2
      <4>4. Cardinality(Records(k)') = Cardinality(Records(k))
        BY <1>5
      <4>5. /\ Times(accepted', k) = Times(accepted, k) + (IF m = k THEN 1 ELSE 0)
            /\ Times(queue', k) = Times(queue, k) + (IF m = k THEN 1 ELSE 0)
        BY <2>5
      <4>. HIDE DEF IInv
      <4>. QED BY <4>1, <4>2, <4>3, <4>4, <4>5
    <3>. QED BY <3>1 DEF Ledger, Times, Records
  <2>7. AcceptedWhole'
    <3>1. \A k : Contains(accepted', k) <=> Contains(accepted, k) \/ k = m
      BY <2>1, <2>2, <2>3 DEF Contains
    <3>2. Times(accepted, m) = 0
      BY <2>2, <2>3, TimesNone
    <3>3. ASSUME NEW k \in Msg PROVE Times(accepted', k) <= 1
      <4>1. Times(accepted', k) = Times(accepted, k) + (IF m = k THEN 1 ELSE 0)
        BY <2>5
      <4>2. Times(accepted, k) <= 1 /\ Times(accepted, k) \in Nat
        BY <2>3, PositionsFinite DEF AcceptedWhole
      <4>. HIDE DEF IInv
      <4>. QED BY <3>2, <4>1, <4>2
    <3>4. ASSUME NEW k \in Msg, Contains(accepted', k),
                 NEW d \in Client, NEW i \in DOMAIN left'[d], left'[d][i].msg = k
          PROVE  left'[d][i].part \notin {"body", "rest"}
      BY <1>4, <2>2, <3>1, <3>4 DEF AcceptedWhole
    <3>. QED BY <3>3, <3>4 DEF AcceptedWhole, Times, Contains
  <2>. QED BY <1>4, <1>5, <1>6, <2>4, <2>6, <2>7
<1>9. \/ UNCHANGED <<accepted, queue>>
      \/ \E m : /\ WholeBody(Body(SubSeq(left[c], 1, n)))
                /\ m = Body(SubSeq(left[c], 1, n))[1].msg
                /\ accepted' = Append(accepted, m) /\ queue' = Append(queue, m)
  <2>1. CASE ~Has(SubSeq(left[c], 1, n), "line")
    BY <1>1, <2>1 DEF NotFound
  <2>2. CASE /\ Has(SubSeq(left[c], 1, n), "line")
             /\ \/ ~WholeBody(Body(SubSeq(left[c], 1, n)))
                \/ Body(SubSeq(left[c], 1, n))[1].msg \in Incomplete
    BY <1>1, <2>2 DEF Silent
  <2>3. CASE /\ WholeBody(Body(SubSeq(left[c], 1, n)))
             /\ Produce(c, Body(SubSeq(left[c], 1, n))[1].msg)
    <3>1. Len(queue) \in Nat /\ QueueMax \in Nat
      BY LogicAssumption DEF Typed, LogicAssumption
    <3>2. CASE Refused
      BY <2>3, <3>2 DEF Produce
    <3>3. CASE ~Refused
      BY <2>3, <3>1, <3>3 DEF Produce, Refused
    <3>. QED BY <3>2, <3>3
  <2>. QED BY <1>1, <2>1, <2>2, <2>3
<1>. QED BY <1>7, <1>8, <1>9

\* A record more in the topic.
LEMMA RecordAdded ==
    ASSUME Typed, RecordsFinite, NEW p \in Partition, NEW x \in Msg,
           topic' = [topic EXCEPT ![p] = Append(@, x)]
    PROVE  /\ topic' \in [Partition -> Seq(Msg)]
           /\ RecordsFinite'
           /\ \A m \in Msg : Cardinality(Records(m)') =
                Cardinality(Records(m)) + (IF x = m THEN 1 ELSE 0)
<1>1. topic[p] \in Seq(Msg) /\ Len(topic[p]) \in Nat /\ DOMAIN topic[p] = 1..Len(topic[p])
  BY DEF Typed
<1>2. /\ topic' \in [Partition -> Seq(Msg)]
      /\ topic'[p] = Append(topic[p], x)
      /\ \A q \in Partition : q # p => topic'[q] = topic[q]
  BY <1>1 DEF Typed
<1>3. /\ DOMAIN topic'[p] = 1..(Len(topic[p]) + 1)
      /\ topic'[p][Len(topic[p]) + 1] = x
      /\ \A i \in 1..Len(topic[p]) : topic'[p][i] = topic[p][i]
  BY <1>1, <1>2
<1> DEFINE new == <<p, Len(topic[p]) + 1>>
<1>4. \A m \in Msg : new \notin Records(m)
  BY <1>1 DEF Records
<1>5. ASSUME NEW m \in Msg
      PROVE  Records(m)' = IF x = m THEN Records(m) \cup {new} ELSE Records(m)
  <2>1. \A r : r \in Records(m)' <=>
          \E q \in Partition : \E i \in DOMAIN topic'[q] : topic'[q][i] = m /\ r = <<q, i>>
    BY DEF Records
  <2>2. \A r : r \in Records(m) <=>
          \E q \in Partition : \E i \in DOMAIN topic[q] : topic[q][i] = m /\ r = <<q, i>>
    BY DEF Records
  <2>3. ASSUME NEW r \in Records(m)' PROVE r \in Records(m) \/ (x = m /\ r = new)
    BY <1>1, <1>2, <1>3, <2>1, <2>2
  <2>4. ASSUME NEW r \in Records(m) PROVE r \in Records(m)'
    <3>1. PICK q \in Partition : \E i \in DOMAIN topic[q] : topic[q][i] = m /\ r = <<q, i>>
      BY <2>2
    <3>2. PICK i \in DOMAIN topic[q] : topic[q][i] = m /\ r = <<q, i>>
      BY <3>1
    <3>3. i \in DOMAIN topic'[q] /\ topic'[q][i] = m
      BY <1>1, <1>2, <1>3, <3>2
    <3>. QED BY <2>1, <3>2, <3>3
  <2>5. x = m => new \in Records(m)'
    <3>1. Len(topic[p]) + 1 \in DOMAIN topic'[p]
      BY <1>1, <1>3
    <3>. QED BY <1>3, <2>1, <3>1
  <2>. HIDE DEF new
  <2>. QED BY <2>3, <2>4, <2>5
<1>. HIDE DEF new
<1>6. ASSUME NEW m \in Msg
      PROVE  /\ IsFiniteSet(Records(m)')
             /\ Cardinality(Records(m)') = Cardinality(Records(m)) + (IF x = m THEN 1 ELSE 0)
  <2>1. IsFiniteSet(Records(m)) /\ Cardinality(Records(m)) \in Nat
    BY FS_CardinalityType DEF RecordsFinite
  <2>2. /\ IsFiniteSet(Records(m) \cup {new})
        /\ Cardinality(Records(m) \cup {new}) = Cardinality(Records(m)) + 1
    BY <1>4, <2>1, FS_AddElement
  <2>3. CASE x = m
    BY <1>5, <2>2, <2>3
  <2>4. CASE x # m
    BY <1>5, <2>1, <2>4
  <2>. QED BY <2>3, <2>4
<1>7. RecordsFinite'
  <2>1. \A m \in Msg : IsFiniteSet(Records(m)')
    BY <1>6
  <2>. QED BY <2>1 DEF RecordsFinite, Records
<1>. QED BY <1>2, <1>6, <1>7

\* A step of the producer or of librdkafka leaves what was accepted and what
\* the consumers have done.
ProducerKeeps ==
    IInv /\ UNCHANGED accepted /\ UNCHANGED job
    /\ \A d \in Client : \A i \in DOMAIN left'[d] : left'[d] = left[d]

LEMMA ProducerInv ==
    ASSUME ProducerKeeps
    PROVE  AcceptedWhole' /\ PassedHandled'
<1>1. AcceptedWhole'
  <2>1. \A k \in Msg : Times(accepted', k) <= 1
    BY DEF ProducerKeeps, IInv, AcceptedWhole
  <2>2. ASSUME NEW k \in Msg, Contains(accepted', k),
               NEW d \in Client, NEW i \in DOMAIN left'[d], left'[d][i].msg = k
        PROVE  left'[d][i].part \notin {"body", "rest"}
    BY <2>2 DEF ProducerKeeps, IInv, AcceptedWhole
  <2>. QED BY <2>1, <2>2 DEF AcceptedWhole, Times, Contains
<1>2. PassedHandled'
  BY DEF ProducerKeeps, IInv, PassedHandled, job
<1>. QED BY <1>1, <1>2

\* The counts of the ledger, for one message.
LEMMA LedgerCounts ==
    ASSUME IInv, NEW m \in Msg
    PROVE  /\ Times(accepted, m) \in Nat /\ Times(copies, m) \in Nat
           /\ Times(queue, m) \in Nat /\ Times(lost, m) \in Nat
           /\ Cardinality(Records(m)) \in Nat
           /\ Times(accepted, m) + Times(copies, m)
                = Times(queue, m) + Times(lost, m) + Cardinality(Records(m))
BY PositionsFinite, FS_CardinalityType DEF IInv, Typed, RecordsFinite, Ledger

LEMMA LogicCrashInv == ASSUME IInv, LogicCrash PROVE IInv'
<1>1. /\ lost' = lost \o queue /\ queue' = <<>>
      /\ left' = [c \in Client |-> <<>>]
      /\ UNCHANGED <<accepted, topic, copies, job>>
  BY DEF LogicCrash
<1>2. Typed'
  BY <1>1, ConcatProperties DEF IInv, Typed, job
<1>3. LastParts'
  <2>1. ASSUME NEW c \in Client
        PROVE  From(c, 4 * Len(Sends[c]))' /\ 4 * Len(Sends[c]) \in 0..4 * Len(Sends[c])
    BY <1>1, SendsOf DEF From
  <2>. QED BY <2>1 DEF LastParts
<1>4. RecordsFinite'
  BY <1>1 DEF IInv, RecordsFinite, Records
<1>5. Ledger'
  <2>1. ASSUME NEW m \in Msg
        PROVE  Times(accepted', m) + Times(copies', m)
                 = Times(queue', m) + Times(lost', m) + Cardinality(Records(m)')
    <3>1. Times(lost', m) = Times(lost, m) + Times(queue, m) /\ Times(queue', m) = 0
      BY <1>1, TimesConcat, TimesEmpty DEF IInv, Typed
    <3>2. Times(accepted', m) = Times(accepted, m) /\ Times(copies', m) = Times(copies, m)
      BY <1>1
    <3>3. Records(m)' = Records(m)
      BY <1>1 DEF Records
    <3>. QED BY <3>1, <3>2, <3>3, LedgerCounts
  <2>. QED BY <2>1 DEF Ledger, Times, Records
<1>6. ProducerKeeps
  BY <1>1 DEF ProducerKeeps
<1>. QED BY <1>2, <1>3, <1>4, <1>5, <1>6, ProducerInv DEF IInv

LEMMA DeliverInv == ASSUME IInv, Deliver PROVE IInv'
<1>1. PICK i \in DOMAIN queue, p \in Partition :
        topic' = [topic EXCEPT ![p] = Append(@, queue[i])] /\ queue' = RemoveAt(queue, i)
  BY DEF Deliver
<1>2. UNCHANGED <<left, accepted, lost, copies, job>>
  BY DEF Deliver, logic
<1>3. queue \in Seq(Msg) /\ queue[i] \in Msg
  BY DEF IInv, Typed
<1>4. /\ topic' \in [Partition -> Seq(Msg)] /\ RecordsFinite'
      /\ \A m \in Msg : Cardinality(Records(m)') =
           Cardinality(Records(m)) + (IF queue[i] = m THEN 1 ELSE 0)
  BY <1>1, <1>3, RecordAdded DEF IInv
<1>5. /\ queue' \in Seq(Msg)
      /\ \A m : Times(queue, m) = Times(queue', m) + (IF queue[i] = m THEN 1 ELSE 0)
  BY <1>1, <1>3, TimesRemoveAt
<1>6. Typed'
  BY <1>2, <1>4, <1>5 DEF IInv, Typed, job
<1>7. LastParts'
  BY <1>2 DEF IInv, LastParts, From
<1>8. Ledger'
  <2>1. ASSUME NEW m \in Msg
        PROVE  Times(accepted', m) + Times(copies', m)
                 = Times(queue', m) + Times(lost', m) + Cardinality(Records(m)')
    <3>1. Times(queue', m) \in Nat
      BY <1>5, PositionsFinite
    <3>2. /\ Times(accepted', m) = Times(accepted, m) /\ Times(copies', m) = Times(copies, m)
          /\ Times(lost', m) = Times(lost, m)
      BY <1>2
    <3>3. /\ Times(queue, m) = Times(queue', m) + (IF queue[i] = m THEN 1 ELSE 0)
          /\ Cardinality(Records(m)') = Cardinality(Records(m)) + (IF queue[i] = m THEN 1 ELSE 0)
      BY <1>4, <1>5
    <3>4. Cardinality(Records(m)') = Cardinality(Records(m)) + (Times(queue, m) - Times(queue', m))
      BY <3>1, <3>3, LedgerCounts
    <3>. QED BY <3>1, <3>2, <3>4, LedgerCounts
  <2>. QED BY <2>1 DEF Ledger, Times, Records
<1>9. ProducerKeeps
  BY <1>2 DEF ProducerKeeps
<1>. QED BY <1>4, <1>6, <1>7, <1>8, <1>9, ProducerInv DEF IInv

LEMMA DeliverTwiceInv == ASSUME IInv, DeliverTwice PROVE IInv'
<1>1. PICK i \in DOMAIN queue, p \in Partition :
        topic' = [topic EXCEPT ![p] = Append(@, queue[i])] /\ copies' = Append(copies, queue[i])
  BY DEF DeliverTwice
<1>2. UNCHANGED <<left, accepted, lost, queue, job>>
  BY DEF DeliverTwice, logic
<1>3. queue \in Seq(Msg) /\ copies \in Seq(Msg) /\ queue[i] \in Msg
  BY DEF IInv, Typed
<1>4. /\ topic' \in [Partition -> Seq(Msg)] /\ RecordsFinite'
      /\ \A m \in Msg : Cardinality(Records(m)') =
           Cardinality(Records(m)) + (IF queue[i] = m THEN 1 ELSE 0)
  BY <1>1, <1>3, RecordAdded DEF IInv
<1>5. /\ copies' \in Seq(Msg)
      /\ \A m : Times(copies', m) = Times(copies, m) + (IF queue[i] = m THEN 1 ELSE 0)
  BY <1>1, <1>3, TimesAppend, AppendProperties
<1>6. Typed'
  BY <1>2, <1>4, <1>5 DEF IInv, Typed, job
<1>7. LastParts'
  BY <1>2 DEF IInv, LastParts, From
<1>8. Ledger'
  <2>1. ASSUME NEW m \in Msg
        PROVE  Times(accepted', m) + Times(copies', m)
                 = Times(queue', m) + Times(lost', m) + Cardinality(Records(m)')
    <3>1. /\ Times(accepted', m) = Times(accepted, m) /\ Times(queue', m) = Times(queue, m)
          /\ Times(lost', m) = Times(lost, m)
      BY <1>2
    <3>2. /\ Times(copies', m) = Times(copies, m) + (IF queue[i] = m THEN 1 ELSE 0)
          /\ Cardinality(Records(m)') = Cardinality(Records(m)) + (IF queue[i] = m THEN 1 ELSE 0)
      BY <1>4, <1>5
    <3>3. /\ Cardinality(Records(m)') - Cardinality(Records(m)) = Times(copies', m) - Times(copies, m)
          /\ Cardinality(Records(m)') \in Nat /\ Times(copies', m) \in Nat
      BY <3>2, LedgerCounts
    <3>. QED BY <3>1, <3>3, LedgerCounts
  <2>. QED BY <2>1 DEF Ledger, Times, Records
<1>9. ProducerKeeps
  BY <1>2 DEF ProducerKeeps
<1>. QED BY <1>4, <1>6, <1>7, <1>8, <1>9, ProducerInv DEF IInv

LEMMA GiveUpInv == ASSUME IInv, GiveUp PROVE IInv'
<1>1. PICK i \in DOMAIN queue : lost' = Append(lost, queue[i]) /\ queue' = RemoveAt(queue, i)
  BY DEF GiveUp
<1>2. UNCHANGED <<left, accepted, topic, copies, job>>
  BY DEF GiveUp, logic
<1>3. queue \in Seq(Msg) /\ lost \in Seq(Msg) /\ queue[i] \in Msg
  BY DEF IInv, Typed
<1>4. /\ lost' \in Seq(Msg)
      /\ \A m : Times(lost', m) = Times(lost, m) + (IF queue[i] = m THEN 1 ELSE 0)
  BY <1>1, <1>3, TimesAppend, AppendProperties
<1>5. /\ queue' \in Seq(Msg)
      /\ \A m : Times(queue, m) = Times(queue', m) + (IF queue[i] = m THEN 1 ELSE 0)
  BY <1>1, <1>3, TimesRemoveAt
<1>6. Typed'
  BY <1>2, <1>4, <1>5 DEF IInv, Typed, job
<1>7. LastParts' /\ RecordsFinite' /\ \A m \in Msg : Records(m)' = Records(m)
  BY <1>2 DEF IInv, LastParts, From, RecordsFinite, Records
<1>8. Ledger'
  <2>1. ASSUME NEW m \in Msg
        PROVE  Times(accepted', m) + Times(copies', m)
                 = Times(queue', m) + Times(lost', m) + Cardinality(Records(m)')
    <3>1. Times(queue', m) \in Nat
      BY <1>5, PositionsFinite
    <3>2. Times(accepted', m) = Times(accepted, m) /\ Times(copies', m) = Times(copies, m)
      BY <1>2
    <3>3. /\ Times(queue, m) = Times(queue', m) + (IF queue[i] = m THEN 1 ELSE 0)
          /\ Times(lost', m) = Times(lost, m) + (IF queue[i] = m THEN 1 ELSE 0)
      BY <1>4, <1>5
    <3>4. Times(lost', m) = Times(lost, m) + (Times(queue, m) - Times(queue', m))
      BY <3>1, <3>3, LedgerCounts
    <3>5. Cardinality(Records(m)') = Cardinality(Records(m))
      BY <1>7
    <3>. QED BY <3>1, <3>2, <3>4, <3>5, LedgerCounts
  <2>. QED BY <2>1 DEF Ledger, Times, Records
<1>9. ProducerKeeps
  BY <1>2 DEF ProducerKeeps
<1>. QED BY <1>6, <1>7, <1>8, <1>9, ProducerInv DEF IInv

-----------------------------------------------------------------------------
(* The consumers.                                                          *)

\* A step of the consumers leaves the ledger.
LEMMA JobKeeps ==
    ASSUME IInv, UNCHANGED <<logic, producer>>
    PROVE  LastParts' /\ RecordsFinite' /\ Ledger' /\ AcceptedWhole'
<1>1. UNCHANGED <<left, accepted, queue, topic, lost, copies>>
  BY DEF logic, producer
<1>2. LastParts' /\ RecordsFinite'
  BY <1>1 DEF IInv, LastParts, From, RecordsFinite, Records
<1>3. Ledger'
  <2>1. \A m \in Msg : Records(m)' = Records(m)
    BY <1>1 DEF Records
  <2>. QED BY <1>1, <2>1 DEF IInv, Ledger, Times
<1>4. AcceptedWhole'
  BY <1>1 DEF IInv, AcceptedWhole, Times, Contains
<1>. QED BY <1>2, <1>3, <1>4

LEMMA JobInv ==
    ASSUME IInv, NEW p \in Partition,
           Consume(p) \/ Handled(p) \/ AutoCommit(p) \/ JobCrash(p)
    PROVE  IInv'
<1>1. UNCHANGED <<logic, producer>>
  BY DEF Consume, Handled, AutoCommit, JobCrash
<1>2. /\ position \in [Partition -> Nat] /\ committed \in [Partition -> Nat]
      /\ current \in [Partition -> {<<>>} \cup {<<n>> : n \in Nat}]
      /\ handled \in [Partition -> SUBSET Nat]
      /\ PassedHandled
  BY DEF IInv, Typed
<1> DEFINE JobTyped ==
             /\ position \in [Partition -> Nat] /\ committed \in [Partition -> Nat]
             /\ current \in [Partition -> {<<>>} \cup {<<n>> : n \in Nat}]
             /\ handled \in [Partition -> SUBSET Nat]
<1>3. ASSUME Consume(p) PROVE JobTyped' /\ PassedHandled'
  <2>1. /\ current[p] = <<>> /\ UNCHANGED <<committed, handled>>
        /\ position' = [position EXCEPT ![p] = @ + 1]
        /\ current' = [current EXCEPT ![p] = <<position'[p]>>]
    BY <1>3 DEF Consume, MayConsume
  <2>2. position'[p] = position[p] + 1 /\ position[p] + 1 \in Nat
    BY <1>2, <2>1
  <2>3. JobTyped'
    BY <1>2, <2>1, <2>2
  <2>4. PassedHandled'
    BY <1>2, <2>1, <2>2 DEF PassedHandled
  <2>. QED BY <2>3, <2>4
<1>4. ASSUME Handled(p) PROVE JobTyped' /\ PassedHandled'
  <2>1. /\ current[p] # <<>> /\ UNCHANGED <<position, committed>>
        /\ handled' = [handled EXCEPT ![p] = @ \cup {current[p][1]}]
        /\ current' = [current EXCEPT ![p] = <<>>]
    BY <1>4 DEF Handled
  <2>2. PICK n \in Nat : current[p] = <<n>>
    BY <1>2, <2>1
  <2>3. handled' = [handled EXCEPT ![p] = @ \cup {n}]
    BY <2>1, <2>2
  <2>4. JobTyped'
    BY <1>2, <2>1, <2>3
  <2>5. PassedHandled'
    BY <1>2, <2>1, <2>2, <2>3 DEF PassedHandled
  <2>. QED BY <2>4, <2>5
<1>5. ASSUME AutoCommit(p) PROVE JobTyped' /\ PassedHandled'
  <2>1. JobTyped'
    BY <1>2, <1>5 DEF AutoCommit
  <2>2. PassedHandled'
    BY <1>2, <1>5 DEF AutoCommit, PassedHandled
  <2>. QED BY <2>1, <2>2
<1>6. ASSUME JobCrash(p) PROVE JobTyped' /\ PassedHandled'
  <2>1. JobTyped'
    BY <1>2, <1>6 DEF JobCrash, RestartAt
  <2>2. PassedHandled'
    BY <1>2, <1>6 DEF JobCrash, RestartAt, PassedHandled
  <2>. QED BY <2>1, <2>2
<1>7. JobTyped' /\ PassedHandled'
  BY <1>3, <1>4, <1>5, <1>6
<1>8. Typed'
  BY <1>1, <1>7 DEF IInv, Typed, logic, producer
<1>. QED BY <1>1, <1>7, <1>8, JobKeeps DEF IInv

LEMMA StepInv == IInv /\ [Next]_vars => IInv'
<1>. SUFFICES ASSUME IInv, [Next]_vars PROVE IInv'
  OBVIOUS
<1>1. CASE UNCHANGED vars
  <2>1. UNCHANGED <<logic, producer>>
    BY <1>1 DEF vars
  <2>2. Typed'
    BY <1>1 DEF vars, logic, producer, job, IInv, Typed
  <2>3. PassedHandled'
    BY <1>1 DEF vars, job, IInv, PassedHandled
  <2>. QED BY <2>1, <2>2, <2>3, JobKeeps DEF IInv
<1>2. CASE Next
  BY <1>2, OnMessageInv, JobInv, LogicCrashInv, DeliverInv, DeliverTwiceInv, GiveUpInv DEF Next
<1>. QED BY <1>1, <1>2

-----------------------------------------------------------------------------
(* The theorems.                                                           *)

\* The queue, the topic, what was lost and what is left to read fit together
\* in every reachable state.
THEOREM LogicInvariant == Spec => []IInv
BY InitInv, StepInv, PTL DEF Spec

\* Every message that produce() took is accounted for, once, and once more for
\* every copy librdkafka made.
THEOREM LedgerKept == Spec => []Ledger
<1>1. IInv => Ledger
  BY DEF IInv
<1>. QED BY <1>1, LogicInvariant, PTL

\* However the bytes of a connection are cut into reads, a message is accepted
\* at most once, after its body was read to the end.
THEOREM AcceptedFromBody == Spec => []AcceptedWhole
<1>1. IInv => AcceptedWhole
  BY DEF IInv
<1>. QED BY <1>1, LogicInvariant, PTL

\* A consumer goes past a record only by handling it, or by a crash after it
\* was committed.
THEOREM PassedOnlyHandled == Spec => []PassedHandled
<1>1. IInv => PassedHandled
  BY DEF IInv
<1>. QED BY <1>1, LogicInvariant, PTL

=============================================================================
