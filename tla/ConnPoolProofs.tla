--------------------------- MODULE ConnPoolProofs ---------------------------
(***************************************************************************)
(* Proofs about ConnPool, for any set of threads and any limits: the       *)
(* inductive invariant PoolInv, and from it that the threads never all     *)
(* sleep.                                                                  *)
(***************************************************************************)
EXTENDS ConnPool, FiniteSetTheorems, SequenceTheorems, TLAPS

-----------------------------------------------------------------------------
(* Lists, paths and sets of threads.                                       *)

\* pop_front takes one connection out of a list without duplicates.
LEMMA PopFront ==
    ASSUME NEW S, NEW s \in Seq(S), s # <<>>, IsInjective(s)
    PROVE  /\ Head(s) \in S
           /\ Head(s) \in Range(s)
           /\ Tail(s) \in Seq(S)
           /\ Len(Tail(s)) = Len(s) - 1
           /\ IsInjective(Tail(s))
           /\ Range(Tail(s)) = Range(s) \ {Head(s)}
<1>1. /\ Head(s) = s[1] /\ Tail(s) \in Seq(S) /\ Len(Tail(s)) = Len(s) - 1
      /\ \A i \in 1 .. Len(Tail(s)) : Tail(s)[i] = s[i + 1]
      /\ Len(s) \in Nat /\ Len(s) > 0
    OBVIOUS
<1>2. DOMAIN s = 1 .. Len(s) /\ DOMAIN Tail(s) = 1 .. Len(s) - 1
    BY <1>1
<1>3. \A i \in 1 .. Len(s) : s[i] \in S
    OBVIOUS
<1>4. Head(s) \in S /\ Head(s) \in Range(s)
    BY <1>1, <1>2, <1>3 DEF Range
<1>5. IsInjective(Tail(s))
  <2> SUFFICES ASSUME NEW i \in 1 .. Len(s) - 1, NEW j \in 1 .. Len(s) - 1,
                      Tail(s)[i] = Tail(s)[j]
               PROVE  i = j
      BY <1>2 DEF IsInjective
  <2>1. s[i + 1] = s[j + 1]
      BY <1>1
  <2>2. i + 1 \in DOMAIN s /\ j + 1 \in DOMAIN s
      BY <1>1, <1>2
  <2> QED BY <2>1, <2>2 DEF IsInjective
<1>6. Range(Tail(s)) \subseteq Range(s) \ {Head(s)}
  <2> SUFFICES ASSUME NEW i \in 1 .. Len(s) - 1
               PROVE  Tail(s)[i] \in Range(s) /\ Tail(s)[i] # Head(s)
      BY <1>2 DEF Range
  <2>1. Tail(s)[i] = s[i + 1] /\ i + 1 \in DOMAIN s /\ 1 \in DOMAIN s /\ i + 1 # 1
      BY <1>1, <1>2
  <2> QED BY <2>1, <1>1 DEF Range, IsInjective
<1>7. Range(s) \ {Head(s)} \subseteq Range(Tail(s))
  <2> SUFFICES ASSUME NEW i \in 1 .. Len(s), s[i] # Head(s)
               PROVE  s[i] \in Range(Tail(s))
      BY <1>2 DEF Range
  <2>1. i - 1 \in 1 .. Len(s) - 1 /\ (i - 1) + 1 = i
      BY <1>1
  <2>2. Tail(s)[i - 1] = s[i]
      BY <2>1, <1>1
  <2> QED BY <2>1, <2>2, <1>2 DEF Range
<1> QED BY <1>1, <1>4, <1>5, <1>6, <1>7

\* push_back adds one connection to a list that does not hold it.
LEMMA PushBack ==
    ASSUME NEW S, NEW s \in Seq(S), NEW x \in S, x \notin Range(s), IsInjective(s)
    PROVE  /\ Append(s, x) \in Seq(S)
           /\ Len(Append(s, x)) = Len(s) + 1
           /\ IsInjective(Append(s, x))
           /\ Range(Append(s, x)) = Range(s) \cup {x}
<1>1. /\ Append(s, x) \in Seq(S) /\ Len(Append(s, x)) = Len(s) + 1
      /\ \A i \in 1 .. Len(s) : Append(s, x)[i] = s[i]
      /\ Append(s, x)[Len(s) + 1] = x
      /\ Len(s) \in Nat
    BY AppendProperties
<1>2. DOMAIN s = 1 .. Len(s) /\ DOMAIN Append(s, x) = 1 .. Len(s) + 1
    BY <1>1
<1>3. \A i \in 1 .. Len(s) : s[i] # x
    BY <1>2 DEF Range
<1>4. IsInjective(Append(s, x))
  <2> SUFFICES ASSUME NEW i \in 1 .. Len(s) + 1, NEW j \in 1 .. Len(s) + 1,
                      Append(s, x)[i] = Append(s, x)[j]
               PROVE  i = j
      BY <1>2 DEF IsInjective
  <2>1. CASE i \in 1 .. Len(s) /\ j \in 1 .. Len(s)
      BY <2>1, <1>1, <1>2 DEF IsInjective
  <2>2. CASE i = Len(s) + 1 /\ j \in 1 .. Len(s)
      BY <2>2, <1>1, <1>3
  <2>3. CASE i \in 1 .. Len(s) /\ j = Len(s) + 1
      BY <2>3, <1>1, <1>3
  <2>4. CASE i = Len(s) + 1 /\ j = Len(s) + 1
      BY <2>4
  <2> QED BY <2>1, <2>2, <2>3, <2>4, <1>1
<1>5. Range(Append(s, x)) \subseteq Range(s) \cup {x}
  <2> SUFFICES ASSUME NEW i \in 1 .. Len(s) + 1
               PROVE  Append(s, x)[i] \in Range(s) \cup {x}
      BY <1>2 DEF Range
  <2>1. CASE i \in 1 .. Len(s)
      BY <2>1, <1>1, <1>2 DEF Range
  <2>2. CASE i = Len(s) + 1
      BY <2>2, <1>1
  <2> QED BY <2>1, <2>2, <1>1
<1>6. Range(s) \cup {x} \subseteq Range(Append(s, x))
  <2>1. Len(s) + 1 \in DOMAIN Append(s, x) /\ \A i \in DOMAIN s : i \in DOMAIN Append(s, x)
      BY <1>1, <1>2
  <2>2. \A i \in DOMAIN s : Append(s, x)[i] = s[i]
      BY <1>1, <1>2
  <2> QED BY <2>1, <2>2, <1>1 DEF Range
<1> QED BY <1>1, <1>4, <1>5, <1>6

\* The first element and the rest of a path of one or two pools.
LEMMA ShortPath ==
    ASSUME NEW a, NEW b
    PROVE  /\ <<a>> # <<>> /\ Head(<<a>>) = a /\ Tail(<<a>>) = <<>>
           /\ <<a, b>> # <<>> /\ Head(<<a, b>>) = a /\ Tail(<<a, b>>) = <<b>>
<1>1. /\ <<a>> \in Seq({a, b}) /\ Len(<<a>>) = 1
      /\ <<b>> \in Seq({a, b}) /\ Len(<<b>>) = 1
      /\ <<a, b>> \in Seq({a, b}) /\ Len(<<a, b>>) = 2
    OBVIOUS
<1>2. Tail(<<a, b>>) \in Seq({a, b}) /\ Len(Tail(<<a, b>>)) = 1 /\ Tail(<<a, b>>)[1] = b
    BY <1>1
<1>3. Tail(<<a, b>>) = <<b>>
    BY <1>1, <1>2, SeqEqual
<1> QED BY <1>1, <1>3

\* A handler's path leads to pools of ever higher rank.
LEMMA PathRises ==
    ASSUME NEW s \in Path
    PROVE  /\ s # <<>>
           /\ Head(s) \in Pool
           /\ Tail(s) \in Path \cup {<<>>}
           /\ Tail(s) # <<>> => Rank(Head(s)) < Rank(Head(Tail(s)))
<1>1. ASSUME NEW a \in Pool, s = <<a>>
      PROVE  s # <<>> /\ Head(s) \in Pool /\ Tail(s) = <<>>
    BY <1>1, ShortPath
<1>2. ASSUME NEW a \in CachePools, NEW b \in DBPools, s = <<a, b>>
      PROVE  s # <<>> /\ Head(s) = a /\ Tail(s) = <<b>> /\ Head(Tail(s)) = b
    BY <1>2, ShortPath
<1>3. /\ \A a \in CachePools : a \in Pool /\ Rank(a) = 1
      /\ \A b \in DBPools : b \in Pool /\ Rank(b) = 2 /\ <<b>> \in Path
    BY DEF Pool, CachePools, DBPools, Rank, Path
<1>4. \/ \E a \in Pool : s = <<a>>
      \/ \E a \in CachePools, b \in DBPools : s = <<a, b>>
    BY Zenon DEF Path, Pool, CachePools, DBPools
<1>5. CASE \E a \in Pool : s = <<a>>
    BY <1>5, <1>1
<1>6. CASE \E a \in CachePools, b \in DBPools : s = <<a, b>>
  <2>1. PICK a \in CachePools, b \in DBPools : s = <<a, b>>
      BY <1>6
  <2>2. Head(s) = a /\ Tail(s) = <<b>> /\ Head(Tail(s)) = b /\ s # <<>>
      BY <2>1, <1>2
  <2>3. Rank(a) = 1 /\ Rank(b) = 2
      BY <1>3
  <2>4. Rank(Head(s)) < Rank(Head(Tail(s)))
      BY <2>2, <2>3
  <2> QED BY <2>2, <2>4, <1>3
<1> QED BY <1>4, <1>5, <1>6

\* Every pool has rank 1 or 2 and starts with at least one connection.
LEMMA PoolFacts ==
    ASSUME NEW p \in Pool
    PROVE  Rank(p) \in {1, 2} /\ MinConn[p] \in {1, 2}
BY DEF Rank, MinConn

\* Counting threads: one more, one less.
LEMMA Count ==
    ASSUME NEW W \in SUBSET Thread, NEW t \in Thread
    PROVE  /\ Cardinality(W) \in Nat
           /\ Cardinality(W \ {t}) >= Cardinality(W) - 1
           /\ t \notin W => Cardinality(W \cup {t}) = Cardinality(W) + 1
           /\ Cardinality(W \cup {t}) >= Cardinality(W)
<1>1. IsFiniteSet(W)
    BY FS_Subset, PoolAssumption DEF PoolAssumption
<1>2. Cardinality(W) \in Nat
    BY <1>1, FS_CardinalityType
<1>3. Cardinality(W \ {t}) = IF t \in W THEN Cardinality(W) - 1 ELSE Cardinality(W)
    BY <1>1, FS_RemoveElement
<1>4. Cardinality(W \cup {t}) = IF t \in W THEN Cardinality(W) ELSE Cardinality(W) + 1
    BY <1>1, FS_AddElement
<1> QED BY <1>2, <1>3, <1>4

-----------------------------------------------------------------------------
(* Effects shared by several actions.                                      *)

\* The thread t stops waiting, if it was, and goes on: no set of sleepers
\* grows, and of the woken threads only t leaves, and only those of its pool.
LEMMA LeavesWait ==
    ASSUME TypeOK, Ordered, NEW t \in Thread,
           NEW x, todo' = [todo EXCEPT ![t] = x],
           mode' = [mode EXCEPT ![t] = "run"]
    PROVE  \A q \in Pool :
             /\ Asleep(q)' \subseteq Asleep(q)
             /\ Woken(q)' = Woken(q) \ {t}
             /\ q # Head(todo[t]) => Woken(q)' = Woken(q)
BY DEF TypeOK, Asleep, Woken

\* A wait ends without a connection moving.
LEMMA NullInv ==
    ASSUME TypeOK, PoolInv, NEW t \in Thread,
           free[Head(todo[t])] = <<>>, Null(t)
    PROVE  TypeOK' /\ PoolInv'
<1>1. TypeOK'
    BY DEF TypeOK, Null
<1>2. Places'
    BY DEF PoolInv, Places, Null
<1>3. WithinLimit'
    BY DEF PoolInv, WithinLimit, Null
<1>4. NoLostWakeup'
  <2> SUFFICES ASSUME NEW q \in Pool, Asleep(q)' # {}
               PROVE  Cardinality(Woken(q)') >= Len(free'[q])
      BY DEF NoLostWakeup
  <2>1. /\ Asleep(q)' \subseteq Asleep(q)
        /\ Woken(q)' = Woken(q) \ {t}
        /\ q # Head(todo[t]) => Woken(q)' = Woken(q)
      BY LeavesWait DEF PoolInv, Null
  <2>2. Cardinality(Woken(q)) >= Len(free[q])
      BY <2>1 DEF PoolInv, NoLostWakeup
  <2>3. CASE q # Head(todo[t])
      BY <2>1, <2>2, <2>3 DEF Null
  <2>4. CASE q = Head(todo[t])
    <3>1. Woken(q)' \in SUBSET Thread
        BY <2>1 DEF Woken
    <3>2. Cardinality(Woken(q)') \in Nat
        BY <3>1, Count
    <3>3. free'[q] = <<>>
        BY <2>4 DEF Null
    <3> QED BY <3>2, <3>3
  <2> QED BY <2>3, <2>4
<1>5. Ordered'
    BY DEF PoolInv, Ordered, TypeOK, Null
<1> QED BY <1>1, <1>2, <1>3, <1>4, <1>5 DEF PoolInv

\* A connection of the next pool on its path goes to thread t.
LEMMA GiveEffect ==
    ASSUME TypeOK, Ordered, NEW t \in Thread, todo[t] # <<>>, NEW p, p = Head(todo[t]),
           NEW i \in Nat \ {0}, Give(t, p, i)
    PROVE  /\ p \in Pool
           /\ held' \in [Thread -> SUBSET Conn]
           /\ todo' \in [Thread -> Path \cup {<<>>}]
           /\ mode' \in [Thread -> {"run", "asleep", "woken"}]
           /\ held'[t] = held[t] \cup {<<p, i>>}
           /\ \A u \in Thread : u # t => held'[u] = held[u]
           /\ Ordered'
<1>1. todo[t] \in Path
    BY DEF TypeOK
<1>2. /\ p \in Pool
      /\ Tail(todo[t]) \in Path \cup {<<>>}
      /\ Tail(todo[t]) # <<>> => Rank(p) < Rank(Head(Tail(todo[t])))
    BY <1>1, PathRises
<1>3. <<p, i>> \in Conn
    BY <1>2 DEF Conn
<1>4. /\ held' = [held EXCEPT ![t] = held[t] \cup {<<p, i>>}]
      /\ todo' = [todo EXCEPT ![t] = Tail(todo[t])]
      /\ mode' = [mode EXCEPT ![t] = "run"]
    BY DEF Give
<1>5. /\ held' \in [Thread -> SUBSET Conn]
      /\ todo' \in [Thread -> Path \cup {<<>>}]
      /\ mode' \in [Thread -> {"run", "asleep", "woken"}]
    BY <1>2, <1>3, <1>4 DEF TypeOK
<1>6. /\ held'[t] = held[t] \cup {<<p, i>>} /\ todo'[t] = Tail(todo[t]) /\ mode'[t] = "run"
      /\ \A u \in Thread : u # t => held'[u] = held[u] /\ todo'[u] = todo[u] /\ mode'[u] = mode[u]
    BY <1>4 DEF TypeOK
<1>7. Ordered'
  <2> SUFFICES ASSUME NEW u \in Thread
               PROVE  /\ mode'[u] # "run" => todo'[u] # <<>>
                      /\ todo'[u] # <<>> => \A c \in held'[u] : Rank(c[1]) < Rank(Head(todo'[u]))
      BY DEF Ordered
  <2>1. CASE u # t
      BY <2>1, <1>6 DEF Ordered
  <2>2. CASE u = t
    <3>1. \A c \in held[t] : Rank(c[1]) < Rank(p) /\ c[1] \in Pool
        BY DEF Ordered, TypeOK, Conn
    <3>2. ASSUME Tail(todo[t]) # <<>>, NEW c \in held[t] \cup {<<p, i>>}
          PROVE  Rank(c[1]) < Rank(Head(Tail(todo[t])))
      <4>1. Rank(p) < Rank(Head(Tail(todo[t])))
          BY <1>2, <3>2
      <4>2. Head(Tail(todo[t])) \in Pool
          BY <1>2, <3>2, PathRises
      <4>3. CASE c \in held[t]
        <5>1. Rank(c[1]) < Rank(p)
            BY <4>3, <3>1
        <5> QED BY <5>1, <4>1 DEF Rank
      <4>4. CASE c = <<p, i>>
          BY <4>1, <4>4
      <4> QED BY <4>3, <4>4, <3>2
    <3> QED BY <2>2, <1>6, <3>2
  <2> QED BY <2>1, <2>2
<1> QED BY <1>2, <1>5, <1>6, <1>7

\* A connection made for thread t.
LEMMA CreateInv ==
    ASSUME TypeOK, PoolInv, NEW t \in Thread, todo[t] # <<>>, NEW p, p = Head(todo[t]),
           Create(t, p)
    PROVE  TypeOK' /\ PoolInv'
<1>0. p \in Pool
    BY PathRises DEF TypeOK
<1>1. /\ cur[p] \in Nat /\ cur[p] + 1 \in Nat \ {0}
      /\ free[p] = <<>> /\ free' = free
      /\ cur' \in [Pool -> Nat] /\ cur'[p] = cur[p] + 1
      /\ \A q \in Pool : q # p => cur'[q] = cur[q]
      /\ cur[p] < MaxConn[p]
      /\ Give(t, p, cur[p] + 1)
    BY <1>0 DEF Create, TypeOK
<1> DEFINE n == cur[p] + 1
<1>2. /\ held' \in [Thread -> SUBSET Conn]
      /\ todo' \in [Thread -> Path \cup {<<>>}]
      /\ mode' \in [Thread -> {"run", "asleep", "woken"}]
      /\ held'[t] = held[t] \cup {<<p, n>>}
      /\ \A u \in Thread : u # t => held'[u] = held[u]
      /\ Ordered'
    BY <1>1, GiveEffect DEF PoolInv
<1>3. TypeOK'
    BY <1>1, <1>2 DEF TypeOK
<1>4. \A u \in Thread : <<p, n>> \notin held[u]
  <2> SUFFICES ASSUME NEW u \in Thread, <<p, n>> \in held[u]
               PROVE  FALSE
      OBVIOUS
  <2>1. n \in 1 .. cur[p]
      BY DEF PoolInv, Places
  <2> QED BY <2>1, <1>1
<1>5. Places'
  <2>1. \A q \in Pool : cur[q] \in Nat /\ cur'[q] \in Nat /\ cur[q] <= cur'[q]
    <3> SUFFICES ASSUME NEW q \in Pool
                 PROVE  cur[q] \in Nat /\ cur'[q] \in Nat /\ cur[q] <= cur'[q]
        OBVIOUS
    <3>1. cur[q] \in Nat /\ cur'[q] \in Nat
        BY <1>1 DEF TypeOK
    <3>2. cur'[q] = cur[q] + 1 \/ cur'[q] = cur[q]
        BY <1>1
    <3> QED BY <3>1, <3>2
  <2>2. \A q \in Pool : IsInjective(free'[q]) /\ Range(free'[q]) \subseteq 1 .. cur'[q]
    <3> SUFFICES ASSUME NEW q \in Pool
                 PROVE  IsInjective(free[q]) /\ Range(free[q]) \subseteq 1 .. cur'[q]
        BY <1>1
    <3>1. IsInjective(free[q]) /\ Range(free[q]) \subseteq 1 .. cur[q]
        BY DEF PoolInv, Places
    <3>2. 1 .. cur[q] \subseteq 1 .. cur'[q]
        BY <2>1
    <3> QED BY <3>1, <3>2
  <2>3. ASSUME NEW u \in Thread, NEW c \in held'[u]
        PROVE  c[2] \in 1 .. cur'[c[1]] \ Range(free'[c[1]])
    <3>1. CASE c \in held[u]
      <4>1. c[1] \in Pool /\ c[2] \in 1 .. cur[c[1]] \ Range(free[c[1]])
          BY <3>1 DEF PoolInv, Places, TypeOK, Conn
      <4>2. 1 .. cur[c[1]] \subseteq 1 .. cur'[c[1]]
          BY <4>1, <2>1
      <4> QED BY <4>1, <4>2, <1>1
    <3>2. CASE c = <<p, n>>
      <4>1. c[1] = p /\ c[2] = n /\ Range(free'[p]) = {}
          BY <3>2, <1>1 DEF Range
      <4>2. n \in 1 .. cur'[p]
          BY <1>1
      <4> QED BY <4>1, <4>2
    <3> QED BY <2>3, <3>1, <3>2, <1>2
  <2>4. \A u, v \in Thread : u # v => held'[u] \cap held'[v] = {}
      BY <1>2, <1>4 DEF PoolInv, Places
  <2>5. ASSUME NEW q \in Pool, NEW i \in 1 .. cur'[q]
        PROVE  i \in Range(free'[q]) \/ \E u \in Thread : <<q, i>> \in held'[u]
    <3>1. CASE q = p /\ i = n
        BY <3>1, <1>2
    <3>2. CASE ~(q = p /\ i = n)
      <4>1. i \in 1 .. cur[q]
          BY <3>2, <1>1, <2>1
      <4>2. i \in Range(free[q]) \/ \E u \in Thread : <<q, i>> \in held[u]
          BY <4>1 DEF PoolInv, Places
      <4> QED BY <4>2, <1>1, <1>2
    <3> QED BY <3>1, <3>2
  <2> QED BY <2>2, <2>3, <2>4, <2>5 DEF Places
<1>6. WithinLimit'
  <2> SUFFICES ASSUME NEW q \in Pool
               PROVE  cur'[q] >= MinConn[q] /\ (cur'[q] <= MaxConn[q] \/ cur'[q] = MinConn[q])
      BY DEF WithinLimit
  <2>1. cur[q] >= MinConn[q] /\ (cur[q] <= MaxConn[q] \/ cur[q] = MinConn[q])
      BY DEF PoolInv, WithinLimit
  <2>2. MaxConn[q] \in Nat /\ MinConn[q] \in Nat /\ cur[q] \in Nat
    <3>1. MaxConn[q] \in Nat
        BY PoolAssumption DEF PoolAssumption
    <3>2. cur[q] \in Nat
        BY DEF TypeOK
    <3>3. MinConn[q] \in Nat
        BY PoolFacts
    <3> QED BY <3>1, <3>2, <3>3
  <2>3. CASE q = p
      BY <2>1, <2>2, <2>3, <1>1
  <2>4. CASE q # p
      BY <2>1, <2>4, <1>1
  <2> QED BY <2>3, <2>4
<1>7. NoLostWakeup'
  <2> SUFFICES ASSUME NEW q \in Pool, Asleep(q)' # {}
               PROVE  Cardinality(Woken(q)') >= Len(free'[q])
      BY DEF NoLostWakeup
  <2>1. /\ Asleep(q)' \subseteq Asleep(q)
        /\ q # p => Woken(q)' = Woken(q)
        /\ Woken(q)' = Woken(q) \ {t}
      BY <1>1, LeavesWait DEF PoolInv, Give
  <2>2. Cardinality(Woken(q)) >= Len(free[q])
      BY <2>1 DEF PoolInv, NoLostWakeup
  <2>3. CASE q # p
      BY <2>1, <2>2, <2>3, <1>1
  <2>4. CASE q = p
    <3>1. Woken(q)' \in SUBSET Thread
        BY <2>1 DEF Woken
    <3>2. Cardinality(Woken(q)') \in Nat
        BY <3>1, Count
    <3> QED BY <3>2, <2>4, <1>1
  <2> QED BY <2>3, <2>4
<1> QED BY <1>2, <1>3, <1>5, <1>6, <1>7 DEF PoolInv

\* The front of the free list goes to thread t.
LEMMA TakeInv ==
    ASSUME TypeOK, PoolInv, NEW t \in Thread, todo[t] # <<>>, NEW p, p = Head(todo[t]),
           Take(t, p)
    PROVE  TypeOK' /\ PoolInv'
<1>0. p \in Pool
    BY PathRises DEF TypeOK
<1> DEFINE n == Head(free[p])
<1>1. /\ free[p] \in Seq(Nat \ {0}) /\ free[p] # <<>>
      /\ IsInjective(free[p]) /\ Range(free[p]) \subseteq 1 .. cur[p]
      /\ free' = [free EXCEPT ![p] = Tail(free[p])]
      /\ cur' = cur
      /\ Give(t, p, n)
    BY <1>0 DEF Take, TypeOK, PoolInv, Places
<1>2. /\ n \in Nat \ {0}
      /\ n \in Range(free[p])
      /\ Tail(free[p]) \in Seq(Nat \ {0})
      /\ Len(Tail(free[p])) = Len(free[p]) - 1
      /\ IsInjective(Tail(free[p]))
      /\ Range(Tail(free[p])) = Range(free[p]) \ {n}
    BY <1>1, PopFront
<1>3. /\ free' \in [Pool -> Seq(Nat \ {0})]
      /\ free'[p] = Tail(free[p])
      /\ \A q \in Pool : q # p => free'[q] = free[q]
    BY <1>0, <1>1, <1>2 DEF TypeOK
<1>4. /\ held' \in [Thread -> SUBSET Conn]
      /\ todo' \in [Thread -> Path \cup {<<>>}]
      /\ mode' \in [Thread -> {"run", "asleep", "woken"}]
      /\ held'[t] = held[t] \cup {<<p, n>>}
      /\ \A u \in Thread : u # t => held'[u] = held[u]
      /\ Ordered'
    BY <1>1, <1>2, GiveEffect DEF PoolInv
<1>5. TypeOK'
    BY <1>1, <1>3, <1>4 DEF TypeOK
<1>6. \A u \in Thread : <<p, n>> \notin held[u]
    BY <1>2 DEF PoolInv, Places
<1>7. Places'
  <2>1. \A q \in Pool : IsInjective(free'[q]) /\ Range(free'[q]) \subseteq 1 .. cur'[q]
                        /\ Range(free'[q]) \subseteq Range(free[q])
      BY <1>0, <1>1, <1>2, <1>3 DEF PoolInv, Places
  <2>2. ASSUME NEW u \in Thread, NEW c \in held'[u]
        PROVE  c[2] \in 1 .. cur'[c[1]] \ Range(free'[c[1]])
    <3>1. CASE c \in held[u]
      <4>1. c[1] \in Pool /\ c[2] \in 1 .. cur[c[1]] \ Range(free[c[1]])
          BY <3>1 DEF PoolInv, Places, TypeOK, Conn
      <4> QED BY <4>1, <1>1, <2>1
    <3>2. CASE c = <<p, n>>
      <4>1. c[1] = p /\ c[2] = n
          BY <3>2
      <4> QED BY <4>1, <1>1, <1>2, <1>3
    <3> QED BY <2>2, <3>1, <3>2, <1>4
  <2>3. \A u, v \in Thread : u # v => held'[u] \cap held'[v] = {}
      BY <1>4, <1>6 DEF PoolInv, Places
  <2>4. ASSUME NEW q \in Pool, NEW i \in 1 .. cur'[q]
        PROVE  i \in Range(free'[q]) \/ \E u \in Thread : <<q, i>> \in held'[u]
    <3>1. i \in Range(free[q]) \/ \E u \in Thread : <<q, i>> \in held[u]
        BY <1>1 DEF PoolInv, Places
    <3>2. CASE q = p /\ i = n
        BY <3>2, <1>4
    <3>3. CASE ~(q = p /\ i = n)
        BY <3>1, <3>3, <1>2, <1>3, <1>4
    <3> QED BY <3>2, <3>3
  <2> QED BY <2>1, <2>2, <2>3, <2>4 DEF Places
<1>8. WithinLimit'
    BY <1>1 DEF PoolInv, WithinLimit
<1>9. NoLostWakeup'
  <2> SUFFICES ASSUME NEW q \in Pool, Asleep(q)' # {}
               PROVE  Cardinality(Woken(q)') >= Len(free'[q])
      BY DEF NoLostWakeup
  <2>1. /\ Asleep(q)' \subseteq Asleep(q)
        /\ q # p => Woken(q)' = Woken(q)
        /\ Woken(q)' = Woken(q) \ {t}
      BY <1>1, LeavesWait DEF PoolInv, Give
  <2>2. Cardinality(Woken(q)) >= Len(free[q])
      BY <2>1 DEF PoolInv, NoLostWakeup
  <2>3. CASE q # p
      BY <2>1, <2>2, <2>3, <1>3
  <2>4. CASE q = p
    <3>1. Woken(q) \in SUBSET Thread
        BY DEF Woken
    <3>2. Cardinality(Woken(q) \ {t}) >= Cardinality(Woken(q)) - 1
        BY <3>1, Count
    <3>3. Len(free'[q]) = Len(free[q]) - 1 /\ Len(free[q]) \in Nat
        BY <2>4, <1>1, <1>2, <1>3, LenProperties
    <3>4. Cardinality(Woken(q)) \in Nat /\ Cardinality(Woken(q) \ {t}) \in Nat
      <4>1. Woken(q) \ {t} \in SUBSET Thread
          BY <3>1
      <4> QED BY <3>1, <4>1, Count
    <3> HIDE DEF n
    <3> QED BY <3>2, <3>3, <3>4, <2>1, <2>2
  <2> QED BY <2>3, <2>4
<1> QED BY <1>4, <1>5, <1>7, <1>8, <1>9 DEF PoolInv

\* Thread t goes to sleep on the empty list of p.
LEMMA SleepInv ==
    ASSUME TypeOK, PoolInv, NEW t \in Thread, todo[t] # <<>>, NEW p, p = Head(todo[t]),
           Sleep(t, p)
    PROVE  TypeOK' /\ PoolInv'
<1>1. /\ free[p] = <<>>
      /\ mode' = [mode EXCEPT ![t] = "asleep"]
      /\ free' = free /\ cur' = cur /\ todo' = todo /\ held' = held
    BY DEF Sleep
<1>2. TypeOK'
    BY <1>1 DEF TypeOK
<1>3. Places' /\ WithinLimit'
    BY <1>1 DEF PoolInv, Places, WithinLimit
<1>4. NoLostWakeup'
  <2> SUFFICES ASSUME NEW q \in Pool, Asleep(q)' # {}
               PROVE  Cardinality(Woken(q)') >= Len(free'[q])
      BY DEF NoLostWakeup
  <2>1. CASE q = p
    <3>1. Woken(q)' \in SUBSET Thread
        BY DEF Woken
    <3>2. Cardinality(Woken(q)') \in Nat
        BY <3>1, Count
    <3> QED BY <3>2, <2>1, <1>1
  <2>2. CASE q # p
    <3>1. Asleep(q)' = Asleep(q) /\ Woken(q)' = Woken(q)
        BY <2>2, <1>1 DEF Asleep, Woken, TypeOK
    <3> QED BY <3>1, <1>1 DEF PoolInv, NoLostWakeup
  <2> QED BY <2>1, <2>2
<1>5. Ordered'
    BY <1>1 DEF PoolInv, Ordered, TypeOK
<1> QED BY <1>2, <1>3, <1>4, <1>5 DEF PoolInv

\* Waking a sleeper: the sets of sleepers and woken threads of its pool.
LEMMA WakeEffect ==
    ASSUME TypeOK, NEW w \in Thread, mode[w] = "asleep",
           mode' = [mode EXCEPT ![w] = "woken"], todo' = todo
    PROVE  \A q \in Pool :
             /\ Asleep(q)' = Asleep(q) \ {w}
             /\ q = Head(todo[w]) => w \notin Woken(q) /\ Woken(q)' = Woken(q) \cup {w}
             /\ q # Head(todo[w]) => Woken(q)' = Woken(q)
BY DEF TypeOK, Asleep, Woken

\* A spurious wake-up.
LEMMA SpuriousInv ==
    ASSUME TypeOK, PoolInv, NEW t \in Thread, Spurious(t)
    PROVE  TypeOK' /\ PoolInv'
<1>1. /\ mode[t] = "asleep"
      /\ mode' = [mode EXCEPT ![t] = "woken"]
      /\ free' = free /\ cur' = cur /\ todo' = todo /\ held' = held
    BY DEF Spurious
<1>2. TypeOK'
    BY <1>1 DEF TypeOK
<1>3. Places' /\ WithinLimit'
    BY <1>1 DEF PoolInv, Places, WithinLimit
<1>4. NoLostWakeup'
  <2> SUFFICES ASSUME NEW q \in Pool, Asleep(q)' # {}
               PROVE  Cardinality(Woken(q)') >= Len(free'[q])
      BY DEF NoLostWakeup
  <2>1. /\ Asleep(q)' = Asleep(q) \ {t}
        /\ Woken(q)' \in {Woken(q), Woken(q) \cup {t}}
      BY <1>1, WakeEffect
  <2>2. Cardinality(Woken(q)) >= Len(free[q]) /\ Len(free[q]) \in Nat
      BY <2>1, LenProperties DEF PoolInv, NoLostWakeup, TypeOK
  <2>3. Woken(q) \in SUBSET Thread /\ Woken(q)' \in SUBSET Thread
      BY DEF Woken
  <2>4. Cardinality(Woken(q)') >= Cardinality(Woken(q)) /\ Cardinality(Woken(q)) \in Nat
        /\ Cardinality(Woken(q)') \in Nat
    <3>1. Cardinality(Woken(q) \cup {t}) >= Cardinality(Woken(q)) /\ Cardinality(Woken(q)) \in Nat
        BY <2>3, Count
    <3>2. Cardinality(Woken(q)') \in Nat
        BY <2>3, Count
    <3> QED BY <3>1, <3>2, <2>1
  <2> QED BY <2>2, <2>4, <1>1
<1>5. Ordered'
    BY <1>1 DEF PoolInv, Ordered, TypeOK
<1> QED BY <1>2, <1>3, <1>4, <1>5 DEF PoolInv

\* A handler starts with nothing held.
LEMMA BeginInv ==
    ASSUME TypeOK, PoolInv, NEW t \in Thread, Begin(t)
    PROVE  TypeOK' /\ PoolInv'
<1>1. PICK path \in Path : todo' = [todo EXCEPT ![t] = path]
    BY DEF Begin
<1>2. /\ todo[t] = <<>> /\ held[t] = {} /\ mode[t] = "run"
      /\ free' = free /\ cur' = cur /\ held' = held /\ mode' = mode
    BY DEF Begin, Idle, PoolInv, Ordered
<1>3. TypeOK'
    BY <1>1, <1>2 DEF TypeOK
<1>4. Places' /\ WithinLimit'
    BY <1>2 DEF PoolInv, Places, WithinLimit
<1>5. \A q \in Pool : Asleep(q)' = Asleep(q) /\ Woken(q)' = Woken(q)
    BY <1>1, <1>2 DEF Asleep, Woken, TypeOK
<1>6. NoLostWakeup'
    BY <1>2, <1>5 DEF PoolInv, NoLostWakeup
<1>7. Ordered'
    BY <1>1, <1>2 DEF PoolInv, Ordered, TypeOK
<1> QED BY <1>3, <1>4, <1>6, <1>7 DEF PoolInv

\* A connection goes to the back of its list and one sleeper is notified.
LEMMA ReleaseInv ==
    ASSUME TypeOK, PoolInv, NEW t \in Thread, Release(t)
    PROVE  TypeOK' /\ PoolInv'
<1>1. PICK c \in held[t] : /\ held' = [held EXCEPT ![t] = @ \ {c}]
                           /\ free' = [free EXCEPT ![c[1]] = Append(@, c[2])]
                           /\ NotifyOne(c[1])
    BY DEF Release
<1> DEFINE p == c[1]
           n == c[2]
<1>2. c = <<p, n>> /\ p \in Pool /\ n \in Nat \ {0}
    BY DEF TypeOK, Conn
<1>3. mode[t] = "run" /\ todo[t] = <<>> /\ cur' = cur /\ todo' = todo
    BY DEF Release
<1> HIDE DEF p, n
<1>4. n \in 1 .. cur[p] /\ n \notin Range(free[p]) /\ IsInjective(free[p])
      /\ free[p] \in Seq(Nat \ {0})
    BY <1>2 DEF PoolInv, Places, TypeOK, p, n
<1>5. /\ Append(free[p], n) \in Seq(Nat \ {0})
      /\ Len(Append(free[p], n)) = Len(free[p]) + 1
      /\ IsInjective(Append(free[p], n))
      /\ Range(Append(free[p], n)) = Range(free[p]) \cup {n}
    BY <1>2, <1>4, PushBack
<1>6. /\ free' \in [Pool -> Seq(Nat \ {0})]
      /\ free'[p] = Append(free[p], n)
      /\ \A q \in Pool : q # p => free'[q] = free[q]
    BY <1>1, <1>2, <1>5 DEF TypeOK, p, n
<1>7. /\ held' \in [Thread -> SUBSET Conn]
      /\ held'[t] = held[t] \ {<<p, n>>}
      /\ \A u \in Thread : u # t => held'[u] = held[u]
    BY <1>1, <1>2 DEF TypeOK
<1>8. \/ Asleep(p) = {} /\ mode' = mode
      \/ \E w \in Asleep(p) : mode' = [mode EXCEPT ![w] = "woken"]
    BY <1>1 DEF NotifyOne, p
<1>9. mode' \in [Thread -> {"run", "asleep", "woken"}]
    BY <1>8 DEF TypeOK
<1>10. TypeOK'
    BY <1>3, <1>6, <1>7, <1>9 DEF TypeOK
<1>11. Places'
  <2>1. \A q \in Pool : IsInjective(free'[q]) /\ Range(free'[q]) \subseteq 1 .. cur'[q]
    <3> SUFFICES ASSUME NEW q \in Pool
                 PROVE  IsInjective(free'[q]) /\ Range(free'[q]) \subseteq 1 .. cur[q]
        BY <1>3
    <3>1. IsInjective(free[q]) /\ Range(free[q]) \subseteq 1 .. cur[q]
        BY DEF PoolInv, Places
    <3>2. CASE q = p
        BY <3>1, <3>2, <1>4, <1>5, <1>6
    <3>3. CASE q # p
        BY <3>1, <3>3, <1>6
    <3> QED BY <3>2, <3>3
  <2>2. ASSUME NEW u \in Thread, NEW d \in held'[u]
        PROVE  d[2] \in 1 .. cur'[d[1]] \ Range(free'[d[1]])
    <3>1. d \in held[u] /\ d # <<p, n>> /\ d \in Conn
      <4>1. CASE u = t
          BY <4>1, <2>2, <1>7 DEF TypeOK
      <4>2. CASE u # t
          BY <4>2, <2>2, <1>2, <1>7 DEF TypeOK, PoolInv, Places
      <4> QED BY <4>1, <4>2
    <3>2. d[2] \in 1 .. cur[d[1]] \ Range(free[d[1]]) /\ d[1] \in Pool
        BY <3>1 DEF PoolInv, Places, Conn
    <3>3. d[1] = p => d[2] # n
        BY <3>1 DEF Conn
    <3> QED BY <3>2, <3>3, <1>3, <1>5, <1>6
  <2>3. \A u, v \in Thread : u # v => held'[u] \cap held'[v] = {}
      BY <1>7 DEF PoolInv, Places
  <2>4. ASSUME NEW q \in Pool, NEW i \in 1 .. cur'[q]
        PROVE  i \in Range(free'[q]) \/ \E u \in Thread : <<q, i>> \in held'[u]
    <3>1. i \in Range(free[q]) \/ \E u \in Thread : <<q, i>> \in held[u]
        BY <1>3 DEF PoolInv, Places
    <3>2. CASE q = p /\ i = n
        BY <3>2, <1>5, <1>6
    <3>3. CASE ~(q = p /\ i = n)
        BY <3>1, <3>3, <1>5, <1>6, <1>7
    <3> QED BY <3>2, <3>3
  <2> QED BY <2>1, <2>2, <2>3, <2>4 DEF Places
<1>12. WithinLimit'
    BY <1>3 DEF PoolInv, WithinLimit
<1>13. NoLostWakeup'
  <2> SUFFICES ASSUME NEW q \in Pool, Asleep(q)' # {}
               PROVE  Cardinality(Woken(q)') >= Len(free'[q])
      BY DEF NoLostWakeup
  <2>1. CASE Asleep(p) = {} /\ mode' = mode
    <3>1. Asleep(q)' = Asleep(q) /\ Woken(q)' = Woken(q) /\ q # p
        BY <2>1, <1>3 DEF Asleep, Woken
    <3> QED BY <3>1, <1>6 DEF PoolInv, NoLostWakeup
  <2>2. CASE \E w \in Asleep(p) : mode' = [mode EXCEPT ![w] = "woken"]
    <3>1. PICK w \in Asleep(p) : mode' = [mode EXCEPT ![w] = "woken"]
        BY <2>2
    <3>2. w \in Thread /\ mode[w] = "asleep" /\ Head(todo[w]) = p
        BY <3>1 DEF Asleep
    <3>3. /\ Asleep(q)' = Asleep(q) \ {w}
          /\ q = p => w \notin Woken(q) /\ Woken(q)' = Woken(q) \cup {w}
          /\ q # p => Woken(q)' = Woken(q)
        BY <3>1, <3>2, <1>3, WakeEffect
    <3>4. Cardinality(Woken(q)) >= Len(free[q]) /\ Len(free[q]) \in Nat
        BY <3>3, LenProperties DEF PoolInv, NoLostWakeup, TypeOK
    <3>5. CASE q # p
        BY <3>3, <3>4, <3>5, <1>6
    <3>6. CASE q = p
      <4>1. Woken(q) \in SUBSET Thread
          BY DEF Woken
      <4>2. Cardinality(Woken(q)') = Cardinality(Woken(q)) + 1 /\ Cardinality(Woken(q)) \in Nat
          BY <4>1, <3>2, <3>3, <3>6, Count
      <4>3. Len(free'[q]) = Len(free[q]) + 1
          BY <3>6, <1>5, <1>6
      <4> QED BY <4>2, <4>3, <3>4
    <3> QED BY <3>5, <3>6
  <2> QED BY <2>1, <2>2, <1>8
<1>14. Ordered'
  <2>1. \A u \in Thread : mode'[u] # "run" => mode[u] # "run"
      BY <1>8 DEF Asleep, TypeOK
  <2>2. \A u \in Thread : held'[u] \subseteq held[u]
      BY <1>7
  <2> QED BY <2>1, <2>2, <1>3 DEF PoolInv, Ordered
<1> QED BY <1>10, <1>11, <1>12, <1>13, <1>14 DEF PoolInv

-----------------------------------------------------------------------------
(* The steps together.                                                     *)

\* A call of GetDBConn up to its return or its sleep.
LEMMA GetInv ==
    ASSUME TypeOK, PoolInv, NEW t \in Thread, Get(t)
    PROVE  TypeOK' /\ PoolInv'
<1> DEFINE p == Head(todo[t])
<1>1. todo[t] # <<>> /\ \/ Take(t, p)
                        \/ Create(t, p)
                        \/ free[p] = <<>> /\ Null(t)
                        \/ Sleep(t, p)
    BY DEF Get
<1> QED BY <1>1, TakeInv, CreateInv, NullInv, SleepInv

\* The end of a wait.
LEMMA WaitInv ==
    ASSUME TypeOK, PoolInv, NEW t \in Thread, Resume(t) \/ Timeout(t)
    PROVE  TypeOK' /\ PoolInv'
<1> DEFINE p == Head(todo[t])
<1>1. mode[t] # "run"
    BY DEF Resume, Timeout
<1>2. todo[t] # <<>>
    BY <1>1 DEF PoolInv, Ordered
<1>3. Take(t, p) \/ Sleep(t, p) \/ (free[p] = <<>> /\ Null(t))
    BY DEF Resume, Timeout
<1> QED BY <1>2, <1>3, TakeInv, NullInv, SleepInv

\* The pools as the managers' Init leaves them.
LEMMA InitPool == Init => TypeOK /\ PoolInv
<1> SUFFICES ASSUME Init PROVE TypeOK /\ PoolInv
    OBVIOUS
<1>1. \A p \in Pool : MinConn[p] \in Nat /\ cur[p] = MinConn[p]
                      /\ free[p] = [i \in 1 .. MinConn[p] |-> i]
    BY PoolFacts DEF Init
<1>2. \A p \in Pool : free[p] \in Seq(Nat \ {0}) /\ IsInjective(free[p])
                      /\ Range(free[p]) = 1 .. cur[p]
  <2> SUFFICES ASSUME NEW p \in Pool
               PROVE  free[p] \in Seq(Nat \ {0}) /\ IsInjective(free[p])
                      /\ Range(free[p]) = 1 .. cur[p]
      OBVIOUS
  <2> DEFINE n == MinConn[p]
  <2>1. n \in Nat /\ cur[p] = n /\ free[p] = [i \in 1 .. n |-> i]
      BY <1>1
  <2> HIDE DEF n
  <2>2. DOMAIN free[p] = 1 .. cur[p] /\ \A i \in 1 .. cur[p] : free[p][i] = i
      BY <2>1
  <2>3. free[p] \in Seq(Nat \ {0})
    <3>1. free[p] \in [1 .. n -> Nat \ {0}]
        BY <2>1
    <3> QED BY <3>1, <2>1, SeqDef
  <2>4. IsInjective(free[p])
      BY <2>2 DEF IsInjective
  <2>5. Range(free[p]) = 1 .. cur[p]
      BY <2>2 DEF Range
  <2> QED BY <2>3, <2>4, <2>5
<1>3. TypeOK
  <2>1. free \in [Pool -> Seq(Nat \ {0})]
      BY <1>2 DEF Init
  <2>2. cur \in [Pool -> Nat]
      BY <1>1 DEF Init, MinConn
  <2> QED BY <2>1, <2>2 DEF Init, TypeOK
<1>4. Places
    BY <1>2 DEF Init, Places
<1>5. WithinLimit
  <2> SUFFICES ASSUME NEW p \in Pool
               PROVE  cur[p] >= MinConn[p] /\ cur[p] = MinConn[p]
      BY DEF WithinLimit
  <2>1. MinConn[p] \in Nat /\ cur[p] = MinConn[p]
      BY <1>1
  <2> QED BY <2>1
<1>6. NoLostWakeup
    BY DEF Init, NoLostWakeup, Asleep
<1>7. Ordered
    BY DEF Init, Ordered
<1> QED BY <1>3, <1>4, <1>5, <1>6, <1>7 DEF PoolInv

\* Every step keeps the inductive invariant.
LEMMA PoolStep == TypeOK /\ PoolInv /\ [Next]_vars => TypeOK' /\ PoolInv'
<1> SUFFICES ASSUME TypeOK, PoolInv, [Next]_vars PROVE TypeOK' /\ PoolInv'
    OBVIOUS
<1>1. CASE UNCHANGED vars
  <2>1. TypeOK'
      BY <1>1 DEF vars, TypeOK
  <2>2. Places' /\ WithinLimit'
      BY <1>1 DEF vars, PoolInv, Places, WithinLimit
  <2>3. NoLostWakeup'
      BY <1>1 DEF vars, PoolInv, NoLostWakeup, Asleep, Woken
  <2>4. Ordered'
      BY <1>1 DEF vars, PoolInv, Ordered
  <2> QED BY <2>1, <2>2, <2>3, <2>4 DEF PoolInv
<1>2. ASSUME NEW t \in Thread, Begin(t) PROVE TypeOK' /\ PoolInv'
    BY <1>2, BeginInv
<1>3. ASSUME NEW t \in Thread, Get(t) PROVE TypeOK' /\ PoolInv'
    BY <1>3, GetInv
<1>4. ASSUME NEW t \in Thread, Resume(t) \/ Timeout(t) PROVE TypeOK' /\ PoolInv'
    BY <1>4, WaitInv
<1>5. ASSUME NEW t \in Thread, Spurious(t) PROVE TypeOK' /\ PoolInv'
    BY <1>5, SpuriousInv
<1>6. ASSUME NEW t \in Thread, Release(t) PROVE TypeOK' /\ PoolInv'
    BY <1>6, ReleaseInv
<1> QED BY <1>1, <1>2, <1>3, <1>4, <1>5, <1>6 DEF Next

\* The invariant excludes that all threads sleep: the connections of the
\* highest pool slept for are held by threads that sleep for higher ones.
LEMMA InvAwake == TypeOK /\ PoolInv => SomeoneRuns
<1> SUFFICES ASSUME TypeOK, PoolInv, Thread # {}, \A t \in Thread : mode[t] = "asleep"
             PROVE  FALSE
    BY DEF SomeoneRuns
<1>1. ASSUME NEW t \in Thread
      PROVE  \E u \in Thread : Rank(Head(todo[t])) < Rank(Head(todo[u]))
  <2> DEFINE p == Head(todo[t])
  <2>1. todo[t] # <<>> /\ p \in Pool
      BY PathRises DEF PoolInv, Ordered, TypeOK
  <2>2. Asleep(p) # {} /\ Woken(p) = {}
      BY DEF Asleep, Woken
  <2>3. Len(free[p]) <= 0
      BY <2>1, <2>2, FS_EmptySet DEF PoolInv, NoLostWakeup
  <2>4. Range(free[p]) = {}
      BY <2>1, <2>3 DEF TypeOK, Range
  <2>5. 1 \in 1 .. cur[p]
    <3>1. cur[p] \in Nat /\ cur[p] >= MinConn[p]
        BY <2>1 DEF PoolInv, WithinLimit, TypeOK
    <3>2. MinConn[p] \in {1, 2}
        BY <2>1, PoolFacts
    <3> QED BY <3>1, <3>2
  <2>6. PICK u \in Thread : <<p, 1>> \in held[u]
      BY <2>1, <2>4, <2>5 DEF PoolInv, Places
  <2>7. todo[u] # <<>>
      BY DEF PoolInv, Ordered
  <2> QED BY <2>6, <2>7 DEF PoolInv, Ordered
<1>2. \A t \in Thread : Rank(Head(todo[t])) \in {1, 2}
    BY DEF Rank
<1>3. PICK t \in Thread : TRUE
    OBVIOUS
<1>4. PICK u \in Thread : Rank(Head(todo[t])) < Rank(Head(todo[u]))
    BY <1>1
<1>5. PICK v \in Thread : Rank(Head(todo[u])) < Rank(Head(todo[v]))
    BY <1>1
<1> QED BY <1>2, <1>4, <1>5

-----------------------------------------------------------------------------
(* Theorems.                                                               *)

\* The pools and threads keep their shape, and PoolInv holds throughout.
THEOREM PoolInvariant == Spec => [](TypeOK /\ PoolInv)
<1>1. Init => TypeOK /\ PoolInv
    BY InitPool
<1>2. TypeOK /\ PoolInv /\ [Next]_vars => (TypeOK /\ PoolInv)'
    BY PoolStep
<1> QED BY <1>1, <1>2, PTL DEF Spec

\* GetDBConn and RelDBConn never give a connection to two threads, put it in
\* the list twice or lose it, in any interleaving of any number of threads.
THEOREM ConnectionsPlaced == Spec => []Places
<1>1. TypeOK /\ PoolInv => Places
    BY DEF PoolInv
<1> QED BY <1>1, PoolInvariant, PTL

\* The pool creates no connection beyond its limit, whatever the limit is.
THEOREM LimitKept == Spec => []WithinLimit
<1>1. TypeOK /\ PoolInv => WithinLimit
    BY DEF PoolInv
<1> QED BY <1>1, PoolInvariant, PTL

\* notify_one in RelDBConn suffices: no wake-up is lost to a thread that takes
\* the connection first, to a timeout or to a spurious wake-up.
THEOREM NoWakeupLost == Spec => []NoLostWakeup
<1>1. TypeOK /\ PoolInv => NoLostWakeup
    BY DEF PoolInv
<1> QED BY <1>1, PoolInvariant, PTL

\* The order in which the handlers take connections excludes a deadlock of all
\* threads, for any number of threads and any limits.
THEOREM NoDeadlock == Spec => []SomeoneRuns
<1>1. TypeOK /\ PoolInv => SomeoneRuns
    BY InvAwake
<1> QED BY <1>1, PoolInvariant, PTL

=============================================================================
