------------------------------ MODULE ConnPool ------------------------------
(***************************************************************************)
(* The connection pools of a Comet process: CDBPool (mysql/db_pool.cc) and *)
(* CachePool (redis/cache_pool.cc), which run the same algorithm, and the  *)
(* request handlers of chat-room/api that take connections from them.      *)
(*                                                                         *)
(* A pool keeps its free connections in a list and creates new ones up to  *)
(* a limit; beyond it a caller sleeps on a condition variable.  Each       *)
(* operation holds the pool's mutex except while it sleeps, so a call is   *)
(* one action up to the sleep and one action after it.  A handler takes    *)
(* the connections it needs one after the other and gives them back, last  *)
(* first, when it returns (AutoRelDBCon, AutoRelCacheCon).                 *)
(*                                                                         *)
(* The pools are never destroyed while the process runs, so abort_request_ *)
(* stays false and is left out.                                            *)
(***************************************************************************)
EXTENDS Integers, Sequences, FiniteSets, Functions

CONSTANTS
    Thread,         \* the threads that run handlers: event loops and workers
    MaxConn,        \* the configured limit of each pool (..._maxconncnt)
    Timed           \* the threads that pass a positive timeout_ms

CachePools == {"token", "msg"}
DBPools == {"chatroom_master", "chatroom_slave"}
Pool == CachePools \cup DBPools

ASSUME PoolAssumption ==
    /\ IsFiniteSet(Thread)
    /\ MaxConn \in [Pool -> Nat]
    /\ Timed \subseteq Thread

\* MIN_CACHE_CONN_CNT and MIN_DB_CONN_CNT
MinConn == [p \in Pool |-> IF p \in CachePools THEN 2 ELSE 1]

\* Mutant: a handler that looks up the user before the token.
PathCrossed == {<<"token">>, <<"msg">>, <<"chatroom_master">>, <<"chatroom_slave">>,
                <<"token", "chatroom_slave">>, <<"chatroom_slave", "token">>,
                <<"msg", "chatroom_master">>}

\* The pools a handler takes connections from, in its order: ApiSetCookie;
\* ApiGetRoomHistory and the stores; registerUser; verifyUserPassword and the
\* look-ups; ApiGetUsernameByToken and ApiGetUserInfoByCookie;
\* ApiBatchPersistMessages.
Path == {<<"token">>, <<"msg">>, <<"chatroom_master">>, <<"chatroom_slave">>,
         <<"token", "chatroom_slave">>, <<"msg", "chatroom_master">>}

Conn == Pool \X (Nat \ {0})

VARIABLES
    free,           \* free_list_ of each pool, front first
    cur,            \* how many connections each pool has made
    todo,           \* the pools the handler of a thread has yet to take from
    held,           \* the connections a thread has
    mode            \* "run", or in the wait of GetDBConn: "asleep" or "woken"

vars == <<free, cur, todo, held, mode>>

TypeOK ==
    /\ free \in [Pool -> Seq(Nat \ {0})]
    /\ cur \in [Pool -> Nat]
    /\ todo \in [Thread -> Path \cup {<<>>}]
    /\ held \in [Thread -> SUBSET Conn]
    /\ mode \in [Thread -> {"run", "asleep", "woken"}]

\* CDBManager::Init and CacheManager::Init have made the first connections.
Init ==
    /\ free = [p \in Pool |-> [i \in 1 .. MinConn[p] |-> i]]
    /\ cur = MinConn
    /\ todo = [t \in Thread |-> <<>>]
    /\ held = [t \in Thread |-> {}]
    /\ mode = [t \in Thread |-> "run"]

Idle(t) == todo[t] = <<>> /\ held[t] = {}

Asleep(p) == {t \in Thread : mode[t] = "asleep" /\ Head(todo[t]) = p}
Woken(p) == {t \in Thread : mode[t] = "woken" /\ Head(todo[t]) = p}

-----------------------------------------------------------------------------
(* GetDBConn, GetCacheConn.                                                *)

\* The connection i of the pool goes to thread t, which moves on.
Give(t, p, i) ==
    /\ held' = [held EXCEPT ![t] = @ \cup {<<p, i>>}]
    /\ todo' = [todo EXCEPT ![t] = Tail(@)]
    /\ mode' = [mode EXCEPT ![t] = "run"]

\* Mutant: pop_front is forgotten.
TakeKept(t, p) ==
    /\ free[p] # <<>>
    /\ Give(t, p, Head(free[p]))
    /\ UNCHANGED <<free, cur>>

\* The front of the free list.
Take(t, p) ==
    /\ free[p] # <<>>
    /\ Give(t, p, Head(free[p]))
    /\ free' = [free EXCEPT ![p] = Tail(@)]
    /\ UNCHANGED cur

\* A new connection, connected under the mutex, pushed and popped at once.
Create(t, p) ==
    /\ free[p] = <<>>
    /\ cur[p] < MaxConn[p]
    /\ cur' = [cur EXCEPT ![p] = @ + 1]
    /\ Give(t, p, cur[p] + 1)
    /\ UNCHANGED free

\* NULL: the handler returns and gives back what it has.
Null(t) ==
    /\ todo' = [todo EXCEPT ![t] = <<>>]
    /\ mode' = [mode EXCEPT ![t] = "run"]
    /\ UNCHANGED <<free, cur, held>>

Sleep(t, p) ==
    /\ free[p] = <<>>
    /\ mode' = [mode EXCEPT ![t] = "asleep"]
    /\ UNCHANGED <<free, cur, todo, held>>

\* A handler starts.
Begin(t) ==
    /\ Idle(t)
    /\ \E path \in Path : todo' = [todo EXCEPT ![t] = path]
    /\ UNCHANGED <<free, cur, held, mode>>

\* The call up to its return or its sleep.  A free connection may go to a
\* thread that has not slept although others sleep.
Get(t) ==
    /\ mode[t] = "run"
    /\ todo[t] # <<>>
    /\ LET p == Head(todo[t])
       IN  \/ Take(t, p)
           \/ Create(t, p)
           \/ free[p] = <<>> /\ cur[p] < MaxConn[p] /\ Null(t)
           \/ cur[p] >= MaxConn[p] /\ Sleep(t, p)

\* A woken thread has the mutex again and evaluates the predicate of its wait.
Resume(t) ==
    /\ mode[t] = "woken"
    /\ Take(t, Head(todo[t])) \/ Sleep(t, Head(todo[t]))

\* A condition variable may wake a thread that nobody notified.
Spurious(t) ==
    /\ mode[t] = "asleep"
    /\ mode' = [mode EXCEPT ![t] = "woken"]
    /\ UNCHANGED <<free, cur, todo, held>>

\* wait_for runs out; the list is looked at once more.
Timeout(t) ==
    /\ t \in Timed
    /\ mode[t] \in {"asleep", "woken"}
    /\ \/ Take(t, Head(todo[t]))
       \/ free[Head(todo[t])] = <<>> /\ Null(t)

-----------------------------------------------------------------------------
(* RelDBConn, RelCacheConn.                                                *)

\* Handlers take cache connections before database connections, so the last
\* one taken is the one of the highest rank.
Rank(p) == IF p \in CachePools THEN 1 ELSE 2

\* notify_one wakes one of the sleepers, if there is one.
NotifyOne(p) ==
    \/ Asleep(p) = {} /\ UNCHANGED mode
    \/ \E w \in Asleep(p) : mode' = [mode EXCEPT ![w] = "woken"]

\* Mutant: nobody is notified.
ReleaseSilently(t) ==
    /\ mode[t] = "run"
    /\ todo[t] = <<>>
    /\ \E c \in held[t] :
          /\ held' = [held EXCEPT ![t] = @ \ {c}]
          /\ free' = [free EXCEPT ![c[1]] = Append(@, c[2])]
    /\ UNCHANGED <<cur, todo, mode>>

\* The handler returns: the last connection taken goes to the back of its list.
\* A handler releases only what it has, once, so the search for a duplicate in
\* the list never finds one.
Release(t) ==
    /\ mode[t] = "run"
    /\ todo[t] = <<>>
    /\ \E c \in held[t] :
          /\ \A d \in held[t] : Rank(d[1]) <= Rank(c[1])
          /\ held' = [held EXCEPT ![t] = @ \ {c}]
          /\ free' = [free EXCEPT ![c[1]] = Append(@, c[2])]
          /\ NotifyOne(c[1])
    /\ UNCHANGED <<cur, todo>>

Next ==
    \E t \in Thread :
        \/ Begin(t)
        \/ Get(t)
        \/ Resume(t)
        \/ Spurious(t)
        \/ Timeout(t)
        \/ Release(t)

Spec == Init /\ [][Next]_vars

\* A thread that can run runs.  Nothing is promised about new requests,
\* spurious wake-ups or timeouts.
Fairness == \A t \in Thread : WF_vars(Get(t)) /\ WF_vars(Resume(t)) /\ WF_vars(Release(t))

FairSpec == Spec /\ Fairness

-----------------------------------------------------------------------------
(* Properties.                                                             *)

\* A connection is in one place at a time: in its free list, once, or with one
\* thread; none is lost (db_pool.cc:395-473, cache_pool.cc:1001-1081).
Places ==
    /\ \A p \in Pool : IsInjective(free[p]) /\ Range(free[p]) \subseteq 1 .. cur[p]
    /\ \A t \in Thread : \A c \in held[t] : c[2] \in 1 .. cur[c[1]] \ Range(free[c[1]])
    /\ \A t, u \in Thread : t # u => held[t] \cap held[u] = {}
    /\ \A p \in Pool : \A i \in 1 .. cur[p] :
          i \in Range(free[p]) \/ \E t \in Thread : <<p, i>> \in held[t]

\* A pool never has more connections than configured, except the minimum it
\* starts with (db_pool.cc:405, cache_pool.cc:1010).
WithinLimit ==
    \A p \in Pool : cur[p] >= MinConn[p] /\ (cur[p] <= MaxConn[p] \/ cur[p] = MinConn[p])

\* Each free connection that sleepers wait for has a woken thread on its way to
\* it: no wake-up is lost, whoever else takes connections in between
\* (db_pool.cc:410-422, 466-469).
NoLostWakeup ==
    \A p \in Pool : Asleep(p) # {} => Cardinality(Woken(p)) >= Len(free[p])

\* A thread waits only for a pool that ranks above all it holds.
Ordered ==
    \A t \in Thread :
        /\ mode[t] # "run" => todo[t] # <<>>
        /\ todo[t] # <<>> => \A c \in held[t] : Rank(c[1]) < Rank(Head(todo[t]))

\* The inductive invariant.
PoolInv == Places /\ WithinLimit /\ NoLostWakeup /\ Ordered

\* Handlers that hold a cache connection while they wait for a database
\* connection (api_common.cc:23-42, api_msg.cc:182-186) never bring all threads
\* to wait for each other, whatever the limits.
SomeoneRuns == Thread # {} => \E t \in Thread : mode[t] # "asleep"

\* Once new requests stop, every handler gets its connections and returns.
Quiet == <>[][\A t \in Thread : ~Begin(t)]_vars
HandlersReturn == Quiet => \A t \in Thread : ~Idle(t) ~> Idle(t)

=============================================================================
