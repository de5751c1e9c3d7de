----------------------------- MODULE RemoteCall -----------------------------
(***************************************************************************)
(* What a wrapper of CacheConn may rely on when it calls redisCommand,     *)
(* without connections, buffers, sockets or replies in pieces: a command   *)
(* is executed at most once, while its caller waits for it; the caller is  *)
(* given what that execution answered, or NULL, which says nothing of      *)
(* whether it was executed.  RedisConn is the detailed specification that  *)
(* is shown to implement this one.                                         *)
(***************************************************************************)
CONSTANTS
    Command,            \* the commands
    AnswersTo,          \* AnswersTo[c]: what the server may answer to c
    NoCommand,          \* no call is under way
    NoAnswer            \* it has not been executed

VARIABLES
    phase,              \* of the call: "idle", "called", "answered", "failed"
    command,            \* what is called
    waiting,            \* the server has it and has not executed it
    answer,             \* what the execution answered
    result              \* what the caller is given

callVars == <<phase, command, waiting, answer, result>>

CallInit ==
    /\ phase = "idle" /\ command = NoCommand
    /\ waiting = FALSE /\ answer = NoAnswer /\ result = NoAnswer

\* A command is called, or refused at once.
Call(c) ==
    /\ phase = "idle"
    /\ phase' \in {"called", "failed"} /\ command' = c
    /\ UNCHANGED <<waiting, answer, result>>

\* It reaches the server; it may be lost there, and be executed only once.
Arrive ==
    /\ phase = "called" /\ ~waiting /\ answer = NoAnswer
    /\ waiting' = TRUE
    /\ UNCHANGED <<phase, command, answer, result>>

Lose ==
    /\ waiting /\ waiting' = FALSE
    /\ UNCHANGED <<phase, command, answer, result>>

Execute ==
    /\ phase = "called" /\ waiting
    /\ waiting' = FALSE /\ answer' \in AnswersTo[command]
    /\ UNCHANGED <<phase, command, result>>

\* The caller gets the answer, or NULL; nothing is executed after that.
Return ==
    /\ phase = "called" /\ answer # NoAnswer
    /\ phase' = "answered" /\ result' = answer
    /\ UNCHANGED <<command, waiting, answer>>

Fail ==
    /\ phase = "called" /\ ~waiting
    /\ phase' = "failed"
    /\ UNCHANGED <<command, waiting, answer, result>>

\* The caller is done with it, or the process ends on it.
Forget ==
    /\ phase \in {"answered", "failed"}
    /\ phase' = "idle" /\ command' = NoCommand
    /\ answer' = NoAnswer /\ result' = NoAnswer
    /\ UNCHANGED waiting

CallNext ==
    \/ \E c \in Command : Call(c)
    \/ Arrive \/ Lose \/ Execute \/ Return \/ Fail \/ Forget

CallSpec == CallInit /\ [][CallNext]_callVars

=============================================================================
