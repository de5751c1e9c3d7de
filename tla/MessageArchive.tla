--------------------------- MODULE MessageArchive ---------------------------
(***************************************************************************)
(* What the tiered message storage promises, without Redis, MySQL, batches *)
(* or processes: a message handed over for persistence is pending, a       *)
(* pending message is archived, and none is forgotten while the deployment *)
(* is not degraded.  MessageStore is the detailed specification that is    *)
(* shown to implement this one (chat-room/api/api_msg.cc).                 *)
(***************************************************************************)
CONSTANT Msg            \* the chat messages

VARIABLES
    accepted,           \* every message ever handed over for persistence
    pending,            \* handed over, not archived and not forgotten
    archived,           \* messages with a row in the archive
    degraded            \* TRUE once the promise no longer covers the deployment

archiveVars == <<accepted, pending, archived, degraded>>

ArchiveTypeOK ==
    /\ accepted \subseteq Msg
    /\ pending \subseteq accepted
    /\ archived \subseteq accepted
    /\ degraded \in BOOLEAN

ArchiveInit ==
    /\ accepted = {}
    /\ pending = {}
    /\ archived = {}
    /\ degraded \in BOOLEAN

\* A message is handed over exactly once.
Accept(m) ==
    /\ m \notin accepted
    /\ accepted' = accepted \cup {m}
    /\ pending' = pending \cup {m}
    /\ UNCHANGED <<archived, degraded>>

\* A batch of messages gets its rows, all of them in one step.
Archive(S) ==
    /\ S \subseteq accepted
    /\ archived' = archived \cup S
    /\ pending' = pending \ S
    /\ UNCHANGED <<accepted, degraded>>

\* Pending messages disappear: only in a degraded deployment.
Forget(S) ==
    /\ degraded
    /\ S \subseteq pending
    /\ pending' = pending \ S
    /\ UNCHANGED <<accepted, archived, degraded>>

Degrade ==
    /\ degraded' = TRUE
    /\ UNCHANGED <<accepted, pending, archived>>

ArchiveNext ==
    \/ \E m \in Msg : Accept(m)
    \/ \E S \in SUBSET Msg : Archive(S) \/ Forget(S)
    \/ Degrade

ArchiveSpec == ArchiveInit /\ [][ArchiveNext]_archiveVars

\* The promise: while the deployment is not degraded, every message handed
\* over is either still pending or archived (api_msg.cc:126 "store in Redis in
\* real time, mark for persistence").
NothingForgotten == ~degraded => accepted = pending \cup archived
=============================================================================
