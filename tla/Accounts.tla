------------------------------ MODULE Accounts ------------------------------
(***************************************************************************)
(* Registration, login and tokens (api/api_register.cc, api/api_login.cc,  *)
(* api/api_common.cc, service/http_conn.cc) over the database connections  *)
(* of several Comets (mysql/db_pool.cc).                                   *)
(*                                                                         *)
(* One loop runs the handlers of a Comet one after the other, so a Comet   *)
(* has at most one in progress; those of different Comets interleave, one  *)
(* SQL or Redis command at a time.  The master and the slave are two pools;*)
(* the model keeps the connection each pool hands out.  The schema of the  *)
(* users table, the replication and the servers are outside the code.      *)
(***************************************************************************)
EXTENDS Integers, Sequences, FiniteSets, FiniteSetsExt

CONSTANTS
    Comets,         \* the Comet processes
    Names, Emails, Passwords, Salts,
    Quoted,         \* names and emails with an apostrophe in them
    Schemas,        \* may users have UNIQUE keys on name and email? a set of BOOLEAN
    MaxRows,        \* bound on the rows registered
    MaxTokens,      \* bound on the tokens issued
    MaxFaults       \* bound on database restarts and process restarts

ASSUME AccountsAssumption ==
    /\ IsFiniteSet(Comets) /\ Schemas \subseteq BOOLEAN
    /\ MaxRows \in Nat /\ MaxTokens \in Nat /\ MaxFaults \in Nat

Servers == {"master", "slave"}

VARIABLES
    unique,         \* the schema has UNIQUE keys
    master,         \* the rows of users, in the order of their ids
    copied,         \* how many of them the slave has
    link,           \* per Comet and server: is the pooled connection usable?
    sessions,       \* tokens in Redis: [token, key]
    issued,         \* how many tokens were generated
    task,           \* per Comet: the handler in progress
    answers,        \* the requests answered with 204, and their tokens
    faults          \* faults so far

vars == <<unique, master, copied, link, sessions, issued, task, answers, faults>>

(***************************************************************************)
(* Rows and requests.                                                      *)
(***************************************************************************)

Registrations == [fn : {"register"}, name : Names, email : Emails, password : Passwords]
Logins == [fn : {"login"}, email : Emails, password : Passwords]
Requests == Registrations \cup Logins

NotChecked == -1

Row == [name : Names, email : Emails, hash : Passwords \X Salts, salt : Salts,
        seen : {NotChecked} \cup 0..MaxRows]    \* ghost: the rows its SELECT saw

Idle == [stage |-> "idle"]
Stages == {"check", "insert", "tables", "verify", "cookie"}
At(stage, req, seen) == [stage |-> stage, req |-> req, seen |-> seen]

\* A statement built with a quoted text is not SQL: the server refuses it.
Sound(texts) == texts \cap Quoted = {}

Clash(a, b) == a.name = b.name \/ a.email = b.email

\* MD5(password + salt): texts that differ have digests that differ
Hash(password, salt) == <<password, salt>>
Verifies(row, password) == row.hash = Hash(password, row.salt)

WithEmail(rows, email) == {i \in rows : master[i].email = email}

Init ==
    /\ unique \in Schemas
    /\ master = <<>> /\ copied = 0
    /\ link = [c \in Comets |-> [s \in Servers |-> "up"]]
    /\ sessions = {} /\ issued = 0
    /\ task = [c \in Comets |-> Idle]
    /\ answers = {} /\ faults = 0

Becomes(c, t) == task' = [task EXCEPT ![c] = t]
InHandler(c, stage) == task[c].stage = stage

\* A request arrives; what it may add stays within the bounds.
Request(c) ==
    /\ task[c] = Idle
    /\ LET busy == {d \in Comets : task[d] # Idle}
       IN  /\ issued + Cardinality(busy) < MaxTokens
           /\ \E req \in Requests :
                /\ req.fn = "register" => Len(master) + Cardinality(busy) < MaxRows
                /\ Becomes(c, At(IF req.fn = "register" THEN "check" ELSE "tables",
                                 req, NotChecked))
    /\ UNCHANGED <<unique, master, copied, link, sessions, issued, answers, faults>>

\* 400: username_exists, or email password no match
Refuse(c) == Becomes(c, Idle)

(***************************************************************************)
(* registerUser: a SELECT of the name or the email, then an INSERT.        *)
(***************************************************************************)

\* Mutant: a row counts only when it has both the name and the email.
ExistingBoth(req, rows) ==
    {i \in rows : master[i].name = req.name /\ master[i].email = req.email}
Existing(req, rows) ==
    {i \in rows : master[i].name = req.name \/ master[i].email = req.email}

\* ExecuteQuery returns NULL when the query fails, and NULL passes for "no row".
Check(c) ==
    /\ InHandler(c, "check")
    /\ LET req == task[c].req
           answered == link[c]["master"] = "up" /\ Sound({req.name, req.email})
       IN  IF answered /\ Existing(req, DOMAIN master) # {} THEN Refuse(c)
           ELSE Becomes(c, At("insert", req, IF answered THEN Len(master) ELSE NotChecked))
    /\ UNCHANGED <<unique, master, copied, link, sessions, issued, answers, faults>>

\* Mutant: the salt is drawn again for the column.
NewRowOtherSalt(req, salt, seen) ==
    [name |-> req.name, email |-> req.email, hash |-> Hash(req.password, salt),
     salt |-> CHOOSE s \in Salts : s # salt, seen |-> seen]
NewRow(req, salt, seen) ==
    [name |-> req.name, email |-> req.email, hash |-> Hash(req.password, salt),
     salt |-> salt, seen |-> seen]

\* The statement is prepared with placeholders: any text will do.  A duplicate
\* fails when the schema forbids it.
Insert(c) ==
    /\ InHandler(c, "insert")
    /\ \E salt \in Salts :
         LET row == NewRow(task[c].req, salt, task[c].seen)
             clashes == \E i \in DOMAIN master : Clash(master[i], row)
         IN  IF link[c]["master"] = "lost" \/ (unique /\ clashes)
             THEN Refuse(c) /\ UNCHANGED master
             ELSE /\ master' = Append(master, row)
                  /\ Becomes(c, At("cookie", task[c].req, task[c].seen))
    /\ UNCHANGED <<unique, copied, link, sessions, issued, answers, faults>>

\* The row is committed, the server stops before it answers.
InsertUnanswered(c) ==
    /\ InHandler(c, "insert")
    /\ faults < MaxFaults /\ faults' = faults + 1
    /\ link[c]["master"] = "up"
    /\ \E salt \in Salts :
         LET row == NewRow(task[c].req, salt, task[c].seen)
         IN  /\ unique => \A i \in DOMAIN master : ~Clash(master[i], row)
             /\ master' = Append(master, row)
    /\ link' = [d \in Comets |-> [link[d] EXCEPT !["master"] = "lost"]]
    /\ Refuse(c)
    /\ UNCHANGED <<unique, copied, sessions, issued, answers>>

(***************************************************************************)
(* verifyUserPassword: it prints the tables of the database, then reads    *)
(* the first row the slave returns for the email.                          *)
(***************************************************************************)

\* The answer to SHOW TABLES: users is there, so a statement that succeeds has
\* a row, and reading it as GetString(0) builds a std::string from NULL, which
\* throws; onMessage catches it and nothing is sent.  A statement that fails
\* is logged, and the login goes on.
AfterTables(req, succeeded) ==
    IF succeeded THEN Idle ELSE At("verify", req, NotChecked)

ShowTables(c) ==
    /\ InHandler(c, "tables")
    /\ Becomes(c, AfterTables(task[c].req, link[c]["slave"] = "up"))
    /\ UNCHANGED <<unique, master, copied, link, sessions, issued, answers, faults>>

\* The server refuses this one statement: it is killed, or memory is short.
ShowTablesFails(c) ==
    /\ InHandler(c, "tables")
    /\ faults < MaxFaults /\ faults' = faults + 1
    /\ Becomes(c, AfterTables(task[c].req, FALSE))
    /\ UNCHANGED <<unique, master, copied, link, sessions, issued, answers>>

\* Mutant: a row found is a password verified.
MatchesAny(i, req) == TRUE
Matches(i, req) == Verifies(master[i], req.password)

Verify(c) ==
    /\ InHandler(c, "verify")
    /\ LET req == task[c].req
           rows == IF link[c]["slave"] = "up" /\ Sound({req.email})
                   THEN WithEmail(1..copied, req.email) ELSE {}
       IN  \/ rows = {} /\ Refuse(c)
           \/ \E i \in rows : IF Matches(i, req)
                              THEN Becomes(c, At("cookie", req, NotChecked))
                              ELSE Refuse(c)
    /\ UNCHANGED <<unique, master, copied, link, sessions, issued, answers, faults>>

(***************************************************************************)
(* ApiSetCookie: a token for the email.  The result of SETEX is ignored,   *)
(* the answer is 204 with the token either way.                            *)
(***************************************************************************)

\* Mutant: the token is stored with the name.
SessionKeyName(req) == IF req.fn = "register" THEN req.name ELSE req.email
SessionKey(req) == req.email

SetCookie(c) ==
    /\ InHandler(c, "cookie")
    /\ issued' = issued + 1
    /\ \E stored \in BOOLEAN :
         /\ sessions' = sessions \cup
                {[token |-> issued', key |-> SessionKey(task[c].req)] : s \in {TRUE} \cap {stored}}
         /\ answers' = answers \cup {[req |-> task[c].req, token |-> issued', stored |-> stored]}
    /\ Becomes(c, Idle)
    /\ UNCHANGED <<unique, master, copied, link, faults>>

\* ApiGetUserInfoByCookie, ApiGetUsernameByToken: the users a token may be
\* read as, none when it is not in Redis or its row is not on the slave.
UsersOf(token) ==
    {master[i].name : i \in UNION {WithEmail(1..copied, s.key) :
                                     s \in {x \in sessions : x.token = token}}}

(***************************************************************************)
(* The database, Redis and the processes.                                  *)
(***************************************************************************)

Replicate ==
    /\ copied < Len(master)
    /\ copied' = copied + 1
    /\ UNCHANGED <<unique, master, link, sessions, issued, task, answers, faults>>

\* A server restarts, or closes connections that were idle for too long.
\* mysql_ping is called before every statement, but MYSQL_OPT_RECONNECT is
\* commented out: no action of a Comet brings the connection back.
DbRestart ==
    /\ faults < MaxFaults /\ faults' = faults + 1
    /\ \E s \in Servers : link' = [c \in Comets |-> [link[c] EXCEPT ![s] = "lost"]]
    /\ UNCHANGED <<unique, master, copied, sessions, issued, task, answers>>

CometRestart(c) ==
    /\ faults < MaxFaults /\ faults' = faults + 1
    /\ link' = [link EXCEPT ![c] = [s \in Servers |-> "up"]]
    /\ Becomes(c, Idle)
    /\ UNCHANGED <<unique, master, copied, sessions, issued, answers>>

Expire ==
    /\ \E s \in sessions : sessions' = sessions \ {s}
    /\ UNCHANGED <<unique, master, copied, link, issued, task, answers, faults>>

Handle(c) == Check(c) \/ Insert(c) \/ ShowTables(c) \/ Verify(c) \/ SetCookie(c)

Next ==
    \/ \E c \in Comets : Request(c) \/ Handle(c) \/ InsertUnanswered(c)
                         \/ ShowTablesFails(c) \/ CometRestart(c)
    \/ Replicate \/ DbRestart \/ Expire

Spec == Init /\ [][Next]_vars

\* The loops run and replication goes on.
FairSpec ==
    /\ Spec
    /\ \A c \in Comets : WF_vars(Handle(c))
    /\ WF_vars(Replicate)

(***************************************************************************)
(* Properties.                                                             *)
(***************************************************************************)

TypeOK ==
    /\ unique \in BOOLEAN
    /\ master \in Seq(Row) /\ Len(master) <= MaxRows
    /\ copied \in 0..Len(master)
    /\ link \in [Comets -> [Servers -> {"up", "lost"}]]
    /\ issued \in 0..MaxTokens
    /\ sessions \subseteq [token : 1..issued, key : Names \cup Emails]
    /\ task \in [Comets -> {Idle} \cup [stage : Stages, req : Requests,
                                       seen : {NotChecked} \cup 0..Len(master)]]
    /\ answers \subseteq [req : Requests, token : 1..issued, stored : BOOLEAN]
    /\ faults \in 0..MaxFaults

\* Two accounts share a name or an email only when the schema allows it and
\* the second one's check could not see the first: another Comet inserted in
\* between, or the check failed on a quoted text and passed for "no row".  A
\* lost connection never lets one through, because the INSERT fails with it.
DuplicatesRacedOrQuoted ==
    \A i, j \in DOMAIN master :
        i < j /\ Clash(master[i], master[j])
            => /\ ~unique
               /\ IF master[j].seen = NotChecked
                  THEN ~Sound({master[j].name, master[j].email})
                  ELSE master[j].seen < i

\* 204 is given to a registration whose row is in the table, and to a login
\* with the password of an account the slave already had.
AnsweredGenuine ==
    \A a \in answers :
        IF a.req.fn = "register"
        THEN \E i \in DOMAIN master :
                master[i].name = a.req.name /\ master[i].email = a.req.email
        ELSE \E i \in WithEmail(1..copied, a.req.email) : Verifies(master[i], a.req.password)

\* After a registration answered 204, the slave comes to have the account and
\* its password verifies, unless another account has the same email.
Replicated ==
    \A email \in Emails, password \in Passwords :
        (\E a \in answers : a.req.fn = "register" /\ a.req.email = email
                              /\ a.req.password = password)
        ~> LET rows == WithEmail(1..copied, email)
           IN  \/ rows # {} /\ \A i \in rows : Verifies(master[i], password)
               \/ Cardinality(WithEmail(DOMAIN master, email)) > 1

\* A token answered with 204 and stored comes to name its user, or expires.
TokenWorks ==
    \A token \in 1..MaxTokens :
        (\E a \in answers : a.token = token /\ a.stored)
        ~> (UsersOf(token) # {} \/ ~\E s \in sessions : s.token = token)

\* "POST /api/login - User login", says the index page: a login that has looked
\* at the tables goes on to look at the password, unless the process stops.
LoginVerifies ==
    [][\A c \in Comets :
         InHandler(c, "tables") /\ ~CometRestart(c)
            => InHandler(c, "tables")' \/ InHandler(c, "verify")']_vars

=============================================================================
