--------------------------- MODULE AccountsProofs ---------------------------
(***************************************************************************)
(* Proofs about Accounts, for any number of Comets, names, rows, tokens    *)
(* and faults: how two accounts come to share a name or an email, whom 204 *)
(* is given to, and that the bounds on rows and tokens are kept, though    *)
(* several Comets register and log in at a time.                           *)
(***************************************************************************)
EXTENDS Accounts, FiniteSetTheorems, TLAPS

-----------------------------------------------------------------------------
(* The inductive invariant.                                                *)

\* A row, whatever its SELECT saw.
AnyRow == [name : Names, email : Emails, hash : Passwords \X Salts, salt : Salts, seen : Int]
AnyTask == {Idle} \cup [stage : Stages, req : Requests, seen : Int]

Typed ==
    /\ master \in Seq(AnyRow)
    /\ copied \in 0..Len(master)
    /\ link \in [Comets -> [Servers -> {"up", "lost"}]]
    /\ task \in [Comets -> AnyTask]
    /\ \A a \in answers : a.req \in Requests

\* There is an account that the request names.
Genuine(req) ==
    IF req.fn = "register"
    THEN \E i \in DOMAIN master : master[i].name = req.name /\ master[i].email = req.email
    ELSE \E i \in WithEmail(1..copied, req.email) : Verifies(master[i], req.password)

\* What the check of a registration saw: nothing, because its connection is
\* lost or its text is quoted, or no row like its own among the first ones.
Checked(c) ==
    LET req == task[c].req
        seen == task[c].seen
    IN  \/ /\ seen = NotChecked
           /\ link[c]["master"] = "lost" \/ ~Sound({req.name, req.email})
       \/ /\ seen \in 0..Len(master)
          /\ \A i \in 1..seen : ~Clash(master[i], req)

TaskOK(c) ==
    /\ task[c].stage \in {"check", "insert"} => task[c].req \in Registrations
    /\ task[c].stage \in {"tables", "verify"} => task[c].req \in Logins
    /\ task[c].stage = "insert" => Checked(c)
    /\ task[c].stage = "cookie" => Genuine(task[c].req)

IInv ==
    /\ Typed
    /\ \A c \in Comets : TaskOK(c)
    /\ DuplicatesRacedOrQuoted
    /\ AnsweredGenuine

\* AnsweredGenuine in the words of the invariant.
LEMMA AnsweredAll == AnsweredGenuine <=> \A a \in answers : Genuine(a.req)
BY DEF AnsweredGenuine, Genuine

-----------------------------------------------------------------------------
(* Rows are only appended.                                                 *)

LEMMA Appended ==
    ASSUME NEW S, NEW s \in Seq(S), NEW x \in S
    PROVE  /\ Append(s, x) \in Seq(S)
           /\ Len(Append(s, x)) = Len(s) + 1
           /\ Append(s, x)[Len(s) + 1] = x
           /\ \A i \in 1..Len(s) : Append(s, x)[i] = s[i]
OBVIOUS

\* A step keeps the rows there are, and the slave what it has copied.
RowsGrow ==
    /\ Len(master') \in Nat /\ Len(master) <= Len(master') /\ DOMAIN master' = 1..Len(master')
    /\ \A i \in 1..Len(master) : master'[i] = master[i]
    /\ copied' \in Int /\ copied <= copied' /\ copied' <= Len(master')

LEMMA RowsSame == Typed /\ UNCHANGED <<master, copied>> => RowsGrow
BY DEF Typed, RowsGrow

\* What a request was answered for does not go away.
LEMMA GenuineStays ==
    ASSUME Typed, RowsGrow, NEW req \in Requests, Genuine(req)
    PROVE  Genuine(req)'
<1>. /\ DOMAIN master = 1..Len(master) /\ Len(master) \in Nat /\ copied \in 0..Len(master)
     /\ Len(master') \in Nat /\ Len(master) <= Len(master') /\ DOMAIN master' = 1..Len(master')
     /\ \A i \in 1..Len(master) : master'[i] = master[i]
     /\ copied' \in Int /\ copied <= copied' /\ copied' <= Len(master')
  BY DEF Typed, RowsGrow
<1>1. CASE req.fn = "register"
  <2>1. PICK i \in 1..Len(master) : master[i].name = req.name /\ master[i].email = req.email
    BY <1>1 DEF Genuine
  <2>2. i \in DOMAIN master' /\ master'[i] = master[i]
    OBVIOUS
  <2>. QED BY <1>1, <2>1, <2>2 DEF Genuine
<1>2. CASE req.fn # "register"
  <2>1. PICK i \in WithEmail(1..copied, req.email) : Verifies(master[i], req.password)
    BY <1>2 DEF Genuine
  <2>2. i \in 1..copied /\ master[i].email = req.email
    BY <2>1 DEF WithEmail
  <2>3. i \in 1..copied' /\ master'[i] = master[i]
    BY <2>2
  <2>4. i \in WithEmail(1..copied, req.email)'
    BY <2>2, <2>3 DEF WithEmail
  <2>5. Verifies(master[i], req.password)'
    BY <2>1, <2>3 DEF Verifies, Hash
  <2>. QED BY <1>2, <2>4, <2>5 DEF Genuine
<1>. QED BY <1>1, <1>2

\* What a task relies on stays true until its own Comet goes on.
LEMMA TaskStays ==
    ASSUME Typed, RowsGrow, NEW c \in Comets, TaskOK(c), task'[c] = task[c],
           link[c]["master"] = "lost" => link'[c]["master"] = "lost"
    PROVE  TaskOK(c)'
<1>1. task[c].stage = "insert" => Checked(c)'
  <2>. SUFFICES ASSUME task[c].stage = "insert" PROVE Checked(c)'
    OBVIOUS
  <2>1. Checked(c)
    BY DEF TaskOK
  <2>. QED BY <2>1 DEF Checked, RowsGrow, Typed, Clash, Sound
<1>2. task[c].stage = "cookie" => Genuine(task[c].req)'
  <2>. SUFFICES ASSUME task[c].stage = "cookie" PROVE Genuine(task[c].req)'
    OBVIOUS
  <2>1. task[c].req \in Requests /\ Genuine(task[c].req)
    BY DEF TaskOK, Typed, AnyTask, Idle
  <2>. DEFINE req == task[c].req
  <2>2. Genuine(req)'
    BY <2>1, GenuineStays
  <2>. QED BY <2>2 DEF Genuine
<1>. QED BY <1>1, <1>2 DEF TaskOK, Genuine

\* A step that leaves rows and answers alone leaves what is said of them.
LEMMA RowsKept ==
    UNCHANGED <<unique, master>> /\ DuplicatesRacedOrQuoted => DuplicatesRacedOrQuoted'
BY DEF DuplicatesRacedOrQuoted, Clash, Sound

LEMMA AnswersKept ==
    ASSUME Typed, RowsGrow, AnsweredGenuine, UNCHANGED answers,
           \A a \in answers : a.req \in Requests
    PROVE  AnsweredGenuine'
<1>1. \A a \in answers : Genuine(a.req)
  BY AnsweredAll
<1>2. ASSUME NEW a \in answers PROVE Genuine(a.req)'
  <2>. DEFINE req == a.req
  <2>1. Genuine(req)'
    BY <1>1, GenuineStays
  <2>. QED BY <2>1 DEF Genuine
<1>. QED BY <1>2 DEF AnsweredGenuine, Genuine

-----------------------------------------------------------------------------
(* The steps.                                                              *)

LEMMA OthersStay ==
    ASSUME IInv, RowsGrow, NEW c \in Comets, NEW t, Becomes(c, t),
           \A d \in Comets : link[d]["master"] = "lost" => d = c \/ link'[d]["master"] = "lost"
    PROVE  \A d \in Comets \ {c} : TaskOK(d)'
<1>1. ASSUME NEW d \in Comets \ {c} PROVE TaskOK(d)'
  <2>1. task'[d] = task[d]
    BY DEF Becomes, IInv, Typed
  <2>. QED BY <2>1, TaskStays DEF IInv
<1>. QED BY <1>1

\* A handler that moves on without a row, an answer or a lost connection.
LEMMA Moves ==
    ASSUME IInv, NEW c \in Comets, NEW t \in AnyTask, Becomes(c, t),
           UNCHANGED <<unique, master, copied, link, answers>>,
           TaskOK(c)'
    PROVE  IInv'
<1>1. RowsGrow
  BY RowsSame DEF IInv
<1>2. Typed'
  BY DEF IInv, Typed, Becomes
<1>3. \A d \in Comets : TaskOK(d)'
  BY <1>1, OthersStay
<1>4. DuplicatesRacedOrQuoted'
  BY RowsKept DEF IInv
<1>5. AnsweredGenuine'
  BY <1>1, AnswersKept DEF IInv, Typed
<1>. QED BY <1>2, <1>3, <1>4, <1>5 DEF IInv

\* The task of a Comet after it has moved on.
LEMMA NewTask ==
    ASSUME Typed, NEW c \in Comets, NEW t, Becomes(c, t)
    PROVE  task'[c] = t
BY DEF Typed, Becomes

LEMMA IdleOK == ASSUME NEW c \in Comets, task'[c] = Idle PROVE TaskOK(c)'
BY DEF TaskOK, Idle

LEMMA RequestStep == ASSUME IInv, NEW c \in Comets, Request(c) PROVE IInv'
<1>1. PICK req \in Requests :
        Becomes(c, At(IF req.fn = "register" THEN "check" ELSE "tables", req, NotChecked))
  BY DEF Request
<1>. DEFINE t == At(IF req.fn = "register" THEN "check" ELSE "tables", req, NotChecked)
<1>2. t \in AnyTask
  BY DEF At, AnyTask, Stages, NotChecked
<1>3. task'[c] = t
  BY <1>1, NewTask DEF IInv
<1>4. req.fn = "register" => req \in Registrations
  BY DEF Requests, Logins, Registrations
<1>5. req.fn # "register" => req \in Logins
  BY DEF Requests, Logins, Registrations
<1>6. TaskOK(c)'
  BY <1>3, <1>4, <1>5 DEF TaskOK, At
<1>. QED BY <1>1, <1>2, <1>6, Moves DEF Request

LEMMA CheckStep == ASSUME IInv, NEW c \in Comets, Check(c) PROVE IInv'
<1>. DEFINE req == task[c].req
            answered == link[c]["master"] = "up" /\ Sound({req.name, req.email})
            t == At("insert", req, IF answered THEN Len(master) ELSE NotChecked)
<1>1. task[c].stage = "check" /\ TaskOK(c) /\ Typed
  BY DEF Check, InHandler, IInv
<1>2. req \in Registrations /\ req \in Requests
  BY <1>1 DEF TaskOK, Requests
<1>3. link[c]["master"] \in {"up", "lost"} /\ Len(master) \in Nat /\ DOMAIN master = 1..Len(master)
  BY <1>1 DEF Typed, Servers
<1>4. UNCHANGED <<unique, master, copied, link, answers>>
  BY DEF Check
<1>5. CASE Becomes(c, Idle)
  <2>1. Idle \in AnyTask
    BY DEF AnyTask
  <2>2. TaskOK(c)'
    BY <1>1, <1>5, NewTask, IdleOK
  <2>. QED BY <1>4, <1>5, <2>1, <2>2, Moves
<1>6. CASE Becomes(c, t) /\ ~(answered /\ Existing(req, DOMAIN master) # {})
  <2>1. t \in AnyTask
    BY <1>2, <1>3 DEF At, AnyTask, Stages, NotChecked
  <2>2. task'[c] = t
    BY <1>1, <1>6, NewTask
  <2>3. task'[c].stage = "insert" /\ task'[c].req = req
        /\ task'[c].seen = IF answered THEN Len(master) ELSE NotChecked
    BY <2>2 DEF At
  <2>4. ASSUME answered PROVE TaskOK(c)'
    <3>1. \A i \in 1..Len(master) : ~Clash(master[i], req)
      BY <1>3, <1>6, <2>4 DEF Existing, Clash
    <3>2. Checked(c)'
      BY <1>3, <1>4, <2>3, <2>4, <3>1 DEF Checked, Clash
    <3>. QED BY <1>2, <2>3, <3>2 DEF TaskOK
  <2>5. ASSUME ~answered PROVE TaskOK(c)'
    <3>1. Checked(c)'
      BY <1>3, <1>4, <2>3, <2>5 DEF Checked, Sound
    <3>. QED BY <1>2, <2>3, <3>1 DEF TaskOK
  <2>6. TaskOK(c)'
    BY <2>4, <2>5
  <2>. QED BY <1>4, <1>6, <2>1, <2>6, Moves
<1>. QED BY <1>5, <1>6 DEF Check, Refuse

\* The row that an INSERT adds: it repeats another only when the schema lets it
\* and the check could not see that one.
LEMMA Inserted ==
    ASSUME IInv, NEW c \in Comets, task[c].stage = "insert", link[c]["master"] = "up",
           NEW salt \in Salts, NEW row, row = NewRow(task[c].req, salt, task[c].seen),
           unique => \A i \in DOMAIN master : ~Clash(master[i], row),
           master' = Append(master, row), UNCHANGED <<unique, copied>>
    PROVE  /\ RowsGrow
           /\ master' \in Seq(AnyRow)
           /\ copied' \in 0..Len(master')
           /\ \E i \in DOMAIN master' : /\ master'[i].name = task[c].req.name
                                        /\ master'[i].email = task[c].req.email
           /\ DuplicatesRacedOrQuoted'
<1>. DEFINE req == task[c].req
            n == Len(master)
<1>1. Typed /\ TaskOK(c) /\ Checked(c) /\ req \in Registrations
  BY DEF IInv, TaskOK
<1>2. task[c].seen \in Int
  BY <1>1 DEF Typed, AnyTask, Idle
<1>3. /\ row.name = req.name /\ row.email = req.email /\ row.seen = task[c].seen
      /\ row \in AnyRow
  BY <1>1, <1>2 DEF NewRow, AnyRow, Hash, Registrations
<1>4. /\ master' \in Seq(AnyRow) /\ n \in Nat /\ Len(master') = n + 1
      /\ master'[n + 1] = row /\ \A i \in 1..n : master'[i] = master[i]
      /\ DOMAIN master' = 1..(n + 1) /\ DOMAIN master = 1..n
  BY <1>1, <1>3, Appended DEF Typed
<1>5. RowsGrow /\ copied' \in 0..Len(master')
  BY <1>1, <1>4 DEF RowsGrow, Typed
<1>6. ASSUME NEW i \in 1..(n + 1), NEW j \in 1..(n + 1), i < j, Clash(master'[i], master'[j])
      PROVE  /\ ~unique
             /\ IF master'[j].seen = NotChecked
                THEN ~Sound({master'[j].name, master'[j].email})
                ELSE master'[j].seen < i
  <2>1. CASE j \in 1..n
    <3>1. i \in 1..n /\ master'[i] = master[i] /\ master'[j] = master[j]
      BY <1>4, <1>6, <2>1
    <3>. QED BY <1>4, <1>6, <2>1, <3>1 DEF IInv, DuplicatesRacedOrQuoted
  <2>2. CASE j = n + 1
    <3>1. i \in 1..n /\ master'[i] = master[i] /\ master'[j] = row
      BY <1>4, <1>6, <2>2
    <3>2. ~unique
      BY <1>4, <1>6, <3>1
    <3>3. CASE task[c].seen = NotChecked
      <4>1. ~Sound({req.name, req.email})
        BY <1>1, <3>3 DEF Checked, NotChecked
      <4>. QED BY <1>3, <3>1, <3>2, <3>3, <4>1
    <3>4. CASE task[c].seen # NotChecked
      <4>1. task[c].seen \in 0..n /\ \A k \in 1..task[c].seen : ~Clash(master[k], req)
        BY <1>1, <3>4 DEF Checked
      <4>2. Clash(master[i], req)
        BY <1>3, <1>6, <3>1 DEF Clash
      <4>3. task[c].seen < i
        BY <4>1, <4>2, <3>1
      <4>. QED BY <1>3, <3>1, <3>2, <3>4, <4>3
    <3>. QED BY <3>3, <3>4
  <2>3. j \in 1..n \/ j = n + 1
    BY <1>4
  <2>. QED BY <2>1, <2>2, <2>3
<1>7. DuplicatesRacedOrQuoted'
  BY <1>4, <1>6 DEF DuplicatesRacedOrQuoted, Clash, Sound
<1>8. master'[n + 1].name = req.name /\ master'[n + 1].email = req.email /\ n + 1 \in DOMAIN master'
  BY <1>3, <1>4
<1>. QED BY <1>4, <1>5, <1>7, <1>8

LEMMA InsertStep == ASSUME IInv, NEW c \in Comets, Insert(c) PROVE IInv'
<1>. DEFINE req == task[c].req
            seen == task[c].seen
<1>1. task[c].stage = "insert" /\ TaskOK(c) /\ Typed
  BY DEF Insert, InHandler, IInv
<1>2. req \in Registrations /\ req \in Requests /\ seen \in Int
  BY <1>1 DEF TaskOK, Requests, Typed, AnyTask, Idle
<1>3. UNCHANGED <<unique, copied, link, answers>>
  BY DEF Insert
<1>4. CASE Becomes(c, Idle) /\ UNCHANGED master
  <2>1. Idle \in AnyTask
    BY DEF AnyTask
  <2>2. TaskOK(c)'
    BY <1>1, <1>4, NewTask, IdleOK
  <2>. QED BY <1>3, <1>4, <2>1, <2>2, Moves
<1>5. ASSUME NEW salt \in Salts, NEW row, row = NewRow(req, salt, seen),
             ~(link[c]["master"] = "lost" \/ (unique /\ \E i \in DOMAIN master : Clash(master[i], row))),
             master' = Append(master, row), Becomes(c, At("cookie", req, seen))
      PROVE  IInv'
  <2>1. link[c]["master"] = "up"
    BY <1>1, <1>5 DEF Typed, Servers
  <2>2. /\ RowsGrow /\ master' \in Seq(AnyRow) /\ copied' \in 0..Len(master')
        /\ \E i \in DOMAIN master' : master'[i].name = req.name /\ master'[i].email = req.email
        /\ DuplicatesRacedOrQuoted'
    BY <1>1, <1>3, <1>5, <2>1, Inserted
  <2>3. task'[c] = At("cookie", req, seen) /\ At("cookie", req, seen) \in AnyTask
    BY <1>1, <1>2, <1>5, NewTask DEF At, AnyTask, Stages
  <2>4. Typed'
    BY <1>1, <1>3, <1>5, <2>2, <2>3 DEF Typed, Becomes
  <2>5. task'[c].req = req /\ req.fn = "register"
    BY <1>2, <2>3 DEF At, Registrations
  <2>6. TaskOK(c)'
    BY <2>2, <2>3, <2>5 DEF TaskOK, At, Genuine
  <2>7. \A d \in Comets : TaskOK(d)'
    BY <1>3, <1>5, <2>2, <2>6, OthersStay
  <2>8. AnsweredGenuine'
    BY <1>1, <1>3, <2>2, AnswersKept DEF IInv, Typed
  <2>. QED BY <2>2, <2>4, <2>7, <2>8 DEF IInv
<1>. QED BY <1>4, <1>5 DEF Insert, Refuse

LEMMA InsertUnansweredStep == ASSUME IInv, NEW c \in Comets, InsertUnanswered(c) PROVE IInv'
<1>1. task[c].stage = "insert" /\ link[c]["master"] = "up" /\ Typed
  BY DEF InsertUnanswered, InHandler, IInv
<1>2. PICK salt \in Salts :
        /\ unique => \A i \in DOMAIN master :
                        ~Clash(master[i], NewRow(task[c].req, salt, task[c].seen))
        /\ master' = Append(master, NewRow(task[c].req, salt, task[c].seen))
  BY DEF InsertUnanswered
<1>3. /\ UNCHANGED <<unique, copied, answers>> /\ Becomes(c, Idle)
      /\ link' = [d \in Comets |-> [link[d] EXCEPT !["master"] = "lost"]]
  BY DEF InsertUnanswered, Refuse
<1>4. /\ RowsGrow /\ master' \in Seq(AnyRow) /\ copied' \in 0..Len(master')
      /\ DuplicatesRacedOrQuoted'
  BY <1>1, <1>2, <1>3, Inserted
<1>5. Typed'
  BY <1>1, <1>3, <1>4 DEF Typed, Becomes, AnyTask, Servers
<1>6. \A d \in Comets : link'[d]["master"] = "lost"
  BY <1>1, <1>3 DEF Typed, Servers
<1>7. TaskOK(c)'
  BY <1>1, <1>3, NewTask, IdleOK
<1>8. \A d \in Comets : TaskOK(d)'
  BY <1>3, <1>4, <1>6, <1>7, OthersStay
<1>9. AnsweredGenuine'
  BY <1>1, <1>3, <1>4, AnswersKept DEF IInv, Typed
<1>. QED BY <1>4, <1>5, <1>8, <1>9 DEF IInv

LEMMA TablesStep ==
    ASSUME IInv, NEW c \in Comets, ShowTables(c) \/ ShowTablesFails(c)
    PROVE  IInv'
<1>. DEFINE req == task[c].req
<1>1. task[c].stage = "tables" /\ TaskOK(c) /\ Typed
  BY DEF ShowTables, ShowTablesFails, InHandler, IInv
<1>2. req \in Logins /\ req \in Requests
  BY <1>1 DEF TaskOK, Requests
<1>3. PICK ok \in BOOLEAN : Becomes(c, AfterTables(req, ok))
  BY DEF ShowTables, ShowTablesFails
<1>4. AfterTables(req, ok) \in AnyTask
  BY <1>2 DEF AfterTables, AnyTask, At, Stages, NotChecked
<1>5. task'[c] = AfterTables(req, ok)
  BY <1>1, <1>3, NewTask
<1>6. TaskOK(c)'
  BY <1>2, <1>5 DEF TaskOK, AfterTables, At, Idle
<1>. QED BY <1>3, <1>4, <1>6, Moves DEF ShowTables, ShowTablesFails

LEMMA VerifyStep == ASSUME IInv, NEW c \in Comets, Verify(c) PROVE IInv'
<1>. DEFINE req == task[c].req
            t == At("cookie", req, NotChecked)
<1>1. task[c].stage = "verify" /\ TaskOK(c) /\ Typed
  BY DEF Verify, InHandler, IInv
<1>2. req \in Logins /\ req \in Requests /\ req.fn = "login"
  BY <1>1 DEF TaskOK, Requests, Logins
<1>3. UNCHANGED <<unique, master, copied, link, answers>>
  BY DEF Verify
<1>4. CASE Becomes(c, Idle)
  <2>1. Idle \in AnyTask
    BY DEF AnyTask
  <2>2. TaskOK(c)'
    BY <1>1, <1>4, NewTask, IdleOK
  <2>. QED BY <1>3, <1>4, <2>1, <2>2, Moves
<1>5. ASSUME NEW i \in WithEmail(1..copied, req.email), Matches(i, req), Becomes(c, t)
      PROVE  IInv'
  <2>1. Genuine(req)
    BY <1>2, <1>5 DEF Genuine, Matches
  <2>2. task'[c] = t /\ t \in AnyTask
    BY <1>1, <1>2, <1>5, NewTask DEF At, AnyTask, Stages, NotChecked
  <2>3. task'[c].req = req /\ task'[c].stage = "cookie"
    BY <2>2 DEF At
  <2>4. Genuine(task[c].req)'
    BY <1>3, <2>1, <2>3 DEF Genuine, WithEmail, Verifies
  <2>5. TaskOK(c)'
    BY <2>3, <2>4 DEF TaskOK
  <2>. QED BY <1>3, <1>5, <2>2, <2>5, Moves
<1>6. \/ Becomes(c, Idle)
      \/ \E i \in WithEmail(1..copied, req.email) : Matches(i, req) /\ Becomes(c, t)
  BY DEF Verify, Refuse
<1>. QED BY <1>4, <1>5, <1>6

LEMMA SetCookieStep == ASSUME IInv, NEW c \in Comets, SetCookie(c) PROVE IInv'
<1>1. task[c].stage = "cookie" /\ TaskOK(c) /\ Typed /\ Genuine(task[c].req)
  BY DEF SetCookie, InHandler, IInv, TaskOK
<1>2. task[c].req \in Requests
  BY <1>1 DEF Typed, AnyTask, Idle
<1>3. UNCHANGED <<unique, master, copied, link>> /\ Becomes(c, Idle)
  BY DEF SetCookie
<1>4. PICK stored \in BOOLEAN :
        answers' = answers \cup {[req |-> task[c].req, token |-> issued', stored |-> stored]}
  BY DEF SetCookie
<1>5. RowsGrow
  BY <1>1, <1>3, RowsSame
<1>6. Typed'
  BY <1>1, <1>2, <1>3, <1>4 DEF Typed, Becomes, AnyTask
<1>7. TaskOK(c)'
  BY <1>1, <1>3, NewTask, IdleOK
<1>8. \A d \in Comets : TaskOK(d)'
  BY <1>3, <1>5, <1>7, OthersStay
<1>9. \A a \in answers' : Genuine(a.req)
  BY <1>1, <1>4, AnsweredAll DEF IInv
<1>10. AnsweredGenuine'
  BY <1>3, <1>9 DEF AnsweredGenuine, Genuine, WithEmail, Verifies
<1>11. DuplicatesRacedOrQuoted'
  BY <1>3, RowsKept DEF IInv
<1>. QED BY <1>6, <1>8, <1>10, <1>11 DEF IInv

LEMMA ReplicateStep == IInv /\ Replicate => IInv'
<1>. SUFFICES ASSUME IInv, Replicate PROVE IInv'
  OBVIOUS
<1>1. Typed /\ UNCHANGED <<unique, master, link, task, answers>>
      /\ copied' = copied + 1 /\ copied < Len(master)
  BY DEF Replicate, IInv
<1>2. RowsGrow /\ Typed'
  BY <1>1 DEF RowsGrow, Typed
<1>3. \A d \in Comets : TaskOK(d)'
  BY <1>1, <1>2, TaskStays DEF IInv
<1>4. DuplicatesRacedOrQuoted' /\ AnsweredGenuine'
  BY <1>1, <1>2, RowsKept, AnswersKept DEF IInv, Typed
<1>. QED BY <1>2, <1>3, <1>4 DEF IInv

LEMMA DbRestartStep == IInv /\ DbRestart => IInv'
<1>. SUFFICES ASSUME IInv, DbRestart PROVE IInv'
  OBVIOUS
<1>1. Typed /\ UNCHANGED <<unique, master, copied, task, answers>>
  BY DEF DbRestart, IInv
<1>2. PICK s \in Servers : link' = [c \in Comets |-> [link[c] EXCEPT ![s] = "lost"]]
  BY DEF DbRestart
<1>3. RowsGrow
  BY <1>1, RowsSame
<1>4. Typed'
  BY <1>1, <1>2 DEF Typed, Servers
<1>5. \A d \in Comets : link[d]["master"] = "lost" => link'[d]["master"] = "lost"
  BY <1>1, <1>2 DEF Typed, Servers
<1>6. \A d \in Comets : TaskOK(d)'
  BY <1>1, <1>3, <1>5, TaskStays DEF IInv
<1>7. DuplicatesRacedOrQuoted' /\ AnsweredGenuine'
  BY <1>1, <1>3, RowsKept, AnswersKept DEF IInv, Typed
<1>. QED BY <1>4, <1>6, <1>7 DEF IInv

LEMMA CometRestartStep == ASSUME IInv, NEW c \in Comets, CometRestart(c) PROVE IInv'
<1>1. Typed /\ UNCHANGED <<unique, master, copied, answers>> /\ Becomes(c, Idle)
      /\ link' = [link EXCEPT ![c] = [s \in Servers |-> "up"]]
  BY DEF CometRestart, IInv
<1>2. RowsGrow
  BY <1>1, RowsSame
<1>3. Typed'
  BY <1>1 DEF Typed, Becomes, AnyTask
<1>4. TaskOK(c)'
  BY <1>1, NewTask, IdleOK
<1>5. \A d \in Comets : TaskOK(d)'
  <2>1. \A d \in Comets : link[d]["master"] = "lost" => d = c \/ link'[d]["master"] = "lost"
    BY <1>1 DEF Typed
  <2>. QED BY <1>1, <1>2, <1>4, <2>1, OthersStay
<1>6. DuplicatesRacedOrQuoted' /\ AnsweredGenuine'
  BY <1>1, <1>2, RowsKept, AnswersKept DEF IInv, Typed
<1>. QED BY <1>3, <1>5, <1>6 DEF IInv

LEMMA ExpireStep == IInv /\ (Expire \/ UNCHANGED vars) => IInv'
<1>. SUFFICES ASSUME IInv, UNCHANGED <<unique, master, copied, link, task, answers>>
              PROVE  IInv'
  BY DEF Expire, vars
<1>1. RowsGrow /\ Typed'
  BY RowsSame DEF IInv, Typed
<1>2. \A d \in Comets : TaskOK(d)'
  BY <1>1, TaskStays DEF IInv
<1>3. DuplicatesRacedOrQuoted' /\ AnsweredGenuine'
  BY <1>1, RowsKept, AnswersKept DEF IInv, Typed
<1>. QED BY <1>1, <1>2, <1>3 DEF IInv

-----------------------------------------------------------------------------
(* The bounds.  What a request may add is set aside when it arrives, so    *)
(* the requests in progress count.                                         *)

Registering == {c \in Comets : task[c].stage \in {"check", "insert"}}
Busy == {c \in Comets : task[c].stage # "idle"}
TaskAt(n) == {Idle} \cup [stage : Stages, req : Requests, seen : {NotChecked} \cup 0..n]

Values ==
    /\ unique \in BOOLEAN
    /\ master \in Seq(Row)
    /\ task \in [Comets -> TaskAt(Len(master))]
    /\ issued \in Nat /\ faults \in 0..MaxFaults
    /\ sessions \subseteq [token : 1..issued, key : Names \cup Emails]
    /\ answers \subseteq [req : Requests, token : 1..issued, stored : BOOLEAN]

Room ==
    /\ Values
    /\ Len(master) + Cardinality(Registering) <= MaxRows
    /\ issued + Cardinality(Busy) <= MaxTokens

\* One more or one less.
LEMMA Counts ==
    ASSUME NEW S \in SUBSET Comets, NEW c \in Comets
    PROVE  /\ Cardinality(S) \in Nat
           /\ Cardinality(S \cup {c}) \in Nat /\ Cardinality(S \cup {c}) <= Cardinality(S) + 1
           /\ c \in S => Cardinality(S \cup {c}) = Cardinality(S)
           /\ Cardinality(S \ {c}) \in Nat /\ Cardinality(S \ {c}) <= Cardinality(S)
           /\ c \in S => Cardinality(S \ {c}) = Cardinality(S) - 1
<1>1. IsFiniteSet(S)
  BY FS_Subset, AccountsAssumption DEF AccountsAssumption
<1>2. IsFiniteSet(S \cup {c}) /\ IsFiniteSet(S \ {c})
  BY <1>1, FS_AddElement, FS_RemoveElement
<1>3. /\ Cardinality(S) \in Nat /\ Cardinality(S \cup {c}) \in Nat
      /\ Cardinality(S \ {c}) \in Nat
  BY <1>1, <1>2, FS_CardinalityType
<1>4. Cardinality(S \cup {c}) = IF c \in S THEN Cardinality(S) ELSE Cardinality(S) + 1
  BY <1>1, FS_AddElement
<1>5. Cardinality(S \ {c}) = IF c \in S THEN Cardinality(S) - 1 ELSE Cardinality(S)
  BY <1>1, FS_RemoveElement
<1>. QED BY <1>3, <1>4, <1>5

LEMMA NoMore ==
    ASSUME NEW S \in SUBSET Comets, NEW T, NEW c \in Comets,
           T = S \ {c} \/ (c \in S /\ T = S \cup {c})
    PROVE  Cardinality(S) \in Nat /\ Cardinality(T) \in Nat /\ Cardinality(T) <= Cardinality(S)
<1>1. CASE T = S \ {c}
  BY <1>1, Counts
<1>2. CASE c \in S /\ T = S \cup {c}
  <2>1. T = S
    BY <1>2
  <2>2. IsFiniteSet(S)
    BY FS_Subset, AccountsAssumption DEF AccountsAssumption
  <2>3. Cardinality(S) \in Nat
    BY <2>2, FS_CardinalityType
  <2>. QED BY <2>1, <2>3
<1>. QED BY <1>1, <1>2

\* What the handler of one Comet does to the numbers.
LEMMA Turn ==
    ASSUME Values, NEW c \in Comets, NEW t \in TaskAt(Len(master')), Becomes(c, t),
           Len(master') \in Nat, Len(master) <= Len(master')
    PROVE  /\ task' \in [Comets -> TaskAt(Len(master'))]
           /\ Busy' = IF t.stage = "idle" THEN Busy \ {c} ELSE Busy \cup {c}
           /\ Registering' = IF t.stage \in {"check", "insert"}
                              THEN Registering \cup {c} ELSE Registering \ {c}
<1>1. Len(master) \in Nat /\ task \in [Comets -> TaskAt(Len(master))]
  BY DEF Values
<1>2. TaskAt(Len(master)) \subseteq TaskAt(Len(master'))
  BY <1>1 DEF TaskAt
<1>3. task' = [task EXCEPT ![c] = t]
  BY DEF Becomes
<1>4. task' \in [Comets -> TaskAt(Len(master'))]
  BY <1>1, <1>2, <1>3
<1>5. task'[c] = t /\ \A d \in Comets \ {c} : task'[d] = task[d]
  BY <1>1, <1>3
<1>. QED BY <1>4, <1>5 DEF Busy, Registering

\* A handler that goes on or ends needs no more room.
LEMMA GoesOn ==
    ASSUME Room, NEW c \in Comets, NEW t \in TaskAt(Len(master)), Becomes(c, t),
           UNCHANGED <<unique, master, sessions, issued, answers>>, faults' \in 0..MaxFaults,
           t.stage = "idle" \/ task[c].stage # "idle",
           t.stage \in {"check", "insert"} => task[c].stage \in {"check", "insert"}
    PROVE  Room'
<1>1. Values /\ Len(master) \in Nat /\ issued \in Nat
  BY DEF Room, Values
<1>2. /\ task' \in [Comets -> TaskAt(Len(master))]
      /\ Busy' = IF t.stage = "idle" THEN Busy \ {c} ELSE Busy \cup {c}
      /\ Registering' = IF t.stage \in {"check", "insert"}
                         THEN Registering \cup {c} ELSE Registering \ {c}
  BY <1>1, Turn
<1>3. Values'
  BY <1>1, <1>2 DEF Values
<1>4. Cardinality(Busy') \in Nat /\ Cardinality(Busy) \in Nat
      /\ Cardinality(Busy') <= Cardinality(Busy)
  <2>1. Busy \in SUBSET Comets /\ (t.stage # "idle" => c \in Busy)
    BY DEF Busy
  <2>2. Busy' = Busy \ {c} \/ (c \in Busy /\ Busy' = Busy \cup {c})
    BY <1>2, <2>1
  <2>. QED BY <2>1, <2>2, NoMore
<1>5. Cardinality(Registering') \in Nat /\ Cardinality(Registering) \in Nat
      /\ Cardinality(Registering') <= Cardinality(Registering)
  <2>1. Registering \in SUBSET Comets
        /\ (t.stage \in {"check", "insert"} => c \in Registering)
    BY DEF Registering
  <2>2. \/ Registering' = Registering \ {c}
        \/ c \in Registering /\ Registering' = Registering \cup {c}
    BY <1>2, <2>1
  <2>. QED BY <2>1, <2>2, NoMore
<1>6. MaxRows \in Nat /\ MaxTokens \in Nat
  BY AccountsAssumption DEF AccountsAssumption
<1>. QED BY <1>1, <1>3, <1>4, <1>5, <1>6 DEF Room

\* What is not the handlers' needs none.
LEMMA RoomKept ==
    ASSUME Room, UNCHANGED <<unique, master, task, issued, answers>>,
           sessions' \subseteq sessions, faults' \in 0..MaxFaults
    PROVE  Room'
BY DEF Room, Values, Busy, Registering

\* A request finds room for what it adds.
LEMMA RequestRoom == ASSUME Room, NEW c \in Comets, Request(c) PROVE Room'
<1>1. PICK req \in Requests :
        /\ Becomes(c, At(IF req.fn = "register" THEN "check" ELSE "tables", req, NotChecked))
        /\ req.fn = "register"
             => Len(master) + Cardinality({d \in Comets : task[d] # Idle}) < MaxRows
        /\ issued + Cardinality({d \in Comets : task[d] # Idle}) < MaxTokens
  BY DEF Request
<1>. DEFINE t == At(IF req.fn = "register" THEN "check" ELSE "tables", req, NotChecked)
<1>2. UNCHANGED <<unique, master, sessions, issued, answers, faults>>
  BY DEF Request
<1>3. Values /\ Len(master) \in Nat /\ issued \in Nat
  BY DEF Room, Values
<1>4. Busy = {d \in Comets : task[d] # Idle}
  BY <1>3 DEF Values, Busy, TaskAt, Stages, Idle
<1>5. t \in TaskAt(Len(master)) /\ t.stage = IF req.fn = "register" THEN "check" ELSE "tables"
  BY DEF At, TaskAt, Stages
<1>. HIDE DEF t
<1>6. /\ task' \in [Comets -> TaskAt(Len(master))]
      /\ Busy' = Busy \cup {c}
      /\ Registering' = IF req.fn = "register" THEN Registering \cup {c} ELSE Registering \ {c}
  BY <1>1, <1>2, <1>3, <1>5, Turn DEF t
<1>7. Values'
  BY <1>2, <1>3, <1>6 DEF Values
<1>8. MaxRows \in Nat /\ MaxTokens \in Nat
  BY AccountsAssumption DEF AccountsAssumption
<1>9. /\ Cardinality(Busy) \in Nat /\ Cardinality(Busy') \in Nat
      /\ Cardinality(Busy') <= Cardinality(Busy) + 1
  <2>1. Busy \in SUBSET Comets
    BY DEF Busy
  <2>. QED BY <1>6, <2>1, Counts
<1>10. /\ Cardinality(Registering) \in Nat /\ Cardinality(Registering) <= Cardinality(Busy)
  <2>1. Registering \in SUBSET Comets /\ Registering \in SUBSET Busy /\ Busy \in SUBSET Comets
    BY DEF Registering, Busy
  <2>2. IsFiniteSet(Busy)
    BY <2>1, FS_Subset, AccountsAssumption DEF AccountsAssumption
  <2>. QED BY <2>1, <2>2, FS_Subset, FS_CardinalityType
<1>11. /\ Cardinality(Registering') \in Nat
       /\ Cardinality(Registering') <= Cardinality(Registering) + 1
       /\ req.fn # "register" => Cardinality(Registering') <= Cardinality(Registering)
  <2>1. Registering \in SUBSET Comets
    BY DEF Registering
  <2>2. CASE req.fn = "register"
    BY <1>6, <2>1, <2>2, Counts
  <2>3. CASE req.fn # "register"
    <3>1. Registering' = Registering \ {c}
      BY <1>6, <2>3
    <3>2. /\ Cardinality(Registering) \in Nat /\ Cardinality(Registering') \in Nat
          /\ Cardinality(Registering') <= Cardinality(Registering)
      BY <2>1, <3>1, NoMore
    <3>. QED BY <3>2
  <2>. QED BY <2>2, <2>3
<1>12. Len(master') + Cardinality(Registering') <= MaxRows
  <2>1. CASE req.fn = "register"
    BY <1>1, <1>2, <1>3, <1>4, <1>8, <1>9, <1>10, <1>11, <2>1
  <2>2. CASE req.fn # "register"
    BY <1>2, <1>3, <1>8, <1>10, <1>11, <2>2 DEF Room
  <2>. QED BY <2>1, <2>2
<1>13. issued' + Cardinality(Busy') <= MaxTokens
  BY <1>1, <1>2, <1>3, <1>4, <1>8, <1>9
<1>. QED BY <1>7, <1>12, <1>13 DEF Room

\* A check, a look at the tables and a verification add nothing.
LEMMA CheckRoom == ASSUME Room, NEW c \in Comets, Check(c) PROVE Room'
<1>. DEFINE req == task[c].req
            answered == link[c]["master"] = "up" /\ Sound({req.name, req.email})
            t == At("insert", req, IF answered THEN Len(master) ELSE NotChecked)
<1>1. task[c].stage = "check" /\ UNCHANGED <<unique, master, sessions, issued, answers, faults>>
  BY DEF Check, InHandler
<1>2. Becomes(c, Idle) \/ Becomes(c, t)
  BY DEF Check, Refuse
<1>3. task[c] \in TaskAt(Len(master)) /\ Len(master) \in Nat /\ faults \in 0..MaxFaults
  BY DEF Room, Values
<1>4. req \in Requests
  BY <1>1, <1>3 DEF TaskAt, Idle
<1>5. Idle \in TaskAt(Len(master)) /\ Idle.stage = "idle"
  BY DEF TaskAt, Idle
<1>6. t \in TaskAt(Len(master)) /\ t.stage = "insert"
  BY <1>3, <1>4 DEF TaskAt, At, Stages
<1>. HIDE DEF t
<1>. QED BY <1>1, <1>2, <1>3, <1>5, <1>6, GoesOn

LEMMA LoginRoom ==
    ASSUME Room, NEW c \in Comets, ShowTables(c) \/ ShowTablesFails(c) \/ Verify(c)
    PROVE  Room'
<1>. DEFINE req == task[c].req
            t == At("verify", req, NotChecked)
            u == At("cookie", req, NotChecked)
<1>1. /\ task[c].stage \in {"tables", "verify"}
      /\ UNCHANGED <<unique, master, sessions, issued, answers>>
  BY DEF ShowTables, ShowTablesFails, Verify, InHandler
<1>2. Becomes(c, Idle) \/ Becomes(c, t) \/ Becomes(c, u)
  BY DEF ShowTables, ShowTablesFails, AfterTables, Verify, Refuse
<1>3. task[c] \in TaskAt(Len(master)) /\ Len(master) \in Nat /\ faults \in 0..MaxFaults
  BY DEF Room, Values
<1>4. faults' \in 0..MaxFaults
  <2>1. faults' = faults \/ (faults < MaxFaults /\ faults' = faults + 1)
    BY DEF ShowTables, ShowTablesFails, Verify
  <2>. QED BY <1>3, <2>1, AccountsAssumption DEF AccountsAssumption
<1>5. req \in Requests
  BY <1>1, <1>3 DEF TaskAt, Idle
<1>6. Idle \in TaskAt(Len(master)) /\ Idle.stage = "idle"
  BY DEF TaskAt, Idle
<1>7. /\ t \in TaskAt(Len(master)) /\ t.stage = "verify"
      /\ u \in TaskAt(Len(master)) /\ u.stage = "cookie"
  BY <1>3, <1>5 DEF TaskAt, At, Stages
<1>. HIDE DEF t, u
<1>. QED BY <1>1, <1>2, <1>4, <1>6, <1>7, GoesOn

\* The row of a registration takes the room its check kept.
LEMMA RowRoom ==
    ASSUME IInv, Room, NEW c \in Comets, NEW salt \in Salts, NEW t \in TaskAt(Len(master)),
           task[c].stage = "insert",
           master' = Append(master, NewRow(task[c].req, salt, task[c].seen)),
           Becomes(c, t), t.stage \notin {"check", "insert"},
           UNCHANGED <<unique, sessions, issued, answers>>, faults' \in 0..MaxFaults
    PROVE  Room'
<1>. DEFINE row == NewRow(task[c].req, salt, task[c].seen)
<1>1. /\ Values /\ Len(master) \in Nat /\ issued \in Nat /\ master \in Seq(Row)
      /\ Len(master) + Cardinality(Registering) <= MaxRows
      /\ issued + Cardinality(Busy) <= MaxTokens
  BY DEF Room, Values
<1>2. MaxRows \in Nat /\ MaxTokens \in Nat
  BY AccountsAssumption DEF AccountsAssumption
<1>3. c \in Busy /\ c \in Registering /\ Busy \in SUBSET Comets /\ Registering \in SUBSET Comets
  BY DEF Busy, Registering
<1>4. /\ Cardinality(Registering) \in Nat /\ Cardinality(Busy) \in Nat
      /\ Cardinality(Registering \ {c}) = Cardinality(Registering) - 1
      /\ Cardinality(Registering \ {c}) \in Nat /\ Cardinality(Busy \ {c}) \in Nat
      /\ Cardinality(Busy \ {c}) <= Cardinality(Busy)
      /\ Cardinality(Busy \cup {c}) = Cardinality(Busy)
  BY <1>3, Counts
<1>5. row \in Row
  <2>1. task[c].req \in Registrations
    BY DEF IInv, TaskOK
  <2>2. task[c].seen \in {NotChecked} \cup 0..Len(master)
    BY <1>1 DEF Values, TaskAt, Idle
  <2>3. Len(master) <= MaxRows
    BY <1>1, <1>2, <1>4
  <2>4. task[c].seen \in {NotChecked} \cup 0..MaxRows
    BY <1>1, <1>2, <2>2, <2>3
  <2>. QED BY <2>1, <2>4 DEF Row, NewRow, Hash, Registrations
<1>. HIDE DEF row
<1>6. master' = Append(master, row)
  BY DEF row
<1>7. master' \in Seq(Row) /\ Len(master') = Len(master) + 1 /\ Len(master') \in Nat
      /\ Len(master) <= Len(master')
  BY <1>1, <1>5, <1>6
<1>8. t \in TaskAt(Len(master'))
  BY <1>1, <1>7 DEF TaskAt
<1>9. /\ task' \in [Comets -> TaskAt(Len(master'))]
      /\ Busy' = IF t.stage = "idle" THEN Busy \ {c} ELSE Busy \cup {c}
      /\ Registering' = Registering \ {c}
  BY <1>1, <1>7, <1>8, Turn
<1>10. Values'
  BY <1>1, <1>7, <1>9 DEF Values
<1>11. Len(master') + Cardinality(Registering') <= MaxRows
  BY <1>1, <1>2, <1>4, <1>7, <1>9
<1>12. issued' + Cardinality(Busy') <= MaxTokens
  BY <1>1, <1>2, <1>4, <1>9
<1>. QED BY <1>10, <1>11, <1>12 DEF Room

LEMMA InsertRoom ==
    ASSUME IInv, Room, NEW c \in Comets, Insert(c) \/ InsertUnanswered(c)
    PROVE  Room'
<1>. DEFINE t == At("cookie", task[c].req, task[c].seen)
<1>1. /\ task[c].stage = "insert" /\ UNCHANGED <<unique, sessions, issued, answers>>
  BY DEF Insert, InsertUnanswered, InHandler
<1>2. task[c] \in TaskAt(Len(master)) /\ Len(master) \in Nat /\ faults \in 0..MaxFaults
  BY DEF Room, Values
<1>3. faults' \in 0..MaxFaults
  BY <1>2, AccountsAssumption DEF Insert, InsertUnanswered, AccountsAssumption
<1>4. Idle \in TaskAt(Len(master)) /\ Idle.stage = "idle"
  BY DEF TaskAt, Idle
<1>5. t \in TaskAt(Len(master)) /\ t.stage = "cookie"
  BY <1>1, <1>2 DEF TaskAt, At, Stages, Idle
<1>6. \/ Becomes(c, Idle) /\ UNCHANGED master
      \/ \E salt \in Salts : /\ master' = Append(master, NewRow(task[c].req, salt, task[c].seen))
                             /\ Becomes(c, Idle) \/ Becomes(c, t)
  BY DEF Insert, InsertUnanswered, Refuse
<1>. HIDE DEF t
<1>7. CASE Becomes(c, Idle) /\ UNCHANGED master
  BY <1>1, <1>3, <1>4, <1>7, GoesOn
<1>8. ASSUME NEW salt \in Salts,
             master' = Append(master, NewRow(task[c].req, salt, task[c].seen)),
             Becomes(c, Idle) \/ Becomes(c, t)
      PROVE  Room'
  BY <1>1, <1>3, <1>4, <1>5, <1>8, RowRoom
<1>. QED BY <1>6, <1>7, <1>8

\* A token takes the room its request kept.
LEMMA SetCookieRoom == ASSUME Room, NEW c \in Comets, SetCookie(c) PROVE Room'
<1>1. /\ task[c].stage = "cookie" /\ UNCHANGED <<unique, master, faults>>
      /\ issued' = issued + 1 /\ Becomes(c, Idle)
  BY DEF SetCookie, InHandler
<1>2. PICK stored \in BOOLEAN :
        /\ sessions' = sessions \cup
             {[token |-> issued', key |-> SessionKey(task[c].req)] : s \in {TRUE} \cap {stored}}
        /\ answers' = answers \cup {[req |-> task[c].req, token |-> issued', stored |-> stored]}
  BY DEF SetCookie
<1>3. /\ Values /\ Len(master) \in Nat /\ issued \in Nat
      /\ Len(master) + Cardinality(Registering) <= MaxRows
      /\ issued + Cardinality(Busy) <= MaxTokens
  BY DEF Room, Values
<1>4. Idle \in TaskAt(Len(master')) /\ Idle.stage = "idle"
  BY DEF TaskAt, Idle
<1>5. /\ task' \in [Comets -> TaskAt(Len(master'))]
      /\ Busy' = Busy \ {c} /\ Registering' = Registering \ {c}
  BY <1>1, <1>3, <1>4, Turn
<1>6. task[c].req \in Requests /\ SessionKey(task[c].req) \in Emails
  <2>1. task[c].req \in Requests
    BY <1>1, <1>3 DEF Values, TaskAt, Idle
  <2>. QED BY <2>1 DEF Requests, Registrations, Logins, SessionKey
<1>7. /\ sessions' \subseteq [token : 1..issued', key : Names \cup Emails]
      /\ answers' \subseteq [req : Requests, token : 1..issued', stored : BOOLEAN]
  BY <1>1, <1>2, <1>3, <1>6 DEF Values
<1>8. Values'
  BY <1>1, <1>3, <1>5, <1>7 DEF Values
<1>9. MaxRows \in Nat /\ MaxTokens \in Nat
  BY AccountsAssumption DEF AccountsAssumption
<1>10. c \in Busy /\ Busy \in SUBSET Comets /\ Registering \in SUBSET Comets
  BY <1>1 DEF Busy, Registering
<1>11. /\ Cardinality(Registering) \in Nat /\ Cardinality(Busy) \in Nat
       /\ Cardinality(Registering \ {c}) <= Cardinality(Registering)
       /\ Cardinality(Registering \ {c}) \in Nat
       /\ Cardinality(Busy \ {c}) = Cardinality(Busy) - 1
  BY <1>10, Counts
<1>12. Len(master') + Cardinality(Registering') <= MaxRows
  BY <1>1, <1>3, <1>5, <1>9, <1>11
<1>13. issued' + Cardinality(Busy') <= MaxTokens
  BY <1>1, <1>3, <1>5, <1>9, <1>11
<1>. QED BY <1>8, <1>12, <1>13 DEF Room

\* The servers and the processes need none.
LEMMA CometRestartRoom == ASSUME Room, NEW c \in Comets, CometRestart(c) PROVE Room'
<1>1. /\ UNCHANGED <<unique, master, sessions, issued, answers>> /\ Becomes(c, Idle)
      /\ faults < MaxFaults /\ faults' = faults + 1
  BY DEF CometRestart
<1>2. faults' \in 0..MaxFaults
  BY <1>1, AccountsAssumption DEF Room, Values, AccountsAssumption
<1>3. Idle \in TaskAt(Len(master)) /\ Idle.stage = "idle"
  BY DEF TaskAt, Idle
<1>. QED BY <1>1, <1>2, <1>3, GoesOn

LEMMA EnvironmentRoom ==
    Room /\ (Replicate \/ DbRestart \/ Expire \/ UNCHANGED vars) => Room'
<1>. SUFFICES ASSUME Room, Replicate \/ DbRestart \/ Expire \/ UNCHANGED vars PROVE Room'
  OBVIOUS
<1>1. faults' = faults \/ (faults < MaxFaults /\ faults' = faults + 1)
  BY DEF Replicate, DbRestart, Expire, vars
<1>2. faults' \in 0..MaxFaults
  BY <1>1, AccountsAssumption DEF Room, Values, AccountsAssumption
<1>3. UNCHANGED <<unique, master, task, issued, answers>> /\ sessions' \subseteq sessions
  BY DEF Replicate, DbRestart, Expire, vars
<1>. QED BY <1>2, <1>3, RoomKept

LEMMA RoomInductive == IInv /\ Room /\ [Next]_vars => Room'
<1>. SUFFICES ASSUME IInv, Room, [Next]_vars PROVE Room'
  OBVIOUS
<1>1. ASSUME NEW c \in Comets,
             Request(c) \/ Handle(c) \/ InsertUnanswered(c) \/ ShowTablesFails(c) \/ CometRestart(c)
      PROVE  Room'
  BY <1>1, RequestRoom, CheckRoom, InsertRoom, LoginRoom, SetCookieRoom, CometRestartRoom
     DEF Handle
<1>. QED BY <1>1, EnvironmentRoom DEF Next

LEMMA RoomAtFirst == Init => Room
<1>. SUFFICES ASSUME Init PROVE Room
  OBVIOUS
<1>1. Values
  BY AccountsAssumption DEF Init, Values, TaskAt, AccountsAssumption
<1>2. Busy = {} /\ Registering = {}
  BY DEF Init, Busy, Registering, Idle
<1>3. MaxRows \in Nat /\ MaxTokens \in Nat
  BY AccountsAssumption DEF AccountsAssumption
<1>4. Len(master) = 0 /\ issued = 0
  BY DEF Init
<1>. QED BY <1>1, <1>2, <1>3, <1>4, FS_EmptySet DEF Room

-----------------------------------------------------------------------------
(* The theorems.                                                           *)

LEMMA Initially == Init => IInv
<1>. SUFFICES ASSUME Init PROVE IInv
  OBVIOUS
<1>1. Typed
  BY DEF Init, Typed, AnyTask
<1>2. \A c \in Comets : TaskOK(c)
  BY DEF Init, TaskOK, Idle
<1>3. DuplicatesRacedOrQuoted /\ AnsweredGenuine
  BY DEF Init, DuplicatesRacedOrQuoted, AnsweredGenuine
<1>. QED BY <1>1, <1>2, <1>3 DEF IInv

LEMMA Inductive == IInv /\ [Next]_vars => IInv'
<1>. SUFFICES ASSUME IInv, [Next]_vars PROVE IInv'
  OBVIOUS
<1>1. ASSUME NEW c \in Comets,
             Request(c) \/ Handle(c) \/ InsertUnanswered(c) \/ ShowTablesFails(c) \/ CometRestart(c)
      PROVE  IInv'
  BY <1>1, RequestStep, CheckStep, InsertStep, TablesStep, VerifyStep, SetCookieStep,
     InsertUnansweredStep, CometRestartStep DEF Handle
<1>. QED BY <1>1, ReplicateStep, DbRestartStep, ExpireStep DEF Next

\* What a handler in progress relies on is still true when it goes on.
THEOREM AccountsInvariant == Spec => []IInv
BY Initially, Inductive, PTL DEF Spec

\* Two accounts with one name or email come from the gap between the SELECT
\* and the INSERT of registerUser, or from a text that breaks the SELECT.
THEOREM DuplicatesExplained == Spec => []DuplicatesRacedOrQuoted
<1>1. IInv => DuplicatesRacedOrQuoted
  BY DEF IInv
<1>. QED BY <1>1, AccountsInvariant, PTL

\* Nobody is given a token for an account that is not there, or for another
\* password.
THEOREM AnswersGenuine == Spec => []AnsweredGenuine
<1>1. IInv => AnsweredGenuine
  BY DEF IInv
<1>. QED BY <1>1, AccountsInvariant, PTL

\* The state is of its type, and within its bounds: a row or a token that a
\* request adds has its place from the moment the request arrives.
THEOREM TypeCorrect == Spec => []TypeOK
<1>1. Spec => [](IInv /\ Room)
  <2>1. Init => IInv /\ Room
    BY Initially, RoomAtFirst
  <2>2. IInv /\ Room /\ [Next]_vars => (IInv /\ Room)'
    BY Inductive, RoomInductive
  <2>. QED BY <2>1, <2>2, PTL DEF Spec
<1>2. IInv /\ Room => TypeOK
  <2>. SUFFICES ASSUME IInv, Room PROVE TypeOK
    OBVIOUS
  <2>1. /\ Values /\ Len(master) \in Nat /\ issued \in Nat
        /\ Len(master) + Cardinality(Registering) <= MaxRows
        /\ issued + Cardinality(Busy) <= MaxTokens
    BY DEF Room, Values
  <2>2. Cardinality(Registering) \in Nat /\ Cardinality(Busy) \in Nat
    <3>1. Busy \in SUBSET Comets /\ Registering \in SUBSET Comets
      BY DEF Busy, Registering
    <3>2. IsFiniteSet(Busy) /\ IsFiniteSet(Registering)
      BY <3>1, FS_Subset, AccountsAssumption DEF AccountsAssumption
    <3>. QED BY <3>2, FS_CardinalityType
  <2>3. MaxRows \in Nat /\ MaxTokens \in Nat
    BY AccountsAssumption DEF AccountsAssumption
  <2>4. Len(master) <= MaxRows /\ issued \in 0..MaxTokens
    BY <2>1, <2>2, <2>3
  <2>. QED BY <2>1, <2>4 DEF IInv, Typed, Values, TaskAt, TypeOK
<1>. QED BY <1>1, <1>2, PTL

=============================================================================
