------------------------------ MODULE Replicas ------------------------------
(***************************************************************************)
(* The tables that the servers of a contest keep in step by processing the *)
(* same messages: users and groups (support_user.C, act_adduser.C,         *)
(* act_addgroup.C, act_passwd.C, act_bonus.C), problems (module Problems), *)
(* clarification requests and clarifications (act_clarify.C) and           *)
(* submissions (act_submit.C).                                             *)
(*                                                                         *)
(* PeerReplication models how every message reaches every server.  Here it *)
(* is only assumed that it does so in any order, and the subject is what   *)
(* the handlers, int_process of each message class, make of that order, of *)
(* a restart between two statements, and of a statement that fails.        *)
(***************************************************************************)
EXTENDS Problems

CONSTANTS
    Servers,        \* server ids
    InitUsers,      \* rows of User that every server has from the beginning
    InitGroups,     \* and rows of Group
    Names,          \* names for new users and groups
    MaxTime         \* bound on the clock

\* The columns of User
IsUser(u) == u = [id |-> u.id, name |-> u.name, type |-> u.type,
                  group |-> u.group, pw |-> u.pw, bonus |-> u.bonus]

ASSUME ReplicasAssumption ==
    /\ Servers \subseteq Nat /\ MaxTime \in Nat \ {0}
    /\ \A u \in InitUsers : IsUser(u)
    /\ \A u, v \in InitUsers : u.id = v.id \/ u.name = v.name => u = v

VARIABLES
    db,         \* the tables of each server
    msgs,       \* all messages made so far (PeerMessage)
    done,       \* those each server has marked as processed
    failed,     \* those that failed since the server was started
    torn,       \* those that were begun before, to be tried again
    told,       \* how many update events each server has broadcast for a message
    clock,      \* time(NULL)
    faults,     \* number of failed statements so far
    restarts    \* number of restarts so far

vars == <<db, msgs, done, failed, torn, told, clock, faults, restarts>>

-----------------------------------------------------------------------------
(* Queries.                                                                *)

Anyone == NoValue   \* user id 0: no restriction to one user
General == NoValue  \* problem id 0: no problem

\* The user rows with this id or name: at most one each.
WithId(T, id) == {r \in T : r.id = id}
WithName(T, name) == {r \in T : r.name = name}

username(d, id) == {u.name : u \in WithId(d.user, id)}
user_id(d, name) == {u.id : u \in WithName(d.user, name)}
groupname(d, id) == {g.name : g \in WithId(d.group, id)}
group_id(d, name) == {g.id : g \in WithName(d.group, name)}

\* userList, with friendlyname and usertype of each as ActGetUsers sends it
userList(d) == {[id |-> u.id, name |-> u.name, type |-> u.type] : u \in d.user}
groupList(d) == d.group

shortname(d, p) == ProblemRow(d.prob, p).attrs["shortname"]

\* getSubmission(s) joins User and the attribute shortname: a submission
\* without either is not in the result.
Submissions(d, S) ==
    {[id |-> x.id, prob |-> x.prob, name |-> shortname(d, x.prob)] :
        x \in {y \in S : WithId(d.user, y.user) # {} /\ shortname(d, y.prob) # NoValue}}
getSubmission(d, id) == Submissions(d, WithId(d.sub, id))
getSubmissions(d, uid) == Submissions(d, {x \in d.sub : uid \in {Anyone, x.user}})

\* The outer joins of the queries for clarifications keep a row whose problem
\* is unknown ("General").
getClarificationRequest(d, id) == WithId(d.req, id)
getClarificationRequests(d, uid) ==
    {[req |-> r, name |-> shortname(d, r.prob)] : r \in {x \in d.req : uid \in {Anyone, x.user}}}

\* A clarification with the request it answers: none if the request has no row
Question(d, c) == WithId(d.req, c.req)
ClarificationsFor(d, uid) ==
    {c \in d.clar : uid = Anyone \/ c.public \/ \E r \in Question(d, c) : r.user = uid}
getClarifications(d, uid) ==
    {[clar |-> c, question |-> Question(d, c)] : c \in ClarificationsFor(d, uid)}

\* The question of a row without a request is NULL, which is assigned to a
\* std::string: the server dies.
NullQuestion(d, C) == \E c \in C : Question(d, c) = {}

-----------------------------------------------------------------------------
(* int_process of each message class: the tables after each call, whether  *)
(* it reports success, whether it broadcasts an update event, and whether  *)
(* it brings the server down.                                              *)

Outcome(steps, ok, tells, dies) == [steps |-> steps, ok |-> ok, tells |-> tells, dies |-> dies]
Refused(d) == Outcome(<<d>>, FALSE, FALSE, FALSE)

ProcessProb(d, m, fault) ==
    LET P == ProbSteps(d.prob, m, fault)
    IN  Outcome([i \in DOMAIN P |-> [d EXCEPT !.prob = P[i]]],
                fault = NoFault \/ Discarded(d.prob, m), FALSE, FALSE)

\* Mutant: REPLACE instead of INSERT
ProcessUserReplace(d, m) ==
    Outcome(<<d, [d EXCEPT !.user = (@ \ (WithId(@, m.row.id) \cup WithName(@, m.row.name)))
                                        \cup {m.row}]>>, TRUE, FALSE, FALSE)

\* addUser, addGroup: INSERT, with unique ids and unique names
ProcessUser(d, m) ==
    IF WithId(d.user, m.row.id) \cup WithName(d.user, m.row.name) # {} THEN Refused(d)
    ELSE Outcome(<<d, [d EXCEPT !.user = @ \cup {m.row}]>>, TRUE, FALSE, FALSE)

ProcessGroup(d, m) ==
    IF WithId(d.group, m.row.id) \cup WithName(d.group, m.row.name) # {} THEN Refused(d)
    ELSE Outcome(<<d, [d EXCEPT !.group = @ \cup {m.row}]>>, TRUE, FALSE, FALSE)

\* PasswdMessage and BonusMessage: UPDATE, which succeeds on no row as well
UpdateUsers(d, id, f(_)) ==
    Outcome(<<d, [d EXCEPT !.user = {IF u.id = id THEN f(u) ELSE u : u \in @}]>>,
            TRUE, FALSE, FALSE)
ProcessPasswd(d, m) == UpdateUsers(d, m.user, LAMBDA u : [u EXCEPT !.pw = m.id])
ProcessBonus(d, m) == UpdateUsers(d, m.user, LAMBDA u : [u EXCEPT !.bonus = m.id])

\* Mutant: a request that is there already counts as inserted.
ProcessRequestAgain(d, m) ==
    Outcome(<<d, [d EXCEPT !.req = @ \cup {m.row}]>>, TRUE, TRUE, FALSE)

ProcessRequest(d, m) ==
    IF WithId(d.req, m.row.id) # {} THEN Refused(d)
    ELSE Outcome(<<d, [d EXCEPT !.req = @ \cup {m.row}]>>, TRUE, TRUE, FALSE)

\* Mutant: a reply without its request is refused before anything is stored.
ProcessReplyRefused(d, m) ==
    IF WithId(d.clar, m.row.id) # {} \/ getClarificationRequest(d, m.row.req) = {} THEN Refused(d)
    ELSE Outcome(<<d, [d EXCEPT !.clar = @ \cup {m.row}]>>, TRUE, TRUE, FALSE)

\* The request is looked up first and missed only after the row is inserted
\* and getClarification has read the row back with its question.
ProcessReply(d, m) ==
    IF WithId(d.clar, m.row.id) # {} THEN Refused(d)
    ELSE LET known == getClarificationRequest(d, m.row.req) # {}
         IN  Outcome(<<d, [d EXCEPT !.clar = @ \cup {m.row}]>>, known, known, ~known)

\* The row stays when the submission cannot be read back with its user and
\* problem, and the message fails.
ProcessSubmission(d, m) ==
    IF WithId(d.sub, m.row.id) # {} THEN Refused(d)
    ELSE LET new == [d EXCEPT !.sub = @ \cup {m.row}]
             found == getSubmission(new, m.row.id) # {}
         IN  Outcome(<<d, new>>, found, found, FALSE)

int_process(d, m, fault) ==
    CASE m.kind = "prob" -> ProcessProb(d, m, fault)
      [] m.kind = "user" -> ProcessUser(d, m)
      [] m.kind = "group" -> ProcessGroup(d, m)
      [] m.kind = "passwd" -> ProcessPasswd(d, m)
      [] m.kind = "bonus" -> ProcessBonus(d, m)
      [] m.kind = "request" -> ProcessRequest(d, m)
      [] m.kind = "reply" -> ProcessReply(d, m)
      [] m.kind = "sub" -> ProcessSubmission(d, m)

-----------------------------------------------------------------------------
Init ==
    /\ db = [s \in Servers |-> [prob |-> <<>>, user |-> InitUsers, group |-> InitGroups,
                                req |-> {}, clar |-> {}, sub |-> {}]]
    /\ msgs = {} /\ clock = 1 /\ faults = 0 /\ restarts = 0
    /\ done = [s \in Servers |-> {}]
    /\ failed = [s \in Servers |-> {}]
    /\ torn = [s \in Servers |-> {}]
    /\ told = [s \in Servers |-> <<>>]

\* The clients' actions.  Each checks its request against the tables of its
\* own server, takes an id and makes a message (triggerMessage); a refused
\* request changes nothing.
Make(m) == msgs' = msgs \cup {m} /\ UNCHANGED <<db, done, failed, torn, told, clock, faults, restarts>>

\* An id of this server that was not used before for this kind of row (module
\* IdAllocation has the counters).
NextId(s, kind) == <<s, kind, Cardinality({m \in msgs : m.id[1] = s /\ m.id[2] = kind})>>

nextId(s) == NextId(s, "user")
nextGroupId(s) == NextId(s, "group")
nextProblemId(s) == NextId(s, "prob")
nextClarificationRequestId(s) == NextId(s, "request")
nextClarificationId(s) == NextId(s, "reply")
nextSubmissionId(s) == NextId(s, "sub")

NewRow(kind, id, row) == [kind |-> kind, id |-> id, row |-> row]

ActSetProbAttrs(s, isNew, prob, type, carries, keeps, deps) ==
    /\ isNew \/ prob \in DOMAIN db[s].prob
    /\ LET t == IF ~isNew /\ type = NoType THEN ProblemRow(db[s].prob, prob).type ELSE type
           id == nextProblemId(s)
       IN  /\ t \in Types
           /\ Acceptable(t, isNew, carries, keeps)
           /\ Make(ProbMessage(id, IF isNew THEN id ELSE prob, clock, t, carries, keeps, deps))

ActAddUser(s, name, group) ==
    /\ groupname(db[s], group) # {}
    /\ user_id(db[s], name) = {}
    /\ LET id == nextId(s)
       IN  Make(NewRow("user", id, [id |-> id, name |-> name, type |-> "contestant",
                                    group |-> group, pw |-> id, bonus |-> NoValue]))

ActAddGroup(s, name) ==
    /\ group_id(db[s], name) = {}
    /\ LET id == nextGroupId(s) IN Make(NewRow("group", id, [id |-> id, name |-> name]))

\* ActPasswd and ActIdPasswd: the hash needs the user's name.
ActPasswd(s, user) ==
    /\ username(db[s], user) # {}
    /\ Make([kind |-> "passwd", id |-> NextId(s, "passwd"), user |-> user])

\* No check that the user exists.
ActSetbonus(s, user) ==
    Make([kind |-> "bonus", id |-> NextId(s, "bonus"), user |-> user])

ActClarificationRequest(s, user, prob) ==
    /\ username(db[s], user) # {}
    /\ prob = General \/ prob \in getProblems(db[s].prob)
    /\ LET id == nextClarificationRequestId(s)
       IN  Make(NewRow("request", id, [id |-> id, user |-> user, prob |-> prob]))

ActClarification(s, user, req, public) ==
    /\ getClarificationRequest(db[s], req) # {}
    /\ LET id == nextClarificationId(s)
       IN  Make(NewRow("reply", id, [id |-> id, req |-> req, user |-> user, public |-> public]))

\* The other conditions of ActSubmit are those of modules Marking and
\* ContestTimer.
ActSubmit(s, user, prob) ==
    /\ username(db[s], user) # {}
    /\ prob \in getProblems(db[s].prob)
    /\ LET id == nextSubmissionId(s)
       IN  Make(NewRow("sub", id, [id |-> id, user |-> user, prob |-> prob]))

Tick == clock < MaxTime /\ clock' = clock + 1
        /\ UNCHANGED <<db, msgs, done, failed, torn, told, faults, restarts>>

-----------------------------------------------------------------------------
(* The message handler of server s takes a message, which was received in  *)
(* any order or read back at the start (getUnprocessedMessages).           *)

Waiting(s) == msgs \ (done[s] \cup failed[s])

Told(s, m) == IF m \in DOMAIN told[s] THEN told[s][m] ELSE 0

Effect(s, d, tells, m) ==
    /\ db' = [db EXCEPT ![s] = d]
    /\ told' = IF tells THEN [told EXCEPT ![s] = Put(@, m, 1 + Told(s, m))] ELSE told

\* Message::process: int_process, then markProcessed if it succeeded.
Process(s, m, out) ==
    /\ ~out.dies
    /\ Effect(s, out.steps[Len(out.steps)], out.tells, m)
    /\ done' = [done EXCEPT ![s] = IF out.ok THEN @ \cup {m} ELSE @]
    /\ failed' = [failed EXCEPT ![s] = IF out.ok THEN @ ELSE @ \cup {m}]
    /\ torn' = [torn EXCEPT ![s] = @ \ {m}]
    /\ UNCHANGED <<msgs, clock, restarts>>

ProcessMessage(s) == \E m \in Waiting(s) :
    Process(s, m, int_process(db[s], m, NoFault)) /\ UNCHANGED faults

\* One statement of an update of a problem fails; the others are done
\* ("continuing anyway").
ProcessFaulty(s) == \E m \in Waiting(s) :
    /\ m.kind = "prob"
    /\ \E f \in Faults(m) : Process(s, m, int_process(db[s], m, f))
    /\ faults' = faults + 1

\* No connection to the database, or the first statement fails.
ProcessNothing(s) == \E m \in Waiting(s) :
    /\ Process(s, m, Refused(db[s])) /\ faults' = faults + 1

\* A new process: what had failed is read from the database once more.
Reload(s, begun) ==
    /\ torn' = [torn EXCEPT ![s] = @ \cup failed[s] \cup begun]
    /\ failed' = [failed EXCEPT ![s] = {}]
    /\ restarts' = restarts + 1
    /\ UNCHANGED <<msgs, done, clock, faults>>

\* (If nothing had failed, a restart between two messages changes nothing.)
Restart(s) == failed[s] # {} /\ Reload(s, {}) /\ UNCHANGED <<db, told>>

\* The server stops after some of the statements of a message, or after all
\* of them but before markProcessed.
CrashIn(s, m, out) ==
    \E k \in 1 .. Len(out.steps), tells \in {FALSE, out.tells} :
        /\ tells => k = Len(out.steps)
        /\ Effect(s, out.steps[k], tells, m)
        /\ Reload(s, {m})

Crash(s) == \E m \in Waiting(s) : CrashIn(s, m, int_process(db[s], m, NoFault))

\* The handler dies on a reply without its request.
ProcessDies(s) == \E m \in Waiting(s) : \E out \in {int_process(db[s], m, NoFault)} :
    /\ out.dies
    /\ Effect(s, out.steps[Len(out.steps)], FALSE, m)
    /\ Reload(s, {m})

\* ActGetClarifications of a client with this user id, or of one who may see
\* all: it changes nothing, unless a row in the result has no question.
GetClarificationsDies(s, uid) ==
    /\ NullQuestion(db[s], ClarificationsFor(db[s], uid))
    /\ Reload(s, {}) /\ UNCHANGED <<db, told>>

\* A client of server s sends a request about the rows its server has; only
\* bonuses are given by number.
UserIds == {u.id : u \in InitUsers} \cup {m.id : m \in {n \in msgs : n.kind = "user"}}

EditProblem(s) == \E C \in SUBSET Attrs, K \in SUBSET FileAttrs :
    \/ \E t \in Types : ActSetProbAttrs(s, TRUE, NoValue, t, C, K, {})
    \/ \E p \in DOMAIN db[s].prob : \E t \in Types \cup {NoType}, D \in SUBSET (DOMAIN db[s].prob \ {p}) :
           ActSetProbAttrs(s, FALSE, p, t, C, K, D)

EditUsers(s) ==
    \/ \E n \in Names, g \in db[s].group : ActAddUser(s, n, g.id)
    \/ \E n \in Names : ActAddGroup(s, n)
    \/ \E u \in db[s].user : ActPasswd(s, u.id)
    \/ \E u \in UserIds : ActSetbonus(s, u)

AskAndSubmit(s) == \E u \in db[s].user :
    \/ \E p \in DOMAIN db[s].prob \cup {General} : ActClarificationRequest(s, u.id, p)
    \/ \E r \in db[s].req, public \in BOOLEAN : ActClarification(s, u.id, r.id, public)
    \/ \E p \in DOMAIN db[s].prob : ActSubmit(s, u.id, p)

Clients(s) == EditProblem(s) \/ EditUsers(s) \/ AskAndSubmit(s)
Handler(s) == ProcessMessage(s) \/ ProcessDies(s)
Dies(s) == Crash(s) \/ Restart(s)
           \/ \E u \in {Anyone} \cup {r.id : r \in db[s].user} : GetClarificationsDies(s, u)
Faulty(s) == ProcessFaulty(s) \/ ProcessNothing(s)

Next == Tick \/ \E s \in Servers : Clients(s) \/ Handler(s) \/ Faulty(s) \/ Dies(s)

Spec == Init /\ [][Next]_vars

-----------------------------------------------------------------------------
MsgId == {<<>>} \cup (Servers \X {"prob", "user", "group", "passwd", "bonus",
                                    "request", "reply", "sub"} \X Nat)

ReplicasTypeOK ==
    /\ \A s \in Servers :
           /\ done[s] \cap failed[s] = {} /\ torn[s] \cap (done[s] \cup failed[s]) = {}
           /\ done[s] \cup failed[s] \cup torn[s] \subseteq msgs
           /\ \A p \in DOMAIN db[s].prob :
                  /\ db[s].prob[p].type \in Types
                  /\ db[s].prob[p].updated \in 0 .. MaxTime
                  /\ db[s].prob[p].attrs \in [Attrs -> MsgId]
                  /\ db[s].prob[p].data \in [FileAttrs -> MsgId]
           /\ DOMAIN told[s] \subseteq msgs
    /\ {m.id : m \in msgs} \subseteq MsgId
    /\ clock \in 1 .. MaxTime /\ faults \in Nat /\ restarts \in Nat

Stuck(s) == failed[s] \cup torn[s]
Updates(p) == {m \in msgs : m.kind = "prob" /\ m.prob = p}

\* An update at least as new as the row is still to be tried again.
Unsettled(s, p) == \E m \in Updates(p) \cap Stuck(s) : m.time >= db[s].prob[p].updated

\* ProbMessage::int_process: a server shows a problem as the newest update it
\* has processed left it, whatever order the updates came in, how often the
\* server was restarted between two statements, and whichever statement
\* failed, unless an update at least as new as the row is still to be tried
\* again.  (Files that the newest update keeps are those of property
\* FilesRecovered.)
NewestUpdateWins ==
    \A s \in Servers : \A p \in DOMAIN db[s].prob : ~Unsettled(s, p) =>
            /\ \A m \in Updates(p) \cap done[s] : m.time <= db[s].prob[p].updated
            /\ \E m \in Updates(p) \cap (done[s] \cup Stuck(s)) : WrittenBy(db[s].prob[p], m)

\* putClarificationRequest, putClarification, putSubmission: as long as no
\* statement failed, two servers that have tried every message hold the same
\* requests, clarifications and submissions, although some of these messages
\* came too early to be marked as processed.
RecordsAgree ==
    \A s, t \in Servers :
        faults = 0 /\ msgs \subseteq (done[s] \cup failed[s]) \cap (done[t] \cup failed[t]) =>
            /\ db[s].req = db[t].req /\ db[s].clar = db[t].clar /\ db[s].sub = db[t].sub

\* What clients are shown (getSubmissions, getClarifications,
\* getClarificationRequests, userList, groupList) is the same at two servers
\* that have processed every message, if no two updates of a problem were made
\* in the same second.
ViewsAgree ==
    (\A m, n \in msgs : m.kind = "prob" /\ n.kind = "prob" /\ m # n =>
                            m.prob # n.prob \/ m.time # n.time) =>
    \A s, t \in Servers : msgs \subseteq done[s] \cap done[t] =>
        /\ userList(db[s]) = userList(db[t]) /\ groupList(db[s]) = groupList(db[t])
        /\ \A u \in {Anyone} \cup {r.id : r \in db[s].user} :
               /\ getSubmissions(db[s], u) = getSubmissions(db[t], u)
               /\ getClarifications(db[s], u) = getClarifications(db[t], u)
               /\ getClarificationRequests(db[s], u) = getClarificationRequests(db[t], u)

\* Message::process marks a message only when its rows are there: a message
\* that will not be read again at a restart is in the tables, at least as a
\* newer version of the problem.  A submission can be read back with its user
\* and problem, unless a statement of a later update of the problem failed.
Stored(s, d, m) ==
    CASE m.kind = "prob" -> m.prob \in DOMAIN d.prob /\ d.prob[m.prob].updated >= m.time
      [] m.kind = "user" -> \E u \in d.user : u.id = m.row.id /\ u.name = m.row.name
      [] m.kind = "group" -> m.row \in d.group
      [] m.kind = "request" -> m.row \in d.req
      [] m.kind = "reply" -> m.row \in d.clar /\ Question(d, m.row) # {}
      [] m.kind = "sub" -> /\ m.row \in d.sub /\ m.row.prob \in DOMAIN d.prob
                           /\ Unsettled(s, m.row.prob) \/ getSubmission(d, m.row.id) # {}
      [] OTHER -> TRUE
DoneMeansStored == \A s \in Servers : \A m \in done[s] : Stored(s, db[s], m)

\* Clients of a server get the event for a request, a clarification or a new
\* submission at most once, even when the server was stopped after sending it
\* and processes the message again.
ToldOnce == \A s \in Servers : \A m \in DOMAIN told[s] : told[s][m] = 1

\* A message that is processed again, or that clashes with a row made on
\* another server, never removes or rewrites a row: users keep their name,
\* type and group; groups, requests, clarifications and submissions stay.
Identity(u) == [id |-> u.id, name |-> u.name, type |-> u.type, group |-> u.group]
RowsPermanent == [][\A s \in Servers :
    /\ {Identity(u) : u \in db[s].user} \subseteq {Identity(u) : u \in db'[s].user}
    /\ db[s].group \subseteq db'[s].group
    /\ db[s].req \subseteq db'[s].req
    /\ db[s].clar \subseteq db'[s].clar
    /\ db[s].sub \subseteq db'[s].sub]_vars

\* "fix it, then restart abacus to automatically recover" (ProbMessage::
\* int_process, when a statement has failed): once a server has processed
\* every update of a problem, a file that an update carried and that all newer
\* ones keep is in the table.
FilesRecovered ==
    \A s \in Servers : \A m \in done[s] : m.kind = "prob" /\ Updates(m.prob) \subseteq done[s] =>
        \A a \in m.carries \cap FileAttrs :
            (\A n \in Updates(m.prob) \ {m} : n.time < m.time \/ (n.time > m.time /\ a \in n.keeps)) =>
                db[s].prob[m.prob].data[a] = m.id

\* Two servers agree, in their tables and in what they show their clients,
\* although they process the messages in different orders (int_process of the
\* message classes, the joins of dbmysql.C).
ReplicasAgree == RecordsAgree /\ ViewsAgree

\* Message::process: a message takes effect before it is marked, and its event
\* is sent once, through restarts between two statements.
DoneOnce == ReplicasTypeOK /\ DoneMeansStored /\ ToldOnce
=============================================================================
