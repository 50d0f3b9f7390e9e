------------------------------ MODULE Marking ------------------------------
(***************************************************************************)
(* The life of a submission inside one server: from its SubmissionMessage  *)
(* through the marking pool to its mark in the database.                   *)
(*                                                                         *)
(* The module composes the pool (Markers) with its surroundings: the       *)
(* "mark" action, whose worker thread enters the pool several times        *)
(* (act_mark.C), the log of messages in the database and the message       *)
(* handler thread (message.C, abacusd.C), and the death of the process at  *)
(* any point, after which initialise() rebuilds queue and pool from the    *)
(* database.                                                               *)
(***************************************************************************)
EXTENDS Markers, FiniteSets

CONSTANTS
    Admins, Judges,     \* connections by the type of their user; the others
                        \* are markers
    MakeMayFail,        \* may makeMessage fail?
    MaxMessages,        \* bound on the messages in the log
    MaxCrashes          \* bound on the restarts of the server

ASSUME KindAssumption == /\ Admins \subseteq Conn /\ Judges \subseteq Conn
                         /\ Admins \cap Judges = {}
ASSUME LogAssumption == /\ MakeMayFail \in BOOLEAN
                        /\ MaxMessages \in Nat /\ MaxCrashes \in Nat

VARIABLES
    subs,       \* table Submission: the ids stored
    marks,      \* table SubmissionMark: [sub, by, result], key (sub, by)
    messages,   \* table PeerMessage, by message id
    processed,  \* the ids whose processed column is 1
    queue,      \* message_queue: the ids in it
    handler,    \* the message handler thread: [step, id]
    act,        \* the worker handling a connection's mark request
    unstored,   \* history: submissions the pool has let go of for a mark that
                \* makeMessage then failed to store
    crashes     \* number of restarts so far

storeVars == <<subs, marks, messages, processed, queue, handler>>
sysVars == <<vars, storeVars, act, unstored, crashes>>

Verdict == {"final", "defer"}           \* defer: RunResult JUDGE
NoVerdict == "none"                     \* the "result" attribute is no number
SubmissionMessage == [kind : {"submission"}, sub : Sub]
MarkMessage == [kind : {"mark"}, sub : Sub, by : Conn, result : Verdict]
Mark == [sub : Sub, by : Conn, result : Verdict]

Idle == [step |-> "idle", sub |-> NoSub, result |-> NoVerdict, id |-> 0]
Resting == [step |-> "idle", id |-> 0]

SysTypeOK ==
    /\ TypeOK
    /\ subs \in SUBSET Sub
    /\ marks \in SUBSET Mark
    /\ messages \in Seq(SubmissionMessage \cup MarkMessage)
    /\ processed \in SUBSET DOMAIN messages
    /\ queue \in Seq(DOMAIN messages)
    /\ handler \in [step : {"idle", "stored", "done"}, id : Nat]
    /\ act \in [Conn -> [step : {"idle", "legal", "notified", "waiting"},
                         sub : Sub \cup {NoSub}, result : Verdict \cup {NoVerdict},
                         id : Nat]]
    /\ unstored \in SUBSET Sub
    /\ crashes \in Nat

SysInit ==
    /\ Init
    /\ subs = {} /\ marks = {}
    /\ messages = <<>> /\ processed = {} /\ queue = <<>>
    /\ handler = Resting
    /\ act = [c \in Conn |-> Idle]
    /\ unstored = {} /\ crashes = 0

Marked(s) == \E m \in marks : m.sub = s

-----------------------------------------------------------------------------
(* The database.                                                           *)

\* getSubmissionState: the rows of s whose author's type is smallest
\* (administrator, judge, marker); the query takes one of them
SubmissionState(s) ==
    LET rows == {m \in marks : m.sub = s}
        of(K) == {m \in rows : m.by \in K}
    IN  IF of(Admins) # {} THEN of(Admins)
        ELSE IF of(Judges) # {} THEN of(Judges) ELSE rows

\* putMark: insert, or update the row with the same key
PutMark(m) ==
    {n \in marks : ~(n.sub = m.sub /\ n.by = m.by)}
        \cup {[sub |-> m.sub, by |-> m.by, result |-> m.result]}

\* getUnmarked
Unmarked == {s \in subs : ~Marked(s)}

\* Mutant: the query asks for one type of message only
UnprocessedMarksOnly == {i \in DOMAIN messages \ processed : messages[i].kind = "mark"}

\* getUnprocessedMessages
Unprocessed == DOMAIN messages \ processed

-----------------------------------------------------------------------------
(* Connections.  One worker at a time owns a connection, so it is          *)
(* destroyed, subscribes or logs in again only when no request is being    *)
(* handled for it.                                                         *)

IsIdle(c) == c \in live /\ act[c].step = "idle"

Open(c) == Connect(c) /\ UNCHANGED <<storeVars, act, unstored, crashes>>

Close(c) == IsIdle(c) /\ Disconnect(c) /\ UNCHANGED <<storeVars, act, unstored, crashes>>

\* subscribemark needs PERMISSION_MARK, which judges do not have
SubscribeMark(c) ==
    /\ IsIdle(c) /\ c \notin Judges
    /\ Subscribe(c)
    /\ UNCHANGED <<storeVars, act, unstored, crashes>>

\* a second login on the connection, or a mark without a submission id
Relogin(c) == IsIdle(c) /\ GiveUp(c) /\ UNCHANGED <<storeVars, act, unstored, crashes>>

\* the checks of ActPlaceMark.  A request that fails them changes nothing.
Legal(c, s) ==
    \/ c \in Admins
    \/ c \notin Admins \cup Judges /\ HasIssued(c, s)
    \/ /\ c \in Judges
       /\ \E m \in SubmissionState(s) :
             m.by \notin Admins \cup Judges /\ m.result = "defer"

Room ==
    Len(messages) + Cardinality({c \in Conn : act[c].step \in {"legal", "notified"}})
        < MaxMessages

PlaceMark(c, s, r) ==
    /\ IsIdle(c) /\ Room
    /\ Legal(c, s)
    /\ act' = [act EXCEPT ![c] = [Idle EXCEPT !.step = "legal", !.sub = s, !.result = r]]
    /\ UNCHANGED <<vars, storeVars, unstored, crashes>>

\* the result attribute is no number: give the job back, reply with an error
RejectMark(c) ==
    /\ act[c].step = "legal" /\ act[c].result = NoVerdict
    /\ PreemptMarker(c)
    /\ act' = [act EXCEPT ![c] = Idle]
    /\ UNCHANGED <<live, storeVars, unstored, crashes>>

Notify(c) ==
    /\ act[c].step = "legal" /\ act[c].result # NoVerdict
    /\ NotifyMarked(c, act[c].sub)
    /\ act' = [act EXCEPT ![c].step = "notified"]
    /\ UNCHANGED <<live, storeVars, unstored, crashes>>

\* triggerMessage: makeMessage stores the message under the next id; then it
\* is enqueued and the worker waits for the handler.  When makeMessage fails
\* the worker replies with an error.
Trigger(c) ==
    /\ act[c].step = "notified"
    /\ \/ /\ messages' = Append(messages, [kind |-> "mark", sub |-> act[c].sub,
                                           by |-> c, result |-> act[c].result])
          /\ queue' = Append(queue, Len(messages) + 1)
          /\ act' = [act EXCEPT ![c].step = "waiting", ![c].id = Len(messages) + 1]
          /\ UNCHANGED unstored
       \/ /\ MakeMayFail
          /\ act' = [act EXCEPT ![c] = Idle]
          /\ unstored' = unstored \cup ({act[c].sub} \ Held(pool))
          /\ UNCHANGED <<messages, queue>>
    /\ UNCHANGED <<vars, subs, marks, processed, handler, crashes>>

\* ActSubmit, once its checks have passed: a fresh id, and the message
SubmitSolution(s) ==
    /\ Room
    /\ \A i \in DOMAIN messages : messages[i].kind = "submission" => messages[i].sub # s
    /\ messages' = Append(messages, [kind |-> "submission", sub |-> s])
    /\ queue' = Append(queue, Len(messages) + 1)
    /\ UNCHANGED <<vars, subs, marks, processed, handler, act, unstored, crashes>>

-----------------------------------------------------------------------------
(* The message handler thread.                                             *)

Body == messages[handler.id]

\* Mutant: one semaphore for all workers
ReleaseAll(i) ==
    [c \in Conn |-> IF act[c].step = "waiting" THEN Idle ELSE act[c]]

\* sem_post: the worker that waits for message i goes on and replies.  A
\* message read from the log at a restart has no watcher.
Release(i) == [c \in Conn |-> IF act[c].id = i THEN Idle ELSE act[c]]

\* Mutant: a Submission row with the same id is replaced
HandlerTakeReplaces ==
    /\ handler.step = "idle" /\ queue # <<>>
    /\ queue' = Tail(queue)
    /\ LET i == Head(queue)
           m == messages[i]
       IN  \/ /\ m.kind = "submission"
              /\ subs' = subs \cup {m.sub}
              /\ handler' = [step |-> "stored", id |-> i]
              /\ UNCHANGED <<marks, act>>
           \/ /\ m.kind = "mark"
              /\ marks' = PutMark(m)
              /\ handler' = [step |-> "done", id |-> i]
              /\ UNCHANGED <<subs, act>>
    /\ UNCHANGED <<vars, messages, processed, unstored, crashes>>

\* dequeue, and the first database access of int_process.  A Submission row
\* with the same id makes putSubmission fail; then the message stays
\* unprocessed and the watcher is released all the same.
HandlerTake ==
    /\ handler.step = "idle" /\ queue # <<>>
    /\ queue' = Tail(queue)
    /\ LET i == Head(queue)
           m == messages[i]
       IN  \/ /\ m.kind = "submission" /\ m.sub \notin subs
              /\ subs' = subs \cup {m.sub}
              /\ handler' = [step |-> "stored", id |-> i]
              /\ UNCHANGED <<marks, act>>
           \/ /\ m.kind = "submission" /\ m.sub \in subs
              /\ act' = Release(i)
              /\ UNCHANGED <<subs, marks, handler>>
           \/ /\ m.kind = "mark"
              /\ marks' = PutMark(m)
              /\ handler' = [step |-> "done", id |-> i]
              /\ UNCHANGED <<subs, act>>
    /\ UNCHANGED <<vars, messages, processed, unstored, crashes>>

\* the rest of SubmissionMessage::int_process on a server that marks
HandlerEnqueue ==
    /\ handler.step = "stored"
    /\ EnqueueSubmission(Body.sub)
    /\ handler' = [handler EXCEPT !.step = "done"]
    /\ UNCHANGED <<live, subs, marks, messages, processed, queue, act, unstored, crashes>>

\* markProcessed and sem_post
HandlerFinish ==
    /\ handler.step = "done"
    /\ processed' = processed \cup {handler.id}
    /\ act' = Release(handler.id)
    /\ handler' = Resting
    /\ UNCHANGED <<vars, subs, marks, messages, queue, unstored, crashes>>

-----------------------------------------------------------------------------
(* The process dies and is started again.  initialise() reads the          *)
(* unprocessed messages and the unmarked submissions, both ordered by a    *)
(* time in whole seconds: what falls into one second may come in any       *)
(* order, and here everything does.                                        *)

\* the rows of a table as a list, in any order
Listings(rows) == Bijection(1 .. Cardinality(rows), rows)

\* Mutant: the pool starts empty
RestartEmptyPool ==
    /\ crashes < MaxCrashes
    /\ crashes' = crashes + 1
    /\ pool' = [markers |-> <<>>, problems |-> <<>>,
                issued |-> [c \in Conn |-> NoSub], issue_times |-> {},
                issued_at |-> [c \in Conn |-> 0]]
    /\ queue' \in Listings(Unprocessed)
    /\ enqueued' = {} /\ dismissed' = {}
    /\ live' = {} /\ checking' = FALSE
    /\ handler' = Resting /\ act' = [c \in Conn |-> Idle] /\ unstored' = {}
    /\ UNCHANGED <<now, subs, marks, messages, processed>>

Restart ==
    /\ crashes < MaxCrashes
    /\ crashes' = crashes + 1
    /\ \E p \in Listings(Unmarked) :
          pool' = [markers |-> <<>>, problems |-> p,
                   issued |-> [c \in Conn |-> NoSub], issue_times |-> {},
                   issued_at |-> [c \in Conn |-> 0]]
    /\ queue' \in Listings(Unprocessed)
    /\ enqueued' = Unmarked /\ dismissed' = {}
    /\ live' = {} /\ checking' = FALSE
    /\ handler' = Resting /\ act' = [c \in Conn |-> Idle] /\ unstored' = {}
    /\ UNCHANGED <<now, subs, marks, messages, processed>>

-----------------------------------------------------------------------------
PoolThread == TimeoutThread /\ UNCHANGED <<storeVars, act, unstored, crashes>>
Clock == Tick /\ UNCHANGED <<live, storeVars, act, unstored, crashes>>
Handler == HandlerTake \/ HandlerEnqueue \/ HandlerFinish
Worker(c) == RejectMark(c) \/ Notify(c) \/ Trigger(c)

SysNext ==
    \/ \E c \in Conn : Open(c) \/ Close(c) \/ SubscribeMark(c) \/ Relogin(c) \/ Worker(c)
    \/ \E c \in Conn, s \in Sub, r \in Verdict \cup {NoVerdict} : PlaceMark(c, s, r)
    \/ \E s \in Sub : SubmitSolution(s)
    \/ Handler
    \/ PoolThread
    \/ Clock
    \/ Restart

SysSpec == SysInit /\ [][SysNext]_sysVars

(* Fairness.  The threads of the server run, the clock advances.  The      *)
(* timeout thread sleeps a second between its checks, so a thread that     *)
(* waits for the pool's mutex gets it (strong fairness).  A marker         *)
(* connects and subscribes again whenever it can, and of the jobs a        *)
(* submission is issued for, not every one is abandoned or answered with a *)
(* malformed request.                                                      *)
SysFairness ==
    /\ SF_sysVars(Handler) /\ WF_sysVars(PoolThread) /\ WF_sysVars(Clock)
    /\ \A c \in Conn : SF_sysVars(Worker(c))
    /\ \A c \in Conn : WF_sysVars(Open(c)) /\ SF_sysVars(SubscribeMark(c))
    /\ \A s \in Sub :
          SF_sysVars(\E c \in Conn, r \in Verdict : pool.issued[c] = s /\ PlaceMark(c, s, r))

SysFairSpec == SysSpec /\ SysFairness

-----------------------------------------------------------------------------
(* Properties.                                                             *)

\* a mark for s is on its way: its message is in the log, or the worker that
\* has told the pool is about to put it there
MarkUnderWay(s) ==
    \/ \E i \in Unprocessed : messages[i].kind = "mark" /\ messages[i].sub = s
    \/ \E c \in Conn : act[c].step = "notified" /\ act[c].sub = s

(* "chuck the submission_id - it has now been marked" (markers.C:182): the *)
(* server never forgets a submission.  Whatever the interleaving of mark   *)
(* requests, timeouts, disconnections and restarts, a stored submission    *)
(* without a mark is in the pool (or the handler is about to put it        *)
(* there), or its mark is on its way.  The exception is a submission whose *)
(* mark makeMessage could not store after the pool had let go of it: it    *)
(* comes back with the next restart.                                       *)
NoSubmissionForgotten ==
    \A s \in Unmarked \ unstored :
        \/ s \in Held(pool)
        \/ handler.step = "stored" /\ Body.sub = s
        \/ MarkUnderWay(s)

(* The pool agrees with itself and with the connections across restarts    *)
(* too, and every submission has one place in it: the SubmissionMessage    *)
(* that was interrupted between putSubmission and markProcessed is         *)
(* processed again, while getUnmarked has put its submission into the pool *)
(* already.                                                                *)
SysConsistent == SysTypeOK /\ PoolConsistent

(* Between hasIssued and notifyMarked the job may time out, but a marker   *)
(* never gets another one in between: its notifyMarked never takes the     *)
(* "instead of" branch, which would re-enqueue a job it has just received. *)
MarkerNotifiesItsJob ==
    [][\A c \in Conn \ (Admins \cup Judges) :
          act[c].step = "legal" /\ act'[c].step = "notified"
          => pool.issued[c] \in {NoSub, act[c].sub}]_sysVars

(* "This is used to delay sending a response to the client until the       *)
(* message has been processed" (developer-core.xml, message handler): when *)
(* the worker stops waiting, and the server has not died, its mark is in   *)
(* the database.                                                           *)
ReplyAfterEffect ==
    [][\A c \in Conn :
          act[c].step = "waiting" /\ act'[c].step = "idle" /\ crashes' = crashes
          => [sub |-> act[c].sub, by |-> c, result |-> act[c].result] \in marks']_sysVars

(* Under SysFairSpec every submission whose message was logged is marked   *)
(* in the end, through lost markers, timeouts and restarts.                *)
EverySubmissionMarked ==
    \A s \in Sub :
        (\E i \in DOMAIN messages : messages[i].kind = "submission" /\ messages[i].sub = s)
        ~> Marked(s)
=============================================================================
