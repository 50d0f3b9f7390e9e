------------------------------ MODULE Markerd ------------------------------
(***************************************************************************)
(* The marker process (src/src/markerd.C) on the client library: connect,  *)
(* log in, register the callbacks, become a marker, then mark what the     *)
(* server sends until something fails, disconnect, forget all work of      *)
(* that connection, sleep, start again.                                    *)
(***************************************************************************)
EXTENDS ServerConnection, Functions

VARIABLES
    main,      \* where main() is
    queue,     \* _mark_requests
    mr,        \* the request being marked
    conn       \* how many connections were made, to tell their jobs apart

markerdVars == <<main, queue, mr, conn>>

Null == [conn |-> 0, job |-> "null"]

MarkerdInit == ConnInit /\ main = "retry" /\ queue = <<>> /\ mr = Null /\ conn = 0

Goto(label) == main' = label /\ UNCHANGED <<queue, mr, conn>>

-----------------------------------------------------------------------------
(* The two callbacks, mark_request and server_close, run in the receiver.  *)
mark_request ==
    /\ rcv.ev.action = "mark"
    /\ queue' = Append(queue, rcv.ev.data)

\* Mutant: the loss of the connection is not queued
server_closeIgnored == rcv.ev.action = "close" /\ UNCHANGED queue

server_close ==
    /\ rcv.ev.action = "close"
    /\ queue' = Append(queue, Null)

MarkerdCallback ==
    /\ CallbackReturns
    /\ mark_request \/ server_close
    /\ UNCHANGED <<main, mr, conn>>

-----------------------------------------------------------------------------
Retry ==
    /\ main = "retry"
    /\ connect
    /\ conn' = conn + 1 /\ main' = "auth"
    /\ UNCHANGED <<queue, mr>>

(* A request made at one label: sent, then, once it has returned, success  *)
(* leads to one label and failure to another.                              *)
Ask(label, req) ==
    /\ main = label /\ sendMB(req)
    /\ UNCHANGED markerdVars

Answered(label, req, ok, yes, no) ==
    /\ main = label /\ Returned(req)
    /\ call' = Idle
    /\ UNCHANGED <<ssl, link, up, down, response, rcv, ka, kill, eventmap>>
    /\ Goto(IF ok THEN yes ELSE no)

RegisterMark == main = "register" /\ registerEventCallback("mark") /\ Goto("register2")
RegisterClose == main = "register2" /\ registerEventCallback("close") /\ Goto("become")

(* The queue's dequeue waits for an entry.  NULL means the server closed.  *)
Dequeue ==
    /\ main = "loop" /\ queue # <<>>
    /\ queue' = Tail(queue) /\ mr' = Head(queue)
    /\ main' = IF Head(queue) = Null THEN "disconnect" ELSE "attrs"
    /\ UNCHANGED conn /\ UNCHANGED connVars

(* createMarker knows no marker for the problem's type.                    *)
NoMarker == main = "mark" /\ Goto("disconnect") /\ UNCHANGED connVars

(* marker->mark(), then submitResult.                                      *)
Mark == main = "mark" /\ Goto("submit") /\ UNCHANGED connVars

Disconnect == main = "disconnect" /\ disconnect /\ Goto("joinReceiver")
Joined1 == main = "joinReceiver" /\ JoinReceiver /\ Goto("joinKeepalive")
Joined2 == main = "joinKeepalive" /\ JoinKeepalive /\ Goto("forget")

\* Mutant: jobs of the lost connection stay in the queue
ForgetClosesOnly ==
    /\ main = "forget"
    /\ queue' = SelectSeq(queue, LAMBDA e : e # Null) /\ mr' = Null /\ main' = "retry"
    /\ UNCHANGED conn /\ UNCHANGED connVars

(* What is left in the queue belongs to the connection that is gone.       *)
Forget ==
    /\ main = "forget"
    /\ queue' = <<>> /\ mr' = Null /\ main' = "retry"
    /\ UNCHANGED conn /\ UNCHANGED connVars

MarkerdMain ==
    \/ Retry
    \/ Ask("auth", "auth")
    \/ Answered("auth", "auth", accountCall(call.res), "register", "disconnect")
    \/ RegisterMark \/ RegisterClose
    \/ Ask("become", "become")
    \/ Answered("become", "become", becomeMarker(call.res), "loop", "disconnect")
    \/ Dequeue
    \/ Ask("attrs", "getprobattrs")
    \/ Answered("attrs", "getprobattrs", getProblemAttributes(call.res), "mark", "disconnect")
    \/ NoMarker \/ Mark
    \/ Ask("submit", "mark")
    \/ Answered("submit", "mark", mark(call.res), "loop", "disconnect")
    \/ Disconnect \/ Joined1 \/ Joined2 \/ Forget

(* The server hands jobs out to a connection that asked to be a marker,    *)
(* here marked with the connection's number.                               *)
ServerMarks(job) ==
    /\ main \notin {"auth", "register", "register2"}
    /\ ServerSends("mark", [conn |-> conn, job |-> job])
    /\ UNCHANGED markerdVars

Server(jobs) ==
    \/ \E job \in jobs : ServerMarks(job)
    \/ /\ \/ \E a \in {"ok", "err"} : ServerAnswers(a, NoData)
          \/ ServerCloses \/ LinkBreaks
       /\ UNCHANGED markerdVars

MarkerdNext(jobs) ==
    \/ MarkerdMain \/ MarkerdCallback
    \/ Library /\ UNCHANGED markerdVars
    \/ Server(jobs)

-----------------------------------------------------------------------------
MarkerdTypeOK ==
    /\ ConnTypeOK
    /\ main \in {"retry", "auth", "register", "register2", "become", "loop", "attrs", "mark",
                 "submit", "disconnect", "joinReceiver", "joinKeepalive", "forget"}
    /\ conn \in Nat

(* The marker works, and uploads marks, only for jobs that came over the   *)
(* connection it has now; the server has given the others away already.    *)
NoStaleWork == main \in {"attrs", "mark", "submit"} => mr.conn = conn

(* A NULL in the queue speaks of the present connection: markerd never     *)
(* drops a live connection because an earlier one had closed.              *)
NoStaleClose == Null \in Range(queue) => ssl = "shut" \/ main = "forget"

(* A connection that was lost is noticed wherever main() is, and given up  *)
(* for a new one.                                                          *)
LossNoticed == (ssl # "none" /\ link # "up") ~> (main = "retry")
=============================================================================
