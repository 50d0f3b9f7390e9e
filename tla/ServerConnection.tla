-------------------------- MODULE ServerConnection --------------------------
(***************************************************************************)
(* The client library (src/src/serverconnection.C over                     *)
(* src/src/threadssl.C).  A program that uses it has three threads per     *)
(* connection: its own thread, which sends a request and sleeps until the  *)
(* answer is in the one-entry slot _response; the receiver, which reads    *)
(* blocks, fills the slot and makes the event callbacks; and the keepalive *)
(* thread, which severs a connection on which nothing was heard for        *)
(* KEEPALIVE_TIMEOUT.  What the program itself does is in the modules      *)
(* Markerd and Abacustool; the server is external.                         *)
(***************************************************************************)
EXTENDS Integers, Sequences, FiniteSets

VARIABLES
    ssl,       \* _ssl: "none", "open", or "shut" once _shutting_down is set
    link,      \* the TCP connection: "up", "closed" by the server, "broken"
    up, down,  \* blocks under way to the server and to the client
    response,  \* _response, the slot for the answer
    call,      \* the program's thread inside sendMB, and what it returned
    rcv,       \* the receiver thread and the event it makes callbacks for
    ka, kill,  \* the keepalive thread and _kill_keepalive_thread
    eventmap   \* _eventmap: the events that have a callback

connVars == <<ssl, link, up, down, response, call, rcv, ka, kill, eventmap>>

Block(action, req, data) == [action |-> action, req |-> req, data |-> data]
NoData == {}
NoReq == "norequest"   \* an event answers no request
NoBlock == Block("none", NoReq, NoData)
Terminated == Block("err", "terminated", NoData)
Idle == [at |-> "idle", req |-> NoReq, res |-> NoBlock]
Thread(at, ev) == [at |-> at, ev |-> ev]
NoThread == Thread("none", NoBlock)

ConnInit ==
    /\ ssl = "none" /\ link = "closed"
    /\ up = <<>> /\ down = <<>>
    /\ response = NoBlock /\ call = Idle
    /\ rcv = NoThread /\ ka = "none" /\ kill = FALSE
    /\ eventmap = {}

-----------------------------------------------------------------------------
(* connect() on a fresh ServerConnection.  Every failure, that of creating *)
(* either thread included, undoes what was done and returns false.         *)
connect ==
    /\ ssl = "none"
    /\ ssl' = "open" /\ link' = "up" /\ up' = <<>> /\ down' = <<>>
    /\ response' = NoBlock /\ call' = Idle
    /\ rcv' = Thread("read", NoBlock) /\ ka' = "wait" /\ kill' = FALSE
    /\ eventmap' = {}

(* sendMB: empty the slot, ...                                             *)
sendMB(req) ==
    /\ call.at = "idle" /\ ssl # "none"
    /\ response' = NoBlock
    /\ call' = [at |-> "write", req |-> req, res |-> NoBlock]
    /\ UNCHANGED <<ssl, link, up, down, rcv, ka, kill, eventmap>>

(* ... write the block with the receiver running: ThreadSSL::write refuses *)
(* once a shutdown has started, SSL_write may fail on a dead link and may  *)
(* as well leave the block in the kernel's buffer, ...                     *)
WriteFails ==
    /\ call.at = "write" /\ (ssl = "shut" \/ link # "up")
    /\ call' = [call EXCEPT !.at = "done"]
    /\ UNCHANGED <<ssl, link, up, down, response, rcv, ka, kill, eventmap>>

writeToSSL ==
    /\ call.at = "write" /\ ssl = "open"
    /\ up' = IF link = "up" THEN Append(up, call.req) ELSE up
    /\ call' = [call EXCEPT !.at = "await"]
    /\ UNCHANGED <<ssl, link, down, response, rcv, ka, kill, eventmap>>

\* Mutant: the caller does not wait for its own answer
TakeResponseImpatient ==
    /\ call.at = "await"
    /\ call' = [call EXCEPT !.at = "done", !.res = response]
    /\ response' = NoBlock
    /\ UNCHANGED <<ssl, link, up, down, rcv, ka, kill, eventmap>>

(* ... and sleep until there is an answer.  After a failed write the       *)
(* result is NULL, here the empty block.                                   *)
TakeResponse ==
    /\ call.at = "await" /\ response # NoBlock
    /\ call' = [call EXCEPT !.at = "done", !.res = response]
    /\ response' = NoBlock
    /\ UNCHANGED <<ssl, link, up, down, rcv, ka, kill, eventmap>>

Returned(req) == call.at = "done" /\ call.req = req

(* registerEventCallback waits for the lock the receiver holds while it    *)
(* makes callbacks.                                                        *)
registerEventCallback(ev) ==
    /\ rcv.at # "callback"
    /\ eventmap' = eventmap \union {ev}
    /\ UNCHANGED <<ssl, link, up, down, response, call, rcv, ka, kill>>

-----------------------------------------------------------------------------
(* ThreadSSL::startShutdown: from now on every read and write is refused,  *)
(* and a thread that polls is woken.                                       *)
sslShutdown == ssl' = "shut"

\* Mutant: a sleeping caller is not woken
startShutdownSilent == sslShutdown /\ UNCHANGED response

(* startShutdown wakes a sleeping caller with an error and shuts the       *)
(* ThreadSSL, both under _lock_response.                                  *)
startShutdown ==
    /\ response' = IF response = NoBlock THEN Terminated ELSE response
    /\ sslShutdown

(* processMB for a block that was read: an answer goes into the slot, or   *)
(* is lost when the slot is full; an event goes to its callbacks, made     *)
(* under _lock_eventmap.  A keepalive restarts the timed wait.             *)
processMB(b) ==
    IF b.action \in {"ok", "err"}
    THEN /\ response' = IF response = NoBlock THEN b ELSE response
         /\ UNCHANGED <<rcv, ssl>>
    ELSE /\ rcv' = IF b.action \in eventmap THEN Thread("callback", b) ELSE rcv
         /\ UNCHANGED <<response, ssl>>

receive_thread ==
    /\ rcv.at = "read" /\ ssl = "open" /\ down # <<>>
    /\ processMB(Head(down))
    /\ down' = Tail(down)
    /\ UNCHANGED <<link, up, call, ka, kill, eventmap>>

(* The read returns SSL_ERROR_ZERO_RETURN: a shutdown was started here, or *)
(* the server closed and everything it sent was read.  On a broken link    *)
(* the read fails with another error and is tried again, for ever.  The    *)
(* receiver processes a "close" block of its own making: startShutdown,    *)
(* then the callbacks.                                                     *)
ReceiverEnds ==
    /\ rcv.at = "read"
    /\ ssl = "shut" \/ (link = "closed" /\ down = <<>>)
    /\ startShutdown
    /\ rcv' = Thread("closing", NoBlock)
    /\ UNCHANGED <<link, up, down, call, ka, kill, eventmap>>

ReceiverTells ==
    /\ rcv.at = "closing"
    /\ rcv' = IF "close" \in eventmap THEN Thread("callback", Block("close", NoReq, NoData))
              ELSE Thread("ended", NoBlock)
    /\ UNCHANGED <<ssl, link, up, down, response, call, ka, kill, eventmap>>

(* A callback returns and the lock is released.  What it did is up to the  *)
(* program.                                                                *)
CallbackReturns ==
    /\ rcv.at = "callback"
    /\ rcv' = Thread(IF rcv.ev.action = "close" THEN "ended" ELSE "read", NoBlock)
    /\ UNCHANGED <<ssl, link, up, down, response, call, ka, kill, eventmap>>

-----------------------------------------------------------------------------
(* keepalive_thread: the timed wait ends by a kill or by the timeout; in   *)
(* the second case the lock is given up before the shutdown.               *)
KeepaliveTimesOut ==
    /\ ka = "wait" /\ ~kill
    /\ kill' = TRUE /\ ka' = "late"
    /\ UNCHANGED <<ssl, link, up, down, response, call, rcv, eventmap>>

KeepaliveSevers ==
    /\ ka = "late" /\ ssl # "none"
    /\ startShutdown
    /\ ka' = "ended"
    /\ UNCHANGED <<link, up, down, call, rcv, kill, eventmap>>

KeepaliveKilled ==
    /\ ka = "wait" /\ kill
    /\ ka' = "ended"
    /\ UNCHANGED <<ssl, link, up, down, response, call, rcv, kill, eventmap>>

(* disconnect: shut the ThreadSSL, join the receiver, kill and join the    *)
(* keepalive thread, delete the ThreadSSL.                                 *)
disconnect ==
    /\ ssl # "none" /\ sslShutdown
    /\ UNCHANGED <<link, up, down, response, call, rcv, ka, kill, eventmap>>

JoinReceiver ==
    /\ rcv.at = "ended" /\ kill' = TRUE
    /\ UNCHANGED <<ssl, link, up, down, response, call, rcv, ka, eventmap>>

JoinKeepalive ==
    /\ ka = "ended"
    /\ ssl' = "none" /\ link' = "closed" /\ up' = <<>> /\ down' = <<>>
    /\ UNCHANGED <<response, call, rcv, ka, kill, eventmap>>

(* The steps of the three threads inside the library.                      *)
CallerSteps == WriteFails \/ writeToSSL \/ TakeResponse
ReceiverSteps == receive_thread \/ ReceiverEnds \/ ReceiverTells
KeepaliveSteps == KeepaliveSevers \/ KeepaliveKilled
Library == CallerSteps \/ ReceiverSteps \/ KeepaliveSteps \/ KeepaliveTimesOut

(* Nothing restarts the timed wait any more, so that it must end.          *)
NothingHeard == KeepaliveTimesOut /\ (link # "up" \/ rcv.at = "callback")

-----------------------------------------------------------------------------
(* The server and the network, as the client meets them.  Answers come in  *)
(* the order of the requests.                                              *)
ServerAnswers(action, data) ==
    /\ link = "up" /\ up # <<>>
    /\ up' = Tail(up)
    /\ down' = Append(down, Block(action, Head(up), data))
    /\ UNCHANGED <<ssl, link, response, call, rcv, ka, kill, eventmap>>

ServerSends(event, data) ==
    /\ link = "up"
    /\ down' = Append(down, Block(event, NoReq, data))
    /\ UNCHANGED <<ssl, link, up, response, call, rcv, ka, kill, eventmap>>

ServerCloses ==
    /\ link = "up" /\ link' = "closed" /\ up' = <<>>
    /\ UNCHANGED <<ssl, down, response, call, rcv, ka, kill, eventmap>>

LinkBreaks ==
    /\ link = "up" /\ link' = "broken" /\ up' = <<>> /\ down' = <<>>
    /\ UNCHANGED <<ssl, response, call, rcv, ka, kill, eventmap>>

-----------------------------------------------------------------------------
(* How the calls of the library turn the answer into what they return.     *)
(* NULL, the empty block here, is the answer that never came.              *)
simpleAction(res) == res.action = "ok"

(* auth, createuser, creategroup, changePassword.                          *)
accountCall(res) == simpleAction(res)

(* getBonus returns the literal "" when there is no answer, which as a     *)
(* bool is true.                                                           *)
getBonus(res) == res.action \in {"ok", "none"}

(* setBonus, startStop.                                                    *)
contestCall(res) == simpleAction(res)

(* stringAction: a description, or nothing.                                *)
getProblemDescription(res) == simpleAction(res)
setProblemAttributes(res) == simpleAction(res)
getProblemAttributes(res) == simpleAction(res)

(* getProblemFile, getSubmissionSource: the content of the block.          *)
contentCall(res) == simpleAction(res)
submit(res) == simpleAction(res)
becomeMarker(res) == simpleAction(res)
mark(res) == simpleAction(res)

(* Lists come as numbered attributes.  The server numbers them from 0.     *)
numbered(list) == [i \in 0 .. Len(list) - 1 |-> list[i + 1]]

(* The entries numbered first, first + 1, ... up to the first gap.         *)
entriesFrom(attrs, first) ==
    {attrs[i] : i \in {j \in DOMAIN attrs : j >= first /\ first .. j \subseteq DOMAIN attrs}}

(* The loops of getProblems, getUsers and getGroups.                       *)
indexedList(res) == IF res.action = "ok" THEN entriesFrom(res.data, 0) ELSE {}

vectorFromMB(res) == IF res.action = "ok" THEN entriesFrom(res.data, 0) ELSE {}

(* multiListFromMB increments its counter before it uses it.               *)
multiListFromMB(res) == IF res.action = "ok" THEN entriesFrom(res.data, 1) ELSE {}

getSubmissionsForUser(res) == multiListFromMB(res)

-----------------------------------------------------------------------------
ConnTypeOK ==
    /\ ssl \in {"none", "open", "shut"}
    /\ link \in {"up", "closed", "broken"}
    /\ call.at \in {"idle", "write", "await", "done"}
    /\ response.action \in {"none", "ok", "err"}
    /\ rcv.at \in {"none", "read", "closing", "callback", "ended"}
    /\ ka \in {"none", "wait", "late", "ended"}
    /\ kill \in BOOLEAN

(* The ThreadSSL is deleted only when no other thread of the connection    *)
(* can touch it (disconnect joins both threads before delete _ssl).        *)
ThreadsJoined == ssl = "none" => rcv.at \in {"none", "ended"} /\ ka \in {"none", "ended"}

(* The slot has no request number.  Still the answer a call returns is the *)
(* answer to its own request, or the error startShutdown made up: no       *)
(* answer of an earlier call or an earlier connection is ever taken.       *)
AnswerIsMine == call.at = "done" => call.res.req \in {call.req, "terminated", NoReq}

(* Nobody sleeps in sendMB for ever: the server answers, or the receiver   *)
(* or the keepalive thread sees that it will not.                          *)
CallsEnd == (call.at \in {"write", "await"}) ~> (call.at \notin {"write", "await"})
=============================================================================
