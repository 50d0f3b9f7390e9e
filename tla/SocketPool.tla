----------------------------- MODULE SocketPool -----------------------------
(* The client side of abacusd: the selector thread of the WaitableSet, its   *)
(* pool of worker threads, the connections they serve with their output      *)
(* queues and notification pipes, the message handler and the timer as       *)
(* senders of events, and the shutdown in main.                              *)
(*                                                                           *)
(* A worker is anonymous: idle counts the workers in _idle_workers, and      *)
(* jobs[w] lists the workers that hold waitable w, oldest first.  A job's    *)
(* field "at" is the next thing the worker does.  Threads interleave between *)
(* these steps; calls that touch what no other thread looks at meanwhile are *)
(* one step with the call before them.                                       *)
EXTENDS ClientEvents, FiniteSetsExt, Sequences

CONSTANTS
    Listener,       \* the ClientListener, the waitable that accepts
    CfgInit, CfgMax, CfgMaxIdle, CfgMinIdle,    \* section [workers]
    Room            \* messages the kernel takes for a client that reads none

VARIABLES
    events,     \* Waitable::_events
    members,    \* WaitableSet::_waitables
    life,       \* "none", "connecting" (in the backlog), "open", "deleted"
    jobs,       \* the workers at work on each waitable
    idle,       \* the length of _idle_workers
    total,      \* _total_workers
    sel,        \* the selector thread: where it is, its pollfds and their activity
    wake,       \* whether the wake-up pipe of the set holds a byte
    stop,       \* WaitableSet::_shutdown
    conn,       \* the streams and buffers of each connection
    mq,         \* message_queue: the connections whose worker waits, then NULL
    handler,    \* "ready" or "stopped": the message_handler thread
    bc,         \* the sender of an event, holder of the registry's lock
    main,       \* main: "run", "shut", "queued", "done"
    crossed     \* history: a waitable was deleted with another worker on it

setVars == <<members, life, stop>>
workerVars == <<jobs, idle, total>>
senderVars == <<mq, handler, bc, main>>
vars == <<events, setVars, workerVars, sel, wake, conn, senderVars, crossed, sessionVars>>

Waitables == Conns \cup {Listener}
PollEvent == {"in", "out", "note"}
NULL == "NULL"

\* The names are different things, and no size in the configuration is negative
ASSUME PoolAssumption ==
    /\ IsFiniteSet(Conns) /\ Listener \notin Conns /\ NULL \notin Conns \cup {Listener}
    /\ {CfgInit, CfgMax, CfgMaxIdle, CfgMinIdle, Room} \subseteq Nat

At == {"process", "auth", "wait", "reply", "write", "finish", "delete"}

\* A hello completes the SSL handshake; a login as Nobody has a wrong password;
\* a post is any request that makes a message and waits until it is processed
Request == [kind : {"hello", "post"}, arg : {Nobody}]
           \cup [kind : {"auth"}, arg : Users \cup {Nobody}]
           \cup [kind : {"sub", "unsub"}, arg : Event]

-----------------------------------------------------------------------------
\* ThreadedWaitableSet::configure
MinIdle == IF CfgMinIdle = 0 THEN 1 ELSE CfgMinIdle
MaxIdle == IF CfgMaxIdle <= MinIdle THEN MinIdle + 1 ELSE CfgMaxIdle
InitWorkers == IF CfgInit <= MinIdle \/ CfgInit > MaxIdle
               THEN (MinIdle + MaxIdle + 1) \div 2 ELSE CfgInit
MaxTotal == Max({CfgMax, 2, 2 * MaxIdle})

\* A moment at which the connections in open have been accepted, have had
\* their handshake and wait; at the start there are none
InitFrom(open) ==
    /\ SessionInit
    /\ events = [w \in Waitables |-> CASE w = Listener -> {"in"}
                                       [] w \in open -> {"in", "note"}
                                       [] OTHER -> {}]
    /\ members = open \cup {Listener}
    /\ life = [w \in Waitables |-> IF w \in members THEN "open" ELSE "none"]
    /\ jobs = [w \in Waitables |-> <<>>]
    /\ idle = InitWorkers /\ total = InitWorkers
    /\ sel = [at |-> "scan", snap |-> [w \in Waitables |-> {}], ready |-> {}, cur |-> NULL]
    /\ wake = FALSE /\ stop = FALSE
    /\ conn = [c \in Conns |-> [inbox |-> <<>>, closed |-> FALSE, tls |-> c \in open,
                                queue |-> 0, note |-> FALSE, wire |-> 0]]
    /\ mq = <<>> /\ handler = "ready"
    /\ bc = [by |-> NULL, lock |-> NULL, todo |-> {}, half |-> {}]
    /\ main = "run" /\ crossed = FALSE

Init == InitFrom({})

-----------------------------------------------------------------------------
\* The selector, WaitableSet::run and ThreadedWaitableSet::process

\* poll reports w: it asked for something that is so, or its peer has gone
Active(w, asked) ==
    IF w = Listener
    THEN "in" \in asked /\ \E c \in Conns : life[c] = "connecting"
    ELSE \/ "in" \in asked /\ conn[w].inbox # <<>>
         \/ "out" \in asked /\ conn[w].wire < Room
         \/ "note" \in asked /\ conn[w].note
         \/ asked \cap {"in", "out"} # {} /\ conn[w].closed

\* Under the lock: a stop, or the events of all waitables in the set
Look == IF stop THEN [sel EXCEPT !.at = "stopping"]
        ELSE [sel EXCEPT !.at = "poll",
                         !.snap = [w \in Waitables |-> IF w \in members THEN events[w] ELSE {}]]

Scan ==
    /\ sel.at = "scan"
    /\ sel' = Look
    /\ UNCHANGED <<events, setVars, workerVars, wake, conn, senderVars, crossed, sessionVars>>

NextRound(ready) == IF ready = {} THEN "scan" ELSE "dispatch"

\* poll returns and the wake-up pipe is emptied
Poll ==
    /\ sel.at = "poll"
    /\ LET found == {w \in Waitables : Active(w, sel.snap[w])}
       IN  /\ wake \/ found # {}
           /\ sel' = [sel EXCEPT !.at = NextRound(found), !.ready = found,
                                 !.snap = [w \in Waitables |-> {}]]
    /\ wake' = FALSE
    /\ UNCHANGED <<events, setVars, workerVars, conn, senderVars, crossed, sessionVars>>

\* poll is interrupted by a signal: the loop goes round
PollInterrupted ==
    /\ sel.at = "poll"
    /\ sel' = Look
    /\ UNCHANGED <<events, setVars, workerVars, wake, conn, senderVars, crossed, sessionVars>>

\* The threads process creates and destroys to keep the number of idle ones
Wanted == Min({Max({MinIdle + 1 - idle, 0}), MaxTotal - total})
Spare == Max({idle - MaxIdle, 0})

\* The selector takes a worker from the queue of idle ones, or waits for one
HandTo(w, free) ==
    IF free > 0
    THEN /\ idle' = free - 1
         /\ jobs' = [jobs EXCEPT ![w] = Append(@, [at |-> "process", arg |-> Nobody])]
         /\ sel' = [sel EXCEPT !.at = NextRound(sel.ready \ {w}), !.ready = @ \ {w}, !.cur = NULL]
    ELSE /\ idle' = free
         /\ sel' = [sel EXCEPT !.at = "hand", !.ready = @ \ {w}, !.cur = w]
         /\ UNCHANGED jobs

\* preprocess takes the events away, then the size of the pool is adjusted.
\* pthread_create may fail, so any number of the threads wanted is created.
Dispatch(w) ==
    /\ sel.at = "dispatch" /\ w \in sel.ready
    /\ events' = [events EXCEPT ![w] = {}]
    /\ \E made \in 0..Wanted :
          /\ total' = total + made - Spare
          /\ HandTo(w, idle + made - Spare)
    /\ UNCHANGED <<setVars, wake, conn, senderVars, crossed, sessionVars>>

HandOver ==
    /\ sel.at = "hand" /\ idle > 0
    /\ HandTo(sel.cur, idle)
    /\ UNCHANGED <<events, setVars, total, wake, conn, senderVars, crossed, sessionVars>>

\* After the loop the workers are stopped, each one when it is idle
DestroyWorker ==
    /\ sel.at = "stopping" /\ idle > 0
    /\ idle' = idle - 1 /\ total' = total - 1
    /\ sel' = [sel EXCEPT !.at = IF total = 1 THEN "stopped" ELSE "stopping"]
    /\ UNCHANGED <<events, setVars, jobs, wake, conn, senderVars, crossed, sessionVars>>

-----------------------------------------------------------------------------
(* The worker threads                                                       *)

Job(w, i, at) == i \in DOMAIN jobs[w] /\ jobs[w][i].at = at

Go(w, i, at) == jobs' = [jobs EXCEPT ![w][i].at = at]

\* Waitable::process: int_process returns res, setEvents stores it
Return(w, i, res) == Go(w, i, "finish") /\ events' = [events EXCEPT ![w] = res]

\* sendMessageBlock by the thread that serves the connection
Reply(c) == conn' = [conn EXCEPT ![c].inbox = Tail(@), ![c].queue = @ + 1, ![c].note = TRUE]

RegistryFree == bc.lock # "registry"
RegistryAndEventsFree == bc.lock = NULL

\* WaitableSet::add
Add(c) == members' = members \cup {c} /\ wake' = TRUE

\* ClientListener::socket_process
Accept(i) ==
    /\ Job(Listener, i, "process")
    /\ \E c \in Conns :
          /\ life[c] = "connecting"
          /\ life' = [life EXCEPT ![c] = "open"]
          /\ events' = [events EXCEPT ![c] = {"in", "out"}, ![Listener] = {"in"}]
          /\ Add(c)
    /\ Go(Listener, i, "finish")
    /\ UNCHANGED <<stop, idle, total, sel, conn, senderVars, crossed, sessionVars>>

AcceptFails(i) ==
    /\ Job(Listener, i, "process")
    /\ Return(Listener, i, {"in"})
    /\ UNCHANGED <<setVars, idle, total, sel, wake, conn, senderVars, crossed, sessionVars>>

\* initiate_ssl: SSL_accept wants more, succeeds, or fails
Handshake(c, i) ==
    /\ Job(c, i, "process") /\ ~conn[c].tls
    /\ \/ /\ conn[c].inbox = <<>> /\ ~conn[c].closed
          /\ Return(c, i, {"in"})
          /\ UNCHANGED conn
       \/ /\ conn[c].inbox # <<>> /\ Head(conn[c].inbox).kind = "hello"
          /\ conn' = [conn EXCEPT ![c].inbox = Tail(@), ![c].tls = TRUE]
          /\ UNCHANGED <<jobs, events>>
       \/ /\ IF conn[c].inbox = <<>> THEN conn[c].closed ELSE Head(conn[c].inbox).kind # "hello"
          /\ Return(c, i, {})
          /\ UNCHANGED conn
    /\ UNCHANGED <<setVars, idle, total, sel, wake, senderVars, crossed, sessionVars>>

\* read_data has a complete message block: ClientAction::process
Receive(c, i, kind) ==
    /\ Job(c, i, "process") /\ conn[c].tls
    /\ conn[c].inbox # <<>> /\ Head(conn[c].inbox).kind = kind
    /\ UNCHANGED <<events, setVars, idle, total, sel, wake, handler, bc, main, crossed>>

AuthWrong(c, i) ==
    /\ Receive(c, i, "auth") /\ Head(conn[c].inbox).arg = Nobody
    /\ Reply(c)
    /\ UNCHANGED <<jobs, mq, sessionVars>>

AuthBegin(c, i) ==
    /\ Receive(c, i, "auth") /\ Head(conn[c].inbox).arg # Nobody
    /\ RegistryAndEventsFree
    /\ AuthForget(c)
    /\ jobs' = [jobs EXCEPT ![c][i] = [at |-> "auth", arg |-> Head(conn[c].inbox).arg]]
    /\ UNCHANGED <<conn, mq>>

AuthEnd(c, i) ==
    /\ Job(c, i, "auth") /\ RegistryFree
    /\ AuthRegister(c, jobs[c][i].arg)
    /\ Reply(c)
    /\ jobs' = [jobs EXCEPT ![c][i] = [at |-> "process", arg |-> Nobody]]
    /\ UNCHANGED <<events, setVars, idle, total, sel, wake, senderVars, crossed>>

EventMap(c, i) ==
    /\ RegistryAndEventsFree
    /\ \/ Receive(c, i, "sub") /\ Subscribe(c, Head(conn[c].inbox).arg)
       \/ Receive(c, i, "unsub") /\ Unsubscribe(c, Head(conn[c].inbox).arg)
    /\ Reply(c)
    /\ UNCHANGED <<jobs, mq>>

\* triggerMessage: the message is queued and the worker waits for it
Post(c, i) ==
    /\ Receive(c, i, "post")
    /\ IF matches("submit", perms[c])
       THEN mq' = Append(mq, c) /\ Go(c, i, "wait") /\ UNCHANGED conn
       ELSE Reply(c) /\ UNCHANGED <<mq, jobs>>
    /\ UNCHANGED sessionVars

PostReply(c, i) ==
    /\ Job(c, i, "reply")
    /\ Reply(c)
    /\ Go(c, i, "process")
    /\ UNCHANGED <<events, setVars, idle, total, sel, wake, senderVars, crossed, sessionVars>>

\* read_data ends: the client has closed, or there is nothing more to read.
\* Then write_data begins with emptying the notification pipe.
ReadEnds(c, i) ==
    /\ Job(c, i, "process") /\ conn[c].tls /\ conn[c].inbox = <<>>
    /\ \/ conn[c].closed /\ Return(c, i, {}) /\ UNCHANGED conn
       \/ /\ ~conn[c].closed
          /\ conn' = [conn EXCEPT ![c].note = FALSE]
          /\ Go(c, i, "write")
          /\ UNCHANGED events
    /\ UNCHANGED <<setVars, idle, total, sel, wake, senderVars, crossed, sessionVars>>

WriteOne(c, i) ==
    /\ Job(c, i, "write") /\ conn[c].queue > 0 /\ ~conn[c].closed /\ conn[c].wire < Room
    /\ conn' = [conn EXCEPT ![c].queue = @ - 1, ![c].wire = @ + 1]
    /\ UNCHANGED <<events, setVars, workerVars, sel, wake, senderVars, crossed, sessionVars>>

\* Mutant: the events after writing leave out the notification
WriteEndsForgetful(c, i) ==
    /\ Job(c, i, "write") /\ conn[c].queue = 0
    /\ Return(c, i, {"in"})
    /\ UNCHANGED <<setVars, idle, total, sel, wake, conn, senderVars, crossed, sessionVars>>

\* The queue is empty: wait for a notification
WriteEnds(c, i) ==
    /\ Job(c, i, "write") /\ conn[c].queue = 0
    /\ Return(c, i, {"in", "note"})
    /\ UNCHANGED <<setVars, idle, total, sel, wake, conn, senderVars, crossed, sessionVars>>

\* SSL_write wants a writable socket, or fails because the client has gone
WriteStops(c, i) ==
    /\ Job(c, i, "write") /\ conn[c].queue > 0
    /\ \/ conn[c].closed /\ Return(c, i, {})
       \/ ~conn[c].closed /\ conn[c].wire = Room /\ Return(c, i, {"in", "out"})
    /\ UNCHANGED <<setVars, idle, total, sel, wake, conn, senderVars, crossed, sessionVars>>

Leave(w, i) == jobs' = [jobs EXCEPT ![w] = SubSeq(@, 1, i - 1) \o SubSeq(@, i + 1, Len(@))]

\* Mutant: the selector is not woken
FinishSilently(w, i) ==
    /\ Job(w, i, "finish") /\ events[w] # {}
    /\ Leave(w, i)
    /\ idle' = idle + 1
    /\ UNCHANGED <<events, setVars, total, sel, wake, conn, senderVars, crossed, sessionVars>>

\* process_finish and worker_idle, when the waitable has events to wait for
Finish(w, i) ==
    /\ Job(w, i, "finish") /\ events[w] # {}
    /\ wake' = TRUE
    /\ Leave(w, i)
    /\ idle' = idle + 1
    /\ UNCHANGED <<events, setVars, total, sel, conn, senderVars, crossed, sessionVars>>

\* process_finish, when isFinished: out of the set, deleted, then as above
Remove(w, i) ==
    /\ Job(w, i, "finish") /\ events[w] = {}
    /\ members' = members \ {w}
    /\ Go(w, i, "delete")
    /\ UNCHANGED <<events, life, stop, idle, total, sel, wake, conn, senderVars, crossed, sessionVars>>

\* The destructor of ClientConnection leaves the registry
Delete(w, i) ==
    /\ Job(w, i, "delete") /\ RegistryAndEventsFree
    /\ IF w = Listener THEN UNCHANGED <<clients, subs>> ELSE deregisterClient(w)
    /\ life' = [life EXCEPT ![w] = "deleted"]
    /\ crossed' = (Len(jobs[w]) > 1 \/ sel.cur = w)
    /\ wake' = TRUE
    /\ Leave(w, i)
    /\ idle' = idle + 1
    /\ UNCHANGED <<events, members, stop, total, sel, conn, senderVars, user, perms>>

ConnectionStep(c, i) ==
    \/ Handshake(c, i) \/ AuthWrong(c, i) \/ AuthBegin(c, i) \/ AuthEnd(c, i)
    \/ EventMap(c, i) \/ Post(c, i) \/ PostReply(c, i)
    \/ ReadEnds(c, i) \/ WriteOne(c, i) \/ WriteEnds(c, i) \/ WriteStops(c, i)

WaitableStep(w, i) == Finish(w, i) \/ Remove(w, i) \/ Delete(w, i)

-----------------------------------------------------------------------------
(* The senders of events, and main                                          *)

Begin(by, lock, targets) ==
    /\ bc.by = NULL
    /\ bc' = [by |-> by, lock |-> lock, todo |-> targets, half |-> {}]
    /\ UNCHANGED <<events, setVars, workerVars, sel, wake, conn, main, crossed, sessionVars>>

\* message_handler takes a message; int_process tells those it concerns
HandleMessage ==
    /\ handler = "ready" /\ mq # <<>> /\ Head(mq) # NULL
    /\ mq' = Tail(mq)
    /\ UNCHANGED handler
    /\ Begin(Head(mq), "registry", broadcastEvent(user[Head(mq)], "see_all"))

HandlerEnds ==
    /\ handler = "ready" /\ bc.by \notin Conns /\ mq # <<>> /\ Head(mq) = NULL
    /\ mq' = Tail(mq)
    /\ handler' = "stopped"
    /\ UNCHANGED <<events, setVars, workerVars, sel, wake, conn, bc, main, crossed, sessionVars>>

\* timed_actions: a keep-alive to all clients, or an event
TimedSend ==
    /\ main # "done"
    /\ \/ Begin("timer", "registry", broadcastEvent(Nobody, "any"))
       \/ \E e \in Event : Begin("timer", "event", triggerEvent(e))
    /\ UNCHANGED <<mq, handler>>

\* sendMessageBlock puts the block into the queue, then writes the notification
SendEnqueue(c) ==
    /\ c \in bc.todo /\ bc.half = {}
    /\ conn' = [conn EXCEPT ![c].queue = @ + 1]
    /\ bc' = [bc EXCEPT !.todo = @ \ {c}, !.half = {c}]
    /\ UNCHANGED <<events, setVars, workerVars, sel, wake, mq, handler, main, crossed, sessionVars>>

SendNotify(c) ==
    /\ c \in bc.half
    /\ conn' = [conn EXCEPT ![c].note = TRUE]
    /\ bc' = [bc EXCEPT !.half = {}]
    /\ UNCHANGED <<events, setVars, workerVars, sel, wake, mq, handler, main, crossed, sessionVars>>

\* The lock is released; the handler posts the semaphore of the worker
SendEnd ==
    /\ bc.by # NULL /\ bc.todo = {} /\ bc.half = {}
    /\ bc' = [by |-> NULL, lock |-> NULL, todo |-> {}, half |-> {}]
    /\ jobs' = [w \in Waitables |->
                  IF w # bc.by THEN jobs[w]
                  ELSE [i \in DOMAIN jobs[w] |->
                          IF jobs[w][i].at = "wait" THEN [jobs[w][i] EXCEPT !.at = "reply"]
                          ELSE jobs[w][i]]]
    /\ UNCHANGED <<events, setVars, idle, total, sel, wake, conn, mq, handler, main, crossed, sessionVars>>

\* Mutant: the selector is not woken
ShutdownSilently ==
    /\ main = "run"
    /\ main' = "shut"
    /\ stop' = TRUE
    /\ UNCHANGED <<events, members, life, workerVars, sel, wake, conn, mq, handler, bc, crossed, sessionVars>>

Shutdown ==
    /\ main = "run"
    /\ main' = "shut"
    /\ stop' = TRUE /\ wake' = TRUE
    /\ UNCHANGED <<events, members, life, workerVars, sel, conn, mq, handler, bc, crossed, sessionVars>>

QueueNull ==
    /\ main = "shut"
    /\ main' = "queued"
    /\ mq' = Append(mq, NULL)
    /\ UNCHANGED <<events, setVars, workerVars, sel, wake, conn, handler, bc, crossed, sessionVars>>

\* The threads are joined, then delete_all
DeleteAll ==
    /\ main = "queued" /\ handler = "stopped" /\ sel.at = "stopped" /\ bc.by = NULL
    /\ main' = "done"
    /\ life' = [w \in Waitables |-> IF w \in members THEN "deleted" ELSE life[w]]
    /\ members' = {}
    /\ clients' = {p \in clients : p[2] \notin members}
    /\ subs' = [e \in Event |-> {c \in subs[e] : c \in members => c \in EventDrop(e, c)}]
    /\ crossed' = (\E w \in members : jobs[w] # <<>>)
    /\ UNCHANGED <<events, stop, workerVars, sel, wake, conn, mq, handler, bc, user, perms>>

-----------------------------------------------------------------------------
(* The clients                                                              *)

Connect(c) ==
    /\ life[c] = "none"
    /\ life' = [life EXCEPT ![c] = "connecting"]
    /\ UNCHANGED <<events, members, stop, workerVars, sel, wake, conn, senderVars, crossed, sessionVars>>

Send(c, r) ==
    /\ life[c] \in {"connecting", "open"} /\ ~conn[c].closed
    /\ conn' = [conn EXCEPT ![c].inbox = Append(@, r)]
    /\ UNCHANGED <<events, setVars, workerVars, sel, wake, senderVars, crossed, sessionVars>>

Close(c) ==
    /\ life[c] \in {"connecting", "open"} /\ ~conn[c].closed
    /\ conn' = [conn EXCEPT ![c].closed = TRUE]
    /\ UNCHANGED <<events, setVars, workerVars, sel, wake, senderVars, crossed, sessionVars>>

ReadOutput(c) ==
    /\ conn[c].wire > 0
    /\ conn' = [conn EXCEPT ![c].wire = @ - 1]
    /\ UNCHANGED <<events, setVars, workerVars, sel, wake, senderVars, crossed, sessionVars>>

-----------------------------------------------------------------------------
SelectorStep == Scan \/ (\E w \in Waitables : Dispatch(w)) \/ HandOver \/ DestroyWorker

\* More than one worker may hold a waitable, see OneOwner
WorkerStep(w) ==
    \E i \in DOMAIN jobs[w] :
        \/ w = Listener /\ (Accept(i) \/ AcceptFails(i))
        \/ w \in Conns /\ ConnectionStep(w, i)
        \/ WaitableStep(w, i)

SenderStep == HandleMessage \/ HandlerEnds \/ SendEnd
              \/ \E c \in Conns : SendEnqueue(c) \/ SendNotify(c)

MainStep == QueueNull \/ DeleteAll

\* What the threads of the server do by themselves
ServerStep == SelectorStep \/ Poll \/ SenderStep \/ MainStep \/ \E w \in Waitables : WorkerStep(w)

\* After a deletion under another worker anything may happen: the model ends
Next ==
    /\ ~crossed
    /\ \/ ServerStep
       \/ PollInterrupted \/ TimedSend \/ Shutdown
       \/ \E c \in Conns : \/ Connect(c) \/ Close(c) \/ ReadOutput(c)
                           \/ \E r \in Request : Send(c, r)

Spec == Init /\ [][Next]_vars

(* The threads are scheduled; poll is not interrupted for ever; clients read *)
(* what they are sent.                                                       *)
Fairness ==
    /\ WF_vars(~crossed /\ SelectorStep) /\ SF_vars(~crossed /\ Poll)
    /\ \A w \in Waitables : WF_vars(~crossed /\ WorkerStep(w))
    /\ WF_vars(~crossed /\ SenderStep) /\ WF_vars(~crossed /\ MainStep)
    /\ \A c \in Conns : WF_vars(~crossed /\ ReadOutput(c))

-----------------------------------------------------------------------------
\* The workers that hold a waitable, each as the waitable and a place in its jobs
AtWork == UNION {{w} \X DOMAIN jobs[w] : w \in Waitables}

(* Type correctness; every worker thread is idle or at work (create_worker,  *)
(* destroy_worker, worker_idle), and there are never more than the limit.    *)
PoolTypeOK ==
    /\ user \in [Conns -> Users \cup {Nobody}] /\ perms \in [Conns -> SUBSET Permission]
    /\ clients \subseteq Users \X Conns /\ subs \in [Event -> SUBSET Conns]
    /\ events \in [Waitables -> SUBSET PollEvent] /\ members \subseteq Waitables
    /\ life \in [Waitables -> {"none", "connecting", "open", "deleted"}]
    /\ \A w \in Waitables : \A i \in DOMAIN jobs[w] : jobs[w][i].at \in At
    /\ idle \in 0..MaxTotal /\ total \in 0..MaxTotal
    /\ total = idle + Cardinality(AtWork)

(* A message block that any thread has put into a connection's queue is not  *)
(* left there (sendMessageBlock, write_data, int_process): while no worker   *)
(* serves the connection, it waits to be writable, or it waits for the       *)
(* notification and there is one, or its sender is about to write it.        *)
OutputNotForgotten ==
    \A c \in Conns :
        /\ life[c] = "open" /\ conn[c].tls /\ conn[c].queue > 0
        /\ sel.cur # c /\ \A i \in DOMAIN jobs[c] : jobs[c][i].at = "finish"
        /\ events[c] # {}
        => \/ "out" \in events[c]
           \/ "note" \in events[c] /\ (conn[c].note \/ c \in bc.half)

(* The registry sends to connections that exist only (the destructor of      *)
(* ClientConnection, registerClient, deregisterClient, ActAuth), and so does *)
(* a thread that is sending: deregistration comes before the memory goes.    *)
NoDangling ==
    /\ \A p \in clients : life[p[2]] = "open"
    /\ \A e \in Event : \A c \in subs[e] : life[c] = "open"
    /\ \A c \in bc.todo \cup bc.half : life[c] = "open"

(* A connection is registered for one user, the one who is logged in, and    *)
(* subscribed only to events its present permissions allow, whatever logins  *)
(* preceded (ActAuth, Event::registerClient, Event::deregisterClient).       *)
RegistryAgrees ==
    /\ \A p \in clients : user[p[2]] = p[1]
    /\ \A e \in Event : \A c \in subs[e] : matches(EventPermission[e], perms[c])

(* Workers, waitables and registry are consistent after every step.          *)
RegistryConsistent == PoolTypeOK /\ NoDangling /\ RegistryAgrees

(* A request that has reached an open connection is read and answered, or    *)
(* the connection ends, unless the server is stopping (run, process,         *)
(* process_finish, triggerMessage).                                          *)
RequestsServed ==
    \A c \in Conns :
        (life[c] = "open" /\ conn[c].inbox # <<>>)
        ~> (conn[c].inbox = <<>> \/ life[c] # "open" \/ stop \/ crossed)

\* A worker waits for a message that the handler will never take
Stranded == handler = "stopped" /\ \E c \in Conns : \E i \in DOMAIN jobs[c] : Job(c, i, "wait")

(* After a signal main joins all threads and deletes all connections, unless *)
(* a worker is stranded (main, shutdown, destroy_worker).                    *)
ShutdownEnds == (main = "shut") ~> (main = "done" \/ crossed \/ Stranded)

(* "they should die shortly", as main says of the threads it joins.          *)
ThreadsDie == (main = "shut") ~> (main = "done" \/ crossed)

(* "A socket is owned by only one thread at a time": at most one worker      *)
(* holds a waitable (preprocess, process, process_finish).                   *)
OneOwner == \A w \in Waitables : Len(jobs[w]) <= 1
=============================================================================
