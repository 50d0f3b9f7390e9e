-------------------------- MODULE PeerReplication --------------------------
(***************************************************************************)
(* The replication of messages between the servers of a contest.           *)
(*                                                                         *)
(* Every change of the contest is a message.  The server that makes it     *)
(* stores it (table PeerMessage) with one row per other server that has    *)
(* not acknowledged it (table PeerMessageNoAck), and sends it.  A server   *)
(* that receives a message stores it, queues it for its message handler    *)
(* and acknowledges it to everybody it knows; the resender repeats what    *)
(* was not acknowledged.  A server joins by a CREATESERVER message, whose  *)
(* processing creates the rows for everything stored so far.               *)
(*                                                                         *)
(* Per server there are the listener thread, the handler thread, the       *)
(* resender thread and the workers that make messages.  Every SQL          *)
(* statement commits by itself (the tables are InnoDB, a statement that    *)
(* hits a duplicate key has no effect), so a step here is one statement,   *)
(* together with the volatile work next to it.  Only putLocalMessage holds *)
(* LOCK TABLES over its statements.  The network loses, duplicates and     *)
(* reorders packets.                                                       *)
(***************************************************************************)
EXTENDS Integers

CONSTANTS
    Server,         \* ids of the servers, the master's is 1
    Joined,         \* the servers that have joined at the start
    Registered,     \* message kinds with a registered functor
    Quiet,          \* TRUE: nobody else writes PeerMessageNoAck between the
                    \* two statements of addServer
    Keeps,          \* TRUE: packets stay in flight, so they arrive any number
                    \* of times, or never; FALSE: a packet arrives once or is
                    \* lost
    CrashWindows,   \* the multi-statement sequences a crash may interrupt
    MaxMade,        \* bound on the messages each server makes
    MadeKinds,      \* bound on their kinds
    MaxTime,        \* bound on the clocks (whole seconds)
    MaxCrashes      \* bound on the restarts

Kind == {"server", "group", "data"}
Window == {"adding", "storing", "putting"}
Master == 1

ASSUME ServerAssumption ==
    Server \subseteq Nat \ {0} /\ Joined \subseteq Server /\ Master \in Joined
ASSUME ConfigAssumption ==
    /\ Registered \subseteq Kind /\ "server" \in Registered
    /\ Quiet \in BOOLEAN /\ Keeps \in BOOLEAN
    /\ CrashWindows \subseteq Window
ASSUME BoundAssumption ==
    MaxMade \in [Server -> Nat] /\ MadeKinds \subseteq Kind /\ MaxTime \in Nat /\ MaxCrashes \in Nat

VARIABLES
    log,        \* table PeerMessage of each server
    processed,  \* the messages whose processed column is 1
    peers,      \* table Server of each server
    noack,      \* table PeerMessageNoAck: pairs <<message, server>>
    queue,      \* message_queue
    handler,    \* the message handler thread
    listener,   \* the peer listener thread
    net,        \* the packets in flight
    crashes     \* number of restarts so far

tables == <<log, processed, peers, noack>>
threads == <<queue, handler, listener>>
vars == <<tables, threads, net, crashes>>

\* new is the server a CREATESERVER message adds, 0 in other messages
MessageBy(S, Id) ==
    [server : S, id : Id, kind : {"server"}, new : Server, time : 0..MaxTime]
        \cup [server : S, id : Id, kind : Kind \ {"server"}, new : {0}, time : 0..MaxTime]
Message == MessageBy(Server, Nat)
Packet == [kind : {"message"}, msg : Message, to : Server]
            \cup [kind : {"ack"}, msg : Message, by : Server, to : Server]

NoMessage == [server |-> 0]
Resting == [step |-> "idle", msg |-> NoMessage]

TypeOK ==
    /\ log \in [Server -> SUBSET Message]
    /\ processed \in [Server -> SUBSET Message]
    /\ peers \in [Server -> SUBSET Server]
    /\ noack \in [Server -> SUBSET (Message \X Server)]
    /\ queue \in [Server -> SUBSET Message]
    /\ handler \in [Server -> {Resting} \cup [step : {"rows", "done"}, msg : Message]]
    /\ listener \in [Server -> {Resting} \cup [step : {"rows", "ack"}, msg : Message]]
    /\ net \in SUBSET Packet
    /\ crashes \in Nat

-----------------------------------------------------------------------------
(* The database and the network.                                           *)

\* getRemoteServers
Remote(n) == peers[n] \ {n}

\* getId() is 0 until the server has processed its own CREATESERVER message
Initialised(n) == n \in peers[n]

Buildable(m) == m.kind \in Registered

\* getUnprocessedMessages, less what buildMessage cannot build
Unprocessed(n) == {m \in log[n] \ processed[n] : Buildable(m)}

\* getUnacked
Unacked(n, q) == {m \in log[n] : <<m, q>> \in noack[n]}

\* Mutant: MAX over the processed messages
IsNextIdProcessed(n, i) ==
    LET own == {m \in processed[n] : m.server = n}
    IN  /\ \A m \in own : m.id < i
        /\ i = 1 \/ \E m \in own : m.id = i - 1

\* the message id putLocalMessage finds: MAX(message_id) + 1
IsNextId(n, i) ==
    LET own == {m \in log[n] : m.server = n}
    IN  /\ \A m \in own : m.id < i
        /\ i = 1 \/ \E m \in own : m.id = i - 1

\* INSERT into PeerMessageNoAck: no effect if a row exists already
InsertNoAck(n, rows) ==
    IF rows \cap noack[n] = {} THEN [noack EXCEPT ![n] = @ \cup rows] ELSE noack

Send(m, to) == {[kind |-> "message", msg |-> m, to |-> q] : q \in to}

\* sendAck.  An acknowledgement by server 0 is ignored by its receiver.
Acks(n, m) ==
    {[kind |-> "ack", msg |-> m, by |-> n, to |-> q] :
        q \in {r \in Remote(n) : Initialised(n)}}

\* what is in flight after the receipt of p
Received(p) == IF Keeps THEN net ELSE net \ {p}

\* does the assumption on addServer let another thread write?
MayWriteNoAck(n) == Quiet => handler[n].step # "rows"

-----------------------------------------------------------------------------
(* The start.  The master has processed the messages initialise() makes:   *)
(* its own CREATESERVER and the default group.  The servers of Joined have *)
(* joined already and acknowledged what they can build; the databases of   *)
(* the others are empty.                                                   *)

CreateServer(q, i) ==
    [server |-> Master, id |-> i, kind |-> "server", new |-> q, time |-> 0]

DefaultGroup == [server |-> Master, id |-> 2, kind |-> "group", new |-> 0, time |-> 0]

FirstMessages ==
    {CreateServer(Master, 1), DefaultGroup}
        \cup {CreateServer(q, q + 1) : q \in Joined \ {Master}}

FirstLog ==
    [n \in Server |->
        {m \in FirstMessages : n = Master \/ (n \in Joined /\ Buildable(m))}]

Init ==
    /\ log = FirstLog
    /\ processed = FirstLog
    /\ peers = [n \in Server |-> IF n \in Joined THEN Joined ELSE {}]
    /\ noack = [n \in Server |->
                    {r \in FirstMessages \X (Joined \ {Master}) :
                        n = Master /\ ~Buildable(r[1])}]
    /\ queue = [n \in Server |-> {}]
    /\ handler = [n \in Server |-> Resting]
    /\ listener = [n \in Server |-> Resting]
    /\ net = {}
    /\ crashes = 0

-----------------------------------------------------------------------------
(* A worker makes a message on behalf of a client.                         *)

\* a message n can make now
Fresh(n, m) ==
    /\ Initialised(n)
    /\ m.server = n /\ m.id <= MaxMade[n] /\ IsNextId(n, m.id)
    /\ \A o \in log[n] : o.server = n => o.time <= m.time
    \* ActAddServer: on the master, for a server that does not exist
    /\ m.kind = "server" => n = Master /\ \A o \in log[n] : o.new # m.new

\* Mutant: the message is sent to the other servers, no rows are inserted
MakeMessageNoRows(n, m) ==
    /\ Fresh(n, m) /\ MayWriteNoAck(n)
    /\ log' = [log EXCEPT ![n] = @ \cup {m}]
    /\ net' = net \cup Send(m, Remote(n))
    /\ queue' = [queue EXCEPT ![n] = @ \cup {m}]
    /\ UNCHANGED <<processed, peers, noack, handler, listener, crashes>>

\* makeMessage and triggerMessage.  The statements of putLocalMessage run
\* under LOCK TABLES.
MakeMessage(n, m) ==
    /\ Fresh(n, m) /\ MayWriteNoAck(n)
    /\ log' = [log EXCEPT ![n] = @ \cup {m}]
    /\ noack' = InsertNoAck(n, {m} \X Remote(n))
    /\ net' = net \cup Send(m, Remote(n))
    /\ queue' = [queue EXCEPT ![n] = @ \cup {m}]
    /\ UNCHANGED <<processed, peers, handler, listener, crashes>>

-----------------------------------------------------------------------------
(* The handler thread.  The queue is a set: workers and the listener       *)
(* enqueue in any order.                                                   *)

HandlerTake(n, m) ==
    /\ handler[n].step = "idle" /\ m \in queue[n]
    /\ queue' = [queue EXCEPT ![n] = @ \ {m}]
    /\ \/ /\ m.kind # "server"
          /\ handler' = [handler EXCEPT ![n] = [step |-> "done", msg |-> m]]
          /\ UNCHANGED peers
       \* addServer, first statement; the second is for the other servers
       \/ /\ m.kind = "server" /\ m.new \notin peers[n]
          /\ peers' = [peers EXCEPT ![n] = @ \cup {m.new}]
          /\ handler' = [handler EXCEPT ![n] =
                            [step |-> IF m.new = n THEN "done" ELSE "rows", msg |-> m]]
       \* the server exists: int_process fails, the message stays unprocessed
       \/ /\ m.kind = "server" /\ m.new \in peers[n]
          /\ UNCHANGED <<peers, handler>>
    /\ UNCHANGED <<log, processed, noack, listener, net, crashes>>

\* Mutant: the new server gets only what is made from now on
HandlerRowsNone(n) ==
    /\ handler[n].step = "rows"
    /\ handler' = [handler EXCEPT ![n] = [step |-> "done", msg |-> @.msg]]
    /\ UNCHANGED <<log, processed, peers, noack, queue, listener, net, crashes>>

\* addServer, second statement; its failure is only logged
HandlerRows(n) ==
    /\ handler[n].step = "rows"
    /\ noack' = InsertNoAck(n, log[n] \X {handler[n].msg.new})
    /\ handler' = [handler EXCEPT ![n] = [step |-> "done", msg |-> @.msg]]
    /\ UNCHANGED <<log, processed, peers, queue, listener, net, crashes>>

\* markProcessed
HandlerDone(n) ==
    /\ handler[n].step = "done"
    /\ processed' = [processed EXCEPT ![n] = @ \cup {handler[n].msg}]
    /\ handler' = [handler EXCEPT ![n] = Resting]
    /\ UNCHANGED <<log, peers, noack, queue, listener, net, crashes>>

-----------------------------------------------------------------------------
(* The listener thread.                                                    *)

\* putAck
ReceiveAck(n, p) ==
    /\ listener[n].step = "idle" /\ p \in net /\ p.kind = "ack" /\ p.to = n
    /\ net' = Received(p)
    /\ noack' = [noack EXCEPT ![n] = @ \ {<<p.msg, p.by>>}]
    /\ UNCHANGED <<log, processed, peers, threads, crashes>>

\* Mutant: the message is acknowledged although putRemoteMessage has failed
ReceiveMessageAckAnyway(n, p) ==
    /\ listener[n].step = "idle" /\ p \in net /\ p.kind = "message" /\ p.to = n
    /\ \/ /\ Buildable(p.msg) /\ p.msg \notin log[n]
          /\ net' = Received(p)
          /\ log' = [log EXCEPT ![n] = @ \cup {p.msg}]
          /\ listener' = [listener EXCEPT ![n] = [step |-> "rows", msg |-> p.msg]]
       \/ /\ net' = Received(p) \cup Acks(n, p.msg)
          /\ UNCHANGED <<log, listener>>
    /\ UNCHANGED <<processed, peers, noack, queue, handler, crashes>>

\* Mutant: a message that is there already is taken as a new one
ReceiveMessageAgain(n, p) ==
    /\ listener[n].step = "idle" /\ p \in net /\ p.kind = "message" /\ p.to = n
    /\ net' = net \ {p}
    /\ Buildable(p.msg)
    /\ log' = [log EXCEPT ![n] = @ \cup {p.msg}]
    /\ listener' = [listener EXCEPT ![n] = [step |-> "rows", msg |-> p.msg]]
    /\ UNCHANGED <<processed, peers, noack, queue, handler, crashes>>

\* getMessage: acknowledge what is there already, drop what cannot be built;
\* otherwise the first statement of putRemoteMessage
ReceiveMessage(n, p) ==
    /\ listener[n].step = "idle" /\ p \in net /\ p.kind = "message" /\ p.to = n
    /\ \/ /\ p.msg \in log[n]
          /\ net' = Received(p) \cup Acks(n, p.msg)
          /\ UNCHANGED <<log, listener>>
       \/ /\ p.msg \notin log[n] /\ ~Buildable(p.msg)
          /\ net' = Received(p)
          /\ UNCHANGED <<log, listener>>
       \/ /\ p.msg \notin log[n] /\ Buildable(p.msg)
          /\ net' = Received(p)
          /\ log' = [log EXCEPT ![n] = @ \cup {p.msg}]
          /\ listener' = [listener EXCEPT ![n] = [step |-> "rows", msg |-> p.msg]]
    /\ UNCHANGED <<processed, peers, noack, queue, handler, crashes>>

\* Mutant: the message is stored and not enqueued
ListenerRowsNotQueued(n) ==
    /\ listener[n].step = "rows" /\ MayWriteNoAck(n)
    /\ noack' = InsertNoAck(n, {listener[n].msg} \X (Remote(n) \ {listener[n].msg.server}))
    /\ listener' = [listener EXCEPT ![n] = [step |-> "ack", msg |-> @.msg]]
    /\ UNCHANGED <<log, processed, peers, queue, handler, net, crashes>>

\* second statement of putRemoteMessage, and the queue
ListenerRows(n) ==
    /\ listener[n].step = "rows" /\ MayWriteNoAck(n)
    /\ LET m == listener[n].msg
       IN  /\ noack' = InsertNoAck(n, {m} \X (Remote(n) \ {m.server}))
           /\ queue' = [queue EXCEPT ![n] = @ \cup {m}]
    /\ listener' = [listener EXCEPT ![n] = [step |-> "ack", msg |-> @.msg]]
    /\ UNCHANGED <<log, processed, peers, handler, net, crashes>>

ListenerAck(n) ==
    /\ listener[n].step = "ack"
    /\ net' = net \cup Acks(n, listener[n].msg)
    /\ listener' = [listener EXCEPT ![n] = Resting]
    /\ UNCHANGED <<tables, queue, handler, crashes>>

-----------------------------------------------------------------------------
(* The resender thread: resend_message(q), after an acknowledgement by q   *)
(* or after five seconds without any.                                      *)

Oldest(S) == {m \in S : \A o \in S : m.time <= o.time}

\* all CREATESERVER messages, or else the oldest one, if it can be built
Resend(n, q) ==
    /\ q \in Remote(n)
    /\ LET servers == {m \in Unacked(n, q) : m.kind = "server"}
       IN  \/ /\ servers # {}
              /\ net' = net \cup UNION {Send(m, {q}) : m \in servers}
           \/ /\ servers = {}
              /\ \E m \in Oldest(Unacked(n, q)) :
                    Buildable(m) /\ net' = net \cup Send(m, {q})
    /\ UNCHANGED <<tables, threads, crashes>>

-----------------------------------------------------------------------------
(* The environment.                                                        *)

Lose(p) ==
    /\ ~Keeps
    /\ net' = net \ {p}
    /\ UNCHANGED <<tables, threads, crashes>>

\* the process of n dies and is started again, with the tables as they are
Reboot(n) ==
    /\ crashes < MaxCrashes /\ crashes' = crashes + 1
    /\ UNCHANGED <<processed, peers, noack, net>>
    /\ queue' = [queue EXCEPT ![n] = Unprocessed(n)']
    /\ handler' = [handler EXCEPT ![n] = Resting]
    /\ listener' = [listener EXCEPT ![n] = Resting]

Crash(n) ==
    /\ handler[n].step = "rows" => "adding" \in CrashWindows
    /\ listener[n].step = "rows" => "storing" \in CrashWindows
    /\ UNCHANGED log
    /\ Reboot(n)

\* the process dies between the statements of putLocalMessage
CrashInPut(n, m) ==
    /\ "putting" \in CrashWindows
    /\ Fresh(n, m)
    /\ log' = [log EXCEPT ![n] = @ \cup {m}]
    /\ Reboot(n)

-----------------------------------------------------------------------------
Made(n) == {m \in MessageBy({n}, 1..MaxMade[n]) : m.kind \in MadeKinds}

Handle(n) == HandlerRows(n) \/ HandlerDone(n)
Listen(n) == ListenerRows(n) \/ ListenerAck(n)

Next ==
    \/ \E n \in Server :
          \/ \E m \in Made(n) : MakeMessage(n, m) \/ CrashInPut(n, m)
          \/ \E m \in queue[n] : HandlerTake(n, m)
          \/ Handle(n) \/ Listen(n) \/ Crash(n)
          \/ \E p \in net : ReceiveAck(n, p) \/ ReceiveMessage(n, p)
          \/ \E q \in peers[n] : Resend(n, q)
    \/ \E p \in net : Lose(p)

Spec == Init /\ [][Next]_vars

(* Fairness.  The threads run.  The resender is woken at the latest after  *)
(* five seconds without acknowledgements.  A packet that is sent again and *)
(* again arrives in the end, and the listener returns to its socket in     *)
(* between (strong fairness, one message or acknowledgement at a time).    *)
Identity == {k \in Server \X UNION {1..MaxMade[n] : n \in Server} : k[2] <= MaxMade[k[1]]}
IdentityOf(m) == <<m.server, m.id>>

Fairness ==
    /\ \A n \in Server :
          /\ WF_vars(Handle(n) \/ \E m \in queue[n] : HandlerTake(n, m))
          /\ WF_vars(Listen(n))
          /\ \A q \in Server \ {n} : WF_vars(Resend(n, q))
          /\ SF_vars(\E p \in net : ReceiveAck(n, p))
    /\ \A k \in Identity : \A n \in Server \ {k[1]} :
          SF_vars(\E p \in net : IdentityOf(p.msg) = k /\ ReceiveMessage(n, p))

FairSpec == Spec /\ Fairness

-----------------------------------------------------------------------------
(* Properties.                                                             *)

Abstract == INSTANCE MessageLog WITH
    First <- FirstLog

(* The logs behave like the abstract message log: nothing is lost from a   *)
(* log, no identity is given to two messages (putLocalMessage takes the    *)
(* next id under its lock, also after a crash), and what getMessage hands  *)
(* to putRemoteMessage is something another server really has.             *)
LogsAreCopies == Abstract!Spec

(* The row that makes a server repeat a message to another one is deleted  *)
(* only when the other has the message in its database: an acknowledgement *)
(* is sent after the INSERT, and survives a crash of either side.          *)
ForgottenOnlyIfStored ==
    [][\A n, q \in Server : \A m \in log[n] :
          <<m, q>> \in noack[n] /\ <<m, q>> \notin noack'[n] => m \in log[q]]_vars

(* "marks it processed in the database so that it need not be reprocessed" *)
(* (developer-core.xml, message handler): a message is never queued or     *)
(* handled again once it is marked processed, however often it arrives.    *)
NeverAgain ==
    \A n \in Server :
        /\ queue[n] \cap processed[n] = {}
        /\ handler[n].msg \notin processed[n] /\ handler[n].msg \notin queue[n]

(* The maker of a message stays responsible for it: each server it knows   *)
(* has the message, or there is a row (or addServer is about to insert     *)
(* it) that makes the resender repeat the message.                         *)
MakerIsResponsible ==
    \A n \in Server : \A q \in Remote(n) : \A m \in log[n] :
        m.server = n =>
            \/ <<m, q>> \in noack[n]
            \/ m \in log[q]
            \/ handler[n].step = "rows" /\ handler[n].msg.new = q

(* Under FairSpec the servers the master has created get to know each      *)
(* other, although the new one cannot acknowledge anything before it has   *)
(* processed its own CREATESERVER message: again and again all of them are *)
(* in each other's table Server (MaxMade bounds the messages, so that the  *)
(* last of these times is after the last message).                         *)
ServersMeet == []<>(\A n, q \in peers[Master] : q \in peers[n])

(* "The message resender checks for messages that have not been            *)
(* acknowledged and resends them" (developer-core.xml): under FairSpec     *)
(* every message that can be built reaches every server its maker knows,   *)
(* through losses and restarts.                                            *)
EveryMessageArrives ==
    []<>(\A n \in Server : \A q \in Remote(n) : \A m \in log[n] :
            m.server = n /\ Buildable(m) => m \in log[q])
=============================================================================
