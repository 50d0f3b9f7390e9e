----------------------------- MODULE LogProofs ------------------------------
(***************************************************************************)
(* Proofs about the replicated log.                                        *)
(*                                                                         *)
(* PeerReplication, for any set of servers, any bounds and any pattern of  *)
(* loss, duplication and crashes.  The inductive invariant Inv strengthens *)
(* what the runs check by what connects tables, threads and network: a     *)
(* packet in flight speaks of something its maker (or the acknowledging    *)
(* server) really has in its database.                                     *)
(*                                                                         *)
(* IdAllocation, for any set of servers whose ids are below Granularity,   *)
(* and any number of submissions and of clean restarts, from IdInv.        *)
(***************************************************************************)
EXTENDS PeerReplication, IdAllocation, FiniteSetTheorems, TLAPS

\* Most steps are logic and sets; those that compute name SMT
USE Zenon

-----------------------------------------------------------------------------
(* The replication of messages.                                            *)

\* the tables and threads refer to messages in the log
Grounded ==
    \A n \in Server :
        /\ processed[n] \subseteq log[n] /\ queue[n] \subseteq log[n]
        /\ handler[n].step # "idle" => handler[n].msg \in log[n]
        /\ handler[n].step = "rows" => handler[n].msg.new \in peers[n]
        /\ listener[n].step # "idle" => listener[n].msg \in log[n]
        /\ \A m \in Message, q \in Server :
              <<m, q>> \in noack[n] => m \in log[n] /\ q \in peers[n]

\* the maker has what anybody has, each under its own id
Owned ==
    \A n \in Server :
        /\ \A m \in log[n] : m \in log[m.server]
        /\ \A a, b \in log[n] :
              a.server = n /\ b.server = n /\ a.id = b.id => a = b

\* packets tell the truth
Truthful ==
    \A p \in net :
        /\ p.kind = "message" => p.msg \in log[p.msg.server]
        /\ p.kind = "ack" => p.msg \in log[p.by]

\* a message about to be queued has not been queued before
Once ==
    /\ NeverAgain
    /\ \A n \in Server :
          listener[n].step = "rows" =>
              /\ listener[n].msg \notin processed[n]
              /\ listener[n].msg \notin queue[n]
              /\ listener[n].msg # handler[n].msg

\* what the assumption on addServer and crashes is for
Undisturbed == Quiet /\ CrashWindows \subseteq {"storing"}

\* between the statements of addServer there are no rows for the new server
Responsible ==
    /\ MakerIsResponsible
    /\ \A n \in Server :
          handler[n].step = "rows" =>
              \A m \in Message : <<m, handler[n].msg.new>> \notin noack[n]

Inv ==
    /\ TypeOK /\ Grounded /\ Owned /\ Truthful /\ Once
    /\ Undisturbed => Responsible

-----------------------------------------------------------------------------
(* Constants and records.                                                  *)

\* The fields of a message.
LEMMA MessageFields ==
    ASSUME NEW m \in Message
    PROVE  /\ m.server \in Server /\ m.id \in Nat
           /\ m.kind = "server" => m.new \in Server
BY DEF Message, MessageBy

\* No message is the message of a resting thread.
LEMMA NoMessageFact == NoMessage \notin Message
BY ServerAssumption, MessageFields DEF NoMessage

\* The messages a server can make are messages.
LEMMA MadeIsMessage == ASSUME NEW n \in Server, NEW m \in Made(n) PROVE m \in Message
BY SMTT(20), BoundAssumption DEF Made, Message, MessageBy, Kind

\* What is sent are packets, of the message given.
LEMMA SendFact ==
    ASSUME NEW m \in Message, NEW to \in SUBSET Server
    PROVE  /\ Send(m, to) \subseteq Packet
           /\ \A p \in Send(m, to) : p.kind = "message" /\ p.msg = m
BY SMTT(20) DEF Send, Packet

\* Acknowledgements are packets, by the server that sends them.
LEMMA AcksFact ==
    ASSUME TypeOK, NEW n \in Server, NEW m \in Message
    PROVE  /\ Acks(n, m) \subseteq Packet
           /\ \A p \in Acks(n, m) : p.kind = "ack" /\ p.msg = m /\ p.by = n
BY SMTT(20) DEF Acks, Packet, Remote, TypeOK

\* A fresh message is not in the log.
LEMMA FreshFact ==
    ASSUME TypeOK, NEW n \in Server, NEW m \in Message, Fresh(n, m)
    PROVE  /\ m \notin log[n] /\ m.server = n
           /\ \A o \in log[n] : o.server = n => o.id # m.id
<1>1. m.server = n /\ IsNextId(n, m.id)
  BY DEF Fresh
<1>2. \A o \in log[n] : o.server = n => o.id < m.id
  BY <1>1 DEF IsNextId
<1>3. m.id \in Nat /\ \A o \in log[n] : o.id \in Nat
  BY MessageFields DEF TypeOK
<1> QED BY SMTT(20), <1>1, <1>2, <1>3

\* Nothing to prove about a packet that stays in flight.
LEMMA TruthfulGrows ==
    ASSUME TypeOK, Truthful, NEW n \in Server, NEW m \in Message,
           NEW new \in SUBSET Packet, NEW old \in SUBSET net,
           log' = [log EXCEPT ![n] = @ \cup {m}] \/ log' = log,
           net' = old \cup new,
           \A p \in new : /\ p.kind = "message" => p.msg \in log'[p.msg.server]
                          /\ p.kind = "ack" => p.msg \in log'[p.by]
    PROVE  net' \in SUBSET Packet /\ Truthful'
<1>1. \A o \in Server : log[o] \subseteq log'[o]
  BY SMTT(20) DEF TypeOK
<1>2. \A p \in net : /\ p.kind = "message" => p.msg.server \in Server
                     /\ p.kind = "ack" => p.by \in Server
  BY MessageFields DEF TypeOK, Packet
<1>3. net' \in SUBSET Packet
  BY DEF TypeOK
<1>4. ASSUME NEW p \in net'
      PROVE  /\ p.kind = "message" => p.msg \in log'[p.msg.server]
             /\ p.kind = "ack" => p.msg \in log'[p.by]
  <2>1. CASE p \in new
    BY <2>1
  <2>2. CASE p \in net
    BY <1>1, <1>2, <2>2 DEF Truthful
  <2> QED BY <2>1, <2>2
<1> QED BY <1>3, <1>4 DEF Truthful

\* A new message is in its maker's log, with a row for every known server.
LEMMA MakeMessageInv ==
    ASSUME Inv, NEW n \in Server, NEW m \in Message, MakeMessage(n, m)
    PROVE  Inv'
<1> USE DEF Inv
<1>1. /\ m \notin log[n] /\ m.server = n
      /\ \A o \in log[n] : o.server = n => o.id # m.id
  BY FreshFact DEF MakeMessage
<1>2. /\ log' = [log EXCEPT ![n] = @ \cup {m}]
      /\ queue' = [queue EXCEPT ![n] = @ \cup {m}]
      /\ net' = net \cup Send(m, Remote(n))
      /\ UNCHANGED <<processed, peers, handler, listener, crashes>>
      /\ Quiet => handler[n].step # "rows"
  BY DEF MakeMessage, MayWriteNoAck
<1>3. noack' = [noack EXCEPT ![n] = @ \cup ({m} \X Remote(n))]
  <2>1. ({m} \X Remote(n)) \cap noack[n] = {}
    BY SMTT(20), <1>1 DEF Grounded, TypeOK, Remote
  <2> QED BY <2>1 DEF MakeMessage, InsertNoAck
<1>4. Remote(n) \subseteq Server
  BY DEF TypeOK, Remote
<1>5. net' \in SUBSET Packet /\ Truthful'
  <2>1. /\ Send(m, Remote(n)) \subseteq Packet
        /\ \A p \in Send(m, Remote(n)) : p.kind = "message" /\ p.msg = m
    BY <1>4, SendFact
  <2>2. m \in log'[m.server]
    BY <1>1, <1>2 DEF TypeOK
  <2> QED BY <1>2, <2>1, <2>2, TruthfulGrows
<1>6. TypeOK'
  BY <1>2, <1>3, <1>4, <1>5 DEF TypeOK
<1>7. Grounded'
  BY <1>2, <1>3, <1>4 DEF Grounded, TypeOK, Remote
<1>8. Owned'
  BY SMTT(20), <1>1, <1>2, MessageFields DEF Owned, TypeOK
<1>9. Once'
  BY SMTT(20), <1>1, <1>2, NoMessageFact DEF Once, NeverAgain, Grounded, TypeOK, Resting
<1>10. (Undisturbed => Responsible)'
  BY SMTT(20), <1>1, <1>2, <1>3 DEF Undisturbed, Responsible, MakerIsResponsible, Remote, TypeOK
<1> QED BY <1>5, <1>6, <1>7, <1>8, <1>9, <1>10

\* The handler takes a message; a new server is known from now on.
LEMMA HandlerTakeInv ==
    ASSUME Inv, NEW n \in Server, NEW m \in queue[n], HandlerTake(n, m)
    PROVE  Inv'
<1> USE DEF Inv
<1>1. /\ m \in Message /\ m \in log[n]
      /\ handler[n].step = "idle" /\ handler[n] = Resting
  BY DEF HandlerTake, TypeOK, Grounded
<1>2. /\ UNCHANGED <<log, processed, noack, listener, net, crashes>>
      /\ queue' = [queue EXCEPT ![n] = @ \ {m}]
  BY DEF HandlerTake
<1>3. /\ m \notin processed[n]
      /\ listener[n].step = "rows" => listener[n].msg # m
  BY DEF Once, NeverAgain
<1>4. Owned' /\ Truthful'
  BY <1>2 DEF Owned, Truthful
<1>5. CASE UNCHANGED <<peers, handler>>
  <2>1. TypeOK'
    BY <1>2, <1>5 DEF TypeOK
  <2>2. Grounded'
    BY <1>2, <1>5 DEF Grounded, TypeOK
  <2>3. Once'
    BY <1>2, <1>5 DEF Once, NeverAgain, TypeOK
  <2>4. (Undisturbed => Responsible)'
    BY <1>2, <1>5 DEF Undisturbed, Responsible, MakerIsResponsible, Remote
  <2> QED BY <1>4, <2>1, <2>2, <2>3, <2>4
<1>6. ASSUME NEW step \in {"rows", "done"},
             handler' = [handler EXCEPT ![n] = [step |-> step, msg |-> m]],
             \/ step = "done" /\ peers' = peers
             \/ /\ m.new \in Server /\ m.new \notin peers[n]
                /\ peers' = [peers EXCEPT ![n] = @ \cup {m.new}]
                /\ m.new # n => step = "rows"
             \* the row of the server itself makes no other server known
      PROVE  Inv'
  <2>1. TypeOK'
    BY SMTT(20), <1>1, <1>2, <1>6 DEF TypeOK
  <2>2. Grounded'
    BY SMTT(20), <1>1, <1>2, <1>6 DEF Grounded, TypeOK
  <2>3. Once'
    BY <1>1, <1>2, <1>3, <1>6 DEF Once, NeverAgain, TypeOK
  <2>4. (Undisturbed => Responsible)'
    <3> SUFFICES ASSUME Undisturbed PROVE Responsible'
      BY DEF Undisturbed
    <3>1. \A x \in Message : step = "rows" => <<x, m.new>> \notin noack[n]
      BY <1>6 DEF Grounded
    <3>2. (\A o \in Server :
              handler[o].step = "rows" =>
                  \A x \in Message : <<x, handler[o].msg.new>> \notin noack[o])'
      BY <1>2, <1>6, <3>1 DEF Responsible, TypeOK
    <3>3. MakerIsResponsible'
      BY SMTT(20), <1>1, <1>2, <1>6 DEF Responsible, MakerIsResponsible, Remote, TypeOK
    <3> QED BY <3>2, <3>3 DEF Responsible
  <2> QED BY <1>4, <2>1, <2>2, <2>3, <2>4
<1>7. CASE m.kind # "server"
  BY <1>6, <1>7 DEF HandlerTake
<1>8. CASE m.kind = "server" /\ m.new \notin peers[n]
  <2>1. m.new \in Server
    BY <1>1, <1>8, MessageFields
  <2> QED BY <1>6, <1>8, <2>1 DEF HandlerTake
<1>9. CASE m.kind = "server" /\ m.new \in peers[n]
  BY <1>5, <1>9 DEF HandlerTake
<1> QED BY <1>7, <1>8, <1>9

\* The rows for a new server.
LEMMA HandlerRowsInv ==
    ASSUME Inv, NEW n \in Server, HandlerRows(n)
    PROVE  Inv'
<1> USE DEF Inv
<1>1. /\ UNCHANGED <<log, processed, peers, queue, listener, net, crashes>>
      /\ handler[n].step = "rows" /\ handler[n].msg \in Message
      /\ handler' = [handler EXCEPT ![n] = [step |-> "done", msg |-> handler[n].msg]]
      /\ noack' = InsertNoAck(n, log[n] \X {handler[n].msg.new})
  BY SMTT(20) DEF HandlerRows, TypeOK, Resting
<1>2. PICK q \in Server : q = handler[n].msg.new /\ q \in peers[n]
  BY <1>1 DEF Grounded, TypeOK
<1>3. \/ noack' = noack
      \/ noack' = [noack EXCEPT ![n] = @ \cup (log[n] \X {q})]
  BY <1>1, <1>2 DEF InsertNoAck
<1>4. TypeOK'
  <2>1. log[n] \X {q} \subseteq Message \X Server
    BY DEF TypeOK
  <2>2. noack' \in [Server -> SUBSET (Message \X Server)]
    BY SMTT(20), <1>3, <2>1 DEF TypeOK
  <2> QED BY <1>1, <2>2 DEF TypeOK
<1>5. Grounded'
  <2>1. ASSUME NEW o \in Server, NEW m \in Message, NEW r \in Server, <<m, r>> \in noack'[o]
        PROVE  m \in log[o] /\ r \in peers[o]
    BY SMTT(20), <1>2, <1>3, <2>1 DEF Grounded, TypeOK
  <2> QED BY <1>1, <2>1 DEF Grounded, TypeOK
<1>6. Owned' /\ Truthful'
  BY <1>1 DEF Owned, Truthful
<1>7. Once'
  BY <1>1 DEF Once, NeverAgain, TypeOK
<1>8. (Undisturbed => Responsible)'
  <2> SUFFICES ASSUME Undisturbed PROVE Responsible'
    BY DEF Undisturbed
  <2>1. noack' = [noack EXCEPT ![n] = @ \cup (log[n] \X {q})]
    <3>1. (log[n] \X {q}) \cap noack[n] = {}
      BY SMTT(20), <1>1, <1>2 DEF Responsible, TypeOK
    <3> QED BY <1>1, <1>2, <3>1 DEF InsertNoAck
  <2>2. (\A o \in Server :
            handler[o].step = "rows" =>
                \A x \in Message : <<x, handler[o].msg.new>> \notin noack[o])'
    BY <1>1, <2>1 DEF Responsible, TypeOK
  <2>3. ASSUME NEW o \in Server, NEW r \in Remote(o), NEW x \in log[o], x.server = o
        PROVE  <<x, r>> \in noack'[o] \/ x \in log[r]
                  \/ (handler'[o].step = "rows" /\ handler'[o].msg.new = r)
    <3>1. \/ <<x, r>> \in noack[o] \/ x \in log[r]
          \/ handler[o].step = "rows" /\ handler[o].msg.new = r
      BY <2>3 DEF Responsible, MakerIsResponsible
    <3>2. CASE o = n
      BY <1>2, <2>1, <3>1, <3>2 DEF TypeOK
    <3>3. CASE o # n
      BY <1>1, <2>1, <3>1, <3>3 DEF TypeOK
    <3> QED BY <3>2, <3>3
  <2>4. MakerIsResponsible'
    BY <1>1, <2>3 DEF MakerIsResponsible, Remote
  <2> QED BY <2>2, <2>4 DEF Responsible
<1> QED BY <1>4, <1>5, <1>6, <1>7, <1>8

\* markProcessed.
LEMMA HandlerDoneInv ==
    ASSUME Inv, NEW n \in Server, HandlerDone(n)
    PROVE  Inv'
<1> USE DEF Inv
<1>1. /\ UNCHANGED <<log, peers, noack, queue, listener, net, crashes>>
      /\ handler[n].step = "done" /\ handler[n].msg \in Message /\ handler[n].msg \in log[n]
      /\ handler' = [handler EXCEPT ![n] = Resting]
      /\ processed' = [processed EXCEPT ![n] = @ \cup {handler[n].msg}]
  BY DEF HandlerDone, TypeOK, Resting, Grounded
<1>2. TypeOK'
  BY <1>1 DEF TypeOK
<1>3. Grounded'
  BY <1>1 DEF Grounded, TypeOK, Resting
<1>4. Owned' /\ Truthful'
  BY <1>1 DEF Owned, Truthful
<1>5. Once'
  BY SMTT(20), <1>1, NoMessageFact DEF Once, NeverAgain, TypeOK, Resting
<1>6. (Undisturbed => Responsible)'
  BY SMTT(20), <1>1 DEF Undisturbed, Responsible, MakerIsResponsible, Remote, TypeOK, Resting
<1> QED BY <1>2, <1>3, <1>4, <1>5, <1>6

\* A row is deleted when the acknowledgement is true.
LEMMA ReceiveAckInv ==
    ASSUME Inv, NEW n \in Server, NEW p \in net, ReceiveAck(n, p)
    PROVE  Inv' /\ p.msg \in log[p.by] /\ noack' = [noack EXCEPT ![n] = @ \ {<<p.msg, p.by>>}]
<1> USE DEF Inv
<1>1. /\ UNCHANGED <<log, processed, peers, queue, handler, listener, crashes>>
      /\ net' \subseteq net
      /\ noack' = [noack EXCEPT ![n] = @ \ {<<p.msg, p.by>>}]
      /\ p.msg \in log[p.by]
  BY DEF ReceiveAck, Received, Truthful, threads
<1>2. TypeOK'
  BY <1>1 DEF TypeOK
<1>3. Grounded'
  BY <1>1 DEF Grounded, TypeOK
<1>4. Owned' /\ Truthful'
  BY <1>1 DEF Owned, Truthful
<1>5. Once'
  BY <1>1 DEF Once, NeverAgain
<1>6. (Undisturbed => Responsible)'
  BY SMTT(20), <1>1 DEF Undisturbed, Responsible, MakerIsResponsible, Remote, TypeOK
<1> QED BY <1>1, <1>2, <1>3, <1>4, <1>5, <1>6

\* A message received is in its maker's log, and acknowledged when it is here.
LEMMA ReceiveMessageInv ==
    ASSUME Inv, NEW n \in Server, NEW p \in net, ReceiveMessage(n, p)
    PROVE  Inv'
<1> USE DEF Inv
<1>1. /\ UNCHANGED <<processed, peers, noack, queue, handler, crashes>>
      /\ p.msg \in Message /\ p.msg \in log[p.msg.server] /\ p.msg.server \in Server
      /\ listener[n].step = "idle"
  BY MessageFields DEF ReceiveMessage, Truthful, TypeOK, Packet
<1>2. Received(p) \in SUBSET net
  BY DEF Received
<1>3. CASE /\ p.msg \in log[n]
           /\ net' = Received(p) \cup Acks(n, p.msg)
           /\ UNCHANGED <<log, listener>>
  <2>1. net' \in SUBSET Packet /\ Truthful'
    <3>1. Acks(n, p.msg) \in SUBSET Packet
      BY <1>1, AcksFact
    <3>2. \A a \in Acks(n, p.msg) : /\ a.kind = "message" => a.msg \in log'[a.msg.server]
                                    /\ a.kind = "ack" => a.msg \in log'[a.by]
      BY SMTT(20), <1>1, <1>3, AcksFact
    <3>3. net' = Received(p) \cup Acks(n, p.msg) /\ log' = log
      BY <1>3
    <3> QED BY ZenonT(30), <1>1, <1>2, <3>1, <3>2, <3>3, TruthfulGrows
  <2>2. TypeOK'
    BY <1>1, <1>3, <2>1 DEF TypeOK
  <2>3. Grounded' /\ Owned' /\ Once'
    BY <1>1, <1>3 DEF Grounded, Owned, Once, NeverAgain
  <2>4. (Undisturbed => Responsible)'
    BY <1>1, <1>3 DEF Undisturbed, Responsible, MakerIsResponsible, Remote
  <2> QED BY <2>1, <2>2, <2>3, <2>4
<1>4. CASE net' = Received(p) /\ UNCHANGED <<log, listener>>
  <2>1. TypeOK'
    BY <1>1, <1>2, <1>4 DEF TypeOK
  <2>2. Grounded' /\ Owned' /\ Once' /\ Truthful'
    BY <1>1, <1>2, <1>4 DEF Grounded, Owned, Once, NeverAgain, Truthful
  <2>3. (Undisturbed => Responsible)'
    BY <1>1, <1>4 DEF Undisturbed, Responsible, MakerIsResponsible, Remote
  <2> QED BY <2>1, <2>2, <2>3
<1>5. CASE /\ p.msg \notin log[n]
           /\ net' = Received(p)
           /\ log' = [log EXCEPT ![n] = @ \cup {p.msg}]
           /\ listener' = [listener EXCEPT ![n] = [step |-> "rows", msg |-> p.msg]]
  <2>1. net' \in SUBSET Packet /\ Truthful'
    <3> DEFINE none == {}
    <3>1. net' = Received(p) \cup none /\ none \in SUBSET Packet
      BY <1>5
    <3>2. \A a \in none : /\ a.kind = "message" => a.msg \in log'[a.msg.server]
                          /\ a.kind = "ack" => a.msg \in log'[a.by]
      OBVIOUS
    <3> HIDE DEF none
    <3> QED BY <1>1, <1>2, <1>5, <3>1, <3>2, TruthfulGrows
  <2>2. TypeOK'
    BY <1>1, <1>5, <2>1 DEF TypeOK
  <2>3. Grounded'
    BY <1>1, <1>5 DEF Grounded, TypeOK
  <2>4. Owned'
    <3>1. p.msg.server # n
      BY <1>1, <1>5
    <3> QED BY SMTT(20), <1>1, <1>5, <3>1, MessageFields DEF Owned, TypeOK
  <2>5. Once'
    BY SMTT(20), <1>1, <1>5, NoMessageFact DEF Once, NeverAgain, Grounded, TypeOK, Resting
  <2>6. (Undisturbed => Responsible)'
    BY SMTT(20), <1>1, <1>5 DEF Undisturbed, Responsible, MakerIsResponsible, Remote, TypeOK
  <2> QED BY <2>1, <2>2, <2>3, <2>4, <2>5, <2>6
<1> QED BY <1>3, <1>4, <1>5 DEF ReceiveMessage

\* The rows of a message received, and the queue.
LEMMA ListenerRowsInv ==
    ASSUME Inv, NEW n \in Server, ListenerRows(n)
    PROVE  Inv'
<1> USE DEF Inv
<1>1. PICK m \in log[n] : m = listener[n].msg /\ listener[n].step = "rows"
  BY DEF ListenerRows, Grounded
<1>2. /\ m \in Message
      /\ UNCHANGED <<log, processed, peers, handler, net, crashes>>
      /\ Quiet => handler[n].step # "rows"
      /\ queue' = [queue EXCEPT ![n] = @ \cup {m}]
      /\ listener' = [listener EXCEPT ![n] = [step |-> "ack", msg |-> m]]
      /\ noack' = InsertNoAck(n, {m} \X (Remote(n) \ {m.server}))
  BY <1>1 DEF ListenerRows, TypeOK, MayWriteNoAck
<1>3. \/ noack' = noack
      \/ noack' = [noack EXCEPT ![n] = @ \cup ({m} \X (Remote(n) \ {m.server}))]
  BY <1>2 DEF InsertNoAck
<1>4. TypeOK'
  <2>1. {m} \X (Remote(n) \ {m.server}) \subseteq Message \X Server
    BY <1>2 DEF TypeOK, Remote
  <2>2. noack' \in [Server -> SUBSET (Message \X Server)]
    BY SMTT(20), <1>3, <2>1 DEF TypeOK
  <2> QED BY <1>2, <2>2 DEF TypeOK
<1>5. Grounded'
  <2>1. ASSUME NEW o \in Server, NEW x \in Message, NEW r \in Server, <<x, r>> \in noack'[o]
        PROVE  x \in log[o] /\ r \in peers[o]
    BY SMTT(20), <1>1, <1>3, <2>1 DEF Grounded, TypeOK, Remote
  <2> QED BY <1>1, <1>2, <2>1 DEF Grounded, TypeOK
<1>6. Owned' /\ Truthful'
  BY <1>2 DEF Owned, Truthful
<1>7. Once'
  BY <1>1, <1>2 DEF Once, NeverAgain, TypeOK
<1>8. (Undisturbed => Responsible)'
  <2> SUFFICES ASSUME Undisturbed PROVE Responsible'
    BY DEF Undisturbed
  <2>1. \A o \in Server : noack[o] \subseteq noack'[o] /\ (o # n => noack'[o] = noack[o])
    BY SMTT(20), <1>3 DEF TypeOK
  <2>2. MakerIsResponsible'
    <3>1. ASSUME NEW o \in Server, NEW r \in Remote(o), NEW x \in log[o], x.server = o
          PROVE  \/ <<x, r>> \in noack'[o] \/ x \in log[r]
                 \/ handler[o].step = "rows" /\ handler[o].msg.new = r
      BY SMTT(20), <2>1, <3>1 DEF Responsible, MakerIsResponsible
    <3> QED BY <1>2, <3>1 DEF MakerIsResponsible, Remote
  <2>3. (\A o \in Server :
            handler[o].step = "rows" =>
                \A x \in Message : <<x, handler[o].msg.new>> \notin noack[o])'
    BY <1>2, <2>1 DEF Responsible, Undisturbed
  <2> QED BY <2>2, <2>3 DEF Responsible
<1> QED BY <1>4, <1>5, <1>6, <1>7, <1>8

\* Packets are sent and nothing else changes.
LEMMA SendingInv ==
    ASSUME Inv, NEW new \in SUBSET Packet, NEW old \in SUBSET net,
           net' = old \cup new,
           \A p \in new : /\ p.kind = "message" => p.msg \in log[p.msg.server]
                          /\ p.kind = "ack" => p.msg \in log[p.by],
           UNCHANGED <<log, processed, peers, noack, queue, handler, crashes>>,
           listener' \in [Server -> {Resting} \cup [step : {"rows", "ack"}, msg : Message]],
           \A n \in Server : listener'[n] = listener[n] \/ listener'[n] = Resting
    PROVE  Inv'
<1> USE DEF Inv
<1>1. net' \in SUBSET Packet /\ Truthful'
  <2>1. ASSUME NEW p \in net'
        PROVE  /\ p.kind = "message" => p.msg \in log[p.msg.server]
               /\ p.kind = "ack" => p.msg \in log[p.by]
    BY DEF Truthful
  <2> QED BY <2>1 DEF Truthful, TypeOK
<1>2. TypeOK'
  BY <1>1 DEF TypeOK
<1>3. Grounded' /\ Owned'
  BY SMTT(20) DEF Grounded, Owned, Resting
<1>4. Once'
  BY SMTT(20) DEF Once, NeverAgain, Resting
<1>5. (Undisturbed => Responsible)'
  BY DEF Undisturbed, Responsible, MakerIsResponsible, Remote
<1> QED BY <1>1, <1>2, <1>3, <1>4, <1>5

\* The acknowledgement of a message that was stored.
LEMMA ListenerAckInv ==
    ASSUME Inv, NEW n \in Server, ListenerAck(n)
    PROVE  Inv'
<1>1. /\ listener[n].msg \in log[n] /\ listener[n].msg \in Message
      /\ net' = net \cup Acks(n, listener[n].msg)
      /\ listener' = [listener EXCEPT ![n] = Resting]
      /\ UNCHANGED <<log, processed, peers, noack, queue, handler, crashes>>
  BY DEF ListenerAck, Inv, Grounded, TypeOK, tables
<1>2. /\ Acks(n, listener[n].msg) \in SUBSET Packet
      /\ \A p \in Acks(n, listener[n].msg) :
            p.kind = "ack" /\ p.msg = listener[n].msg /\ p.by = n
  BY <1>1, AcksFact DEF Inv
<1>3. /\ listener' \in [Server -> {Resting} \cup [step : {"rows", "ack"}, msg : Message]]
      /\ \A o \in Server : listener'[o] = listener[o] \/ listener'[o] = Resting
  BY <1>1 DEF Inv, TypeOK
<1> QED BY ZenonT(30), <1>1, <1>2, <1>3, SendingInv

\* What is resent is in the log of the maker.
LEMMA ResendInv ==
    ASSUME Inv, NEW n \in Server, NEW q \in peers[n], Resend(n, q)
    PROVE  Inv'
<1>1. /\ UNCHANGED <<log, processed, peers, noack, queue, handler, listener, crashes>>
      /\ q \in Server
  BY DEF Resend, tables, threads, Inv, TypeOK
<1>2. PICK S \in SUBSET log[n] : net' = net \cup UNION {Send(m, {q}) : m \in S}
  <2>1. CASE {m \in Unacked(n, q) : m.kind = "server"} # {}
    <3> DEFINE S == {m \in Unacked(n, q) : m.kind = "server"}
    <3>1. S \in SUBSET log[n] /\ net' = net \cup UNION {Send(m, {q}) : m \in S}
      BY <2>1 DEF Resend, Unacked
    <3> HIDE DEF S
    <3> QED BY <3>1
  <2>2. CASE {m \in Unacked(n, q) : m.kind = "server"} = {}
    <3>1. PICK x \in Unacked(n, q) : net' = net \cup Send(x, {q})
      BY <2>2 DEF Resend, Oldest
    <3> DEFINE S == {x}
    <3>2. S \in SUBSET log[n]
      BY DEF Unacked
    <3>3. UNION {Send(m, {q}) : m \in S} = Send(x, {q})
      OBVIOUS
    <3> HIDE DEF S
    <3> QED BY <3>1, <3>2, <3>3
  <2> QED BY <2>1, <2>2
<1> DEFINE new == UNION {Send(m, {q}) : m \in S}
<1>3. \A m \in S : m \in Message /\ m \in log[m.server]
  BY DEF Inv, TypeOK, Owned
<1>4. \A p \in new : p \in Packet /\ p.kind = "message" /\ p.msg \in log[p.msg.server]
  <2>1. ASSUME NEW p \in new
        PROVE  p \in Packet /\ p.kind = "message" /\ p.msg \in log[p.msg.server]
    <3>1. PICK m \in S : p \in Send(m, {q})
      BY <2>1
    <3>2. {q} \in SUBSET Server
      BY <1>1
    <3> QED BY SMTT(20), <1>3, <3>1, <3>2, SendFact
  <2> QED BY <2>1
<1>5. net' = net \cup new
  BY <1>2
<1> HIDE DEF new
<1>6. new \in SUBSET Packet /\ \A p \in new : p.kind = "message" => p.msg \in log[p.msg.server]
  BY <1>4
<1>7. /\ listener' \in [Server -> {Resting} \cup [step : {"rows", "ack"}, msg : Message]]
      /\ \A o \in Server : listener'[o] = listener[o] \/ listener'[o] = Resting
  BY <1>1 DEF Inv, TypeOK
<1> QED BY <1>1, <1>4, <1>5, <1>6, <1>7, SendingInv

\* A lost packet.
LEMMA LoseInv ==
    ASSUME Inv, NEW p \in net, Lose(p)
    PROVE  Inv'
<1> DEFINE none == {}
<1> DEFINE old == net \ {p}
<1>1. /\ UNCHANGED <<log, processed, peers, noack, queue, handler, listener, crashes>>
      /\ net' = old \cup none /\ old \in SUBSET net /\ none \in SUBSET Packet
      /\ \A a \in none : /\ a.kind = "message" => a.msg \in log[a.msg.server]
                         /\ a.kind = "ack" => a.msg \in log[a.by]
  BY DEF Lose, tables, threads
<1>2. /\ listener' \in [Server -> {Resting} \cup [step : {"rows", "ack"}, msg : Message]]
      /\ \A o \in Server : listener'[o] = listener[o] \/ listener'[o] = Resting
  BY <1>1 DEF Inv, TypeOK
<1> HIDE DEF none, old
<1> QED BY <1>1, <1>2, SendingInv

\* A crash loses what is volatile; the queue is rebuilt from the tables.
LEMMA CrashInv ==
    ASSUME Inv, NEW n \in Server, Crash(n)
    PROVE  Inv'
<1> USE DEF Inv
<1>1. /\ UNCHANGED <<log, processed, peers, noack, net>>
      /\ crashes' = crashes + 1
      /\ queue' = [queue EXCEPT ![n] = {m \in log[n] \ processed[n] : Buildable(m)}]
      /\ handler' = [handler EXCEPT ![n] = Resting]
      /\ listener' = [listener EXCEPT ![n] = Resting]
      /\ handler[n].step = "rows" => "adding" \in CrashWindows
  BY DEF Crash, Reboot, Unprocessed
<1>2. TypeOK'
  BY SMTT(20), <1>1 DEF TypeOK
<1>3. Grounded'
  BY <1>1 DEF Grounded, TypeOK, Resting
<1>4. Owned' /\ Truthful'
  BY <1>1 DEF Owned, Truthful
<1>5. Once'
  BY <1>1, NoMessageFact DEF Once, NeverAgain, TypeOK, Resting
<1>6. (Undisturbed => Responsible)'
  BY SMTT(20), <1>1 DEF Undisturbed, Responsible, MakerIsResponsible, Remote, TypeOK, Resting
<1> QED BY <1>2, <1>3, <1>4, <1>5, <1>6

\* A crash inside putLocalMessage leaves a message without rows.
LEMMA CrashInPutInv ==
    ASSUME Inv, NEW n \in Server, NEW m \in Message, CrashInPut(n, m)
    PROVE  Inv'
<1> USE DEF Inv
<1>1. /\ UNCHANGED <<processed, peers, noack, net>>
      /\ log' = [log EXCEPT ![n] = @ \cup {m}]
      /\ crashes' = crashes + 1
      /\ queue' = [queue EXCEPT ![n] = {x \in log'[n] \ processed[n] : Buildable(x)}]
      /\ handler' = [handler EXCEPT ![n] = Resting]
      /\ listener' = [listener EXCEPT ![n] = Resting]
      /\ "putting" \in CrashWindows
  BY DEF CrashInPut, Reboot, Unprocessed
<1>2. /\ m \notin log[n] /\ m.server = n
      /\ \A o \in log[n] : o.server = n => o.id # m.id
  BY FreshFact DEF CrashInPut
<1>3. TypeOK'
  BY SMTT(20), <1>1 DEF TypeOK
<1>4. Grounded'
  BY <1>1 DEF Grounded, TypeOK, Resting
<1>5. Owned'
  BY SMTT(20), <1>1, <1>2, MessageFields DEF Owned, TypeOK
<1>6. Truthful'
  <2> DEFINE none == {}
  <2>1. /\ none \in SUBSET Packet /\ net' = net \cup none
        /\ \A a \in none : /\ a.kind = "message" => a.msg \in log'[a.msg.server]
                           /\ a.kind = "ack" => a.msg \in log'[a.by]
    BY <1>1
  <2> HIDE DEF none
  <2> QED BY <1>1, <2>1, TruthfulGrows
<1>7. Once'
  BY <1>1, NoMessageFact DEF Once, NeverAgain, TypeOK, Resting
<1>8. (Undisturbed => Responsible)'
  BY <1>1 DEF Undisturbed
<1> QED BY <1>3, <1>4, <1>5, <1>6, <1>7, <1>8

-----------------------------------------------------------------------------
\* The servers start with an invariant state.
LEMMA InitInv == Init => Inv
<1> SUFFICES ASSUME Init PROVE Inv
  OBVIOUS
<1>1. FirstMessages \subseteq Message
  <2>1. 0 \in 0..MaxTime /\ 1 \in Server
    BY SMTT(20), ServerAssumption, BoundAssumption DEF Master
  <2>2. DefaultGroup \in Message
    BY <2>1 DEF DefaultGroup, Message, MessageBy, Kind, Master
  <2>3. ASSUME NEW q \in Server, NEW i \in Nat PROVE CreateServer(q, i) \in Message
    BY <2>1 DEF CreateServer, Message, MessageBy, Kind, Master
  <2>4. 1 \in Nat /\ \A q \in Server : q + 1 \in Nat
    BY SMTT(20), ServerAssumption
  <2> QED BY <2>1, <2>2, <2>3, <2>4, ServerAssumption DEF FirstMessages, Master
<1>2. /\ \A m \in FirstMessages : m.server = Master
      /\ \A a, b \in FirstMessages : a.id = b.id => a = b
  BY SMTT(20), ServerAssumption DEF FirstMessages, CreateServer, DefaultGroup, Master
<1>3. /\ FirstLog \in [Server -> SUBSET Message]
      /\ \A n \in Server : FirstLog[n] \subseteq FirstMessages
      /\ FirstLog[Master] = FirstMessages
      /\ \A n \in Joined, m \in FirstMessages : Buildable(m) => m \in FirstLog[n]
  BY <1>1, ServerAssumption DEF FirstLog
<1>4. /\ noack \in [Server -> SUBSET (Message \X Server)]
      /\ \A n \in Server, m \in Message, q \in Server :
            <<m, q>> \in noack[n] <=>
                n = Master /\ m \in FirstMessages /\ q \in Joined \ {Master} /\ ~Buildable(m)
  BY <1>1, ServerAssumption DEF Init
<1>5. TypeOK
  BY <1>3, <1>4, ServerAssumption DEF Init, TypeOK
<1>6. Grounded
  BY <1>3, <1>4, ServerAssumption DEF Init, Grounded, Resting
<1>7. Owned
  BY <1>2, <1>3 DEF Init, Owned
<1>8. Truthful
  BY DEF Init, Truthful
<1>9. Once
  BY <1>3, NoMessageFact DEF Init, Once, NeverAgain, Resting
<1>10. Responsible
  <2>1. MakerIsResponsible
    <3>1. ASSUME NEW n \in Server, NEW q \in Remote(n), NEW m \in log[n], m.server = n
          PROVE  <<m, q>> \in noack[n] \/ m \in log[q]
      <4>1. n = Master /\ m \in FirstMessages /\ q \in Joined \ {Master} /\ m \in Message
        BY SMTT(20), <1>1, <1>2, <1>3, <3>1 DEF Init, Remote
      <4> QED BY <1>3, <1>4, <4>1, ServerAssumption DEF Init
    <3> QED BY <3>1 DEF MakerIsResponsible
  <2> QED BY <2>1 DEF Responsible, Init, Resting
<1> QED BY <1>5, <1>6, <1>7, <1>8, <1>9, <1>10 DEF Inv

\* Every step keeps the invariant.
LEMMA NextInv == Inv /\ [Next]_vars => Inv'
<1> SUFFICES ASSUME Inv, [Next]_vars PROVE Inv'
  OBVIOUS
<1>1. ASSUME NEW n \in Server, NEW m \in Made(n), MakeMessage(n, m) PROVE Inv'
  BY <1>1, MadeIsMessage, MakeMessageInv
<1>2. ASSUME NEW n \in Server, NEW m \in Made(n), CrashInPut(n, m) PROVE Inv'
  BY <1>2, MadeIsMessage, CrashInPutInv
<1>3. ASSUME NEW n \in Server, NEW m \in queue[n], HandlerTake(n, m) PROVE Inv'
  BY <1>3, HandlerTakeInv
<1>4. ASSUME NEW n \in Server, Handle(n) PROVE Inv'
  BY <1>4, HandlerRowsInv, HandlerDoneInv DEF Handle
<1>5. ASSUME NEW n \in Server, Listen(n) PROVE Inv'
  BY <1>5, ListenerRowsInv, ListenerAckInv DEF Listen
<1>6. ASSUME NEW n \in Server, Crash(n) PROVE Inv'
  BY <1>6, CrashInv
<1>7. ASSUME NEW n \in Server, NEW p \in net, ReceiveAck(n, p) PROVE Inv'
  BY <1>7, ReceiveAckInv
<1>8. ASSUME NEW n \in Server, NEW p \in net, ReceiveMessage(n, p) PROVE Inv'
  BY <1>8, ReceiveMessageInv
<1>9. ASSUME NEW n \in Server, NEW q \in peers[n], Resend(n, q) PROVE Inv'
  BY <1>9, ResendInv
<1>10. ASSUME NEW p \in net, Lose(p) PROVE Inv'
  BY SMTT(20), <1>10, LoseInv
<1>11. CASE UNCHANGED vars
  <2>1. UNCHANGED <<log, processed, peers, noack, queue, handler, listener, net, crashes>>
    BY <1>11 DEF vars, tables, threads
  <2>2. TypeOK'
    BY <2>1 DEF Inv, TypeOK
  <2>3. Grounded' /\ Owned'
    BY <2>1 DEF Inv, Grounded, Owned
  <2>4. Truthful' /\ Once'
    BY <2>1 DEF Inv, Truthful, Once, NeverAgain
  <2>5. Undisturbed => Responsible'
    BY <2>1 DEF Inv, Responsible, MakerIsResponsible, Remote
  <2> QED BY <2>2, <2>3, <2>4, <2>5 DEF Inv, Undisturbed
<1> QED BY <1>1, <1>2, <1>3, <1>4, <1>5, <1>6, <1>7, <1>8, <1>9, <1>10, <1>11 DEF Next

\* The invariant holds in every reachable state: tables, threads and packets
\* agree, over any loss, duplication and crash of the servers.
THEOREM PeerInvariant == Spec => []Inv
BY InitInv, NextInv, PTL DEF Spec

\* The variables of PeerReplication keep their types.
THEOREM PeerTypeCorrect == Spec => []TypeOK
BY PeerInvariant, PTL DEF Inv

\* A message marked processed is never queued or handled again: the
\* hasMessage check of getMessage and the processed column suffice.
THEOREM ProcessedOnce == Spec => []NeverAgain
BY PeerInvariant, PTL DEF Inv, Once

\* Where nothing disturbs addServer and putLocalMessage, the maker of a
\* message keeps a row for every known server that lacks the message.
THEOREM MakerKeepsTrack == Undisturbed /\ Spec => []MakerIsResponsible
<1>1. Undisturbed /\ Inv => MakerIsResponsible
  BY DEF Inv, Responsible
<1>2. Undisturbed => []Undisturbed
  <2>1. Undisturbed => Undisturbed'
    BY DEF Undisturbed
  <2> QED BY <2>1, PTL DEF Undisturbed
<1> QED BY <1>1, <1>2, PeerInvariant, PTL

\* The row of a message and a server goes only when the server has stored the
\* message: an acknowledgement in flight is always true (Truthful).
THEOREM RowsAreKept == Spec => ForgottenOnlyIfStored
<1> DEFINE Kept == \A n, q \in Server : \A m \in log[n] :
                      <<m, q>> \in noack[n] /\ <<m, q>> \notin noack'[n] => m \in log[q]
<1>1. Inv /\ [Next]_vars => [Kept]_vars
  <2> SUFFICES ASSUME Inv, Next PROVE Kept
    BY SMTT(20)
  <2>1. ASSUME NEW n \in Server, NEW m \in Made(n), MakeMessage(n, m) PROVE Kept
    BY <2>1 DEF MakeMessage, InsertNoAck, Inv, TypeOK
  <2>2. ASSUME NEW n \in Server, HandlerRows(n) PROVE Kept
    BY <2>2 DEF HandlerRows, InsertNoAck, Inv, TypeOK
  <2>3. ASSUME NEW n \in Server, ListenerRows(n) PROVE Kept
    BY SMTT(20), <2>3 DEF ListenerRows, InsertNoAck, Inv, TypeOK
  <2>4. ASSUME NEW n \in Server, NEW p \in net, ReceiveAck(n, p) PROVE Kept
    BY SMTT(20), <2>4, ReceiveAckInv DEF Inv, TypeOK
  <2>5. ASSUME noack' = noack PROVE Kept
    BY SMTT(20), <2>5
  <2>6. ASSUME NEW n \in Server,
               \/ \E m \in Made(n) : CrashInPut(n, m)
               \/ \E m \in queue[n] : HandlerTake(n, m)
               \/ HandlerDone(n) \/ ListenerAck(n) \/ Crash(n)
               \/ \E p \in net : ReceiveMessage(n, p)
               \/ \E q \in peers[n] : Resend(n, q)
        PROVE  Kept
    BY <2>5, <2>6 DEF CrashInPut, Reboot, HandlerTake, HandlerDone, ListenerAck, Crash,
                      ReceiveMessage, Resend, tables
  <2>7. ASSUME NEW p \in net, Lose(p) PROVE Kept
    BY <2>5, <2>7 DEF Lose, tables
  <2> HIDE DEF Kept
  <2> QED BY <2>1, <2>2, <2>3, <2>4, <2>6, <2>7 DEF Next, Handle, Listen
<1> QED BY <1>1, PeerInvariant, PTL DEF Spec, ForgottenOnlyIfStored, Kept

-----------------------------------------------------------------------------
(* The refinement of the abstract message log.                             *)

\* A message that is made has an identity no server knows: the maker has all
\* its own messages (Owned).
LEMMA MadeIsNew ==
    ASSUME Inv, NEW n \in Server, NEW m \in Message, Fresh(n, m),
           log' = [log EXCEPT ![n] = @ \cup {m}]
    PROVE  Abstract!Next
<1>1. /\ m \notin log[n] /\ m.server = n
      /\ \A o \in log[n] : o.server = n => o.id # m.id
  BY FreshFact DEF Inv
<1>2. m \in log'[n] \ log[n]
  BY <1>1 DEF Inv, TypeOK
<1>3. ASSUME NEW o \in Server, NEW x \in log[o] PROVE ~Abstract!SameIdentity(x, m)
  BY <1>1, <1>3 DEF Inv, Owned, Abstract!SameIdentity
<1>4. Abstract!Make(n, m)
  BY <1>1, <1>3 DEF Abstract!Make
<1> QED BY <1>2, <1>4 DEF Abstract!Next

\* A message that arrives is in the log of its maker: packets carry what was
\* stored before they were sent (Truthful).
LEMMA ReceivedIsCopy ==
    ASSUME Inv, NEW n \in Server, NEW p \in net, ReceiveMessage(n, p)
    PROVE  Abstract!Next \/ UNCHANGED log
<1>1. CASE UNCHANGED log
  BY <1>1
<1>2. CASE /\ p.msg \notin log[n]
           /\ log' = [log EXCEPT ![n] = @ \cup {p.msg}]
  <2>1. p.msg \in log[p.msg.server] /\ p.msg.server \in Server
    BY MessageFields DEF ReceiveMessage, Inv, Truthful, TypeOK, Packet
  <2>2. p.msg \in log'[n] \ log[n]
    BY <1>2 DEF Inv, TypeOK
  <2>3. Abstract!Copy(n, p.msg)
    BY <1>2, <2>1 DEF Abstract!Copy
  <2> QED BY <2>2, <2>3 DEF Abstract!Next
<1> QED BY <1>1, <1>2 DEF ReceiveMessage

\* PeerReplication implements MessageLog: logs only grow, by messages with
\* new identities and by copies, whatever is lost, repeated or restarted.
THEOREM ImplementsMessageLog == Spec => LogsAreCopies
<1>1. Init => Abstract!Init
  BY SMTT(20) DEF Init, Abstract!Init
<1>2. Inv /\ [Next]_vars => [Abstract!Next]_log
  <2> SUFFICES ASSUME Inv, [Next]_vars PROVE Abstract!Next \/ UNCHANGED log
    OBVIOUS
  <2>1. ASSUME NEW n \in Server, NEW m \in Made(n), MakeMessage(n, m) \/ CrashInPut(n, m)
        PROVE  Abstract!Next
    BY <2>1, MadeIsMessage, MadeIsNew DEF MakeMessage, CrashInPut
  <2>2. ASSUME NEW n \in Server, NEW p \in net, ReceiveMessage(n, p)
        PROVE  Abstract!Next \/ UNCHANGED log
    BY SMTT(20), <2>2, ReceivedIsCopy
  <2>3. ASSUME NEW n \in Server,
               \/ \E m \in queue[n] : HandlerTake(n, m)
               \/ Handle(n) \/ Listen(n) \/ Crash(n)
               \/ \E p \in net : ReceiveAck(n, p)
               \/ \E q \in peers[n] : Resend(n, q)
        PROVE  UNCHANGED log
    BY <2>3 DEF HandlerTake, Handle, HandlerRows, HandlerDone, Listen, ListenerRows,
                ListenerAck, Crash, ReceiveAck, Resend, tables
  <2>4. ASSUME NEW p \in net, Lose(p) PROVE UNCHANGED log
    BY <2>4 DEF Lose, tables
  <2>5. CASE UNCHANGED vars
    BY <2>5 DEF vars, tables
  <2> QED BY <2>1, <2>2, <2>3, <2>4, <2>5 DEF Next
<1> QED BY <1>1, <1>2, PeerInvariant, PTL DEF Spec, LogsAreCopies, Abstract!Spec

-----------------------------------------------------------------------------
(* The ids in the messages.                                                *)

\* the assumption of the theorems
WellNumbered == CleanRestarts /\ IdServer \subseteq 1 .. Granularity - 1

\* whatever a server gives out is in its residue class
InClass ==
    /\ \A n \in IdServer :
          /\ cur_max_id[n] # 0 => cur_max_id[n] % Granularity = n
          /\ \A i \in held[n] : i % Granularity = n
    /\ \A n \in IdServer : \A m \in id_log[n] : m.sub % Granularity = m.server

\* rows come from messages, and messages from the log of their maker
IdGrounded ==
    \A n \in IdServer :
        /\ table[n] \subseteq id_log[n]
        /\ \A m \in id_log[n] : m \in id_log[m.server]
        /\ IsFiniteSet(id_log[n])

\* the static variable is at or above what was given out; when it is 0 the
\* table shows everything that was
Covered ==
    \A n \in IdServer :
        /\ \A i \in held[n] :
              i <= cur_max_id[n] /\ \A m \in id_log[n] : m.server = n => m.sub # i
        /\ \A m \in id_log[n] : m.server = n =>
              IF cur_max_id[n] = 0 THEN m \in table[n] ELSE m.sub <= cur_max_id[n]
        /\ cur_max_id[n] = 0 => held[n] = {}

\* the maker's own messages differ in their ids
Distinct ==
    \A n \in IdServer : \A a, b \in id_log[n] :
        a.server = n /\ b.server = n /\ a.sub = b.sub => a = b

IdInv ==
    /\ IdTypeOK /\ IdGrounded
    /\ WellNumbered => InClass /\ Covered /\ Distinct

-----------------------------------------------------------------------------
(* Residues.                                                               *)

\* A residue is its own residue.
LEMMA ModSmall == ASSUME NEW g \in Nat \ {0}, NEW n \in 0 .. g - 1 PROVE n % g = n
BY SMT

\* Quotient and residue are unique.
LEMMA ModUnique ==
    ASSUME NEW g \in Nat \ {0}, NEW q \in Int, NEW r \in 0 .. g - 1, NEW a \in Int,
           a = q * g + r
    PROVE  a % g = r
BY SMT

\* Adding the modulus keeps the residue.
LEMMA ModShift == ASSUME NEW g \in Nat \ {0}, NEW a \in Nat PROVE (a + g) % g = a % g
<1> DEFINE q == a \div g
           r == a % g
<1>1. q \in Int /\ r \in 0 .. g - 1 /\ a = q * g + r
  BY SMT
<1> HIDE DEF q, r
<1>2. a + g = (q + 1) * g + r /\ q + 1 \in Int /\ a + g \in Int
  BY <1>1, SMT
<1>3. (a + g) % g = r
  BY SMTT(20), <1>1, <1>2, ModUnique
<1> QED BY <1>3 DEF r

-----------------------------------------------------------------------------
(* The actions.                                                            *)

\* What nextSubmissionId gives out is in the class of the server and above
\* every id of the server that is in use.
LEMMA NextIdFact ==
    ASSUME IdInv, NEW n \in IdServer, NEW x \in OwnIds(n) \cup {0}, NextSubmissionId(n, x)
    PROVE  \E i \in Nat \ {0} :
              /\ cur_max_id' = [cur_max_id EXCEPT ![n] = i]
              /\ held' = [held EXCEPT ![n] = @ \cup {i}]
              /\ UNCHANGED <<id_log, table, restarts>>
              /\ WellNumbered =>
                    /\ i % Granularity = n /\ i > cur_max_id[n]
                    /\ \A m \in id_log[n] : m.server = n => m.sub < i
<1>0. n \in Nat \ {0} /\ Granularity \in Nat \ {0} /\ cur_max_id[n] \in Nat
  BY IdAssumption DEF IdInv, IdTypeOK
<1>1. x \in Nat
  BY SMTT(20) DEF OwnIds, IdInv, IdTypeOK, SubmissionMessage
<1> DEFINE last == IF cur_max_id[n] = 0 THEN x ELSE cur_max_id[n]
           i == IF last = 0 THEN n ELSE last + Granularity
<1>2. i \in Nat \ {0} /\ last \in Nat
  BY SMTT(20), <1>0, <1>1
<1>3. /\ cur_max_id' = [cur_max_id EXCEPT ![n] = i]
      /\ held' = [held EXCEPT ![n] = @ \cup {i}]
      /\ UNCHANGED <<id_log, table, restarts>>
      /\ cur_max_id[n] = 0 => IsMaxSubmissionId(n, x)
  BY DEF NextSubmissionId
<1>4. ASSUME WellNumbered
      PROVE  /\ i % Granularity = n /\ i > cur_max_id[n]
             /\ \A m \in id_log[n] : m.server = n => m.sub < i
  <2>0. InClass /\ Covered /\ n \in 0 .. Granularity - 1
    BY SMTT(20), <1>0, <1>4 DEF IdInv, WellNumbered
  <2>1. ASSUME NEW m \in id_log[n], m.server = n, cur_max_id[n] = 0
        PROVE  m.sub \in OwnIds(n)
    <3>1. m \in table[n] /\ m.sub % Granularity = n
      BY <2>0, <2>1 DEF Covered, InClass
    <3> QED BY <3>1 DEF OwnIds
  <2>2. last # 0 => last % Granularity = n
    <3>1. CASE cur_max_id[n] # 0
      BY <2>0, <3>1 DEF InClass
    <3>2. CASE cur_max_id[n] = 0
      BY <3>2 DEF OwnIds
    <3> QED BY <3>1, <3>2
  <2>3. i % Granularity = n
    <3>1. CASE last = 0
      BY <1>0, <2>0, <3>1, ModSmall
    <3>2. CASE last # 0
      BY <1>0, <1>2, <2>2, <3>2, ModShift
    <3> QED BY <3>1, <3>2
  <2>4. i > cur_max_id[n] /\ i > last
    BY SMTT(20), <1>0, <1>1
  <2>5. ASSUME NEW m \in id_log[n], m.server = n PROVE m.sub <= last /\ (last = 0 => FALSE)
    <3>1. m.sub \in Nat
      BY SMTT(20) DEF IdInv, IdTypeOK, SubmissionMessage
    <3>2. CASE cur_max_id[n] # 0
      BY <2>0, <2>5, <3>2 DEF Covered
    <3>3. CASE cur_max_id[n] = 0
      <4>1. m.sub \in OwnIds(n) /\ m.sub <= x /\ x \in OwnIds(n)
        BY <1>3, <2>1, <2>5, <3>3 DEF IsMaxSubmissionId
      <4>2. x % Granularity = n
        BY <4>1 DEF OwnIds
      <4>3. x # 0
        <5>1. 0 \in 0 .. Granularity - 1
          BY SMTT(20), <1>0
        <5>2. 0 % Granularity = 0
          BY <1>0, <5>1, ModSmall
        <5> QED BY <1>0, <4>2, <5>2
      <4> QED BY <3>3, <4>1, <4>3
    <3> QED BY <3>2, <3>3
  <2>6. ASSUME NEW m \in id_log[n], m.server = n PROVE m.sub < i
    <3>1. m.sub \in Nat
      BY SMTT(20) DEF IdInv, IdTypeOK, SubmissionMessage
    <3> QED BY SMTT(20), <1>2, <2>4, <2>5, <2>6, <3>1
  <2> QED BY <2>3, <2>4, <2>6
<1> QED BY <1>2, <1>3, <1>4

\* A server starts with nothing given out.
LEMMA IdInitInv == IdInit => IdInv
<1> SUFFICES ASSUME IdInit PROVE IdInv
  OBVIOUS
<1>1. id_log = [n \in IdServer |-> {}]
  BY DEF IdInit, Log!Init
<1>2. IdTypeOK
  BY <1>1 DEF IdInit, IdTypeOK
<1>3. IdGrounded
  BY <1>1, FS_EmptySet DEF IdInit, IdGrounded
<1>4. InClass /\ Covered /\ Distinct
  BY <1>1 DEF IdInit, InClass, Covered, Distinct
<1> QED BY <1>2, <1>3, <1>4 DEF IdInv

\* nextSubmissionId keeps the invariant.
LEMMA NextIdInv ==
    ASSUME IdInv, NEW n \in IdServer, NEW x \in OwnIds(n) \cup {0}, NextSubmissionId(n, x)
    PROVE  IdInv'
<1> USE DEF IdInv
<1>1. PICK i \in Nat \ {0} :
         /\ cur_max_id' = [cur_max_id EXCEPT ![n] = i]
         /\ held' = [held EXCEPT ![n] = @ \cup {i}]
         /\ UNCHANGED <<id_log, table, restarts>>
         /\ WellNumbered =>
               /\ i % Granularity = n /\ i > cur_max_id[n]
               /\ \A m \in id_log[n] : m.server = n => m.sub < i
  BY NextIdFact
<1>2. IdTypeOK'
  BY <1>1 DEF IdTypeOK
<1>3. IdGrounded'
  BY <1>1 DEF IdGrounded
<1>4. ASSUME WellNumbered PROVE InClass' /\ Covered' /\ Distinct'
  <2>1. InClass'
    BY <1>1, <1>4 DEF InClass, IdTypeOK
  <2>2. ASSUME NEW q \in IdServer, NEW m \in id_log[q], NEW j \in held'[q]
        PROVE  m.server = q => m.sub # j
    BY SMTT(20), <1>1, <1>4, <2>2 DEF Covered, IdTypeOK, SubmissionMessage
  <2>3. ASSUME NEW q \in IdServer
        PROVE  /\ \A j \in held'[q] : j <= cur_max_id'[q]
               /\ cur_max_id'[q] = 0 => held'[q] = {}
    BY SMTT(20), <1>1, <1>4, <2>3 DEF Covered, IdTypeOK
  <2>4. ASSUME NEW q \in IdServer, NEW m \in id_log[q], m.server = q
        PROVE  IF cur_max_id'[q] = 0 THEN m \in table[q] ELSE m.sub <= cur_max_id'[q]
    BY SMTT(20), <1>1, <1>4, <2>4 DEF Covered, IdTypeOK, SubmissionMessage
  <2>5. Covered'
    BY SMTT(20), <1>1, <2>2, <2>3, <2>4 DEF Covered
  <2>6. Distinct'
    BY <1>1, <1>4 DEF Distinct
  <2> QED BY <2>1, <2>5, <2>6
<1> QED BY <1>2, <1>3, <1>4 DEF WellNumbered

\* makeMessage keeps the invariant: the id the worker holds is unused.
LEMMA TriggerMessageInv ==
    ASSUME IdInv, NEW n \in IdServer, NEW i \in held[n], TriggerMessage(n, i)
    PROVE  IdInv'
<1> USE DEF IdInv
<1> DEFINE own == {m \in id_log[n] : m.server = n}
<1>0. Cardinality(own) + 1 \in Nat /\ i \in Nat
  <2>1. IsFiniteSet(own)
    BY FS_Subset DEF IdGrounded
  <2> QED BY SMTT(20), <2>1, FS_CardinalityType DEF IdTypeOK
<1>1. PICK m \in SubmissionMessage :
         /\ m.server = n /\ m.sub = i
         /\ id_log' = [id_log EXCEPT ![n] = @ \cup {m}]
  <2> HIDE DEF own
  <2>1. [server |-> n, id |-> Cardinality(own) + 1, sub |-> i] \in SubmissionMessage
    BY <1>0 DEF SubmissionMessage
  <2> QED BY <2>1 DEF TriggerMessage, own, Log!Make
<1>2. /\ held' = [held EXCEPT ![n] = @ \ {i}]
      /\ UNCHANGED <<cur_max_id, table, restarts>>
  BY DEF TriggerMessage
<1>3. IdTypeOK'
  BY <1>1, <1>2 DEF IdTypeOK
<1>4. IdGrounded'
  <2>1. IsFiniteSet(id_log[n] \cup {m})
    BY FS_AddElement DEF IdGrounded
  <2> QED BY SMTT(20), <1>1, <1>2, <2>1 DEF IdGrounded, IdTypeOK, SubmissionMessage
<1>5. ASSUME WellNumbered PROVE InClass' /\ Covered' /\ Distinct'
  <2>1. InClass'
    BY <1>1, <1>2, <1>5 DEF InClass, IdTypeOK
  <2>2. Covered'
    BY SMTT(20), <1>1, <1>2, <1>5 DEF Covered, IdTypeOK
  <2>3. Distinct'
    BY SMTT(20), <1>1, <1>2, <1>5 DEF Covered, Distinct, IdTypeOK
  <2> QED BY <2>1, <2>2, <2>3
<1> QED BY <1>3, <1>4, <1>5 DEF WellNumbered

\* A copy never brings a server a message of its own.
LEMMA DeliverInv ==
    ASSUME IdInv, NEW n \in IdServer, NEW q \in IdServer, NEW m \in id_log[q], Deliver(n, m)
    PROVE  IdInv'
<1> USE DEF IdInv
<1>1. /\ m \in SubmissionMessage /\ m \notin id_log[n] /\ m \in id_log[m.server]
      /\ id_log' = [id_log EXCEPT ![n] = @ \cup {m}]
      /\ UNCHANGED <<cur_max_id, held, table, restarts>>
  BY DEF Deliver, Log!Copy, IdGrounded, IdTypeOK
<1>2. m.server # n /\ m.server \in IdServer
  BY <1>1 DEF SubmissionMessage
<1>3. IdTypeOK'
  BY <1>1 DEF IdTypeOK
<1>4. IdGrounded'
  <2>1. IsFiniteSet(id_log[n] \cup {m})
    BY SMTT(20), FS_AddElement DEF IdGrounded
  <2> QED BY SMTT(20), <1>1, <2>1 DEF IdGrounded, IdTypeOK, SubmissionMessage
<1>5. ASSUME WellNumbered PROVE InClass' /\ Covered' /\ Distinct'
  <2>1. InClass'
    BY <1>1, <1>5 DEF InClass, IdTypeOK
  <2>2. Covered'
    BY <1>1, <1>2, <1>5 DEF Covered, IdTypeOK
  <2>3. Distinct'
    BY <1>1, <1>2, <1>5 DEF Distinct, IdTypeOK
  <2> QED BY <2>1, <2>2, <2>3
<1> QED BY <1>3, <1>4, <1>5 DEF WellNumbered

\* A lost id, a new row and a clean restart keep the invariant.
LEMMA OtherInv ==
    ASSUME IdInv, NEW n \in IdServer,
           \/ \E i \in held[n] : MakeFails(n, i)
           \/ Processing(n)
           \/ Restart(n)
    PROVE  IdInv'
<1> USE DEF IdInv
<1>1. ASSUME NEW i \in held[n], MakeFails(n, i) PROVE IdInv'
  <2>1. /\ held' = [held EXCEPT ![n] = @ \ {i}]
        /\ UNCHANGED <<cur_max_id, id_log, table, restarts>>
    BY <1>1 DEF MakeFails
  <2>2. IdTypeOK' /\ IdGrounded'
    BY <2>1 DEF IdTypeOK, IdGrounded
  <2>3. ASSUME WellNumbered PROVE InClass' /\ Covered' /\ Distinct'
    BY <2>1, <2>3 DEF InClass, Covered, Distinct, IdTypeOK
  <2> QED BY <2>2, <2>3 DEF WellNumbered
<1>2. ASSUME NEW m \in id_log[n], Process(n, m) PROVE IdInv'
  <2>1. /\ table' = [table EXCEPT ![n] = @ \cup {m}]
        /\ UNCHANGED <<cur_max_id, held, id_log, restarts>>
    BY <1>2 DEF Process
  <2>2. IdTypeOK' /\ IdGrounded'
    BY <1>2, <2>1 DEF IdTypeOK, IdGrounded
  <2>3. ASSUME WellNumbered PROVE InClass' /\ Covered' /\ Distinct'
    BY <2>1, <2>3 DEF InClass, Covered, Distinct, IdTypeOK
  <2> QED BY <2>2, <2>3 DEF WellNumbered
<1>3. ASSUME Restart(n) PROVE IdInv'
  <2>1. /\ cur_max_id' = [cur_max_id EXCEPT ![n] = 0]
        /\ held' = [held EXCEPT ![n] = {}]
        /\ restarts' = restarts + 1
        /\ UNCHANGED <<id_log, table>>
        /\ CleanRestarts => \A m \in id_log[n] : m.server = n => m \in table[n]
    BY <1>3 DEF Restart
  <2>2. IdTypeOK' /\ IdGrounded'
    BY SMTT(20), <2>1 DEF IdTypeOK, IdGrounded
  <2>3. ASSUME WellNumbered PROVE InClass' /\ Covered' /\ Distinct'
    BY <2>1, <2>3 DEF InClass, Covered, Distinct, IdTypeOK, WellNumbered
  <2> QED BY <2>2, <2>3 DEF WellNumbered
<1> QED BY <1>1, <1>2, <1>3 DEF Processing

\* Every step keeps the invariant.
LEMMA IdNextInv == IdInv /\ [IdNext]_idVars => IdInv'
<1> SUFFICES ASSUME IdInv, [IdNext]_idVars PROVE IdInv'
  OBVIOUS
<1>1. CASE UNCHANGED idVars
  BY <1>1 DEF idVars, IdInv, IdTypeOK, IdGrounded, InClass, Covered, Distinct, WellNumbered
<1>2. CASE IdNext
  BY <1>2, NextIdInv, TriggerMessageInv, DeliverInv, OtherInv DEF IdNext, Deliveries
<1> QED BY <1>1, <1>2

\* The invariant holds in every reachable state.
THEOREM IdInvariant == IdSpec => []IdInv
BY IdInitInv, IdNextInv, PTL DEF IdSpec

\* The variables of IdAllocation keep their types.
THEOREM IdTypeCorrect == IdSpec => []IdTypeOK
BY IdInvariant, PTL DEF IdInv

\* With server ids below Granularity and clean restarts, no two submissions
\* of the contest have the same id.
THEOREM IdsAreUnique == ASSUME WellNumbered PROVE IdSpec => []UniqueIds
<1>1. IdInv => UniqueIds
  <2> SUFFICES ASSUME IdInv, NEW n \in IdServer, NEW q \in IdServer,
                      NEW a \in id_log[n], NEW b \in id_log[q], a.sub = b.sub
               PROVE  a = b
    BY DEF UniqueIds, Log!SameIdentity
  <2>1. InClass /\ Distinct /\ IdGrounded /\ IdTypeOK
    BY WellNumbered DEF IdInv
  <2>2. a.server = b.server /\ a.server \in IdServer
    BY SMTT(20), <2>1 DEF InClass, IdTypeOK, SubmissionMessage
  <2> QED BY <2>1, <2>2 DEF Distinct, IdGrounded
<1> QED BY <1>1, IdInvariant, PTL

\* Under the same assumption a server's ids only grow.
THEOREM IdsOnlyGrow == ASSUME WellNumbered PROVE IdSpec => IdsGrow
<1> DEFINE Above == \A n \in IdServer : \A i \in held'[n] \ held[n] :
                       \A m \in id_log[n] : m.server = n => m.sub < i
<1>1. IdInv /\ [IdNext]_idVars => [Above]_idVars
  <2> SUFFICES ASSUME IdInv, IdNext PROVE Above
    OBVIOUS
  <2>1. ASSUME NEW n \in IdServer, NEW x \in OwnIds(n) \cup {0}, NextSubmissionId(n, x)
        PROVE  Above
    BY SMTT(20), <2>1, NextIdFact DEF IdInv, IdTypeOK
  <2>2. ASSUME NEW n \in IdServer,
               \/ \E i \in held[n] : TriggerMessage(n, i) \/ MakeFails(n, i)
               \/ Deliveries(n)
               \/ Processing(n)
               \/ Restart(n)
        PROVE  Above
    BY <2>2 DEF TriggerMessage, MakeFails, Deliveries, Deliver, Processing, Process, Restart,
                IdInv, IdTypeOK
  <2> QED BY <2>1, <2>2 DEF IdNext
<1> QED BY <1>1, IdInvariant, PTL DEF IdSpec, IdsGrow, Above
=============================================================================
