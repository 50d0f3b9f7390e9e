----------------------------- MODULE Messengers -----------------------------
(* The two PeerMessenger implementations between a server that makes         *)
(* messages and one that receives them.                                      *)
(*                                                                           *)
(* udpmessenger cuts the blob of a message into fragments, sends them in     *)
(* random order and puts them together again in getMessage, which the        *)
(* listener thread of the receiver calls.  udtcpmessenger sends a small      *)
(* message in one datagram and announces a large one; a worker thread takes  *)
(* the datagrams, and a queue hands the messages to the listener.            *)
(*                                                                           *)
(* A frame that fails to decrypt, has a wrong length or a wrong checksum is  *)
(* discarded by its receiver, which is a loss.                               *)
EXTENDS MessageCodec

CONSTANTS
    FragBits,       \* the width of fragment_num and of numfrags, 16 in the code
    DelayBits,      \* the width of a delay, 32
    MinFragment, MaxFragment,   \* MIN_FRAGMENT_SIZE, MAX_FRAGMENT_SIZE
    MaxUdpMessage,  \* MAX_UDP_MESSAGE_SIZE of udtcpmessenger
    MinDelay,       \* the least min_delay, 100
    DelayRatio,     \* the least max_delay : min_delay, 1000
    Settings,       \* the configurations: messenger, fragment, min, init, max
    Makeable,       \* the messages the sender may make
    MaxMade,        \* bound: messages made
    MaxInbox        \* bound: messages waiting for the listener

\* The delays fit their width, doubled too; a message has fewer fragments than
\* the bit for the last one can be told from; CREATESERVER messages, which are
\* resent before all others, are left to PeerReplication.
ASSUME DelaysFit ==
    \A s \in Settings : /\ DelayRatio * s.min < 2^(DelayBits - 1) /\ s.max < 2^(DelayBits - 1)
                        /\ DelayRatio * MinDelay < 2^(DelayBits - 1)
ASSUME MessagesFit ==
    \A m \in Makeable : storageRequired(m) + BlobHeader < MinFragment * 2^(FragBits - 1)
ASSUME NoServers == \A m \in Makeable : m.ty # "server"

VARIABLES
    cfg,        \* the settings in use, after initialise and startup
    made,       \* the messages made, in order; the position is the message id
    unacked,    \* PeerMessageNoAck of the sender: ids the receiver has not acked
    backoff,    \* _backoffmap of the sender: 0 without an entry
    addrmap,    \* the sender has the address of the receiver in _addrmap
    net,        \* frames in flight
    functors,   \* message types with a functor at the receiver
    frags,      \* _fragments of the receiver: num_fragments and the data
    notified,   \* _tcp_retrievers of the receiver
    inbox,      \* messages built, not yet looked at by peer_listener
    stored,     \* PeerMessage of the receiver
    queued      \* ids the listener has put into message_queue, in order

senderVars == <<made, unacked, backoff, addrmap>>
receiverVars == <<functors, frags, notified, inbox, stored, queued>>
messengerVars == <<cfg, senderVars, net, receiverVars>>

Sender == 1

-----------------------------------------------------------------------------
(* UDPPeerMessenger::initialise and startup.                               *)

AtLeast(x, least) == IF x < least THEN least ELSE x

\* init_delay outside of the range becomes the average
InitDelay(min, init, max) ==
    IF init < min \/ init > max THEN (min \div 2) + (max \div 2) ELSE init

DelaysFor(s, min, max) == [min |-> min, init |-> InitDelay(min, s.init, max), max |-> max]

initialise(s) ==
    DelaysFor(s, AtLeast(s.min, MinDelay),
              AtLeast(s.max, (DelayRatio * AtLeast(s.min, MinDelay)) % 2^DelayBits))

\* maxfragmentsize between its limits
startup(s) == Min({AtLeast(s.fragment, MinFragment), MaxFragment})

Configured(s, d) ==
    [messenger |-> s.messenger, fragment |-> startup(s), min |-> d.min, init |-> d.init, max |-> d.max]

-----------------------------------------------------------------------------
(* Back-off: doubled by every message sent, halved by every                *)
(* acknowledgement.                                                        *)

getBackoff(b, c) ==
    IF b = 0 THEN c.init ELSE Min({(2 * b) % 2^DelayBits, c.max})

downBackoff(b, c) == IF b = 0 THEN 0 ELSE AtLeast(b \div 2, c.min)

-----------------------------------------------------------------------------
(* UDPPeerMessenger::sendMessage.  The most significant bit of             *)
(* fragment_num marks the last fragment.                                   *)

LastBit == 2^(FragBits - 1)

NumFrags(len, size) == ((len + size - 1) \div size) % 2^FragBits

\* where fragment i of n starts: the first len % n are one larger
FragmentStart(len, n, i) == (len \div n) * (i - 1) + Min({i - 1, len % n})

FragmentData(blob, n, i) ==
    SubSeq(blob, FragmentStart(Len(blob), n, i) + 1,
           FragmentStart(Len(blob), n, i) + (Len(blob) \div n)
             + IF i <= Len(blob) % n THEN 1 ELSE 0)

FragmentNum(n, i) == IF i = n THEN (IF i < LastBit THEN i + LastBit ELSE i) ELSE i

Fragments(id, blob, n) ==
    {[kind |-> "fragment", id |-> id, num |-> FragmentNum(n, i), data |-> FragmentData(blob, n, i)] :
        i \in 1..n}

\* UDTCPPeerMessenger::sendMessage
Datagrams(id, blob) ==
    IF Len(blob) < MaxUdpMessage
    THEN {[kind |-> "inline", id |-> id, num |-> 0, data |-> blob]}
    ELSE {[kind |-> "notify", id |-> id, num |-> Len(blob), data |-> <<>>]}

Blob(id) == makeBlob(Sender, id, 0, made'[id])

Frames(id, blob) ==
    IF cfg.messenger = "udp" THEN Fragments(id, blob, NumFrags(Len(blob), cfg.fragment))
    ELSE Datagrams(id, blob)

Ack(id) == [kind |-> "ack", id |-> id, num |-> 0, data |-> <<>>]

-----------------------------------------------------------------------------
\* the types for which abacusd and its modules register a functor: not CREATEGROUP
Registered == Types \ {"group"}

NoFragments == [num |-> 0, data |-> Empty]
Ids == 1..MaxMade

MessengerInit ==
    /\ \E s \in Settings : cfg = Configured(s, initialise(s))
    /\ made = <<>> /\ unacked = {} /\ backoff = 0 /\ addrmap = FALSE /\ net = {}
    /\ functors \in {Registered, Registered \ {"passwd"}}     \* act_passwd may not be loaded
    /\ frags = [id \in Ids |-> NoFragments]
    /\ notified = {} /\ inbox = <<>> /\ stored = {} /\ queued = <<>>

\* a cached address, or the attributes of the server looked up and resolved
getSockAddr(found) == (addrmap => found) /\ addrmap' = found

\* encrypted and sent; a frame that could not be sent is logged, and lost
sendFrame(frames) == net \cup frames

\* without an address nothing is sent
sendMessage(id, found) ==
    /\ getSockAddr(found)
    /\ net' = IF found THEN sendFrame(Frames(id, Blob(id))) ELSE net
    /\ backoff' = IF found /\ cfg.messenger = "udp" THEN getBackoff(backoff, cfg) ELSE backoff

\* makeMessage
MakeMessage(m, found) ==
    /\ Len(made) < MaxMade /\ m \notin ToSet(made) /\ Makes(m)
    /\ made' = Append(made, m)
    /\ unacked' = unacked \cup {Len(made) + 1}
    /\ sendMessage(Len(made) + 1, found)
    /\ UNCHANGED <<cfg, receiverVars>>

\* resend_message: the oldest unacknowledged one
Resend(found) ==
    /\ unacked # {}
    /\ made' = made /\ sendMessage(Min(unacked), found)
    /\ UNCHANGED <<cfg, unacked, receiverVars>>

\* a frame is taken from the network, or a copy of it
Take(f) == net \ {f}
Arrives(f, left) == f \in net /\ (left = net \/ left = Take(f))

Lose(f) ==
    /\ net' = Take(f)
    /\ UNCHANGED <<cfg, senderVars, receiverVars>>

\* Server::putAck, which needs the database
putAck(id, up) == unacked' = IF up THEN unacked \ {id} ELSE unacked

\* an acknowledgement arrives at the sender
ReceiveAck(f, left, up) ==
    /\ f.kind = "ack" /\ Arrives(f, left)
    /\ net' = left
    /\ putAck(f.id, up)
    /\ backoff' = IF cfg.messenger = "udp" THEN downBackoff(backoff, cfg) ELSE backoff
    /\ UNCHANGED <<cfg, made, addrmap, receiverVars>>

Holds(id) == \E r \in stored : r.id = id

\* Server::hasMessage: false too when the database does not answer
hasMessage(id, up) == up /\ Holds(id)

-----------------------------------------------------------------------------
(* UDPPeerMessenger::getMessage, for a fragment.                           *)

\* Mutant: a message that is there already is not acknowledged again
AckAgainNot(id, left) == left

\* a message that is there already is acknowledged again
AckAgain(id, left) == left \cup {Ack(id)}

\* the fragments in the order of their numbers
RECURSIVE Joined(_, _)
Joined(data, i) == IF DOMAIN data = {} \/ i > Max(DOMAIN data) THEN <<>>
                   ELSE (IF i \in DOMAIN data THEN data[i] ELSE <<>>) \o Joined(data, i + 1)

\* the collection with one more fragment
WithFragment(c, i, last, data) ==
    [num |-> IF c.num <= i THEN i + (IF last THEN 0 ELSE 1) ELSE c.num,
     data |-> IF i \in DOMAIN c.data THEN c.data ELSE Put(c.data, i, data)]

\* the collection c is complete and has been built into b
Built(id, c, b) ==
    IF b.m = Bad
    THEN frags' = [frags EXCEPT ![id] = c] /\ UNCHANGED inbox
    ELSE frags' = [frags EXCEPT ![id] = NoFragments] /\ inbox' = Append(inbox, b)

\* a duplicate fragment is noted and dropped, whatever is complete by then
Collected(id, old, c) ==
    IF DOMAIN c.data # DOMAIN old.data /\ Cardinality(DOMAIN c.data) = c.num
    THEN Built(id, c, buildMessage(Joined(c.data, 0), functors))
    ELSE frags' = [frags EXCEPT ![id] = c] /\ UNCHANGED inbox

\* the collection a fragment belongs to, within those of its server
Collection(f) == f.id

ReceiveFragment(f, left, up) ==
    /\ f.kind = "fragment" /\ Arrives(f, left)
    /\ inbox = <<>>         \* the listener is in getMessage
    /\ IF hasMessage(f.id, up)
       THEN net' = AckAgain(f.id, left) /\ UNCHANGED <<frags, inbox>>
       ELSE /\ net' = left
            /\ LET id == Collection(f)
               IN  Collected(id, frags[id],
                             WithFragment(frags[id], f.num % LastBit, f.num >= LastBit, f.data))
    /\ UNCHANGED <<cfg, senderVars, functors, notified, stored, queued>>

-----------------------------------------------------------------------------
(* UDTCPPeerMessenger::UDPReceiver::socket_process                         *)

ReceiveInline(f, left, up) ==
    /\ f.kind = "inline" /\ Arrives(f, left)
    /\ Len(inbox) < MaxInbox
    /\ IF hasMessage(f.id, up) THEN net' = AckAgain(f.id, left) /\ UNCHANGED inbox
       ELSE /\ net' = left
            /\ LET b == buildMessage(f.data, functors)
               IN  inbox' = IF b.m = Bad THEN inbox ELSE Append(inbox, b)
    /\ UNCHANGED <<cfg, senderVars, functors, frags, notified, stored, queued>>

\* a TCPRetriever is put into _tcp_retrievers and handed to
\* putWaitable(immediate = true), which does nothing: no thread ever runs it
notifyTCPMessage(id) == notified' = notified \cup {id}

ReceiveNotify(f, left, up) ==
    /\ f.kind = "notify" /\ Arrives(f, left)
    /\ IF hasMessage(f.id, up) THEN net' = AckAgain(f.id, left) /\ UNCHANGED notified
       ELSE net' = left /\ notifyTCPMessage(f.id)
    /\ UNCHANGED <<cfg, senderVars, functors, frags, inbox, stored, queued>>

-----------------------------------------------------------------------------
(* peer_listener: putRemoteMessage, then the queue and the acknowledgement *)

\* Mutant: the message is queued whether it could be stored or not
ListenAnyway ==
    /\ inbox # <<>>
    /\ inbox' = Tail(inbox)
    /\ stored' = stored \cup {Head(inbox)}
    /\ queued' = Append(queued, Head(inbox).id)
    /\ net' = net \cup {Ack(Head(inbox).id)}
    /\ UNCHANGED <<cfg, senderVars, functors, frags, notified>>

Listen ==
    /\ inbox # <<>>
    /\ inbox' = Tail(inbox)
    /\ IF Holds(Head(inbox).id) THEN UNCHANGED <<stored, queued, net>>
       ELSE /\ stored' = stored \cup {Head(inbox)}
            /\ queued' = Append(queued, Head(inbox).id)
            /\ net' = net \cup {Ack(Head(inbox).id)}
    /\ UNCHANGED <<cfg, senderVars, functors, frags, notified>>

\* the database does not answer: the message is dropped
ListenFails ==
    /\ inbox # <<>>
    /\ inbox' = Tail(inbox)
    /\ UNCHANGED <<cfg, senderVars, net, functors, frags, notified, stored, queued>>

\* the receiver is started again, with all modules loaded
Restart ==
    /\ functors' = Registered
    /\ frags' = [id \in Ids |-> NoFragments]
    /\ notified' = {} /\ inbox' = <<>>
    /\ UNCHANGED <<cfg, senderVars, net, stored, queued>>

-----------------------------------------------------------------------------
Receive(f, left, up) ==
    \/ ReceiveAck(f, left, up) \/ ReceiveFragment(f, left, up)
    \/ ReceiveInline(f, left, up) \/ ReceiveNotify(f, left, up)

(* Whatever the network does with the frames, a message the listener       *)
(* stores is one the other server has made, under its id and with all its  *)
(* fields: cutting, shuffling, repetition, putting together and the        *)
(* message's own store and load together change nothing.                   *)
DeliveredIsMade ==
    \A b \in stored \cup ToSet(inbox) : b.id \in DOMAIN made /\ b.m = made[b.id]

(* No message reaches the message handler twice, although udtcpmessenger's *)
(* worker may hand the same message over again before the listener has     *)
(* stored the first copy.                                                  *)
QueuedOnce ==
    /\ IsInjective(queued)
    /\ {r.id : r \in stored} = ToSet(queued)

(* The sender stops repeating a message only when the receiver has it.     *)
AckedIsStored == \A id \in DOMAIN made : id \in unacked \/ Holds(id)

(* The pause between fragments stays between min_delay and max_delay as    *)
(* initialise has set them, however sending and acknowledging interleave.  *)
BackoffInRange == backoff # 0 => cfg.min <= backoff /\ backoff <= cfg.max

(* What is delivered was made, is queued once and is stored before it is   *)
(* acknowledged, and the sender's pauses stay in their range (getMessage,  *)
(* peer_listener, putAck, sendMessage).                                    *)
DeliveryCorrect == DeliveredIsMade /\ QueuedOnce /\ AckedIsStored /\ BackoffInRange

\* the receiver can take the message; resend_message comes to it only when all
\* earlier ones have been acknowledged
Carried(id) ==
    /\ made[id].ty \in functors
    /\ cfg.messenger = "udtcp" => Len(makeBlob(Sender, id, 0, made[id])) < MaxUdpMessage
Deliverable(id) == id \in DOMAIN made /\ \A i \in 1..id : Carried(i)

(* "If no acknowledgements are received for 5 seconds, all unacknowledged  *)
(* messages are resent" (developer-core.xml): a message that is not        *)
(* acknowledged is in flight again in the end.                             *)
AllResent ==
    \A id \in Ids : (id \in unacked) ~> (id \notin unacked \/ \E f \in net : f.id = id)
=============================================================================
