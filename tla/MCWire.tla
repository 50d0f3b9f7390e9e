------------------------------- MODULE MCWire -------------------------------
(***************************************************************************)
(* The forms messages take between the programs, for TLC.  Each behaviour  *)
(* looks at one thing: the binary form of one message, one stream of       *)
(* blocks to a client, or the frames between two servers under one         *)
(* configuration of one messenger.                                         *)
(***************************************************************************)
EXTENDS Messengers, MessageBlocks

CONSTANTS
    Scopes,
    LiveScopes,     \* the scopes with fairness
    MaxRestarts     \* bound on restarts of the receiver

VARIABLES scope, sample, restarts

mcVars == <<messengerVars, streamVars, scope, sample, restarts>>

-----------------------------------------------------------------------------
(* Messages of every class.                                                *)

Strings == {<<>>, <<65>>, <<TagS, 66>>}
Names == Strings \ {<<>>}
Files == {[name |-> n, data |-> d] : n \in Names, d \in {<<>>, <<0>>, <<TagF, 0, 7>>}}
Kept == [name |-> <<>>, data |-> <<>>]
Words == {0, 9, TagI}
Maps(S) == UNION {[D -> S] : D \in {{}, {<<65>>}, {<<65>>, <<TagS, 66>>}}}

Samples ==
    [ty : {"server"}, server_id : {2}, name : Strings, attribs : Maps(Strings)] \cup
    [ty : {"user"}, user_id : Words, type : {2}, group_id : {0}, requestor_id : {0},
       username : Strings, friendlyname : Strings, password : Strings] \cup
    [ty : {"group"}, group_id : Words, groupname : Strings] \cup
    [ty : {"passwd"}, user_id : Words, newpass : Strings] \cup
    [ty : {"bonus"}, user_id : {1}, points : Words, seconds : Words] \cup
    [ty : {"startstop"}, group_id : Words, time : {5}, action : {0, 1}] \cup
    [ty : {"clarification"}, words : {<<1, 0, w, 1, 0, 2, 3>> : w \in Words},
       text : Strings] \cup
    [ty : {"submission"}, words : {<<1, w, 0, 3, 4>> : w \in Words},
       content : {<<>>, <<0>>, <<0, 0>>, <<65, 0, 7>>}, language : Strings] \cup
    [ty : {"mark"}, words : {<<1, 0, 0, 3, 4>>}, comment : Strings,
       files : {<<>>} \cup {<<f>> : f \in Files} \cup {<<f, g>> : f \in Files, g \in Files}] \cup
    [ty : {"prob"}, prob_id : {NoId, 8}, update_time : {6}, type : Names,
       deps : {<<>>, <<1>>, <<0, 2>>}, ints : Maps({0, TagF}), strings : Maps({<<>>, <<TagI>>}),
       files : Maps({Kept, [name |-> <<65>>, data |-> <<TagF, 0, 7>>]})]

(* Two messages whose blobs have several fragments, the second one of a    *)
(* type that the receiver may not know before it has been restarted.       *)
Small == [ty |-> "bonus", user_id |-> 1, points |-> 0, seconds |-> 7]
Other == [ty |-> "passwd", user_id |-> 2, newpass |-> <<>>]
Large == [ty |-> "clarification", words |-> <<1, 0, 3, 4, 5, 0, 7>>, text |-> <<65>>]
MCMakeable == {Small, Other, Large}

Setting(fragment, min, init, max) ==
    [messenger |-> "udp", fragment |-> fragment, min |-> min, init |-> init, max |-> max]
Delayed == {Setting(1, 0, 0, 0), Setting(1, 3, 4, 2), Setting(4, 1, 2, 5)}
Mixed == {Setting(9, 1, 1, 4)}

Datagram == {[Setting(0, 0, 0, 0) EXCEPT !.messenger = "udtcp"]}
MCSettings == Delayed \cup Mixed \cup Datagram

(* What each scope configures and makes: "delays" one message in three     *)
(* fragments, "mixed" two in two fragments each, repeated by resending      *)
(* alone and without restarts, "live" one in two fragments or in one       *)
(* datagram.                                                               *)
ScopeSettings ==
    CASE scope = "delays" -> Delayed
      [] scope = "mixed" -> Mixed
      [] scope = "live" -> Mixed \cup Datagram
      [] OTHER -> Datagram
MadeNext ==
    CASE scope \in {"delays", "live"} -> {Other}
      [] scope = "large" -> {Large, Small}
      [] OTHER -> IF made = <<>> THEN {Small} ELSE {Other}
ScopeFunctors == IF scope = "live" THEN {Registered \ {"passwd"}} ELSE {Registered}

-----------------------------------------------------------------------------
(* Streams of blocks.                                                      *)

Headers(S) == {[h \in D |-> v] : D \in SUBSET {<<65>>, <<66, 67>>}, v \in S}
MCBlocks ==
    {Block(<<65>>, id, hs, c) : id \in {<<>>, <<Digit0 + 1>>},
        hs \in Headers({<<>>, <<65, SP>>}), c \in {<<>>, <<NL>>, <<65, Colon, NL, NL>>}}
MCStreams ==
    {<<b, Block(<<66, 67>>, <<Digit0>>, [h \in {} |-> <<>>], c), b>> :
        b \in MCBlocks, c \in {<<>>, <<NL, NL>>}}

-----------------------------------------------------------------------------
NoStream == blocks = <<>> /\ wire = <<>> /\ message = NoBlock /\ got = <<>> /\ failed = FALSE

Messaging == {"delays", "mixed", "small", "large", "live"}
MCInit ==
    /\ scope \in Scopes /\ restarts = 0
    /\ IF scope = "codec" THEN sample \in Samples ELSE sample = Small
    /\ IF scope = "stream" THEN StreamInit ELSE NoStream
    /\ MessengerInit
    /\ cfg \in {Configured(s, initialise(s)) : s \in ScopeSettings}
    /\ functors \in ScopeFunctors

Framed(A) == scope \in Messaging /\ A /\ UNCHANGED <<streamVars, scope, sample>>
On(A) == Framed(A) /\ UNCHANGED restarts

Make == On(\E m \in MadeNext, found \in BOOLEAN : MakeMessage(m, found))
Resending == On(\E found \in BOOLEAN : Resend(found))
Losing == On(\E f \in net : Lose(f))
Copying == scope # "mixed" /\ On(\E f \in net, up \in BOOLEAN : Receive(f, net, up))
Acked == On(\E f \in net, up \in BOOLEAN : ReceiveAck(f, Take(f), up))
Fragment == On(\E f \in net, up \in BOOLEAN : ReceiveFragment(f, Take(f), up))
Inline == On(\E f \in net, up \in BOOLEAN : ReceiveInline(f, Take(f), up))
Notify == On(\E f \in net, up \in BOOLEAN : ReceiveNotify(f, Take(f), up))
Listening == On(Listen)
ListeningFails == On(ListenFails)
Restarting == scope # "mixed" /\ restarts < MaxRestarts /\ Framed(Restart) /\ restarts' = restarts + 1
Reading == scope = "stream" /\ StreamNext /\ UNCHANGED <<messengerVars, scope, sample, restarts>>

MCNext ==
    \/ Make \/ Resending \/ Losing \/ Copying \/ Acked \/ Fragment \/ Inline \/ Notify
    \/ Listening \/ ListeningFails \/ Restarting \/ Reading

(* Fairness: the resender wakes up every five seconds and finds the        *)
(* address in the end; a frame that is sent again and again arrives, one   *)
(* fragment, message or acknowledgement at a time, with the database in    *)
(* reach; the listener comes to store what arrives again and again.        *)
Fair(A) == scope \in LiveScopes /\ On(A)
Frag(id, i) == \E f \in net : f.id = id /\ f.num % LastBit = i /\ ReceiveFragment(f, Take(f), TRUE)
MaxFrags == 2
MCSpec ==
    /\ MCInit /\ [][MCNext]_mcVars
    /\ WF_mcVars(Fair(Resend(TRUE)))
    /\ SF_mcVars(Fair(Listen))
    /\ \A id \in Ids :
          /\ SF_mcVars(Fair(\E f \in net : f.id = id /\ ReceiveAck(f, Take(f), TRUE)))
          /\ SF_mcVars(Fair(\E f \in net : f.id = id /\ ReceiveInline(f, Take(f), TRUE)))
          /\ \A i \in 1..MaxFrags : SF_mcVars(Fair(Frag(id, i)))

(* In the scopes that have fairness: a message that can be built and       *)
(* carried, and all those before it, is acknowledged in the end: also when *)
(* fragments of several transmissions mix, when an earlier attempt could   *)
(* not be built, when an acknowledgement is lost, and when the database    *)
(* was away for a while.                                                   *)
Acknowledged ==
    \A id \in Ids : (scope \in LiveScopes /\ Deliverable(id)) ~> (id \notin unacked)

(* Every message class, as the codec scope meets it.                       *)
SamplesRoundTrip == RoundTrip(sample)
=============================================================================
