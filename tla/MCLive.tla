------------------------------- MODULE MCLive -------------------------------
(***************************************************************************)
(* What must happen in the end, on small instances of PeerReplication and  *)
(* of Marking.  Each initial state picks one scope; the steps, and the     *)
(* fairness, are those of the module the scope instantiates:               *)
(*   meet    the master creates a second server, which joins;              *)
(*   arrive  two servers that have joined make one message each, and one   *)
(*           of them restarts;                                             *)
(*   mark    a submission, a marker that fails its jobs, and a restart.    *)
(***************************************************************************)
EXTENDS PeerReplication

CONSTANTS c1, s1, NoSub

VARIABLES scope,
    pool, live, enqueued, dismissed, checking, now,         \* of Markers
    subs, marks, messages, marking_processed, marking_queue, marking_handler,
    act, unstored, marking_crashes                          \* of Marking

TwoServers == 1..2
JustMaster == {1}
CodeKinds == {"server", "data"}         \* no functor for CREATEGROUP
AllKinds == Kind
Storing == {"storing"}

\* what the servers make, after the messages of the start
Join == [n \in Server |-> IF n = Master THEN 3 ELSE 0]
EachOne == [n \in Server |-> IF n = Master THEN 4 ELSE 1]

Meet == INSTANCE PeerReplication WITH MaxMade <- Join, MaxCrashes <- 0
Arrive == INSTANCE PeerReplication WITH
    Joined <- Server, Registered <- Kind, MadeKinds <- {"data"}
Mark == INSTANCE Marking WITH
    Timeout <- 1, DbMayFail <- FALSE, MakeMayFail <- FALSE,
    Conn <- {c1}, Admins <- {}, Judges <- {}, Sub <- {s1},
    MaxTime <- 2, MaxMessages <- 4, MaxCrashes <- 1,
    processed <- marking_processed, queue <- marking_queue,
    handler <- marking_handler, crashes <- marking_crashes

marking_vars == <<pool, live, enqueued, dismissed, checking, now, subs, marks, messages,
                  marking_processed, marking_queue, marking_handler, act, unstored,
                  marking_crashes>>
all == <<scope, vars, marking_vars>>

LiveInit ==
    /\ scope \in {"meet", "arrive", "mark"}
    /\ IF scope = "arrive" THEN Arrive!Init ELSE Meet!Init
    /\ Mark!SysInit

LiveNext ==
    /\ UNCHANGED scope
    /\ \/ scope = "meet" /\ Meet!Next /\ UNCHANGED marking_vars
       \/ scope = "arrive" /\ Arrive!Next /\ UNCHANGED marking_vars
       \/ scope = "mark" /\ Mark!SysNext /\ UNCHANGED vars

-----------------------------------------------------------------------------
(* Fairness: a part of Meet!Fairness, Arrive!Fairness and Mark!SysFairness *)
(* that is enough.  The scope never changes, so one conjunct serves an     *)
(* action of each scope.                                                   *)

In(s, A) == scope = s /\ A /\ UNCHANGED <<scope, marking_vars>>
InMark(A) == scope = "mark" /\ A /\ UNCHANGED <<scope, vars>>

\* the threads of server n, and its resender
Threads(n) ==
    \/ In("meet", Meet!Handle(n) \/ \E m \in queue[n] : Meet!HandlerTake(n, m))
    \/ In("arrive", Arrive!Handle(n) \/ \E m \in queue[n] : Arrive!HandlerTake(n, m))
Listening(n) == In("meet", Meet!Listen(n)) \/ In("arrive", Arrive!Listen(n))
Resending(n, q) == In("meet", Meet!Resend(n, q)) \/ In("arrive", Arrive!Resend(n, q))

\* a packet with message k reaches its server
MeetArrival(k) ==
    In("meet", \E n \in Server, p \in net : IdentityOf(p.msg) = k /\ Meet!ReceiveMessage(n, p))
Arrival(k) ==
    In("arrive", \E n \in Server, p \in net : IdentityOf(p.msg) = k /\ Arrive!ReceiveMessage(n, p))

LiveFairness ==
    /\ \A n \in Server :
          /\ WF_all(Threads(n)) /\ WF_all(Listening(n))
          /\ \A q \in Server \ {n} : WF_all(Resending(n, q))
    /\ WF_all(InMark(Mark!PoolThread)) /\ WF_all(InMark(Mark!Clock)) /\ WF_all(InMark(Mark!Open(c1)))
    /\ SF_all(MeetArrival(<<1, 1>>) \/ Arrival(<<1, 4>>) \/ InMark(Mark!Handler))
    /\ SF_all(MeetArrival(<<1, 3>>) \/ Arrival(<<2, 1>>) \/ InMark(Mark!Worker(c1)))
    /\ SF_all(InMark(Mark!SubscribeMark(c1)))
    /\ SF_all(InMark(\E r \in Mark!Verdict : pool.issued[c1] = s1 /\ Mark!PlaceMark(c1, s1, r)))

LiveSpec == LiveInit /\ [][LiveNext]_all /\ LiveFairness

(* Under the fairness of Marking every submission whose message was logged *)
(* is marked in the end, through lost markers, timeouts and restarts (the  *)
(* timeout thread of markers.C, initialise() of abacusd.C).                *)
EverySubmissionMarked == Mark!EverySubmissionMarked
=============================================================================
