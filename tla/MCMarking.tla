----------------------------- MODULE MCMarking -----------------------------
(* Instances of Marking for TLC.  Each initial state picks one scope:      *)
(*   faults  one marker and two submissions, with failures of the database *)
(*           and of makeMessage and a restart;                             *)
(*   users   a marker, an administrator and a judge, one submission and no *)
(*           faults.                                                       *)
(* Symmetry in the submissions is sound: no scope names one of them.       *)
EXTENDS Marking, TLC

CONSTANTS c1, c2, c3, s1, s2

VARIABLE scope

Three == {c1, c2, c3}
Second == {c2}
Third == {c3}
TwoSubs == {s1, s2}
Symmetry == Permutations(TwoSubs)

Scope(users, submissions, room, restarts, faulty) ==
    [users |-> users, submissions |-> submissions, room |-> room,
     restarts |-> restarts, faulty |-> faulty]
Faults == Scope({c1}, 2, 4, 1, TRUE)
Users == Scope({c1, c2, c3}, 1, 3, 0, FALSE)

MCInit == SysInit /\ scope \in {Faults, Users}

\* the messages in the log and those the workers are about to put there
Expected ==
    Len(messages) + Cardinality({c \in Conn : act[c].step \in {"legal", "notified"}})

\* the submissions the scope has room for: those in use, and others if it is
\* not exhausted
InUse == {messages[i].sub : i \in DOMAIN messages} \cup ({act[c].sub : c \in Conn} \ {NoSub})
Available == IF Cardinality(InUse) < scope.submissions THEN Sub ELSE InUse

\* without faults: makeMessage succeeds, and no submission waits beside a
\* marker after the pool has tried to bring them together
Faultless ==
    /\ unstored' = unstored
    /\ \A c \in Conn : act[c].step = "notified" => act'[c].step \in {"notified", "waiting"}
    /\ pool'.markers = <<>> \/ pool'.problems = <<>>

MCNext ==
    /\ UNCHANGED scope
    /\ \/ \E c \in scope.users :
              \/ Open(c) \/ Close(c) \/ SubscribeMark(c) \/ Relogin(c) \/ Worker(c)
              \/ /\ Expected < scope.room
                 /\ \E s \in Available, r \in Verdict \cup {NoVerdict} : PlaceMark(c, s, r)
       \/ Expected < scope.room /\ \E s \in Available : SubmitSolution(s)
       \/ Handler
       \/ PoolThread
       \/ Clock
       \/ crashes < scope.restarts /\ Restart
    /\ scope.faulty \/ Faultless

MCSpec == MCInit /\ [][MCNext]_<<sysVars, scope>>
=============================================================================
