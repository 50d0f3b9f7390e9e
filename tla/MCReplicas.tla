----------------------------- MODULE MCReplicas -----------------------------
(* Instances of Replicas for TLC.  Each initial state fixes how many       *)
(* messages of each kind may be made, how many statements may fail and how *)
(* often servers may restart, so that one run explores the updates of      *)
(* problems, clarifications with submissions, and users, each on its own.  *)
EXTENDS Replicas

VARIABLE scope

MCRequired == [t \in Types |-> IF t = "batch" THEN {"shortname", "data"} ELSE {"shortname"}]
MCOptional == [t \in Types |-> IF t = "batch" THEN {} ELSE {"limit"}]

UserRow(n, name, type) == [id |-> <<0, "user", n>>, name |-> name, type |-> type,
                           group |-> <<0, "group", 1>>, pw |-> NoValue, bonus |-> NoValue]
MCUsers == {UserRow(1, "team", "contestant")}
MCGroups == {[id |-> <<0, "group", 1>>, name |-> "default"]}

Kinds == {"prob", "user", "group", "passwd", "bonus", "request", "reply", "sub"}
Budget(makers, made, flaky, f, r, t) ==
    [makers |-> makers, made |-> [k \in Kinds |-> IF k \in DOMAIN made THEN made[k] ELSE 0],
     flaky |-> flaky, faults |-> f, restarts |-> r, time |-> t]

\* Two updates of a problem made on one server, with faults on the other
Versions == Budget({1}, [prob |-> 2], {2}, 1, 1, 2)
\* Updates made on both servers
Reordered == Budget({1, 2}, [prob |-> 2], {1}, 0, 1, 2)
\* A third update, which may change the type and what it depends on
Third == Budget({1}, [prob |-> 3], {}, 0, 0, 2)
\* An update that fails after a submission was processed
Readable == Budget({1}, [prob |-> 2, sub |-> 1], {1}, 1, 0, 1)
\* A question, an answer and a submission about a problem
Talk == Budget({1, 2}, [request |-> 1, reply |-> 1], {1, 2}, 1, 2, 1)
Work == Budget({1}, [prob |-> 1, request |-> 1, reply |-> 1, sub |-> 1], {2}, 0, 1, 1)
\* Users and groups whose names may clash
Accounts == Budget({1, 2}, [user |-> 2, passwd |-> 1], {2}, 0, 1, 1)
Bonuses == Budget({1, 2}, [user |-> 1, passwd |-> 1, bonus |-> 1], {2}, 0, 1, 1)
Groups == Budget({1, 2}, [group |-> 2], {2}, 1, 1, 1)

MCInit == Init /\ scope \in {Versions, Reordered, Third, Readable, Talk, Work, Accounts, Bonuses, Groups}
RecoverInit == Init /\ scope = Budget({1}, [prob |-> 2], {1}, 1, 1, 2)

Made(k) == Cardinality({m \in msgs : m.kind = k})
Spare(K) == \E k \in K : Made(k) < scope.made[k]

MCNext ==
    /\ UNCHANGED scope
    /\ \/ Tick
       \/ \E s \in Servers : Handler(s)
       \/ \E s \in scope.makers :
              \/ Spare({"prob"}) /\ EditProblem(s)
              \/ Spare({"user", "group", "passwd", "bonus"}) /\ EditUsers(s)
              \/ Spare({"request", "reply", "sub"}) /\ AskAndSubmit(s)
       \/ \E s \in scope.flaky : Faulty(s) \/ Dies(s)
    /\ faults' <= scope.faults /\ restarts' <= scope.restarts /\ clock' <= scope.time
    /\ \A k \in Kinds : Made(k)' <= scope.made[k]

MCSpec == MCInit /\ [][MCNext]_<<vars, scope>>
RecoverSpec == RecoverInit /\ [][MCNext]_<<vars, scope>>
=============================================================================
