---------------------------- MODULE MCStandings ----------------------------
(* Instances of Standings for TLC.  A run explores several scopes: each    *)
(* initial state fixes the events, groups and submissions that may occur   *)
(* and how many of them, so that the timer is explored with many schedules *)
(* and the standings with a few.                                           *)
EXTENDS Standings

VARIABLE scope

OneGroup == [u \in {"a"} |-> 1]
ByA == [s \in {1, 2} |-> "a"]
OneProblem == [s \in {1, 2} |-> "p"]
OneBonus == {[points |-> 1, seconds |-> 2]}

Ev(t, g, a) == [time |-> t, group |-> g, action |-> a]

\* All schedules of two events for two groups, one of them created late
TwoGroups == [events |-> {e \in Event : e.time < MaxTime}, length |-> 2,
              groups |-> {1, 2}, subs |-> {}, marks |-> 0, restarts |-> 1, time |-> MaxTime]

\* All schedules of three events for one group
ThreeEvents == [events |-> [time : Time, group : {1}, action : Action],
                length |-> 3, groups |-> {1}, subs |-> {}, marks |-> 0,
                restarts |-> 0, time |-> MaxTime]

\* Two submissions by one user around a start and an event in the past
Scores == [events |-> {Ev(1, 0, "started"), Ev(2, 1, "stopped")},
           length |-> 2, groups |-> {1}, subs |-> {1, 2}, marks |-> 2,
           restarts |-> 1, time |-> 3]

\* A group whose contest ends at its own time is created after the start
LateGroup == [events |-> {Ev(1, 1, "started"), Ev(2, 0, "started")},
              length |-> 2, groups |-> {1, 2}, subs |-> {}, marks |-> 0,
              restarts |-> 0, time |-> MaxTime]

MCInit == Init /\ scope \in {TwoGroups, ThreeEvents, Scores}
LateInit == Init /\ scope = LateGroup

MCNext ==
    /\ Next
    /\ table' \subseteq scope.events
    /\ Len(evlist') <= scope.length
    /\ groups' \subseteq scope.groups
    /\ \A s \in Subs \ scope.subs : db'.subTime[s] = 0
    /\ count' <= scope.marks
    /\ restarts' <= scope.restarts
    /\ now' <= scope.time
    /\ UNCHANGED scope

MCSpec == MCInit /\ [][MCNext]_<<vars, scope>>
LateSpec == LateInit /\ [][MCNext]_<<vars, scope>>
=============================================================================
