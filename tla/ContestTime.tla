----------------------------- MODULE ContestTime -----------------------------
(***************************************************************************)
(* What TimerSupportModule (support_timer.C) computes from its list of     *)
(* start and stop events: how long the contest of a group has run at some  *)
(* time, whether it is running, and when it ends.                          *)
(*                                                                         *)
(* A start/stop event is [time, group, action]; group 0 stands for all     *)
(* groups.                                                                 *)
(***************************************************************************)
EXTENDS Integers, Sequences, FiniteSetsExt

CONSTANTS
    Groups,         \* group ids that may ever exist (never 0)
    Duration,       \* contest duration
    MaxTime         \* bound on the clock

ASSUME ContestAssumption ==
    Groups \subseteq Nat \ {0} /\ Duration \in Nat \ {0} /\ MaxTime \in Nat \ {0}

Time == 1 .. MaxTime
Action == {"started", "stopped"}
Event == [time : Time, group : Groups \cup {0}, action : Action]

\* Where a loop over the list stops: at the first of some places, or at the end.
Stop(places, list) == Min(places \cup {Len(list) + 1})

\* The loops of contestTime and contestStatus stop at the first event that is
\* later than t: the number of their turns, and the events they look at.
Turns(list, t) == Stop({i \in DOMAIN list : list[i].time > t}, list) - 1
Due(list, t) == SubSeq(list, 1, Turns(list, t))

Concerns(e, g) == e.group \in {0, g}

\* One turn of the loop of contestTime
Walk(acc, e) ==
    IF e.action = acc.status THEN acc
    ELSE IF e.action = "started"
         THEN [acc EXCEPT !.status = "started", !.start = e.time]
         ELSE [acc EXCEPT !.status = "stopped", !.elapsed = @ + e.time - acc.start]

\* Its local variables after each turn
Walks(list, g) ==
    LET after[i \in 0 .. Len(list)] ==
            IF i = 0 THEN [status |-> "stopped", start |-> 0, elapsed |-> 0]
            ELSE IF Concerns(list[i], g) THEN Walk(after[i - 1], list[i])
            ELSE after[i - 1]
    IN  after

\* The time that has elapsed by t
Elapsed(acc, t) == acc.elapsed + (IF acc.status = "started" THEN t - acc.start ELSE 0)

\* Mutant: the contest time is not limited to the duration
contestTimeUnlimited(list, g, t) == Elapsed(Walks(list, g)[Turns(list, t)], t)

contestTime(list, g, t) ==
    LET elapsed == Elapsed(Walks(list, g)[Turns(list, t)], t)
    IN  IF elapsed > Duration THEN Duration ELSE elapsed

\* The action of the last event that the loop of contestStatus looks at
LastAction(list, g, t) ==
    LET seen == {i \in 1 .. Turns(list, t) : Concerns(list[i], g)}
    IN  IF seen = {} THEN "stopped" ELSE list[Max(seen)].action

contestStatus(list, g, t) ==
    IF contestTime(list, g, t) >= Duration THEN "stopped" ELSE LastAction(list, g, t)

\* One turn of the loop of contestEndTime; end # 0 once it has returned.
EndWalk(acc, e) ==
    LET elapsed == e.time - acc.start
    IN  IF acc.end # 0 \/ e.action = acc.status THEN acc
        ELSE IF e.action = "started"
             THEN [acc EXCEPT !.status = "started", !.start = e.time]
             ELSE IF elapsed > acc.remaining
                  THEN [acc EXCEPT !.end = acc.start + acc.remaining]
                  ELSE [acc EXCEPT !.status = "stopped", !.remaining = @ - elapsed]

EndWalks(list, g) ==
    LET after[i \in 0 .. Len(list)] ==
            IF i = 0 THEN [status |-> "stopped", start |-> 0, end |-> 0,
                           remaining |-> Duration]
            ELSE IF Concerns(list[i], g) THEN EndWalk(after[i - 1], list[i])
            ELSE after[i - 1]
    IN  after

contestEndTime(list, g) ==
    LET w == EndWalks(list, g)[Len(list)]
    IN  IF w.end = 0 /\ w.status = "started" THEN w.start + w.remaining ELSE w.end

\* scheduleStartStop puts the new event in front of those not earlier.
Insert(list, ev) ==
    LET k == Stop({i \in DOMAIN list : list[i].time >= ev.time}, list)
    IN  SubSeq(list, 1, k - 1) \o <<ev>> \o SubSeq(list, k, Len(list))

\* The seconds before t in which the contest of the group runs if the duration
\* is left aside: the last event up to such a second is a start.
RunningSeconds(list, g, t) == {s \in 1 .. t - 1 : LastAction(list, g, s) = "started"}
==============================================================================
