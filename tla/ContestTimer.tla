---------------------------- MODULE ContestTimer ----------------------------
(***************************************************************************)
(* The contest timer of abacusd: the list of start and stop events of      *)
(* TimerSupportModule (support_timer.C), the message that adds to it       *)
(* (act_startstop.C), and the thread that performs timed actions           *)
(* (timed_actions in abacusd.C), which tells the groups when their contest *)
(* starts or stops.  ContestTime has what is computed from the list.       *)
(*                                                                         *)
(* Three parties run: the message handler thread (MsgStartStop,            *)
(* Message_CreateGroup), the timed actions thread, and the clock.          *)
(***************************************************************************)
EXTENDS ContestTime, Bags

CONSTANTS
    InitGroups,     \* the groups that exist at the start
    MaxEvents,      \* bound on the start/stop messages
    MaxRestarts,    \* bound on the restarts
    Prompt          \* does a thread finish its work within the second?

ASSUME TimerAssumption ==
    /\ InitGroups \subseteq Groups /\ IsFiniteSet(InitGroups)
    /\ MaxEvents \in Nat /\ MaxRestarts \in Nat /\ Prompt \in BOOLEAN

VARIABLES
    now,        \* time(NULL)
    groups,     \* table Group
    table,      \* table ContestStartStop
    evlist,     \* _evlist
    groupState, \* _group_state
    queue,      \* timed_queue, as a bag of processing times
    next,       \* the local variable of timed_actions, 0 for NULL
    heap,       \* the heap of timed_actions
    msg,        \* the start/stop message in the handler: [step, ev, now]
    restarts,   \* number of restarts so far
    missed      \* history: the groups created when no timed action was set
                \* for the end of their contest

timerVars == <<now, groups, table, evlist, groupState, queue, next, heap,
               msg, restarts, missed>>

NoEvent == [time |-> 0, group |-> 0, action |-> "stopped"]
Idle == [step |-> "idle", ev |-> NoEvent, now |-> 0]

\* The new state; the old one only decides whether the clients are told.
updateGroupState(list, g, t) == contestStatus(list, g, t)

\* StartStopAction::perform: every group gets its status at time t.
Perform(t) == [g \in groups |-> updateGroupState(evlist, g, t)]

-----------------------------------------------------------------------------
(* The message handler thread.                                             *)

TimerTypeOK ==
    /\ now \in Time
    /\ groups \subseteq Groups
    /\ table \subseteq Event
    /\ evlist \in Seq(Event)
    /\ groupState \in [groups -> Action]
    /\ IsABag(queue) /\ IsABag(heap)
    /\ next \in Nat
    /\ msg \in [step : {"idle", "redo", "announce", "ends"},
                ev : Event \cup {NoEvent}, now : Time \cup {0}]
    /\ restarts \in 0 .. MaxRestarts
    /\ missed \subseteq groups

TimerInit ==
    /\ now = 1
    /\ groups = InitGroups
    /\ table = {} /\ evlist = <<>>
    /\ groupState = [g \in InitGroups |-> "stopped"]
    /\ queue = EmptyBag /\ next = 0 /\ heap = EmptyBag
    /\ msg = Idle
    /\ restarts = 0
    /\ missed = {}

\* MsgStartStop::int_process up to the test of `future', with
\* scheduleStartStop; a future event only needs a timed action.
Schedule(ev) ==
    /\ table' = table \cup {ev}
    /\ evlist' = Insert(evlist, ev)
    /\ IF ev.time > now
       THEN /\ queue' = queue (+) SetToBag({ev.time})
            /\ msg' = [step |-> "ends", ev |-> ev, now |-> now]
       ELSE /\ msg' = [step |-> "announce", ev |-> ev, now |-> now]
            /\ UNCHANGED queue
    /\ UNCHANGED <<now, groups, groupState, next, heap, restarts, missed>>

StartStop(ev) ==
    /\ msg.step = "idle"
    /\ Len(evlist) < MaxEvents
    /\ Schedule(ev)

\* After a restart the handler gets the message it had not finished again.
RedoStartStop == msg.step = "redo" /\ Schedule(msg.ev)

\* An event in the past: tell the groups, at the time read at the start.
AnnounceNow ==
    /\ msg.step = "announce"
    /\ groupState' = Perform(msg.now)
    /\ msg' = [step |-> "ends", ev |-> msg.ev, now |-> msg.now]
    /\ UNCHANGED <<now, groups, table, evlist, queue, next, heap, restarts,
                   missed>>

Affected == {g \in groups : Concerns(msg.ev, g)}

\* The implicit stop time may have changed for the groups of the event.
ScheduleEnds ==
    LET ends == {contestEndTime(evlist, g) : g \in Affected}
    IN  /\ msg.step = "ends"
        /\ queue' = queue (+) SetToBag({t \in ends : t > msg.now})
        /\ msg' = Idle
        /\ UNCHANGED <<now, groups, table, evlist, groupState, next, heap,
                       restarts, missed>>

Pending == BagToSet(queue) \cup BagToSet(heap) \cup {next}

\* Message_CreateGroup::int_process: the state of the new group is set, but
\* nothing is scheduled for it.
CreateGroup(g) ==
    /\ msg.step = "idle"
    /\ g \notin groups
    /\ groups' = groups \cup {g}
    /\ groupState' = [h \in groups' |-> IF h = g
                                        THEN updateGroupState(evlist, g, now)
                                        ELSE groupState[h]]
    /\ LET end == contestEndTime(evlist, g)
       IN  missed' = IF end > now /\ end \notin Pending THEN missed \cup {g}
                                                      ELSE missed
    /\ UNCHANGED <<now, table, evlist, queue, next, heap, msg, restarts>>

-----------------------------------------------------------------------------
(* The timed actions thread.                                               *)

\* Mutant: an earlier action does not take the place of the next one
TimedDequeueNoSwap ==
    /\ next = 0 \/ next > now
    /\ \E t \in BagToSet(queue) :
        /\ queue' = queue (-) SetToBag({t})
        /\ IF next = 0 THEN next' = t /\ UNCHANGED heap
                       ELSE heap' = heap (+) SetToBag({t}) /\ UNCHANGED next
    /\ UNCHANGED <<now, groups, table, evlist, groupState, msg, restarts,
                   missed>>

\* Wait for the next action no longer than to the time of the present one.
TimedDequeue ==
    /\ next = 0 \/ next > now
    /\ \E t \in BagToSet(queue) :
        /\ queue' = queue (-) SetToBag({t})
        /\ IF next = 0
           THEN next' = t /\ UNCHANGED heap
           ELSE /\ next' = Min({t, next})
                /\ heap' = heap (+) SetToBag({Max({t, next})})
    /\ UNCHANGED <<now, groups, table, evlist, groupState, msg, restarts,
                   missed>>

TimedPerform ==
    /\ next # 0 /\ next <= now
    /\ groupState' = Perform(next)
    /\ IF heap = EmptyBag
       THEN next' = 0 /\ UNCHANGED heap
       ELSE LET t == Min(BagToSet(heap))
            IN  next' = t /\ heap' = heap (-) SetToBag({t})
    /\ UNCHANGED <<now, groups, table, evlist, queue, msg, restarts, missed>>

-----------------------------------------------------------------------------
(* The clock, and the death and restart of the server.                     *)

\* Nobody has work to do in this second any more.
Quiet ==
    /\ msg.step = "idle"
    /\ next = 0 \/ next > now
    /\ \A t \in BagToSet(queue) : t > now

Tick ==
    /\ now < MaxTime
    /\ Prompt => Quiet
    /\ now' = now + 1
    /\ UNCHANGED <<groups, table, evlist, groupState, queue, next, heap, msg,
                   restarts, missed>>

\* Mutant: a row may be loaded in the place of another one
LoadedSome(list) ==
    /\ Len(list) = Cardinality(table) /\ Range(list) \subseteq table
    /\ \A i, j \in DOMAIN list : i < j => list[i].time <= list[j].time

\* TimerSupportModule::init: in the order of time and group; rows that agree
\* in both come in any order.
Loaded(list) ==
    /\ Len(list) = Cardinality(table) /\ Range(list) = table
    /\ \A i, j \in DOMAIN list : i < j =>
        \/ list[i].time < list[j].time
        \/ list[i].time = list[j].time /\ list[i].group <= list[j].group

\* The timed actions of initialise_startstop_events
InitialActions(list) ==
    LET Ending(t) == {g \in groups : contestEndTime(list, g) = t}
        Rows(t) == {e \in table : e.time = t}
        times == {t \in {contestEndTime(list, g) : g \in groups}
                        \cup {e.time : e \in table} : t > now}
    IN  [t \in times |-> Cardinality(Ending(t)) + Cardinality(Rows(t))]

\* The process dies at any point; init and initialise_startstop_events.
Restart ==
    /\ restarts < MaxRestarts
    /\ \E list \in [1 .. Cardinality(table) -> table] :
        /\ Loaded(list)
        /\ evlist' = list
        /\ groupState' = [g \in groups |-> updateGroupState(list, g, now)]
        /\ queue' = InitialActions(list)
    /\ next' = 0 /\ heap' = EmptyBag
    /\ msg' = IF msg.step = "idle" THEN Idle ELSE [Idle EXCEPT !.step = "redo", !.ev = msg.ev]
    /\ missed' = {}
    /\ restarts' = restarts + 1
    /\ UNCHANGED <<now, groups, table>>

TimerNext ==
    \/ \E ev \in Event : StartStop(ev)
    \/ RedoStartStop
    \/ AnnounceNow
    \/ ScheduleEnds
    \/ \E g \in Groups : CreateGroup(g)
    \/ TimedDequeue
    \/ TimedPerform
    \/ Tick
    \/ Restart

TimerSpec == TimerInit /\ [][TimerNext]_timerVars

-----------------------------------------------------------------------------
(* Properties.                                                             *)

\* scheduleStartStop and init keep the list so that the loops, which end at the
\* first later event, see all the events in the database that are due in a
\* second, and no others.
LoopsSeeWhatIsDue ==
    \A t \in Time : Range(Due(evlist, t)) = {e \in table : e.time <= t}

\* contestTime is the number of seconds the contest of the group has been
\* running, up to the duration, however many pieces it comes in and in
\* whatever order the events were added.
ContestTimeIsRunningTime ==
    /\ LoopsSeeWhatIsDue
    /\ \A g \in groups, t \in Time :
           contestTime(evlist, g, t) = Min({Duration, Cardinality(RunningSeconds(evlist, g, t))})

\* Once the work of a second is done, the recorded state of every group is its
\* contest status: no start, stop or expiry is missed or announced early,
\* also after a restart.  Groups whose end was not scheduled when they were
\* created are the exception (see EveryGroupIsTold).
StateIsStatus ==
    Quiet => \A g \in groups \ missed : groupState[g] = contestStatus(evlist, g, now)

\* The same for all groups, those created later included: clients are told
\* "when the contest either starts or stops".
EveryGroupIsTold ==
    Quiet => \A g \in groups : groupState[g] = contestStatus(evlist, g, now)

\* Two different events of one second that bear on one group
Ambiguous(t) ==
    \E e, f \in table : e.time = t /\ f.time = t /\ e.action # f.action

\* A restart leaves the contest time of every group in every second as it
\* was, unless two opposite events share a second (support_timer.C:154, 222).
RestartKeepsContestTime ==
    [][(restarts' # restarts /\ ~ \E t \in Time : Ambiguous(t)) =>
        \A g \in groups, t \in Time :
            contestTime(evlist', g, t) = contestTime(evlist, g, t)]_timerVars
=============================================================================
