----------------------------- MODULE TimerProofs -----------------------------
(***************************************************************************)
(* Proofs about ContestTimer: the list of start and stop events and the    *)
(* contest time that is computed from it, and the states of the groups and *)
(* the timed actions that change them, for every set of groups, any number *)
(* of events and restarts, and any bound on the clock.                     *)
(***************************************************************************)
EXTENDS ContestTimer, ContestTimeProofs

\* Most steps are logic and sets; those that compute name SMT
USE Zenon

-----------------------------------------------------------------------------
(* The list and the database hold the same events, in the order of time.   *)

ListInv ==
    /\ table \subseteq Event /\ IsFiniteSet(table)
    /\ evlist \in Seq(Event) /\ Ordered(evlist) /\ Range(evlist) = table
    /\ msg.step # "idle" => msg.ev \in Event

\* MsgStartStop::int_process adds the event to both.
LEMMA ScheduleInv ==
    ASSUME ListInv, NEW ev \in Event, Schedule(ev)
    PROVE  ListInv'
  <1>1. table' = table \cup {ev} /\ evlist' = Insert(evlist, ev) /\ msg'.ev = ev
    <2>1. table' = table \cup {ev} /\ evlist' = Insert(evlist, ev)
      BY DEF Schedule
    <2>2. \/ msg' = [step |-> "ends", ev |-> ev, now |-> now]
          \/ msg' = [step |-> "announce", ev |-> ev, now |-> now]
      BY DEF Schedule
    <2>3. msg'.ev = ev
      BY ONLY <2>2, SMT
    <2> QED BY <2>1, <2>3
  <1>2. /\ evlist' \in Seq(Event) /\ Ordered(evlist')
        /\ Range(evlist') = Range(evlist) \cup {ev}
    BY <1>1, InsertFacts DEF ListInv
  <1>3. IsFiniteSet(table')
    BY <1>1, FS_AddElement DEF ListInv
  <1> QED BY <1>1, <1>2, <1>3 DEF ListInv

\* TimerSupportModule::init reads all rows, by time.
LEMMA RestartInv ==
    ASSUME ListInv, Restart
    PROVE  ListInv'
  <1>1. PICK list \in [1 .. Cardinality(table) -> table] : Loaded(list) /\ evlist' = list
    BY DEF Restart
  <1>2. table' = table
    BY DEF Restart
  <1>3. evlist' \in Seq(Event)
    <2>1. Cardinality(table) \in Nat /\ list \in [1 .. Cardinality(table) -> Event]
      BY <1>1, FS_CardinalityType DEF ListInv
    <2>2. list \in Seq(Event)
      BY ONLY <2>1, SMT
    <2> QED BY <1>1, <2>2
  <1>4. Range(evlist') = table'
    BY <1>1, <1>2 DEF Loaded
  <1>5. Ordered(evlist')
    <2>1. ASSUME NEW i \in DOMAIN list, NEW j \in DOMAIN list, i < j
          PROVE  list[i].time <= list[j].time
      <3>1. list[i].time \in Nat /\ list[j].time \in Nat
        BY <1>1, EventTime DEF ListInv
      <3>2. list[i].time < list[j].time \/ list[i].time = list[j].time
        BY <1>1, <2>1 DEF Loaded
      <3> QED BY ONLY <3>1, <3>2, SMT
    <2> QED BY <1>1, <2>1 DEF Ordered
  <1>6. msg'.step # "idle" => msg'.ev \in Event
    <2>1. CASE msg.step = "idle"
      <3>1. msg' = Idle
        BY <2>1 DEF Restart
      <3>2. msg'.step = "idle"
        BY ONLY <3>1, SMT DEF Idle
      <3> QED BY <3>2
    <2>2. CASE msg.step # "idle"
      <3>1. msg' = [Idle EXCEPT !.step = "redo", !.ev = msg.ev]
        BY <2>2 DEF Restart
      <3>2. msg'.ev = msg.ev
        BY ONLY <3>1, SMT DEF Idle
      <3> QED BY <2>2, <3>2 DEF ListInv
    <2> QED BY <2>1, <2>2
  <1> QED BY <1>2, <1>3, <1>4, <1>5, <1>6 DEF ListInv

\* The other steps leave the list, the database and the event alone.
LEMMA ListKept ==
    ASSUME ListInv, UNCHANGED <<table, evlist>>,
           msg' = msg \/ msg' = Idle \/ (msg.step # "idle" /\ msg'.ev = msg.ev)
    PROVE  ListInv'
  <1>1. Idle.step = "idle"
    BY SMT DEF Idle
  <1>2. msg'.step # "idle" => msg'.ev \in Event
    BY <1>1 DEF ListInv
  <1>3. table' = table /\ evlist' = evlist
    OBVIOUS
  <1> QED BY <1>2, <1>3 DEF ListInv

\* An event in the past is announced: the message stays the same.
LEMMA AnnounceInv ==
    ASSUME ListInv, AnnounceNow
    PROVE  ListInv'
  <1>1. UNCHANGED <<table, evlist>> /\ msg.step = "announce" /\ msg' = [step |-> "ends", ev |-> msg.ev, now |-> msg.now]
    BY DEF AnnounceNow
  <1>2. msg'.ev = msg.ev
    BY ONLY <1>1, SMT
  <1>3. msg.step # "idle"
    BY ONLY <1>1, SMT
  <1> QED BY <1>1, <1>2, <1>3, ListKept

\* No step of the server or of its threads breaks the list.
LEMMA ListStep ==
    ASSUME ListInv, [TimerNext]_timerVars
    PROVE  ListInv'
  <1>1. CASE \E ev \in Event : StartStop(ev)
    <2>1. PICK ev \in Event : Schedule(ev)
      BY <1>1 DEF StartStop
    <2> QED BY <2>1, ScheduleInv
  <1>2. CASE RedoStartStop
    <2>1. msg.step = "redo" /\ Schedule(msg.ev)
      BY <1>2 DEF RedoStartStop
    <2>2. msg.step # "idle"
      BY ONLY <2>1, SMT
    <2>3. msg.ev \in Event
      BY <2>2 DEF ListInv
    <2> QED BY <2>1, <2>3, ScheduleInv
  <1>3. CASE ScheduleEnds
    <2>1. UNCHANGED <<table, evlist>> /\ msg' = Idle
      BY <1>3 DEF ScheduleEnds
    <2> QED BY <2>1, ListKept
  <1>4. CASE \E g \in Groups : CreateGroup(g)
    <2>1. UNCHANGED <<table, evlist>> /\ msg' = msg
      BY <1>4 DEF CreateGroup
    <2> QED BY <2>1, ListKept
  <1>5. CASE TimedDequeue
    <2>1. UNCHANGED <<table, evlist>> /\ msg' = msg
      BY <1>5 DEF TimedDequeue
    <2> QED BY <2>1, ListKept
  <1>6. CASE TimedPerform
    <2>1. UNCHANGED <<table, evlist>> /\ msg' = msg
      BY <1>6 DEF TimedPerform
    <2> QED BY <2>1, ListKept
  <1>7. CASE Tick
    <2>1. UNCHANGED <<table, evlist>> /\ msg' = msg
      BY <1>7 DEF Tick
    <2> QED BY <2>1, ListKept
  <1>8. CASE AnnounceNow
    BY <1>8, AnnounceInv
  <1>9. CASE Restart
    BY <1>9, RestartInv
  <1>10. CASE UNCHANGED timerVars
    <2>1. UNCHANGED <<table, evlist>> /\ msg' = msg
      BY <1>10 DEF timerVars
    <2> QED BY <2>1, ListKept
  <1> QED BY <1>1, <1>2, <1>3, <1>4, <1>5, <1>6, <1>7, <1>8, <1>9, <1>10 DEF TimerNext

\* The server starts with an empty list.
LEMMA ListInit ==
    ASSUME TimerInit
    PROVE  ListInv
  <1>1. table = {} /\ evlist = <<>> /\ msg = Idle
    BY DEF TimerInit
  <1>2. evlist \in Seq(Event) /\ DOMAIN evlist = {}
    BY ONLY <1>1, SMT
  <1>3. msg.step = "idle"
    BY ONLY <1>1, SMT DEF Idle
  <1>4. IsFiniteSet(table)
    BY <1>1, FS_EmptySet
  <1>5. Range(evlist) = table
    BY <1>1, <1>2 DEF Range
  <1>6. Ordered(evlist)
    BY <1>2 DEF Ordered
  <1> QED BY <1>1, <1>2, <1>3, <1>4, <1>5, <1>6 DEF ListInv

\* contestTime, contestStatus: whatever the order of the start/stop messages,
\* and whenever the server dies, the loops over the list see the events that
\* are due, and those only, and the contest time of a group is the number of
\* seconds its contest has been running, up to the duration.
THEOREM ContestTimeIsRight == TimerSpec => []ContestTimeIsRunningTime
  <1>1. TimerInit => ListInv
    BY ListInit
  <1>2. ListInv /\ [TimerNext]_timerVars => ListInv'
    BY ListStep
  <1>3. ASSUME ListInv PROVE ContestTimeIsRunningTime
    <2>1. evlist \in Seq(Event) /\ Ordered(evlist) /\ Range(evlist) = table
      BY <1>3 DEF ListInv
    <2>2. LoopsSeeWhatIsDue
      BY <2>1, DueFacts DEF LoopsSeeWhatIsDue
    <2>3. ASSUME NEW g \in groups, NEW t \in Time
          PROVE  contestTime(evlist, g, t) = Min({Duration, Cardinality(RunningSeconds(evlist, g, t))})
      <3>1. t \in Nat
        BY ContestAssumption, SMT DEF Time
      <3> QED BY <2>1, <3>1, ContestTimeFacts
    <2> QED BY <2>2, <2>3 DEF ContestTimeIsRunningTime
  <1> QED BY <1>1, <1>2, <1>3, PTL DEF TimerSpec

\* TimerSupportModule::init and scheduleStartStop may put the events of one
\* second in different orders; a restart changes no contest time by that,
\* unless two opposite events share a second.
THEOREM RestartsKeepContestTime == TimerSpec => RestartKeepsContestTime
  <1> DEFINE Kept == (restarts' # restarts /\ ~ \E t \in Time : Ambiguous(t)) =>
                         \A g \in groups, t \in Time : contestTime(evlist', g, t) = contestTime(evlist, g, t)
  <1>1. TimerInit => ListInv
    BY ListInit
  <1>2. ListInv /\ [TimerNext]_timerVars => ListInv'
    BY ListStep
  <1>3. ASSUME ListInv, [TimerNext]_timerVars PROVE [Kept]_timerVars
    <2> SUFFICES ASSUME restarts' # restarts, ~ \E t \in Time : Ambiguous(t),
                        NEW g \in groups, NEW t \in Time
                 PROVE  contestTime(evlist', g, t) = contestTime(evlist, g, t)
      OBVIOUS
    <2>1. ListInv'
      BY <1>2, <1>3
    <2>2. table' = table
      <3>1. CASE \E ev \in Event : StartStop(ev)
        BY <3>1 DEF StartStop, Schedule
      <3>2. CASE RedoStartStop
        BY <3>2 DEF RedoStartStop, Schedule
      <3> QED BY <1>3, <3>1, <3>2 DEF TimerNext, AnnounceNow, ScheduleEnds, CreateGroup, TimedDequeue,
                                      TimedPerform, Tick, Restart, timerVars
    <2>3. /\ evlist \in Seq(Event) /\ Ordered(evlist) /\ Range(evlist) = table /\ table \subseteq Event
          /\ evlist' \in Seq(Event) /\ Ordered(evlist') /\ Range(evlist') = table
      BY <1>3, <2>1, <2>2 DEF ListInv
    <2>4. ASSUME NEW e \in table, NEW f \in table, e.time = f.time PROVE e.action = f.action
      <3>1. e.time \in Time
        BY <2>3 DEF Event
      <3> QED BY <2>4, <3>1 DEF Ambiguous
    <2>5. t \in Nat
      BY ContestAssumption, SMT DEF Time
    <2>6. ASSUME NEW s \in 1 .. t - 1 PROVE LastAction(evlist', g, s) = LastAction(evlist, g, s)
      <3>1. s \in Nat
        BY <2>5, SMT
      <3>2. Range(evlist') = Range(evlist) /\ \A e, f \in Range(evlist') : e.time = f.time => e.action = f.action
        BY <2>3, <2>4
      <3> QED BY ONLY <2>3, <3>1, <3>2, SameEvents, Zenon
    <2>7. RunningSeconds(evlist', g, t) = RunningSeconds(evlist, g, t)
      BY <2>6 DEF RunningSeconds
    <2> QED BY <2>3, <2>5, <2>7, ContestTimeFacts
  <1>4. TimerSpec => []ListInv
    BY <1>1, <1>2, PTL DEF TimerSpec
  <1>5. [][Kept]_timerVars => RestartKeepsContestTime
    BY PTL DEF RestartKeepsContestTime
  <1> QED BY <1>3, <1>4, <1>5, PTL DEF TimerSpec

-----------------------------------------------------------------------------
(* The state of the groups, and the timed actions.                         *)

\* a bag with the members of a set added
LEMMA BagAdd ==
    ASSUME NEW B, IsABag(B), NEW S
    PROVE  /\ IsABag(B (+) SetToBag(S))
           /\ BagToSet(B (+) SetToBag(S)) = BagToSet(B) \cup S
  <1> DEFINE F(e) == (IF e \in DOMAIN B THEN B[e] ELSE 0) + (IF e \in S THEN 1 ELSE 0)
             C == B (+) SetToBag(S)
  <1>1. C = [e \in DOMAIN B \cup S |-> F(e)]
    BY DEF (+), SetToBag
  <1>2. \A e \in DOMAIN B : B[e] \in Nat /\ B[e] > 0
    BY DEF IsABag
  <1>3. ASSUME NEW e \in DOMAIN B \cup S PROVE F(e) \in {n \in Nat : n > 0}
    <2>1. F(e) \in Nat /\ F(e) > 0
      BY <1>2, SMT
    <2> QED BY <2>1
  <1> HIDE DEF F, C
  <1>4. DOMAIN C = DOMAIN B \cup S /\ IsABag(C)
    BY <1>1, <1>3 DEF IsABag
  <1> QED BY <1>4 DEF BagToSet, C

\* a bag without one copy of a member
LEMMA BagTake ==
    ASSUME NEW B, IsABag(B), NEW t
    PROVE  /\ IsABag(B (-) SetToBag({t}))
           /\ BagToSet(B (-) SetToBag({t})) \subseteq BagToSet(B)
           /\ BagToSet(B) \ {t} \subseteq BagToSet(B (-) SetToBag({t}))
  <1> DEFINE F(e) == IF e \in {t} THEN B[e] - 1 ELSE B[e]
             D == {d \in DOMAIN B : F(d) > 0}
             C == B (-) SetToBag({t})
  <1>1. C = [e \in D |-> F(e)]
    <2> DEFINE T == SetToBag({t})
               G == [e \in DOMAIN B |-> IF e \in DOMAIN T THEN B[e] - T[e] ELSE B[e]]
    <2>1. DOMAIN T = {t} /\ T[t] = 1
      BY DEF SetToBag
    <2>2. C = [e \in {d \in DOMAIN G : G[d] > 0} |-> G[e]]
      BY DEF (-)
    <2> HIDE DEF T
    <2>3. DOMAIN G = DOMAIN B /\ \A e \in DOMAIN B : G[e] = F(e)
      BY <2>1
    <2> HIDE DEF G, F, C
    <2>4. {d \in DOMAIN G : G[d] > 0} = D /\ \A e \in D : G[e] = F(e)
      BY <2>3
    <2> HIDE DEF D
    <2>5. C = [e \in D |-> G[e]]
      BY <2>2, <2>4
    <2> QED BY <2>4, <2>5
  <1>2. \A e \in DOMAIN B : B[e] \in Nat /\ B[e] > 0
    BY DEF IsABag
  <1>3. ASSUME NEW e \in DOMAIN B PROVE F(e) \in Int /\ (e # t => F(e) > 0)
    BY <1>2, SMT
  <1>4. \A e \in D : F(e) \in {n \in Nat : n > 0}
    <2> HIDE DEF F
    <2>1. ASSUME NEW e \in D PROVE F(e) \in Nat
      <3>1. F(e) \in Int /\ F(e) > 0
        BY <1>3
      <3> QED BY ONLY <3>1, SMT
    <2> QED BY <2>1
  <1> HIDE DEF F, C
  <1>5. DOMAIN C = D /\ IsABag(C)
    BY <1>1, <1>4 DEF IsABag
  <1> QED BY <1>3, <1>5 DEF BagToSet, C

\* The smaller and the larger of two numbers
LEMMA MinMax ==
    ASSUME NEW a \in Nat, NEW b \in Nat, a > 0, b > 0
    PROVE  /\ Min({a, b}) = IF a <= b THEN a ELSE b
           /\ Max({a, b}) = IF a <= b THEN b ELSE a
  <1>1. {a, b} \subseteq Nat /\ {a, b} # {}
    OBVIOUS
  <1>2. a + b \in Nat /\ a \in 1 .. a + b /\ b \in 1 .. a + b
    BY SMT
  <1>3. {a, b} \subseteq 1 .. a + b
    BY <1>2
  <1> DEFINE x == Min({a, b})
             y == Max({a, b})
  <1>4. x \in {a, b} /\ x <= a /\ x <= b
    BY <1>1, FirstPlace
  <1>5. y \in {a, b} /\ y >= a /\ y >= b
    BY <1>1, <1>2, <1>3, LastPlace
  <1> HIDE DEF x, y
  <1>6. x = IF a <= b THEN a ELSE b
    BY ONLY <1>4, a \in Nat, b \in Nat, SMT
  <1>7. y = IF a <= b THEN b ELSE a
    BY ONLY <1>5, a \in Nat, b \in Nat, SMT
  <1> QED BY <1>6, <1>7 DEF x, y

\* contestEndTime returns a number.
LEMMA EndTimeType ==
    ASSUME NEW list \in Seq(Event), NEW g
    PROVE  contestEndTime(list, g) \in Int
  <1> DEFINE w == EndWalks(list, g)[Len(list)]
  <1>1. contestEndTime(list, g) = IF w.end = 0 /\ w.status = "started" THEN w.start + w.remaining ELSE w.end
    BY DEF contestEndTime
  <1>2. w \in EndAcc
    <2>1. Len(list) \in 0 .. Len(list)
      BY ListFacts, SMT
    <2> QED BY <2>1, EndWalksFacts
  <1> HIDE DEF w
  <1>3. w.end \in Int /\ w.start \in Nat /\ w.remaining \in Int
    BY ONLY <1>2, SMT DEF EndAcc
  <1>4. w.start + w.remaining \in Int
    BY ONLY <1>3, SMT
  <1> QED BY <1>1, <1>3, <1>4

\* If threads finish their work within the second, no timed action is late,
\* and the one that timed_actions waits for is the next of those it has taken.
QueueInv ==
    /\ now \in Nat /\ now > 0 /\ next \in Nat
    /\ IsABag(queue) /\ IsABag(heap)
    /\ \A t \in BagToSet(queue) \cup BagToSet(heap) : t \in Nat /\ t >= now
    /\ next # 0 => next >= now
    /\ next = 0 => BagToSet(heap) = {}
    /\ \A t \in BagToSet(heap) : next <= t
    /\ IsFiniteSet(groups)
    /\ msg.step \in {"announce", "ends"} => msg.now = now

\* The message handler is about to schedule the end of the group's contest.
Rescheduling(g) == msg.step \in {"announce", "ends"} /\ Concerns(msg.ev, g)

EndKnown(g) ==
    \/ contestEndTime(evlist, g) <= now
    \/ contestEndTime(evlist, g) \in Pending
    \/ Rescheduling(g)

StateKnown(g) ==
    \/ groupState[g] = contestStatus(evlist, g, now)
    \/ now \in Pending
    \/ msg.step = "announce"

\* There is a timed action for every event to come and for the end of every
\* contest, and the recorded states are right or about to be put right.
PlanInv ==
    /\ \A e \in table : e.time > now => e.time \in Pending
    /\ \A g \in groups \ missed : EndKnown(g) /\ StateKnown(g)

\* A thread that puts actions into the queue
LEMMA QueueAdd ==
    ASSUME QueueInv, NEW S, \A t \in S : t \in Nat /\ t >= now,
           queue' = queue (+) SetToBag(S), UNCHANGED <<now, groups, next, heap>>,
           msg'.step \in {"announce", "ends"} => msg'.now = now
    PROVE  QueueInv' /\ \A t : t \in Pending' <=> t \in Pending \/ t \in S
  <1>1. IsABag(queue') /\ BagToSet(queue') = BagToSet(queue) \cup S
    BY BagAdd DEF QueueInv
  <1>2. now' = now /\ groups' = groups /\ next' = next /\ heap' = heap
    OBVIOUS
  <1>3. QueueInv'
    BY <1>1, <1>2 DEF QueueInv
  <1>4. \A t : t \in Pending' <=> t \in Pending \/ t \in S
    BY <1>1, <1>2 DEF Pending
  <1> QED BY <1>3, <1>4

\* A thread that leaves the timed actions alone
LEMMA QueueKept ==
    ASSUME QueueInv, UNCHANGED <<now, queue, next, heap>>, IsFiniteSet(groups'),
           msg'.step \in {"announce", "ends"} => msg'.now = now
    PROVE  QueueInv' /\ Pending' = Pending
  BY DEF QueueInv, Pending

\* timed_actions takes an action from the queue.
LEMMA DequeueInv ==
    ASSUME QueueInv, TimedDequeue
    PROVE  QueueInv' /\ \A t \in Pending : t = 0 \/ t \in Pending'
  <1>1. PICK t \in BagToSet(queue) :
           /\ queue' = queue (-) SetToBag({t})
           /\ IF next = 0
              THEN next' = t /\ UNCHANGED heap
              ELSE next' = Min({t, next}) /\ heap' = heap (+) SetToBag({Max({t, next})})
    BY DEF TimedDequeue
  <1>2. now' = now /\ groups' = groups /\ msg' = msg
    BY DEF TimedDequeue
  <1>3. now \in Nat /\ now > 0 /\ next \in Nat /\ t \in Nat /\ t >= now /\ (next # 0 => next >= now)
    BY DEF QueueInv
  <1>0. IsABag(queue) /\ IsABag(heap)
    BY DEF QueueInv
  <1>4. /\ IsABag(queue') /\ BagToSet(queue') \subseteq BagToSet(queue)
        /\ BagToSet(queue) \ {t} \subseteq BagToSet(queue')
    BY <1>0, <1>1, BagTake
  <1>5. t # 0 /\ t > 0
    BY ONLY <1>3, SMT
  <1>6. CASE next = 0
    <2>1. next' = t /\ heap' = heap /\ BagToSet(heap) = {}
      BY <1>1, <1>6 DEF QueueInv
    <2>2. QueueInv'
      BY <1>0, <1>2, <1>3, <1>4, <1>5, <2>1 DEF QueueInv
    <2>3. \A x \in Pending : x = 0 \/ x \in Pending'
      BY <1>4, <1>6, <2>1 DEF Pending
    <2> QED BY <2>2, <2>3
  <1>7. CASE next # 0
    <2> DEFINE x == Min({t, next})
               y == Max({t, next})
    <2>0. next > 0
      BY ONLY <1>3, <1>7, SMT
    <2>1. x = (IF t <= next THEN t ELSE next) /\ y = (IF t <= next THEN next ELSE t)
      <3>1. t \in Nat /\ t > 0 /\ next \in Nat /\ next > 0
        BY <1>3, <1>5, <2>0
      <3> QED BY ONLY <3>1, MinMax, SMT
    <2>2. next' = x /\ heap' = heap (+) SetToBag({y})
      BY <1>1, <1>7
    <2> HIDE DEF x, y
    <2>3. /\ x \in Nat /\ y \in Nat /\ x >= now /\ y >= now /\ x <= y /\ x <= next /\ x # 0
          /\ (t = x \/ t = y) /\ (next = x \/ next = y)
      BY ONLY <1>3, <1>5, <1>7, <2>1, SMT
    <2>4. IsABag(heap') /\ BagToSet(heap') = BagToSet(heap) \cup {y}
      BY <1>0, <2>2, BagAdd
    <2>5. ASSUME NEW h \in BagToSet(heap) PROVE x <= h
      <3>1. next <= h /\ h \in Nat
        BY DEF QueueInv
      <3> QED BY ONLY <1>3, <2>3, <3>1, SMT
    <2>6. QueueInv'
      <3>1. \A h \in BagToSet(queue') \cup BagToSet(heap') : h \in Nat /\ h >= now
        BY <1>4, <2>3, <2>4 DEF QueueInv
      <3>2. \A h \in BagToSet(heap') : next' <= h
        BY <2>2, <2>3, <2>4, <2>5
      <3> QED BY <1>2, <1>3, <1>4, <2>2, <2>3, <2>4, <3>1, <3>2 DEF QueueInv
    <2>7. \A h \in Pending : h = 0 \/ h \in Pending'
      BY <1>4, <2>2, <2>3, <2>4 DEF Pending
    <2> QED BY <2>6, <2>7
  <1> QED BY <1>6, <1>7

\* timed_actions performs an action, at its time, and turns to the next one.
LEMMA PerformInv ==
    ASSUME QueueInv, TimedPerform
    PROVE  /\ QueueInv' /\ next = now
           /\ \A t \in Pending : t = now \/ t \in Pending'
  <1>1. next # 0 /\ next <= now /\ now' = now /\ groups' = groups /\ msg' = msg /\ queue' = queue
    BY DEF TimedPerform
  <1>2. /\ now \in Nat /\ now > 0 /\ next \in Nat /\ IsABag(queue) /\ IsABag(heap)
        /\ next # 0 => next >= now
    BY DEF QueueInv
  <1>3. next = now
    BY ONLY <1>1, <1>2, SMT
  <1>4. CASE heap = EmptyBag
    <2>1. next' = 0 /\ heap' = heap
      BY <1>4 DEF TimedPerform
    <2>2. BagToSet(heap) = {}
      BY <1>4 DEF EmptyBag, SetToBag, BagToSet
    <2>3. 0 \in Nat
      BY SMT
    <2>4. QueueInv'
      BY <1>1, <1>2, <2>1, <2>2, <2>3 DEF QueueInv
    <2>5. \A t \in Pending : t = now \/ t \in Pending'
      BY <1>1, <1>3, <2>1, <2>2 DEF Pending
    <2> QED BY <1>3, <2>4, <2>5
  <1>5. CASE heap # EmptyBag
    <2> DEFINE H == BagToSet(heap)
               t == Min(H)
    <2>1. next' = t /\ heap' = heap (-) SetToBag({t})
      BY <1>5 DEF TimedPerform
    <2>2. H # {}
      <3>1. ASSUME DOMAIN heap = {} PROVE heap = [e \in {} |-> 1]
        BY <1>2, <3>1 DEF IsABag
      <3> QED BY <1>5, <3>1 DEF EmptyBag, SetToBag, BagToSet
    <2>3. \A h \in H : h \in Nat /\ h >= now
      BY DEF QueueInv
    <2> HIDE DEF H
    <2>4. t \in H /\ \A h \in H : t <= h
      BY <2>2, <2>3, FirstPlace
    <2> HIDE DEF t
    <2>5. /\ IsABag(heap') /\ BagToSet(heap') \subseteq H
          /\ H \ {t} \subseteq BagToSet(heap')
      BY <1>2, <2>1, BagTake DEF H
    <2>6. t \in Nat /\ t >= now
      BY <2>3, <2>4
    <2>7. t # 0
      BY ONLY <1>2, <2>6, SMT
    <2>8. \A h \in BagToSet(queue) : h \in Nat /\ h >= now
      BY DEF QueueInv
    <2>9. QueueInv'
      BY <1>1, <1>2, <2>1, <2>3, <2>4, <2>5, <2>6, <2>7, <2>8 DEF QueueInv
    <2>10. \A x \in Pending : x = now \/ x \in Pending'
      BY <1>1, <1>3, <2>1, <2>5 DEF Pending, H
    <2> QED BY <1>3, <2>9, <2>10
  <1> QED BY <1>4, <1>5

\* In a second in which all work is done no action is pending.
LEMMA QuietTimes ==
    ASSUME QueueInv, Quiet
    PROVE  /\ \A t \in BagToSet(queue) \cup BagToSet(heap) : t > now
           /\ next # 0 => next > now
           /\ now \notin Pending /\ msg.step = "idle"
  <1>1. /\ now \in Nat /\ now > 0 /\ next \in Nat
        /\ \A t \in BagToSet(queue) \cup BagToSet(heap) : t \in Nat
    BY DEF QueueInv
  <1>2. msg.step = "idle" /\ (next = 0 \/ next > now) /\ \A t \in BagToSet(queue) : t > now
    BY DEF Quiet
  <1>3. ASSUME NEW t \in BagToSet(heap) PROVE t > now
    <2>1. next # 0 /\ next <= t /\ t \in Nat
      BY DEF QueueInv
    <2> QED BY ONLY <1>1, <1>2, <2>1, SMT
  <1>4. \A t : t = now => ~(t > now) /\ t # 0
    BY ONLY <1>1, SMT
  <1>5. now \notin Pending
    BY <1>2, <1>3, <1>4 DEF Pending
  <1> QED BY <1>2, <1>3, <1>5

\* The second ends only when all its work is done.
LEMMA TickInv ==
    ASSUME Prompt, QueueInv, Tick
    PROVE  QueueInv'
  <1>1. Quiet /\ now' = now + 1 /\ UNCHANGED <<groups, queue, next, heap, msg>>
    BY DEF Tick
  <1>2. /\ \A t \in BagToSet(queue) \cup BagToSet(heap) : t > now
        /\ next # 0 => next > now
        /\ msg.step = "idle"
    BY <1>1, QuietTimes
  <1>3. /\ now \in Nat /\ next \in Nat
        /\ \A t \in BagToSet(queue) \cup BagToSet(heap) : t \in Nat
    BY DEF QueueInv
  <1>4. now + 1 \in Nat /\ now + 1 > 0
    BY ONLY <1>3, SMT
  <1>5. ASSUME NEW t \in Nat, t > now PROVE t >= now + 1
    BY ONLY <1>3, <1>5, t \in Nat, SMT
  <1>6. msg'.step \notin {"announce", "ends"}
    <2>1. msg'.step = "idle"
      BY <1>1, <1>2
    <2> QED BY ONLY <2>1, SMT
  <1>7. queue' = queue /\ heap' = heap /\ next' = next /\ groups' = groups
    BY <1>1
  <1>8. \A t \in BagToSet(queue) \cup BagToSet(heap) : t \in Nat /\ t >= now + 1
    BY <1>2, <1>3, <1>5
  <1>9. next # 0 => next >= now + 1
    BY <1>2, <1>3, <1>5
  <1> QED BY <1>1, <1>3, <1>4, <1>6, <1>7, <1>8, <1>9 DEF QueueInv

\* initialise_startstop_events: an action for each event to come and for the
\* end of each contest.
LEMMA InitialActionsFacts ==
    ASSUME NEW list \in Seq(Event), now \in Nat, IsFiniteSet(groups), IsFiniteSet(table), table \subseteq Event
    PROVE  /\ IsABag(InitialActions(list))
           /\ \A t : t \in BagToSet(InitialActions(list)) <=>
                  /\ \/ \E g \in groups : contestEndTime(list, g) = t
                     \/ \E e \in table : e.time = t
                  /\ t > now
           /\ \A t \in BagToSet(InitialActions(list)) : t \in Nat
  <1> DEFINE Ending(t) == {g \in groups : contestEndTime(list, g) = t}
             Rows(t) == {e \in table : e.time = t}
             times == {t \in {contestEndTime(list, g) : g \in groups} \cup {e.time : e \in table} : t > now}
             Count(t) == Cardinality(Ending(t)) + Cardinality(Rows(t))
             A == InitialActions(list)
  <1>1. A = [t \in times |-> Count(t)]
    BY DEF InitialActions
  <1>2. ASSUME NEW t \in times PROVE Count(t) \in {n \in Nat : n > 0}
    <2>1. IsFiniteSet(Ending(t)) /\ IsFiniteSet(Rows(t))
      <3>1. Ending(t) \subseteq groups /\ Rows(t) \subseteq table
        OBVIOUS
      <3> HIDE DEF Ending, Rows
      <3> QED BY <3>1, FS_Subset
    <2>2. Ending(t) # {} \/ Rows(t) # {}
      OBVIOUS
    <2> HIDE DEF Ending, Rows
    <2>3. Cardinality(Ending(t)) \in Nat /\ Cardinality(Rows(t)) \in Nat
      BY <2>1, FS_CardinalityType
    <2>4. Cardinality(Ending(t)) # 0 \/ Cardinality(Rows(t)) # 0
      BY <2>1, <2>2, FS_EmptySet
    <2>5. Count(t) \in Nat /\ Count(t) > 0
      BY ONLY <2>3, <2>4, SMT
    <2> QED BY <2>5
  <1>3. ASSUME NEW t \in times PROVE t \in Nat
    <2>1. t \in Int /\ t > now
      <3>1. \A g \in groups : contestEndTime(list, g) \in Int
        BY EndTimeType
      <3>2. \A e \in table : e.time \in Int
        <4>1. \A e \in table : e.time \in Nat
          BY EventTime
        <4> QED BY <4>1, SMT
      <3> QED BY <3>1, <3>2
    <2> QED BY ONLY <2>1, now \in Nat, SMT
  <1> HIDE DEF Count, A
  <1>4. IsABag(A) /\ BagToSet(A) = times
    <2> HIDE DEF times
    <2> QED BY <1>1, <1>2 DEF IsABag, BagToSet
  <1> QED BY <1>3, <1>4 DEF A

\* A step that only adds pending actions, or takes away one that is due now,
\* and leaves the events alone
LEMMA PlanKept ==
    ASSUME QueueInv, PlanInv, UNCHANGED <<now, groups, table, evlist, missed>>,
           \A t \in Pending : t = 0 \/ t = now \/ t \in Pending',
           \A g \in groups \ missed : Rescheduling(g) => EndKnown(g)',
           \A g \in groups \ missed : StateKnown(g)'
    PROVE  PlanInv'
  <1>1. now \in Nat /\ now > 0
    BY DEF QueueInv
  <1>2. \A t : t = 0 \/ t = now => t <= now /\ ~(t > now)
    BY ONLY <1>1, SMT
  <1>3. ASSUME NEW e \in table', e.time > now' PROVE e.time \in Pending'
    <2>1. e \in table /\ e.time > now
      BY <1>3
    <2>2. e.time \in Pending
      BY <2>1 DEF PlanInv
    <2> QED BY <1>2, <2>1, <2>2
  <1>4. ASSUME NEW g \in groups' \ missed' PROVE EndKnown(g)' /\ StateKnown(g)'
    <2>1. g \in groups \ missed /\ EndKnown(g)
      BY DEF PlanInv
    <2>2. CASE Rescheduling(g)
      BY <2>1, <2>2
    <2>3. CASE contestEndTime(evlist, g) <= now
      BY <2>1, <2>3 DEF EndKnown
    <2>4. CASE contestEndTime(evlist, g) \in Pending
      <3>1. contestEndTime(evlist, g) <= now \/ contestEndTime(evlist, g) \in Pending'
        BY <1>2, <2>4
      <3> QED BY <2>1, <3>1 DEF EndKnown
    <2> QED BY <2>1, <2>2, <2>3, <2>4 DEF EndKnown
  <1> QED BY <1>3, <1>4 DEF PlanInv

\* act_startstop: the first part of the handler, for one event
LEMMA SchedulePlan ==
    ASSUME ListInv, QueueInv, PlanInv, msg.step \in {"idle", "redo"},
           NEW ev \in Event, Schedule(ev)
    PROVE  QueueInv' /\ PlanInv'
  <1>1. /\ table' = table \cup {ev} /\ evlist' = Insert(evlist, ev)
        /\ UNCHANGED <<now, groups, groupState, next, heap, missed>>
    BY DEF Schedule
  <1>2. evlist \in Seq(Event) /\ Ordered(evlist)
    BY DEF ListInv
  <1>3. now \in Nat /\ ev.time \in Nat /\ IsFiniteSet(groups)
    BY EventTime DEF QueueInv
  <1>4. /\ msg'.step \in {"announce", "ends"} /\ msg'.ev = ev /\ msg'.now = now
        /\ ev.time > now \/ msg'.step = "announce"
    <2>1. CASE ev.time > now
      <3>1. msg' = [step |-> "ends", ev |-> ev, now |-> now]
        BY <2>1 DEF Schedule
      <3> QED BY ONLY <2>1, <3>1, SMT
    <2>2. CASE ~(ev.time > now)
      <3>1. msg' = [step |-> "announce", ev |-> ev, now |-> now]
        BY <2>2 DEF Schedule
      <3> QED BY ONLY <3>1, SMT
    <2> QED BY <2>1, <2>2
  <1>5. msg.step \notin {"announce", "ends"}
    BY ONLY msg.step \in {"idle", "redo"}, SMT
  <1>6. /\ QueueInv' /\ \A t \in Pending : t \in Pending'
        /\ ev.time > now => ev.time \in Pending'
    <2>1. CASE ev.time > now
      <3>1. queue' = queue (+) SetToBag({ev.time})
        BY <2>1 DEF Schedule
      <3>2. \A t \in {ev.time} : t \in Nat /\ t >= now
        <4>1. ev.time >= now
          BY ONLY <1>3, <2>1, SMT
        <4> QED BY <1>3, <4>1
      <3>3. QueueInv' /\ \A t : t \in Pending' <=> t \in Pending \/ t \in {ev.time}
        BY <1>1, <1>4, <3>1, <3>2, QueueAdd
      <3> QED BY <3>3
    <2>2. CASE ~(ev.time > now)
      <3>1. queue' = queue
        BY <2>2 DEF Schedule
      <3> QED BY <1>1, <1>3, <1>4, <2>2, <3>1, QueueKept
    <2> QED BY <2>1, <2>2
  <1>7. ASSUME NEW e \in table', e.time > now' PROVE e.time \in Pending'
    <2>1. now' = now /\ (e \in table \/ e = ev)
      BY <1>1
    <2> QED BY <1>6, <1>7, <2>1 DEF PlanInv
  <1>8. ASSUME NEW g \in groups' \ missed' PROVE EndKnown(g)' /\ StateKnown(g)'
    <2>1. now' = now /\ groupState' = groupState /\ EndKnown(g) /\ StateKnown(g)
      BY <1>1 DEF PlanInv
    <2>2. EndKnown(g)'
      <3>1. CASE Concerns(ev, g)
        <4>1. Concerns(msg'.ev, g)
          BY <1>4, <3>1
        <4>2. Rescheduling(g)'
          BY <1>4, <4>1 DEF Rescheduling, Concerns
        <4> QED BY <4>2 DEF EndKnown
      <3>2. CASE ~Concerns(ev, g)
        <4>1. contestEndTime(evlist', g) = contestEndTime(evlist, g)
          BY <1>1, <1>2, <3>2, EndOfOthers
        <4>2. contestEndTime(evlist, g) <= now \/ contestEndTime(evlist, g) \in Pending'
          BY <1>5, <1>6, <2>1 DEF EndKnown, Rescheduling
        <4> QED BY <2>1, <4>1, <4>2 DEF EndKnown
      <3> QED BY <3>1, <3>2
    <2>3. StateKnown(g)'
      <3>1. CASE ev.time > now
        <4>1. now < ev.time
          BY ONLY <1>3, <3>1, SMT
        <4>2. contestStatus(evlist', g, now) = contestStatus(evlist, g, now)
          BY <1>1, <1>2, <1>3, <4>1, StatusLater
        <4>3. groupState[g] = contestStatus(evlist, g, now) \/ now \in Pending'
          BY <1>5, <1>6, <2>1 DEF StateKnown
        <4> QED BY <2>1, <4>2, <4>3 DEF StateKnown
      <3>2. CASE msg'.step = "announce"
        BY <3>2 DEF StateKnown
      <3> QED BY <1>4, <3>1, <3>2
    <2> QED BY <2>2, <2>3
  <1> QED BY <1>6, <1>7, <1>8 DEF PlanInv

\* act_startstop: the states of the groups, when the event is not to come
LEMMA AnnouncePlan ==
    ASSUME QueueInv, PlanInv, AnnounceNow
    PROVE  QueueInv' /\ PlanInv'
  <1>1. /\ msg.step = "announce" /\ groupState' = Perform(msg.now)
        /\ msg' = [step |-> "ends", ev |-> msg.ev, now |-> msg.now]
        /\ UNCHANGED <<now, groups, table, evlist, queue, next, heap, missed>>
    BY DEF AnnounceNow
  <1>2. msg.now = now /\ IsFiniteSet(groups)
    BY <1>1 DEF QueueInv
  <1>3. msg'.ev = msg.ev /\ msg'.now = msg.now /\ msg'.step \in {"announce", "ends"}
    BY ONLY <1>1, SMT
  <1>4. QueueInv' /\ Pending' = Pending
    BY <1>1, <1>2, <1>3, QueueKept
  <1>5. ASSUME NEW g \in groups \ missed PROVE StateKnown(g)'
    <2>1. groupState'[g] = contestStatus(evlist, g, now)
      BY <1>1, <1>2 DEF Perform, updateGroupState
    <2> QED BY <1>1, <2>1 DEF StateKnown
  <1>6. ASSUME NEW g \in groups \ missed, Rescheduling(g) PROVE EndKnown(g)'
    BY <1>3, <1>6 DEF EndKnown, Rescheduling, Concerns
  <1> QED BY <1>1, <1>4, <1>5, <1>6, PlanKept

\* act_startstop: the ends of the contests that the event concerns
LEMMA EndsPlan ==
    ASSUME ListInv, QueueInv, PlanInv, ScheduleEnds
    PROVE  QueueInv' /\ PlanInv'
  <1> DEFINE ends == {contestEndTime(evlist, g) : g \in Affected}
             S == {t \in ends : t > msg.now}
  <1>1. /\ msg.step = "ends" /\ queue' = queue (+) SetToBag(S) /\ msg' = Idle
        /\ UNCHANGED <<now, groups, table, evlist, groupState, next, heap, missed>>
    BY DEF ScheduleEnds
  <1>2. msg.now = now /\ now \in Nat
    BY <1>1 DEF QueueInv
  <1>3. \A g : contestEndTime(evlist, g) \in Int
    BY EndTimeType DEF ListInv
  <1>4. \A t \in Int : t > now => t \in Nat /\ t >= now
    BY ONLY <1>2, SMT
  <1>5. \A t \in S : t \in Nat /\ t >= now
    BY <1>2, <1>3, <1>4
  <1>6. msg'.step = "idle"
    BY ONLY <1>1, SMT DEF Idle
  <1>7. msg'.step \notin {"announce", "ends"}
    BY ONLY <1>6, SMT
  <1> HIDE DEF S
  <1>8. QueueInv' /\ \A t : t \in Pending' <=> t \in Pending \/ t \in S
    BY <1>1, <1>5, <1>7, QueueAdd
  <1> USE DEF S
  <1>9. ASSUME NEW g \in groups \ missed PROVE StateKnown(g)'
    <2>1. msg.step # "announce"
      BY ONLY <1>1, SMT
    <2>2. groupState[g] = contestStatus(evlist, g, now) \/ now \in Pending
      BY <2>1 DEF PlanInv, StateKnown
    <2> QED BY <1>1, <1>8, <2>2 DEF StateKnown
  <1>10. ASSUME NEW g \in groups \ missed, Rescheduling(g) PROVE EndKnown(g)'
    <2>1. g \in Affected
      BY <1>10 DEF Rescheduling, Affected
    <2>2. contestEndTime(evlist, g) > now \/ contestEndTime(evlist, g) <= now
      <3>1. \A t \in Int : t > now \/ t <= now
        BY ONLY <1>2, SMT
      <3> QED BY <1>3, <3>1
    <2>3. contestEndTime(evlist, g) \in Pending' \/ contestEndTime(evlist, g) <= now
      BY <1>2, <1>8, <2>1, <2>2
    <2> QED BY <1>1, <2>3 DEF EndKnown
  <1> QED BY <1>1, <1>8, <1>9, <1>10, PlanKept

\* act_group: the new group's state is right; the end of its contest is
\* pending, has passed, or has been missed.
LEMMA CreatePlan ==
    ASSUME ListInv, QueueInv, PlanInv, NEW h, CreateGroup(h)
    PROVE  QueueInv' /\ PlanInv'
  <1> DEFINE end == contestEndTime(evlist, h)
  <1>1. /\ groups' = groups \cup {h} /\ h \notin groups
        /\ groupState' = [g \in groups' |-> IF g = h THEN updateGroupState(evlist, h, now) ELSE groupState[g]]
        /\ missed' = IF end > now /\ end \notin Pending THEN missed \cup {h} ELSE missed
        /\ UNCHANGED <<now, table, evlist, queue, next, heap, msg>>
    BY DEF CreateGroup
  <1>2. IsFiniteSet(groups')
    BY <1>1, FS_AddElement DEF QueueInv
  <1>3. QueueInv' /\ Pending' = Pending
    <2>1. msg'.step \in {"announce", "ends"} => msg'.now = now
      BY <1>1 DEF QueueInv
    <2> QED BY <1>1, <1>2, <2>1, QueueKept
  <1>4. ASSUME NEW g \in groups' \ missed' PROVE EndKnown(g)' /\ StateKnown(g)'
    <2>1. CASE g = h
      <3>1. ~(end > now) \/ end \in Pending
        BY <1>1, <2>1
      <3>2. end <= now \/ end \in Pending
        <4>1. \A t \in Int : t > now \/ t <= now
          <5>1. now \in Nat
            BY DEF QueueInv
          <5> QED BY ONLY <5>1, SMT
        <4>2. end \in Int
          BY EndTimeType DEF ListInv
        <4> QED BY <3>1, <4>1, <4>2
      <3>3. groupState'[g] = contestStatus(evlist, g, now)
        BY <1>1, <2>1 DEF updateGroupState
      <3> QED BY <1>1, <1>3, <2>1, <3>2, <3>3 DEF EndKnown, StateKnown
    <2>2. CASE g # h
      <3>1. g \in groups \ missed /\ groupState'[g] = groupState[g]
        BY <1>1, <2>2
      <3>2. EndKnown(g) /\ StateKnown(g)
        BY <3>1 DEF PlanInv
      <3> QED BY <1>1, <1>3, <3>1, <3>2 DEF EndKnown, StateKnown, Rescheduling, Concerns
    <2> QED BY <2>1, <2>2
  <1>5. \A e \in table' : e.time > now' => e.time \in Pending'
    BY <1>1, <1>3 DEF PlanInv
  <1> QED BY <1>3, <1>4, <1>5 DEF PlanInv

\* timed_actions takes an action from the queue: nothing is lost.
LEMMA DequeuePlan ==
    ASSUME QueueInv, PlanInv, TimedDequeue
    PROVE  QueueInv' /\ PlanInv'
  <1>1. QueueInv' /\ \A t \in Pending : t = 0 \/ t \in Pending'
    BY DequeueInv
  <1>2. UNCHANGED <<now, groups, table, evlist, groupState, msg, missed>>
    BY DEF TimedDequeue
  <1>3. now # 0
    <2>1. now \in Nat /\ now > 0
      BY DEF QueueInv
    <2> QED BY ONLY <2>1, SMT
  <1>4. ASSUME NEW g \in groups \ missed PROVE StateKnown(g)'
    <2>1. StateKnown(g)
      BY DEF PlanInv
    <2> QED BY <1>1, <1>2, <1>3, <2>1 DEF StateKnown
  <1>5. ASSUME NEW g \in groups \ missed, Rescheduling(g) PROVE EndKnown(g)'
    BY <1>2, <1>5 DEF EndKnown, Rescheduling, Concerns
  <1> QED BY <1>1, <1>2, <1>4, <1>5, PlanKept

\* timed_actions performs an action at its time: all states are right after it.
LEMMA PerformPlan ==
    ASSUME QueueInv, PlanInv, TimedPerform
    PROVE  QueueInv' /\ PlanInv'
  <1>1. QueueInv' /\ next = now /\ \A t \in Pending : t = now \/ t \in Pending'
    BY PerformInv
  <1>2. UNCHANGED <<now, groups, table, evlist, msg, missed>> /\ groupState' = Perform(next)
    BY DEF TimedPerform
  <1>3. ASSUME NEW g \in groups \ missed PROVE StateKnown(g)'
    <2>1. groupState'[g] = contestStatus(evlist, g, now)
      BY <1>1, <1>2 DEF Perform, updateGroupState
    <2> QED BY <1>2, <2>1 DEF StateKnown
  <1>4. ASSUME NEW g \in groups \ missed, Rescheduling(g) PROVE EndKnown(g)'
    BY <1>2, <1>4 DEF EndKnown, Rescheduling, Concerns
  <1> QED BY <1>1, <1>2, <1>3, <1>4, PlanKept

\* A second passes: a group whose status it changes has an event or the end
\* of its contest then, so that an action is pending.
LEMMA TickPlan ==
    ASSUME Prompt, ListInv, QueueInv, PlanInv, Tick
    PROVE  QueueInv' /\ PlanInv'
  <1>1. Quiet /\ now' = now + 1
        /\ UNCHANGED <<groups, table, evlist, groupState, queue, next, heap, msg, missed>>
    BY DEF Tick
  <1>2. now \notin Pending /\ msg.step = "idle"
    BY <1>1, QuietTimes
  <1>3. now \in Nat
    BY DEF QueueInv
  <1>4. evlist \in Seq(Event) /\ Ordered(evlist) /\ Range(evlist) = table /\ table \subseteq Event
    BY DEF ListInv
  <1>5. Pending' = Pending
    BY <1>1 DEF Pending
  <1>6. msg.step # "announce" /\ msg.step \notin {"announce", "ends"}
    BY ONLY <1>2, SMT
  <1>7. ASSUME NEW e \in table', e.time > now' PROVE e.time \in Pending'
    <2>1. e \in table /\ e.time > now
      <3>1. e \in table /\ e.time > now + 1 /\ e.time \in Nat
        BY <1>1, <1>4, <1>7, EventTime
      <3>2. \A t \in Nat : t > now + 1 => t > now
        BY ONLY <1>3, SMT
      <3> QED BY <3>1, <3>2
    <2> QED BY <1>5, <2>1 DEF PlanInv
  <1>8. ASSUME NEW g \in groups' \ missed' PROVE EndKnown(g)' /\ StateKnown(g)'
    <2> DEFINE end == contestEndTime(evlist, g)
    <2>1. g \in groups \ missed /\ groupState'[g] = groupState[g]
      BY <1>1
    <2>2. end <= now \/ end \in Pending
      BY <1>6, <2>1 DEF PlanInv, EndKnown, Rescheduling
    <2>3. groupState[g] = contestStatus(evlist, g, now)
      BY <1>2, <1>6, <2>1 DEF PlanInv, StateKnown
    <2>4. EndKnown(g)'
      <3>1. \A t \in Int : t <= now => t <= now + 1
        BY ONLY <1>3, SMT
      <3>2. end \in Int
        BY <1>4, EndTimeType
      <3> QED BY <1>1, <1>5, <2>2, <3>1, <3>2 DEF EndKnown
    <2>5. StateKnown(g)'
      <3>1. CASE contestStatus(evlist, g, now + 1) = contestStatus(evlist, g, now)
        BY <1>1, <2>1, <2>3, <3>1 DEF StateKnown
      <3>2. CASE \E i \in 1 .. Len(evlist) : evlist[i].time = now + 1
        <4>1. PICK i \in 1 .. Len(evlist) : evlist[i].time = now + 1
          BY <3>2
        <4>2. evlist[i] \in table
          BY <1>4, ListFacts DEF Range
        <4>3. now + 1 > now
          BY ONLY <1>3, SMT
        <4>4. now + 1 \in Pending
          BY <4>1, <4>2, <4>3 DEF PlanInv
        <4> QED BY <1>1, <1>5, <4>4 DEF StateKnown
      <3>3. CASE end = now + 1
        <4>1. ~(now + 1 <= now)
          BY ONLY <1>3, SMT
        <4> QED BY <1>1, <1>5, <2>2, <3>3, <4>1 DEF StateKnown
      <3> QED BY <1>3, <1>4, <3>1, <3>2, <3>3, StatusChanges
    <2> QED BY <2>4, <2>5
  <1> QED BY <1>7, <1>8, TickInv DEF PlanInv

\* initialise_startstop_events plans everything afresh.
LEMMA RestartPlan ==
    ASSUME ListInv, QueueInv, Restart
    PROVE  QueueInv' /\ PlanInv'
  <1>1. PICK list \in [1 .. Cardinality(table) -> table] :
           /\ evlist' = list /\ groupState' = [g \in groups |-> updateGroupState(list, g, now)]
           /\ queue' = InitialActions(list)
    BY DEF Restart
  <1>2. next' = 0 /\ heap' = EmptyBag /\ UNCHANGED <<now, groups, table>>
    BY DEF Restart
  <1>3. now \in Nat /\ now > 0 /\ IsFiniteSet(groups) /\ table \subseteq Event /\ IsFiniteSet(table)
    BY DEF QueueInv, ListInv
  <1>4. list \in Seq(Event)
    BY <1>1, RestartInv DEF ListInv
  <1> DEFINE A == InitialActions(list)
  <1>5. /\ IsABag(A)
        /\ \A t : t \in BagToSet(A) <=>
               /\ \/ \E g \in groups : contestEndTime(list, g) = t
                  \/ \E e \in table : e.time = t
               /\ t > now
        /\ \A t \in BagToSet(A) : t \in Nat
    BY <1>3, <1>4, InitialActionsFacts
  <1> HIDE DEF A
  <1>6. IsABag(heap') /\ BagToSet(heap') = {}
    BY <1>2, SMT DEF EmptyBag, SetToBag, IsABag, BagToSet
  <1>7. msg'.step \notin {"announce", "ends"}
    <2>1. CASE msg.step = "idle"
      <3>1. msg' = Idle
        BY <2>1 DEF Restart
      <3> QED BY ONLY <3>1, SMT DEF Idle
    <2>2. CASE msg.step # "idle"
      <3>1. msg' = [Idle EXCEPT !.step = "redo", !.ev = msg.ev]
        BY <2>2 DEF Restart
      <3> QED BY ONLY <3>1, SMT DEF Idle
    <2> QED BY <2>1, <2>2
  <1>8. QueueInv'
    <2>1. \A t \in Nat : t > now => t >= now
      BY ONLY <1>3, SMT
    <2>2. 0 \in Nat
      BY SMT
    <2>3. \A t \in BagToSet(queue') \cup BagToSet(heap') : t \in Nat /\ t >= now
      BY <1>1, <1>5, <1>6, <2>1 DEF A
    <2>4. IsABag(queue')
      BY <1>1, <1>5 DEF A
    <2> QED BY <1>2, <1>3, <1>6, <1>7, <2>2, <2>3, <2>4 DEF QueueInv
  <1>9. \A t \in BagToSet(A) : t \in Pending'
    BY <1>1 DEF Pending, A
  <1>10. \A e \in table' : e.time > now' => e.time \in Pending'
    BY <1>2, <1>5, <1>9
  <1>11. ASSUME NEW g \in groups' PROVE EndKnown(g)' /\ StateKnown(g)'
    <2>1. groupState'[g] = contestStatus(evlist', g, now')
      BY <1>1, <1>2 DEF updateGroupState
    <2>2. contestEndTime(list, g) <= now \/ contestEndTime(list, g) > now
      <3>1. \A t \in Int : t > now \/ t <= now
        BY ONLY <1>3, SMT
      <3> QED BY <1>4, <3>1, EndTimeType
    <2>3. contestEndTime(evlist', g) <= now' \/ contestEndTime(evlist', g) \in Pending'
      BY <1>1, <1>2, <1>5, <1>9, <2>2
    <2> QED BY <2>1, <2>3 DEF EndKnown, StateKnown
  <1> QED BY <1>8, <1>10, <1>11 DEF PlanInv

\* The server starts with no event and every group stopped.
LEMMA PlanInit ==
    ASSUME TimerInit
    PROVE  QueueInv /\ PlanInv
  <1>1. /\ now = 1 /\ groups = InitGroups /\ table = {} /\ evlist = <<>>
        /\ groupState = [g \in InitGroups |-> "stopped"]
        /\ queue = EmptyBag /\ heap = EmptyBag /\ next = 0 /\ msg = Idle
    BY DEF TimerInit
  <1>2. IsABag(EmptyBag) /\ BagToSet(EmptyBag) = {}
    BY SMT DEF EmptyBag, SetToBag, IsABag, BagToSet
  <1>3. msg.step \notin {"announce", "ends"}
    BY ONLY <1>1, SMT DEF Idle
  <1>4. 1 \in Nat /\ 1 > 0 /\ 0 \in Nat
    BY SMT
  <1>5. QueueInv
    BY <1>1, <1>2, <1>3, <1>4, TimerAssumption DEF QueueInv
  <1>6. evlist \in Seq(Event) /\ Len(evlist) = 0
    BY <1>1, SMT
  <1>7. ASSUME NEW g \in groups PROVE EndKnown(g) /\ StateKnown(g)
    <2>1. contestEndTime(evlist, g) <= now
      <3> DEFINE w == EndWalks(evlist, g)[Len(evlist)]
      <3>1. w = [status |-> "stopped", start |-> 0, end |-> 0, remaining |-> Duration]
        BY <1>6, EndWalksFacts
      <3>2. contestEndTime(evlist, g) = IF w.end = 0 /\ w.status = "started" THEN w.start + w.remaining ELSE w.end
        BY DEF contestEndTime
      <3> HIDE DEF w
      <3>3. w.end = 0 /\ w.status # "started"
        BY ONLY <3>1, SMT
      <3>4. 0 <= 1
        BY SMT
      <3> QED BY <1>1, <3>2, <3>3, <3>4
    <2>2. contestStatus(evlist, g, now) = "stopped"
      <3>1. Turns(evlist, now) = 0
        <4>1. Turns(evlist, now) \in 0 .. Len(evlist)
          <5>1. Ordered(evlist) /\ now \in Nat
            BY <1>1, <1>4, ListInit DEF ListInv
          <5> QED BY ONLY <1>6, <5>1, TurnsFacts, Zenon
        <4> QED BY ONLY <1>6, <4>1, SMT
      <3>2. 1 .. Turns(evlist, now) = {}
        BY ONLY <3>1, SMT
      <3>3. LastAction(evlist, g, now) = "stopped"
        BY <3>2 DEF LastAction
      <3> QED BY <3>3 DEF contestStatus
    <2> QED BY <1>1, <2>1, <2>2 DEF EndKnown, StateKnown
  <1> QED BY <1>1, <1>5, <1>7 DEF PlanInv

\* No step of the server or of its threads breaks the plan.
LEMMA PlanStep ==
    ASSUME Prompt, ListInv, QueueInv, PlanInv, [TimerNext]_timerVars
    PROVE  QueueInv' /\ PlanInv'
  <1>1. CASE \E ev \in Event : StartStop(ev)
    <2>1. PICK ev \in Event : Schedule(ev) /\ msg.step = "idle"
      BY <1>1 DEF StartStop
    <2> QED BY <2>1, SchedulePlan
  <1>2. CASE RedoStartStop
    <2>1. msg.step = "redo" /\ Schedule(msg.ev)
      BY <1>2 DEF RedoStartStop
    <2>2. msg.step # "idle"
      BY ONLY <2>1, SMT
    <2>3. msg.ev \in Event
      BY <2>2 DEF ListInv
    <2> QED BY <2>1, <2>3, SchedulePlan
  <1>3. CASE ScheduleEnds
    BY <1>3, EndsPlan
  <1>4. CASE \E g \in Groups : CreateGroup(g)
    BY <1>4, CreatePlan
  <1>5. CASE TimedDequeue
    BY <1>5, DequeuePlan
  <1>6. CASE TimedPerform
    BY <1>6, PerformPlan
  <1>7. CASE Tick
    BY <1>7, TickPlan
  <1>8. CASE AnnounceNow
    BY <1>8, AnnouncePlan
  <1>9. CASE Restart
    BY <1>9, RestartPlan
  <1>10. CASE UNCHANGED timerVars
    BY <1>10 DEF timerVars, QueueInv, PlanInv, EndKnown, StateKnown, Rescheduling, Concerns, Pending
  <1> QED BY <1>1, <1>2, <1>3, <1>4, <1>5, <1>6, <1>7, <1>8, <1>9, <1>10 DEF TimerNext

\* When the threads keep up with the clock, whatever the events, their order
\* and the restarts: in a second in which all work is done, every group whose
\* end of contest was not missed has the state that contestStatus computes
\* for it.  Every change of that status is an event's time or the end of the
\* contest (StatusChanges), and for each of those an action is pending.
THEOREM StatesFollowTheContest ==
    ASSUME Prompt
    PROVE  TimerSpec => []StateIsStatus
  <1>1. TimerInit => ListInv /\ QueueInv /\ PlanInv
    BY ListInit, PlanInit
  <1>2. ListInv /\ QueueInv /\ PlanInv /\ [TimerNext]_timerVars => (ListInv /\ QueueInv /\ PlanInv)'
    BY ListStep, PlanStep
  <1>3. ASSUME QueueInv, PlanInv PROVE StateIsStatus
    <2>1. SUFFICES ASSUME Quiet, NEW g \in groups \ missed
                   PROVE  groupState[g] = contestStatus(evlist, g, now)
      BY DEF StateIsStatus
    <2>2. now \notin Pending /\ msg.step = "idle"
      BY <1>3, <2>1, QuietTimes
    <2>3. msg.step # "announce"
      BY ONLY <2>2, SMT
    <2> QED BY <1>3, <2>2, <2>3 DEF PlanInv, StateKnown
  <1> QED BY <1>1, <1>2, <1>3, PTL DEF TimerSpec
==============================================================================
