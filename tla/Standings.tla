----------------------------- MODULE Standings -----------------------------
(***************************************************************************)
(* The standings of abacusd (support_standings.C) on top of the contest    *)
(* timer: the two cached tables, the contestants' one that leaves out what *)
(* was submitted during the blinds, and the final one, and the messages    *)
(* after which they are brought up to date: marks (act_mark.C), bonuses    *)
(* (act_bonus.C) and start/stop events in the past (act_startstop.C).      *)
(*                                                                         *)
(* updateStandings is only called from the message handler thread and at   *)
(* the start of the server, and runs under a write lock: it is part of the *)
(* action that calls it.                                                   *)
(***************************************************************************)
EXTENDS ContestTimer, SequencesExt

CONSTANTS
    Users, Problems,
    Contestants,    \* the users with PERMISSION_IN_STANDINGS
    GroupOf,        \* table User: the group of each user
    Subs,           \* submission ids that may be used
    UserOf, ProblemOf,  \* what each submission is for
    Blinds,         \* blinds duration
    Penalty,        \* the 20 * 60 seconds for a wrong attempt
    Bonuses,        \* the bonuses that may be given: [points, seconds]
    MaxMarks        \* bound on the marks and bonuses

ASSUME StandingsAssumption ==
    /\ GroupOf \in [Users -> InitGroups] /\ Contestants \subseteq Users
    /\ Subs \subseteq Nat
    /\ UserOf \in [Subs -> Users] /\ ProblemOf \in [Subs -> Problems]
    /\ Blinds \in 0 .. Duration /\ Penalty \in Nat /\ MaxMarks \in Nat
    /\ Bonuses \subseteq [points : Int, seconds : Int]

VARIABLES
    db,         \* tables Submission (time, 0 if not made), SubmissionMark (by
                \* a marker and by an admin) and the bonus columns of User
    standings,  \* _contestant_standings and _final_standings
    view,       \* the tables as put together by clients from the updates, for
                \* those who may see all users and for those who may not
    count       \* number of marks and bonuses so far

standVars == <<db, standings, view, count>>
vars == <<timerVars, standVars>>

\* RunResult, as far as updateStandings tells the values apart; "ignored" is
\* COMPILE_FAILED or OTHER.
Result == {"correct", "wrong", "judge", "ignored"}
Table == {"contestant", "final"}
NoRow == [points |-> 0, time |-> 0, tries |-> [p \in Problems |-> 0]]

-----------------------------------------------------------------------------
(* updateStandings, as a function of the tables d, the event list and the  *)
(* cached rows.                                                            *)

\* getSubmissionState: the mark of the user of the lowest type
SubmissionState(d, s) == IF d.marks[s].admin # "none" THEN d.marks[s].admin
                                                      ELSE d.marks[s].marker

putSubmission(d, s) == [d EXCEPT !.subTime[s] = now]

\* ON DUPLICATE KEY UPDATE: a user's second mark replaces the first.
putMark(d, s, by, result) == [d EXCEPT !.marks[s][by] = result]

\* The submissions of user u, made so far
getSubmissions(d, u) == {s \in Subs : UserOf[s] = u /\ d.subTime[s] # 0}

Counted(d, s) == SubmissionState(d, s) \notin {"none", "judge", "ignored"}

isBlinded(t) == t > Duration - Blinds

\* stable_sort keeps the order of the ids where time does not decide.
SubDataLessThan(a, b) ==
    IF a.final_only # b.final_only THEN b.final_only
    ELSE a.time < b.time \/ (a.time = b.time /\ a.id < b.id)

\* problemdata[u][p], sorted
Attempts(d, list, u, p) ==
    LET Data(s) == LET t == contestTime(list, GroupOf[u], d.subTime[s])
                   IN  [id |-> s, time |-> t, final_only |-> isBlinded(t),
                        correct |-> SubmissionState(d, s) = "correct"]
    IN  SetToSortSeq({Data(s) : s \in {x \in getSubmissions(d, u) :
                                          Counted(d, x) /\ ProblemOf[x] = p}},
                     SubDataLessThan)

\* The loop over the attempts at one problem, up to the first correct one;
\* the number of tries is negative while there is none.
Tries(subs) ==
    LET first == SelectInSeq(subs, LAMBDA a : a.correct)
    IN  IF first = 0
        THEN [tries |-> - Len(subs), time |-> 0]
        ELSE [tries |-> first, time |-> (first - 1) * Penalty + subs[first].time]

\* The contestants' table goes over the attempts before the blinds only.
Tried(d, list, u, p, w) ==
    Tries(SelectSeq(Attempts(d, list, u, p),
                    LAMBDA a : w = "final" \/ ~ a.final_only))

\* teamdata: the bonus, and what the problems add to it
AddProblems(tried, b) ==
    [points |-> b.points + Cardinality({p \in Problems : tried[p].tries > 0}),
     time   |-> MapThenSumSet(LAMBDA p : tried[p].time, Problems) - b.seconds,
     tries  |-> [p \in Problems |-> tried[p].tries]]

TeamData(d, list, u, w) ==
    AddProblems([p \in Problems |-> Tried(d, list, u, p, w)], d.bonus[u])

\* The row after an update: the old one when no attempt counts.
RowAfter(old, new) == IF new.tries = NoRow.tries THEN old ELSE new

\* The rows that getStandings(Internal) gives for the users us
RowsFor(rows, us, see_all) ==
    [u \in {x \in us : see_all \/ x \in Contestants} |-> rows[u]]

\* A client puts the rows it is sent in the place of those it had.
Received(rows, old) ==
    [u \in DOMAIN rows \cup DOMAIN old |-> IF u \in DOMAIN rows THEN rows[u] ELSE old[u]]

\* Mutant: clients are told of the final table only
BroadcastFinal(new, us) ==
    [w \in Table |-> [see_all \in BOOLEAN |->
        IF w = "final" /\ new[w] # standings[w]
        THEN Received(RowsFor(new[w], us, see_all), view[w][see_all])
        ELSE view[w][see_all]]]

\* What clients have after the broadcasts: for each table that has changed,
\* and for both kinds of viewer, the rows of the users us.
Broadcast(new, us) ==
    [w \in Table |-> [see_all \in BOOLEAN |->
        IF new[w] # standings[w]
        THEN Received(RowsFor(new[w], us, see_all), view[w][see_all])
        ELSE view[w][see_all]]]

updateStandings(d, list, us) ==
    /\ standings' = [w \in Table |-> [u \in Users |->
            IF u \in us THEN RowAfter(standings[w][u], TeamData(d, list, u, w))
            ELSE standings[w][u]]]
    /\ view' = Broadcast(standings', us)

-----------------------------------------------------------------------------
StandTypeOK ==
    /\ TimerTypeOK
    /\ db.subTime \in [Subs -> Time \cup {0}]
    /\ db.marks \in [Subs -> [marker : Result \cup {"none"},
                              admin : Result \cup {"none"}]]
    /\ db.bonus \in [Users -> [points : Int, seconds : Int]]
    /\ standings \in [Table -> [Users -> [points : Int, time : Int,
                                          tries : [Problems -> Int]]]]
    /\ DOMAIN view = Table
    /\ count \in 0 .. MaxMarks

Init ==
    /\ TimerInit
    /\ db = [subTime |-> [s \in Subs |-> 0],
             marks   |-> [s \in Subs |-> [marker |-> "none", admin |-> "none"]],
             bonus   |-> [u \in Users |-> [points |-> 0, seconds |-> 0]]]
    /\ standings = [w \in Table |-> [u \in Users |-> NoRow]]
    /\ view = [w \in Table |-> [see_all \in BOOLEAN |->
                   RowsFor(standings[w], Users, see_all)]]
    /\ count = 0

\* ActSubmit and SubmissionMessage: only while the contest of the user runs
Submit(s) ==
    /\ msg.step = "idle"
    /\ db.subTime[s] = 0
    /\ contestStatus(evlist, GroupOf[UserOf[s]], now) = "started"
    /\ db' = putSubmission(db, s)
    /\ UNCHANGED <<timerVars, standings, view, count>>

\* MarkMessage::int_process: putMark replaces the mark of the same user; a
\* deferral to the judges does not touch the standings.
PlaceMark(s, by, result) ==
    /\ msg.step = "idle" /\ count < MaxMarks
    /\ db.subTime[s] # 0
    /\ db' = putMark(db, s, by, result)
    /\ IF result = "judge" THEN UNCHANGED <<standings, view>>
                           ELSE updateStandings(db', evlist, {UserOf[s]})
    /\ count' = count + 1
    /\ UNCHANGED timerVars

\* Mutant: a bonus waits for the next mark
SetBonusOnly(u, b) ==
    /\ msg.step = "idle" /\ count < MaxMarks
    /\ db' = [db EXCEPT !.bonus[u] = b]
    /\ count' = count + 1
    /\ UNCHANGED <<timerVars, standings, view>>

\* BonusMessage::int_process
SetBonus(u, b) ==
    /\ msg.step = "idle" /\ count < MaxMarks
    /\ db' = [db EXCEPT !.bonus[u] = b]
    /\ updateStandings(db', evlist, {u})
    /\ count' = count + 1
    /\ UNCHANGED timerVars

\* The rest of MsgStartStop::int_process for an event in the past
Announce ==
    /\ AnnounceNow
    /\ updateStandings(db, evlist, Users)
    /\ UNCHANGED <<db, count>>

\* StandingsSupportModule::init: the tables are computed from nothing; the
\* clients connect again and ask for them (getStandings).
RestartServer ==
    /\ Restart
    /\ standings' = [w \in Table |-> [u \in Users |->
            RowAfter(NoRow, TeamData(db, evlist', u, w))]]
    /\ view' = [w \in Table |-> [see_all \in BOOLEAN |->
                    RowsFor(standings'[w], Users, see_all)]]
    /\ UNCHANGED <<db, count>>

TimerOnly ==
    \/ \E ev \in Event : StartStop(ev)
    \/ RedoStartStop
    \/ ScheduleEnds
    \/ \E g \in Groups : CreateGroup(g)
    \/ TimedDequeue
    \/ TimedPerform
    \/ Tick

Next ==
    \/ TimerOnly /\ UNCHANGED standVars
    \/ Announce
    \/ RestartServer
    \/ \E s \in Subs : Submit(s)
    \/ \E s \in Subs, by \in {"marker", "admin"}, r \in Result : PlaceMark(s, by, r)
    \/ \E u \in Users, b \in Bonuses : SetBonus(u, b)

Spec == Init /\ [][Next]_vars

-----------------------------------------------------------------------------
(* Properties.                                                             *)

\* The attempts of u at p that a table counts, as a set
Visible(u, p, w) ==
    {a \in {[id |-> s, time |-> contestTime(evlist, GroupOf[u], db.subTime[s]),
             result |-> SubmissionState(db, s)] :
            s \in {x \in Subs : UserOf[x] = u /\ ProblemOf[x] = p /\ db.subTime[x] # 0}} :
        a.result \in {"correct", "wrong"} /\ (w = "final" \/ a.time <= Duration - Blinds)}

Earlier(a, b) == a.time < b.time \/ (a.time = b.time /\ a.id < b.id)

\* The rule for one problem: the contest time of the first correct attempt
\* and a penalty for every attempt before it.
Rule(visible) ==
    IF \A a \in visible : a.result = "wrong"
    THEN [tries |-> - Cardinality(visible), time |-> 0]
    ELSE CHOOSE r \in {[tries |-> Cardinality({b \in visible : Earlier(b, a)}) + 1,
                        time |-> a.time + Penalty * Cardinality({b \in visible : Earlier(b, a)})] :
                       a \in {x \in visible : x.result = "correct"}} :
            \A a \in {x \in visible : x.result = "correct"} :
                r.tries <= Cardinality({b \in visible : Earlier(b, a)}) + 1

\* The rules of the contest for one row: a point for every problem solved,
\* the times added up, and the bonus.
FollowsRules(row, u, ruled) ==
    /\ row.points = db.bonus[u].points + Cardinality({p \in Problems : ruled[p].tries > 0})
    /\ row.time = MapThenSumSet(LAMBDA p : ruled[p].time, Problems) - db.bonus[u].seconds
    /\ \A p \in Problems : row.tries[p] = ruled[p].tries

\* A user with a submission deferred to the judges, or without any attempt
\* that counts in the table: such a row is not brought up to date
\* (act_mark.C:136, support_standings.C:199).
LeftAlone(u, w) ==
    \/ \E s \in Subs : UserOf[s] = u /\ SubmissionState(db, s) = "judge"
    \/ \A p \in Problems : Visible(u, p, w) = {}

\* Between two messages every row of both tables is what the rules of the
\* contest make of the marks, the bonuses and the start/stop events in the
\* database: no change leaves a cached row behind, and the contestants' table
\* shows nothing of the blinds.
StandingsFollowRules ==
    /\ StandTypeOK
    /\ msg.step \notin {"announce", "redo"} =>
           \A u \in Users, w \in Table :
               \/ LeftAlone(u, w)
               \/ FollowsRules(standings[w][u], u,
                               [p \in Problems |-> Rule(Visible(u, p, w))])

\* A client that takes the full table once and then applies the updates has
\* the table: whatever changes a row is also broadcast, to each kind of
\* viewer the rows it may see.
ClientsHaveTheTable ==
    \A w \in Table, see_all \in BOOLEAN :
        view[w][see_all] = RowsFor(standings[w], Users, see_all)
=============================================================================
