--------------------------- MODULE StandingsProofs ---------------------------
(***************************************************************************)
(* Proofs about Standings: the server runs the contest timer, so that what *)
(* TimerProofs shows of the timer holds in the server, and the tables that *)
(* clients put together from the updates are right, for every set of       *)
(* groups, users and problems and any number of events, marks, bonuses and *)
(* restarts.                                                               *)
(***************************************************************************)
EXTENDS Standings, TimerProofs

\* Most steps are logic and sets; those that compute name SMT
USE Zenon

-----------------------------------------------------------------------------
(* The timer in the server.                                                *)

\* A step of the server is a step of the timer or leaves the timer alone:
\* submissions, marks and bonuses only read the contest time.
LEMMA TimerStep == [Next]_vars => [TimerNext]_timerVars
  <1> SUFFICES ASSUME [Next]_vars PROVE [TimerNext]_timerVars
    OBVIOUS
  <1>1. ASSUME NEW s \in Subs, Submit(s) PROVE UNCHANGED timerVars
    BY <1>1 DEF Submit
  <1>2. ASSUME NEW s \in Subs, NEW by \in {"marker", "admin"}, NEW r \in Result, PlaceMark(s, by, r)
        PROVE  UNCHANGED timerVars
    BY <1>2 DEF PlaceMark
  <1>3. ASSUME NEW u \in Users, NEW b \in Bonuses, SetBonus(u, b) PROVE UNCHANGED timerVars
    BY <1>3 DEF SetBonus
  <1>4. Announce => AnnounceNow
    BY DEF Announce
  <1>5. RestartServer => Restart
    BY DEF RestartServer
  <1>6. UNCHANGED vars => UNCHANGED timerVars
    BY DEF vars
  <1>7. TimerOnly \/ AnnounceNow \/ Restart => TimerNext
    BY DEF TimerOnly, TimerNext
  <1> QED BY <1>1, <1>2, <1>3, <1>4, <1>5, <1>6, <1>7 DEF Next

\* The server implements the contest timer: the statements that receive
\* submissions, marks and bonuses disturb neither the event list nor the
\* timed actions, and a restart of the server is one of the timer.
THEOREM ServerRunsTheTimer == Spec => TimerSpec
  <1>1. Init => TimerInit
    BY DEF Init
  <1> QED BY <1>1, TimerStep, PTL DEF Spec, TimerSpec

\* So the contest times by which submissions are scored are right, before
\* and after a restart, and so are the states shown to the contestants.
THEOREM ServerKeepsTime ==
    Spec => []ContestTimeIsRunningTime /\ RestartKeepsContestTime /\ (Prompt => []StateIsStatus)
  <1>1. CASE Prompt
    BY <1>1, ServerRunsTheTimer, ContestTimeIsRight, RestartsKeepContestTime, StatesFollowTheContest, PTL
  <1>2. CASE ~Prompt
    BY <1>2, ServerRunsTheTimer, ContestTimeIsRight, RestartsKeepContestTime, PTL
  <1> QED BY <1>1, <1>2

-----------------------------------------------------------------------------
(* The tables of the clients.                                              *)

\* The broadcasts of updateStandings bring a client's table up to date.
LEMMA BroadcastIsEnough ==
    ASSUME ClientsHaveTheTable, NEW d, NEW list, NEW us \in SUBSET Users,
           updateStandings(d, list, us)
    PROVE  ClientsHaveTheTable'
  <1> SUFFICES ASSUME NEW w \in Table, NEW see_all \in BOOLEAN
               PROVE  view'[w][see_all] = RowsFor(standings'[w], Users, see_all)
    BY DEF ClientsHaveTheTable
  <1> DEFINE new == standings'[w]
             old == standings[w]
             seen == {x \in Users : see_all \/ x \in Contestants}
  <1>1. \A u \in Users : u \notin us => new[u] = old[u]
    BY DEF updateStandings
  <1>2. view'[w][see_all] = IF new # old THEN Received(RowsFor(new, us, see_all), view[w][see_all])
                                         ELSE view[w][see_all]
    BY DEF updateStandings, Broadcast
  <1>3. view[w][see_all] = RowsFor(old, Users, see_all)
    BY DEF ClientsHaveTheTable
  <1>4. CASE new = old
    BY <1>2, <1>3, <1>4
  <1>5. CASE new # old
    <2> HIDE DEF new, old
    <2>1. view'[w][see_all] = Received(RowsFor(new, us, see_all), RowsFor(old, Users, see_all))
      BY <1>2, <1>3, <1>5
    <2>2. Received(RowsFor(new, us, see_all), RowsFor(old, Users, see_all)) = RowsFor(new, Users, see_all)
      BY <1>1, SMT DEF Received, RowsFor
    <2> QED BY <2>1, <2>2 DEF new
  <1> QED BY <1>4, <1>5

\* Whatever changes a row (a mark, a bonus, an event in the past) tells the
\* clients of it, each kind of viewer of the rows it may see, for any number
\* of users, problems and groups.
THEOREM TablesOfClients == Spec => []ClientsHaveTheTable
  <1>1. Init => ClientsHaveTheTable
    <2> SUFFICES ASSUME Init, NEW w \in Table, NEW see_all \in BOOLEAN
                 PROVE  view[w][see_all] = RowsFor(standings[w], Users, see_all)
      BY DEF ClientsHaveTheTable
    <2> QED BY DEF Init
  <1>2. ASSUME ClientsHaveTheTable, [Next]_vars PROVE ClientsHaveTheTable'
    <2>1. CASE UNCHANGED <<standings, view>>
      BY <1>2, <2>1 DEF ClientsHaveTheTable
    <2>2. ASSUME NEW us \in SUBSET Users, NEW d, NEW list, updateStandings(d, list, us)
          PROVE  ClientsHaveTheTable'
      BY <1>2, <2>2, BroadcastIsEnough
    <2>3. CASE Announce
      <3>1. updateStandings(db, evlist, Users)
        BY <2>3 DEF Announce
      <3> QED BY <2>2, <3>1
    <2>4. CASE RestartServer
      BY <2>4 DEF RestartServer, ClientsHaveTheTable
    <2>5. ASSUME NEW s \in Subs, NEW by \in {"marker", "admin"}, NEW r \in Result, PlaceMark(s, by, r)
          PROVE  ClientsHaveTheTable'
      <3>1. CASE r = "judge"
        BY <2>1, <2>5, <3>1 DEF PlaceMark
      <3>2. CASE r # "judge"
        <4>1. {UserOf[s]} \in SUBSET Users
          BY StandingsAssumption
        <4>2. updateStandings(db', evlist, {UserOf[s]})
          BY <2>5, <3>2 DEF PlaceMark
        <4> QED BY <2>2, <4>1, <4>2
      <3> QED BY <3>1, <3>2
    <2>6. ASSUME NEW u \in Users, NEW b \in Bonuses, SetBonus(u, b)
          PROVE  ClientsHaveTheTable'
      <3>1. updateStandings(db', evlist, {u}) /\ {u} \in SUBSET Users
        BY <2>6 DEF SetBonus
      <3> QED BY <2>2, <3>1
    <2>7. ASSUME NEW s \in Subs, Submit(s) PROVE UNCHANGED <<standings, view>>
      BY <2>7 DEF Submit
    <2>8. TimerOnly /\ UNCHANGED standVars => UNCHANGED <<standings, view>>
      BY DEF standVars
    <2>9. UNCHANGED vars => UNCHANGED <<standings, view>>
      BY DEF vars, standVars
    <2> QED BY <1>2, <2>1, <2>3, <2>4, <2>5, <2>6, <2>7, <2>8, <2>9 DEF Next
  <1> QED BY <1>1, <1>2, PTL DEF Spec
=============================================================================
