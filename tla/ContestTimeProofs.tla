-------------------------- MODULE ContestTimeProofs --------------------------
(***************************************************************************)
(* Proofs about the operators of ContestTime, for every list of events,    *)
(* group and time: where scheduleStartStop puts an event, what the loops   *)
(* of contestTime, contestStatus and contestEndTime compute, and when the  *)
(* status of a group can change.                                           *)
(***************************************************************************)
EXTENDS ContestTime, FiniteSetTheorems, WellFoundedInduction, TLAPS

\* Most steps are logic and sets; those that compute name SMT
USE Zenon

-----------------------------------------------------------------------------
(* The first place in a list with some property.                           *)

\* a set of places has a first one
LEMMA FirstPlace ==
    ASSUME NEW T, T \subseteq Nat, T # {}
    PROVE  /\ Min(T) \in T
           /\ \A y \in T : Min(T) <= y
  <1>1. \E x \in T : \A y \in T : ~(<<y, x>> \in OpToRel(<, Nat))
    BY NatLessThanWellFounded, WFMin
  <1>2. PICK x \in T : \A y \in T : ~(<<y, x>> \in OpToRel(<, Nat))
    BY <1>1
  <1>3. ASSUME NEW y \in T PROVE x <= y
    <2>1. x \in Nat /\ y \in Nat
      OBVIOUS
    <2>2. ASSUME y < x PROVE <<y, x>> \in OpToRel(<, Nat)
      <3>1. <<y, x>> \in Nat \X Nat /\ <<y, x>>[1] = y /\ <<y, x>>[2] = x
        BY ONLY <2>1, SMT
      <3> QED BY <2>2, <3>1 DEF OpToRel
    <2>3. ~(y < x)
      BY <1>2, <2>2
    <2> QED BY ONLY <2>1, <2>3, SMT
  <1> QED BY <1>3 DEF Min

\* a set of places of a list has a last one
LEMMA LastPlace ==
    ASSUME NEW n \in Nat, NEW T, T \subseteq 1 .. n, T # {}
    PROVE  /\ Max(T) \in T
           /\ \A y \in T : Max(T) >= y
  <1> DEFINE U == {n - x : x \in T}
  <1>1. U \subseteq Nat /\ U # {}
    <2>1. ASSUME NEW x \in T PROVE n - x \in Nat
      BY ONLY x \in 1 .. n, n \in Nat, SMT
    <2> QED BY <2>1
  <1>2. Min(U) \in U /\ \A y \in U : Min(U) <= y
    BY <1>1, FirstPlace
  <1>3. PICK x \in T : Min(U) = n - x
    BY <1>2
  <1>4. ASSUME NEW y \in T PROVE x >= y
    <2>1. n - x <= n - y
      BY <1>2, <1>3
    <2>2. x \in 1 .. n /\ y \in 1 .. n
      OBVIOUS
    <2> QED BY ONLY <2>1, <2>2, n \in Nat, SMT
  <1> QED BY <1>4 DEF Max

\* Induction up to n: the first number that is not in S would be the successor
\* of one that is.
LEMMA UpTo ==
    ASSUME NEW n \in Nat, NEW S, 0 \in S, \A i \in 0 .. n - 1 : i \in S => i + 1 \in S
    PROVE  0 .. n \subseteq S
  <1> DEFINE T == {i \in 0 .. n : i \notin S}
  <1>1. ASSUME T # {} PROVE FALSE
    <2>1. T \subseteq Nat
      BY SMT
    <2>2. Min(T) \in T /\ \A y \in T : Min(T) <= y
      BY <1>1, <2>1, FirstPlace
    <2>3. PICK k \in 0 .. n : k \notin S /\ k \in T /\ \A y \in T : k <= y
      BY <2>2
    <2>4. k - 1 \in 0 .. n - 1 /\ k - 1 \in 0 .. n /\ ~(k <= k - 1) /\ (k - 1) + 1 = k
      <3>1. k # 0
        BY <2>3
      <3> QED BY ONLY <3>1, k \in 0 .. n, n \in Nat, SMT
    <2>5. k - 1 \in S
      BY <2>3, <2>4
    <2>6. (k - 1) + 1 \in S
      BY <2>4, <2>5
    <2> QED BY <2>3, <2>4, <2>6
  <1> QED BY <1>1

\* f holds the values, in V, of the variables of a loop after each of its n
\* turns: it starts with v and does h in each turn.
IsLoop(f, n, V, v, h) ==
    f \in [0 .. n -> V] /\ f[0] = v /\ \A i \in 1 .. n : f[i] = h[<<i, f[i - 1]>>]

\* There is such a function for each loop.
LEMMA LoopValues ==
    ASSUME NEW n \in Nat, NEW V, NEW v \in V, NEW h, h \in [(1 .. n) \X V -> V]
    PROVE  \E f : IsLoop(f, n, V, v, h)
  <1> DEFINE Upto(k, f) == f[0] = v /\ \A i \in 1 .. k : f[i] = h[<<i, f[i - 1]>>]
             S == {k \in 0 .. n : \E f \in [0 .. k -> V] : Upto(k, f)}
  <1>1. 0 \in S
    <2> DEFINE f == [i \in 0 .. 0 |-> v]
    <2>1. f \in [0 .. 0 -> V] /\ Upto(0, f)
      BY SMT
    <2>2. 0 \in 0 .. n
      BY SMT
    <2> QED BY <2>1, <2>2
  <1>2. ASSUME NEW k \in 0 .. n - 1, k \in S PROVE k + 1 \in S
    <2>1. PICK f \in [0 .. k -> V] : Upto(k, f)
      BY <1>2
    <2> DEFINE w == h[<<k + 1, f[k]>>]
               e == [i \in 0 .. k + 1 |-> IF i = k + 1 THEN w ELSE f[i]]
    <2>2. k \in Nat /\ k + 1 \in 1 .. n /\ k + 1 \in 0 .. n /\ f[k] \in V
      BY SMT
    <2>3. w \in V
      BY <2>2
    <2> HIDE DEF w
    <2>4. e \in [0 .. k + 1 -> V]
      BY <2>2, <2>3, SMT
    <2>5. e[0] = v
      BY <2>1, <2>2, SMT
    <2>6. ASSUME NEW i \in 1 .. k + 1 PROVE e[i] = h[<<i, e[i - 1]>>]
      <3>1. e[i - 1] = f[i - 1]
        BY <2>2, SMT
      <3>2. CASE i = k + 1
        <4>1. e[i] = w /\ i - 1 = k
          BY <2>2, <3>2, SMT
        <4> QED BY <3>1, <3>2, <4>1 DEF w
      <3>3. CASE i # k + 1
        <4>1. e[i] = f[i] /\ i \in 1 .. k
          BY <2>2, <3>3, SMT
        <4> QED BY <2>1, <3>1, <4>1
      <3> QED BY <3>2, <3>3
    <2> QED BY <2>2, <2>4, <2>5, <2>6
  <1>3. 0 .. n \subseteq S
    <2> HIDE DEF S
    <2> QED BY <1>1, <1>2, UpTo
  <1>4. n \in 0 .. n
    BY SMT
  <1> QED BY <1>3, <1>4 DEF IsLoop

\* The members of two sequences, one after the other
LEMMA ConcatFacts ==
    ASSUME NEW S, NEW u \in Seq(S), NEW v \in Seq(S)
    PROVE  /\ u \o v \in Seq(S) /\ Len(u \o v) = Len(u) + Len(v)
           /\ \A i \in 1 .. Len(u) + Len(v) :
                 (u \o v)[i] = IF i <= Len(u) THEN u[i] ELSE v[i - Len(u)]
  <1>1. u \o v \in Seq(S) /\ Len(u \o v) = Len(u) + Len(v)
    BY SMT
  <1>2. \A i \in 1 .. Len(u) + Len(v) :
            (u \o v)[i] = IF i <= Len(u) THEN u[i] ELSE v[i - Len(u)]
    BY SMT
  <1> QED BY <1>1, <1>2

\* Where a loop stops: at the first of the places, or else at the end
LEMMA StopFacts ==
    ASSUME NEW list, Len(list) \in Nat, NEW I, I \subseteq 1 .. Len(list)
    PROVE  /\ Stop(I, list) \in 1 .. Len(list) + 1
           /\ Stop(I, list) \in I \/ Stop(I, list) = Len(list) + 1
           /\ \A i \in I : Stop(I, list) <= i
  <1> DEFINE T == I \cup {Len(list) + 1}
  <1>1. Len(list) + 1 \in 1 .. Len(list) + 1 /\ 1 .. Len(list) \subseteq 1 .. Len(list) + 1
    BY SMT
  <1>2. T \subseteq 1 .. Len(list) + 1 /\ T # {}
    BY <1>1
  <1>3. T \subseteq Nat
    BY ONLY Len(list) \in Nat, <1>2, SMT
  <1>4. Min(T) \in T /\ \A y \in T : Min(T) <= y
    BY ONLY <1>2, <1>3, FirstPlace, Zenon
  <1> QED BY <1>2, <1>4 DEF Stop

-----------------------------------------------------------------------------
(* The list of events.                                                     *)

Ordered(list) == \A i, j \in DOMAIN list : i < j => list[i].time <= list[j].time

\* the time of an event is a number
LEMMA EventTime ==
    ASSUME NEW e \in Event
    PROVE  e.time \in Nat
  <1>1. e.time \in 1 .. MaxTime
    BY DEF Event, Time
  <1> QED BY ONLY <1>1, ContestAssumption, SMT

\* the places, their number and the times of a list of events
LEMMA ListFacts ==
    ASSUME NEW list \in Seq(Event)
    PROVE  /\ Len(list) \in Nat /\ DOMAIN list = 1 .. Len(list)
           /\ \A i \in 1 .. Len(list) : list[i] \in Event /\ list[i].time \in Nat
  <1>1. /\ Len(list) \in Nat /\ DOMAIN list = 1 .. Len(list)
        /\ \A i \in 1 .. Len(list) : list[i] \in Event
    BY SMT
  <1> QED BY <1>1, EventTime

\* new is the list with the event ev at place k, after the earlier ones.
Inserted(new, list, ev, k) ==
    /\ k \in 1 .. Len(list) + 1
    /\ new \in Seq(Event) /\ Len(new) = Len(list) + 1 /\ DOMAIN new = 1 .. Len(list) + 1
    /\ \A j \in 1 .. Len(list) + 1 : new[j] = IF j < k THEN list[j] ELSE IF j = k THEN ev ELSE list[j - 1]
    /\ \A i \in 1 .. Len(list) : i < k => list[i].time < ev.time
    /\ k \in 1 .. Len(list) => list[k].time >= ev.time

\* scheduleStartStop puts the event in front of those that are not earlier.
LEMMA InsertPlace ==
    ASSUME NEW list \in Seq(Event), NEW ev \in Event
    PROVE  \E k : Inserted(Insert(list, ev), list, ev, k)
  <1> DEFINE n == Len(list)
             I == {i \in 1 .. n : list[i].time >= ev.time}
             k == Stop(I, list)
             new == Insert(list, ev)
             u == SubSeq(list, 1, k - 1)
             v == <<ev>>
             w == SubSeq(list, k, n)
             x == u \o v
  <1>1. /\ n \in Nat /\ DOMAIN list = 1 .. n /\ ev.time \in Nat
        /\ \A i \in 1 .. n : list[i] \in Event /\ list[i].time \in Nat
    BY ListFacts, EventTime
  <1>2. k \in 1 .. n + 1 /\ (k \in I \/ k = n + 1) /\ \A i \in I : k <= i
    BY <1>1, StopFacts
  <1>3. new = x \o w
    BY <1>1 DEF Insert
  <1> HIDE DEF k, new
  <1>4. ASSUME NEW i \in 1 .. n, i < k PROVE list[i].time < ev.time
    <2>1. i \in Nat /\ k \in Nat
      BY ONLY <1>1, <1>2, i \in 1 .. n, SMT
    <2>2. ~(k <= i)
      BY ONLY <1>4, <2>1, SMT
    <2>3. ~(list[i].time >= ev.time) /\ list[i].time \in Nat
      BY <1>1, <1>2, <2>2
    <2> QED BY ONLY <1>1, <2>3, SMT
  <1>5. ASSUME k \in 1 .. n PROVE list[k].time >= ev.time
    <2>1. k # n + 1
      BY ONLY <1>1, <1>5, SMT
    <2> QED BY <1>2, <2>1
  <1> HIDE DEF I
  <1>6. k \in 1 .. n + 1
    BY <1>2
  <1>7. u \in Seq(Event) /\ Len(u) = k - 1 /\ \A i \in 1 .. k - 1 : u[i] = list[i]
    BY ONLY list \in Seq(Event), <1>1, <1>6, SMT
  <1>8. w \in Seq(Event) /\ Len(w) = n + 1 - k /\ \A i \in 1 .. n + 1 - k : w[i] = list[i + k - 1]
    BY ONLY list \in Seq(Event), <1>1, <1>6, SMT
  <1>9. v \in Seq(Event) /\ Len(v) = 1 /\ v[1] = ev
    BY SMT
  <1> HIDE DEF u, v, w
  <1>10. x \in Seq(Event) /\ Len(x) = k /\ x[k] = ev /\ \A i \in 1 .. k - 1 : x[i] = list[i]
    <2>1. x \in Seq(Event) /\ Len(x) = Len(u) + Len(v)
      BY <1>7, <1>9, ConcatFacts
    <2>2. \A i \in 1 .. Len(u) + Len(v) : x[i] = IF i <= Len(u) THEN u[i] ELSE v[i - Len(u)]
      BY <1>7, <1>9, ConcatFacts
    <2> HIDE DEF x
    <2>3. Len(u) = k - 1 /\ Len(v) = 1 /\ v[1] = ev
      BY <1>7, <1>9
    <2>4. Len(u) + Len(v) = k /\ ~(k <= Len(u)) /\ k - Len(u) = 1 /\ k \in 1 .. k
      BY ONLY <1>1, <1>6, <2>3, SMT
    <2>5. x[k] = ev
      BY <2>2, <2>3, <2>4
    <2>6. ASSUME NEW i \in 1 .. k - 1 PROVE i \in 1 .. k /\ i <= k - 1
      BY ONLY <1>1, <1>6, <2>6, SMT
    <2>7. \A i \in 1 .. k - 1 : x[i] = list[i]
      BY <1>7, <2>2, <2>3, <2>4, <2>6
    <2> QED BY <2>1, <2>4, <2>5, <2>7
  <1> HIDE DEF x
  <1>11. new \in Seq(Event) /\ Len(new) = n + 1
    <2>1. new \in Seq(Event) /\ Len(new) = Len(x) + Len(w)
      BY <1>3, <1>8, <1>10, ConcatFacts
    <2>2. Len(x) + Len(w) = n + 1
      BY ONLY <1>1, <1>6, <1>8, <1>10, SMT
    <2> QED BY <2>1, <2>2
  <1>12. \A j \in 1 .. n + 1 : new[j] = IF j <= k THEN x[j] ELSE w[j - k]
    <2>1. \A j \in 1 .. Len(x) + Len(w) : new[j] = IF j <= Len(x) THEN x[j] ELSE w[j - Len(x)]
      BY <1>3, <1>8, <1>10, ConcatFacts
    <2>2. Len(x) = k /\ Len(x) + Len(w) = n + 1
      BY ONLY <1>1, <1>6, <1>8, <1>10, SMT
    <2> QED BY <2>1, <2>2
  <1>13. ASSUME NEW j \in 1 .. n + 1
         PROVE  new[j] = IF j < k THEN list[j] ELSE IF j = k THEN ev ELSE list[j - 1]
    <2>1. CASE j < k
      <3>1. j <= k /\ j \in 1 .. k - 1
        BY ONLY <1>1, <1>6, <2>1, j \in 1 .. n + 1, SMT
      <3> QED BY <1>10, <1>12, <2>1, <3>1
    <2>2. CASE j = k
      <3>1. k <= k /\ ~(k < k)
        BY ONLY <1>1, <1>6, SMT
      <3> QED BY <1>10, <1>12, <2>2, <3>1
    <2>3. CASE ~(j < k) /\ j # k
      <3>1. ~(j <= k) /\ j - k \in 1 .. n + 1 - k /\ j - k + k - 1 = j - 1
        BY ONLY <1>1, <1>6, <2>3, j \in 1 .. n + 1, SMT
      <3> QED BY <1>8, <1>12, <2>3, <3>1
    <2> QED BY <2>1, <2>2, <2>3
  <1>14. DOMAIN new = 1 .. n + 1
    BY ONLY <1>11, SMT
  <1>15. Inserted(new, list, ev, k)
    BY <1>4, <1>5, <1>6, <1>11, <1>13, <1>14 DEF Inserted
  <1> QED BY <1>15 DEF new

\* It keeps the list in the order of time, and adds the event.
LEMMA InsertFacts ==
    ASSUME NEW list \in Seq(Event), Ordered(list), NEW ev \in Event
    PROVE  /\ Insert(list, ev) \in Seq(Event)
           /\ Ordered(Insert(list, ev))
           /\ Range(Insert(list, ev)) = Range(list) \cup {ev}
  <1> DEFINE n == Len(list)
             new == Insert(list, ev)
  <1>1. /\ n \in Nat /\ DOMAIN list = 1 .. n /\ ev.time \in Nat
        /\ \A i \in 1 .. n : list[i] \in Event /\ list[i].time \in Nat
    BY ListFacts, EventTime
  <1>2. PICK k : Inserted(new, list, ev, k)
    BY InsertPlace
  <1>5. k \in 1 .. n + 1
    BY <1>2 DEF Inserted
  <1>6. \A i \in 1 .. n : i < k => list[i].time < ev.time
    BY <1>2 DEF Inserted
  <1>7. k \in 1 .. n => list[k].time >= ev.time
    BY <1>2 DEF Inserted
  <1>8. /\ new \in Seq(Event) /\ Len(new) = n + 1 /\ DOMAIN new = 1 .. n + 1
        /\ \A j \in 1 .. n + 1 : new[j] = IF j < k THEN list[j] ELSE IF j = k THEN ev ELSE list[j - 1]
    BY <1>2 DEF Inserted
  <1> HIDE DEF new
  <1>9. Ordered(new)
    <2>1. ASSUME NEW i \in 1 .. n + 1, NEW j \in 1 .. n + 1, i < j PROVE new[i].time <= new[j].time
      <3>0. \A a, b \in 1 .. n : a < b => list[a].time <= list[b].time
        BY <1>1 DEF Ordered
      <3>1. CASE j < k
        <4>1. i \in 1 .. n /\ j \in 1 .. n /\ i < k
          BY ONLY <1>1, <1>5, <2>1, <3>1, SMT
        <4>2. new[i] = list[i] /\ new[j] = list[j]
          BY <1>8, <2>1, <3>1, <4>1
        <4> QED BY <2>1, <3>0, <4>1, <4>2
      <3>2. CASE j = k
        BY <1>1, <1>5, <1>6, <1>8, <2>1, <3>2, SMT
      <3>3. CASE j > k /\ i > k
        <4>1. /\ i - 1 \in 1 .. n /\ j - 1 \in 1 .. n /\ i - 1 < j - 1
              /\ ~(i < k) /\ i # k /\ ~(j < k) /\ j # k
          BY ONLY <1>1, <1>5, <2>1, <3>3, SMT
        <4>2. new[i] = list[i - 1] /\ new[j] = list[j - 1]
          BY <1>8, <2>1, <4>1
        <4> QED BY <3>0, <4>1, <4>2
      <3>4. CASE j > k /\ i <= k
        <4>0. k \in 1 .. n /\ j - 1 \in 1 .. n /\ k <= j - 1 /\ ~(j < k) /\ j # k
          BY ONLY <1>1, <1>5, <3>4, j \in 1 .. n + 1, SMT
        <4>1. k \in 1 .. n /\ j - 1 \in 1 .. n /\ k <= j - 1 /\ new[j] = list[j - 1]
          BY <1>8, <4>0
        <4>2. ev.time <= list[k].time
          BY <1>1, <1>7, <4>1, SMT
        <4>3. list[k].time <= list[j - 1].time
          <5>1. CASE k = j - 1
            <6>1. list[k].time \in Nat
              BY <1>1, <4>1
            <6>2. list[k].time <= list[k].time
              BY ONLY <6>1, SMT
            <6> QED BY <5>1, <6>2
          <5>2. CASE k # j - 1
            <6>1. k < j - 1
              BY ONLY <1>1, <4>1, <5>2, SMT
            <6> QED BY <3>0, <4>1, <6>1
          <5> QED BY <5>1, <5>2
        <4>4. new[i].time <= ev.time
          BY <1>1, <1>5, <1>6, <1>8, <2>1, <3>4, SMT
        <4>5. new[i].time \in Nat
          BY <1>8, ListFacts
        <4>6. list[k].time \in Nat /\ new[j].time = list[j - 1].time /\ new[j].time \in Nat
          BY <1>1, <4>1
        <4> QED BY ONLY <1>1, <4>2, <4>3, <4>4, <4>5, <4>6, SMT
      <3> QED BY <1>1, <1>5, <3>1, <3>2, <3>3, <3>4, SMT
    <2> QED BY <1>8, <2>1 DEF Ordered
  <1>10. ASSUME NEW e \in Range(new) PROVE e \in Range(list) \cup {ev}
    <2>1. PICK j \in 1 .. n + 1 : e = new[j]
      BY <1>8 DEF Range
    <2>2. \/ e = ev
          \/ j \in 1 .. n /\ e = list[j]
          \/ j - 1 \in 1 .. n /\ e = list[j - 1]
      BY <1>1, <1>5, <1>8, <2>1, SMT
    <2> QED BY <1>1, <2>2 DEF Range
  <1>11. ASSUME NEW e \in Range(list) \cup {ev} PROVE e \in Range(new)
    <2>1. CASE e = ev
      <3>1. new[k] = ev
        BY <1>1, <1>5, <1>8, SMT
      <3> QED BY <1>5, <1>8, <2>1, <3>1 DEF Range
    <2>2. CASE e \in Range(list)
      <3>1. PICK i \in 1 .. n : e = list[i]
        BY <1>1, <2>2 DEF Range
      <3>2. CASE i < k
        <4>1. i \in 1 .. n + 1 /\ new[i] = e
          BY <1>1, <1>5, <1>8, <3>1, <3>2, SMT
        <4> QED BY <1>8, <4>1 DEF Range
      <3>3. CASE ~(i < k)
        <4>1. i + 1 \in 1 .. n + 1 /\ new[i + 1] = e
          BY <1>1, <1>5, <1>8, <3>1, <3>3, SMT
        <4> QED BY <1>8, <4>1 DEF Range
      <3> QED BY <3>2, <3>3
    <2> QED BY <2>1, <2>2
  <1> QED BY <1>8, <1>9, <1>10, <1>11 DEF new

\* the loops end before the first later event
LEMMA TurnsFacts ==
    ASSUME NEW list \in Seq(Event), Ordered(list), NEW t \in Nat
    PROVE  /\ Turns(list, t) \in 0 .. Len(list)
           /\ \A i \in 1 .. Len(list) : list[i].time <= t <=> i <= Turns(list, t)
  <1> DEFINE n == Len(list)
             I == {i \in 1 .. n : list[i].time > t}
             m == Stop(I, list)
             k == Turns(list, t)
  <1>1. /\ n \in Nat /\ DOMAIN list = 1 .. n
        /\ \A i \in 1 .. n : list[i] \in Event /\ list[i].time \in Nat
    BY ListFacts
  <1>2. m \in 1 .. n + 1 /\ (m \in I \/ m = n + 1) /\ \A i \in I : m <= i
    BY <1>1, StopFacts
  <1>3. k = m - 1
    BY <1>1 DEF Turns
  <1> HIDE DEF m, k
  <1>4. k \in 0 .. n
    BY ONLY <1>1, <1>2, <1>3, SMT
  <1>5. ASSUME NEW i \in 1 .. n PROVE list[i].time <= t <=> i <= k
    <2>1. list[i].time \in Nat /\ i \in Nat
      BY <1>1, SMT
    <2>2. list[i].time > t => m <= i
      BY <1>2
    <2>3. CASE m = n + 1
      <3>1. i <= k /\ ~(m <= i)
        BY ONLY <1>1, <1>3, <2>3, i \in 1 .. n, SMT
      <3> QED BY ONLY <2>1, <2>2, <3>1, t \in Nat, SMT
    <2>4. CASE m \in I
      <3>1. m \in 1 .. n /\ list[m].time > t /\ list[m].time \in Nat
        BY <1>1, <2>4
      <3>2. m < i => list[m].time <= list[i].time
        BY <1>1, <3>1 DEF Ordered
      <3>3. m = i => list[m].time = list[i].time
        OBVIOUS
      <3> QED BY ONLY <1>1, <1>3, <2>1, <2>2, <3>1, <3>2, <3>3, t \in Nat, SMT
    <2> QED BY <1>2, <2>3, <2>4
  <1> QED BY <1>4, <1>5 DEF k

\* so they see all the events that are due
LEMMA DueFacts ==
    ASSUME NEW list \in Seq(Event), Ordered(list), NEW t \in Time
    PROVE  Range(Due(list, t)) = {e \in Range(list) : e.time <= t}
  <1> DEFINE n == Len(list)
             k == Turns(list, t)
             due == Due(list, t)
  <1>1. t \in Nat
    BY ContestAssumption, SMT DEF Time
  <1>2. n \in Nat /\ DOMAIN list = 1 .. n /\ k \in 0 .. n
    BY <1>1, ListFacts, TurnsFacts
  <1>3. \A i \in 1 .. n : list[i].time <= t <=> i <= k
    BY <1>1, TurnsFacts
  <1>4. due = SubSeq(list, 1, k)
    BY DEF Due
  <1> HIDE DEF due, k
  <1>5. DOMAIN due = 1 .. k /\ \A i \in 1 .. k : due[i] = list[i]
    BY <1>2, <1>4, SMT
  <1>6. \A i \in 1 .. n : i \in 1 .. k <=> i <= k
    BY <1>2, SMT
  <1>7. 1 .. k \subseteq 1 .. n
    BY <1>2, SMT
  <1> QED BY <1>2, <1>3, <1>5, <1>6, <1>7 DEF Range, due

-----------------------------------------------------------------------------
(* The loops of contestTime and contestStatus over a list of events.       *)

Acc == [status : Action, start : Nat, elapsed : Int]

\* one turn of the loop
LEMMA WalkFacts ==
    ASSUME NEW acc \in Acc, NEW e \in Event
    PROVE  /\ Walk(acc, e) \in Acc
           /\ Walk(acc, e).status = e.action
           /\ Elapsed(Walk(acc, e), e.time) = Elapsed(acc, e.time)
  <1>1. acc.status \in {"started", "stopped"} /\ acc.start \in Nat /\ acc.elapsed \in Int
    BY SMT DEF Acc, Action
  <1>2. e.time \in Nat /\ e.action \in {"started", "stopped"}
    BY EventTime DEF Event, Action
  <1> DEFINE new == Walk(acc, e)
  <1>3. CASE e.action = acc.status
    BY <1>3 DEF Walk
  <1>4. CASE e.action # acc.status /\ e.action = "started"
    <2>1. new = [acc EXCEPT !.status = "started", !.start = e.time] /\ acc.status = "stopped"
      BY <1>1, <1>4 DEF Walk
    <2> HIDE DEF new
    <2>2. new.status = "started" /\ new.start = e.time /\ new.elapsed = acc.elapsed
      BY ONLY <2>1, acc \in Acc, SMT DEF Acc
    <2>3. new \in Acc
      BY <1>2, <2>1 DEF Acc, Action
    <2>4. Elapsed(new, e.time) = Elapsed(acc, e.time) /\ new.status = e.action
      BY ONLY <1>1, <1>2, <1>4, <2>1, <2>2, SMT DEF Elapsed
    <2> QED BY <2>3, <2>4 DEF new
  <1>5. CASE e.action # acc.status /\ e.action = "stopped"
    <2>1. /\ new = [acc EXCEPT !.status = "stopped", !.elapsed = @ + e.time - acc.start]
          /\ acc.status = "started"
      BY <1>1, <1>5 DEF Walk
    <2> HIDE DEF new
    <2>2. new.status = "stopped" /\ new.elapsed = acc.elapsed + e.time - acc.start
      BY ONLY <2>1, acc \in Acc, SMT DEF Acc
    <2>3. new \in Acc
      <3>1. acc.elapsed + e.time - acc.start \in Int
        BY ONLY <1>1, <1>2, SMT
      <3> QED BY <2>1, <3>1 DEF Acc, Action
    <2>4. Elapsed(new, e.time) = Elapsed(acc, e.time) /\ new.status = e.action
      BY ONLY <1>1, <1>2, <1>5, <2>1, <2>2, SMT DEF Elapsed
    <2> QED BY <2>3, <2>4 DEF new
  <1> QED BY <1>2, <1>3, <1>4, <1>5

\* the variables of the loop after each turn
LEMMA WalksFacts ==
    ASSUME NEW list \in Seq(Event), NEW g
    PROVE  /\ Walks(list, g)[0] = [status |-> "stopped", start |-> 0, elapsed |-> 0]
           /\ \A i \in 1 .. Len(list) :
                 Walks(list, g)[i] = IF Concerns(list[i], g) THEN Walk(Walks(list, g)[i - 1], list[i])
                                                             ELSE Walks(list, g)[i - 1]
           /\ \A i \in 0 .. Len(list) : Walks(list, g)[i] \in Acc
  <1> DEFINE n == Len(list)
             v == [status |-> "stopped", start |-> 0, elapsed |-> 0]
             Turn(i, acc) == IF Concerns(list[i], g) THEN Walk(acc, list[i]) ELSE acc
             W == Walks(list, g)
  <1>1. n \in Nat /\ \A i \in 1 .. n : list[i] \in Event
    BY ListFacts
  <1>2. v \in Acc
    BY SMT DEF Acc, Action
  <1>3. ASSUME NEW i \in 1 .. n, NEW acc \in Acc PROVE Turn(i, acc) \in Acc
    BY <1>1, WalkFacts
  <1>4. W = CHOOSE f : f = [i \in 0 .. n |-> IF i = 0 THEN v ELSE Turn(i, f[i - 1])]
    BY DEF Walks
  <1>5. \E f : f = [i \in 0 .. n |-> IF i = 0 THEN v ELSE Turn(i, f[i - 1])]
    <2> DEFINE h == [p \in (1 .. n) \X Acc |-> Turn(p[1], p[2])]
    <2>1. \A i \in 1 .. n, acc \in Acc : h[<<i, acc>>] = Turn(i, acc)
      <3> HIDE DEF Turn
      <3> QED BY SMT
    <2>2. h \in [(1 .. n) \X Acc -> Acc]
      <3> HIDE DEF Turn
      <3> QED BY <1>3, SMT
    <2> HIDE DEF h, v, n
    <2>3. \E f : IsLoop(f, n, Acc, v, h)
      BY <1>1, <1>2, <2>2, LoopValues
    <2>3a. PICK f \in [0 .. n -> Acc] : f[0] = v /\ \A i \in 1 .. n : f[i] = h[<<i, f[i - 1]>>]
      BY <2>3 DEF IsLoop
    <2>4. ASSUME NEW i \in 1 .. n PROVE f[i] = Turn(i, f[i - 1])
      <3>1. i - 1 \in 0 .. n
        BY <1>1, SMT
      <3> QED BY <2>1, <2>3a, <3>1
    <2>5. ASSUME NEW i \in 0 .. n PROVE i = 0 \/ (i # 0 /\ i \in 1 .. n)
      BY <1>1, SMT
    <2> HIDE DEF Turn
    <2>6. f = [i \in 0 .. n |-> IF i = 0 THEN v ELSE Turn(i, f[i - 1])]
      BY <2>3a, <2>4, <2>5
    <2> QED BY <2>6
  <1> HIDE DEF W, v, Turn
  <1>6. W = [i \in 0 .. n |-> IF i = 0 THEN v ELSE Turn(i, W[i - 1])]
    BY <1>4, <1>5
  <1>7. W[0] = v /\ \A i \in 1 .. n : W[i] = Turn(i, W[i - 1])
    <2>1. 0 \in 0 .. n /\ \A i \in 1 .. n : i \in 0 .. n /\ i # 0
      BY <1>1, SMT
    <2> DEFINE F(i) == IF i = 0 THEN v ELSE Turn(i, W[i - 1])
    <2>2. \A i \in 0 .. n : W[i] = F(i)
      BY <1>6
    <2> QED BY <2>1, <2>2
  <1>8. 0 .. n \subseteq {i \in 0 .. n : W[i] \in Acc}
    <2> DEFINE S == {i \in 0 .. n : W[i] \in Acc}
    <2>1. 0 \in S
      BY <1>1, <1>2, <1>7, SMT
    <2>2. ASSUME NEW i \in 0 .. n - 1, i \in S PROVE i + 1 \in S
      <3>1. i + 1 \in 1 .. n /\ i + 1 \in 0 .. n /\ (i + 1) - 1 = i
        BY <1>1, SMT
      <3>2. W[i + 1] = Turn(i + 1, W[i])
        BY <1>7, <3>1
      <3> QED BY <1>3, <2>2, <3>1, <3>2
    <2> HIDE DEF S
    <2>3. 0 .. n \subseteq S
      BY <1>1, <2>1, <2>2, UpTo
    <2> QED BY <2>3 DEF S
  <1>9. \A i \in 1 .. n : Turn(i, W[i - 1]) = IF Concerns(list[i], g) THEN Walk(W[i - 1], list[i]) ELSE W[i - 1]
    BY DEF Turn
  <1> QED BY <1>7, <1>8, <1>9 DEF W, v

\* the status after i turns is the action of the last event of the group
LEMMA StatusFacts ==
    ASSUME NEW list \in Seq(Event), NEW g, NEW k \in 0 .. Len(list)
    PROVE  LET seen == {i \in 1 .. k : Concerns(list[i], g)}
           IN  Walks(list, g)[k].status = IF seen = {} THEN "stopped" ELSE list[Max(seen)].action
  <1> DEFINE n == Len(list)
             W == Walks(list, g)
             Seen(m) == {i \in 1 .. m : Concerns(list[i], g)}
             Is(m) == W[m].status = IF Seen(m) = {} THEN "stopped" ELSE list[Max(Seen(m))].action
             S == {m \in 0 .. n : Is(m)}
  <1>1. n \in Nat /\ \A i \in 1 .. n : list[i] \in Event
    BY ListFacts
  <1>2. /\ W[0].status = "stopped"
        /\ \A i \in 1 .. n : W[i] = IF Concerns(list[i], g) THEN Walk(W[i - 1], list[i]) ELSE W[i - 1]
        /\ \A i \in 0 .. n : W[i] \in Acc
    <2>1. W[0] = [status |-> "stopped", start |-> 0, elapsed |-> 0]
      BY WalksFacts
    <2>2. W[0].status = "stopped"
      BY ONLY <2>1, SMT
    <2> QED BY <2>2, WalksFacts
  <1> HIDE DEF W
  <1>3. 0 \in S
    <2>1. Seen(0) = {} /\ 0 \in 0 .. n
      BY <1>1, SMT
    <2> QED BY <1>2, <2>1
  <1>4. ASSUME NEW m \in 0 .. n - 1, m \in S PROVE m + 1 \in S
    <2>1. m + 1 \in 1 .. n /\ m + 1 \in 0 .. n /\ (m + 1) - 1 = m /\ m \in 0 .. n /\ m + 1 \in Nat
      BY <1>1, SMT
    <2>2. \A i : i \in 1 .. m + 1 <=> i \in 1 .. m \/ i = m + 1
      BY <1>1, SMT
    <2>3. CASE ~Concerns(list[m + 1], g)
      <3>1. W[m + 1] = W[m]
        BY <1>2, <2>1, <2>3
      <3>2. Seen(m + 1) = Seen(m)
        BY <2>2, <2>3
      <3>3. Is(m + 1)
        <4>1. Is(m)
          BY <1>4
        <4> HIDE DEF Seen
        <4> QED BY <3>1, <3>2, <4>1
      <3> QED BY <2>1, <3>3
    <2>4. CASE Concerns(list[m + 1], g)
      <3>1. W[m + 1].status = list[m + 1].action
        <4>1. W[m + 1] = Walk(W[m], list[m + 1])
          BY <1>2, <2>1, <2>4
        <4>2. W[m] \in Acc /\ list[m + 1] \in Event
          BY <1>1, <1>2, <2>1
        <4>3. Walk(W[m], list[m + 1]).status = list[m + 1].action
          BY ONLY <4>2, WalkFacts, Zenon
        <4> QED BY <4>1, <4>3
      <3>2. m + 1 \in Seen(m + 1)
        BY <2>2, <2>4
      <3>3. Max(Seen(m + 1)) \in Seen(m + 1) /\ \A y \in Seen(m + 1) : Max(Seen(m + 1)) >= y
        BY <2>1, <3>2, LastPlace
      <3>4. Max(Seen(m + 1)) \in 1 .. m + 1 /\ Max(Seen(m + 1)) >= m + 1
        BY <3>2, <3>3
      <3>5. Max(Seen(m + 1)) = m + 1
        <4> HIDE DEF Seen
        <4> QED BY ONLY <2>1, <3>4, SMT
      <3>6. Is(m + 1)
        <4> HIDE DEF Seen
        <4> QED BY <3>1, <3>2, <3>5
      <3> QED BY <2>1, <3>6
    <2> QED BY <2>3, <2>4
  <1>5. 0 .. n \subseteq S
    <2> HIDE DEF S
    <2> QED BY <1>1, <1>3, <1>4, UpTo
  <1> QED BY <1>5 DEF W

\* so LastAction is the status that the loop of contestTime has at its end
LEMMA LastActionFacts ==
    ASSUME NEW list \in Seq(Event), Ordered(list), NEW g, NEW t \in Nat
    PROVE  LastAction(list, g, t) = Walks(list, g)[Turns(list, t)].status
  <1>1. Turns(list, t) \in 0 .. Len(list)
    BY TurnsFacts
  <1> QED BY <1>1, StatusFacts DEF LastAction

\* the time that has elapsed by t, whatever the duration
Raw(list, g, t) == Elapsed(Walks(list, g)[Turns(list, t)], t)

\* A second adds one to it if the contest is running then, also when
\* the list has several events for its end.
LEMMA RawStep ==
    ASSUME NEW list \in Seq(Event), Ordered(list), NEW g, NEW t \in Nat
    PROVE  /\ Raw(list, g, t) \in Int
           /\ Raw(list, g, t + 1) = Raw(list, g, t) + (IF LastAction(list, g, t) = "started" THEN 1 ELSE 0)
  <1> DEFINE n == Len(list)
             W == Walks(list, g)
             k == Turns(list, t)
             m == Turns(list, t + 1)
             E(i) == Elapsed(W[i], t + 1)
             S == {d \in 0 .. m - k : E(k + d) = E(k)}
  <1>1. n \in Nat /\ \A i \in 1 .. n : list[i] \in Event /\ list[i].time \in Nat
    BY ListFacts
  <1>2. t + 1 \in Nat
    BY SMT
  <1>3. /\ k \in 0 .. n /\ m \in 0 .. n
        /\ \A i \in 1 .. n : list[i].time <= t <=> i <= k
        /\ \A i \in 1 .. n : list[i].time <= t + 1 <=> i <= m
    BY <1>2, TurnsFacts
  <1>4. /\ \A i \in 1 .. n : W[i] = IF Concerns(list[i], g) THEN Walk(W[i - 1], list[i]) ELSE W[i - 1]
        /\ \A i \in 0 .. n : W[i] \in Acc
    BY WalksFacts
  <1>5. LastAction(list, g, t) = W[k].status
    BY LastActionFacts
  <1>6. Raw(list, g, t) = Elapsed(W[k], t) /\ Raw(list, g, t + 1) = E(m)
    BY DEF Raw
  <1> HIDE DEF W, k, m, n
  <1>7. k <= m
    <2>1. CASE k = 0
      BY ONLY <1>1, <1>3, <2>1, SMT
    <2>2. CASE k # 0
      <3>1. k \in 1 .. n
        BY ONLY <1>1, <1>3, <2>2, SMT
      <3>2. list[k].time <= t /\ list[k].time \in Nat
        BY <1>1, <1>3, <3>1, SMT
      <3>3. list[k].time <= t + 1
        BY ONLY <3>2, t \in Nat, SMT
      <3> QED BY <1>3, <3>1, <3>3
    <2> QED BY <2>1, <2>2
  <1>8. m - k \in Nat
    BY ONLY <1>1, <1>3, <1>7, SMT
  <1>9. 0 \in S
    BY ONLY <1>1, <1>3, <1>8, SMT
  <1>10. ASSUME NEW d \in 0 .. m - k - 1, d \in S PROVE d + 1 \in S
    <2> DEFINE i == k + d + 1
    <2>1. /\ i \in 1 .. n /\ i - 1 = k + d /\ k + (d + 1) = i /\ k + d \in 0 .. n
          /\ d + 1 \in 0 .. m - k /\ i <= m /\ ~(i <= k)
      BY ONLY <1>1, <1>3, <1>8, d \in 0 .. m - k - 1, SMT
    <2> HIDE DEF i
    <2>2. list[i].time = t + 1
      <3>1. ~(list[i].time <= t) /\ list[i].time <= t + 1 /\ list[i].time \in Nat
        BY <1>1, <1>3, <2>1
      <3> QED BY ONLY <3>1, t \in Nat, SMT
    <2>3. W[i] = IF Concerns(list[i], g) THEN Walk(W[k + d], list[i]) ELSE W[k + d]
      BY <1>4, <2>1
    <2>4. E(i) = E(k + d)
      <3>1. CASE Concerns(list[i], g)
        <4>1. W[i] = Walk(W[k + d], list[i]) /\ W[k + d] \in Acc /\ list[i] \in Event
          BY <1>1, <1>4, <2>1, <2>3, <3>1
        <4>2. Elapsed(Walk(W[k + d], list[i]), list[i].time) = Elapsed(W[k + d], list[i].time)
          BY <4>1, WalkFacts
        <4> QED BY <2>2, <4>1, <4>2
      <3>2. CASE ~Concerns(list[i], g)
        BY <2>3, <3>2
      <3> QED BY <3>1, <3>2
    <2>5. E(k + d) = E(k)
      BY <1>10
    <2> HIDE DEF E
    <2>6. E(k + (d + 1)) = E(k)
      BY <2>1, <2>4, <2>5
    <2> QED BY <2>1, <2>6
  <1>11. 0 .. m - k \subseteq S
    <2> HIDE DEF S
    <2> QED BY <1>8, <1>9, <1>10, UpTo
  <1>12. E(m) = E(k)
    <2>1. m - k \in 0 .. m - k /\ k + (m - k) = m
      BY ONLY <1>1, <1>3, <1>8, SMT
    <2>2. E(k + (m - k)) = E(k)
      BY <1>11, <2>1
    <2> HIDE DEF E
    <2> QED BY <2>1, <2>2
  <1>13. W[k].status \in {"started", "stopped"} /\ W[k].start \in Nat /\ W[k].elapsed \in Int
    <2>1. W[k] \in Acc
      BY <1>3, <1>4
    <2> QED BY ONLY <2>1, SMT DEF Acc, Action
  <1>14. /\ Elapsed(W[k], t) \in Int
         /\ E(k) = Elapsed(W[k], t) + (IF W[k].status = "started" THEN 1 ELSE 0)
    <2>1. CASE W[k].status = "started"
      <3>1. Elapsed(W[k], t) = W[k].elapsed + (t - W[k].start)
        BY <2>1 DEF Elapsed
      <3>2. E(k) = W[k].elapsed + ((t + 1) - W[k].start)
        BY <2>1 DEF Elapsed
      <3>3. E(k) = Elapsed(W[k], t) + 1 /\ Elapsed(W[k], t) \in Int
        <4>1. ASSUME NEW a \in Int, NEW b \in Nat
              PROVE  a + ((t + 1) - b) = (a + (t - b)) + 1 /\ a + (t - b) \in Int
          BY ONLY t \in Nat, a \in Int, b \in Nat, SMT
        <4> QED BY <1>13, <3>1, <3>2, <4>1
      <3> QED BY <2>1, <3>3
    <2>2. CASE W[k].status # "started"
      BY ONLY <1>13, <2>2, t \in Nat, SMT DEF Elapsed
    <2> QED BY <2>1, <2>2
  <1> HIDE DEF E
  <1> QED BY <1>5, <1>6, <1>12, <1>14

\* It is the number of the seconds in which the contest was running.
LEMMA RawIsRunningTime ==
    ASSUME NEW list \in Seq(Event), Ordered(list), NEW g, NEW t \in Nat
    PROVE  /\ IsFiniteSet(RunningSeconds(list, g, t))
           /\ Raw(list, g, t) = Cardinality(RunningSeconds(list, g, t))
  <1> DEFINE R(s) == RunningSeconds(list, g, s)
             Is(s) == IsFiniteSet(R(s)) /\ Raw(list, g, s) = Cardinality(R(s))
             S == {s \in 0 .. t : Is(s)}
  <1>1. Len(list) \in Nat /\ \A i \in 1 .. Len(list) : list[i] \in Event
    BY ListFacts
  <1>2. Turns(list, 0) = 0
    <2>1. /\ Turns(list, 0) \in 0 .. Len(list)
          /\ \A i \in 1 .. Len(list) : list[i].time <= 0 <=> i <= Turns(list, 0)
      <3>1. 0 \in Nat
        BY SMT
      <3> QED BY <3>1, TurnsFacts
    <2>2. ASSUME NEW i \in 1 .. Len(list) PROVE ~(list[i].time <= 0)
      <3>1. list[i].time \in 1 .. MaxTime
        BY <1>1 DEF Event, Time
      <3> QED BY ONLY <3>1, ContestAssumption, SMT
    <2>3. Turns(list, 0) \notin 1 .. Len(list)
      BY <1>1, <2>1, <2>2, SMT
    <2> QED BY ONLY <1>1, <2>1, <2>3, SMT
  <1>3. Walks(list, g)[0] = [status |-> "stopped", start |-> 0, elapsed |-> 0]
    BY WalksFacts
  <1>4. 0 \in S
    <2>1. R(0) = {}
      <3>1. 1 .. 0 - 1 = {}
        BY SMT
      <3> QED BY <3>1 DEF RunningSeconds
    <2>2. Raw(list, g, 0) = 0
      BY <1>2, <1>3, SMT DEF Raw, Elapsed
    <2>3. 0 \in 0 .. t
      BY SMT
    <2> HIDE DEF R
    <2> QED BY <2>1, <2>2, <2>3, FS_EmptySet
  <1>5. ASSUME NEW s \in 0 .. t - 1, s \in S PROVE s + 1 \in S
    <2>1. s \in Nat /\ s + 1 \in 0 .. t /\ (s + 1) - 1 = s
      BY SMT
    <2>2. /\ Raw(list, g, s) \in Int
          /\ Raw(list, g, s + 1) = Raw(list, g, s) + (IF LastAction(list, g, s) = "started" THEN 1 ELSE 0)
      BY <2>1, RawStep
    <2>3. s \notin R(s)
      <3>1. s \notin 1 .. s - 1
        BY <2>1, SMT
      <3> QED BY <3>1 DEF RunningSeconds
    <2>4. CASE LastAction(list, g, s) = "started"
      <3>1. s # 0
        <4>1. LastAction(list, g, 0) = Walks(list, g)[0].status
          <5>1. 0 \in Nat
            BY SMT
          <5> QED BY <1>2, <5>1, LastActionFacts
        <4>2. Walks(list, g)[0].status = "stopped"
          BY ONLY <1>3, SMT
        <4> QED BY <2>4, <4>1, <4>2
      <3>2. \A x : x \in 1 .. (s + 1) - 1 <=> x \in 1 .. s - 1 \/ x = s
        BY <2>1, <3>1, SMT
      <3>3. R(s + 1) = R(s) \cup {s}
        BY <2>4, <3>2 DEF RunningSeconds
      <3> HIDE DEF R
      <3>4. IsFiniteSet(R(s)) /\ Raw(list, g, s) = Cardinality(R(s))
        BY <1>5
      <3>5. IsFiniteSet(R(s + 1)) /\ Cardinality(R(s + 1)) = Cardinality(R(s)) + 1
        <4> DEFINE A == R(s)
        <4>1. IsFiniteSet(A) /\ s \notin A
          BY <2>3, <3>4
        <4> HIDE DEF A
        <4>2. IsFiniteSet(A \cup {s}) /\ Cardinality(A \cup {s}) = Cardinality(A) + 1
          BY ONLY <4>1, FS_AddElement, Zenon
        <4> QED BY <3>3, <4>2 DEF A
      <3> QED BY <2>1, <2>2, <2>4, <3>4, <3>5
    <2>5. CASE LastAction(list, g, s) # "started"
      <3>1. \A x : x \in 1 .. (s + 1) - 1 => x \in 1 .. s - 1 \/ x = s
        BY <2>1, SMT
      <3>2. \A x : x \in 1 .. s - 1 => x \in 1 .. (s + 1) - 1
        BY <2>1, SMT
      <3>3. R(s + 1) = R(s)
        BY <2>5, <3>1, <3>2 DEF RunningSeconds
      <3> HIDE DEF R
      <3>4. IsFiniteSet(R(s)) /\ Raw(list, g, s) = Cardinality(R(s))
        BY <1>5
      <3>5. Raw(list, g, s + 1) = Raw(list, g, s)
        <4>1. Raw(list, g, s + 1) = Raw(list, g, s) + 0
          BY <2>2, <2>5
        <4> QED BY ONLY <2>2, <4>1, SMT
      <3> QED BY <2>1, <3>3, <3>4, <3>5
    <2> QED BY <2>4, <2>5
  <1>6. 0 .. t \subseteq S
    <2> HIDE DEF S
    <2> QED BY <1>4, <1>5, UpTo
  <1>7. t \in 0 .. t
    BY SMT
  <1> QED BY <1>6, <1>7

\* contestTime limits it to the duration.
LEMMA ContestTimeFacts ==
    ASSUME NEW list \in Seq(Event), Ordered(list), NEW g, NEW t \in Nat
    PROVE  contestTime(list, g, t) = Min({Duration, Cardinality(RunningSeconds(list, g, t))})
  <1> DEFINE c == Cardinality(RunningSeconds(list, g, t))
             T == {Duration, c}
  <1>1. c \in Nat /\ Raw(list, g, t) = c
    BY RawIsRunningTime, FS_CardinalityType
  <1>2. Duration \in Nat
    BY ContestAssumption
  <1>3. contestTime(list, g, t) = IF c > Duration THEN Duration ELSE c
    BY <1>1 DEF contestTime, Raw
  <1> HIDE DEF c
  <1>4. T \subseteq Nat /\ T # {}
    BY <1>1, <1>2
  <1>5. Min(T) \in T /\ \A y \in T : Min(T) <= y
    BY <1>4, FirstPlace
  <1>6. Min(T) \in {Duration, c} /\ Min(T) <= Duration /\ Min(T) <= c
    BY <1>5
  <1>7. Min(T) = IF c > Duration THEN Duration ELSE c
    <2> HIDE DEF T
    <2> QED BY ONLY <1>1, <1>2, <1>6, SMT
  <1>8. contestTime(list, g, t) = Min(T)
    BY ONLY <1>3, <1>7, SMT
  <1> QED BY <1>8 DEF c

\* An event does not change what the list says of the seconds before it.
LEMMA InsertLater ==
    ASSUME NEW list \in Seq(Event), Ordered(list), NEW ev \in Event, NEW g,
           NEW t \in Nat, t < ev.time
    PROVE  LastAction(Insert(list, ev), g, t) = LastAction(list, g, t)
  <1> DEFINE n == Len(list)
             new == Insert(list, ev)
             m == Turns(list, t)
             p == Turns(new, t)
  <1>1. /\ n \in Nat /\ ev.time \in Nat
        /\ \A i \in 1 .. n : list[i].time \in Nat
    BY ListFacts, EventTime
  <1>2. PICK k : Inserted(new, list, ev, k)
    BY InsertPlace
  <1>3. /\ k \in 1 .. n + 1 /\ new \in Seq(Event) /\ Len(new) = n + 1
        /\ \A j \in 1 .. n + 1 : new[j] = IF j < k THEN list[j] ELSE IF j = k THEN ev ELSE list[j - 1]
        /\ k \in 1 .. n => list[k].time >= ev.time
    BY <1>2 DEF Inserted
  <1>4. m \in 0 .. n /\ \A i \in 1 .. n : list[i].time <= t <=> i <= m
    BY TurnsFacts
  <1>5. Ordered(new)
    BY InsertFacts
  <1>6. p \in 0 .. n + 1 /\ \A i \in 1 .. n + 1 : new[i].time <= t <=> i <= p
    BY <1>3, <1>5, TurnsFacts
  <1> HIDE DEF n, new, m, p
  <1>7. m < k
    <2>1. CASE k \in 1 .. n
      <3>1. ~(list[k].time <= t)
        BY ONLY <1>1, <1>3, <2>1, t \in Nat, t < ev.time, SMT
      <3>2. ~(k <= m)
        BY <1>4, <2>1, <3>1
      <3> QED BY ONLY <1>1, <1>3, <1>4, <3>2, SMT
    <2>2. CASE k \notin 1 .. n
      BY ONLY <1>1, <1>3, <1>4, <2>2, SMT
    <2> QED BY <2>1, <2>2
  <1>8. p < k
    <2>1. new[k] = ev
      <3>1. k \in 1 .. n + 1 /\ ~(k < k)
        BY ONLY <1>1, <1>3, SMT
      <3> QED BY <1>3, <3>1
    <2>2. ~(ev.time <= t)
      BY ONLY <1>1, t \in Nat, t < ev.time, SMT
    <2>3. ~(k <= p)
      BY <1>3, <1>6, <2>1, <2>2
    <2> QED BY ONLY <1>1, <1>3, <1>6, <2>3, SMT
  <1>9. \A i \in 1 .. n : i < k => i \in 1 .. n + 1 /\ new[i] = list[i]
    <2>1. \A i \in 1 .. n : i \in 1 .. n + 1
      BY ONLY <1>1, SMT
    <2> QED BY <1>3, <2>1
  <1>10. ASSUME NEW i \in 1 .. n, i < k PROVE i <= m <=> i <= p
    BY <1>4, <1>6, <1>9, <1>10
  <1>11. p = m
    <2>1. m # 0 => m \in 1 .. n
      BY ONLY <1>1, <1>4, SMT
    <2>2. m # 0 => m <= p
      <3>1. m <= m
        BY ONLY <1>1, <1>4, SMT
      <3> QED BY <1>7, <1>10, <2>1, <3>1
    <2>3. p # 0 => p \in 1 .. n
      BY ONLY <1>1, <1>3, <1>6, <1>8, SMT
    <2>4. p # 0 => p <= m
      <3>1. p <= p
        BY ONLY <1>1, <1>6, SMT
      <3> QED BY <1>8, <1>10, <2>3, <3>1
    <2> QED BY ONLY <1>1, <1>4, <1>6, <2>2, <2>4, SMT
  <1>12. \A i \in 1 .. m : new[i] = list[i]
    <2>1. \A i \in 1 .. m : i \in 1 .. n /\ i < k
      BY ONLY <1>1, <1>3, <1>4, <1>7, SMT
    <2> QED BY <1>9, <2>1
  <1> DEFINE Seen == {i \in 1 .. m : Concerns(list[i], g)}
  <1>13. {i \in 1 .. p : Concerns(new[i], g)} = Seen
    BY <1>11, <1>12
  <1>14. LastAction(list, g, t) = IF Seen = {} THEN "stopped" ELSE list[Max(Seen)].action
    BY DEF LastAction, m
  <1>15. LastAction(new, g, t) = IF Seen = {} THEN "stopped" ELSE new[Max(Seen)].action
    BY <1>13 DEF LastAction, p
  <1>16. Seen # {} => Max(Seen) \in 1 .. m
    <2>1. m \in Nat
      BY ONLY <1>1, <1>4, SMT
    <2> QED BY <2>1, LastPlace
  <1> HIDE DEF Seen
  <1>17. LastAction(new, g, t) = LastAction(list, g, t)
    <2>1. CASE Seen = {}
      BY <1>14, <1>15, <2>1
    <2>2. CASE Seen # {}
      <3>1. new[Max(Seen)] = list[Max(Seen)]
        BY <1>12, <1>16, <2>2
      <3> QED BY <1>14, <1>15, <2>2, <3>1
    <2> QED BY <2>1, <2>2
  <1> QED BY <1>17 DEF new

\* So it does not change the status either.
LEMMA StatusLater ==
    ASSUME NEW list \in Seq(Event), Ordered(list), NEW ev \in Event, NEW g,
           NEW t \in Nat, t < ev.time
    PROVE  contestStatus(Insert(list, ev), g, t) = contestStatus(list, g, t)
  <1> DEFINE new == Insert(list, ev)
  <1>1. new \in Seq(Event) /\ Ordered(new)
    BY InsertFacts
  <1>2. ev.time \in Nat
    BY EventTime
  <1>3. ASSUME NEW s \in 1 .. t - 1 PROVE LastAction(new, g, s) = LastAction(list, g, s)
    <2>1. s \in Nat /\ s < ev.time
      BY ONLY <1>2, s \in 1 .. t - 1, t \in Nat, t < ev.time, SMT
    <2> QED BY <2>1, InsertLater
  <1>4. RunningSeconds(new, g, t) = RunningSeconds(list, g, t)
    BY <1>3 DEF RunningSeconds
  <1>5. LastAction(new, g, t) = LastAction(list, g, t)
    BY InsertLater
  <1> HIDE DEF new
  <1>6. contestTime(new, g, t) = contestTime(list, g, t)
    BY <1>1, <1>4, ContestTimeFacts
  <1>7. contestStatus(new, g, t) = contestStatus(list, g, t)
    BY <1>5, <1>6 DEF contestStatus
  <1> QED BY <1>7 DEF new

-----------------------------------------------------------------------------
(* The loop of contestEndTime.                                             *)

EndAcc == [status : Action, start : Nat, end : Int, remaining : Int]

\* A turn after the loop has returned, or with an event that changes nothing
LEMMA EndWalkSame ==
    ASSUME NEW acc, NEW e, acc.end # 0 \/ e.action = acc.status
    PROVE  EndWalk(acc, e) = acc
  BY DEF EndWalk

\* A start
LEMMA EndWalkStart ==
    ASSUME NEW acc \in EndAcc, NEW e \in Event,
           acc.end = 0, e.action = "started", acc.status = "stopped"
    PROVE  /\ EndWalk(acc, e) \in EndAcc
           /\ EndWalk(acc, e).status = "started" /\ EndWalk(acc, e).start = e.time
           /\ EndWalk(acc, e).end = 0 /\ EndWalk(acc, e).remaining = acc.remaining
  <1> DEFINE new == EndWalk(acc, e)
  <1>1. new = [acc EXCEPT !.status = "started", !.start = e.time]
    <2>1. e.action # acc.status
      BY SMT
    <2> QED BY <2>1 DEF EndWalk
  <1>2. e.time \in Nat
    BY EventTime
  <1> HIDE DEF new
  <1>3. new \in EndAcc
    BY <1>1, <1>2 DEF EndAcc, Action
  <1>4. new.status = "started" /\ new.start = e.time /\ new.end = acc.end /\ new.remaining = acc.remaining
    BY ONLY <1>1, acc \in EndAcc, SMT DEF EndAcc
  <1> QED BY <1>3, <1>4 DEF new

\* A stop
LEMMA EndWalkStop ==
    ASSUME NEW acc \in EndAcc, NEW e \in Event,
           acc.end = 0, e.action = "stopped", acc.status = "started"
    PROVE  /\ EndWalk(acc, e) \in EndAcc
           /\ IF e.time - acc.start > acc.remaining
              THEN EndWalk(acc, e).end = acc.start + acc.remaining
              ELSE /\ EndWalk(acc, e).status = "stopped" /\ EndWalk(acc, e).start = acc.start
                   /\ EndWalk(acc, e).end = 0
                   /\ EndWalk(acc, e).remaining = acc.remaining - (e.time - acc.start)
  <1> DEFINE new == EndWalk(acc, e)
  <1>1. acc.start \in Nat /\ acc.remaining \in Int /\ e.time \in Nat
    BY EventTime DEF EndAcc
  <1>2. e.action # acc.status /\ e.action # "started"
    BY SMT
  <1>3. CASE e.time - acc.start > acc.remaining
    <2>1. new = [acc EXCEPT !.end = acc.start + acc.remaining]
      BY <1>2, <1>3 DEF EndWalk
    <2> HIDE DEF new
    <2>2. acc.start + acc.remaining \in Int
      BY ONLY <1>1, SMT
    <2>3. new \in EndAcc
      BY <2>1, <2>2 DEF EndAcc, Action
    <2>4. new.end = acc.start + acc.remaining
      BY ONLY <2>1, acc \in EndAcc, SMT DEF EndAcc
    <2> QED BY <1>3, <2>3, <2>4 DEF new
  <1>4. CASE ~(e.time - acc.start > acc.remaining)
    <2>1. new = [acc EXCEPT !.status = "stopped", !.remaining = @ - (e.time - acc.start)]
      BY <1>2, <1>4 DEF EndWalk
    <2> HIDE DEF new
    <2>2. acc.remaining - (e.time - acc.start) \in Int
      BY ONLY <1>1, SMT
    <2>3. new \in EndAcc
      BY <2>1, <2>2 DEF EndAcc, Action
    <2>4. /\ new.status = "stopped" /\ new.start = acc.start /\ new.end = acc.end
          /\ new.remaining = acc.remaining - (e.time - acc.start)
      BY ONLY <2>1, acc \in EndAcc, SMT DEF EndAcc
    <2> QED BY <1>4, <2>3, <2>4 DEF new
  <1> QED BY <1>3, <1>4

\* The variables keep their types.
LEMMA EndWalkType ==
    ASSUME NEW acc \in EndAcc, NEW e \in Event
    PROVE  EndWalk(acc, e) \in EndAcc
  <1>1. acc.status \in {"started", "stopped"} /\ e.action \in {"started", "stopped"}
    BY DEF EndAcc, Event, Action
  <1>2. CASE acc.end # 0 \/ e.action = acc.status
    BY <1>2, EndWalkSame
  <1>3. CASE acc.end = 0 /\ e.action = "started" /\ acc.status = "stopped"
    BY <1>3, EndWalkStart
  <1>4. CASE acc.end = 0 /\ e.action = "stopped" /\ acc.status = "started"
    BY <1>4, EndWalkStop
  <1> QED BY <1>1, <1>2, <1>3, <1>4

\* the variables of the loop after each turn
LEMMA EndWalksFacts ==
    ASSUME NEW list \in Seq(Event), NEW g
    PROVE  /\ EndWalks(list, g)[0] = [status |-> "stopped", start |-> 0, end |-> 0, remaining |-> Duration]
           /\ \A i \in 1 .. Len(list) :
                 EndWalks(list, g)[i] = IF Concerns(list[i], g) THEN EndWalk(EndWalks(list, g)[i - 1], list[i])
                                                                ELSE EndWalks(list, g)[i - 1]
           /\ \A i \in 0 .. Len(list) : EndWalks(list, g)[i] \in EndAcc
  <1> DEFINE n == Len(list)
             v == [status |-> "stopped", start |-> 0, end |-> 0, remaining |-> Duration]
             Turn(i, acc) == IF Concerns(list[i], g) THEN EndWalk(acc, list[i]) ELSE acc
             W == EndWalks(list, g)
  <1>1. n \in Nat /\ \A i \in 1 .. n : list[i] \in Event
    BY ListFacts
  <1>2. v \in EndAcc
    BY ContestAssumption, SMT DEF EndAcc, Action
  <1>3. ASSUME NEW i \in 1 .. n, NEW acc \in EndAcc PROVE Turn(i, acc) \in EndAcc
    BY <1>1, EndWalkType
  <1>4. W = CHOOSE f : f = [i \in 0 .. n |-> IF i = 0 THEN v ELSE Turn(i, f[i - 1])]
    BY DEF EndWalks
  <1>5. \E f : f = [i \in 0 .. n |-> IF i = 0 THEN v ELSE Turn(i, f[i - 1])]
    <2> DEFINE h == [p \in (1 .. n) \X EndAcc |-> Turn(p[1], p[2])]
    <2>1. \A i \in 1 .. n, acc \in EndAcc : h[<<i, acc>>] = Turn(i, acc)
      <3> HIDE DEF Turn
      <3> QED BY SMT
    <2>2. h \in [(1 .. n) \X EndAcc -> EndAcc]
      <3> HIDE DEF Turn
      <3> QED BY <1>3, SMT
    <2> HIDE DEF h, v, n
    <2>3. \E f : IsLoop(f, n, EndAcc, v, h)
      BY <1>1, <1>2, <2>2, LoopValues
    <2>4. PICK f \in [0 .. n -> EndAcc] : f[0] = v /\ \A i \in 1 .. n : f[i] = h[<<i, f[i - 1]>>]
      BY <2>3 DEF IsLoop
    <2>5. ASSUME NEW i \in 1 .. n PROVE f[i] = Turn(i, f[i - 1])
      <3>1. i - 1 \in 0 .. n
        BY <1>1, SMT
      <3> QED BY <2>1, <2>4, <3>1
    <2>6. ASSUME NEW i \in 0 .. n PROVE i = 0 \/ (i # 0 /\ i \in 1 .. n)
      BY <1>1, SMT
    <2> HIDE DEF Turn
    <2>7. f = [i \in 0 .. n |-> IF i = 0 THEN v ELSE Turn(i, f[i - 1])]
      BY <2>4, <2>5, <2>6
    <2> QED BY <2>7
  <1> HIDE DEF W, v, Turn
  <1>6. W = [i \in 0 .. n |-> IF i = 0 THEN v ELSE Turn(i, W[i - 1])]
    BY <1>4, <1>5
  <1>7. W[0] = v /\ \A i \in 1 .. n : W[i] = Turn(i, W[i - 1])
    <2>1. 0 \in 0 .. n /\ \A i \in 1 .. n : i \in 0 .. n /\ i # 0
      BY <1>1, SMT
    <2> DEFINE F(i) == IF i = 0 THEN v ELSE Turn(i, W[i - 1])
    <2>2. \A i \in 0 .. n : W[i] = F(i)
      BY <1>6
    <2> QED BY <2>1, <2>2
  <1>8. 0 .. n \subseteq {i \in 0 .. n : W[i] \in EndAcc}
    <2> DEFINE S == {i \in 0 .. n : W[i] \in EndAcc}
    <2>1. 0 \in S
      BY <1>1, <1>2, <1>7, SMT
    <2>2. ASSUME NEW i \in 0 .. n - 1, i \in S PROVE i + 1 \in S
      <3>1. i + 1 \in 1 .. n /\ i + 1 \in 0 .. n /\ (i + 1) - 1 = i
        BY <1>1, SMT
      <3>2. W[i + 1] = Turn(i + 1, W[i])
        BY <1>7, <3>1
      <3> QED BY <1>3, <2>2, <3>1, <3>2
    <2> HIDE DEF S
    <2>3. 0 .. n \subseteq S
      BY <1>1, <2>1, <2>2, UpTo
    <2> QED BY <2>3 DEF S
  <1>9. \A i \in 1 .. n : Turn(i, W[i - 1]) = IF Concerns(list[i], g) THEN EndWalk(W[i - 1], list[i]) ELSE W[i - 1]
    BY DEF Turn
  <1> QED BY <1>7, <1>8, <1>9 DEF W, v

\* An event for other groups does not change the end of the contest.
LEMMA EndOfOthers ==
    ASSUME NEW list \in Seq(Event), NEW ev \in Event, NEW g, ~Concerns(ev, g)
    PROVE  contestEndTime(Insert(list, ev), g) = contestEndTime(list, g)
  <1> DEFINE n == Len(list)
             new == Insert(list, ev)
             E == EndWalks(list, g)
             F == EndWalks(new, g)
             Turn(e, acc) == IF Concerns(e, g) THEN EndWalk(acc, e) ELSE acc
             End(w) == IF w.end = 0 /\ w.status = "started" THEN w.start + w.remaining ELSE w.end
  <1>1. n \in Nat
    BY ListFacts
  <1>2. PICK k : Inserted(new, list, ev, k)
    BY InsertPlace
  <1>3. /\ k \in 1 .. n + 1 /\ new \in Seq(Event) /\ Len(new) = n + 1
        /\ \A j \in 1 .. n + 1 : new[j] = IF j < k THEN list[j] ELSE IF j = k THEN ev ELSE list[j - 1]
    BY <1>2 DEF Inserted
  <1>4. \A i \in 1 .. n : E[i] = Turn(list[i], E[i - 1])
    BY EndWalksFacts
  <1>5. F[0] = E[0] /\ \A i \in 1 .. n + 1 : F[i] = Turn(new[i], F[i - 1])
    <2>1. new \in Seq(Event) /\ Len(new) = n + 1
      BY <1>3
    <2> HIDE DEF new
    <2>2. F[0] = [status |-> "stopped", start |-> 0, end |-> 0, remaining |-> Duration]
      BY <2>1, EndWalksFacts
    <2>3. E[0] = [status |-> "stopped", start |-> 0, end |-> 0, remaining |-> Duration]
      BY EndWalksFacts
    <2>4. \A i \in 1 .. Len(new) : F[i] = Turn(new[i], F[i - 1])
      BY <2>1, EndWalksFacts
    <2> QED BY <2>1, <2>2, <2>3, <2>4
  <1>6. \A acc : Turn(ev, acc) = acc
    OBVIOUS
  <1>7. contestEndTime(list, g) = End(E[n])
    BY DEF contestEndTime
  <1>8. contestEndTime(new, g) = End(F[n + 1])
    <2>1. contestEndTime(new, g) = End(F[Len(new)])
      BY DEF contestEndTime
    <2> HIDE DEF End
    <2> QED BY <1>3, <2>1
  <1> HIDE DEF n, new, E, F, Turn, End
  <1> DEFINE Same(j) == (j < k => F[j] = E[j]) /\ (~(j < k) => F[j] = E[j - 1])
             S == {j \in 0 .. n + 1 : Same(j)}
  <1>9. 0 \in S
    <2>1. 0 \in 0 .. n + 1 /\ 0 < k
      BY ONLY <1>1, <1>3, SMT
    <2> QED BY <1>5, <2>1
  <1>10. ASSUME NEW j \in 0 .. (n + 1) - 1, j \in S PROVE j + 1 \in S
    <2>1. j + 1 \in 1 .. n + 1 /\ j + 1 \in 0 .. n + 1 /\ (j + 1) - 1 = j /\ j \in 0 .. n + 1
      BY ONLY <1>1, j \in 0 .. (n + 1) - 1, SMT
    <2>2. F[j + 1] = Turn(new[j + 1], F[j])
      BY <1>5, <2>1
    <2>3. CASE j + 1 < k
      <3>1. j < k /\ j + 1 \in 1 .. n
        BY ONLY <1>1, <1>3, <2>1, <2>3, SMT
      <3>2. new[j + 1] = list[j + 1] /\ F[j] = E[j]
        BY <1>3, <1>10, <2>1, <2>3, <3>1
      <3>3. E[j + 1] = Turn(list[j + 1], E[j])
        BY <1>4, <2>1, <3>1
      <3> QED BY <2>1, <2>2, <2>3, <3>2, <3>3
    <2>4. CASE j + 1 = k
      <3>1. j < k /\ ~(j + 1 < k)
        BY ONLY <1>1, <1>3, <2>1, <2>4, SMT
      <3>2. new[j + 1] = ev /\ F[j] = E[j]
        BY <1>3, <1>10, <2>1, <2>4, <3>1
      <3> QED BY <1>6, <2>1, <2>2, <3>1, <3>2
    <2>5. CASE ~(j + 1 < k) /\ j + 1 # k
      <3>1. ~(j < k) /\ j \in 1 .. n
        BY ONLY <1>1, <1>3, <2>1, <2>5, SMT
      <3>2. new[j + 1] = list[j] /\ F[j] = E[j - 1]
        <4>1. new[j + 1] = list[(j + 1) - 1]
          BY <1>3, <2>1, <2>5
        <4>2. F[j] = E[j - 1]
          BY <1>10, <3>1
        <4> QED BY <2>1, <4>1, <4>2
      <3>3. E[j] = Turn(list[j], E[j - 1])
        BY <1>4, <3>1
      <3> QED BY <2>1, <2>2, <2>5, <3>2, <3>3
    <2> QED BY <2>3, <2>4, <2>5
  <1>11. n + 1 \in S
    <2>1. n + 1 \in Nat /\ n + 1 \in 0 .. n + 1
      BY ONLY <1>1, SMT
    <2>2. 0 .. n + 1 \subseteq S
      <3> HIDE DEF S
      <3> QED BY <1>9, <1>10, <2>1, UpTo
    <2> QED BY <2>1, <2>2
  <1>12. F[n + 1] = E[n]
    <2>1. ~(n + 1 < k) /\ (n + 1) - 1 = n
      BY ONLY <1>1, <1>3, SMT
    <2> QED BY <1>11, <2>1
  <1>13. contestEndTime(new, g) = contestEndTime(list, g)
    BY <1>7, <1>8, <1>12
  <1> QED BY <1>13 DEF new

\* The contest time never goes back: in no turn up to k has more time elapsed
\* than after turn k.
LEMMA ElapsedGrows ==
    ASSUME NEW list \in Seq(Event), Ordered(list), NEW g, NEW t \in Nat,
           NEW i \in 1 .. Turns(list, t)
    PROVE  Elapsed(Walks(list, g)[i], list[i].time) <= Raw(list, g, t)
  <1> DEFINE n == Len(list)
             W == Walks(list, g)
             k == Turns(list, t)
             c(j) == Elapsed(W[j], list[j].time)
             X == Elapsed(W[k], t)
             S == {d \in 0 .. k - 1 : c(k - d) <= X}
  <1>1. n \in Nat /\ DOMAIN list = 1 .. n /\ \A j \in 1 .. n : list[j] \in Event /\ list[j].time \in Nat
    BY ListFacts
  <1>2. k \in 0 .. n /\ \A j \in 1 .. n : list[j].time <= t <=> j <= k
    BY TurnsFacts
  <1>3. /\ \A j \in 1 .. n : W[j] = IF Concerns(list[j], g) THEN Walk(W[j - 1], list[j]) ELSE W[j - 1]
        /\ \A j \in 0 .. n : W[j] \in Acc
    BY WalksFacts
  <1>4. Raw(list, g, t) = X
    BY DEF Raw
  <1>5. ASSUME NEW acc \in Acc, NEW a \in Nat, NEW b \in Nat, a <= b
        PROVE  Elapsed(acc, a) \in Int /\ Elapsed(acc, a) <= Elapsed(acc, b)
    <2>1. acc.start \in Int /\ acc.elapsed \in Int
      BY ONLY acc \in Acc, SMT DEF Acc
    <2>2. CASE acc.status = "started"
      <3>1. Elapsed(acc, a) = acc.elapsed + (a - acc.start) /\ Elapsed(acc, b) = acc.elapsed + (b - acc.start)
        BY <2>2 DEF Elapsed
      <3>2. ASSUME NEW x \in Int, NEW y \in Int PROVE x + (a - y) \in Int /\ x + (a - y) <= x + (b - y)
        BY ONLY x \in Int, y \in Int, a \in Nat, b \in Nat, a <= b, SMT
      <3> QED BY <2>1, <3>1, <3>2
    <2>3. CASE acc.status # "started"
      <3>1. Elapsed(acc, a) = acc.elapsed + 0 /\ Elapsed(acc, b) = acc.elapsed + 0
        BY <2>3 DEF Elapsed
      <3> QED BY ONLY <2>1, <3>1, SMT
    <2> QED BY <2>2, <2>3
  <1>6. i \in 1 .. k
    OBVIOUS
  <1> HIDE DEF W, k, n
  <1>7. k \in 1 .. n /\ k - 1 \in Nat
    BY ONLY <1>1, <1>2, <1>6, SMT
  <1>8. 0 \in S
    <2>1. k <= k /\ k - 0 = k /\ 0 \in 0 .. k - 1 /\ k \in 0 .. n
      BY ONLY <1>1, <1>7, SMT
    <2>2. list[k].time <= t /\ list[k].time \in Nat /\ W[k] \in Acc
      BY <1>1, <1>2, <1>3, <1>7, <2>1
    <2>3. c(k) <= X
      BY <1>5, <2>2
    <2> HIDE DEF c, X
    <2> QED BY <2>1, <2>3
  <1>9. ASSUME NEW d \in 0 .. (k - 1) - 1, d \in S PROVE d + 1 \in S
    <2> DEFINE j == k - d
    <2>1. /\ j \in 1 .. n /\ j - 1 \in 1 .. n /\ j - 1 < j /\ k - (d + 1) = j - 1 /\ d + 1 \in 0 .. k - 1
          /\ j - 1 \in 0 .. n /\ k \in 0 .. n
      BY ONLY <1>1, <1>7, d \in 0 .. (k - 1) - 1, SMT
    <2>2. c(j) <= X
      BY <1>9
    <2> HIDE DEF j
    <2>3. list[j - 1].time <= list[j].time
      BY <1>1, <2>1 DEF Ordered
    <2>4. c(j - 1) <= Elapsed(W[j - 1], list[j].time) /\ c(j - 1) \in Int
      BY <1>1, <1>3, <1>5, <2>1, <2>3
    <2>5. Elapsed(W[j - 1], list[j].time) = c(j)
      <3>1. CASE Concerns(list[j], g)
        <4>1. W[j] = Walk(W[j - 1], list[j]) /\ W[j - 1] \in Acc /\ list[j] \in Event
          BY <1>1, <1>3, <2>1, <3>1
        <4>2. Elapsed(Walk(W[j - 1], list[j]), list[j].time) = Elapsed(W[j - 1], list[j].time)
          BY <4>1, WalkFacts
        <4> QED BY <4>1, <4>2
      <3>2. CASE ~Concerns(list[j], g)
        BY <1>3, <2>1, <3>2
      <3> QED BY <3>1, <3>2
    <2>6. c(j) \in Int /\ X \in Int
      <3>1. W[j] \in Acc /\ W[k] \in Acc /\ list[j].time \in Nat
        BY <1>1, <1>3, <1>7, <2>1, SMT
      <3>2. list[j].time <= list[j].time /\ t <= t
        BY ONLY <3>1, t \in Nat, SMT
      <3> QED BY <1>5, <3>1, <3>2
    <2> HIDE DEF c, X
    <2>7. c(j - 1) <= X
      BY ONLY <2>2, <2>4, <2>5, <2>6, SMT
    <2>8. c(k - (d + 1)) <= X
      BY <2>1, <2>7
    <2> QED BY <2>1, <2>8
  <1>10. 0 .. k - 1 \subseteq S
    <2> HIDE DEF S
    <2> QED BY <1>7, <1>8, <1>9, UpTo
  <1>11. k - i \in 0 .. k - 1 /\ k - (k - i) = i
    BY ONLY <1>1, <1>6, <1>7, SMT
  <1>12. c(i) <= X
    BY <1>10, <1>11
  <1> QED BY <1>4, <1>12 DEF W, k

\* What a turn of the loop of contestTime does
LEMMA WalkCases ==
    ASSUME NEW acc \in Acc, NEW e \in Event
    PROVE  /\ e.action = acc.status => Walk(acc, e) = acc
           /\ e.action = "started" /\ acc.status = "stopped" =>
                /\ Walk(acc, e).status = "started" /\ Walk(acc, e).start = e.time
                /\ Walk(acc, e).elapsed = acc.elapsed
           /\ e.action = "stopped" /\ acc.status = "started" =>
                /\ Walk(acc, e).status = "stopped" /\ Walk(acc, e).start = acc.start
                /\ Walk(acc, e).elapsed = acc.elapsed + e.time - acc.start
  <1> DEFINE new == Walk(acc, e)
  <1>1. e.action = acc.status => new = acc
    BY DEF Walk
  <1>2. ASSUME e.action = "started", acc.status = "stopped"
        PROVE  new.status = "started" /\ new.start = e.time /\ new.elapsed = acc.elapsed
    <2>1. e.action # acc.status
      BY ONLY <1>2, SMT
    <2>2. new = [acc EXCEPT !.status = "started", !.start = e.time]
      BY <1>2, <2>1 DEF Walk
    <2> HIDE DEF new
    <2> QED BY ONLY <2>2, acc \in Acc, SMT DEF Acc
  <1>3. ASSUME e.action = "stopped", acc.status = "started"
        PROVE  new.status = "stopped" /\ new.start = acc.start /\ new.elapsed = acc.elapsed + e.time - acc.start
    <2>1. e.action # acc.status /\ e.action # "started"
      BY ONLY <1>3, SMT
    <2>2. new = [acc EXCEPT !.status = "stopped", !.elapsed = @ + e.time - acc.start]
      BY <1>3, <2>1 DEF Walk
    <2> HIDE DEF new
    <2> QED BY ONLY <2>2, acc \in Acc, SMT DEF Acc
  <1> QED BY <1>1, <1>2, <1>3

\* One turn of both loops: they agree as long as the duration is not used up.
Agree(end, acc) ==
    /\ end.end = 0 /\ end.status = acc.status /\ end.start = acc.start
    /\ end.remaining = Duration - acc.elapsed

LEMMA AgreeStep ==
    ASSUME NEW end \in EndAcc, NEW acc \in Acc, Agree(end, acc), NEW e \in Event,
           Elapsed(Walk(acc, e), e.time) < Duration
    PROVE  Agree(EndWalk(end, e), Walk(acc, e))
  <1> DEFINE u == EndWalk(end, e)
             v == Walk(acc, e)
  <1>1. /\ acc.status \in {"started", "stopped"} /\ acc.start \in Nat /\ acc.elapsed \in Int
        /\ Duration \in Nat
    BY ContestAssumption, SMT DEF Acc, Action
  <1>2. e.time \in Nat /\ e.action \in {"started", "stopped"}
    BY EventTime DEF Event, Action
  <1>3. /\ end.end = 0 /\ end.status = acc.status /\ end.start = acc.start
        /\ end.remaining = Duration - acc.elapsed
    BY DEF Agree
  <1>4. CASE e.action = acc.status
    <2>1. v = acc
      BY <1>4, WalkCases
    <2>2. u = end
      BY <1>3, <1>4, EndWalkSame
    <2> QED BY <2>1, <2>2
  <1>5. CASE e.action = "started" /\ acc.status = "stopped"
    <2>1. v.status = "started" /\ v.start = e.time /\ v.elapsed = acc.elapsed
      BY <1>5, WalkCases
    <2>2. u.status = "started" /\ u.start = e.time /\ u.end = 0 /\ u.remaining = end.remaining
      <3>1. end.end = 0 /\ e.action = "started" /\ end.status = "stopped"
        BY <1>3, <1>5
      <3> QED BY ONLY <3>1, end \in EndAcc, e \in Event, EndWalkStart, Zenon
    <2> HIDE DEF u, v
    <2>3. Agree(u, v)
      BY <1>3, <2>1, <2>2 DEF Agree
    <2> QED BY <2>3 DEF u, v
  <1>6. CASE e.action = "stopped" /\ acc.status = "started"
    <2>1. v.status = "stopped" /\ v.start = acc.start /\ v.elapsed = acc.elapsed + e.time - acc.start
      BY <1>6, WalkCases
    <2>2. v.elapsed < Duration
      <3>1. v.status # "started"
        BY ONLY <2>1, SMT
      <3>2. v.elapsed + 0 < Duration
        BY <3>1 DEF Elapsed
      <3>3. v.elapsed \in Int
        BY ONLY <1>1, <1>2, <2>1, SMT
      <3> HIDE DEF v
      <3> QED BY ONLY <3>2, <3>3, SMT
    <2>4. acc.elapsed \in Int /\ e.time \in Int /\ acc.start \in Int /\ Duration \in Int
      BY ONLY <1>1, <1>2, SMT
    <2>5. /\ ~(e.time - acc.start > Duration - acc.elapsed)
          /\ (Duration - acc.elapsed) - (e.time - acc.start) = Duration - (acc.elapsed + e.time - acc.start)
      <3>1. acc.elapsed + e.time - acc.start < Duration
        BY <2>1, <2>2
      <3> QED BY ONLY <2>4, <3>1, SMT
    <2>6. ~(e.time - end.start > end.remaining)
      BY <1>3, <2>5
    <2>7. /\ u.status = "stopped" /\ u.start = end.start /\ u.end = 0
          /\ u.remaining = end.remaining - (e.time - end.start)
      BY <1>3, <1>6, <2>6, EndWalkStop
    <2> HIDE DEF u, v
    <2>8. Agree(u, v)
      BY <1>3, <2>1, <2>5, <2>7 DEF Agree
    <2> QED BY <2>8 DEF u, v
  <1>7. \/ e.action = acc.status
        \/ e.action = "started" /\ acc.status = "stopped"
        \/ e.action = "stopped" /\ acc.status = "started"
    BY ONLY <1>1, <1>2, SMT
  <1> QED BY <1>4, <1>5, <1>6, <1>7

\* The status of a group changes only when an event is due, or at the time
\* that contestEndTime returns: when the duration is used up.
LEMMA StatusChanges ==
    ASSUME NEW list \in Seq(Event), Ordered(list), NEW g, NEW t \in Nat,
           contestStatus(list, g, t + 1) # contestStatus(list, g, t),
           \A i \in 1 .. Len(list) : list[i].time # t + 1
    PROVE  contestEndTime(list, g) = t + 1
  <1> DEFINE n == Len(list)
             W == Walks(list, g)
             E == EndWalks(list, g)
             k == Turns(list, t)
             m == Turns(list, t + 1)
  <1>1. n \in Nat /\ \A i \in 1 .. n : list[i] \in Event /\ list[i].time \in Nat
    BY ListFacts
  <1>2. t + 1 \in Nat /\ Duration \in Nat
    BY ContestAssumption, SMT
  <1>3. /\ k \in 0 .. n /\ m \in 0 .. n
        /\ \A i \in 1 .. n : list[i].time <= t <=> i <= k
        /\ \A i \in 1 .. n : list[i].time <= t + 1 <=> i <= m
    BY <1>2, TurnsFacts
  <1>4. /\ W[0] = [status |-> "stopped", start |-> 0, elapsed |-> 0]
        /\ \A i \in 1 .. n : W[i] = IF Concerns(list[i], g) THEN Walk(W[i - 1], list[i]) ELSE W[i - 1]
        /\ \A i \in 0 .. n : W[i] \in Acc
    BY WalksFacts
  <1>5. /\ E[0] = [status |-> "stopped", start |-> 0, end |-> 0, remaining |-> Duration]
        /\ \A i \in 1 .. n : E[i] = IF Concerns(list[i], g) THEN EndWalk(E[i - 1], list[i]) ELSE E[i - 1]
        /\ \A i \in 0 .. n : E[i] \in EndAcc
    BY EndWalksFacts
  <1>6. contestEndTime(list, g) = IF E[n].end = 0 /\ E[n].status = "started" THEN E[n].start + E[n].remaining
                                                                            ELSE E[n].end
    BY DEF contestEndTime
  <1>7. LastAction(list, g, t) = W[k].status /\ LastAction(list, g, t + 1) = W[m].status
    BY <1>2, LastActionFacts
  <1>8. /\ Raw(list, g, t) \in Int /\ Raw(list, g, t + 1) \in Int
        /\ Raw(list, g, t + 1) = Raw(list, g, t) + (IF LastAction(list, g, t) = "started" THEN 1 ELSE 0)
    BY <1>2, RawStep
  <1>9. Raw(list, g, t + 1) = Elapsed(W[m], t + 1)
    BY DEF Raw
  <1>10. \A i \in 1 .. k : Elapsed(W[i], list[i].time) <= Raw(list, g, t)
    BY ElapsedGrows
  <1>11. ASSUME NEW s \in {t, t + 1}
         PROVE  contestTime(list, g, s) >= Duration <=> Raw(list, g, s) >= Duration
    <2>1. contestTime(list, g, s) = IF Raw(list, g, s) > Duration THEN Duration ELSE Raw(list, g, s)
      BY DEF contestTime, Raw
    <2>2. Raw(list, g, s) \in Int
      BY <1>8
    <2> QED BY ONLY <1>2, <2>1, <2>2, SMT
  <1> HIDE DEF W, E, k, m, n
  <1>12. m = k
    <2>1. \A i \in 1 .. n : i <= k <=> i <= m
      <3>1. ASSUME NEW i \in 1 .. n PROVE list[i].time <= t <=> list[i].time <= t + 1
        <4>1. list[i].time \in Nat /\ list[i].time # t + 1
          BY <1>1 DEF n
        <4> QED BY ONLY <4>1, t \in Nat, SMT
      <3> QED BY <1>3, <3>1
    <2>2. k # 0 => k \in 1 .. n /\ k <= k
      BY ONLY <1>1, <1>3, SMT
    <2>3. m # 0 => m \in 1 .. n /\ m <= m
      BY ONLY <1>1, <1>3, SMT
    <2>4. (k # 0 => k <= m) /\ (m # 0 => m <= k)
      BY <2>1, <2>2, <2>3
    <2> QED BY ONLY <1>1, <1>3, <2>4, SMT
  <1>13. W[k].status = "started" /\ Raw(list, g, t) < Duration /\ Raw(list, g, t + 1) = Duration
    <2> DEFINE x == Raw(list, g, t)
               y == Raw(list, g, t + 1)
    <2>1. ~((x >= Duration) <=> (y >= Duration))
      <3>1. LastAction(list, g, t + 1) = LastAction(list, g, t)
        BY <1>7, <1>12
      <3>2. ASSUME x >= Duration <=> y >= Duration PROVE FALSE
        <4>1. contestTime(list, g, t) >= Duration <=> contestTime(list, g, t + 1) >= Duration
          BY <1>11, <3>2
        <4> QED BY <3>1, <4>1 DEF contestStatus
      <3> QED BY <3>2
    <2>2. x \in Int /\ y \in Int
      BY <1>8
    <2>3. CASE W[k].status = "started"
      <3>1. y = x + 1
        BY <1>7, <1>8, <2>3
      <3> HIDE DEF x, y
      <3>2. x < Duration /\ y = Duration
        BY ONLY <1>2, <2>1, <2>2, <3>1, SMT
      <3> QED BY <2>3, <3>2 DEF x, y
    <2>4. CASE W[k].status # "started"
      <3>1. y = x + 0
        BY <1>7, <1>8, <2>4
      <3> HIDE DEF x, y
      <3>2. y = x
        BY ONLY <2>2, <3>1, SMT
      <3> QED BY <2>1, <3>2
    <2> QED BY <2>3, <2>4
  <1>14. Agree(E[k], W[k])
    <2> DEFINE S == {i \in 0 .. k : Agree(E[i], W[i])}
    <2>1. 0 \in S
      <3>1. Agree(E[0], W[0])
        BY ONLY <1>2, <1>4, <1>5, SMT DEF Agree
      <3>2. 0 \in 0 .. k
        BY ONLY <1>1, <1>3, SMT
      <3> QED BY <3>1, <3>2
    <2>2. ASSUME NEW i \in 0 .. k - 1, i \in S PROVE i + 1 \in S
      <3>1. i + 1 \in 1 .. n /\ i + 1 \in 1 .. k /\ i + 1 \in 0 .. k /\ (i + 1) - 1 = i /\ i \in 0 .. n
        BY ONLY <1>1, <1>3, i \in 0 .. k - 1, SMT
      <3>2. Agree(E[i], W[i]) /\ E[i] \in EndAcc /\ W[i] \in Acc /\ list[i + 1] \in Event
        BY <1>1, <1>4, <1>5, <2>2, <3>1
      <3>3. CASE ~Concerns(list[i + 1], g)
        <4>1. E[i + 1] = E[i] /\ W[i + 1] = W[i]
          BY <1>4, <1>5, <3>1, <3>3
        <4> QED BY <3>1, <3>2, <4>1
      <3>4. CASE Concerns(list[i + 1], g)
        <4>1. E[i + 1] = EndWalk(E[i], list[i + 1]) /\ W[i + 1] = Walk(W[i], list[i + 1])
          BY <1>4, <1>5, <3>1, <3>4
        <4>2. Elapsed(W[i + 1], list[i + 1].time) <= Raw(list, g, t)
          BY <1>10, <3>1
        <4>3. Elapsed(W[i + 1], list[i + 1].time) \in Int
          <5>1. W[i + 1] \in Acc /\ list[i + 1].time \in Nat
            <6>1. i + 1 \in 0 .. n
              BY ONLY <1>1, <3>1, SMT
            <6> QED BY <1>1, <1>4, <3>1, <6>1
          <5>2. W[i + 1].start \in Nat /\ W[i + 1].elapsed \in Int
            BY ONLY <5>1, SMT DEF Acc
          <5> QED BY ONLY <5>1, <5>2, SMT DEF Elapsed
        <4>4. Elapsed(W[i + 1], list[i + 1].time) < Duration
          BY ONLY <1>2, <1>8, <1>13, <4>2, <4>3, SMT
        <4>5. Agree(EndWalk(E[i], list[i + 1]), Walk(W[i], list[i + 1]))
          BY <3>2, <4>1, <4>4, AgreeStep
        <4> QED BY <3>1, <4>1, <4>5
      <3> QED BY <3>3, <3>4
    <2>3. k \in Nat /\ k \in 0 .. k
      BY ONLY <1>1, <1>3, SMT
    <2>4. 0 .. k \subseteq S
      <3> HIDE DEF S
      <3> QED BY <2>1, <2>2, <2>3, UpTo
    <2> QED BY <2>3, <2>4
  <1>15. E[k].end = 0 /\ E[k].status = "started" /\ E[k].start + E[k].remaining = t + 1
    <2>1. W[k].start \in Int /\ W[k].elapsed \in Int
      <3>1. W[k] \in Acc
        BY <1>3, <1>4
      <3> QED BY ONLY <3>1, SMT DEF Acc
    <2>2. W[k].elapsed + ((t + 1) - W[k].start) = Duration
      BY <1>9, <1>12, <1>13 DEF Elapsed
    <2>3. ASSUME NEW a \in Int, NEW b \in Int, a + ((t + 1) - b) = Duration PROVE b + (Duration - a) = t + 1
      BY ONLY <1>2, <2>3, a \in Int, b \in Int, t \in Nat, SMT
    <2>4. W[k].start + (Duration - W[k].elapsed) = t + 1
      BY <2>1, <2>2, <2>3
    <2> QED BY <1>13, <1>14, <2>4 DEF Agree
  <1>16. E[n] = E[k] \/ E[n].end = t + 1
    <2> DEFINE Done(i) == E[i] = E[k] \/ E[i].end = t + 1
               S == {d \in 0 .. n - k : Done(k + d)}
    <2>1. n - k \in Nat /\ k + 0 = k /\ 0 \in 0 .. n - k /\ n - k \in 0 .. n - k /\ k + (n - k) = n
      BY ONLY <1>1, <1>3, SMT
    <2>2. 0 \in S
      BY <2>1
    <2>3. ASSUME NEW d \in 0 .. (n - k) - 1, d \in S PROVE d + 1 \in S
      <3> DEFINE i == k + d
      <3>1. /\ i + 1 \in 1 .. n /\ (i + 1) - 1 = i /\ i \in 0 .. n /\ ~(i + 1 <= k)
            /\ d + 1 \in 0 .. n - k /\ k + (d + 1) = i + 1
        BY ONLY <1>1, <1>3, d \in 0 .. (n - k) - 1, SMT
      <3>2. Done(i)
        BY <2>3
      <3> HIDE DEF i
      <3> DEFINE e == list[i + 1]
      <3>3. e \in Event /\ E[i] \in EndAcc /\ E[i + 1] = IF Concerns(e, g) THEN EndWalk(E[i], e) ELSE E[i]
        BY <1>1, <1>5, <3>1
      <3>4. e.time \in Nat /\ e.time > t + 1
        <4>1. e.time \in Nat /\ ~(e.time <= t) /\ e.time # t + 1
          BY <1>1, <1>3, <3>1 DEF n
        <4> HIDE DEF e
        <4> QED BY ONLY <4>1, t \in Nat, SMT
      <3> HIDE DEF e
      <3>5. CASE ~Concerns(e, g)
        <4>1. E[i + 1] = E[i]
          BY <3>3, <3>5
        <4> QED BY <3>1, <3>2, <4>1
      <3>6. CASE Concerns(e, g) /\ E[i].end = t + 1
        <4>1. E[i].end # 0
          BY ONLY <3>6, t \in Nat, SMT
        <4>2. E[i + 1] = E[i]
          BY <3>3, <3>6, <4>1, EndWalkSame
        <4> QED BY <3>1, <3>2, <4>2
      <3>7. CASE Concerns(e, g) /\ E[i] = E[k]
        <4>1. E[i].end = 0 /\ E[i].status = "started" /\ E[i].start + E[i].remaining = t + 1
          BY <1>15, <3>7
        <4>2. e.action \in {"started", "stopped"}
          BY <3>3 DEF Event, Action
        <4>3. CASE e.action = "started"
          <5>1. E[i + 1] = E[i]
            BY <3>3, <3>7, <4>1, <4>3, EndWalkSame
          <5> QED BY <3>1, <3>2, <5>1
        <4>4. CASE e.action = "stopped"
          <5>1. E[i].start \in Int /\ E[i].remaining \in Int
            BY ONLY <3>3, SMT DEF EndAcc
          <5>2. ASSUME NEW a \in Int, NEW b \in Int, a + b = t + 1 PROVE e.time - a > b
            BY ONLY <3>4, <5>2, a \in Int, b \in Int, t \in Nat, SMT
          <5>3. e.time - E[i].start > E[i].remaining
            BY <4>1, <5>1, <5>2
          <5>4. EndWalk(E[i], e).end = E[i].start + E[i].remaining
            BY <3>3, <4>1, <4>4, <5>3, EndWalkStop
          <5>5. E[i + 1].end = t + 1
            BY <3>3, <3>7, <4>1, <5>4
          <5> QED BY <3>1, <5>5
        <4> QED BY <4>2, <4>3, <4>4
      <3> QED BY <3>2, <3>5, <3>6, <3>7
    <2>4. 0 .. n - k \subseteq S
      <3> HIDE DEF S
      <3> QED BY <2>1, <2>2, <2>3, UpTo
    <2>5. n - k \in S
      BY <2>1, <2>4
    <2> QED BY <2>1, <2>5
  <1>17. t + 1 # 0
    BY ONLY t \in Nat, SMT
  <1>18. CASE E[n] = E[k]
    BY <1>6, <1>15, <1>18
  <1>19. CASE E[n].end = t + 1
    BY <1>6, <1>17, <1>19
  <1> QED BY <1>16, <1>18, <1>19

\* Two lists of the same events, both in the order of time, tell the same of
\* each second if no two opposite events share one.
LEMMA SameEvents ==
    ASSUME NEW a \in Seq(Event), Ordered(a), NEW b \in Seq(Event), Ordered(b),
           Range(a) = Range(b), NEW g, NEW t \in Nat,
           \A e, f \in Range(a) : e.time = f.time => e.action = f.action
    PROVE  LastAction(a, g, t) = LastAction(b, g, t)
  <1> DEFINE Seen(list) == {i \in 1 .. Turns(list, t) : Concerns(list[i], g)}
  <1>0. ASSUME NEW list \in Seq(Event), Ordered(list)
        PROVE  /\ Seen(list) # {} => /\ Max(Seen(list)) \in Seen(list)
                                     /\ \A i \in Seen(list) : list[i].time <= list[Max(Seen(list))].time
               /\ \A i \in Seen(list) : list[i] \in Range(list) /\ Concerns(list[i], g) /\ list[i].time <= t
               /\ \A e \in Range(list) : Concerns(e, g) /\ e.time <= t => \E i \in Seen(list) : list[i] = e
    <2> DEFINE n == Len(list)
               k == Turns(list, t)
    <2>1. /\ n \in Nat /\ DOMAIN list = 1 .. n
          /\ \A i \in 1 .. n : list[i] \in Event /\ list[i].time \in Nat
      BY ListFacts
    <2>2. k \in 0 .. n /\ \A i \in 1 .. n : list[i].time <= t <=> i <= k
      BY <1>0, TurnsFacts
    <2> HIDE DEF n, k
    <2>3. /\ \A i \in 1 .. k : i \in 1 .. n /\ i <= k
          /\ \A i \in 1 .. n : i <= k => i \in 1 .. k
      BY ONLY <2>1, <2>2, SMT
    <2>4. Seen(list) = {i \in 1 .. k : Concerns(list[i], g)}
      BY DEF k
    <2>5. \A i \in Seen(list) : list[i] \in Range(list) /\ Concerns(list[i], g) /\ list[i].time <= t
      BY <2>1, <2>2, <2>3, <2>4 DEF Range
    <2>6. ASSUME NEW e \in Range(list), Concerns(e, g), e.time <= t PROVE \E i \in Seen(list) : list[i] = e
      <3>1. PICK i \in 1 .. n : list[i] = e
        BY <2>1 DEF Range
      <3> QED BY <2>2, <2>3, <2>4, <2>6, <3>1
    <2>7. ASSUME Seen(list) # {}
          PROVE  /\ Max(Seen(list)) \in Seen(list)
                 /\ \A i \in Seen(list) : list[i].time <= list[Max(Seen(list))].time
      <3> DEFINE m == Max(Seen(list))
      <3>1. k \in Nat /\ Seen(list) \subseteq 1 .. k
        BY <2>1, <2>2, <2>4, SMT
      <3> HIDE DEF Seen
      <3>2. m \in Seen(list) /\ \A i \in Seen(list) : m >= i
        BY <2>7, <3>1, LastPlace
      <3>3. ASSUME NEW i \in Seen(list) PROVE list[i].time <= list[m].time
        <4>1. i \in 1 .. n /\ m \in 1 .. n /\ m >= i
          BY <2>3, <3>1, <3>2
        <4>2. CASE i = m
          <5>1. list[i].time \in Nat
            BY <2>1, <4>1
          <5>2. list[i].time <= list[i].time
            BY ONLY <5>1, SMT
          <5> QED BY <4>2, <5>2
        <4>3. CASE i # m
          <5>1. i < m
            BY ONLY <2>1, <4>1, <4>3, SMT
          <5> QED BY <1>0, <2>1, <4>1, <5>1 DEF Ordered
        <4> QED BY <4>2, <4>3
      <3> QED BY <3>2, <3>3
    <2> QED BY <2>5, <2>6, <2>7
  <1> HIDE DEF Seen
  <1>1. Seen(a) = {} <=> Seen(b) = {}
    BY <1>0
  <1>2. LastAction(a, g, t) = IF Seen(a) = {} THEN "stopped" ELSE a[Max(Seen(a))].action
    BY DEF LastAction, Seen
  <1>3. LastAction(b, g, t) = IF Seen(b) = {} THEN "stopped" ELSE b[Max(Seen(b))].action
    BY DEF LastAction, Seen
  <1>4. CASE Seen(a) = {}
    BY <1>1, <1>2, <1>3, <1>4
  <1>5. CASE Seen(a) # {}
    <2> DEFINE e == a[Max(Seen(a))]
               f == b[Max(Seen(b))]
    <2>1. e \in Range(a) /\ Concerns(e, g) /\ e.time <= t
      BY <1>0, <1>5
    <2>2. f \in Range(b) /\ Concerns(f, g) /\ f.time <= t
      BY <1>0, <1>1, <1>5
    <2>3. PICK i \in Seen(a) : a[i] = f
      BY <1>0, <2>2
    <2>4. PICK j \in Seen(b) : b[j] = e
      BY <1>0, <2>1
    <2>5. f.time <= e.time
      BY <1>0, <1>5, <2>3
    <2>6. e.time <= f.time
      BY <1>0, <1>1, <1>5, <2>4
    <2>7. e.time \in Nat /\ f.time \in Nat
      <3>0. \A k \in DOMAIN a : a[k] \in Event
        BY ONLY a \in Seq(Event), ListFacts, Zenon
      <3>1. Range(a) \subseteq Event
        BY ONLY <3>0, Zenon DEF Range
      <3>2. e \in Event /\ f \in Event
        BY <2>1, <2>2, <3>1
      <3> HIDE DEF e, f
      <3> QED BY ONLY <3>2, EventTime, Zenon
    <2> HIDE DEF e, f
    <2>8. e.time = f.time
      BY ONLY <2>5, <2>6, <2>7, SMT
    <2>9. e.action = f.action
      BY <2>1, <2>2, <2>8
    <2> QED BY <1>1, <1>2, <1>3, <1>5, <2>9 DEF e, f
  <1> QED BY <1>4, <1>5
==============================================================================
