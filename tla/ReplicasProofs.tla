--------------------------- MODULE ReplicasProofs ---------------------------
(***************************************************************************)
(* Proofs about Replicas: what the handlers of the messages make of the    *)
(* tables, whatever the order of the messages, for every set of servers,   *)
(* problem types, users and groups, and any number of messages, failed     *)
(* statements and restarts.                                                *)
(***************************************************************************)
EXTENDS Replicas, FiniteSetTheorems, TLAPS

\* Most steps are logic and sets; those that compute name SMT
USE Zenon

-----------------------------------------------------------------------------
(* Tables, rows and messages.                                              *)

Kinds == {"prob", "user", "group", "passwd", "bonus", "request", "reply", "sub"}
Ids == Servers \X Kinds \X Nat

\* The tables of a server as a record
Columns == {"prob", "user", "group", "req", "clar", "sub"}
Shape(d) == DOMAIN d = Columns

Fields == {"type", "updated", "attrs", "data", "deps"}

\* A row of Problem, or the row of a problem that has none
RowOK(r) ==
    /\ DOMAIN r = Fields
    /\ r.type \in Types \cup {NoType}
    /\ r.updated \in 0 .. MaxTime
    /\ r.attrs \in [Attrs -> MsgId]
    /\ r.data \in [FileAttrs -> MsgId]

\* What the actions of clients put into a message
UpdateOK(m) ==
    /\ m.time \in 1 .. MaxTime
    /\ m.type \in Types
    /\ m.carries \subseteq Attrs
    /\ m.keeps \subseteq FileAttrs
    /\ m.carries \cap m.keeps = {}
    /\ "shortname" \in m.carries

MsgOK(m) ==
    /\ m.id \in Ids
    /\ m.kind \in Kinds
    /\ m.kind = "prob" => UpdateOK(m)
    /\ m.kind = "user" => IsUser(m.row)
    /\ m.kind \in {"user", "group", "request", "reply", "sub"} => m.row.id = m.id

\* Users by what no message changes
Accounts(U) == {Identity(u) : u \in U}

-----------------------------------------------------------------------------
(* Assigning one field of a record.                                        *)

\* an assignment to one table leaves the others alone
LEMMA OneTable ==
    ASSUME NEW d, Shape(d), NEW c \in Columns, NEW x
    PROVE  /\ Shape([d EXCEPT ![c] = x])
           /\ [d EXCEPT ![c] = x][c] = x
           /\ \A g \in Columns \ {c} : [d EXCEPT ![c] = x][g] = d[g]
  BY DEF Shape, Columns

\* an assignment to one field of a problem leaves the others alone
LEMMA OneField ==
    ASSUME NEW r, DOMAIN r = Fields, NEW c \in Fields, NEW x
    PROVE  /\ DOMAIN [r EXCEPT ![c] = x] = Fields
           /\ [r EXCEPT ![c] = x][c] = x
           /\ \A g \in Fields \ {c} : [r EXCEPT ![c] = x][g] = r[g]
  BY DEF Fields

\* the id of a message is a value
LEMMA IdIsValue ==
    ASSUME NEW i \in Ids
    PROVE  i \in MsgId /\ i # NoValue
  BY SMT DEF Ids, Kinds, MsgId, NoValue

\* Row q is row p without the attributes that message m does not mention
Trimmed(q, p, m) ==
    /\ RowOK(q) /\ q.type = p.type /\ q.updated = p.updated
    /\ \A a \in Attrs : a \notin m.carries \cup m.keeps => q.attrs[a] = NoValue
    /\ \A a \in FileAttrs : a \notin m.carries \cup m.keeps => q.data[a] = NoValue

\* delProblemAttribute
LEMMA DeleteAbsentRow ==
    ASSUME NEW r, RowOK(r), NEW m, UpdateOK(m)
    PROVE  Trimmed(DeleteAbsent(r, m), r, m)
  <1> DEFINE A == [a \in Attrs |-> IF a \in m.carries \cup m.keeps THEN r.attrs[a] ELSE NoValue]
             D == [a \in FileAttrs |-> IF a \in m.carries \cup m.keeps THEN r.data[a] ELSE NoValue]
             p == [r EXCEPT !.attrs = A]
             q == [p EXCEPT !.data = D]
  <1>1. DeleteAbsent(r, m) = q
    BY DEF DeleteAbsent
  <1>2. NoValue \in MsgId
    BY DEF NoValue, MsgId
  <1>3. A \in [Attrs -> MsgId] /\ D \in [FileAttrs -> MsgId]
    BY <1>2, SMT DEF RowOK
  <1> HIDE DEF A, D
  <1>4. /\ DOMAIN p = Fields /\ p.type = r.type /\ p.updated = r.updated
        /\ p.attrs = A /\ p.data = r.data
    BY OneField DEF RowOK, Fields
  <1> HIDE DEF p
  <1>5. /\ DOMAIN q = Fields /\ q.type = p.type /\ q.updated = p.updated
        /\ q.attrs = p.attrs /\ q.data = D
    BY <1>4, OneField DEF Fields
  <1> HIDE DEF q
  <1>6. RowOK(q)
    BY <1>3, <1>4, <1>5 DEF RowOK
  <1>7. \A a \in Attrs : a \notin m.carries \cup m.keeps => q.attrs[a] = NoValue
    BY <1>4, <1>5 DEF A
  <1>8. \A a \in FileAttrs : a \notin m.carries \cup m.keeps => q.data[a] = NoValue
    BY <1>5 DEF D
  <1> QED BY <1>1, <1>4, <1>5, <1>6, <1>7, <1>8 DEF Trimmed

\* Row q is row p with the attributes in S set from message m
Assigned(q, p, m, S, f) ==
    /\ RowOK(q) /\ q.type = p.type /\ q.updated = p.updated
    /\ \A a \in Attrs : a \notin S \cap m.carries => q.attrs[a] = p.attrs[a]
    /\ \A a \in FileAttrs : a \notin S \cap m.carries => q.data[a] = p.data[a]
    /\ f = NoFault => /\ \A a \in Attrs \cap S \cap m.carries : q.attrs[a] = m.id
                      /\ \A a \in FileAttrs \cap S \cap m.carries : q.data[a] = m.id

\* setProblemAttribute for the attributes in S
LEMMA SetAttributesRow ==
    ASSUME NEW r, RowOK(r), NEW m, m.id \in Ids, NEW S, NEW f
    PROVE  Assigned(SetAttributes(r, m, S, f), r, m, S, f)
  <1> DEFINE fails(a, how) == f.attr = a /\ f.at \in how
             new(a, old, how) == IF a \notin S \cap m.carries \/ fails(a, {"delete"}) THEN old
                                 ELSE IF fails(a, how) THEN NoValue ELSE m.id
             A == [a \in Attrs |-> new(a, r.attrs[a], {"insert"})]
             D == [a \in FileAttrs |-> new(a, r.data[a], {"insert", "data"})]
             p == [r EXCEPT !.attrs = A]
             q == [p EXCEPT !.data = D]
  <1>1. SetAttributes(r, m, S, f) = q
    BY DEF SetAttributes
  <1>2. NoValue \in MsgId /\ m.id \in MsgId
    BY IdIsValue DEF NoValue, MsgId
  <1>3. \A a, how : \A old \in MsgId : new(a, old, how) \in MsgId
    BY <1>2
  <1>4. \A a, old, how : a \notin S \cap m.carries => new(a, old, how) = old
    OBVIOUS
  <1>5. f = NoFault => /\ \A a, old : a \in S \cap m.carries => new(a, old, {"insert"}) = m.id
                       /\ \A a, old : a \in S \cap m.carries => new(a, old, {"insert", "data"}) = m.id
    BY SMT DEF NoFault
  <1> HIDE DEF new
  <1>6. A \in [Attrs -> MsgId] /\ D \in [FileAttrs -> MsgId]
    BY <1>3 DEF RowOK
  <1>7. /\ \A a \in Attrs : A[a] = new(a, r.attrs[a], {"insert"})
        /\ \A a \in FileAttrs : D[a] = new(a, r.data[a], {"insert", "data"})
    OBVIOUS
  <1> HIDE DEF A, D
  <1>8. /\ DOMAIN p = Fields /\ p.type = r.type /\ p.updated = r.updated
        /\ p.attrs = A /\ p.data = r.data
    BY OneField DEF RowOK, Fields
  <1> HIDE DEF p
  <1>9. /\ DOMAIN q = Fields /\ q.type = p.type /\ q.updated = p.updated
        /\ q.attrs = p.attrs /\ q.data = D
    BY <1>8, OneField DEF Fields
  <1> HIDE DEF q
  <1>10. RowOK(q)
    BY <1>6, <1>8, <1>9 DEF RowOK
  <1>11. /\ \A a \in Attrs : a \notin S \cap m.carries => q.attrs[a] = r.attrs[a]
         /\ \A a \in FileAttrs : a \notin S \cap m.carries => q.data[a] = r.data[a]
    BY <1>4, <1>7, <1>8, <1>9, SMT
  <1>12. f = NoFault => /\ \A a \in Attrs \cap S \cap m.carries : q.attrs[a] = m.id
                        /\ \A a \in FileAttrs \cap S \cap m.carries : q.data[a] = m.id
    BY <1>5, <1>7, <1>8, <1>9
  <1>13. q.type = r.type /\ q.updated = r.updated
    BY <1>8, <1>9
  <1> QED BY <1>1, <1>10, <1>11, <1>12, <1>13 DEF Assigned

\* A row of a problem, which has no attributes before it has a type
Blank(r) ==
    /\ RowOK(r)
    /\ r.type = NoType => /\ \A a \in Attrs : r.attrs[a] = NoValue
                          /\ \A a \in FileAttrs : r.data[a] = NoValue

\* The row of a problem after each call of message m, from row r on
RowsOK(rows, r, m, f) ==
    /\ \A i \in 1 .. 7 : RowOK(rows[i]) /\ rows[i].updated \in {r.updated, m.time}
    /\ rows[1].type = r.type
    /\ \A i \in 2 .. 7 : rows[i].type = m.type
    /\ f = NoFault => WrittenBy(rows[7], m)

\* ProbMessage::int_process, call by call: the type from the second on, the
\* update time from the sixth on; all together, if no statement fails, leave
\* the row as the message describes it
LEMMA ProbRowsFacts ==
    ASSUME NEW r, Blank(r), NEW m, m.id \in Ids, UpdateOK(m), NEW f, NEW K
    PROVE  RowsOK(ProbRows(r, m, f, K), r, m, f)
  <1> DEFINE r1 == IF r.type # NoType THEN DeleteAbsent(r, m) ELSE r
             r2 == [r1 EXCEPT !.type = m.type]
             r3 == SetAttributes(r2, m, FileAttrs, f)
             r4 == SetAttributes(r3, m, IntAttrs, f)
             r5 == SetAttributes(r4, m, Attrs \ (FileAttrs \cup IntAttrs), f)
             r6 == [r5 EXCEPT !.updated = m.time]
             deps == (r6.deps \ ((K \cup {m.prob}) \ m.deps)) \cup m.deps
             r7 == [r6 EXCEPT !.deps = deps]
  <1>0. ProbRows(r, m, f, K) = <<r1, r2, r3, r4, r5, r6, r7>>
    BY DEF ProbRows, SetDependencies
  <1>a. Trimmed(r1, r, m)
    <2>1. CASE r.type = NoType
      BY <2>1 DEF Trimmed, Blank
    <2>2. CASE r.type # NoType
      BY <2>2, DeleteAbsentRow DEF Blank
    <2> QED BY <2>1, <2>2
  <1>1. /\ RowOK(r1) /\ r1.type = r.type /\ r1.updated = r.updated
        /\ \A a \in Attrs : a \notin m.carries \cup m.keeps => r1.attrs[a] = NoValue
        /\ \A a \in FileAttrs : a \notin m.carries \cup m.keeps => r1.data[a] = NoValue
    BY <1>a DEF Trimmed
  <1> HIDE DEF r1
  <1>2. RowOK(r2) /\ r2.type = m.type /\ r2.updated = r1.updated /\ r2.attrs = r1.attrs /\ r2.data = r1.data
    <2>1. /\ DOMAIN r2 = Fields /\ r2.type = m.type /\ r2.updated = r1.updated
          /\ r2.attrs = r1.attrs /\ r2.data = r1.data
      BY <1>1, OneField DEF RowOK, Fields
    <2> HIDE DEF r2
    <2> QED BY <1>1, <2>1 DEF RowOK, UpdateOK
  <1> HIDE DEF r2
  <1>3. Assigned(r3, r2, m, FileAttrs, f)
    BY <1>2, SetAttributesRow
  <1> HIDE DEF r3
  <1>4. Assigned(r4, r3, m, IntAttrs, f)
    <2>1. RowOK(r3)
      BY <1>3 DEF Assigned
    <2> QED BY <2>1, SetAttributesRow
  <1> HIDE DEF r4
  <1>5. Assigned(r5, r4, m, Attrs \ (FileAttrs \cup IntAttrs), f)
    <2>1. RowOK(r4)
      BY <1>4 DEF Assigned
    <2> QED BY <2>1, SetAttributesRow
  <1> HIDE DEF r5
  <1>6. RowOK(r6) /\ r6.updated = m.time /\ r6.type = r5.type /\ r6.attrs = r5.attrs /\ r6.data = r5.data
    <2>0. RowOK(r5)
      BY <1>5 DEF Assigned
    <2>1. /\ DOMAIN r6 = Fields /\ r6.updated = m.time /\ r6.type = r5.type
          /\ r6.attrs = r5.attrs /\ r6.data = r5.data
      BY <2>0, OneField DEF RowOK, Fields
    <2>2. m.time \in 0 .. MaxTime
      BY ReplicasAssumption, SMT DEF UpdateOK
    <2> HIDE DEF r6
    <2> QED BY <2>0, <2>1, <2>2 DEF RowOK
  <1> HIDE DEF r6, deps
  <1>7. RowOK(r7) /\ r7.updated = m.time /\ r7.type = r6.type /\ r7.attrs = r6.attrs /\ r7.data = r6.data
    <2>1. /\ DOMAIN r7 = Fields /\ r7.updated = r6.updated /\ r7.type = r6.type
          /\ r7.attrs = r6.attrs /\ r7.data = r6.data
      BY <1>6, OneField DEF RowOK, Fields
    <2> HIDE DEF r7
    <2> QED BY <1>6, <2>1 DEF RowOK
  <1> HIDE DEF r7
  <1>8. ASSUME f = NoFault PROVE WrittenBy(r7, m)
    <2>1. FileAttrs \subseteq Attrs
      BY ProblemsAssumption
    <2>2. ASSUME NEW a \in Attrs \ m.keeps
          PROVE  /\ r7.attrs[a] = IF a \in m.carries THEN m.id ELSE NoValue
                 /\ a \in FileAttrs => r7.data[a] = r7.attrs[a]
      <3>1. CASE a \notin m.carries
        <4>0. r2.attrs[a] = NoValue /\ (a \in FileAttrs => r2.data[a] = NoValue)
          BY <1>1, <1>2, <3>1
        <4>1. r3.attrs[a] = NoValue /\ (a \in FileAttrs => r3.data[a] = NoValue)
          BY <1>3, <3>1, <4>0 DEF Assigned
        <4>2. r4.attrs[a] = NoValue /\ (a \in FileAttrs => r4.data[a] = NoValue)
          BY <1>4, <3>1, <4>1 DEF Assigned
        <4>3. r5.attrs[a] = NoValue /\ (a \in FileAttrs => r5.data[a] = NoValue)
          BY <1>5, <3>1, <4>2 DEF Assigned
        <4> QED BY <1>6, <1>7, <3>1, <4>3
      <3>2. CASE a \in m.carries /\ a \in FileAttrs
        <4>1. r3.attrs[a] = m.id /\ r3.data[a] = m.id
          BY <1>3, <1>8, <3>2 DEF Assigned
        <4>2. a \notin IntAttrs
          BY <3>2, ProblemsAssumption
        <4>3. r4.attrs[a] = m.id /\ r4.data[a] = m.id
          BY <1>4, <3>2, <4>1, <4>2 DEF Assigned
        <4>4. r5.attrs[a] = m.id /\ r5.data[a] = m.id
          BY <1>5, <3>2, <4>3 DEF Assigned
        <4> QED BY <1>6, <1>7, <3>2, <4>4
      <3>3. CASE a \in m.carries /\ a \in IntAttrs
        <4>1. r4.attrs[a] = m.id /\ a \notin FileAttrs
          BY <1>4, <1>8, <3>3, ProblemsAssumption DEF Assigned
        <4>2. r5.attrs[a] = m.id
          BY <1>5, <3>3, <4>1 DEF Assigned
        <4> QED BY <1>6, <1>7, <3>3, <4>1, <4>2
      <3>4. CASE a \in m.carries /\ a \notin FileAttrs \cup IntAttrs
        <4>1. r5.attrs[a] = m.id
          BY <1>5, <1>8, <3>4 DEF Assigned
        <4> QED BY <1>6, <1>7, <3>4, <4>1
      <3> QED BY <3>1, <3>2, <3>3, <3>4
    <2> QED BY <1>2, <1>3, <1>4, <1>5, <1>6, <1>7, <2>2 DEF WrittenBy, Assigned
  <1>9. ProbRows(r, m, f, K) = <<r1, r2, r3, r4, r5, r6, r7>>
    BY <1>0
  <1> DEFINE rows == <<r1, r2, r3, r4, r5, r6, r7>>
  <1>10. /\ rows[1] = r1 /\ rows[2] = r2 /\ rows[3] = r3 /\ rows[4] = r4
         /\ rows[5] = r5 /\ rows[6] = r6 /\ rows[7] = r7
    BY SMT
  <1> HIDE DEF rows
  <1>11. \A i \in 1 .. 7 : i \in {1, 2, 3, 4, 5, 6, 7}
    BY SMT
  <1>12. \A i \in 2 .. 7 : i \in {2, 3, 4, 5, 6, 7}
    BY SMT
  <1>13. \A i \in 1 .. 7 : RowOK(rows[i]) /\ rows[i].updated \in {r.updated, m.time}
    <2>1. RowOK(r1) /\ RowOK(r2) /\ RowOK(r3) /\ RowOK(r4) /\ RowOK(r5) /\ RowOK(r6) /\ RowOK(r7)
      BY <1>1, <1>2, <1>3, <1>4, <1>5, <1>6, <1>7 DEF Assigned
    <2>2. /\ r1.updated = r.updated /\ r2.updated = r.updated /\ r3.updated = r.updated
          /\ r4.updated = r.updated /\ r5.updated = r.updated
          /\ r6.updated = m.time /\ r7.updated = m.time
      BY <1>1, <1>2, <1>3, <1>4, <1>5, <1>6, <1>7 DEF Assigned
    <2> QED BY <1>10, <1>11, <2>1, <2>2
  <1>14. \A i \in 2 .. 7 : rows[i].type = m.type
    <2>1. /\ r2.type = m.type /\ r3.type = m.type /\ r4.type = m.type
          /\ r5.type = m.type /\ r6.type = m.type /\ r7.type = m.type
      BY <1>2, <1>3, <1>4, <1>5, <1>6, <1>7 DEF Assigned
    <2> QED BY <1>10, <1>12, <2>1
  <1>15. ProbRows(r, m, f, K) = rows
    BY <1>9 DEF rows
  <1> QED BY <1>1, <1>8, <1>10, <1>13, <1>14, <1>15 DEF RowsOK

\* The problem tables while or after message m is processed on P
ProbStep(P, Q, m) ==
    \/ Q = P
    \/ /\ ~Discarded(P, m)
       /\ DOMAIN Q = DOMAIN P \cup {m.prob}
       /\ \A p \in DOMAIN P \ {m.prob} : Q[p] = P[p]
       /\ RowOK(Q[m.prob]) /\ Q[m.prob].type \in Types
       /\ Q[m.prob].updated \in {ProblemRow(P, m.prob).updated, m.time}

\* ... and when all its statements have worked
ProbDone(P, Q, m) ==
    \/ Discarded(P, m) /\ Q = P
    \/ /\ ProbStep(P, Q, m)
       /\ m.prob \in DOMAIN Q /\ WrittenBy(Q[m.prob], m)

ProblemsOK(P) == \A p \in DOMAIN P : RowOK(P[p]) /\ P[p].type \in Types

\* a problem without a row has no attributes
LEMMA NewRow0 ==
    ASSUME NEW P, ProblemsOK(P), NEW p
    PROVE  Blank(ProblemRow(P, p))
  <1>1. CASE p \in DOMAIN P
    BY <1>1, TypesAssumption DEF ProblemsOK, ProblemRow, Blank
  <1>2. CASE p \notin DOMAIN P
    <2>1. ProblemRow(P, p) = NewProblem
      BY <1>2 DEF ProblemRow
    <2>2. /\ DOMAIN NewProblem = Fields /\ NewProblem.type = NoType /\ NewProblem.updated = 0
          /\ NewProblem.attrs = [a \in Attrs |-> NoValue]
          /\ NewProblem.data = [a \in FileAttrs |-> NoValue]
      BY SMT DEF NewProblem, Fields
    <2>3. 0 \in 0 .. MaxTime
      BY ReplicasAssumption, SMT
    <2>4. NoValue \in MsgId
      BY DEF NoValue, MsgId
    <2>5. RowOK(NewProblem)
      BY <2>2, <2>3, <2>4 DEF RowOK
    <2> QED BY <2>1, <2>2, <2>5 DEF Blank
  <1> QED BY <1>1, <1>2

\* ProbMessage::int_process on the tables of the problems: an update that is
\* too old changes nothing, and no call touches another problem
LEMMA ProbStepsFacts ==
    ASSUME NEW P, ProblemsOK(P), NEW m, m.id \in Ids, UpdateOK(m), NEW f
    PROVE  LET S == ProbSteps(P, m, f)
           IN  /\ Len(S) \in Nat \ {0} /\ DOMAIN S = 1 .. Len(S)
               /\ \A k \in 1 .. Len(S) : ProbStep(P, S[k], m)
               /\ f = NoFault \/ Discarded(P, m) => ProbDone(P, S[Len(S)], m)
  <1> DEFINE S == ProbSteps(P, m, f)
             r == ProblemRow(P, m.prob)
             rows == ProbRows(r, m, f, DOMAIN P)
             After(i) == IF i = 1 \/ (i = 2 /\ m.prob \notin DOMAIN P) THEN P
                         ELSE Put(P, m.prob, rows[i - 1])
  <1>1. CASE Discarded(P, m)
    <2>1. S = <<P>>
      BY <1>1 DEF ProbSteps
    <2> HIDE DEF S
    <2>2. Len(S) = 1 /\ S[1] = P /\ DOMAIN S = {1} /\ 1 .. 1 = {1} /\ 1 \in Nat \ {0}
      BY <2>1, SMT
    <2> QED BY <1>1, <2>2 DEF ProbStep, ProbDone, S
  <1>2. CASE ~Discarded(P, m)
    <2>1. S = [i \in 1 .. 8 |-> After(i)]
      BY <1>2 DEF ProbSteps
    <2> HIDE DEF S
    <2>2. RowsOK(rows, r, m, f)
      BY NewRow0, ProbRowsFacts
    <2> HIDE DEF rows
    <2>3. ASSUME NEW i \in 1 .. 7, ~(i = 1 /\ m.prob \notin DOMAIN P)
          PROVE  /\ ProbStep(P, Put(P, m.prob, rows[i]), m)
                 /\ m.prob \in DOMAIN Put(P, m.prob, rows[i])
                 /\ Put(P, m.prob, rows[i])[m.prob] = rows[i]
      <3> DEFINE Q == Put(P, m.prob, rows[i])
      <3>2. /\ DOMAIN Q = DOMAIN P \cup {m.prob} /\ Q[m.prob] = rows[i]
            /\ \A p \in DOMAIN P \ {m.prob} : Q[p] = P[p]
        BY DEF Put
      <3> HIDE DEF Q
      <3>3. rows[i].type \in Types
        <4>1. CASE i = 1
          BY <2>2, <2>3, <4>1 DEF ProblemsOK, ProblemRow, RowsOK
        <4>2. CASE i # 1
          <5>1. i \in 2 .. 7
            BY <4>2, SMT
          <5> QED BY <2>2, <5>1 DEF UpdateOK, RowsOK
        <4> QED BY <4>1, <4>2
      <3>4. RowOK(rows[i]) /\ rows[i].updated \in {r.updated, m.time}
        BY <2>2 DEF RowsOK
      <3>5. ProbStep(P, Q, m)
        BY <1>2, <3>2, <3>3, <3>4 DEF ProbStep
      <3> QED BY <3>2, <3>5 DEF Q
    <2>4. ASSUME NEW k \in 1 .. 8 PROVE ProbStep(P, After(k), m)
      <3>1. CASE k = 1 \/ (k = 2 /\ m.prob \notin DOMAIN P)
        BY <3>1 DEF ProbStep
      <3>2. CASE ~(k = 1 \/ (k = 2 /\ m.prob \notin DOMAIN P))
        <4>1. k - 1 \in 1 .. 7 /\ ~(k - 1 = 1 /\ m.prob \notin DOMAIN P)
          BY <3>2, SMT
        <4>2. After(k) = Put(P, m.prob, rows[k - 1])
          BY <3>2
        <4> HIDE DEF After
        <4> QED BY <2>3, <4>1, <4>2
      <3> QED BY <3>1, <3>2
    <2>5. f = NoFault => ProbDone(P, After(8), m)
      <3>1. 7 \in 1 .. 7 /\ 7 # 1 /\ 8 # 1 /\ 8 # 2 /\ 8 - 1 = 7
        BY SMT
      <3>2. After(8) = Put(P, m.prob, rows[7])
        BY <3>1
      <3> HIDE DEF After
      <3>3. /\ ProbStep(P, After(8), m) /\ m.prob \in DOMAIN After(8) /\ After(8)[m.prob] = rows[7]
        BY <2>3, <3>1, <3>2
      <3> QED BY <2>2, <3>3 DEF ProbDone, RowsOK
    <2> HIDE DEF After
    <2>6. /\ DOMAIN S = 1 .. 8 /\ Len(S) = 8 /\ 8 \in Nat \ {0} /\ 8 \in 1 .. 8
          /\ \A k \in 1 .. 8 : S[k] = After(k)
      BY <2>1, SMT
    <2> QED BY <1>2, <2>4, <2>5, <2>6 DEF S
  <1> QED BY <1>1, <1>2

-----------------------------------------------------------------------------
(* int_process of each message class.                                      *)

\* The messages that are stored as a row and announced to the clients
Records == {"request", "reply", "sub"}

HasRow(d, m) ==
    /\ m.kind = "request" => m.row \in d.req
    /\ m.kind = "reply" => m.row \in d.clar
    /\ m.kind = "sub" => m.row \in d.sub

\* A row with the id of the message is in its table
Known(d, m) ==
    /\ m.kind = "request" => WithId(d.req, m.row.id) # {}
    /\ m.kind = "reply" => WithId(d.clar, m.row.id) # {}
    /\ m.kind = "sub" => WithId(d.sub, m.row.id) # {}

\* The tables while or after message m is processed on the tables d
Step(d, e, m) ==
    /\ Shape(e)
    /\ e.prob = d.prob \/ (m.kind = "prob" /\ ProbStep(d.prob, e.prob, m))
    /\ \A u \in e.user : IsUser(u)
    /\ \/ Accounts(e.user) = Accounts(d.user)
       \/ m.kind = "user" /\ Accounts(e.user) = Accounts(d.user) \cup {Identity(m.row)}
    /\ e.group = d.group \/ (m.kind = "group" /\ e.group = d.group \cup {m.row})
    /\ e.req = d.req \/ (m.kind = "request" /\ e.req = d.req \cup {m.row})
    /\ e.clar = d.clar \/ (m.kind = "reply" /\ e.clar = d.clar \cup {m.row})
    /\ e.sub = d.sub \/ (m.kind = "sub" /\ e.sub = d.sub \cup {m.row})

\* ... and when int_process reports success
Done(d, e, m) ==
    /\ m.kind = "prob" => ProbDone(d.prob, e.prob, m)
    /\ m.kind = "user" => Identity(m.row) \in Accounts(e.user)
    /\ m.kind = "group" => m.row \in e.group
    /\ m.kind \in Records => HasRow(e, m)
    /\ m.kind = "reply" => Question(e, m.row) # {}
    /\ m.kind = "sub" => WithId(e.user, m.row.user) # {} /\ shortname(e, m.row.prob) # NoValue

\* What int_process promises: of every call, and of the last one
Good(d, m, out) ==
    /\ Len(out.steps) \in Nat \ {0}
    /\ \A k \in 1 .. Len(out.steps) : Step(d, out.steps[k], m)
    /\ out.ok \in BOOLEAN /\ out.tells \in BOOLEAN /\ out.dies \in BOOLEAN
    /\ out.ok => Done(d, out.steps[Len(out.steps)], m)
    /\ out.tells => /\ m.kind \in Records /\ ~HasRow(d, m)
                    /\ HasRow(out.steps[Len(out.steps)], m)

\* ... unless the statement could not be tried at all
Tried(d, m, out) ==
    m.kind \in Records => Known(d, m) \/ HasRow(out.steps[Len(out.steps)], m)

DbOK(d) ==
    /\ Shape(d)
    /\ ProblemsOK(d.prob)
    /\ \A u \in d.user : IsUser(u)

\* doing nothing is a step
LEMMA NoStep ==
    ASSUME NEW d, DbOK(d), NEW m
    PROVE  Step(d, d, m)
  BY DEF Step, DbOK

\* a refused message leaves the tables as they were
LEMMA RefusedGood ==
    ASSUME NEW d, DbOK(d), NEW m
    PROVE  Good(d, m, Refused(d))
  <1> DEFINE out == Refused(d)
             one == <<d>>
  <1>1. out.steps = one /\ out.ok = FALSE /\ out.tells = FALSE /\ out.dies = FALSE
    BY DEF Refused, Outcome
  <1>2. Len(one) = 1 /\ one[1] = d /\ 1 \in Nat \ {0} /\ 1 .. 1 = {1}
    BY SMT
  <1> HIDE DEF out, one
  <1>3. Step(d, d, m)
    BY NoStep
  <1> QED BY <1>1, <1>2, <1>3 DEF Good, out

\* a statement after which the tables are e
LEMMA TwoStepsGood ==
    ASSUME NEW d, DbOK(d), NEW m, NEW e, Step(d, e, m),
           NEW ok \in BOOLEAN, NEW tells \in BOOLEAN, NEW dies \in BOOLEAN,
           ok => Done(d, e, m),
           tells => m.kind \in Records /\ ~HasRow(d, m) /\ HasRow(e, m)
    PROVE  Good(d, m, Outcome(<<d, e>>, ok, tells, dies))
  <1> DEFINE two == <<d, e>>
             out == Outcome(two, ok, tells, dies)
  <1>1. out.steps = two /\ out.ok = ok /\ out.tells = tells /\ out.dies = dies
    BY DEF Outcome
  <1>2. Len(two) = 2 /\ two[1] = d /\ two[2] = e /\ 2 \in Nat \ {0} /\ 1 .. 2 = {1, 2}
    BY SMT
  <1> HIDE DEF out, two
  <1>3. Step(d, d, m)
    BY NoStep
  <1>4. Good(d, m, out)
    BY <1>1, <1>2, <1>3 DEF Good
  <1> QED BY <1>4 DEF out, two

\* Assigning the column c leaves a step in the other columns
LEMMA ColumnStep ==
    ASSUME NEW d, DbOK(d), NEW m, NEW c \in Columns, NEW x,
           c = "prob" => m.kind = "prob" /\ ProbStep(d.prob, x, m),
           c = "user" => /\ \A u \in x : IsUser(u)
                         /\ \/ Accounts(x) = Accounts(d.user)
                            \/ m.kind = "user" /\ Accounts(x) = Accounts(d.user) \cup {Identity(m.row)},
           c = "group" => m.kind = "group" /\ x = d.group \cup {m.row},
           c = "req" => m.kind = "request" /\ x = d.req \cup {m.row},
           c = "clar" => m.kind = "reply" /\ x = d.clar \cup {m.row},
           c = "sub" => m.kind = "sub" /\ x = d.sub \cup {m.row}
    PROVE  Step(d, [d EXCEPT ![c] = x], m)
  <1> DEFINE e == [d EXCEPT ![c] = x]
  <1>1. Shape(e) /\ e[c] = x /\ \A g \in Columns \ {c} : e[g] = d[g]
    <2>1. Shape(d)
      BY DEF DbOK
    <2> QED BY ONLY <2>1, OneTable
  <1> HIDE DEF e
  <1>2. /\ "prob" \in Columns /\ "user" \in Columns /\ "group" \in Columns
        /\ "req" \in Columns /\ "clar" \in Columns /\ "sub" \in Columns
    BY DEF Columns
  <1>3. e.prob = d.prob \/ (m.kind = "prob" /\ ProbStep(d.prob, e.prob, m))
    BY <1>1, <1>2
  <1>4. /\ \A u \in e.user : IsUser(u)
        /\ \/ Accounts(e.user) = Accounts(d.user)
           \/ m.kind = "user" /\ Accounts(e.user) = Accounts(d.user) \cup {Identity(m.row)}
    <2>1. CASE c = "user"
      <3>1. e.user = x
        BY <1>1, <2>1
      <3> QED BY <2>1, <3>1
    <2>2. CASE c # "user"
      <3>1. e.user = d.user
        BY <1>1, <1>2, <2>2
      <3> QED BY <3>1 DEF DbOK
    <2> QED BY <2>1, <2>2
  <1>5. e.group = d.group \/ (m.kind = "group" /\ e.group = d.group \cup {m.row})
    BY <1>1, <1>2
  <1>6. e.req = d.req \/ (m.kind = "request" /\ e.req = d.req \cup {m.row})
    BY <1>1, <1>2
  <1>7. e.clar = d.clar \/ (m.kind = "reply" /\ e.clar = d.clar \cup {m.row})
    BY <1>1, <1>2
  <1>8. e.sub = d.sub \/ (m.kind = "sub" /\ e.sub = d.sub \cup {m.row})
    BY <1>1, <1>2
  <1> QED BY <1>1, <1>3, <1>4, <1>5, <1>6, <1>7, <1>8 DEF Step, e

\* ProbMessage::int_process
LEMMA ProbGood ==
    ASSUME NEW d, DbOK(d), NEW m, MsgOK(m), m.kind = "prob", NEW f
    PROVE  Good(d, m, ProcessProb(d, m, f))
  <1> DEFINE P == ProbSteps(d.prob, m, f)
             D == [i \in DOMAIN P |-> [d EXCEPT !.prob = P[i]]]
             ok == f = NoFault \/ Discarded(d.prob, m)
             out == ProcessProb(d, m, f)
  <1>1. /\ Len(P) \in Nat \ {0} /\ DOMAIN P = 1 .. Len(P)
        /\ \A k \in 1 .. Len(P) : ProbStep(d.prob, P[k], m)
        /\ f = NoFault \/ Discarded(d.prob, m) => ProbDone(d.prob, P[Len(P)], m)
    <2>1. m.id \in Ids /\ UpdateOK(m) /\ ProblemsOK(d.prob)
      BY DEF MsgOK, DbOK
    <2> QED BY <2>1, ProbStepsFacts
  <1>2. /\ out.steps = D /\ out.ok = (f = NoFault \/ Discarded(d.prob, m))
        /\ out.tells = FALSE /\ out.dies = FALSE
    BY DEF ProcessProb, Outcome
  <1> HIDE DEF P, out
  <1>3. Len(D) = Len(P) /\ \A k \in 1 .. Len(P) : D[k] = [d EXCEPT !.prob = P[k]]
    BY <1>1, SMT
  <1>4. ASSUME NEW k \in 1 .. Len(P)
        PROVE  Step(d, D[k], m) /\ D[k].prob = P[k]
    <2>1. "prob" \in Columns
      BY DEF Columns
    <2>2. D[k] = [d EXCEPT !["prob"] = P[k]]
      BY <1>3
    <2>3. D[k].prob = P[k]
      BY <2>2 DEF DbOK, Shape, Columns
    <2>4. ProbStep(d.prob, P[k], m)
      BY <1>1
    <2> HIDE DEF D
    <2>5. Step(d, [d EXCEPT !["prob"] = P[k]], m)
      BY <2>1, <2>4, ColumnStep
    <2> QED BY <2>2, <2>3, <2>5
  <1> HIDE DEF D
  <1>5. Len(P) \in 1 .. Len(P)
    BY <1>1, SMT
  <1>6. out.ok => Done(d, D[Len(D)], m)
    BY <1>1, <1>2, <1>3, <1>4, <1>5 DEF Done, Records
  <1> QED BY <1>1, <1>2, <1>3, <1>4, <1>6 DEF Good, out

\* Message_CreateUser::int_process
LEMMA UserGood ==
    ASSUME NEW d, DbOK(d), NEW m, MsgOK(m), m.kind = "user"
    PROVE  Good(d, m, ProcessUser(d, m))
  <1> DEFINE x == d.user \cup {m.row}
             e == [d EXCEPT !.user = x]
  <1>1. CASE WithId(d.user, m.row.id) \cup WithName(d.user, m.row.name) # {}
    BY <1>1, RefusedGood DEF ProcessUser
  <1>2. CASE ~(WithId(d.user, m.row.id) \cup WithName(d.user, m.row.name) # {})
    <2>1. ProcessUser(d, m) = Outcome(<<d, e>>, TRUE, FALSE, FALSE)
      BY <1>2 DEF ProcessUser
    <2>2. Accounts(x) = Accounts(d.user) \cup {Identity(m.row)} /\ \A u \in x : IsUser(u)
      BY DEF Accounts, DbOK, MsgOK
    <2>3. e.user = x
      BY DEF DbOK, Shape, Columns
    <2>4. Identity(m.row) \in Accounts(e.user)
      BY <2>2, <2>3
    <2> HIDE DEF x
    <2>5. Step(d, e, m)
      BY <2>2, ColumnStep DEF Columns
    <2> HIDE DEF e
    <2>6. Done(d, e, m)
      BY <2>4 DEF Done, Records
    <2> QED BY ONLY DbOK(d), <2>1, <2>5, <2>6, TwoStepsGood, Zenon
  <1> QED BY <1>1, <1>2

\* Message_CreateGroup::int_process
LEMMA GroupGood ==
    ASSUME NEW d, DbOK(d), NEW m, MsgOK(m), m.kind = "group"
    PROVE  Good(d, m, ProcessGroup(d, m))
  <1> DEFINE x == d.group \cup {m.row}
             e == [d EXCEPT !.group = x]
  <1>1. CASE WithId(d.group, m.row.id) \cup WithName(d.group, m.row.name) # {}
    BY <1>1, RefusedGood DEF ProcessGroup
  <1>2. CASE ~(WithId(d.group, m.row.id) \cup WithName(d.group, m.row.name) # {})
    <2>1. ProcessGroup(d, m) = Outcome(<<d, e>>, TRUE, FALSE, FALSE)
      BY <1>2 DEF ProcessGroup
    <2>2. e.group = x
      BY DEF DbOK, Shape, Columns
    <2>3. m.row \in e.group
      BY <2>2
    <2>4. Step(d, e, m)
      BY ColumnStep DEF Columns
    <2> HIDE DEF e
    <2>5. Done(d, e, m)
      BY <2>3 DEF Done, Records
    <2> QED BY ONLY DbOK(d), <2>1, <2>4, <2>5, TwoStepsGood, Zenon
  <1> QED BY <1>1, <1>2

\* an UPDATE of a password or a bonus leaves the identity of the user alone
LEMMA UserChange ==
    ASSUME NEW u, IsUser(u), NEW v
    PROVE  /\ IsUser([u EXCEPT !.pw = v]) /\ Identity([u EXCEPT !.pw = v]) = Identity(u)
           /\ IsUser([u EXCEPT !.bonus = v]) /\ Identity([u EXCEPT !.bonus = v]) = Identity(u)
  <1>1. u = [id |-> u.id, name |-> u.name, type |-> u.type, group |-> u.group, pw |-> u.pw, bonus |-> u.bonus]
    BY DEF IsUser
  <1>2. [u EXCEPT !.pw = v] = [id |-> u.id, name |-> u.name, type |-> u.type, group |-> u.group,
                               pw |-> v, bonus |-> u.bonus]
    BY <1>1, SMT
  <1>3. [u EXCEPT !.bonus = v] = [id |-> u.id, name |-> u.name, type |-> u.type, group |-> u.group,
                                  pw |-> u.pw, bonus |-> v]
    BY <1>1, SMT
  <1> QED BY <1>2, <1>3, SMT DEF IsUser, Identity

\* PasswdMessage::int_process
LEMMA PasswdGood ==
    ASSUME NEW d, DbOK(d), NEW m, m.kind = "passwd"
    PROVE  Good(d, m, ProcessPasswd(d, m))
  <1> DEFINE h == [u \in d.user |-> IF u.id = m.user THEN [u EXCEPT !.pw = m.id] ELSE u]
             x == {h[u] : u \in d.user}
             e == [d EXCEPT !.user = x]
  <1>1. \A u \in d.user : IsUser(h[u]) /\ Identity(h[u]) = Identity(u)
    BY UserChange DEF DbOK
  <1>2. x = {IF u.id = m.user THEN [u EXCEPT !.pw = m.id] ELSE u : u \in d.user}
    OBVIOUS
  <1>3. ProcessPasswd(d, m) = Outcome(<<d, e>>, TRUE, FALSE, FALSE)
    BY <1>2 DEF ProcessPasswd, UpdateUsers
  <1>4. (\A u \in x : IsUser(u)) /\ Accounts(x) = Accounts(d.user)
    <2> HIDE DEF h
    <2> QED BY <1>1 DEF Accounts
  <1> HIDE DEF h, x
  <1>5. Step(d, e, m)
    BY <1>4, ColumnStep DEF Columns
  <1> HIDE DEF e
  <1>6. Done(d, e, m)
    BY DEF Done, Records
  <1> QED BY ONLY DbOK(d), <1>3, <1>5, <1>6, TwoStepsGood, Zenon

\* BonusMessage::int_process
LEMMA BonusGood ==
    ASSUME NEW d, DbOK(d), NEW m, m.kind = "bonus"
    PROVE  Good(d, m, ProcessBonus(d, m))
  <1> DEFINE h == [u \in d.user |-> IF u.id = m.user THEN [u EXCEPT !.bonus = m.id] ELSE u]
             x == {h[u] : u \in d.user}
             e == [d EXCEPT !.user = x]
  <1>1. \A u \in d.user : IsUser(h[u]) /\ Identity(h[u]) = Identity(u)
    BY UserChange DEF DbOK
  <1>2. x = {IF u.id = m.user THEN [u EXCEPT !.bonus = m.id] ELSE u : u \in d.user}
    OBVIOUS
  <1>3. ProcessBonus(d, m) = Outcome(<<d, e>>, TRUE, FALSE, FALSE)
    BY <1>2 DEF ProcessBonus, UpdateUsers
  <1>4. (\A u \in x : IsUser(u)) /\ Accounts(x) = Accounts(d.user)
    <2> HIDE DEF h
    <2> QED BY <1>1 DEF Accounts
  <1> HIDE DEF h, x
  <1>5. Step(d, e, m)
    BY <1>4, ColumnStep DEF Columns
  <1> HIDE DEF e
  <1>6. Done(d, e, m)
    BY DEF Done, Records
  <1> QED BY ONLY DbOK(d), <1>3, <1>5, <1>6, TwoStepsGood, Zenon

\* the tables at the end of a message that was tried
LEMMA LastOfTwo ==
    ASSUME NEW d, NEW m, NEW e, HasRow(e, m), NEW a, NEW b, NEW c
    PROVE  Tried(d, m, Outcome(<<d, e>>, a, b, c))
  <1> DEFINE out == Outcome(<<d, e>>, a, b, c)
  <1>1. out.steps[Len(out.steps)] = e
    BY SMT DEF Outcome
  <1> QED BY <1>1 DEF Tried

\* ClarificationMessage::int_process of a request
LEMMA RequestGood ==
    ASSUME NEW d, DbOK(d), NEW m, m.kind = "request"
    PROVE  Good(d, m, ProcessRequest(d, m)) /\ Tried(d, m, ProcessRequest(d, m))
  <1> DEFINE x == d.req \cup {m.row}
             e == [d EXCEPT !.req = x]
  <1>1. CASE WithId(d.req, m.row.id) # {}
    BY <1>1, RefusedGood DEF ProcessRequest, Tried, Known
  <1>2. CASE ~(WithId(d.req, m.row.id) # {})
    <2>1. ProcessRequest(d, m) = Outcome(<<d, e>>, TRUE, TRUE, FALSE)
      BY <1>2 DEF ProcessRequest
    <2>2. e.req = x
      BY DEF DbOK, Shape, Columns
    <2>3. HasRow(e, m)
      BY <2>2 DEF HasRow
    <2>4. m.kind \in Records /\ ~HasRow(d, m)
      BY <1>2 DEF HasRow, WithId, Records
    <2>5. Step(d, e, m)
      BY ColumnStep DEF Columns
    <2> HIDE DEF e
    <2>6. Done(d, e, m)
      BY <2>3 DEF Done
    <2>7. Good(d, m, Outcome(<<d, e>>, TRUE, TRUE, FALSE))
      BY ONLY DbOK(d), <2>3, <2>4, <2>5, <2>6, TwoStepsGood, Zenon
    <2>8. Tried(d, m, Outcome(<<d, e>>, TRUE, TRUE, FALSE))
      BY <2>3, LastOfTwo
    <2> QED BY <2>1, <2>7, <2>8
  <1> QED BY <1>1, <1>2

\* ClarificationMessage::int_process of a reply: the row is stored, but the
\* message succeeds only if its request is there
LEMMA ReplyGood ==
    ASSUME NEW d, DbOK(d), NEW m, m.kind = "reply"
    PROVE  Good(d, m, ProcessReply(d, m)) /\ Tried(d, m, ProcessReply(d, m))
  <1> DEFINE x == d.clar \cup {m.row}
             e == [d EXCEPT !.clar = x]
             known == getClarificationRequest(d, m.row.req) # {}
  <1>1. CASE WithId(d.clar, m.row.id) # {}
    BY <1>1, RefusedGood DEF ProcessReply, Tried, Known
  <1>2. CASE ~(WithId(d.clar, m.row.id) # {})
    <2>1. ProcessReply(d, m) = Outcome(<<d, e>>, known, known, ~known)
      BY <1>2 DEF ProcessReply
    <2>2. e.clar = x /\ e.req = d.req
      BY DEF DbOK, Shape, Columns
    <2>3. HasRow(e, m)
      BY <2>2 DEF HasRow
    <2>4. m.kind \in Records /\ ~HasRow(d, m)
      BY <1>2 DEF HasRow, WithId, Records
    <2>5. Step(d, e, m)
      BY ColumnStep DEF Columns
    <2> HIDE DEF e
    <2>6. known => Done(d, e, m)
      BY <2>2, <2>3 DEF Done, Question, getClarificationRequest
    <2>7. known \in BOOLEAN /\ (~known) \in BOOLEAN
      OBVIOUS
    <2> HIDE DEF known
    <2>8. Good(d, m, Outcome(<<d, e>>, known, known, ~known))
      BY ONLY DbOK(d), <2>3, <2>4, <2>5, <2>6, <2>7, TwoStepsGood, Zenon
    <2>9. Tried(d, m, Outcome(<<d, e>>, known, known, ~known))
      BY <2>3, LastOfTwo
    <2> QED BY <2>1, <2>8, <2>9
  <1> QED BY <1>1, <1>2

\* SubmissionMessage::int_process: the message succeeds only if the row can be
\* read back with its user and the name of its problem
LEMMA SubmissionGood ==
    ASSUME NEW d, DbOK(d), NEW m, m.kind = "sub"
    PROVE  Good(d, m, ProcessSubmission(d, m)) /\ Tried(d, m, ProcessSubmission(d, m))
  <1> DEFINE x == d.sub \cup {m.row}
             e == [d EXCEPT !.sub = x]
             found == getSubmission(e, m.row.id) # {}
  <1>1. CASE WithId(d.sub, m.row.id) # {}
    BY <1>1, RefusedGood DEF ProcessSubmission, Tried, Known
  <1>2. CASE ~(WithId(d.sub, m.row.id) # {})
    <2>1. ProcessSubmission(d, m) = Outcome(<<d, e>>, found, found, FALSE)
      BY <1>2 DEF ProcessSubmission
    <2>2. e.sub = x
      BY DEF DbOK, Shape, Columns
    <2>3. HasRow(e, m)
      BY <2>2 DEF HasRow
    <2>4. m.kind \in Records /\ ~HasRow(d, m)
      BY <1>2 DEF HasRow, WithId, Records
    <2>5. Step(d, e, m)
      BY ColumnStep DEF Columns
    <2> HIDE DEF e
    <2>6. found => Done(d, e, m)
      <3>1. ASSUME found PROVE WithId(e.user, m.row.user) # {} /\ shortname(e, m.row.prob) # NoValue
        <4>1. PICK y \in WithId(e.sub, m.row.id) :
                     WithId(e.user, y.user) # {} /\ shortname(e, y.prob) # NoValue
          BY <3>1 DEF getSubmission, Submissions
        <4>2. y = m.row
          BY <1>2, <2>2 DEF WithId
        <4> QED BY <4>1, <4>2
      <3> QED BY <2>3, <3>1 DEF Done
    <2>7. found \in BOOLEAN
      OBVIOUS
    <2> HIDE DEF found
    <2>8. Good(d, m, Outcome(<<d, e>>, found, found, FALSE))
      BY ONLY DbOK(d), <2>3, <2>4, <2>5, <2>6, <2>7, TwoStepsGood, Zenon
    <2>9. Tried(d, m, Outcome(<<d, e>>, found, found, FALSE))
      BY <2>3, LastOfTwo
    <2> QED BY <2>1, <2>8, <2>9
  <1> QED BY <1>1, <1>2

\* int_process of every message class
LEMMA IntProcessGood ==
    ASSUME NEW d, DbOK(d), NEW m, MsgOK(m), NEW f
    PROVE  Good(d, m, int_process(d, m, f)) /\ Tried(d, m, int_process(d, m, f))
  <1>1. CASE m.kind = "prob"
    BY <1>1, ProbGood DEF int_process, Tried, Records
  <1>2. CASE m.kind = "user"
    BY <1>2, UserGood DEF int_process, Tried, Records
  <1>3. CASE m.kind = "group"
    BY <1>3, GroupGood DEF int_process, Tried, Records
  <1>4. CASE m.kind = "passwd"
    BY <1>4, PasswdGood DEF int_process, Tried, Records
  <1>5. CASE m.kind = "bonus"
    BY <1>5, BonusGood DEF int_process, Tried, Records
  <1>6. CASE m.kind = "request"
    BY <1>6, RequestGood DEF int_process
  <1>7. CASE m.kind = "reply"
    BY <1>7, ReplyGood DEF int_process
  <1>8. CASE m.kind = "sub"
    BY <1>8, SubmissionGood DEF int_process
  <1> QED BY <1>1, <1>2, <1>3, <1>4, <1>5, <1>6, <1>7, <1>8 DEF MsgOK, Kinds

-----------------------------------------------------------------------------
(* Nothing is taken away from the tables.                                  *)

Grown(d, e) ==
    /\ Accounts(d.user) \subseteq Accounts(e.user)
    /\ d.group \subseteq e.group
    /\ d.req \subseteq e.req
    /\ d.clar \subseteq e.clar
    /\ d.sub \subseteq e.sub
    /\ DOMAIN d.prob \subseteq DOMAIN e.prob
    /\ \A p \in DOMAIN d.prob : e.prob[p].updated >= d.prob[p].updated

\* the problem of an update that is not discarded is not newer than the update
LEMMA NotNewer ==
    ASSUME NEW P, ProblemsOK(P), NEW m, UpdateOK(m), ~Discarded(P, m)
    PROVE  /\ ProblemRow(P, m.prob).updated \in Nat /\ m.time \in Nat
           /\ ProblemRow(P, m.prob).updated <= m.time
  <1>1. m.time \in Nat /\ m.time >= 0
    BY SMT DEF UpdateOK
  <1>2. CASE m.prob \in DOMAIN P
    <2>1. ProblemRow(P, m.prob) = P[m.prob]
      BY <1>2 DEF ProblemRow
    <2>2. P[m.prob].type # NoType /\ P[m.prob].updated \in 0 .. MaxTime
      BY <1>2, TypesAssumption DEF ProblemsOK, RowOK
    <2>3. ~(P[m.prob].updated > m.time)
      BY <2>1, <2>2 DEF Discarded
    <2> QED BY ONLY <1>1, <2>1, <2>2, <2>3, ReplicasAssumption, SMT
  <1>3. CASE m.prob \notin DOMAIN P
    <2>1. ProblemRow(P, m.prob).updated = 0
      BY <1>3 DEF ProblemRow, NewProblem
    <2> QED BY ONLY <1>1, <2>1, SMT
  <1> QED BY <1>2, <1>3

\* an update leaves the problem with its own time or an older one, and never
\* with an older one than the problem had
LEMMA TimesGrow ==
    ASSUME NEW P, ProblemsOK(P), NEW Q, NEW m, UpdateOK(m), ProbStep(P, Q, m)
    PROVE  /\ ProblemsOK(Q)
           /\ DOMAIN P \subseteq DOMAIN Q
           /\ \A p \in DOMAIN P : Q[p].updated >= P[p].updated
           /\ Q # P => m.prob \in DOMAIN Q /\ m.time >= Q[m.prob].updated
           /\ \A p \in DOMAIN Q : Q[p] # ProblemRow(P, p) => p = m.prob
  <1>1. CASE Q = P
    <2>1. \A p \in DOMAIN P : P[p].updated >= P[p].updated
      BY ReplicasAssumption, SMT DEF ProblemsOK, RowOK
    <2> QED BY <1>1, <2>1 DEF ProblemRow
  <1>2. CASE Q # P
    <2>1. /\ ~Discarded(P, m)
          /\ DOMAIN Q = DOMAIN P \cup {m.prob}
          /\ \A p \in DOMAIN P \ {m.prob} : Q[p] = P[p]
          /\ RowOK(Q[m.prob]) /\ Q[m.prob].type \in Types
          /\ Q[m.prob].updated \in {ProblemRow(P, m.prob).updated, m.time}
      BY <1>2 DEF ProbStep
    <2>2. /\ ProblemRow(P, m.prob).updated \in Nat /\ m.time \in Nat
          /\ ProblemRow(P, m.prob).updated <= m.time
      BY <2>1, NotNewer
    <2>3. ProblemsOK(Q)
      BY <2>1 DEF ProblemsOK
    <2>4. m.time >= Q[m.prob].updated /\ Q[m.prob].updated >= ProblemRow(P, m.prob).updated
      BY ONLY <2>1, <2>2, SMT
    <2>5. ASSUME NEW p \in DOMAIN P PROVE Q[p].updated >= P[p].updated
      <3>1. CASE p = m.prob
        BY <2>4, <3>1 DEF ProblemRow
      <3>2. CASE p # m.prob
        <4>1. Q[p] = P[p]
          BY <2>1, <3>2
        <4>2. P[p].updated \in 0 .. MaxTime
          BY DEF ProblemsOK, RowOK
        <4> QED BY ONLY <4>1, <4>2, ReplicasAssumption, SMT
      <3> QED BY <3>1, <3>2
    <2>6. \A p \in DOMAIN Q : Q[p] # ProblemRow(P, p) => p = m.prob
      BY <2>1 DEF ProblemRow
    <2> QED BY <2>1, <2>3, <2>4, <2>5, <2>6
  <1> QED BY <1>1, <1>2

\* what a step does with the tables of the problems
LEMMA StepProblems ==
    ASSUME NEW d, DbOK(d), NEW e, NEW m, MsgOK(m), Step(d, e, m)
    PROVE  /\ ProblemsOK(e.prob)
           /\ DOMAIN d.prob \subseteq DOMAIN e.prob
           /\ \A p \in DOMAIN d.prob : e.prob[p].updated >= d.prob[p].updated
           /\ e.prob # d.prob => m.kind = "prob" /\ UpdateOK(m) /\ ProbStep(d.prob, e.prob, m)
  <1>0. ProblemsOK(d.prob)
    BY DEF DbOK
  <1>1. CASE e.prob = d.prob
    <2>1. \A p \in DOMAIN d.prob : d.prob[p].updated >= d.prob[p].updated
      BY <1>0, ReplicasAssumption, SMT DEF ProblemsOK, RowOK
    <2> QED BY <1>0, <1>1, <2>1
  <1>2. CASE e.prob # d.prob
    <2>1. m.kind = "prob" /\ UpdateOK(m) /\ ProbStep(d.prob, e.prob, m)
      BY <1>2 DEF Step, MsgOK
    <2> QED BY <1>0, <2>1, TimesGrow
  <1> QED BY <1>1, <1>2

\* no call of int_process takes anything away
LEMMA StepGrows ==
    ASSUME NEW d, DbOK(d), NEW e, NEW m, MsgOK(m), Step(d, e, m)
    PROVE  Grown(d, e) /\ DbOK(e)
  <1>1. /\ ProblemsOK(e.prob)
        /\ DOMAIN d.prob \subseteq DOMAIN e.prob
        /\ \A p \in DOMAIN d.prob : e.prob[p].updated >= d.prob[p].updated
    BY StepProblems
  <1>2. Accounts(d.user) \subseteq Accounts(e.user)
    BY DEF Step
  <1>3. d.group \subseteq e.group
    BY DEF Step
  <1>4. d.req \subseteq e.req
    BY DEF Step
  <1>5. d.clar \subseteq e.clar
    BY DEF Step
  <1>6. d.sub \subseteq e.sub
    BY DEF Step
  <1>7. DbOK(e)
    BY <1>1 DEF DbOK, Step
  <1> QED BY <1>1, <1>2, <1>3, <1>4, <1>5, <1>6, <1>7 DEF Grown

-----------------------------------------------------------------------------
(* The invariant of one server: M are the messages made so far, d its      *)
(* tables, dn, fl and tn the messages it has marked as processed, failed   *)
(* and begun, td its announcements and f the number of failed statements.  *)

Sets(M, dn, fl, tn, td) ==
    /\ dn \cap fl = {} /\ tn \cap (dn \cup fl) = {}
    /\ dn \cup fl \cup tn \subseteq M
    /\ DOMAIN td \subseteq M

\* The messages of one kind
OfKind(M, kind) == {m \in M : m.kind = kind}

\* Every row was there in the beginning or came with a message
Tables(M, d) ==
    /\ DbOK(d)
    /\ \A a \in Accounts(d.user) :
           a \in Accounts(InitUsers) \/ \E m \in OfKind(M, "user") : a = Identity(m.row)
    /\ \A r \in d.group : r \in InitGroups \/ \E m \in OfKind(M, "group") : r = m.row
    /\ \A r \in d.req : \E m \in OfKind(M, "request") : r = m.row
    /\ \A r \in d.clar : \E m \in OfKind(M, "reply") : r = m.row
    /\ \A r \in d.sub : \E m \in OfKind(M, "sub") : r = m.row
    /\ Accounts(InitUsers) \subseteq Accounts(d.user) /\ InitGroups \subseteq d.group

\* What a message that is marked as processed has left in the tables
Kept(d, m) ==
    /\ m.kind = "prob" => m.prob \in DOMAIN d.prob /\ d.prob[m.prob].updated >= m.time
    /\ m.kind = "user" => Identity(m.row) \in Accounts(d.user)
    /\ m.kind = "group" => m.row \in d.group
    /\ m.kind \in Records => HasRow(d, m)
    /\ m.kind = "reply" => \E r \in d.req : r.id = m.row.req
    /\ m.kind = "sub" => /\ m.row.prob \in DOMAIN d.prob
                         /\ \E a \in Accounts(d.user) : a.id = m.row.user

Stores(d, dn) == \A m \in dn : Kept(d, m)

\* Every problem is as a message left it whose statements have all worked, or
\* an update at least as new is to be tried again
Newest(r, p, dn, st) ==
    \/ \E m \in st : m.kind = "prob" /\ m.prob = p /\ m.time >= r.updated
    \/ \E m \in dn \cup st : m.kind = "prob" /\ m.prob = p /\ WrittenBy(r, m)

Versions(d, dn, st) == \A p \in DOMAIN d.prob : Newest(d.prob[p], p, dn, st)

\* Without a failed statement even a message that failed has its row
Tries(d, fl, f) == f = 0 => \A m \in fl : m.kind \in Records => HasRow(d, m)

\* A message is announced with its row, and once
Tells(d, td) == \A m \in DOMAIN td : td[m] = 1 /\ m.kind \in Records /\ HasRow(d, m)

ServerInv(M, d, dn, fl, tn, td, f) ==
    /\ Sets(M, dn, fl, tn, td)
    /\ Tables(M, d)
    /\ Stores(d, dn)
    /\ Versions(d, dn, fl \cup tn)
    /\ Tries(d, fl, f)
    /\ Tells(d, td)

\* The messages: their ids are counted up for each server and kind
Counted(M, i) == {m \in M : m.id[1] = i[1] /\ m.id[2] = i[2]}

LogInv(M) ==
    /\ IsFiniteSet(M)
    /\ \A m \in M : MsgOK(m) /\ m.id[3] < Cardinality(Counted(M, m.id))
    /\ \A m, n \in M : m.id = n.id => m = n

ReplicasInv ==
    /\ LogInv(msgs)
    /\ clock \in 1 .. MaxTime /\ faults \in Nat /\ restarts \in Nat
    /\ DOMAIN db = Servers /\ DOMAIN told = Servers
    /\ DOMAIN done = Servers /\ DOMAIN failed = Servers /\ DOMAIN torn = Servers
    /\ \A s \in Servers : ServerInv(msgs, db[s], done[s], failed[s], torn[s], told[s], faults)

-----------------------------------------------------------------------------
(* What one message does to each part of the invariant.                    *)

\* a row with this id is the row of the message
LEMMA KnownHasRow ==
    ASSUME NEW M, LogInv(M), NEW d, Tables(M, d), NEW m \in M, m.kind \in Records, Known(d, m)
    PROVE  HasRow(d, m)
  <1>0. ASSUME NEW n \in M, NEW r, r = n.row, n.kind \in Records, r.id = m.row.id
        PROVE  r = m.row
    <2>1. n.row.id = n.id /\ m.row.id = m.id
      BY <1>0 DEF LogInv, MsgOK, Records
    <2> QED BY <1>0, <2>1 DEF LogInv
  <1>1. ASSUME m.kind = "request" PROVE m.row \in d.req
    <2>1. PICK r \in d.req : r.id = m.row.id
      BY <1>1 DEF Known, WithId
    <2>2. PICK n \in OfKind(M, "request") : r = n.row
      BY DEF Tables
    <2> QED BY <1>0, <2>1, <2>2 DEF OfKind, Records
  <1>2. ASSUME m.kind = "reply" PROVE m.row \in d.clar
    <2>1. PICK r \in d.clar : r.id = m.row.id
      BY <1>2 DEF Known, WithId
    <2>2. PICK n \in OfKind(M, "reply") : r = n.row
      BY DEF Tables
    <2> QED BY <1>0, <2>1, <2>2 DEF OfKind, Records
  <1>3. ASSUME m.kind = "sub" PROVE m.row \in d.sub
    <2>1. PICK r \in d.sub : r.id = m.row.id
      BY <1>3 DEF Known, WithId
    <2>2. PICK n \in OfKind(M, "sub") : r = n.row
      BY DEF Tables
    <2> QED BY <1>0, <2>1, <2>2 DEF OfKind, Records
  <1> QED BY <1>1, <1>2, <1>3 DEF HasRow

\* every new row comes with the message
LEMMA StepTables ==
    ASSUME NEW M, NEW d, Tables(M, d), NEW m \in M, MsgOK(m), NEW e, Step(d, e, m)
    PROVE  Tables(M, e)
  <1>1. DbOK(e) /\ Grown(d, e)
    BY StepGrows DEF Tables
  <1>2. \A a \in Accounts(e.user) :
            a \in Accounts(InitUsers) \/ \E n \in OfKind(M, "user") : a = Identity(n.row)
    <2>1. Accounts(e.user) = Accounts(d.user) \/ (m.kind = "user" /\ Accounts(e.user) = Accounts(d.user) \cup {Identity(m.row)})
      BY DEF Step
    <2>2. \A a \in Accounts(d.user) :
                a \in Accounts(InitUsers) \/ \E n \in OfKind(M, "user") : a = Identity(n.row)
      BY DEF Tables
    <2>3. m.kind = "user" => m \in OfKind(M, "user")
      BY DEF OfKind
    <2> QED BY ONLY <2>1, <2>2, <2>3, Zenon
  <1>3. \A r \in e.group : r \in InitGroups \/ \E n \in OfKind(M, "group") : r = n.row
    <2>1. e.group = d.group \/ (m.kind = "group" /\ e.group = d.group \cup {m.row})
      BY DEF Step
    <2>2. \A r \in d.group : r \in InitGroups \/ \E n \in OfKind(M, "group") : r = n.row
      BY DEF Tables
    <2>3. m.kind = "group" => m \in OfKind(M, "group")
      BY DEF OfKind
    <2> QED BY ONLY <2>1, <2>2, <2>3, Zenon
  <1>4. \A r \in e.req : \E n \in OfKind(M, "request") : r = n.row
    <2>1. e.req = d.req \/ (m.kind = "request" /\ e.req = d.req \cup {m.row})
      BY DEF Step
    <2>2. \A r \in d.req : \E n \in OfKind(M, "request") : r = n.row
      BY DEF Tables
    <2>3. m.kind = "request" => m \in OfKind(M, "request")
      BY DEF OfKind
    <2> QED BY ONLY <2>1, <2>2, <2>3, Zenon
  <1>5. \A r \in e.clar : \E n \in OfKind(M, "reply") : r = n.row
    <2>1. e.clar = d.clar \/ (m.kind = "reply" /\ e.clar = d.clar \cup {m.row})
      BY DEF Step
    <2>2. \A r \in d.clar : \E n \in OfKind(M, "reply") : r = n.row
      BY DEF Tables
    <2>3. m.kind = "reply" => m \in OfKind(M, "reply")
      BY DEF OfKind
    <2> QED BY ONLY <2>1, <2>2, <2>3, Zenon
  <1>6. \A r \in e.sub : \E n \in OfKind(M, "sub") : r = n.row
    <2>1. e.sub = d.sub \/ (m.kind = "sub" /\ e.sub = d.sub \cup {m.row})
      BY DEF Step
    <2>2. \A r \in d.sub : \E n \in OfKind(M, "sub") : r = n.row
      BY DEF Tables
    <2>3. m.kind = "sub" => m \in OfKind(M, "sub")
      BY DEF OfKind
    <2> QED BY ONLY <2>1, <2>2, <2>3, Zenon
  <1>7. Accounts(InitUsers) \subseteq Accounts(e.user) /\ InitGroups \subseteq e.group
    BY <1>1 DEF Tables, Grown
  <1> QED BY <1>1, <1>2, <1>3, <1>4, <1>5, <1>6, <1>7 DEF Tables

\* a row stays
LEMMA HasRowGrows ==
    ASSUME NEW d, NEW e, Grown(d, e), NEW m, HasRow(d, m)
    PROVE  HasRow(e, m)
  BY DEF Grown, HasRow

\* what a message left in the tables stays
LEMMA KeptGrows ==
    ASSUME NEW d, DbOK(d), NEW e, DbOK(e), Grown(d, e), NEW m, MsgOK(m), Kept(d, m)
    PROVE  Kept(e, m)
  <1>1. ASSUME m.kind = "prob"
        PROVE  m.prob \in DOMAIN e.prob /\ e.prob[m.prob].updated >= m.time
    <2>1. m.prob \in DOMAIN d.prob /\ d.prob[m.prob].updated >= m.time
      BY <1>1 DEF Kept
    <2>2. m.prob \in DOMAIN e.prob /\ e.prob[m.prob].updated >= d.prob[m.prob].updated
      BY <2>1 DEF Grown
    <2>3. d.prob[m.prob].updated \in 0 .. MaxTime /\ e.prob[m.prob].updated \in 0 .. MaxTime
      BY <2>1, <2>2 DEF DbOK, ProblemsOK, RowOK
    <2>4. m.time \in 1 .. MaxTime
      BY <1>1 DEF MsgOK, UpdateOK
    <2> QED BY ONLY <2>1, <2>2, <2>3, <2>4, ReplicasAssumption, SMT
  <1>2. m.kind \in Records => HasRow(e, m)
    BY HasRowGrows DEF Kept
  <1>3. m.kind = "user" => Identity(m.row) \in Accounts(e.user)
    BY DEF Kept, Grown
  <1>4. m.kind = "group" => m.row \in e.group
    BY DEF Kept, Grown
  <1>5. m.kind = "reply" => \E r \in e.req : r.id = m.row.req
    BY DEF Kept, Grown
  <1>6. m.kind = "sub" => /\ m.row.prob \in DOMAIN e.prob
                          /\ \E a \in Accounts(e.user) : a.id = m.row.user
    BY DEF Kept, Grown
  <1> QED BY <1>1, <1>2, <1>3, <1>4, <1>5, <1>6 DEF Kept

\* a user is known by id if one of the accounts has the id
LEMMA KnownUser ==
    ASSUME NEW U, NEW i
    PROVE  WithId(U, i) # {} <=> \E a \in Accounts(U) : a.id = i
  <1>1. \A u \in U : Identity(u).id = u.id
    BY DEF Identity
  <1>2. \A u \in U : Identity(u) \in Accounts(U)
    BY DEF Accounts
  <1>3. \A a \in Accounts(U) : \E u \in U : a = Identity(u)
    BY DEF Accounts
  <1>4. WithId(U, i) # {} <=> \E u \in U : u.id = i
    BY DEF WithId
  <1> QED BY <1>1, <1>2, <1>3, <1>4

\* a message that succeeds is in the tables
LEMMA DoneKept ==
    ASSUME NEW d, DbOK(d), NEW e, NEW m, MsgOK(m), Step(d, e, m), Done(d, e, m)
    PROVE  Kept(e, m)
  <1>1. ASSUME m.kind = "prob"
        PROVE  m.prob \in DOMAIN e.prob /\ e.prob[m.prob].updated >= m.time
    <2>0. m.time \in Nat /\ UpdateOK(m)
      BY <1>1, SMT DEF MsgOK, UpdateOK
    <2>1. CASE Discarded(d.prob, m) /\ e.prob = d.prob
      <3>1. ProblemRow(d.prob, m.prob).type # NoType /\ ProblemRow(d.prob, m.prob).updated > m.time
        BY <2>1 DEF Discarded
      <3>2. NewProblem.type = NoType
        BY DEF NewProblem
      <3>3. m.prob \in DOMAIN d.prob
        BY <3>1, <3>2 DEF ProblemRow
      <3>4. d.prob[m.prob].updated > m.time /\ d.prob[m.prob].updated \in 0 .. MaxTime
        BY <3>1, <3>3 DEF ProblemRow, DbOK, ProblemsOK, RowOK
      <3>5. d.prob[m.prob].updated >= m.time
        BY ONLY <2>0, <3>4, ReplicasAssumption, SMT
      <3> QED BY <2>1, <3>3, <3>5
    <2>2. CASE m.prob \in DOMAIN e.prob /\ WrittenBy(e.prob[m.prob], m)
      <3>1. e.prob[m.prob].updated = m.time
        BY <2>2 DEF WrittenBy
      <3>2. m.time >= m.time
        BY ONLY <2>0, SMT
      <3> QED BY <2>2, <3>1, <3>2
    <2> QED BY <1>1, <2>1, <2>2 DEF Done, ProbDone
  <1>2. m.kind = "reply" => \E r \in e.req : r.id = m.row.req
    BY DEF Done, Question, WithId
  <1>3. ASSUME m.kind = "sub"
        PROVE  m.row.prob \in DOMAIN e.prob /\ \E a \in Accounts(e.user) : a.id = m.row.user
    <2>1. WithId(e.user, m.row.user) # {} /\ shortname(e, m.row.prob) # NoValue
      BY <1>3 DEF Done
    <2>2. NewProblem.attrs["shortname"] = NoValue
      <3>1. NewProblem.attrs = [a \in Attrs |-> NoValue]
        BY DEF NewProblem
      <3> QED BY <3>1, ProblemsAssumption
    <2>3. m.row.prob \in DOMAIN e.prob
      BY <2>1, <2>2 DEF shortname, ProblemRow
    <2> QED BY <2>1, <2>3, KnownUser
  <1> QED BY <1>1, <1>2, <1>3 DEF Kept, Done

\* a message that is tried and not marked leaves the problems as they were, or
\* its own problem to be tried again
LEMMA VersionsTry ==
    ASSUME NEW d, DbOK(d), NEW e, NEW m, MsgOK(m), Step(d, e, m),
           NEW dn, NEW st, Versions(d, dn, st)
    PROVE  Versions(e, dn, st \cup {m})
  <1>1. CASE e.prob = d.prob
    BY <1>1 DEF Versions, Newest
  <1>2. CASE e.prob # d.prob
    <2>1. m.kind = "prob" /\ UpdateOK(m) /\ ProbStep(d.prob, e.prob, m) /\ ProblemsOK(d.prob)
      BY <1>2, StepProblems DEF DbOK
    <2>2. m.time >= e.prob[m.prob].updated
      BY <1>2, <2>1, TimesGrow
    <2>3. /\ DOMAIN e.prob = DOMAIN d.prob \cup {m.prob}
          /\ \A p \in DOMAIN d.prob \ {m.prob} : e.prob[p] = d.prob[p]
      BY <1>2, <2>1 DEF ProbStep
    <2>4. ASSUME NEW p \in DOMAIN e.prob PROVE Newest(e.prob[p], p, dn, st \cup {m})
      <3>1. CASE p = m.prob
        BY <2>1, <2>2, <3>1 DEF Newest
      <3>2. CASE p # m.prob
        <4>1. p \in DOMAIN d.prob /\ e.prob[p] = d.prob[p]
          BY <2>3, <3>2
        <4>2. Newest(d.prob[p], p, dn, st)
          BY <4>1 DEF Versions
        <4> QED BY <4>1, <4>2 DEF Newest
      <3> QED BY <3>1, <3>2
    <2> QED BY <2>4 DEF Versions
  <1> QED BY <1>1, <1>2

\* a message that is marked leaves its problem as it describes it, unless the
\* problem is newer
LEMMA VersionsDone ==
    ASSUME NEW d, DbOK(d), NEW e, NEW m, MsgOK(m), Step(d, e, m), Done(d, e, m),
           NEW dn, NEW st, Versions(d, dn, st)
    PROVE  Versions(e, dn \cup {m}, st \ {m})
  <1>1. ASSUME NEW p \in DOMAIN d.prob, e.prob[p] = d.prob[p],
               ~(m.kind = "prob" /\ m.prob = p) \/ ~(m.time >= d.prob[p].updated)
        PROVE  Newest(e.prob[p], p, dn \cup {m}, st \ {m})
    <2>1. Newest(d.prob[p], p, dn, st)
      BY DEF Versions
    <2>2. CASE \E n \in st : n.kind = "prob" /\ n.prob = p /\ n.time >= d.prob[p].updated
      BY <1>1, <2>2 DEF Newest
    <2>3. CASE \E n \in dn \cup st : n.kind = "prob" /\ n.prob = p /\ WrittenBy(d.prob[p], n)
      BY <1>1, <2>3 DEF Newest
    <2> QED BY <2>1, <2>2, <2>3 DEF Newest
  <1>2. CASE m.kind # "prob"
    <2>1. e.prob = d.prob
      BY <1>2 DEF Step
    <2> QED BY <1>1, <1>2, <2>1 DEF Versions
  <1>3. CASE m.kind = "prob"
    <2>0. UpdateOK(m) /\ ProblemsOK(d.prob)
      BY <1>3 DEF MsgOK, DbOK
    <2>1. CASE Discarded(d.prob, m) /\ e.prob = d.prob
      <3>1. ASSUME NEW p \in DOMAIN d.prob, p = m.prob PROVE ~(m.time >= d.prob[p].updated)
        <4>1. d.prob[p].updated > m.time
          BY <2>1, <3>1 DEF Discarded, ProblemRow
        <4>2. d.prob[p].updated \in 0 .. MaxTime /\ m.time \in 1 .. MaxTime
          BY <2>0 DEF ProblemsOK, RowOK, UpdateOK
        <4> QED BY ONLY <4>1, <4>2, ReplicasAssumption, SMT
      <3>2. ASSUME NEW p \in DOMAIN e.prob PROVE Newest(e.prob[p], p, dn \cup {m}, st \ {m})
        <4>1. p \in DOMAIN d.prob /\ e.prob[p] = d.prob[p]
          BY <2>1
        <4>2. CASE p = m.prob
          BY <1>1, <3>1, <4>1, <4>2
        <4>3. CASE p # m.prob
          BY <1>1, <4>1, <4>3
        <4> QED BY <4>2, <4>3
      <3> QED BY <3>2 DEF Versions
    <2>2. CASE /\ ProbStep(d.prob, e.prob, m)
               /\ m.prob \in DOMAIN e.prob /\ WrittenBy(e.prob[m.prob], m)
      <3>1. /\ DOMAIN e.prob \subseteq DOMAIN d.prob \cup {m.prob}
            /\ \A p \in DOMAIN d.prob \ {m.prob} : e.prob[p] = d.prob[p]
        BY <2>2 DEF ProbStep
      <3>2. Newest(e.prob[m.prob], m.prob, dn \cup {m}, st \ {m})
        BY <1>3, <2>2 DEF Newest
      <3>3. ASSUME NEW p \in DOMAIN e.prob PROVE Newest(e.prob[p], p, dn \cup {m}, st \ {m})
        <4>1. CASE p = m.prob
          BY <3>2, <4>1
        <4>2. CASE p # m.prob
          <5>1. p \in DOMAIN d.prob /\ e.prob[p] = d.prob[p]
            BY <3>1, <4>2
          <5> QED BY <1>1, <4>2, <5>1
        <4> QED BY <4>1, <4>2
      <3> QED BY <3>3 DEF Versions
    <2> QED BY <1>3, <2>1, <2>2 DEF Done, ProbDone
  <1> QED BY <1>2, <1>3

\* The announcements after message m was announced or not
Announced(td, m, tells) ==
    IF tells THEN Put(td, m, 1 + (IF m \in DOMAIN td THEN td[m] ELSE 0)) ELSE td

\* What makes int_process announce m
MayTell(d, e, m, tells) == tells => m.kind \in Records /\ ~HasRow(d, m) /\ HasRow(e, m)

\* a message is announced only when its row is new
LEMMA TellsStep ==
    ASSUME NEW d, NEW e, Grown(d, e), NEW m, NEW td, Tells(d, td),
           NEW tells, MayTell(d, e, m, tells)
    PROVE  /\ Tells(e, Announced(td, m, tells))
           /\ DOMAIN Announced(td, m, tells) \subseteq DOMAIN td \cup {m}
  <1>1. CASE ~tells
    <2>1. Announced(td, m, tells) = td
      BY <1>1 DEF Announced
    <2>2. Tells(e, td)
      BY HasRowGrows DEF Tells
    <2> QED BY <2>1, <2>2
  <1>2. CASE tells
    <2>1. m.kind \in Records /\ ~HasRow(d, m) /\ HasRow(e, m)
      BY <1>2 DEF MayTell
    <2>2. m \notin DOMAIN td
      BY <2>1 DEF Tells
    <2>3. 1 + 0 = 1
      BY SMT
    <2>4. Announced(td, m, tells) = Put(td, m, 1)
      BY <1>2, <2>2, <2>3 DEF Announced
    <2>5. /\ DOMAIN Put(td, m, 1) = DOMAIN td \cup {m}
          /\ Put(td, m, 1)[m] = 1
          /\ \A n \in DOMAIN td : n # m => Put(td, m, 1)[n] = td[n]
      BY DEF Put
    <2>6. Tells(e, Put(td, m, 1))
      BY <2>1, <2>5, HasRowGrows DEF Tells
    <2> QED BY <2>4, <2>5, <2>6
  <1> QED BY <1>1, <1>2

-----------------------------------------------------------------------------
(* The invariant of a server when it takes a message, stops or starts.     *)

\* What a server keeps of its tables, whatever becomes of the message
Survives(M, e, dn, fl, td, f) ==
    /\ Tables(M, e) /\ Stores(e, dn) /\ Tries(e, fl, f)
    /\ Tells(e, td) /\ DOMAIN td \subseteq M

\* whatever becomes of the message: what was there stays
LEMMA ServerTries ==
    ASSUME NEW M, LogInv(M), NEW d, NEW dn, NEW fl, NEW tn, NEW td, NEW f,
           ServerInv(M, d, dn, fl, tn, td, f),
           NEW m \in M, NEW e, Step(d, e, m), NEW tells, MayTell(d, e, m, tells)
    PROVE  Survives(M, e, dn, fl, Announced(td, m, tells), f)
  <1>1. /\ Sets(M, dn, fl, tn, td) /\ Tables(M, d) /\ Stores(d, dn)
        /\ Tries(d, fl, f) /\ Tells(d, td)
    BY DEF ServerInv
  <1>2. DbOK(d) /\ MsgOK(m)
    BY <1>1 DEF Tables, LogInv
  <1>3. Grown(d, e) /\ DbOK(e)
    BY <1>2, StepGrows
  <1>4. Tables(M, e)
    BY <1>1, <1>2, StepTables
  <1>5. Stores(e, dn)
    <2>1. ASSUME NEW n \in dn PROVE Kept(e, n)
      <3>1. MsgOK(n) /\ Kept(d, n)
        BY <1>1 DEF Sets, LogInv, Stores
      <3> QED BY <1>2, <1>3, <3>1, KeptGrows
    <2> QED BY <2>1 DEF Stores
  <1>6. Tries(e, fl, f)
    BY <1>1, <1>3, HasRowGrows DEF Tries
  <1>7. /\ Tells(e, Announced(td, m, tells))
        /\ DOMAIN Announced(td, m, tells) \subseteq DOMAIN td \cup {m}
    BY ONLY <1>1, <1>3, MayTell(d, e, m, tells), TellsStep, Zenon
  <1>8. DOMAIN td \subseteq M
    BY <1>1 DEF Sets
  <1> QED BY <1>4, <1>5, <1>6, <1>7, <1>8 DEF Survives

\* the message is marked as processed
LEMMA ServerDone ==
    ASSUME NEW M, LogInv(M), NEW d, NEW dn, NEW fl, NEW tn, NEW td, NEW f,
           ServerInv(M, d, dn, fl, tn, td, f),
           NEW m \in M, m \notin fl, NEW e, Step(d, e, m), Done(d, e, m),
           NEW tells, MayTell(d, e, m, tells)
    PROVE  ServerInv(M, e, dn \cup {m}, fl, tn \ {m}, Announced(td, m, tells), f)
  <1>1. /\ Sets(M, dn, fl, tn, td) /\ Versions(d, dn, fl \cup tn)
        /\ DbOK(d) /\ MsgOK(m)
    BY DEF ServerInv, Tables, LogInv
  <1>0. Survives(M, e, dn, fl, Announced(td, m, tells), f)
    BY ServerTries
  <1>2. /\ Tables(M, e) /\ Stores(e, dn) /\ Tries(e, fl, f)
        /\ Tells(e, Announced(td, m, tells)) /\ DOMAIN Announced(td, m, tells) \subseteq M
    BY <1>0 DEF Survives
  <1>3. Sets(M, dn \cup {m}, fl, tn \ {m}, Announced(td, m, tells))
    BY <1>1, <1>2 DEF Sets
  <1>4. Stores(e, dn \cup {m})
    BY <1>1, <1>2, DoneKept DEF Stores
  <1>5. Versions(e, dn \cup {m}, (fl \cup tn) \ {m})
    BY <1>1, VersionsDone
  <1>6. (fl \cup tn) \ {m} = fl \cup (tn \ {m})
    OBVIOUS
  <1> QED BY <1>2, <1>3, <1>4, <1>5, <1>6 DEF ServerInv

\* the message fails
LEMMA ServerFails ==
    ASSUME NEW M, LogInv(M), NEW d, NEW dn, NEW fl, NEW tn, NEW td, NEW f,
           ServerInv(M, d, dn, fl, tn, td, f),
           NEW m \in M, m \notin dn, NEW e, Step(d, e, m),
           NEW tells, MayTell(d, e, m, tells),
           NEW g, g = 0 => f = 0 /\ (m.kind \in Records => HasRow(e, m))
    PROVE  ServerInv(M, e, dn, fl \cup {m}, tn \ {m}, Announced(td, m, tells), g)
  <1>1. /\ Sets(M, dn, fl, tn, td) /\ Versions(d, dn, fl \cup tn)
        /\ DbOK(d) /\ MsgOK(m)
    BY DEF ServerInv, Tables, LogInv
  <1>0. Survives(M, e, dn, fl, Announced(td, m, tells), f)
    BY ServerTries
  <1>2. /\ Tables(M, e) /\ Stores(e, dn) /\ Tries(e, fl, f)
        /\ Tells(e, Announced(td, m, tells)) /\ DOMAIN Announced(td, m, tells) \subseteq M
    BY <1>0 DEF Survives
  <1>3. Sets(M, dn, fl \cup {m}, tn \ {m}, Announced(td, m, tells))
    BY <1>1, <1>2 DEF Sets
  <1>4. Versions(e, dn, (fl \cup tn) \cup {m})
    BY <1>1, VersionsTry
  <1>5. (fl \cup tn) \cup {m} = (fl \cup {m}) \cup (tn \ {m})
    OBVIOUS
  <1>6. Tries(e, fl \cup {m}, g)
    BY <1>2 DEF Tries
  <1> QED BY <1>2, <1>3, <1>4, <1>5, <1>6 DEF ServerInv

\* the server stops in the course of the message and starts again
LEMMA ServerStops ==
    ASSUME NEW M, LogInv(M), NEW d, NEW dn, NEW fl, NEW tn, NEW td, NEW f,
           ServerInv(M, d, dn, fl, tn, td, f),
           NEW m \in M, m \notin dn, NEW e, Step(d, e, m),
           NEW tells, MayTell(d, e, m, tells)
    PROVE  ServerInv(M, e, dn, {}, tn \cup fl \cup {m}, Announced(td, m, tells), f)
  <1>1. /\ Sets(M, dn, fl, tn, td) /\ Versions(d, dn, fl \cup tn)
        /\ DbOK(d) /\ MsgOK(m)
    BY DEF ServerInv, Tables, LogInv
  <1>0. Survives(M, e, dn, fl, Announced(td, m, tells), f)
    BY ServerTries
  <1>2. /\ Tables(M, e) /\ Stores(e, dn)
        /\ Tells(e, Announced(td, m, tells)) /\ DOMAIN Announced(td, m, tells) \subseteq M
    BY <1>0 DEF Survives
  <1>3. Sets(M, dn, {}, tn \cup fl \cup {m}, Announced(td, m, tells))
    BY <1>1, <1>2 DEF Sets
  <1>4. Versions(e, dn, (fl \cup tn) \cup {m})
    BY <1>1, VersionsTry
  <1>5. (fl \cup tn) \cup {m} = {} \cup (tn \cup fl \cup {m})
    OBVIOUS
  <1>6. Tries(e, {}, f)
    BY DEF Tries
  <1> QED BY <1>2, <1>3, <1>4, <1>5, <1>6 DEF ServerInv

\* the server stops between two messages and starts again
LEMMA ServerRestarts ==
    ASSUME NEW M, NEW d, NEW dn, NEW fl, NEW tn, NEW td, NEW f,
           ServerInv(M, d, dn, fl, tn, td, f)
    PROVE  ServerInv(M, d, dn, {}, tn \cup fl \cup {}, td, f)
  <1>1. Sets(M, dn, {}, tn \cup fl \cup {}, td)
    BY DEF ServerInv, Sets
  <1>2. fl \cup tn = {} \cup (tn \cup fl \cup {})
    OBVIOUS
  <1>3. Tries(d, {}, f)
    BY DEF Tries
  <1> QED BY <1>1, <1>2, <1>3 DEF ServerInv

\* other servers make messages, and statements of other servers fail
LEMMA ServerStays ==
    ASSUME NEW M, NEW d, NEW dn, NEW fl, NEW tn, NEW td, NEW f,
           ServerInv(M, d, dn, fl, tn, td, f),
           NEW N, M \subseteq N, NEW g, g = 0 => f = 0
    PROVE  ServerInv(N, d, dn, fl, tn, td, g)
  <1>1. Sets(N, dn, fl, tn, td)
    BY DEF ServerInv, Sets
  <1>2. Tables(M, d)
    BY DEF ServerInv
  <1>3. \A k : OfKind(M, k) \subseteq OfKind(N, k)
    BY DEF OfKind
  <1>4. Tables(N, d)
    BY <1>2, <1>3 DEF Tables
  <1>5. Tries(d, fl, g)
    BY DEF ServerInv, Tries
  <1> QED BY <1>1, <1>4, <1>5 DEF ServerInv

-----------------------------------------------------------------------------
(* Every action preserves the invariant.                                   *)

\* g is f except at server s
Changed(f, g, s, x) ==
    /\ DOMAIN g = Servers /\ g[s] = x
    /\ \A t \in Servers \ {s} : g[t] = f[t]

\* an assignment to the part of one server
LEMMA AssignOne ==
    ASSUME NEW f, DOMAIN f = Servers, NEW s \in Servers, NEW x
    PROVE  Changed(f, [f EXCEPT ![s] = x], s, x)
  BY DEF Changed

\* An assignment that changes nothing
LEMMA AssignNone ==
    ASSUME NEW f, DOMAIN f = Servers, NEW s \in Servers
    PROVE  Changed(f, f, s, f[s])
  BY DEF Changed

\* one server changes what is its own, and perhaps a statement fails
LEMMA OneServer ==
    ASSUME ReplicasInv, NEW s \in Servers, NEW d, NEW dn, NEW fl, NEW tn, NEW td,
           ServerInv(msgs, d, dn, fl, tn, td, faults'),
           Changed(db, db', s, d), Changed(done, done', s, dn), Changed(failed, failed', s, fl),
           Changed(torn, torn', s, tn), Changed(told, told', s, td),
           msgs' = msgs, clock' = clock, restarts' \in Nat, faults' \in Nat,
           faults' = 0 => faults = 0
    PROVE  ReplicasInv'
  <1>1. ASSUME NEW t \in Servers
        PROVE  ServerInv(msgs, db'[t], done'[t], failed'[t], torn'[t], told'[t], faults')
    <2>1. CASE t = s
      BY <2>1 DEF Changed
    <2>2. CASE t # s
      <3>1. /\ db'[t] = db[t] /\ done'[t] = done[t] /\ failed'[t] = failed[t]
            /\ torn'[t] = torn[t] /\ told'[t] = told[t]
        BY <2>2 DEF Changed
      <3>2. ServerInv(msgs, db[t], done[t], failed[t], torn[t], told[t], faults)
        BY DEF ReplicasInv
      <3>3. ServerInv(msgs, db[t], done[t], failed[t], torn[t], told[t], faults')
        BY ONLY <3>2, faults' = 0 => faults = 0, ServerStays, Zenon
      <3> QED BY <3>1, <3>3
    <2> QED BY <2>1, <2>2
  <1>2. /\ DOMAIN db' = Servers /\ DOMAIN done' = Servers /\ DOMAIN failed' = Servers
        /\ DOMAIN torn' = Servers /\ DOMAIN told' = Servers
    BY DEF Changed
  <1>3. LogInv(msgs') /\ clock' \in 1 .. MaxTime
    BY DEF ReplicasInv
  <1>4. \A t \in Servers : ServerInv(msgs', db'[t], done'[t], failed'[t], torn'[t], told'[t], faults')
    BY <1>1
  <1> QED BY <1>2, <1>3, <1>4 DEF ReplicasInv

\* what the tables and the announcements become
LEMMA EffectChanges ==
    ASSUME ReplicasInv, NEW s \in Servers, NEW d, NEW tells, NEW m, Effect(s, d, tells, m)
    PROVE  Changed(db, db', s, d) /\ Changed(told, told', s, Announced(told[s], m, tells))
  <1>1. DOMAIN db = Servers /\ DOMAIN told = Servers
    BY DEF ReplicasInv
  <1>2. Changed(db, db', s, d)
    BY <1>1, AssignOne DEF Effect
  <1>3. CASE tells
    <2>1. Announced(told[s], m, tells) = Put(told[s], m, 1 + Told(s, m))
      BY <1>3 DEF Announced, Told
    <2>2. told' = [told EXCEPT ![s] = Put(told[s], m, 1 + Told(s, m))]
      BY <1>3 DEF Effect
    <2> QED BY <1>1, <1>2, <2>1, <2>2, AssignOne
  <1>4. CASE ~tells
    <2>1. Announced(told[s], m, tells) = told[s] /\ told' = told
      BY <1>4 DEF Announced, Effect
    <2> QED BY <1>1, <1>2, <2>1, AssignNone
  <1> QED BY <1>3, <1>4

\* Message::process
LEMMA ProcessInv ==
    ASSUME ReplicasInv, NEW s \in Servers, NEW m \in Waiting(s), NEW out,
           Good(db[s], m, out), Process(s, m, out),
           faults' \in Nat, faults' = 0 => faults = 0 /\ Tried(db[s], m, out)
    PROVE  ReplicasInv'
  <1> DEFINE d == db[s]
             e == out.steps[Len(out.steps)]
             td == Announced(told[s], m, out.tells)
  <1>1. /\ LogInv(msgs) /\ ServerInv(msgs, d, done[s], failed[s], torn[s], told[s], faults)
        /\ DOMAIN done = Servers /\ DOMAIN failed = Servers /\ DOMAIN torn = Servers
    BY DEF ReplicasInv
  <1>2. m \in msgs /\ m \notin done[s] /\ m \notin failed[s]
    BY DEF Waiting
  <1>3. Len(out.steps) \in Nat \ {0}
    BY DEF Good
  <1>4. Len(out.steps) \in 1 .. Len(out.steps)
    BY <1>3, SMT
  <1>5. Step(d, e, m) /\ MayTell(d, e, m, out.tells) /\ (out.ok => Done(d, e, m))
    BY <1>4 DEF Good, MayTell
  <1>6. Changed(db, db', s, e) /\ Changed(told, told', s, td)
    BY EffectChanges DEF Process
  <1>7. Changed(torn, torn', s, torn[s] \ {m}) /\ msgs' = msgs /\ clock' = clock /\ restarts' \in Nat
    BY <1>1, AssignOne DEF Process, ReplicasInv
  <1>8. faults' = 0 => faults = 0
    OBVIOUS
  <1>9. faults' = 0 => faults = 0 /\ (m.kind \in Records => HasRow(e, m))
    <2>1. ASSUME faults' = 0, m.kind \in Records PROVE HasRow(e, m)
      <3>1. CASE Known(d, m)
        <4>1. Tables(msgs, d)
          BY <1>1 DEF ServerInv
        <4>2. HasRow(d, m)
          BY <1>1, <1>2, <2>1, <3>1, <4>1, KnownHasRow
        <4>3. DbOK(d) /\ MsgOK(m)
          BY <1>1, <1>2, <4>1 DEF Tables, LogInv
        <4>4. Grown(d, e)
          BY <1>5, <4>3, StepGrows
        <4> QED BY ONLY <4>2, <4>4, HasRowGrows, Zenon
      <3> QED BY <2>1, <3>1 DEF Tried
    <2> QED BY <2>1
  <1> HIDE DEF d, e, td
  <1>10. CASE out.ok
    <2>1. Changed(done, done', s, done[s] \cup {m}) /\ Changed(failed, failed', s, failed[s])
      BY <1>1, <1>10, AssignOne DEF Process
    <2>2. ServerInv(msgs, e, done[s] \cup {m}, failed[s], torn[s] \ {m}, td, faults)
      BY <1>1, <1>2, <1>5, <1>10, ServerDone DEF td
    <2>3. ServerInv(msgs, e, done[s] \cup {m}, failed[s], torn[s] \ {m}, td, faults')
      BY ONLY <1>8, <2>2, ServerStays, Zenon
    <2> QED BY ONLY ReplicasInv, s \in Servers, faults' \in Nat, <1>6, <1>7, <1>8, <2>1, <2>3, OneServer, Zenon
  <1>11. CASE ~out.ok
    <2>1. Changed(done, done', s, done[s]) /\ Changed(failed, failed', s, failed[s] \cup {m})
      BY <1>1, <1>11, AssignOne DEF Process
    <2>2. ServerInv(msgs, e, done[s], failed[s] \cup {m}, torn[s] \ {m}, td, faults')
      BY <1>1, <1>2, <1>5, <1>9, ServerFails DEF td
    <2> QED BY ONLY ReplicasInv, s \in Servers, faults' \in Nat, <1>6, <1>7, <1>8, <2>1, <2>2, OneServer, Zenon
  <1> QED BY <1>10, <1>11

\* one statement of an update fails, or none: ProcessFaulty, ProcessMessage
LEMMA HandlerInv ==
    ASSUME ReplicasInv, NEW s \in Servers,
           ProcessMessage(s) \/ ProcessFaulty(s) \/ ProcessNothing(s)
    PROVE  ReplicasInv'
  <1>0. /\ faults \in Nat /\ LogInv(msgs) /\ DbOK(db[s])
    BY DEF ReplicasInv, ServerInv, Tables
  <1>1. ASSUME NEW m \in Waiting(s)
        PROVE  /\ \A f : Good(db[s], m, int_process(db[s], m, f)) /\ Tried(db[s], m, int_process(db[s], m, f))
               /\ Good(db[s], m, Refused(db[s]))
    <2>1. MsgOK(m)
      BY <1>0 DEF Waiting, LogInv
    <2> QED BY <1>0, <2>1, IntProcessGood, RefusedGood
  <1>2. faults + 1 \in Nat /\ faults + 1 # 0
    BY <1>0, SMT
  <1>3. CASE ProcessMessage(s)
    <2>1. PICK m \in Waiting(s) : Process(s, m, int_process(db[s], m, NoFault)) /\ UNCHANGED faults
      BY <1>3 DEF ProcessMessage
    <2>2. faults' \in Nat /\ (faults' = 0 => faults = 0 /\ Tried(db[s], m, int_process(db[s], m, NoFault)))
      BY <1>0, <1>1, <2>1
    <2> QED BY <1>1, <2>1, <2>2, ProcessInv
  <1>4. CASE ProcessFaulty(s)
    <2>1. PICK m \in Waiting(s) : /\ \E f \in Faults(m) : Process(s, m, int_process(db[s], m, f))
                                  /\ faults' = faults + 1
      BY <1>4 DEF ProcessFaulty
    <2>2. PICK f \in Faults(m) : Process(s, m, int_process(db[s], m, f))
      BY <2>1
    <2>3. faults' \in Nat /\ (faults' = 0 => faults = 0 /\ Tried(db[s], m, int_process(db[s], m, f)))
      BY <1>2, <2>1
    <2> QED BY <1>1, <2>2, <2>3, ProcessInv
  <1>5. CASE ProcessNothing(s)
    <2>1. PICK m \in Waiting(s) : Process(s, m, Refused(db[s])) /\ faults' = faults + 1
      BY <1>5 DEF ProcessNothing
    <2>2. faults' \in Nat /\ (faults' = 0 => faults = 0 /\ Tried(db[s], m, Refused(db[s])))
      BY <1>2, <2>1
    <2> QED BY <1>1, <2>1, <2>2, ProcessInv
  <1> QED BY <1>3, <1>4, <1>5

\* a server that stops in the course of a message
LEMMA StopInv ==
    ASSUME ReplicasInv, NEW s \in Servers, NEW m \in Waiting(s), NEW e, Step(db[s], e, m),
           NEW tells, MayTell(db[s], e, m, tells), Effect(s, e, tells, m), Reload(s, {m})
    PROVE  ReplicasInv'
  <1> DEFINE td == Announced(told[s], m, tells)
  <1>1. /\ LogInv(msgs) /\ ServerInv(msgs, db[s], done[s], failed[s], torn[s], told[s], faults)
        /\ DOMAIN done = Servers /\ DOMAIN failed = Servers /\ DOMAIN torn = Servers
        /\ restarts \in Nat
    BY DEF ReplicasInv
  <1>2. m \in msgs /\ m \notin done[s]
    BY DEF Waiting
  <1>3. Changed(db, db', s, e) /\ Changed(told, told', s, td)
    BY EffectChanges
  <1>4. restarts + 1 \in Nat
    BY <1>1, SMT
  <1>5. /\ Changed(torn, torn', s, torn[s] \cup failed[s] \cup {m}) /\ Changed(failed, failed', s, {})
        /\ Changed(done, done', s, done[s]) /\ msgs' = msgs /\ clock' = clock
    BY <1>1, AssignOne, AssignNone DEF Reload
  <1>6. restarts' \in Nat /\ faults' \in Nat /\ faults' = faults
    BY <1>4 DEF Reload, ReplicasInv
  <1> HIDE DEF td
  <1>7. ServerInv(msgs, e, done[s], {}, torn[s] \cup failed[s] \cup {m}, td, faults')
    BY <1>1, <1>2, <1>6, ServerStops DEF td
  <1> QED BY ONLY ReplicasInv, s \in Servers, <1>3, <1>5, <1>6, <1>7, OneServer, Zenon

\* Crash and ProcessDies
LEMMA CrashInv ==
    ASSUME ReplicasInv, NEW s \in Servers, Crash(s) \/ ProcessDies(s)
    PROVE  ReplicasInv'
  <1>0. LogInv(msgs) /\ DbOK(db[s])
    BY DEF ReplicasInv, ServerInv, Tables
  <1>1. ASSUME NEW m \in Waiting(s)
        PROVE  Good(db[s], m, int_process(db[s], m, NoFault))
    <2>1. MsgOK(m)
      BY <1>0 DEF Waiting, LogInv
    <2> QED BY <1>0, <2>1, IntProcessGood
  <1>2. CASE Crash(s)
    <2>1. PICK m \in Waiting(s) : CrashIn(s, m, int_process(db[s], m, NoFault))
      BY <1>2 DEF Crash
    <2> DEFINE out == int_process(db[s], m, NoFault)
    <2>2. Good(db[s], m, out)
      BY <1>1
    <2> HIDE DEF out
    <2>3. PICK k \in 1 .. Len(out.steps), tells \in {FALSE, out.tells} :
                  /\ tells => k = Len(out.steps)
                  /\ Effect(s, out.steps[k], tells, m)
                  /\ Reload(s, {m})
      BY <2>1 DEF CrashIn, out
    <2>4. Step(db[s], out.steps[k], m)
      BY <2>2 DEF Good
    <2>5. MayTell(db[s], out.steps[k], m, tells)
      BY <2>2, <2>3 DEF Good, MayTell
    <2> QED BY <2>3, <2>4, <2>5, StopInv
  <1>3. CASE ProcessDies(s)
    <2>1. PICK m \in Waiting(s) : \E out \in {int_process(db[s], m, NoFault)} :
              /\ out.dies
              /\ Effect(s, out.steps[Len(out.steps)], FALSE, m)
              /\ Reload(s, {m})
      BY <1>3 DEF ProcessDies
    <2> DEFINE out == int_process(db[s], m, NoFault)
    <2>2. Good(db[s], m, out)
      BY <1>1
    <2>3. Effect(s, out.steps[Len(out.steps)], FALSE, m) /\ Reload(s, {m})
      BY <2>1
    <2> HIDE DEF out
    <2>4. Len(out.steps) \in Nat \ {0}
      BY <2>2 DEF Good
    <2>5. Len(out.steps) \in 1 .. Len(out.steps)
      BY <2>4, SMT
    <2>6. Step(db[s], out.steps[Len(out.steps)], m)
      BY <2>2, <2>5 DEF Good
    <2>7. MayTell(db[s], out.steps[Len(out.steps)], m, FALSE)
      BY DEF MayTell
    <2> QED BY <2>3, <2>6, <2>7, StopInv
  <1> QED BY <1>2, <1>3

\* Restart and GetClarificationsDies
LEMMA RestartInv ==
    ASSUME ReplicasInv, NEW s \in Servers, Reload(s, {}), UNCHANGED <<db, told>>
    PROVE  ReplicasInv'
  <1>1. /\ ServerInv(msgs, db[s], done[s], failed[s], torn[s], told[s], faults)
        /\ DOMAIN done = Servers /\ DOMAIN failed = Servers /\ DOMAIN torn = Servers
        /\ DOMAIN db = Servers /\ DOMAIN told = Servers /\ restarts \in Nat
    BY DEF ReplicasInv
  <1>2. restarts + 1 \in Nat
    BY <1>1, SMT
  <1>3. /\ Changed(torn, torn', s, torn[s] \cup failed[s] \cup {}) /\ Changed(failed, failed', s, {})
        /\ Changed(done, done', s, done[s]) /\ msgs' = msgs /\ clock' = clock
    BY <1>1, AssignOne, AssignNone DEF Reload
  <1>4. restarts' \in Nat /\ faults' \in Nat /\ faults' = faults
    BY <1>2 DEF Reload, ReplicasInv
  <1>5. Changed(db, db', s, db[s]) /\ Changed(told, told', s, told[s])
    BY <1>1, AssignNone
  <1>6. ServerInv(msgs, db[s], done[s], {}, torn[s] \cup failed[s] \cup {}, told[s], faults')
    BY <1>1, <1>4, ServerRestarts
  <1> QED BY ONLY ReplicasInv, s \in Servers, <1>3, <1>4, <1>5, <1>6, OneServer, Zenon

-----------------------------------------------------------------------------
(* Making a message.                                                       *)

\* the messages with one kind of ids are counted by a number
LEMMA CountedFacts ==
    ASSUME NEW M, IsFiniteSet(M), NEW i
    PROVE  IsFiniteSet(Counted(M, i)) /\ Cardinality(Counted(M, i)) \in Nat
  <1>1. Counted(M, i) \in SUBSET M
    BY DEF Counted
  <1>2. IsFiniteSet(Counted(M, i))
    BY <1>1, FS_Subset
  <1> QED BY <1>2, FS_CardinalityType

\* a message with the next id keeps the ids unique
LEMMA LogGrows ==
    ASSUME NEW M, LogInv(M), NEW m, MsgOK(m), m.id[3] = Cardinality(Counted(M, m.id))
    PROVE  LogInv(M \cup {m})
  <1> DEFINE N == M \cup {m}
  <1>0. IsFiniteSet(M) /\ \A n \in M : MsgOK(n) /\ n.id[3] < Cardinality(Counted(M, n.id))
    BY DEF LogInv
  <1>1. \A n \in N : MsgOK(n) /\ n.id[3] \in Nat
    <2>1. \A n \in N : MsgOK(n)
      BY <1>0
    <2>2. \A i \in Ids : i[3] \in Nat
      BY SMT DEF Ids
    <2> QED BY <2>1, <2>2 DEF MsgOK
  <1>2. IsFiniteSet(N)
    BY <1>0, FS_AddElement
  <1>3. \A i : /\ IsFiniteSet(Counted(M, i)) /\ Cardinality(Counted(M, i)) \in Nat
               /\ IsFiniteSet(Counted(N, i)) /\ Cardinality(Counted(N, i)) \in Nat
    BY <1>0, <1>2, CountedFacts
  <1>4. \A n \in M : n.id # m.id
    <2>1. ASSUME NEW n \in M, n.id = m.id PROVE FALSE
      <3>1. n.id[3] < Cardinality(Counted(M, n.id)) /\ n.id[3] = Cardinality(Counted(M, n.id))
        BY <1>0, <2>1
      <3>2. n.id[3] \in Nat
        BY <1>1
      <3> QED BY ONLY <3>1, <3>2, SMT
    <2> QED BY <2>1
  <1>5. m \notin M
    BY <1>4
  <1>6. ASSUME NEW n \in N PROVE n.id[3] < Cardinality(Counted(N, n.id))
    <2>0. n.id[3] \in Nat /\ Cardinality(Counted(M, n.id)) \in Nat
      BY <1>1, <1>3
    <2>1. CASE m.id[1] = n.id[1] /\ m.id[2] = n.id[2]
      <3>1. /\ Counted(N, n.id) = Counted(M, n.id) \cup {m} /\ m \notin Counted(M, n.id)
            /\ Counted(M, m.id) = Counted(M, n.id)
        BY <1>5, <2>1 DEF Counted
      <3> HIDE DEF N
      <3>2. Cardinality(Counted(N, n.id)) = Cardinality(Counted(M, n.id)) + 1
        <4>1. IsFiniteSet(Counted(M, n.id))
          BY <1>3
        <4> QED BY ONLY <3>1, <4>1, FS_AddElement, Zenon
      <3>3. n.id[3] <= Cardinality(Counted(M, n.id))
        <4>1. CASE n = m
          BY ONLY <2>0, <3>1, <4>1, m.id[3] = Cardinality(Counted(M, m.id)), SMT
        <4>2. CASE n \in M
          <5>1. n.id[3] < Cardinality(Counted(M, n.id))
            BY <1>0, <4>2
          <5> QED BY ONLY <2>0, <5>1, SMT
        <4> QED BY <4>1, <4>2 DEF N
      <3> QED BY ONLY <2>0, <3>2, <3>3, SMT
    <2>2. CASE ~(m.id[1] = n.id[1] /\ m.id[2] = n.id[2])
      <3>1. n \in M
        BY <2>2
      <3>2. Counted(N, n.id) = Counted(M, n.id)
        BY <2>2, SMT DEF Counted
      <3> QED BY <1>0, <3>1, <3>2
    <2> QED BY <2>1, <2>2
  <1>7. \A n, q \in N : n.id = q.id => n = q
    BY <1>4 DEF LogInv
  <1> QED BY <1>1, <1>2, <1>6, <1>7 DEF LogInv

\* triggerMessage, with an id that was not used before
LEMMA MakeInv ==
    ASSUME ReplicasInv, NEW m, MsgOK(m), NEW s, NEW k, m.id = NextId(s, k), Make(m)
    PROVE  ReplicasInv'
  <1>1. m.id[3] = Cardinality(Counted(msgs, m.id))
    <2> DEFINE C == {n \in msgs : n.id[1] = s /\ n.id[2] = k}
               i == <<s, k, Cardinality(C)>>
    <2>1. m.id = i
      BY DEF NextId
    <2>2. i[1] = s /\ i[2] = k /\ i[3] = Cardinality(C)
      BY SMT
    <2>3. Counted(msgs, i) = C
      BY <2>2 DEF Counted
    <2> QED BY <2>1, <2>2, <2>3
  <1>2. LogInv(msgs)
    BY DEF ReplicasInv
  <1>3. msgs' = msgs \cup {m} /\ UNCHANGED <<db, done, failed, torn, told, clock, faults, restarts>>
    BY DEF Make
  <1>4. LogInv(msgs')
    BY <1>1, <1>2, <1>3, LogGrows
  <1>5. ASSUME NEW t \in Servers
        PROVE  ServerInv(msgs', db[t], done[t], failed[t], torn[t], told[t], faults)
    <2>1. ServerInv(msgs, db[t], done[t], failed[t], torn[t], told[t], faults)
      BY DEF ReplicasInv
    <2>2. msgs \subseteq msgs'
      BY <1>3
    <2>3. faults = 0 => faults = 0
      OBVIOUS
    <2> QED BY ONLY <2>1, <2>2, <2>3, ServerStays, Zenon
  <1> QED BY <1>3, <1>4, <1>5 DEF ReplicasInv

\* every next id is an id
LEMMA NextIdOK ==
    ASSUME ReplicasInv, NEW s \in Servers, NEW k \in Kinds
    PROVE  NextId(s, k) \in Ids
  <1> DEFINE C == {n \in msgs : n.id[1] = s /\ n.id[2] = k}
  <1>1. IsFiniteSet(msgs) /\ C \in SUBSET msgs
    BY DEF ReplicasInv, LogInv
  <1> HIDE DEF C
  <1>2. Cardinality(C) \in Nat
    BY <1>1, FS_Subset, FS_CardinalityType
  <1>3. <<s, k, Cardinality(C)>> \in Ids
    BY <1>2, SMT DEF Ids
  <1> QED BY <1>3 DEF NextId, C

\* a message that brings a row
LEMMA MakeRow ==
    ASSUME ReplicasInv, NEW s \in Servers,
           NEW k \in {"user", "group", "request", "reply", "sub"}, NEW row,
           row.id = NextId(s, k), k = "user" => IsUser(row),
           Make(NewRow(k, NextId(s, k), row))
    PROVE  ReplicasInv'
  <1> DEFINE m == NewRow(k, NextId(s, k), row)
  <1>1. m.kind = k /\ m.id = NextId(s, k) /\ m.row = row
    BY DEF NewRow
  <1>2. k \in Kinds /\ k # "prob"
    BY DEF Kinds
  <1>3. NextId(s, k) \in Ids
    BY <1>2, NextIdOK
  <1> HIDE DEF m
  <1>4. MsgOK(m)
    BY <1>1, <1>2, <1>3 DEF MsgOK
  <1> QED BY <1>1, <1>4, MakeInv DEF m

\* ActSetProbAttrs
LEMMA EditProblemInv ==
    ASSUME ReplicasInv, NEW s \in Servers, EditProblem(s)
    PROVE  ReplicasInv'
  <1>1. ASSUME NEW isNew, NEW prob, NEW type, NEW C \in SUBSET Attrs, NEW K \in SUBSET FileAttrs,
               NEW D, ActSetProbAttrs(s, isNew, prob, type, C, K, D)
        PROVE  ReplicasInv'
    <2> DEFINE t == IF ~isNew /\ type = NoType THEN ProblemRow(db[s].prob, prob).type ELSE type
               id == NextId(s, "prob")
               p == IF isNew THEN id ELSE prob
               m == ProbMessage(id, p, clock, t, C, K, D)
    <2>1. t \in Types /\ Acceptable(t, isNew, C, K) /\ Make(m)
      BY <1>1 DEF ActSetProbAttrs, nextProblemId
    <2> HIDE DEF t, p
    <2>2. id \in Ids
      BY NextIdOK DEF Kinds
    <2> HIDE DEF id
    <2>3. /\ m.kind = "prob" /\ m.id = id /\ m.time = clock /\ m.type = t
          /\ m.carries = C /\ m.keeps = K
      BY DEF ProbMessage
    <2> HIDE DEF m
    <2>4. "shortname" \in C
      <3>1. "shortname" \in Required[t] /\ "shortname" \notin FileAttrs
        BY <2>1, ProblemsAssumption
      <3> QED BY <2>1, <3>1 DEF Acceptable
    <2>5. clock \in 1 .. MaxTime
      BY DEF ReplicasInv
    <2>6. UpdateOK(m)
      BY <2>1, <2>3, <2>4, <2>5 DEF UpdateOK, Acceptable
    <2>7. MsgOK(m)
      BY <2>2, <2>3, <2>6 DEF MsgOK, Kinds
    <2>8. m.id = NextId(s, "prob")
      BY <2>3 DEF id
    <2> QED BY <2>1, <2>7, <2>8, MakeInv
  <1> QED BY <1>1 DEF EditProblem

\* ActAddUser, ActAddGroup, ActPasswd, ActSetbonus
LEMMA EditUsersInv ==
    ASSUME ReplicasInv, NEW s \in Servers, EditUsers(s)
    PROVE  ReplicasInv'
  <1>1. ASSUME NEW n, NEW g, ActAddUser(s, n, g) PROVE ReplicasInv'
    <2> DEFINE id == NextId(s, "user")
               row == [id |-> id, name |-> n, type |-> "contestant", group |-> g, pw |-> id, bonus |-> NoValue]
    <2>1. Make(NewRow("user", id, row))
      BY <1>1 DEF ActAddUser, nextId
    <2> HIDE DEF id
    <2>2. row.id = id /\ IsUser(row)
      BY SMT DEF IsUser
    <2> HIDE DEF row
    <2> QED BY <2>1, <2>2, MakeRow DEF id
  <1>2. ASSUME NEW n, ActAddGroup(s, n) PROVE ReplicasInv'
    <2> DEFINE id == NextId(s, "group")
               row == [id |-> id, name |-> n]
    <2>1. Make(NewRow("group", id, row))
      BY <1>2 DEF ActAddGroup, nextGroupId
    <2>2. row.id = id
      OBVIOUS
    <2> HIDE DEF row
    <2> QED BY <2>1, <2>2, MakeRow
  <1>3. ASSUME NEW u, NEW k \in {"passwd", "bonus"},
               Make([kind |-> k, id |-> NextId(s, k), user |-> u])
        PROVE  ReplicasInv'
    <2> DEFINE m == [kind |-> k, id |-> NextId(s, k), user |-> u]
    <2>1. m.kind = k /\ m.id = NextId(s, k)
      OBVIOUS
    <2>2. /\ k \in Kinds
          /\ k \notin {"prob", "user", "group", "request", "reply", "sub"}
      BY DEF Kinds
    <2>3. m.id \in Ids
      BY <2>1, <2>2, NextIdOK
    <2>4. Make(m)
      BY <1>3
    <2> HIDE DEF m
    <2>5. MsgOK(m)
      BY <2>1, <2>2, <2>3 DEF MsgOK
    <2> QED BY <2>1, <2>4, <2>5, MakeInv
  <1>4. ASSUME NEW u, ActPasswd(s, u) PROVE ReplicasInv'
    BY <1>3, <1>4 DEF ActPasswd
  <1>5. ASSUME NEW u, ActSetbonus(s, u) PROVE ReplicasInv'
    BY <1>3, <1>5 DEF ActSetbonus
  <1> QED BY <1>1, <1>2, <1>4, <1>5 DEF EditUsers

\* ActClarificationRequest, ActClarification, ActSubmit
LEMMA AskAndSubmitInv ==
    ASSUME ReplicasInv, NEW s \in Servers, AskAndSubmit(s)
    PROVE  ReplicasInv'
  <1>1. ASSUME NEW u, NEW p, ActClarificationRequest(s, u, p) PROVE ReplicasInv'
    <2> DEFINE id == NextId(s, "request")
               row == [id |-> id, user |-> u, prob |-> p]
    <2>1. Make(NewRow("request", id, row))
      BY <1>1 DEF ActClarificationRequest, nextClarificationRequestId
    <2>2. row.id = id
      OBVIOUS
    <2> HIDE DEF row
    <2> QED BY <2>1, <2>2, MakeRow
  <1>2. ASSUME NEW u, NEW r, NEW public, ActClarification(s, u, r, public) PROVE ReplicasInv'
    <2> DEFINE id == NextId(s, "reply")
               row == [id |-> id, req |-> r, user |-> u, public |-> public]
    <2>1. Make(NewRow("reply", id, row))
      BY <1>2 DEF ActClarification, nextClarificationId
    <2>2. row.id = id
      OBVIOUS
    <2> HIDE DEF row
    <2> QED BY <2>1, <2>2, MakeRow
  <1>3. ASSUME NEW u, NEW p, ActSubmit(s, u, p) PROVE ReplicasInv'
    <2> DEFINE id == NextId(s, "sub")
               row == [id |-> id, user |-> u, prob |-> p]
    <2>1. Make(NewRow("sub", id, row))
      BY <1>3 DEF ActSubmit, nextSubmissionId
    <2>2. row.id = id
      OBVIOUS
    <2> HIDE DEF row
    <2> QED BY <2>1, <2>2, MakeRow
  <1> QED BY <1>1, <1>2, <1>3 DEF AskAndSubmit

-----------------------------------------------------------------------------
(* The theorems.                                                           *)

\* before the first message
LEMMA InitInv == Init => ReplicasInv
  <1> SUFFICES ASSUME Init PROVE ReplicasInv
    OBVIOUS
  <1>1. LogInv(msgs)
    BY FS_EmptySet DEF Init, LogInv
  <1>2. clock \in 1 .. MaxTime /\ faults \in Nat /\ restarts \in Nat
    BY ReplicasAssumption, SMT DEF Init
  <1>3. /\ DOMAIN db = Servers /\ DOMAIN told = Servers
        /\ DOMAIN done = Servers /\ DOMAIN failed = Servers /\ DOMAIN torn = Servers
    BY DEF Init
  <1>4. ASSUME NEW s \in Servers
        PROVE  ServerInv(msgs, db[s], done[s], failed[s], torn[s], told[s], faults)
    <2> DEFINE d == [prob |-> <<>>, user |-> InitUsers, group |-> InitGroups,
                     req |-> {}, clar |-> {}, sub |-> {}]
    <2>1. db[s] = d /\ done[s] = {} /\ failed[s] = {} /\ torn[s] = {} /\ told[s] = <<>>
      BY DEF Init
    <2>2. DOMAIN <<>> = {}
      BY SMT
    <2>3. DOMAIN d = Columns
      BY SMT DEF Columns
    <2>4. /\ d.prob = <<>> /\ d.user = InitUsers /\ d.group = InitGroups
          /\ d.req = {} /\ d.clar = {} /\ d.sub = {}
      OBVIOUS
    <2> HIDE DEF d
    <2>5. DbOK(d)
      BY <2>2, <2>3, <2>4, ReplicasAssumption DEF DbOK, Shape, ProblemsOK
    <2>6. Tables(msgs, d)
      BY <2>4, <2>5 DEF Tables
    <2>7. Sets(msgs, {}, {}, {}, <<>>)
      BY <2>2 DEF Sets
    <2>8. Stores(d, {}) /\ Tries(d, {}, faults)
      BY DEF Stores, Tries
    <2>9. Versions(d, {}, {} \cup {}) /\ Tells(d, <<>>)
      BY <2>2, <2>4 DEF Versions, Tells
    <2> QED BY <2>1, <2>6, <2>7, <2>8, <2>9 DEF ServerInv
  <1> QED BY <1>1, <1>2, <1>3, <1>4 DEF ReplicasInv

\* No step of a client, a handler, a query, a failing statement or a restart
\* breaks the invariant.
LEMMA NextInv == ReplicasInv /\ [Next]_vars => ReplicasInv'
  <1> SUFFICES ASSUME ReplicasInv, [Next]_vars PROVE ReplicasInv'
    OBVIOUS
  <1>1. CASE UNCHANGED vars
    BY <1>1 DEF vars, ReplicasInv
  <1>2. CASE Tick
    <2>1. clock' \in 1 .. MaxTime
      BY <1>2, ReplicasAssumption, SMT DEF Tick, ReplicasInv
    <2> QED BY <1>2, <2>1 DEF Tick, ReplicasInv
  <1>3. ASSUME NEW s \in Servers, Clients(s) PROVE ReplicasInv'
    BY <1>3, EditProblemInv, EditUsersInv, AskAndSubmitInv DEF Clients
  <1>4. ASSUME NEW s \in Servers, Handler(s) PROVE ReplicasInv'
    BY <1>4, HandlerInv, CrashInv DEF Handler
  <1>5. ASSUME NEW s \in Servers, Faulty(s) PROVE ReplicasInv'
    BY <1>5, HandlerInv DEF Faulty
  <1>6. ASSUME NEW s \in Servers, Dies(s) PROVE ReplicasInv'
    <2>1. CASE Crash(s)
      BY <2>1, CrashInv
    <2>2. CASE Restart(s)
      BY <2>2, RestartInv DEF Restart
    <2>3. ASSUME NEW u, GetClarificationsDies(s, u) PROVE ReplicasInv'
      BY <2>3, RestartInv DEF GetClarificationsDies
    <2> QED BY <1>6, <2>1, <2>2, <2>3 DEF Dies
  <1> QED BY <1>1, <1>2, <1>3, <1>4, <1>5, <1>6 DEF Next

\* The invariant of the replicas holds at all times: every server's tables
\* hold rows of messages only, what is marked is stored and what is stored
\* stays (Message::process and int_process of every class).
THEOREM ReplicasInvariant == Spec => []ReplicasInv
  BY InitInv, NextInv, PTL DEF Spec

-----------------------------------------------------------------------------
\* the name of a problem that an update wrote
LEMMA WrittenName ==
    ASSUME NEW r, NEW m, MsgOK(m), m.kind = "prob", WrittenBy(r, m)
    PROVE  r.attrs["shortname"] = m.id /\ m.id # NoValue
  <1>1. "shortname" \in Attrs /\ "shortname" \notin FileAttrs
    BY ProblemsAssumption
  <1>2. "shortname" \in m.carries /\ "shortname" \in Attrs \ m.keeps /\ m.id \in Ids
    BY <1>1 DEF MsgOK, UpdateOK
  <1>3. r.attrs["shortname"] = m.id
    BY <1>2 DEF WrittenBy
  <1> QED BY <1>2, <1>3, IdIsValue

\* a problem without an update to be tried again
LEMMA SettledRow ==
    ASSUME ReplicasInv, NEW s \in Servers, NEW p \in DOMAIN db[s].prob, ~Unsettled(s, p)
    PROVE  /\ \A m \in Updates(p) \cap done[s] : m.time <= db[s].prob[p].updated
           /\ \E m \in Updates(p) \cap (done[s] \cup Stuck(s)) : WrittenBy(db[s].prob[p], m)
  <1>1. /\ LogInv(msgs) /\ Sets(msgs, done[s], failed[s], torn[s], told[s])
        /\ DbOK(db[s]) /\ Stores(db[s], done[s])
        /\ Versions(db[s], done[s], failed[s] \cup torn[s])
    BY DEF ReplicasInv, ServerInv, Tables
  <1>2. ASSUME NEW m \in Updates(p) \cap done[s] PROVE m.time <= db[s].prob[p].updated
    <2>1. db[s].prob[p].updated >= m.time
      BY <1>1 DEF Updates, Stores, Kept
    <2>2. db[s].prob[p].updated \in 0 .. MaxTime
      BY <1>1 DEF DbOK, ProblemsOK, RowOK
    <2>3. m.time \in 1 .. MaxTime
      BY <1>1 DEF Updates, LogInv, MsgOK, UpdateOK
    <2> QED BY ONLY <2>1, <2>2, <2>3, ReplicasAssumption, SMT
  <1>3. Newest(db[s].prob[p], p, done[s], Stuck(s))
    BY <1>1 DEF Versions, Stuck
  <1>4. \A m \in done[s] \cup Stuck(s) : m \in msgs
    BY <1>1 DEF Sets, Stuck
  <1>5. ~\E m \in Stuck(s) : m.kind = "prob" /\ m.prob = p /\ m.time >= db[s].prob[p].updated
    BY <1>4 DEF Unsettled, Updates
  <1>6. PICK m \in done[s] \cup Stuck(s) : m.kind = "prob" /\ m.prob = p /\ WrittenBy(db[s].prob[p], m)
    BY <1>3, <1>5 DEF Newest
  <1>7. m \in Updates(p) \cap (done[s] \cup Stuck(s))
    BY <1>4, <1>6 DEF Updates
  <1> QED BY <1>2, <1>6, <1>7

\* NewestUpdateWins (ProbMessage::int_process): a problem is what its newest
\* processed update made of it, for any order of the updates, any failed
\* statement and any restart, unless an update that is at least as new is to
\* be tried again.
THEOREM NewestUpdate == Spec => []NewestUpdateWins
  <1>1. ReplicasInv => NewestUpdateWins
    BY SettledRow DEF NewestUpdateWins
  <1> QED BY <1>1, ReplicasInvariant, PTL

-----------------------------------------------------------------------------
\* a marked message is in the tables
LEMMA KeptStored ==
    ASSUME ReplicasInv, NEW s \in Servers, NEW m \in done[s]
    PROVE  Stored(s, db[s], m)
  <1> DEFINE d == db[s]
  <1>1. /\ LogInv(msgs) /\ Sets(msgs, done[s], failed[s], torn[s], told[s]) /\ Kept(d, m)
    BY DEF ReplicasInv, ServerInv, Stores
  <1>2. MsgOK(m)
    BY <1>1 DEF Sets, LogInv
  <1>3. CASE m.kind = "prob"
    BY <1>1, <1>3 DEF Kept, Stored
  <1>4. CASE m.kind = "user"
    <2>1. PICK u \in d.user : Identity(m.row) = Identity(u)
      BY <1>1, <1>4 DEF Kept, Accounts
    <2>2. u.id = m.row.id /\ u.name = m.row.name
      BY <2>1, SMT DEF Identity
    <2> QED BY <1>4, <2>2 DEF Stored
  <1>5. CASE m.kind = "group"
    BY <1>1, <1>5 DEF Kept, Stored
  <1>6. CASE m.kind = "request"
    BY <1>1, <1>6 DEF Kept, Stored, HasRow, Records
  <1>7. CASE m.kind = "reply"
    <2>1. m.row \in d.clar
      BY <1>1, <1>7 DEF Kept, HasRow, Records
    <2>2. Question(d, m.row) # {}
      BY <1>1, <1>7 DEF Kept, Question, WithId
    <2> QED BY <1>7, <2>1, <2>2 DEF Stored
  <1>8. CASE m.kind = "sub"
    <2>1. m.row \in d.sub /\ m.row.prob \in DOMAIN d.prob
      BY <1>1, <1>8 DEF Kept, HasRow, Records
    <2>2. WithId(d.user, m.row.user) # {}
      BY <1>1, <1>8, KnownUser DEF Kept
    <2>3. ASSUME ~Unsettled(s, m.row.prob) PROVE getSubmission(d, m.row.id) # {}
      <3>1. PICK n \in Updates(m.row.prob) : WrittenBy(d.prob[m.row.prob], n)
        BY <2>1, <2>3, SettledRow
      <3>2. MsgOK(n) /\ n.kind = "prob"
        BY <1>1 DEF LogInv, Updates
      <3>3. shortname(d, m.row.prob) # NoValue
        BY <2>1, <3>1, <3>2, WrittenName DEF shortname, ProblemRow
      <3>4. m.row \in WithId(d.sub, m.row.id)
        BY <2>1 DEF WithId
      <3> QED BY <2>2, <3>3, <3>4 DEF getSubmission, Submissions
    <2> QED BY <1>8, <2>1, <2>3 DEF Stored
  <1>9. CASE m.kind \in {"passwd", "bonus"}
    BY <1>9 DEF Stored
  <1> QED BY <1>2, <1>3, <1>4, <1>5, <1>6, <1>7, <1>8, <1>9 DEF MsgOK, Kinds

\* DoneOnce (Message::process): a message that is marked as processed, and
\* will not be read again, is in the tables, and its event was broadcast at
\* most once, through crashes between any two statements.
THEOREM DoneMessagesAreStored == Spec => []DoneOnce
  <1>1. ASSUME ReplicasInv PROVE DoneOnce
    <2>1. ASSUME NEW s \in Servers
          PROVE  /\ done[s] \cap failed[s] = {} /\ torn[s] \cap (done[s] \cup failed[s]) = {}
                 /\ done[s] \cup failed[s] \cup torn[s] \subseteq msgs
                 /\ DOMAIN told[s] \subseteq msgs
                 /\ \A m \in DOMAIN told[s] : told[s][m] = 1
                 /\ DbOK(db[s])
      <3>1. /\ Sets(msgs, done[s], failed[s], torn[s], told[s])
            /\ Tables(msgs, db[s]) /\ Tells(db[s], told[s])
        BY <1>1 DEF ReplicasInv, ServerInv
      <3>2. DbOK(db[s]) /\ \A m \in DOMAIN told[s] : told[s][m] = 1
        BY <3>1 DEF Tables, Tells
      <3> QED BY <3>1, <3>2 DEF Sets
    <2>2. ASSUME NEW s \in Servers, NEW p \in DOMAIN db[s].prob
          PROVE  /\ db[s].prob[p].type \in Types
                 /\ db[s].prob[p].updated \in 0 .. MaxTime
                 /\ db[s].prob[p].attrs \in [Attrs -> MsgId]
                 /\ db[s].prob[p].data \in [FileAttrs -> MsgId]
      BY <2>1 DEF DbOK, ProblemsOK, RowOK
    <2>3. {m.id : m \in msgs} \subseteq MsgId
      <3>1. \A m \in msgs : m.id \in Ids
        BY <1>1 DEF ReplicasInv, LogInv, MsgOK
      <3>2. \A m \in msgs : m.id \in MsgId
        BY <3>1, IdIsValue
      <3> QED BY <3>2
    <2>4. clock \in 1 .. MaxTime /\ faults \in Nat /\ restarts \in Nat
      BY <1>1 DEF ReplicasInv
    <2>5. ReplicasTypeOK
      BY <2>1, <2>2, <2>3, <2>4 DEF ReplicasTypeOK
    <2>6. DoneMeansStored
      BY <1>1, KeptStored DEF DoneMeansStored
    <2>7. ToldOnce
      BY <2>1 DEF ToldOnce
    <2> QED BY <2>5, <2>6, <2>7 DEF DoneOnce
  <1> QED BY <1>1, ReplicasInvariant, PTL

-----------------------------------------------------------------------------
\* What one step does to the tables of all servers
Permanent ==
    \A s \in Servers : /\ {Identity(u) : u \in db[s].user} \subseteq {Identity(u) : u \in db'[s].user}
                       /\ db[s].group \subseteq db'[s].group
                       /\ db[s].req \subseteq db'[s].req
                       /\ db[s].clar \subseteq db'[s].clar
                       /\ db[s].sub \subseteq db'[s].sub

\* the tables of one server take a step
LEMMA StepPermanent ==
    ASSUME ReplicasInv, NEW s \in Servers, NEW m \in Waiting(s), NEW e, Step(db[s], e, m),
           NEW tells, Effect(s, e, tells, m)
    PROVE  Permanent
  <1>1. Changed(db, db', s, e)
    BY EffectChanges
  <1>2. DbOK(db[s]) /\ MsgOK(m)
    BY DEF ReplicasInv, ServerInv, Tables, LogInv, Waiting
  <1>3. Grown(db[s], e)
    BY <1>2, StepGrows
  <1>4. ASSUME NEW t \in Servers
        PROVE  /\ Accounts(db[t].user) \subseteq Accounts(db'[t].user)
               /\ db[t].group \subseteq db'[t].group
               /\ db[t].req \subseteq db'[t].req
               /\ db[t].clar \subseteq db'[t].clar
               /\ db[t].sub \subseteq db'[t].sub
    <2>1. CASE t = s
      BY <1>1, <1>3, <2>1 DEF Changed, Grown
    <2>2. CASE t # s
      BY <1>1, <2>2 DEF Changed
    <2> QED BY <2>1, <2>2
  <1> QED BY <1>4 DEF Permanent, Accounts

\* the last call of a message, and every call of one that is cut short
LEMMA ProcessPermanent ==
    ASSUME ReplicasInv, NEW s \in Servers, NEW m \in Waiting(s), NEW out, Good(db[s], m, out),
           NEW k \in 1 .. Len(out.steps), NEW tells, Effect(s, out.steps[k], tells, m)
    PROVE  Permanent
  BY StepPermanent DEF Good

\* RowsPermanent (addUser, addGroup, putClarificationRequest,
\* putClarification, putSubmission): no message, processed in any order, for
\* the first time or again, takes away or rewrites a row.
THEOREM RowsArePermanent == Spec => RowsPermanent
  <1>1. ASSUME ReplicasInv, [Next]_vars PROVE Permanent \/ UNCHANGED vars
    <2>1. ASSUME NEW s \in Servers, NEW m \in Waiting(s)
          PROVE  /\ \A f : Good(db[s], m, int_process(db[s], m, f))
                 /\ Good(db[s], m, Refused(db[s]))
      <3>1. DbOK(db[s]) /\ MsgOK(m)
        BY <1>1 DEF ReplicasInv, ServerInv, Tables, LogInv, Waiting
      <3> QED BY <3>1, IntProcessGood, RefusedGood
    <2>2. ASSUME NEW s \in Servers, NEW m \in Waiting(s), NEW out, Good(db[s], m, out), NEW tells,
                 Effect(s, out.steps[Len(out.steps)], tells, m)
          PROVE  Permanent
      <3>1. Len(out.steps) \in Nat \ {0}
        BY <2>2 DEF Good
      <3>2. Len(out.steps) \in 1 .. Len(out.steps)
        BY <3>1, SMT
      <3> QED BY <1>1, <2>2, <3>2, ProcessPermanent
    <2>3. ASSUME UNCHANGED db PROVE Permanent
      BY <2>3 DEF Permanent
    <2>4. ASSUME NEW m, Make(m) PROVE Permanent
      BY <2>3, <2>4 DEF Make
    <2>5. CASE Tick
      BY <2>3, <2>5 DEF Tick
    <2>6. ASSUME NEW s \in Servers, Clients(s) PROVE Permanent
      <3>1. CASE EditProblem(s)
        <4>1. ASSUME NEW isNew, NEW prob, NEW type, NEW C, NEW K, NEW D,
                     ActSetProbAttrs(s, isNew, prob, type, C, K, D)
              PROVE  Permanent
          BY <2>4, <4>1 DEF ActSetProbAttrs
        <4> QED BY <3>1, <4>1 DEF EditProblem
      <3>2. CASE EditUsers(s)
        BY <2>4, <3>2 DEF EditUsers, ActAddUser, ActAddGroup, ActPasswd, ActSetbonus
      <3>3. CASE AskAndSubmit(s)
        BY <2>4, <3>3 DEF AskAndSubmit, ActClarificationRequest, ActClarification, ActSubmit
      <3> QED BY <2>6, <3>1, <3>2, <3>3 DEF Clients
    <2>7. ASSUME NEW s \in Servers, Handler(s) PROVE Permanent
      <3>1. CASE ProcessMessage(s)
        BY <2>1, <2>2, <3>1 DEF ProcessMessage, Process
      <3>2. CASE ProcessDies(s)
        BY <2>1, <2>2, <3>2 DEF ProcessDies
      <3> QED BY <2>7, <3>1, <3>2 DEF Handler
    <2>8. ASSUME NEW s \in Servers, Faulty(s) PROVE Permanent
      <3>1. CASE ProcessFaulty(s)
        BY <2>1, <2>2, <3>1 DEF ProcessFaulty, Process
      <3>2. CASE ProcessNothing(s)
        BY <2>1, <2>2, <3>2 DEF ProcessNothing, Process
      <3> QED BY <2>8, <3>1, <3>2 DEF Faulty
    <2>9. ASSUME NEW s \in Servers, Dies(s) PROVE Permanent
      <3>1. CASE Crash(s)
        BY <1>1, <2>1, <3>1, ProcessPermanent DEF Crash, CrashIn
      <3>2. CASE Restart(s)
        BY <2>3, <3>2 DEF Restart
      <3>3. ASSUME NEW u, GetClarificationsDies(s, u) PROVE Permanent
        BY <2>3, <3>3 DEF GetClarificationsDies
      <3> QED BY <2>9, <3>1, <3>2, <3>3 DEF Dies
    <2> QED BY <1>1, <2>5, <2>6, <2>7, <2>8, <2>9 DEF Next
  <1>2. ReplicasInv /\ [Next]_vars => [Permanent]_vars
    BY <1>1
  <1>3. Spec => [][Permanent]_vars
    BY <1>2, ReplicasInvariant, PTL DEF Spec
  <1> QED BY <1>3 DEF RowsPermanent, Permanent

-----------------------------------------------------------------------------
Rows(kind) == {m.row : m \in OfKind(msgs, kind)}

\* requests, clarifications and submissions of a server that has tried all
\* messages
LEMMA AllTried ==
    ASSUME ReplicasInv, NEW s \in Servers,
           \A m \in msgs : m.kind \in Records => HasRow(db[s], m)
    PROVE  /\ db[s].req = Rows("request") /\ db[s].clar = Rows("reply")
           /\ db[s].sub = Rows("sub")
  <1>1. Tables(msgs, db[s])
    BY DEF ReplicasInv, ServerInv
  <1>2. db[s].req = Rows("request")
    <2>1. \A r \in db[s].req : \E m \in OfKind(msgs, "request") : r = m.row
      BY <1>1 DEF Tables
    <2>2. \A m \in OfKind(msgs, "request") : m.row \in db[s].req
      BY DEF OfKind, HasRow, Records
    <2> QED BY ONLY <2>1, <2>2, Zenon DEF Rows
  <1>3. db[s].clar = Rows("reply")
    <2>1. \A r \in db[s].clar : \E m \in OfKind(msgs, "reply") : r = m.row
      BY <1>1 DEF Tables
    <2>2. \A m \in OfKind(msgs, "reply") : m.row \in db[s].clar
      BY DEF OfKind, HasRow, Records
    <2> QED BY ONLY <2>1, <2>2, Zenon DEF Rows
  <1>4. db[s].sub = Rows("sub")
    <2>1. \A r \in db[s].sub : \E m \in OfKind(msgs, "sub") : r = m.row
      BY <1>1 DEF Tables
    <2>2. \A m \in OfKind(msgs, "sub") : m.row \in db[s].sub
      BY DEF OfKind, HasRow, Records
    <2> QED BY ONLY <2>1, <2>2, Zenon DEF Rows
  <1> QED BY <1>2, <1>3, <1>4

\* two servers that have tried every message, without a failed statement
LEMMA RecordsAgreeInv ==
    ASSUME ReplicasInv
    PROVE  RecordsAgree
  <1>1. ASSUME NEW s \in Servers, faults = 0, msgs \subseteq done[s] \cup failed[s]
        PROVE  /\ db[s].req = Rows("request") /\ db[s].clar = Rows("reply")
               /\ db[s].sub = Rows("sub")
    <2>1. Stores(db[s], done[s]) /\ Tries(db[s], failed[s], faults)
      BY DEF ReplicasInv, ServerInv
    <2>2. \A m \in msgs : m.kind \in Records => HasRow(db[s], m)
      BY <1>1, <2>1 DEF Stores, Kept, Tries
    <2> QED BY <2>2, AllTried
  <1> QED BY <1>1 DEF RecordsAgree

\* users and groups of a server that has processed all messages
LEMMA AllDone ==
    ASSUME ReplicasInv, NEW s \in Servers, msgs \subseteq done[s]
    PROVE  /\ Accounts(db[s].user) = Accounts(InitUsers) \cup {Identity(r) : r \in Rows("user")}
           /\ db[s].group = InitGroups \cup Rows("group")
           /\ db[s].req = Rows("request") /\ db[s].clar = Rows("reply")
           /\ db[s].sub = Rows("sub")
  <1>1. Tables(msgs, db[s]) /\ \A m \in msgs : Kept(db[s], m)
    BY DEF ReplicasInv, ServerInv, Stores
  <1>2. Accounts(db[s].user) = Accounts(InitUsers) \cup {Identity(r) : r \in Rows("user")}
    <2>1. /\ \A a \in Accounts(db[s].user) :
                 a \in Accounts(InitUsers) \/ \E m \in OfKind(msgs, "user") : a = Identity(m.row)
          /\ Accounts(InitUsers) \subseteq Accounts(db[s].user)
      BY <1>1 DEF Tables
    <2>2. \A m \in OfKind(msgs, "user") : Identity(m.row) \in Accounts(db[s].user)
      BY <1>1 DEF OfKind, Kept
    <2> QED BY ONLY <2>1, <2>2, Zenon DEF Rows
  <1>3. db[s].group = InitGroups \cup Rows("group")
    <2>1. /\ \A r \in db[s].group : r \in InitGroups \/ \E m \in OfKind(msgs, "group") : r = m.row
          /\ InitGroups \subseteq db[s].group
      BY <1>1 DEF Tables
    <2>2. \A m \in OfKind(msgs, "group") : m.row \in db[s].group
      BY <1>1 DEF OfKind, Kept
    <2> QED BY ONLY <2>1, <2>2, Zenon DEF Rows
  <1>4. \A m \in msgs : m.kind \in Records => HasRow(db[s], m)
    BY <1>1 DEF Kept
  <1> QED BY <1>2, <1>3, <1>4, AllTried

\* the problems of a server that has processed all messages: each is what its
\* newest update made of it
LEMMA AllUpdated ==
    ASSUME ReplicasInv, NEW s \in Servers, msgs \subseteq done[s]
    PROVE  /\ \A m \in msgs : m.kind = "prob" => m.prob \in DOMAIN db[s].prob
           /\ \A p \in DOMAIN db[s].prob : \E m \in Updates(p) :
                  /\ shortname(db[s], p) = m.id
                  /\ \A n \in Updates(p) : n.time <= m.time
  <1>1. LogInv(msgs) /\ Sets(msgs, done[s], failed[s], torn[s], told[s]) /\ Stores(db[s], done[s])
    BY DEF ReplicasInv, ServerInv
  <1>2. \A m \in msgs : m.kind = "prob" => m.prob \in DOMAIN db[s].prob
    BY <1>1 DEF Stores, Kept
  <1>3. Stuck(s) = {}
    BY <1>1 DEF Sets, Stuck
  <1>4. ASSUME NEW p \in DOMAIN db[s].prob
        PROVE  \E m \in Updates(p) : /\ shortname(db[s], p) = m.id
                                     /\ \A n \in Updates(p) : n.time <= m.time
    <2>1. ~Unsettled(s, p)
      BY <1>3 DEF Unsettled
    <2>2. \A n \in Updates(p) \cap done[s] : n.time <= db[s].prob[p].updated
      BY <2>1, SettledRow
    <2>3. PICK m \in Updates(p) : WrittenBy(db[s].prob[p], m)
      BY <2>1, SettledRow
    <2>4. db[s].prob[p].updated = m.time
      BY <2>3 DEF WrittenBy
    <2>5. MsgOK(m) /\ m.kind = "prob"
      BY <1>1 DEF LogInv, Updates
    <2>6. shortname(db[s], p) = m.id
      BY <2>3, <2>5, WrittenName DEF shortname, ProblemRow
    <2>7. \A n \in Updates(p) : n.time <= m.time
      BY <2>2, <2>4 DEF Updates
    <2> QED BY <2>6, <2>7
  <1> QED BY <1>2, <1>4

UpdatesDiffer ==
    \A m, n \in msgs : m.kind = "prob" /\ n.kind = "prob" /\ m # n => m.prob # n.prob \/ m.time # n.time

\* ... and so the same at two servers, if the updates were made at different
\* times
LEMMA SameNames ==
    ASSUME ReplicasInv, UpdatesDiffer, NEW s \in Servers, msgs \subseteq done[s],
           NEW t \in Servers, msgs \subseteq done[t], NEW p
    PROVE  shortname(db[s], p) = shortname(db[t], p)
  <1>1. p \in DOMAIN db[s].prob <=> p \in DOMAIN db[t].prob
    <2>1. ASSUME NEW q \in Servers, msgs \subseteq done[q]
          PROVE  p \in DOMAIN db[q].prob <=> \E m \in msgs : m.kind = "prob" /\ m.prob = p
      <3>1. \A m \in msgs : m.kind = "prob" => m.prob \in DOMAIN db[q].prob
        BY <2>1, AllUpdated
      <3>2. p \in DOMAIN db[q].prob => \E m \in Updates(p) : TRUE
        BY <2>1, AllUpdated
      <3> QED BY ONLY <3>1, <3>2, Zenon DEF Updates
    <2>2. p \in DOMAIN db[s].prob <=> \E m \in msgs : m.kind = "prob" /\ m.prob = p
      BY <2>1
    <2>3. p \in DOMAIN db[t].prob <=> \E m \in msgs : m.kind = "prob" /\ m.prob = p
      BY <2>1
    <2> QED BY ONLY <2>2, <2>3, Zenon
  <1>2. CASE p \notin DOMAIN db[s].prob
    BY <1>1, <1>2 DEF shortname, ProblemRow
  <1>3. CASE p \in DOMAIN db[s].prob
    <2>1. PICK m \in Updates(p) : /\ shortname(db[s], p) = m.id
                                  /\ \A n \in Updates(p) : n.time <= m.time
      BY <1>3, AllUpdated
    <2>2. PICK n \in Updates(p) : /\ shortname(db[t], p) = n.id
                                  /\ \A q \in Updates(p) : q.time <= n.time
      BY <1>1, <1>3, AllUpdated
    <2>3. m.time <= n.time /\ n.time <= m.time
      BY <2>1, <2>2
    <2>4. /\ m \in msgs /\ m.kind = "prob" /\ m.prob = p
          /\ n \in msgs /\ n.kind = "prob" /\ n.prob = p
      BY DEF Updates
    <2>5. m.time \in 1 .. MaxTime /\ n.time \in 1 .. MaxTime
      BY <2>4 DEF ReplicasInv, LogInv, MsgOK, UpdateOK
    <2>6. m.time = n.time
      BY ONLY <2>3, <2>5, ReplicasAssumption, SMT
    <2>7. m = n
      BY <2>4, <2>6 DEF UpdatesDiffer
    <2> QED BY <2>1, <2>2, <2>7
  <1> QED BY <1>2, <1>3

\* the list of users depends on what no message changes
LEMMA UserListOf ==
    ASSUME NEW d
    PROVE  userList(d) = {[id |-> a.id, name |-> a.name, type |-> a.type] : a \in Accounts(d.user)}
  <1> DEFINE entry(u) == [id |-> u.id, name |-> u.name, type |-> u.type]
  <1>1. \A u \in d.user : entry(Identity(u)) = entry(u)
    BY DEF Identity
  <1>2. userList(d) = {entry(u) : u \in d.user}
    BY DEF userList
  <1> HIDE DEF entry
  <1>3. {entry(u) : u \in d.user} = {entry(a) : a \in Accounts(d.user)}
    BY <1>1 DEF Accounts
  <1> QED BY <1>2, <1>3 DEF entry

\* two servers that have processed every message
LEMMA ViewsAgreeInv ==
    ASSUME ReplicasInv
    PROVE  ViewsAgree
  <1> SUFFICES ASSUME UpdatesDiffer, NEW s \in Servers, NEW t \in Servers,
                      msgs \subseteq done[s], msgs \subseteq done[t]
               PROVE  /\ userList(db[s]) = userList(db[t]) /\ groupList(db[s]) = groupList(db[t])
                      /\ \A u : /\ getSubmissions(db[s], u) = getSubmissions(db[t], u)
                                /\ getClarifications(db[s], u) = getClarifications(db[t], u)
                                /\ getClarificationRequests(db[s], u) = getClarificationRequests(db[t], u)
    BY DEF ViewsAgree, UpdatesDiffer
  <1> DEFINE d == db[s]
             e == db[t]
  <1>1. /\ Accounts(d.user) = Accounts(e.user) /\ d.group = e.group
        /\ d.req = e.req /\ d.clar = e.clar /\ d.sub = e.sub
    BY AllDone
  <1>2. \A p : shortname(d, p) = shortname(e, p)
    BY SameNames
  <1> HIDE DEF d, e
  <1>3. userList(d) = userList(e) /\ groupList(d) = groupList(e)
    BY <1>1, UserListOf DEF groupList
  <1>4. ASSUME NEW i PROVE WithId(d.user, i) # {} <=> WithId(e.user, i) # {}
    <2>1. WithId(d.user, i) # {} <=> \E a \in Accounts(d.user) : a.id = i
      BY ONLY KnownUser, Zenon
    <2>2. WithId(e.user, i) # {} <=> \E a \in Accounts(e.user) : a.id = i
      BY ONLY KnownUser, Zenon
    <2> QED BY ONLY <1>1, <2>1, <2>2, Zenon
  <1>5. ASSUME NEW u PROVE getSubmissions(d, u) = getSubmissions(e, u)
    <2> DEFINE S == {x \in d.sub : u \in {Anyone, x.user}}
               Y == {y \in S : WithId(d.user, y.user) # {} /\ shortname(d, y.prob) # NoValue}
               Z == {y \in S : WithId(e.user, y.user) # {} /\ shortname(e, y.prob) # NoValue}
    <2>1. /\ getSubmissions(d, u) = {[id |-> x.id, prob |-> x.prob, name |-> shortname(d, x.prob)] : x \in Y}
          /\ getSubmissions(e, u) = {[id |-> x.id, prob |-> x.prob, name |-> shortname(e, x.prob)] : x \in Z}
      BY <1>1 DEF getSubmissions, Submissions
    <2> HIDE DEF S
    <2>2. Y = Z
      BY <1>2, <1>4
    <2> HIDE DEF Y, Z
    <2>3. \A x : [id |-> x.id, prob |-> x.prob, name |-> shortname(d, x.prob)]
                     = [id |-> x.id, prob |-> x.prob, name |-> shortname(e, x.prob)]
      BY <1>2
    <2> QED BY <2>1, <2>2, <2>3
  <1>6. ASSUME NEW u PROVE getClarifications(d, u) = getClarifications(e, u)
    BY <1>1 DEF getClarifications, ClarificationsFor, Question
  <1>7. ASSUME NEW u PROVE getClarificationRequests(d, u) = getClarificationRequests(e, u)
    <2>1. \A r : [req |-> r, name |-> shortname(d, r.prob)] = [req |-> r, name |-> shortname(e, r.prob)]
      BY <1>2
    <2> QED BY <1>1, <2>1 DEF getClarificationRequests
  <1> QED BY <1>3, <1>5, <1>6, <1>7 DEF d, e

\* ReplicasAgree (int_process of every class): two servers that have processed
\* all messages show their clients the same, and two that have tried them all
\* without a failed statement have the same requests, clarifications and
\* submissions, whatever order they took them in.
THEOREM ReplicasConverge == Spec => []ReplicasAgree
  <1>1. ReplicasInv => ReplicasAgree
    BY RecordsAgreeInv, ViewsAgreeInv DEF ReplicasAgree
  <1> QED BY <1>1, ReplicasInvariant, PTL
=============================================================================
