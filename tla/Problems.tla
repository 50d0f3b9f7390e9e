------------------------------ MODULE Problems ------------------------------
(***************************************************************************)
(* The problem tables of one server (Problem, ProblemAttributes,           *)
(* ProblemFileData, ProblemDependencies) and ProbMessage, the message that *)
(* creates or updates a problem (act_problemmanip.C, dbmysql.C).           *)
(*                                                                         *)
(* A value that a message writes is represented by the id of the message,  *)
(* so that a row shows where each of its columns comes from.  The          *)
(* statements of a message are not one transaction: what a message does is *)
(* the sequence of the tables after each of its calls of the database.     *)
(***************************************************************************)
EXTENDS Integers, Sequences, FiniteSets

CONSTANTS
    Types,      \* the registered problem types
    Attrs,      \* the attribute names that any of them uses
    FileAttrs,  \* those that are files (F)
    IntAttrs,   \* those that are integers (I); the others are strings (S)
    Required,   \* Required[t]: the attributes of type t without a '?'
    Optional    \* Optional[t]: those with one

ASSUME ProblemsAssumption ==
    /\ FileAttrs \cup IntAttrs \subseteq Attrs /\ FileAttrs \cap IntAttrs = {}
    /\ Required \in [Types -> SUBSET Attrs] /\ Optional \in [Types -> SUBSET Attrs]
    /\ "shortname" \in Attrs \ (FileAttrs \cup IntAttrs)
    /\ \A t \in Types : "shortname" \in Required[t]

NoValue == <<>>     \* no row for this attribute
NoType == ""        \* the type of a problem without a row

ASSUME TypesAssumption == NoType \notin Types

\* A row of Problem with the rows of the other tables that belong to it.
NewProblem == [type |-> NoType, updated |-> 0, attrs |-> [a \in Attrs |-> NoValue],
               data |-> [a \in FileAttrs |-> NoValue], deps |-> {}]

\* getProblemType, getProblemUpdateTime, getProblemAttributes: no type and
\* no attributes for a problem that has no row.
ProblemRow(P, p) == IF p \in DOMAIN P THEN P[p] ELSE NewProblem

\* A function with one value put into the place of another or added to it
Put(f, x, v) == [y \in DOMAIN f \cup {x} |-> IF y = x THEN v ELSE f[y]]

getProblems(P) == DOMAIN P

\* The join with Problem leaves out a dependency on a problem this server
\* does not have (yet).
getProblemDependencies(P, p) == ProblemRow(P, p).deps \cap DOMAIN P

\* What ActSetProbAttrs accepts for type t: all that is required, nothing
\* that the description does not name, and "keep this file" only for a
\* problem that is not new.
Acceptable(t, isNew, carries, keeps) ==
    /\ carries \cap keeps = {}
    /\ Required[t] \subseteq carries \cup keeps
    /\ carries \cup keeps \subseteq Required[t] \cup Optional[t]
    /\ keeps \subseteq FileAttrs
    /\ isNew => keeps = {}

ProbMessage(id, p, time, type, carries, keeps, deps) ==
    [kind |-> "prob", id |-> id, prob |-> p, time |-> time, type |-> type,
     carries |-> carries, keeps |-> keeps, deps |-> deps]

-----------------------------------------------------------------------------
(* ProbMessage::int_process.  fault is an attribute whose statement fails, *)
(* with what the failed call leaves behind: the old value ("delete"), no   *)
(* value ("insert"), or the name of the file without its data ("data").    *)

NoFault == [attr |-> "none", at |-> "none"]
Faults(m) == [attr : m.carries, at : {"delete", "insert"}]
                 \cup [attr : m.carries \cap FileAttrs, at : {"data"}]

\* Mutant: updates are applied in the order of their arrival.
DiscardedNever(P, m) == FALSE

\* The update is older than the version in the table and is discarded.
Discarded(P, m) == ProblemRow(P, m.prob).type # NoType /\ ProblemRow(P, m.prob).updated > m.time

\* delProblemAttribute for all that the message neither carries nor keeps
DeleteAbsent(row, m) ==
    [row EXCEPT !.attrs = [a \in Attrs |-> IF a \in m.carries \cup m.keeps THEN @[a] ELSE NoValue],
                !.data = [a \in FileAttrs |-> IF a \in m.carries \cup m.keeps THEN @[a] ELSE NoValue]]

\* setProblemAttribute: both rows are deleted, then inserted.
SetAttributes(row, m, A, fault) ==
    LET fails(a, how) == fault.attr = a /\ fault.at \in how
        new(a, old, how) == IF a \notin A \cap m.carries \/ fails(a, {"delete"}) THEN old
                            ELSE IF fails(a, how) THEN NoValue ELSE m.id
    IN  [row EXCEPT !.attrs = [a \in Attrs |-> new(a, @[a], {"insert"})],
                    !.data = [a \in FileAttrs |-> new(a, @[a], {"insert", "data"})]]

\* Dependencies that are known here and no longer wanted go; all that are
\* wanted are there afterwards (adding one a second time fails, unnoticed).
SetDependencies(row, m, known) == [row EXCEPT !.deps = (@ \ (known \ m.deps)) \cup m.deps]

\* The row after each call, from the row before it on.
ProbRows(row, m, fault, known) ==
    LET r1 == IF row.type # NoType THEN DeleteAbsent(row, m) ELSE row
        r2 == [r1 EXCEPT !.type = m.type]
        r3 == SetAttributes(r2, m, FileAttrs, fault)
        r4 == SetAttributes(r3, m, IntAttrs, fault)
        r5 == SetAttributes(r4, m, Attrs \ (FileAttrs \cup IntAttrs), fault)
        r6 == [r5 EXCEPT !.updated = m.time]
        r7 == SetDependencies(r6, m, known \cup {m.prob})
    IN  <<r1, r2, r3, r4, r5, r6, r7>>

\* The tables before the first and after each of the seven calls.  Before
\* setProblemType a new problem has no row.
ProbSteps(P, m, fault) ==
    IF Discarded(P, m) THEN <<P>>
    ELSE LET rows == ProbRows(ProblemRow(P, m.prob), m, fault, DOMAIN P)
         IN  [i \in 1 .. 8 |-> IF i = 1 \/ (i = 2 /\ m.prob \notin DOMAIN P) THEN P
                               ELSE Put(P, m.prob, rows[i - 1])]

-----------------------------------------------------------------------------
(* What a message leaves behind when every statement works.                *)

WrittenBy(row, m) ==
    /\ row.updated = m.time /\ row.type = m.type
    /\ \A a \in Attrs \ m.keeps :
           /\ row.attrs[a] = IF a \in m.carries THEN m.id ELSE NoValue
           /\ a \in FileAttrs => row.data[a] = row.attrs[a]
=============================================================================
