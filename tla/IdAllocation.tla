---------------------------- MODULE IdAllocation ----------------------------
(***************************************************************************)
(* The ids of submissions.  Every server of a contest gives out ids of its *)
(* own residue class modulo ID_GRANULARITY, without asking the others:     *)
(* Server::nextSubmissionId keeps the last id in a static variable and     *)
(* reads it from the database when the variable is 0.  (Clarification      *)
(* requests, clarifications, problems, users and groups have functions of  *)
(* the same form.)  An id travels in a message and becomes the primary key *)
(* of a row on every server that processes the message.                    *)
(*                                                                         *)
(* The messages are those of MessageLog, which PeerReplication implements. *)
(***************************************************************************)
EXTENDS Integers, FiniteSets

CONSTANTS
    IdServer,       \* the server ids
    Granularity,    \* ID_GRANULARITY, a power of 2
    CleanRestarts,  \* TRUE: a server stops only when it has processed all its
                    \* own messages
    MaxId,          \* bound on the ids given out
    MaxRestarts     \* bound on the restarts

ASSUME IdAssumption ==
    /\ IdServer \subseteq Nat \ {0} /\ Granularity \in Nat \ {0}
    /\ CleanRestarts \in BOOLEAN
    /\ MaxId \in Nat /\ MaxRestarts \in Nat

VARIABLES
    cur_max_id,     \* the static variable of nextSubmissionId, per server
    held,           \* the ids a worker has got and not yet sent off
    id_log,         \* table PeerMessage of each server
    table,          \* table Submission of each server: the messages whose row
                    \* was inserted
    restarts        \* number of restarts so far

idVars == <<cur_max_id, held, id_log, table, restarts>>

SubmissionMessage == [server : IdServer, id : Nat, sub : Nat]

IdTypeOK ==
    /\ cur_max_id \in [IdServer -> Nat]
    /\ held \in [IdServer -> SUBSET Nat]
    /\ id_log \in [IdServer -> SUBSET SubmissionMessage]
    /\ table \in [IdServer -> SUBSET SubmissionMessage]
    /\ restarts \in Nat

Log == INSTANCE MessageLog WITH
    Server <- IdServer, log <- id_log, First <- [n \in IdServer |-> {}]

IdInit ==
    /\ cur_max_id = [n \in IdServer |-> 0]
    /\ held = [n \in IdServer |-> {}]
    /\ Log!Init
    /\ table = [n \in IdServer |-> {}]
    /\ restarts = 0

-----------------------------------------------------------------------------
(* Giving out an id.                                                       *)

\* Mutant: the ids of all servers
OwnIdsAll(n) == {m.sub : m \in table[n]}

\* the ids maxSubmissionId looks at: id & (ID_GRANULARITY - 1) = getId()
OwnIds(n) == {m.sub : m \in {t \in table[n] : t.sub % Granularity = n}}

\* Mutant: the smallest id
IsMaxSubmissionIdMin(n, x) ==
    IF OwnIds(n) = {} THEN x = 0
    ELSE x \in OwnIds(n) /\ \A y \in OwnIds(n) : x <= y

\* SELECT MAX(submission_id): 0 if there is none
IsMaxSubmissionId(n, x) ==
    IF OwnIds(n) = {} THEN x = 0
    ELSE x \in OwnIds(n) /\ \A y \in OwnIds(n) : y <= x

\* nextSubmissionId, under its mutex; x is what maxSubmissionId returns if it
\* is asked.  (When the database fails, nothing is changed.)
NextSubmissionId(n, x) ==
    LET last == IF cur_max_id[n] = 0 THEN x ELSE cur_max_id[n]
        next == IF last = 0 THEN n ELSE last + Granularity
    IN  /\ cur_max_id[n] = 0 => IsMaxSubmissionId(n, x)
        /\ cur_max_id' = [cur_max_id EXCEPT ![n] = next]
        /\ held' = [held EXCEPT ![n] = @ \cup {next}]
        /\ UNCHANGED <<id_log, table, restarts>>

\* triggerMessage, by the worker that holds the id
TriggerMessage(n, i) ==
    /\ i \in held[n]
    /\ held' = [held EXCEPT ![n] = @ \ {i}]
    /\ LET own == {m \in id_log[n] : m.server = n}
       IN  Log!Make(n, [server |-> n, id |-> Cardinality(own) + 1, sub |-> i])
    /\ UNCHANGED <<cur_max_id, table, restarts>>

\* makeMessage fails: the id is lost
MakeFails(n, i) ==
    /\ i \in held[n]
    /\ held' = [held EXCEPT ![n] = @ \ {i}]
    /\ UNCHANGED <<cur_max_id, id_log, table, restarts>>

-----------------------------------------------------------------------------
(* The messages.                                                           *)

\* the message reaches another server
Deliver(n, m) ==
    /\ m \notin id_log[n]
    /\ Log!Copy(n, m)
    /\ UNCHANGED <<cur_max_id, held, table, restarts>>

\* the handler inserts the row.  A row with the same key makes the INSERT
\* fail, and the message stays unprocessed.
Process(n, m) ==
    /\ m \in id_log[n] \ table[n]
    /\ \A r \in table[n] : r.sub # m.sub
    /\ table' = [table EXCEPT ![n] = @ \cup {m}]
    /\ UNCHANGED <<cur_max_id, held, id_log, restarts>>

\* the process ends and is started again; workers and static variables go
Restart(n) ==
    /\ restarts < MaxRestarts /\ restarts' = restarts + 1
    /\ CleanRestarts => \A m \in id_log[n] : m.server = n => m \in table[n]
    /\ cur_max_id' = [cur_max_id EXCEPT ![n] = 0]
    /\ held' = [held EXCEPT ![n] = {}]
    /\ UNCHANGED <<id_log, table>>

-----------------------------------------------------------------------------
\* room for another id, so that TLC's state space is finite
Room(n) == cur_max_id[n] < MaxId /\ \A y \in OwnIds(n) : y < MaxId

Deliveries(n) == \E q \in IdServer : \E m \in id_log[q] : Deliver(n, m)
Processing(n) == \E m \in id_log[n] : Process(n, m)

IdNext ==
    \E n \in IdServer :
        \/ Room(n) /\ \E x \in OwnIds(n) \cup {0} : NextSubmissionId(n, x)
        \/ \E i \in held[n] : TriggerMessage(n, i) \/ MakeFails(n, i)
        \/ Deliveries(n)
        \/ Processing(n)
        \/ Restart(n)

IdSpec == IdInit /\ [][IdNext]_idVars

-----------------------------------------------------------------------------
(* Properties.                                                             *)

(* No two submissions of the contest have the same id, whichever servers   *)
(* accepted them and however often these were restarted: the primary key   *)
(* of table Submission never rejects a submission (nextSubmissionId,       *)
(* maxSubmissionId).                                                       *)
UniqueIds ==
    \A n, q \in IdServer : \A a \in id_log[n], b \in id_log[q] :
        a.sub = b.sub => Log!SameIdentity(a, b)

(* The ids a server gives out only grow, over restarts too: an id that is  *)
(* lost with a worker leaves a gap, and no later id falls below one that   *)
(* is in use.                                                              *)
IdsGrow ==
    [][\A n \in IdServer : \A i \in held'[n] \ held[n] :
          \A m \in id_log[n] : m.server = n => m.sub < i]_idVars
=============================================================================
