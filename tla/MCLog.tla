------------------------------- MODULE MCLog -------------------------------
(***************************************************************************)
(* Safety of the replicated log, on small instances of PeerReplication and *)
(* of IdAllocation.  Each initial state picks one scope:                   *)
(*   peers  the messages between a master and a server that joins, over a  *)
(*          network that loses, repeats and reorders, with a crash inside  *)
(*          of any sequence of statements;                                 *)
(*   ids    the submission ids in the messages, four per turn instead of   *)
(*          16, of two servers with clean restarts.                        *)
(***************************************************************************)
EXTENDS PeerReplication, IdAllocation

VARIABLE scope

TwoServers == 1..2
JustMaster == {1}
CodeKinds == {"server", "data"}         \* no functor for CREATEGROUP
AllKinds == Kind
AllWindows == Window
JoinAndOne == [n \in Server |-> IF n = Master THEN 3 ELSE 1]

\* the least and the greatest server id below Granularity
FirstAndThird == {1, 3}

\* the greatest server id MAX_SERVERS allows
FirstAndFourth == {1, 4}

LogInit == scope \in {"peers", "ids"} /\ Init /\ IdInit

LogNext ==
    /\ UNCHANGED scope
    /\ \/ scope = "peers" /\ Next /\ UNCHANGED idVars
       \/ scope = "ids" /\ IdNext /\ UNCHANGED vars

LogSpec == LogInit /\ [][LogNext]_<<scope, vars, idVars>>
=============================================================================
