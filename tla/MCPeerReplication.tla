------------------------- MODULE MCPeerReplication -------------------------
(* Instances of PeerReplication in which something is in the way of the    *)
(* replication: a message made while addServer runs (MCPeerRace.cfg), and  *)
(* a message that nobody can rebuild (MCPeerGroup.cfg).                    *)
EXTENDS PeerReplication

TwoServers == 1..2
JustMaster == {1}
AllKinds == Kind
CodeKinds == {"server", "data"}         \* no functor for CREATEGROUP
OnlyData == {"data"}
Storing == {"storing"}

\* what the servers make, after the messages of the start
JoinAndOne == [n \in Server |-> IF n = Master THEN 4 ELSE 0]
=============================================================================
