----------------------------- MODULE MCClients -----------------------------
(***************************************************************************)
(* The client programs for TLC: markerd over MaxConns connections, every   *)
(* one-shot command of abacustool, and its standings watcher.              *)
(***************************************************************************)
EXTENDS Clients

CONSTANTS
    MaxConns,   \* bound on the connections of markerd
    MaxNews     \* bound on jobs, changes of the standings and reconnections

VARIABLE news

mcVars == <<clientVars, news>>

MCLists == {<<>>, <<Wanted>>, <<"other", Wanted>>}
Sub(t, c) == [time |-> t, correct |-> c]
MCSubs == {<<>>, <<Sub(1, TRUE)>>, <<Sub(1, FALSE), Sub(2, TRUE)>>, <<Sub(1, TRUE), Sub(2, FALSE)>>}

MCInit == ClientsInit /\ news = 0

Same == UNCHANGED news
News == news < MaxNews /\ news' = news + 1

MCMain == MMain /\ conn' <= MaxConns /\ Same
MCCallback == MCallback /\ Same
MCAnswers == MAnswers /\ Same
MCServer == MServer /\ News
MCTool == TMain /\ (IF tmain = "connect" /\ cmd = "standings" THEN News ELSE Same)
MCToolCallback == TCallback /\ Same
MCToolAnswers == TAnswers /\ Same
MCToolServer == TServer /\ News
MCCaller == Caller /\ Same
MCReceiver == Receiver /\ Same
MCKeepalive == Keepalive /\ Same
MCSilence == Silence /\ Same
MCLoss == Loss /\ Same

MCNext ==
    \/ MCMain \/ MCCallback \/ MCAnswers \/ MCServer
    \/ MCTool \/ MCToolCallback \/ MCToolAnswers \/ MCToolServer
    \/ MCCaller \/ MCReceiver \/ MCKeepalive \/ MCSilence \/ MCLoss

(* Every thread runs when it can, the server answers, and a keepalive wait *)
(* that nothing restarts ends.                                             *)
MCSpec ==
    /\ MCInit /\ [][MCNext]_mcVars
    /\ WF_mcVars(MCMain) /\ WF_mcVars(MCCallback) /\ WF_mcVars(MCAnswers)
    /\ WF_mcVars(MCTool) /\ WF_mcVars(MCToolCallback) /\ WF_mcVars(MCToolAnswers)
    /\ WF_mcVars(MCCaller) /\ WF_mcVars(MCReceiver) /\ WF_mcVars(MCKeepalive)
    /\ WF_mcVars(L(NothingHeard) /\ Same)
=============================================================================
