------------------------------ MODULE Clients ------------------------------
(***************************************************************************)
(* The client programs on the client library.  Each behaviour runs one     *)
(* program: markerd, a command of abacustool that runs once, or its        *)
(* standings watcher.  The three threads of the library, the program's     *)
(* callbacks, the server and the network interleave freely.                *)
(***************************************************************************)
EXTENDS Markerd, Abacustool

CONSTANTS
    Programs,   \* "markerd" and commands of the tool
    Jobs,       \* what markerd is given to mark
    ListsSent,  \* the lists, and
    SubsSent    \* the lists of submissions that the server may answer with

(* main() of abacustool knows these commands.                              *)
ToolCommands ==
    {"adduser", "addgroup", "addproblem", "replaceproblem", "addtime", "setpass", "getbonus",
     "setbonus", "getsource", "getlatestsource", "submit", "standings"}

ASSUME ProgramsAssumption == Programs \subseteq {"markerd"} \union ToolCommands

VARIABLE prog

clientVars == <<connVars, markerdVars, toolVars, prog>>

(* The variables of the program that is not run.                           *)
MarkerdOff == main = "retry" /\ queue = <<>> /\ mr = Null /\ conn = 0

ClientsInit ==
    /\ prog \in Programs
    /\ IF prog = "markerd"
       THEN MarkerdInit /\ ToolInit("none") ELSE ToolInit(prog) /\ MarkerdOff

M(A) == prog = "markerd" /\ A /\ UNCHANGED <<toolVars, prog>>
T(A) == prog # "markerd" /\ A /\ UNCHANGED <<markerdVars, prog>>
L(A) == A /\ UNCHANGED <<markerdVars, toolVars, prog>>

MMain == M(MarkerdMain)
MCallback == M(MarkerdCallback)
MAnswers == M(\E a \in {"ok", "err"} : ServerAnswers(a, NoData)) /\ UNCHANGED markerdVars
MServer == M(\E job \in Jobs : ServerMarks(job))
TMain == T(ToolMain)
TCallback == T(ToolCallback)
TAnswers == T(ToolServerAnswers(ListsSent, SubsSent))
TServer == T(StandingsChange)
Caller == L(CallerSteps)
Receiver == L(ReceiverSteps)
Keepalive == L(KeepaliveSteps)
Silence == L(KeepaliveTimesOut)
Loss == L(ServerCloses \/ LinkBreaks)

ClientsNext ==
    \/ MMain \/ MCallback \/ MAnswers \/ MServer
    \/ TMain \/ TCallback \/ TAnswers \/ TServer
    \/ Caller \/ Receiver \/ Keepalive \/ Silence \/ Loss

ClientsSpec == ClientsInit /\ [][ClientsNext]_clientVars

-----------------------------------------------------------------------------
(* What every variable may hold, with the statuses main() can exit with    *)
(* and standings no newer than the server's.                               *)
ClientsTypeOK == MarkerdTypeOK /\ ToolTypeOK

(* Nothing of a connection outlives it: disconnect() deletes the ThreadSSL *)
(* after the threads that use it have ended, and markerd works for, and    *)
(* gives up, no other connection than the one it has.                      *)
ClientsConsistent == ClientsTypeOK /\ ThreadsJoined /\ NoStaleWork /\ NoStaleClose

(* Both programs get on: markerd notices a lost connection and tries again *)
(* (server_close, main), a command that runs once comes to its end.        *)
ProgramsProceed == LossNoticed /\ ToolEnds
=============================================================================
