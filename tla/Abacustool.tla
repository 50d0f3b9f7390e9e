----------------------------- MODULE Abacustool -----------------------------
(***************************************************************************)
(* The command line tool (src/src/abacustool.C) on the client library.     *)
(* Most commands connect, log in, make a fixed series of calls and exit    *)
(* with a status.  "standings" stays connected: callbacks in the receiver  *)
(* bring updates, main() waits for them under runlock, and starts over     *)
(* when the server disconnects.  ("balloon" does so too, with a queue of   *)
(* messages to the operator that is not modelled.)                         *)
(***************************************************************************)
EXTENDS ServerConnection, FiniteSetsExt

VARIABLES
    tmain,     \* where main() is
    cmd,       \* the command
    step,      \* the call of the command that is being made
    status,    \* the exit status, -1 before there is one
    chosen,    \* submission_id of getlatestsource
    acks,      \* the requests of the run that the server answered with "ok"
    listed,    \* the submissions the server listed
    runlock,   \* the holder of runlock
    closed,    \* set by server_close
    woken,     \* runcond was signalled while main() waited on it
    version,   \* how often the standings changed at the server
    shown,     \* the version of the standings in memory, and
    file       \* in the file update_standings wrote

toolVars == <<tmain, cmd, step, status, chosen, acks, listed, runlock, closed, woken,
              version, shown, file>>
oneShotVars == <<step, status, chosen, acks, listed>>
watchVars == <<runlock, closed, woken, version, shown, file>>

-----------------------------------------------------------------------------
(* The calls of every command.  The do_ functions differ in the calls they *)
(* make and in what each must yield for the command to go on.              *)
findUser == "getusers"
findGroup == "getgroups"
findProblem == "getproblems"
do_adduser == <<findGroup, "adduser">>
do_addgroup == <<"addgroup">>
do_add_or_replace_problem == <<"getproblemtypes", "getproblemdescription", "allproblems", "setprobattrs">>
do_replaceproblem == <<findProblem>> \o do_add_or_replace_problem
do_addtime == <<findGroup, "startstop">>
do_getsource == <<"getsubmissionsource">>
do_getlatestsource == <<findUser, findProblem, "getsubmissions_for_user">> \o do_getsource
do_setpass == <<findUser, "id_passwd">>
do_getbonus == <<findUser, "getbonus">>
do_setbonus == <<findUser, "setbonus">>
do_submit == <<findProblem, "getlanguages", "submit">>

process(c) ==
    CASE c = "adduser" -> do_adduser
      [] c = "addgroup" -> do_addgroup
      [] c = "addproblem" -> do_add_or_replace_problem
      [] c = "replaceproblem" -> do_replaceproblem
      [] c = "addtime" -> do_addtime
      [] c = "setpass" -> do_setpass
      [] c = "getbonus" -> do_getbonus
      [] c = "setbonus" -> do_setbonus
      [] c = "getsource" -> do_getsource
      [] c = "getlatestsource" -> do_getlatestsource
      [] c = "submit" -> do_submit

Watching == cmd = "standings"
OneShot == cmd \notin {"standings", "none"}
TheCall == process(cmd)[step]
Wanted == "wanted"

(* do_getlatestsource: the latest correct submission, 0 if there is none.  *)
latest(subs) == Max({0} \union {s.time : s \in {t \in subs : t.correct}})

yields(req, res) ==
    CASE req \in {findUser, findGroup, findProblem} -> Wanted \in indexedList(res)
      [] req \in {"getproblemtypes", "getlanguages"} -> Wanted \in vectorFromMB(res)
      [] req \in {"adduser", "addgroup", "id_passwd"} -> accountCall(res)
      [] req \in {"setbonus", "startstop"} -> contestCall(res)
      [] req = "getbonus" -> getBonus(res)
      [] req = "getproblemdescription" -> getProblemDescription(res)
      [] req = "allproblems" -> TRUE
      [] req = "setprobattrs" -> setProblemAttributes(res)
      [] req = "getsubmissionsource" -> contentCall(res)
      [] req = "getsubmissions_for_user" -> latest(getSubmissionsForUser(res)) # 0
      [] req = "submit" -> submit(res)

(* Calls whose arguments the command checks itself: an attribute, a file   *)
(* or a time that cannot be used ends it before the call.                  *)
Checked == {"setprobattrs", "submit", "startstop"}

ToolInit(c) ==
    /\ ConnInit
    /\ cmd = c /\ tmain = "connect" /\ step = 1 /\ status = -1 /\ chosen = 0
    /\ acks = {} /\ listed = {}
    /\ runlock = "free" /\ closed = FALSE /\ woken = FALSE
    /\ version = 1 /\ shown = 0 /\ file = 0

Go(label) == tmain' = label
ConnSame == UNCHANGED connVars
Reply == call' = Idle /\ UNCHANGED <<ssl, link, up, down, response, rcv, ka, kill, eventmap>>

(* connect() of the tool: a failure exits a command, and makes a watching  *)
(* one sleep and try again.  runlock is held from before connect() on.     *)
ToolConnects ==
    /\ tmain = "connect" /\ connect /\ Go("auth")
    /\ runlock = "free" /\ runlock' = IF Watching THEN "main" ELSE "free"
    /\ closed' = FALSE /\ woken' = FALSE /\ shown' = 0
    /\ UNCHANGED <<cmd, oneShotVars, version, file>>

ToolFails ==
    /\ tmain = "connect" /\ ~Watching
    /\ Go("exit") /\ status' = 1
    /\ ConnSame /\ UNCHANGED <<cmd, step, chosen, acks, listed, watchVars>>

ToolAuth == tmain = "auth" /\ sendMB("auth") /\ UNCHANGED toolVars

ToolAuthReturns ==
    /\ tmain = "auth" /\ Returned("auth") /\ Reply
    /\ Go(IF ~simpleAction(call.res) THEN "disconnect"
          ELSE IF Watching THEN "registerClose" ELSE "call")
    /\ status' = IF ~Watching /\ ~simpleAction(call.res) THEN 1 ELSE status
    /\ UNCHANGED <<cmd, step, chosen, acks, listed, watchVars>>

-----------------------------------------------------------------------------
(* The commands that run once.                                             *)
CommandCalls == tmain = "call" /\ sendMB(TheCall) /\ UNCHANGED toolVars

CommandRefuses ==
    /\ tmain = "call" /\ call = Idle /\ TheCall \in Checked
    /\ status' = 1 /\ Go("disconnect")
    /\ ConnSame /\ UNCHANGED <<cmd, step, chosen, acks, listed, watchVars>>

CommandStops ==
    /\ tmain = "call" /\ Returned(TheCall) /\ Reply
    /\ ~yields(TheCall, call.res)
    /\ status' = 1 /\ Go("disconnect")
    /\ UNCHANGED <<cmd, step, chosen, acks, listed, watchVars>>

CommandGoesOn ==
    /\ tmain = "call" /\ Returned(TheCall) /\ Reply
    /\ yields(TheCall, call.res)
    /\ chosen' = IF TheCall = "getsubmissions_for_user"
                 THEN latest(getSubmissionsForUser(call.res)) ELSE chosen
    /\ IF step < Len(process(cmd)) THEN step' = step + 1 /\ UNCHANGED <<status, tmain>>
                                   ELSE status' = 0 /\ Go("disconnect") /\ UNCHANGED step
    /\ UNCHANGED <<cmd, acks, listed, watchVars>>

-----------------------------------------------------------------------------
(* do_standings registers its callbacks one after the other, then asks for *)
(* the whole standings, all under runlock.                                 *)
RegisterCallback(label, ev, next) ==
    /\ tmain = label /\ registerEventCallback(ev) /\ Go(next)
    /\ UNCHANGED <<cmd, oneShotVars, watchVars>>

AskStandings == tmain = "standings" /\ sendMB("standings") /\ UNCHANGED toolVars

(* grid_to_standings leaves the standings alone when there is no answer.   *)
StandingsArrive ==
    /\ tmain = "standings" /\ Returned("standings") /\ Reply
    /\ shown' = IF simpleAction(call.res) THEN call.res.data ELSE shown
    /\ file' = shown' /\ Go("waiting")
    /\ runlock' = "free" /\ woken' = FALSE
    /\ UNCHANGED <<cmd, oneShotVars, closed, version>>

(* pthread_cond_wait returns with runlock held; a closed connection is     *)
(* left, anything else rewrites the file and waits again.                  *)
WatchWakes ==
    /\ tmain = "waiting" /\ woken /\ runlock = "free"
    /\ woken' = FALSE
    /\ IF closed THEN Go("disconnect") /\ UNCHANGED file
                 ELSE file' = shown /\ UNCHANGED tmain
    /\ UNCHANGED <<cmd, oneShotVars, runlock, closed, version, shown>> /\ ConnSame

\* Mutant: main is not woken
standings_updateSilent ==
    /\ rcv.ev.action = "updatestandings" /\ shown' = rcv.ev.data
    /\ UNCHANGED <<closed, woken>>

(* The callbacks standings_update and server_close, in the receiver, wait  *)
(* for runlock.                                                            *)
standings_update ==
    /\ rcv.ev.action = "updatestandings" /\ shown' = rcv.ev.data
    /\ woken' = (tmain = "waiting") /\ UNCHANGED closed

server_closed ==
    /\ rcv.ev.action = "close" /\ closed' = TRUE
    /\ woken' = (tmain = "waiting") /\ UNCHANGED shown

ToolCallback ==
    /\ CallbackReturns /\ runlock = "free"
    /\ standings_update \/ server_closed
    /\ UNCHANGED <<tmain, cmd, oneShotVars, runlock, version, file>>

-----------------------------------------------------------------------------
ToolDisconnects ==
    /\ tmain = "disconnect" /\ disconnect /\ Go("joinReceiver")
    /\ runlock' = "free"
    /\ UNCHANGED <<cmd, oneShotVars, closed, woken, version, shown, file>>

ToolJoins1 == tmain = "joinReceiver" /\ JoinReceiver /\ Go("joinKeepalive")
              /\ UNCHANGED <<cmd, oneShotVars, watchVars>>
ToolJoins2 == tmain = "joinKeepalive" /\ JoinKeepalive
              /\ Go(IF Watching THEN "connect" ELSE "exit")
              /\ UNCHANGED <<cmd, oneShotVars, watchVars>>

ToolMain ==
    \/ ToolConnects \/ ToolFails \/ ToolAuth \/ ToolAuthReturns
    \/ CommandCalls \/ CommandRefuses \/ CommandStops \/ CommandGoesOn
    \/ RegisterCallback("registerClose", "close", "registerUpdate")
    \/ RegisterCallback("registerUpdate", "updatestandings", "standings")
    \/ AskStandings \/ StandingsArrive \/ WatchWakes
    \/ ToolDisconnects \/ ToolJoins1 \/ ToolJoins2

-----------------------------------------------------------------------------
(* The server: it answers with a list, with the standings of the moment or *)
(* with no data, or refuses (but not the standings, which act_standings.C  *)
(* gives to every user that may see them).                                 *)
Lists(req, lists, subs) ==
    CASE req = "getsubmissions_for_user" -> {numbered(s) : s \in subs}
      [] req \in {"getusers", "getgroups", "getproblems", "allproblems", "getproblemtypes",
                 "getlanguages"}
            -> {numbered(l) : l \in lists}
      [] req = "standings" -> {version}
      [] OTHER -> {NoData}

ToolServerAnswers(lists, subs) ==
    /\ up # <<>>
    /\ \/ \E d \in Lists(Head(up), lists, subs) :
            /\ ServerAnswers("ok", d)
            /\ acks' = acks \union {Head(up)}
            /\ listed' = IF Head(up) = "getsubmissions_for_user" THEN {d[i] : i \in DOMAIN d}
                         ELSE listed
       \/ Head(up) # "standings" /\ ServerAnswers("err", NoData) /\ UNCHANGED <<acks, listed>>
    /\ UNCHANGED <<tmain, cmd, step, status, chosen, watchVars>>

StandingsChange ==
    /\ Watching
    /\ version' = version + 1
    /\ IF link = "up" /\ tmain \notin {"connect", "auth"}
       THEN ServerSends("updatestandings", version') ELSE ConnSame
    /\ UNCHANGED <<tmain, cmd, oneShotVars, runlock, closed, woken, shown, file>>

ToolNext(lists, subs) ==
    \/ ToolMain \/ ToolCallback \/ ToolServerAnswers(lists, subs) \/ StandingsChange
    \/ (Library \/ ServerCloses \/ LinkBreaks) /\ UNCHANGED toolVars

-----------------------------------------------------------------------------
ToolTypeOK ==
    /\ ConnTypeOK
    /\ status \in {-1, 0, 1} /\ step \in 1 .. 5
    /\ runlock \in {"free", "main"} /\ {closed, woken} \subseteq BOOLEAN
    /\ shown <= version /\ file <= version

(* A command exits with status 0 only when the server has said yes to      *)
(* every request the command rests on (getbonus excepted: its call reports *)
(* success without an answer).                                             *)
StatusTruthful ==
    (status = 0 /\ cmd # "getbonus") =>
        \A i \in 1 .. Len(process(cmd)) :
            process(cmd)[i] # "allproblems" => process(cmd)[i] \in acks

(* When the standings watcher is at rest on a live connection, the file it *)
(* writes holds the standings the server has now: no update is lost        *)
(* between the full answer and the wait, or between two waits.             *)
FileCurrent ==
    (tmain = "waiting" /\ ~woken /\ ~closed /\ ssl = "open" /\ link = "up"
        /\ down = <<>> /\ rcv.at = "read") => file = version

(* getlatestsource finds the latest correct submission of those that the   *)
(* server has numbered and sent.                                           *)
LatestFound ==
    (Returned("getsubmissions_for_user") /\ call.res.action = "ok") =>
        latest(getSubmissionsForUser(call.res)) = latest(listed)

(* closed is "set to true when a server disconnect is detected": a logged  *)
(* in watcher whose connection was shut comes to know it.                  *)
CloseDetected ==
    (tmain \in {"registerClose", "registerUpdate", "standings", "waiting"} /\ ssl = "shut")
        ~> (closed \/ tmain = "disconnect")

(* What abacustool tells its user is true: the status it exits with, and   *)
(* the standings file.                                                     *)
ToolTruthful == StatusTruthful /\ FileCurrent

(* A command that runs once always comes to its end.                       *)
ToolEnds == OneShot => <>(tmain = "exit")
=============================================================================
