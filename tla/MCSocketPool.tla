---------------------------- MODULE MCSocketPool ----------------------------
(* Instances of SocketPool for TLC.  Each client follows a script, chosen    *)
(* with the initial state, and may hang up at any time.                      *)
EXTENDS SocketPool

VARIABLES script, budget

TwoUsers == [u \in {"team", "marker"} |-> IF u = "team" THEN "contestant" ELSE "marker"]

R(kind, arg) == [kind |-> kind, arg |-> arg]
Hello == R("hello", Nobody)
Script(c, d) == [x \in Conns |-> IF x = "c" THEN c ELSE d]

Scope(c, d, open, budgets) == [script |-> Script(c, d), open |-> open, budget |-> budgets]

NoBudget == [timer |-> 0, closes |-> 0, stops |-> 0, fails |-> 0, signals |-> 0]

\* From the first byte: a login that is refused, a client that hangs up, signals
Arrival == {Scope(<<Hello, R("auth", Nobody)>>, <<>>, {}, [NoBudget EXCEPT !.signals = 1]),
            Scope(<<R("auth", "team")>>, <<>>, {}, [NoBudget EXCEPT !.closes = 1])}

\* A client arrives while another is connected and a thread cannot be created;
\* two clients log in at once, one of them hangs up and a thread is missing
TwoClients == {Scope(<<>>, <<Hello>>, {"c"}, [NoBudget EXCEPT !.fails = 1]),
               Scope(<<R("auth", "team")>>, <<R("auth", "marker")>>, {"c", "d"},
                     [NoBudget EXCEPT !.fails = 1, !.closes = 1])}

\* A contestant subscribes, logs in as a marker on the same connection, hangs up
Relogin == Scope(<<R("auth", "team"), R("sub", "updatestandings"), R("auth", "marker"), R("post", Nobody)>>,
                 <<>>, {"c"}, [NoBudget EXCEPT !.closes = 1])

\* A keep-alive or an event for a client that logs in, subscribes and hangs up;
\* a client that takes its subscription back
Sending == {Scope(<<R("auth", "team"), R("sub", "startstop")>>, <<>>, {"c"},
                  [NoBudget EXCEPT !.timer = 1, !.closes = 1]),
            Scope(<<R("auth", "team"), R("sub", "startstop"), R("unsub", "startstop")>>, <<>>, {"c"},
                  NoBudget)}

\* A client posts a message while the server stops
Stopping == Scope(<<R("auth", "team"), R("post", Nobody)>>, <<>>, {"c"}, [NoBudget EXCEPT !.stops = 1])

Start(s) == InitFrom(s.open) /\ script = s.script /\ budget = s.budget

MCInit == \E s \in Arrival \cup TwoClients \cup Sending \cup {Relogin, Stopping} : Start(s)
StopInit == Start(Stopping)

MCNext ==
    /\ ~crossed
    /\ \/ /\ ServerStep /\ UNCHANGED script
          /\ IF sel.at = "dispatch" /\ sel' # sel /\ total' < total + Wanted - Spare
             THEN budget.fails > 0 /\ budget' = [budget EXCEPT !.fails = @ - 1]
             ELSE UNCHANGED budget
       \/ /\ PollInterrupted /\ budget.signals > 0
          /\ budget' = [budget EXCEPT !.signals = @ - 1] /\ UNCHANGED script
       \/ /\ TimedSend /\ budget.timer > 0
          /\ budget' = [budget EXCEPT !.timer = @ - 1] /\ UNCHANGED script
       \/ /\ Shutdown /\ budget.stops > 0
          /\ budget' = [budget EXCEPT !.stops = @ - 1] /\ UNCHANGED script
       \/ \E c \in Conns :
             \/ script[c] # <<>> /\ Connect(c) /\ UNCHANGED <<script, budget>>
             \/ ReadOutput(c) /\ UNCHANGED <<script, budget>>
             \/ /\ Close(c) /\ budget.closes > 0
                /\ budget' = [budget EXCEPT !.closes = @ - 1] /\ UNCHANGED script
             \/ /\ script[c] # <<>> /\ conn[c].inbox = <<>> /\ Send(c, Head(script[c]))
                /\ script' = [script EXCEPT ![c] = Tail(@)] /\ UNCHANGED budget

MCSpec == MCInit /\ [][MCNext]_<<vars, script, budget>>
MCFairSpec == MCSpec /\ Fairness
StopSpec == StopInit /\ [][MCNext]_<<vars, script, budget>> /\ Fairness
=============================================================================
