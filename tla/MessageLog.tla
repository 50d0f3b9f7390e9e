----------------------------- MODULE MessageLog -----------------------------
(***************************************************************************)
(* What the replication of messages promises, without saying how: every    *)
(* server keeps a log of messages that only grows; a message enters the    *)
(* log of the server that makes it under an identity (server, id) nobody   *)
(* has used, and any other log only as a copy of what some server has.     *)
(***************************************************************************)
CONSTANTS Server, First         \* First: the messages each server starts with

VARIABLE log                    \* the messages each server has

SameIdentity(a, b) == a.server = b.server /\ a.id = b.id

Init == log = First

Make(n, m) ==
    /\ m.server = n
    /\ \A o \in Server : \A x \in log[o] : ~SameIdentity(x, m)
    /\ log' = [log EXCEPT ![n] = @ \cup {m}]

Copy(n, m) ==
    /\ \E o \in Server : m \in log[o]
    /\ log' = [log EXCEPT ![n] = @ \cup {m}]

Next == \E n \in Server : \E m \in log'[n] \ log[n] : Make(n, m) \/ Copy(n, m)

Spec == Init /\ [][Next]_log
=============================================================================
