---------------------------- MODULE ClientEvents ----------------------------
(* Who is logged in on which connection and who is told what: the user and  *)
(* permissions of a ClientConnection, the ClientEventRegistry with its map  *)
(* of clients and its events, and the parts of act_auth and act_events that *)
(* change them.  Every operation holds the registry's lock, so it is one    *)
(* step; SocketPool says which thread takes it and when.                    *)
EXTENDS Integers, FiniteSets

CONSTANTS
    Conns,      \* client connections
    Users,      \* user ids
    TypeOf      \* the type of each user, a value of UserType

VARIABLES
    user,       \* _user_id of each connection, Nobody before a login
    perms,      \* _permissions of each connection
    clients,    \* ClientEventRegistry::_clients, pairs of user and connection
    subs        \* Event::_clients of each event

sessionVars == <<user, perms, clients, subs>>

UserType == {"admin", "judge", "contestant", "marker", "observer", "proctor"}

\* User id 0
Nobody == "nobody"

ASSUME UsersAssumption == Nobody \notin Users /\ TypeOf \in [Users -> UserType]

\* The rows of the permission map that the requests and events below test
Mask == [auth          |-> UserType,
         submit        |-> {"contestant", "observer"},
         see_standings |-> UserType \ {"marker"},
         see_all       |-> {"judge", "admin"}]

Permission == DOMAIN Mask

getPermissions(type) == {p \in Permission : type \in Mask[p]}

\* The events of the modules, with the permission a subscriber needs
EventPermission == [startstop |-> "auth", updatestandings |-> "see_standings"]

Event == DOMAIN EventPermission

\* PermissionTest::matches, for the tests used here: ANY or one permission
matches(test, ps) == test = "any" \/ test \in ps

SessionInit ==
    /\ user = [c \in Conns |-> Nobody]
    /\ perms = [c \in Conns |-> {}]
    /\ clients = {}
    /\ subs = [e \in Event |-> {}]

-----------------------------------------------------------------------------
\* The connections a broadcast or an event goes to
broadcastEvent(u, test) ==
    {c \in Conns : \E p \in clients : p[2] = c /\ (p[1] = u \/ matches(test, perms[c]))}

triggerEvent(e) == subs[e]

-----------------------------------------------------------------------------
\* The members of an event with a connection added or dropped: only if its
\* present permissions match, and the caller is told
EventAdd(e, c) == IF matches(EventPermission[e], perms[c]) THEN subs[e] \cup {c} ELSE subs[e]

EventDrop(e, c) == IF matches(EventPermission[e], perms[c]) THEN subs[e] \ {c} ELSE subs[e]

deregisterClient(c) ==
    /\ subs' = [e \in Event |-> EventDrop(e, c)]
    /\ clients' = clients \ {<<user[c], c>>}

\* Mutant: the first login is not forgotten
AuthForgetNone(c) == UNCHANGED sessionVars

\* A login on a connection that is in use begins as a disconnection
AuthForget(c) ==
    IF user[c] # Nobody
    THEN deregisterClient(c) /\ UNCHANGED <<user, perms>>
    ELSE UNCHANGED sessionVars

\* setUserId, setGroupId, permissions, then the connection is registered again
AuthRegister(c, u) ==
    /\ user' = [user EXCEPT ![c] = u]
    /\ perms' = [perms EXCEPT ![c] = getPermissions(TypeOf[u])]
    /\ clients' = clients \cup {<<u, c>>}
    /\ UNCHANGED subs

Subscribe(c, e) ==
    /\ subs' = [subs EXCEPT ![e] = EventAdd(e, c)]
    /\ UNCHANGED <<user, perms, clients>>

Unsubscribe(c, e) ==
    /\ subs' = [subs EXCEPT ![e] = EventDrop(e, c)]
    /\ UNCHANGED <<user, perms, clients>>
=============================================================================
