---------------------------- MODULE SocketProofs ----------------------------
(* Proofs about SocketPool, for any number of connections, users and worker *)
(* threads: no output is forgotten in a queue (OutputNotForgotten), and     *)
(* workers, waitables and registry are consistent (RegistryConsistent).     *)
(*                                                                          *)
(* Several workers may hold one waitable (OneOwner does not hold), so the   *)
(* argument cannot rest on ownership.  What does hold is that only one of   *)
(* them serves it: a worker stores the new events when it has done with the *)
(* waitable, the selector takes them away when it hands it out, and the     *)
(* workers left behind only finish.                                         *)
EXTENDS SocketPool, FiniteSetTheorems, TLAPS

\* Most steps are logic and sets; those that compute name SMT
USE Zenon

\* The steps of a worker that reads or writes its waitable, and of one that
\* has a request before it
Serving == {"process", "auth", "wait", "reply", "write"}
Asked == {"auth", "wait", "reply"}

Entry == [at : At, arg : Users \cup {Nobody}]

Stream == [inbox : Seq(Request), closed : BOOLEAN, tls : BOOLEAN,
           queue : Nat, note : BOOLEAN, wire : Nat]

Selector == [at : {"scan", "poll", "dispatch", "hand", "stopping", "stopped"},
             snap : [Waitables -> SUBSET PollEvent],
             ready : SUBSET Waitables, cur : Waitables \cup {NULL}]

Sender == [by : Conns \cup {"timer", NULL}, lock : {"registry", "event", NULL},
           todo : SUBSET Conns, half : SUBSET Conns]

(* The shape of the state.                                                  *)
SessionShape ==
    /\ user \in [Conns -> Users \cup {Nobody}] /\ perms \in [Conns -> SUBSET Permission]
    /\ clients \subseteq Users \X Conns /\ subs \in [Event -> SUBSET Conns]

ShapeInv ==
    /\ SessionShape
    /\ events \in [Waitables -> SUBSET PollEvent] /\ members \subseteq Waitables
    /\ life \in [Waitables -> {"none", "connecting", "open", "deleted"}]
    /\ jobs \in [Waitables -> Seq(Entry)] /\ sel \in Selector
    /\ conn \in [Conns -> Stream] /\ mq \in Seq(Conns \cup {NULL}) /\ bc \in Sender

(* The selector holds waitables only between poll and the hand-over.        *)
SelectorInv ==
    /\ sel.ready # {} => sel.at \in {"dispatch", "hand"}
    /\ sel.cur # NULL => sel.at = "hand"
    /\ sel.at = "hand" => sel.cur # NULL

\* The selector has seen that w waits for something, and has not handed it out
Awaited(w) == (sel.at = "poll" /\ sel.snap[w] # {}) \/ w \in sel.ready

\* Some worker serves w
Served(w) == \E i \in DOMAIN jobs[w] : jobs[w][i].at \in Serving

(* One worker at most serves a waitable, and then neither the selector nor  *)
(* its events know of it; what the selector holds is a member of the set    *)
(* and has its events still; only what exists is held by a worker, up to a  *)
(* deletion under another one.                                              *)
OneServes(w) == \A i, j \in DOMAIN jobs[w] :
    jobs[w][i].at \in Serving /\ jobs[w][j].at \in Serving => i = j

Own(w) ==
    /\ OneServes(w)
    /\ Served(w) \/ sel.cur = w => events[w] = {}
    /\ Served(w) => sel.cur # w
    /\ Awaited(w) => w \in members /\ events[w] # {}
    /\ w \in members => life[w] = "open"
    /\ \A i \in DOMAIN jobs[w] : jobs[w][i].at = "delete" => w \notin members
    /\ ~crossed /\ (jobs[w] # <<>> \/ sel.cur = w) => life[w] = "open"

OwnInv == \A w \in Waitables : Own(w)

(* The request a worker deals with is still the first of its inbox, and     *)
(* between the two halves of a login the connection is in no list.          *)
AskedInv(c) ==
    \A i \in DOMAIN jobs[c] :
        /\ jobs[c][i].at \in Asked => conn[c].inbox # <<>>
        /\ jobs[c][i].at = "auth" => /\ jobs[c][i].arg \in Users
                                     /\ \A p \in clients : p[2] # c
                                     /\ \A e \in Event : c \notin subs[e]

SessionInv ==
    /\ NoDangling /\ RegistryAgrees
    /\ \A c \in Conns : user[c] = Nobody => perms[c] = {}
    /\ \A c \in Conns : AskedInv(c)
    /\ bc.lock = NULL \/ bc.by = NULL => bc.todo = {} /\ bc.half = {}

(* Every worker is idle or at work, and their number has its limit.         *)
WorkerInv ==
    /\ idle \in Nat /\ total \in Nat /\ total <= MaxTotal
    /\ IsFiniteSet(AtWork) /\ total = idle + Cardinality(AtWork)

(* A connection that waits, waits to be writable, or for a notification     *)
(* that is there or will come if anything is in its queue; a sender is at   *)
(* one connection at a time.                                                *)
OutputWaits(c) ==
    conn[c].tls /\ events[c] # {} =>
        \/ "out" \in events[c]
        \/ "note" \in events[c] /\ (conn[c].queue = 0 \/ conn[c].note \/ c \in bc.half)

OutputInv == (\A c \in Conns : OutputWaits(c)) /\ \A x, y \in bc.half : x = y

PoolInv == ShapeInv /\ SelectorInv /\ OwnInv /\ SessionInv /\ WorkerInv /\ OutputInv

-----------------------------------------------------------------------------
(* Sequences: what Append, Tail and the departure of a worker leave.        *)
LEMMA AppendFacts ==
    ASSUME NEW S, NEW s \in Seq(S), NEW e \in S
    PROVE  /\ Append(s, e) \in Seq(S) /\ Append(s, e) # <<>>
           /\ Len(Append(s, e)) = Len(s) + 1
           /\ \A i \in 1..Len(s) : Append(s, e)[i] = s[i]
           /\ Append(s, e)[Len(s) + 1] = e
BY SMT

\* The first and the remaining members of a sequence
LEMMA TailFacts ==
    ASSUME NEW S, NEW s \in Seq(S), s # <<>>
    PROVE  Tail(s) \in Seq(S) /\ Head(s) \in S
BY SMT

\* Two sequences, one after the other
LEMMA ConcatFacts ==
    ASSUME NEW S, NEW s \in Seq(S), NEW t \in Seq(S)
    PROVE  /\ s \o t \in Seq(S) /\ Len(s \o t) = Len(s) + Len(t)
BY SMT

\* Leave takes the i-th worker out of the jobs of a waitable
Without(s, i) == SubSeq(s, 1, i - 1) \o SubSeq(s, i + 1, Len(s))

\* The workers behind the i-th move up.
LEMMA WithoutFacts ==
    ASSUME NEW S, NEW s \in Seq(S), NEW i \in 1..Len(s)
    PROVE  /\ Without(s, i) \in Seq(S) /\ Len(Without(s, i)) = Len(s) - 1
           /\ \A j \in 1..(Len(s) - 1) : Without(s, i)[j] = IF j < i THEN s[j] ELSE s[j + 1]
<1> DEFINE a == SubSeq(s, 1, i - 1)
           b == SubSeq(s, i + 1, Len(s))
<1>1. a \in Seq(S) /\ Len(a) = i - 1 /\ \A j \in 1..(i - 1) : a[j] = s[j]
  BY SMT
<1>2. b \in Seq(S) /\ Len(b) = Len(s) - i /\ \A j \in 1..(Len(s) - i) : b[j] = s[j + i]
  BY SMT
<1>3. Without(s, i) = a \o b
  BY DEF Without
<1> HIDE DEF a, b
<1>4. a \o b \in Seq(S) /\ Len(a \o b) = Len(s) - 1
  <2>1. a \o b \in Seq(S) /\ Len(a \o b) = Len(a) + Len(b)
    BY ONLY <1>1, <1>2, ConcatFacts, Zenon
  <2>2. Len(s) \in Nat /\ i \in Nat
    BY SMT
  <2> QED
    BY ONLY <1>1, <1>2, <2>1, <2>2
<1>5. ASSUME NEW j \in 1..(Len(s) - 1)
      PROVE  (a \o b)[j] = IF j < i THEN s[j] ELSE s[j + 1]
  <2>1. CASE j < i
    BY <1>1, <1>2, <2>1, SMT
  <2>2. CASE ~(j < i)
    <3>1. (a \o b)[j] = b[j - (i - 1)]
      BY <1>1, <1>2, <2>2, SMT
    <3>2. j - (i - 1) \in 1..(Len(s) - i) /\ j - (i - 1) + i = j + 1
      BY <2>2, SMT
    <3> QED
      BY <1>2, <2>2, <3>1, <3>2
  <2> QED
    BY <2>1, <2>2
<1> QED
  BY <1>3, <1>4, <1>5

-----------------------------------------------------------------------------
(* The three ways in which the jobs of a waitable change: a worker goes on  *)
(* to another step, a worker leaves, a worker is added.                     *)
JobsShape == jobs \in [Waitables -> Seq(Entry)]

OthersStay(w) == \A x \in Waitables \ {w} : jobs'[x] = jobs[x]

Becomes(w, i, e) ==
    /\ jobs' \in [Waitables -> Seq(Entry)] /\ OthersStay(w)
    /\ DOMAIN jobs'[w] = DOMAIN jobs[w] /\ Len(jobs'[w]) = Len(jobs[w])
    /\ jobs'[w][i] = e /\ \A j \in DOMAIN jobs[w] \ {i} : jobs'[w][j] = jobs[w][j]

Leaves(w, i) ==
    /\ jobs' \in [Waitables -> Seq(Entry)] /\ OthersStay(w)
    /\ Len(jobs'[w]) = Len(jobs[w]) - 1 /\ DOMAIN jobs'[w] = 1..(Len(jobs[w]) - 1)
    /\ \A j \in DOMAIN jobs'[w] : jobs'[w][j] = IF j < i THEN jobs[w][j] ELSE jobs[w][j + 1]

Comes(w, e) ==
    /\ jobs' \in [Waitables -> Seq(Entry)] /\ OthersStay(w)
    /\ Len(jobs'[w]) = Len(jobs[w]) + 1 /\ DOMAIN jobs'[w] = 1..(Len(jobs[w]) + 1)
    /\ jobs'[w][Len(jobs[w]) + 1] = e /\ \A j \in DOMAIN jobs[w] : jobs'[w][j] = jobs[w][j]

\* The i-th worker at w has a new next step, the others stay.
LEMMA JobBecomes ==
    ASSUME JobsShape, NEW w \in Waitables, NEW i \in DOMAIN jobs[w], NEW e \in Entry,
           jobs' = [jobs EXCEPT ![w][i] = e]
    PROVE  Becomes(w, i, e)
<1>1. jobs[w] \in Seq(Entry)
  BY DEF JobsShape
<1>2. [jobs[w] EXCEPT ![i] = e] \in Seq(Entry)
  BY <1>1, SMT
<1>3. jobs' = [jobs EXCEPT ![w] = [jobs[w] EXCEPT ![i] = e]]
  OBVIOUS
<1> QED
  BY <1>1, <1>2, <1>3, SMT DEF JobsShape, Becomes, OthersStay

\* The same for a worker that keeps its argument (Go)
LEMMA JobGoes ==
    ASSUME JobsShape, NEW w \in Waitables, NEW i \in DOMAIN jobs[w], NEW at \in At, Go(w, i, at)
    PROVE  Becomes(w, i, [at |-> at, arg |-> jobs[w][i].arg])
<1>1. jobs[w] \in Seq(Entry) /\ jobs[w][i] \in Entry
  BY SMT DEF JobsShape
<1>2. [jobs[w][i] EXCEPT !.at = at] = [at |-> at, arg |-> jobs[w][i].arg]
  BY <1>1, SMT DEF Entry
<1>3. [at |-> at, arg |-> jobs[w][i].arg] \in Entry
  BY <1>1 DEF Entry
<1>4. jobs' = [jobs EXCEPT ![w] = [jobs[w] EXCEPT ![i] = [jobs[w][i] EXCEPT !.at = at]]]
  BY DEF Go
<1>5. jobs' = [jobs EXCEPT ![w][i] = [at |-> at, arg |-> jobs[w][i].arg]]
  BY <1>2, <1>4
<1> QED
  BY ONLY <1>3, <1>5, JobsShape, w \in Waitables, i \in DOMAIN jobs[w], JobBecomes, Zenon

\* The i-th worker at w is done with it.
LEMMA JobLeaves ==
    ASSUME JobsShape, NEW w \in Waitables, NEW i \in DOMAIN jobs[w], Leave(w, i)
    PROVE  Leaves(w, i)
<1>1. jobs[w] \in Seq(Entry) /\ i \in 1..Len(jobs[w])
  BY SMT DEF JobsShape
<1>2. jobs' = [jobs EXCEPT ![w] = Without(jobs[w], i)]
  BY DEF Leave, Without
<1>3. /\ Without(jobs[w], i) \in Seq(Entry) /\ Len(Without(jobs[w], i)) = Len(jobs[w]) - 1
      /\ \A j \in 1..(Len(jobs[w]) - 1) :
            Without(jobs[w], i)[j] = IF j < i THEN jobs[w][j] ELSE jobs[w][j + 1]
  BY ONLY <1>1, WithoutFacts, Zenon
<1> QED
  BY <1>1, <1>2, <1>3, SMT DEF JobsShape, Leaves, OthersStay

\* A worker is handed w.
LEMMA JobComes ==
    ASSUME JobsShape, NEW w \in Waitables, NEW e \in Entry,
           jobs' = [jobs EXCEPT ![w] = Append(@, e)]
    PROVE  Comes(w, e)
<1>1. jobs[w] \in Seq(Entry)
  BY DEF JobsShape
<1>2. /\ Append(jobs[w], e) \in Seq(Entry)
      /\ Len(Append(jobs[w], e)) = Len(jobs[w]) + 1
      /\ \A i \in 1..Len(jobs[w]) : Append(jobs[w], e)[i] = jobs[w][i]
      /\ Append(jobs[w], e)[Len(jobs[w]) + 1] = e
  BY ONLY <1>1, e \in Entry, AppendFacts
<1> QED
  BY <1>1, <1>2, SMT DEF JobsShape, Comes, OthersStay

-----------------------------------------------------------------------------
(* The shape of the streams: what a reply, a block in the queue and a       *)
(* request make of a connection.                                            *)
LEMMA StreamChanges ==
    ASSUME NEW s \in Stream
    PROVE  /\ \A x \in Seq(Request) : [s EXCEPT !.inbox = x] \in Stream
           /\ \A n \in Nat : [s EXCEPT !.queue = n] \in Stream
           /\ \A n \in Nat : [s EXCEPT !.wire = n] \in Stream
           /\ \A b \in BOOLEAN : [s EXCEPT !.closed = b] \in Stream
           /\ \A b \in BOOLEAN : [s EXCEPT !.tls = b] \in Stream
           /\ \A b \in BOOLEAN : [s EXCEPT !.note = b] \in Stream
<1>1. \A x \in Seq(Request) : [s EXCEPT !.inbox = x] \in Stream
  BY DEF Stream
<1>2. \A n \in Nat : [s EXCEPT !.queue = n] \in Stream
  BY DEF Stream
<1>3. \A n \in Nat : [s EXCEPT !.wire = n] \in Stream
  BY DEF Stream
<1>4. \A b \in BOOLEAN : [s EXCEPT !.closed = b] \in Stream
  BY DEF Stream
<1>5. \A b \in BOOLEAN : [s EXCEPT !.tls = b] \in Stream
  BY DEF Stream
<1>6. \A b \in BOOLEAN : [s EXCEPT !.note = b] \in Stream
  BY DEF Stream
<1> QED
  BY <1>1, <1>2, <1>3, <1>4, <1>5, <1>6

\* A reply takes the request away and adds to the output queue.
LEMMA ReplyShape ==
    ASSUME conn \in [Conns -> Stream], NEW c \in Conns, conn[c].inbox # <<>>, Reply(c)
    PROVE  conn' \in [Conns -> Stream]
<1>1. conn[c] \in Stream /\ conn[c].inbox \in Seq(Request) /\ conn[c].queue + 1 \in Nat
  BY SMT DEF Stream
<1>2. Tail(conn[c].inbox) \in Seq(Request)
  BY ONLY <1>1, conn[c].inbox # <<>>, TailFacts
<1> DEFINE taken == [conn[c] EXCEPT !.inbox = Tail(conn[c].inbox)]
           queued == [taken EXCEPT !.queue = conn[c].queue + 1]
           noted == [queued EXCEPT !.note = TRUE]
<1>3. conn' = [conn EXCEPT ![c] = noted]
  BY DEF Reply
<1> HIDE DEF taken, queued, noted
<1>4. taken \in Stream
  BY <1>1, <1>2, StreamChanges DEF taken
<1>5. queued \in Stream
  BY <1>1, <1>4, StreamChanges DEF queued
<1>6. noted \in Stream
  BY <1>5, StreamChanges DEF noted
<1> QED
  BY <1>3, <1>6

\* deregisterClient takes the connection out of both lists of the registry.
LEMMA DeregisterShape ==
    ASSUME SessionShape, NEW c \in Conns, deregisterClient(c)
    PROVE  clients' \subseteq Users \X Conns /\ subs' \in [Event -> SUBSET Conns]
BY DEF SessionShape, deregisterClient, EventDrop

\* The connection steps of the i-th worker at work on c
LEMMA ConnectionShape ==
    ASSUME ShapeInv, SessionInv, NEW c \in Conns, NEW i \in DOMAIN jobs[c], ConnectionStep(c, i)
    PROVE  ShapeInv'
<1> USE DEF ShapeInv
<1>a. JobsShape /\ c \in Waitables /\ jobs[c][i] \in Entry
  BY SMT DEF JobsShape, Waitables
<1>b. conn[c] \in Stream /\ (conn[c].inbox # <<>> => Head(conn[c].inbox) \in Request
                                                     /\ Tail(conn[c].inbox) \in Seq(Request))
  <2>1. conn[c] \in Stream /\ conn[c].inbox \in Seq(Request)
    BY DEF Stream
  <2> QED
    BY ONLY <2>1, TailFacts
<1>1. CASE Handshake(c, i)
  <2>1. jobs' \in [Waitables -> Seq(Entry)] /\ events' \in [Waitables -> SUBSET PollEvent]
    <3>1. CASE UNCHANGED <<jobs, events>>
      BY <3>1
    <3>2. CASE Return(c, i, {"in"}) \/ Return(c, i, {})
      <4>1. Becomes(c, i, [at |-> "finish", arg |-> jobs[c][i].arg])
        BY <3>2, <1>a, JobGoes DEF Return, At
      <4> QED
        BY <3>2, <4>1 DEF Return, Becomes, PollEvent
    <3> QED
      BY <1>1, <3>1, <3>2 DEF Handshake
  <2>2. conn' \in [Conns -> Stream]
    <3>1. CASE UNCHANGED conn
      BY <3>1
    <3>2. CASE conn[c].inbox # <<>> /\ conn' = [conn EXCEPT ![c].inbox = Tail(@), ![c].tls = TRUE]
      <4>1. conn'[c] = [conn[c] EXCEPT !.inbox = Tail(conn[c].inbox), !.tls = TRUE]
        BY <3>2
      <4>2. conn'[c] \in Stream
        BY <1>b, <3>2, <4>1 DEF Stream
      <4> QED
        BY <3>2, <4>2
    <3> QED
      BY <1>1, <3>1, <3>2 DEF Handshake
  <2> QED
    BY <1>1, <2>1, <2>2 DEF Handshake, setVars, senderVars, sessionVars, SessionShape
<1>2. CASE AuthWrong(c, i)
  <2>1. conn' \in [Conns -> Stream]
    BY <1>2, ReplyShape DEF AuthWrong, Receive
  <2> QED
    BY <1>2, <2>1 DEF AuthWrong, Receive, setVars, sessionVars, SessionShape
<1>3. CASE AuthBegin(c, i)
  <2>1. Head(conn[c].inbox).arg \in Users \cup {Nobody}
    BY <1>3, <1>b DEF AuthBegin, Receive, Request
  <2>2. [at |-> "auth", arg |-> Head(conn[c].inbox).arg] \in Entry
    BY <2>1 DEF Entry, At
  <2>3. jobs' \in [Waitables -> Seq(Entry)]
    BY <1>3, <1>a, <2>2, JobBecomes DEF AuthBegin, Becomes
  <2>4. SessionShape'
    BY <1>3, DeregisterShape DEF AuthBegin, AuthForget, SessionShape, sessionVars
  <2> QED
    BY <1>3, <2>3, <2>4 DEF AuthBegin, Receive, setVars
<1>4. CASE AuthEnd(c, i)
  <2>1. conn[c].inbox # <<>> /\ jobs[c][i].arg \in Users
    BY <1>4 DEF AuthEnd, Job, SessionInv, AskedInv, Asked
  <2>2. conn' \in [Conns -> Stream]
    BY <1>4, <2>1, ReplyShape DEF AuthEnd
  <2>3. [at |-> "process", arg |-> Nobody] \in Entry
    BY DEF Entry, At
  <2>4. jobs' \in [Waitables -> Seq(Entry)]
    BY <1>4, <1>a, <2>3, JobBecomes DEF AuthEnd, Becomes
  <2>5. SessionShape'
    BY <1>4, <2>1, SMT DEF AuthEnd, AuthRegister, SessionShape, getPermissions
  <2> QED
    BY <1>4, <2>2, <2>4, <2>5 DEF AuthEnd, setVars, senderVars
<1>5. CASE EventMap(c, i)
  <2>1. conn[c].inbox # <<>> /\ Head(conn[c].inbox).arg \in Event
    BY <1>5, <1>b DEF EventMap, Receive, Request
  <2>2. conn' \in [Conns -> Stream]
    BY <1>5, <2>1, ReplyShape DEF EventMap
  <2>3. SessionShape'
    <3>1. ASSUME NEW e \in Event, Subscribe(c, e) \/ Unsubscribe(c, e)
          PROVE  SessionShape'
      <4>1. EventAdd(e, c) \in SUBSET Conns /\ EventDrop(e, c) \in SUBSET Conns
        BY DEF EventAdd, EventDrop, SessionShape
      <4> QED
        BY <3>1, <4>1 DEF Subscribe, Unsubscribe, SessionShape
    <3> QED
      BY <1>5, <2>1, <3>1 DEF EventMap
  <2> QED
    BY <1>5, <2>2, <2>3 DEF EventMap, Receive, setVars
<1>6. CASE Post(c, i)
  <2>1. conn' \in [Conns -> Stream]
    BY <1>6, ReplyShape DEF Post, Receive
  <2>2. jobs' \in [Waitables -> Seq(Entry)]
    <3>1. ASSUME Go(c, i, "wait") PROVE jobs' \in [Waitables -> Seq(Entry)]
      BY <3>1, <1>a, JobGoes DEF Becomes, At
    <3> QED
      BY <1>6, <3>1 DEF Post
  <2>3. mq' \in Seq(Conns \cup {NULL})
    <3>1. c \in Conns \cup {NULL} /\ mq \in Seq(Conns \cup {NULL})
      OBVIOUS
    <3>2. Append(mq, c) \in Seq(Conns \cup {NULL})
      BY ONLY <3>1, AppendFacts
    <3> QED
      BY <1>6, <3>2 DEF Post
  <2> QED
    BY <1>6, <2>1, <2>2, <2>3 DEF Post, Receive, setVars, sessionVars, SessionShape
<1>7. CASE PostReply(c, i)
  <2>1. conn[c].inbox # <<>>
    BY <1>7 DEF PostReply, Job, SessionInv, AskedInv, Asked
  <2>2. conn' \in [Conns -> Stream]
    BY <1>7, <2>1, ReplyShape DEF PostReply
  <2>3. jobs' \in [Waitables -> Seq(Entry)]
    BY <1>7, <1>a, JobGoes DEF PostReply, Becomes, At
  <2> QED
    BY <1>7, <2>2, <2>3 DEF PostReply, setVars, senderVars, sessionVars, SessionShape
<1>8. CASE ReadEnds(c, i)
  <2>1. conn' \in [Conns -> Stream]
    <3>1. [conn[c] EXCEPT !.note = FALSE] \in Stream
      BY <1>b DEF Stream
    <3> QED
      BY <1>8, <3>1 DEF ReadEnds
  <2>2. jobs' \in [Waitables -> Seq(Entry)] /\ events' \in [Waitables -> SUBSET PollEvent]
    <3>1. CASE Return(c, i, {})
      BY <3>1, <1>a, JobGoes DEF Return, Becomes, At
    <3>2. CASE Go(c, i, "write") /\ UNCHANGED events
      BY <3>2, <1>a, JobGoes DEF Becomes, At
    <3> QED
      BY <1>8, <3>1, <3>2 DEF ReadEnds
  <2> QED
    BY <1>8, <2>1, <2>2 DEF ReadEnds, setVars, senderVars, sessionVars, SessionShape
<1>9. CASE WriteOne(c, i)
  <2>1. [conn[c] EXCEPT !.queue = conn[c].queue - 1, !.wire = conn[c].wire + 1] \in Stream
    BY <1>9, <1>b, SMT DEF Stream, WriteOne
  <2>2. conn' \in [Conns -> Stream]
    BY <1>9, <2>1 DEF WriteOne
  <2> QED
    BY <1>9, <2>2 DEF WriteOne, setVars, workerVars, senderVars, sessionVars, SessionShape
<1>10. CASE WriteEnds(c, i) \/ WriteStops(c, i)
  <2>1. Return(c, i, {"in", "note"}) \/ Return(c, i, {}) \/ Return(c, i, {"in", "out"})
    BY <1>10 DEF WriteEnds, WriteStops
  <2>2. Go(c, i, "finish") /\ events' \in [Waitables -> SUBSET PollEvent]
    <3>1. ASSUME NEW res \in SUBSET PollEvent, Return(c, i, res)
          PROVE  Go(c, i, "finish") /\ events' \in [Waitables -> SUBSET PollEvent]
      BY <3>1 DEF Return
    <3> QED
      BY <2>1, <3>1 DEF PollEvent
  <2>3. jobs' \in [Waitables -> Seq(Entry)]
    BY <2>2, <1>a, JobGoes DEF Becomes, At
  <2> QED
    BY <1>10, <2>2, <2>3 DEF WriteEnds, WriteStops, setVars, senderVars, sessionVars, SessionShape
<1> QED
  BY <1>1, <1>2, <1>3, <1>4, <1>5, <1>6, <1>7, <1>8, <1>9, <1>10 DEF ConnectionStep

\* The steps of the selector
LEMMA SelectorShape ==
    ASSUME ShapeInv, SelectorInv, SelectorStep \/ Poll \/ PollInterrupted
    PROVE  ShapeInv'
<1> USE DEF ShapeInv
<1>1. ASSUME NEW w \in Waitables, NEW free, HandTo(w, free)
      PROVE  jobs' \in [Waitables -> Seq(Entry)] /\ sel' \in Selector
  <2>1. [at |-> "process", arg |-> Nobody] \in Entry
    BY DEF Entry, At
  <2>2. jobs' \in [Waitables -> Seq(Entry)]
    BY <1>1, <2>1, JobComes DEF HandTo, JobsShape, Comes
  <2>3. sel' \in Selector
    <3>1. sel.ready \ {w} \in SUBSET Waitables /\ NextRound(sel.ready \ {w}) \in {"scan", "dispatch"}
      BY DEF NextRound, Selector
    <3>2. CASE sel' = [sel EXCEPT !.at = NextRound(sel.ready \ {w}), !.ready = @ \ {w}, !.cur = NULL]
      BY <3>1, <3>2 DEF Selector
    <3>3. CASE sel' = [sel EXCEPT !.at = "hand", !.ready = @ \ {w}, !.cur = w]
      BY <3>1, <3>3 DEF Selector
    <3> QED
      BY <1>1, <3>2, <3>3 DEF HandTo
  <2> QED
    BY <2>2, <2>3
<1>2. Look \in Selector
  <2>1. [w \in Waitables |-> IF w \in members THEN events[w] ELSE {}] \in [Waitables -> SUBSET PollEvent]
    OBVIOUS
  <2> QED
    BY <2>1 DEF Look, Selector
<1>3. CASE Scan \/ PollInterrupted
  BY <1>2, <1>3 DEF Scan, PollInterrupted, setVars, workerVars, senderVars, sessionVars, SessionShape
<1>4. CASE Poll
  <2>1. sel' \in Selector
    BY <1>4 DEF Poll, Selector, NextRound
  <2> QED
    BY <1>4, <2>1 DEF Poll, setVars, workerVars, senderVars, sessionVars, SessionShape
<1>5. ASSUME NEW w \in Waitables, Dispatch(w)
      PROVE  ShapeInv'
  BY <1>1, <1>5 DEF Dispatch, setVars, senderVars, sessionVars, SessionShape
<1>6. CASE HandOver
  <2>1. sel.cur \in Waitables
    BY <1>6 DEF HandOver, SelectorInv, Selector
  <2> QED
    BY <1>1, <1>6, <2>1 DEF HandOver, setVars, senderVars, sessionVars, SessionShape
<1>7. CASE DestroyWorker
  <2>1. sel' \in Selector
    BY <1>7 DEF DestroyWorker, Selector
  <2> QED
    BY <1>7, <2>1 DEF DestroyWorker, setVars, senderVars, sessionVars, SessionShape
<1> QED
  BY <1>3, <1>4, <1>5, <1>6, <1>7 DEF SelectorStep

\* The other steps of a worker
LEMMA WaitableShape ==
    ASSUME ShapeInv, NEW w \in Waitables, NEW i \in DOMAIN jobs[w],
           (w = Listener /\ (Accept(i) \/ AcceptFails(i))) \/ WaitableStep(w, i)
    PROVE  ShapeInv'
<1> USE DEF ShapeInv
<1>1. ASSUME NEW at \in At, Go(w, i, at)
      PROVE  jobs' \in [Waitables -> Seq(Entry)]
  BY <1>1, JobGoes DEF JobsShape, Becomes
<1>2. ASSUME Leave(w, i)
      PROVE  jobs' \in [Waitables -> Seq(Entry)]
  BY <1>2, JobLeaves DEF JobsShape, Leaves
<1>3. CASE w = Listener /\ Accept(i)
  <2>1. PICK c \in Conns : /\ life' = [life EXCEPT ![c] = "open"]
                           /\ events' = [events EXCEPT ![c] = {"in", "out"}, ![Listener] = {"in"}]
                           /\ Add(c)
    BY <1>3 DEF Accept
  <2>2. {"in", "out"} \in SUBSET PollEvent /\ {"in"} \in SUBSET PollEvent /\ c \in Waitables
    BY DEF PollEvent, Waitables
  <2>3. events' \in [Waitables -> SUBSET PollEvent]
    BY <2>1, <2>2
  <2>4. members' \subseteq Waitables /\ life' \in [Waitables -> {"none", "connecting", "open", "deleted"}]
    BY <2>1, <2>2 DEF Add
  <2>5. jobs' \in [Waitables -> Seq(Entry)]
    BY <1>1, <1>3 DEF Accept, At
  <2> QED
    BY <1>3, <2>3, <2>4, <2>5 DEF Accept, senderVars, sessionVars, SessionShape
<1>4. CASE w = Listener /\ AcceptFails(i)
  BY <1>1, <1>4 DEF AcceptFails, Return, At, PollEvent, setVars, senderVars, sessionVars, SessionShape
<1>5. CASE Finish(w, i)
  BY <1>2, <1>5 DEF Finish, setVars, senderVars, sessionVars, SessionShape
<1>6. CASE Remove(w, i)
  BY <1>1, <1>6 DEF Remove, At, senderVars, sessionVars, SessionShape
<1>7. CASE Delete(w, i)
  <2>1. SessionShape'
    BY <1>7, DeregisterShape DEF Delete, SessionShape, Waitables
  <2> QED
    BY <1>2, <1>7, <2>1 DEF Delete, senderVars
<1> QED
  BY <1>3, <1>4, <1>5, <1>6, <1>7 DEF WaitableStep

\* The steps of the senders, of main and of the clients
LEMMA SenderShape ==
    ASSUME ShapeInv,
           SenderStep \/ MainStep \/ TimedSend \/ Shutdown
           \/ \E c \in Conns : \/ Connect(c) \/ Close(c) \/ ReadOutput(c)
                               \/ \E r \in Request : Send(c, r)
    PROVE  ShapeInv'
<1> USE DEF ShapeInv
<1>0. \A u, test : broadcastEvent(u, test) \in SUBSET Conns
  BY DEF broadcastEvent
<1>1. CASE HandleMessage
  <2>1. mq \in Seq(Conns \cup {NULL}) /\ mq # <<>>
    BY <1>1 DEF HandleMessage
  <2>2. Tail(mq) \in Seq(Conns \cup {NULL}) /\ Head(mq) \in Conns \cup {NULL}
    BY ONLY <2>1, TailFacts
  <2>3. bc' \in Sender
    BY <1>0, <1>1, <2>2 DEF HandleMessage, Begin, Sender
  <2> QED
    BY <1>1, <2>2, <2>3 DEF HandleMessage, Begin, setVars, workerVars, sessionVars, SessionShape
<1>2. CASE HandlerEnds
  <2>1. mq \in Seq(Conns \cup {NULL}) /\ mq # <<>>
    BY <1>2 DEF HandlerEnds
  <2>2. Tail(mq) \in Seq(Conns \cup {NULL})
    BY ONLY <2>1, TailFacts
  <2> QED
    BY <1>2, <2>2 DEF HandlerEnds, setVars, workerVars, sessionVars, SessionShape
<1>3. CASE TimedSend
  <2>1. bc' \in Sender
    BY <1>0, <1>3, SMT DEF TimedSend, Begin, Sender, triggerEvent, SessionShape
  <2> QED
    BY <1>3, <2>1 DEF TimedSend, Begin, setVars, workerVars, sessionVars, SessionShape
<1>4. ASSUME NEW c \in Conns, SendEnqueue(c) \/ SendNotify(c) PROVE ShapeInv'
  <2>1. conn[c] \in Stream
    OBVIOUS
  <2>2. [conn[c] EXCEPT !.queue = conn[c].queue + 1] \in Stream /\ [conn[c] EXCEPT !.note = TRUE] \in Stream
    <3>1. conn[c].queue + 1 \in Nat
      BY <2>1, SMT DEF Stream
    <3> QED
      BY <2>1, <3>1, StreamChanges
  <2>3. conn' \in [Conns -> Stream]
    BY <1>4, <2>2 DEF SendEnqueue, SendNotify
  <2>4. bc' \in Sender
    <3>1. ASSUME NEW todo \in SUBSET Conns, NEW half \in SUBSET Conns
          PROVE  [bc EXCEPT !.todo = todo, !.half = half] \in Sender /\ [bc EXCEPT !.half = half] \in Sender
      BY DEF Sender
    <3>2. bc.todo \in SUBSET Conns
      BY DEF Sender
    <3>3. CASE SendEnqueue(c)
      BY <3>1, <3>2, <3>3 DEF SendEnqueue
    <3>4. CASE SendNotify(c)
      BY <3>1, <3>4 DEF SendNotify
    <3> QED
      BY <1>4, <3>3, <3>4
  <2> QED
    BY <1>4, <2>3, <2>4 DEF SendEnqueue, SendNotify, setVars, workerVars, sessionVars, SessionShape
<1>5. CASE SendEnd
  <2>1. ASSUME NEW w \in Waitables PROVE jobs'[w] \in Seq(Entry)
    <3>1. jobs[w] \in Seq(Entry) /\ \A i \in DOMAIN jobs[w] : jobs[w][i] \in Entry
      BY SMT
    <3>2. ASSUME NEW e \in Entry PROVE [e EXCEPT !.at = "reply"] \in Entry
      BY <3>1 DEF Entry, At
    <3>3. CASE w # bc.by
      BY <1>5, <3>1, <3>3 DEF SendEnd
    <3>4. CASE w = bc.by
      <4> DEFINE next(i) == IF jobs[w][i].at = "wait" THEN [jobs[w][i] EXCEPT !.at = "reply"]
                            ELSE jobs[w][i]
      <4>1. jobs'[w] = [i \in DOMAIN jobs[w] |-> next(i)]
        BY <1>5, <3>4 DEF SendEnd
      <4>2. \A i \in DOMAIN jobs[w] : next(i) \in Entry
        BY <3>1, <3>2
      <4>3. DOMAIN jobs[w] = 1..Len(jobs[w]) /\ Len(jobs[w]) \in Nat
        BY <3>1, SMT
      <4> HIDE DEF next
      <4> QED
        BY <4>1, <4>2, <4>3, SMT
    <3> QED
      BY <3>3, <3>4
  <2>2. jobs' \in [Waitables -> Seq(Entry)]
    BY <1>5, <2>1 DEF SendEnd
  <2>3. bc' \in Sender
    BY <1>5 DEF SendEnd, Sender
  <2> QED
    BY <1>5, <2>2, <2>3 DEF SendEnd, setVars, sessionVars, SessionShape
<1>6. CASE QueueNull
  <2>1. NULL \in Conns \cup {NULL} /\ mq \in Seq(Conns \cup {NULL})
    OBVIOUS
  <2>2. Append(mq, NULL) \in Seq(Conns \cup {NULL})
    BY ONLY <2>1, AppendFacts
  <2> QED
    BY <1>6, <2>2 DEF QueueNull, setVars, workerVars, sessionVars, SessionShape
<1>7. CASE DeleteAll
  BY <1>7 DEF DeleteAll, workerVars, SessionShape
<1>8. CASE Shutdown
  BY <1>8 DEF Shutdown, workerVars, sessionVars, SessionShape
<1>9. ASSUME NEW c \in Conns,
             Connect(c) \/ Close(c) \/ ReadOutput(c) \/ \E r \in Request : Send(c, r)
      PROVE  ShapeInv'
  <2>1. conn[c] \in Stream /\ conn[c].inbox \in Seq(Request)
    BY DEF Stream
  <2>2. CASE Connect(c)
    BY <2>2 DEF Connect, workerVars, senderVars, sessionVars, SessionShape, Waitables
  <2>3. CASE Close(c)
    <3>1. [conn[c] EXCEPT !.closed = TRUE] \in Stream
      BY <2>1 DEF Stream
    <3> QED
      BY <2>3, <3>1 DEF Close, setVars, workerVars, senderVars, sessionVars, SessionShape
  <2>4. CASE ReadOutput(c)
    <3>1. conn[c].wire - 1 \in Nat
      BY <2>1, <2>4, SMT DEF Stream, ReadOutput
    <3>2. [conn[c] EXCEPT !.wire = conn[c].wire - 1] \in Stream
      BY <2>1, <3>1, StreamChanges
    <3> QED
      BY <2>4, <3>2 DEF ReadOutput, setVars, workerVars, senderVars, sessionVars, SessionShape
  <2>5. ASSUME NEW r \in Request, Send(c, r) PROVE ShapeInv'
    <3>1. Append(conn[c].inbox, r) \in Seq(Request)
      BY ONLY <2>1, r \in Request, AppendFacts
    <3>2. [conn[c] EXCEPT !.inbox = Append(conn[c].inbox, r)] \in Stream
      BY <2>1, <3>1 DEF Stream
    <3> QED
      BY <2>5, <3>2 DEF Send, setVars, workerVars, senderVars, sessionVars, SessionShape
  <2> QED
    BY <1>9, <2>2, <2>3, <2>4, <2>5
<1> QED
  BY <1>1, <1>2, <1>3, <1>4, <1>5, <1>6, <1>7, <1>8, <1>9 DEF SenderStep, MainStep

-----------------------------------------------------------------------------
(* Who holds a waitable.  One that a step does not concern keeps its state. *)
LEMMA OwnStays ==
    ASSUME NEW x \in Waitables, Own(x), ~crossed, jobs'[x] = jobs[x], sel' = sel,
           events'[x] = events[x], x \in members' <=> x \in members, life'[x] = life[x]
    PROVE  Own(x)'
BY DEF Own, OneServes, Served, Awaited

\* A worker goes on serving, or returns with new events
LEMMA OwnServes ==
    ASSUME JobsShape, NEW w \in Waitables, NEW i \in DOMAIN jobs[w], NEW e \in Entry,
           Own(w), ~crossed, jobs[w][i].at \in Serving, Becomes(w, i, e),
           (e.at \in Serving /\ events'[w] = events[w]) \/ e.at = "finish",
           UNCHANGED sel, w \in members' <=> w \in members, life'[w] = life[w]
    PROVE  Own(w)'
<1>1. Served(w) /\ events[w] = {} /\ sel.cur # w /\ ~Awaited(w)
  BY DEF Own, Served
<1>2. \A j \in DOMAIN jobs[w] : jobs[w][j].at \in Serving => j = i
  BY DEF Own, OneServes
<1>3. \A j \in DOMAIN jobs'[w] : jobs'[w][j].at \in Serving => j = i /\ e.at \in Serving
  BY <1>2 DEF Becomes
<1>4. OneServes(w)'
  BY <1>3 DEF OneServes
<1>5. Served(w)' => e.at \in Serving
  BY <1>3 DEF Served
<1>6. ~Awaited(w)'
  BY <1>1 DEF Awaited
<1>7. \A j \in DOMAIN jobs'[w] : jobs'[w][j].at = "delete" => w \notin members'
  BY DEF Becomes, Own, Serving
<1>8. jobs[w] # <<>>
  BY SMT
<1>9. "finish" \notin Serving
  BY DEF Serving
<1> QED
  BY <1>1, <1>4, <1>5, <1>6, <1>7, <1>8, <1>9 DEF Own

\* The workers that are left when one of them leaves are those there were
LEMMA LeavesOthers ==
    ASSUME JobsShape, NEW w \in Waitables, NEW i \in DOMAIN jobs[w], Leaves(w, i)
    PROVE  \A j \in DOMAIN jobs'[w] : \E k \in DOMAIN jobs[w] :
              jobs'[w][j] = jobs[w][k] /\ k = IF j < i THEN j ELSE j + 1
<1>1. jobs[w] \in Seq(Entry) /\ i \in 1..Len(jobs[w]) /\ Len(jobs[w]) \in Nat
      /\ DOMAIN jobs[w] = 1..Len(jobs[w])
  BY SMT DEF JobsShape
<1>2. ASSUME NEW j \in DOMAIN jobs'[w]
      PROVE  \E k \in DOMAIN jobs[w] : jobs'[w][j] = jobs[w][k] /\ k = IF j < i THEN j ELSE j + 1
  <2>1. j \in 1..(Len(jobs[w]) - 1)
    BY DEF Leaves
  <2>2. (IF j < i THEN j ELSE j + 1) \in DOMAIN jobs[w]
    BY <1>1, <2>1, SMT
  <2> QED
    BY <2>2 DEF Leaves
<1> QED
  BY <1>2

\* A worker that leaves a waitable does not give it a second owner.
LEMMA OwnLeaves ==
    ASSUME JobsShape, NEW w \in Waitables, NEW i \in DOMAIN jobs[w], Own(w), ~crossed, Leaves(w, i),
           UNCHANGED sel, events'[w] = events[w], w \in members' <=> w \in members,
           life'[w] = life[w] \/ (w \notin members /\ (~crossed' => jobs'[w] = <<>> /\ sel.cur # w))
    PROVE  Own(w)'
<1>1. \A j \in DOMAIN jobs'[w] : \E k \in DOMAIN jobs[w] :
         jobs'[w][j] = jobs[w][k] /\ k = IF j < i THEN j ELSE j + 1
  BY LeavesOthers
<1>2. Served(w)' => Served(w)
  BY <1>1 DEF Served
<1>3. OneServes(w)'
  <2>1. i \in Nat /\ \A j \in DOMAIN jobs'[w] : j \in Nat
    BY SMT DEF Leaves, JobsShape
  <2>2. ASSUME NEW j \in DOMAIN jobs'[w], NEW k \in DOMAIN jobs'[w],
               jobs'[w][j].at \in Serving, jobs'[w][k].at \in Serving
        PROVE  j = k
    <3>1. (IF j < i THEN j ELSE j + 1) = (IF k < i THEN k ELSE k + 1)
      BY <1>1, <2>2 DEF Own, OneServes
    <3> QED
      BY <2>1, <3>1, SMT
  <2> QED
    BY <2>2 DEF OneServes
<1>4. \A j \in DOMAIN jobs'[w] : jobs'[w][j].at = "delete" => w \notin members'
  BY <1>1 DEF Own
<1>5. Awaited(w)' <=> Awaited(w)
  BY DEF Awaited
<1>6. jobs[w] # <<>>
  BY SMT
<1> QED
  BY <1>2, <1>3, <1>4, <1>5, <1>6 DEF Own

\* A worker is added to a waitable that nobody serves
LEMMA OwnComes ==
    ASSUME JobsShape, NEW w \in Waitables, NEW e \in Entry, Own(w), ~crossed, ~Served(w), Comes(w, e),
           e.at = "process", life[w] = "open", events'[w] = {}, sel'.cur # w, ~Awaited(w)',
           UNCHANGED <<members, life, crossed>>
    PROVE  Own(w)'
<1>1. jobs[w] \in Seq(Entry) /\ Len(jobs[w]) \in Nat /\ DOMAIN jobs[w] = 1..Len(jobs[w])
  BY SMT DEF JobsShape
<1>2. \A j \in DOMAIN jobs'[w] : j \in DOMAIN jobs[w] \/ j = Len(jobs[w]) + 1
  BY <1>1, SMT DEF Comes
<1>3. \A j \in DOMAIN jobs'[w] : jobs'[w][j].at \in Serving => j = Len(jobs[w]) + 1
  BY <1>2 DEF Comes, Served
<1>4. \A j \in DOMAIN jobs'[w] : jobs'[w][j].at = "delete" => w \notin members'
  BY <1>2 DEF Comes, Own
<1>5. OneServes(w)'
  BY <1>3 DEF OneServes
<1> QED
  BY <1>4, <1>5 DEF Own

(* What the connection steps of a worker do to its job.                     *)
LEMMA ConnectionJobs ==
    ASSUME ShapeInv, NEW c \in Conns, NEW i \in DOMAIN jobs[c], ConnectionStep(c, i)
    PROVE  /\ jobs[c][i].at \in Serving /\ UNCHANGED <<members, life, sel, crossed, idle, total>>
           /\ \A x \in Waitables \ {c} : events'[x] = events[x]
           /\ \E e \in Entry : /\ Becomes(c, i, e)
                               /\ (e.at \in Serving /\ events'[c] = events[c]) \/ e.at = "finish"
<1>a. JobsShape /\ c \in Waitables /\ jobs[c][i] \in Entry /\ events \in [Waitables -> SUBSET PollEvent]
  BY SMT DEF JobsShape, Waitables, ShapeInv
<1> DEFINE To(at) == [at |-> at, arg |-> jobs[c][i].arg]
<1>b. ASSUME NEW at \in At PROVE To(at) \in Entry /\ To(at).at = at
  BY <1>a DEF Entry
<1>c. ASSUME UNCHANGED jobs PROVE Becomes(c, i, jobs[c][i])
  BY <1>c, <1>a DEF Becomes, OthersStay, JobsShape
<1>d. ASSUME NEW at \in At, Go(c, i, at) PROVE Becomes(c, i, To(at))
  BY <1>a, <1>d, JobGoes
<1>e. ASSUME NEW res, Return(c, i, res)
      PROVE  Becomes(c, i, To("finish")) /\ \A x \in Waitables \ {c} : events'[x] = events[x]
  BY <1>a, <1>d, <1>e DEF Return, At
<1> HIDE DEF To
<1> USE DEF setVars, workerVars, senderVars
<1>1. CASE Handshake(c, i)
  <2>1. jobs[c][i].at \in Serving /\ UNCHANGED <<members, life, sel, crossed, idle, total>>
    BY <1>1 DEF Handshake, Job, Serving
  <2>2. CASE UNCHANGED <<jobs, events>>
    BY <1>a, <1>c, <2>1, <2>2
  <2>3. CASE Return(c, i, {"in"}) \/ Return(c, i, {})
    BY <1>b, <1>e, <2>1, <2>3 DEF At
  <2> QED
    BY <1>1, <2>2, <2>3 DEF Handshake
<1>2. CASE AuthWrong(c, i) \/ EventMap(c, i) \/ WriteOne(c, i)
  BY <1>a, <1>c, <1>2 DEF AuthWrong, EventMap, WriteOne, Receive, Job, Serving
<1>3. CASE AuthBegin(c, i)
  <2> DEFINE e == [at |-> "auth", arg |-> Head(conn[c].inbox).arg]
  <2>1. conn[c].inbox \in Seq(Request) /\ conn[c].inbox # <<>> /\ Head(conn[c].inbox).kind = "auth"
    BY <1>3 DEF AuthBegin, Receive, ShapeInv, Stream
  <2>2. Head(conn[c].inbox) \in Request
    BY ONLY <2>1, TailFacts
  <2>3. e \in Entry /\ e.at = "auth"
    BY <2>1, <2>2 DEF Request, Entry, At
  <2>4. jobs' = [jobs EXCEPT ![c][i] = e]
    BY <1>3 DEF AuthBegin
  <2> HIDE DEF e
  <2>5. Becomes(c, i, e)
    BY <1>a, <2>3, <2>4, JobBecomes
  <2> QED
    BY <1>3, <2>3, <2>5 DEF AuthBegin, Receive, Job, Serving
<1>4. CASE AuthEnd(c, i)
  <2> DEFINE e == [at |-> "process", arg |-> Nobody]
  <2>1. e \in Entry /\ e.at = "process"
    BY DEF Entry, At
  <2>2. jobs' = [jobs EXCEPT ![c][i] = e]
    BY <1>4 DEF AuthEnd
  <2> HIDE DEF e
  <2>3. Becomes(c, i, e)
    BY <1>a, <2>1, <2>2, JobBecomes
  <2> QED
    BY <1>4, <2>1, <2>3 DEF AuthEnd, Job, Serving
<1>5. CASE Post(c, i)
  <2>1. jobs[c][i].at \in Serving /\ UNCHANGED <<members, life, sel, crossed, idle, total, events>>
    BY <1>5 DEF Post, Receive, Job, Serving
  <2>2. CASE UNCHANGED jobs
    BY <1>a, <1>c, <2>1, <2>2
  <2>3. CASE Go(c, i, "wait")
    BY <1>b, <1>d, <2>1, <2>3 DEF At, Serving
  <2> QED
    BY <1>5, <2>2, <2>3 DEF Post
<1>6. CASE PostReply(c, i)
  BY <1>b, <1>d, <1>6 DEF PostReply, Job, At, Serving
<1>7. CASE ReadEnds(c, i)
  <2>1. jobs[c][i].at \in Serving /\ UNCHANGED <<members, life, sel, crossed, idle, total>>
    BY <1>7 DEF ReadEnds, Job, Serving
  <2>2. CASE Return(c, i, {})
    BY <1>b, <1>e, <2>1, <2>2 DEF At
  <2>3. CASE Go(c, i, "write") /\ UNCHANGED events
    BY <1>b, <1>d, <2>1, <2>3 DEF At, Serving
  <2> QED
    BY <1>7, <2>2, <2>3 DEF ReadEnds
<1>8. CASE WriteEnds(c, i) \/ WriteStops(c, i)
  <2>1. jobs[c][i].at \in Serving /\ UNCHANGED <<members, life, sel, crossed, idle, total>>
    BY <1>8 DEF WriteEnds, WriteStops, Job, Serving
  <2>2. Return(c, i, {"in", "note"}) \/ Return(c, i, {}) \/ Return(c, i, {"in", "out"})
    BY <1>8 DEF WriteEnds, WriteStops
  <2> QED
    BY <1>b, <1>e, <2>1, <2>2 DEF At
<1> QED
  BY <1>1, <1>2, <1>3, <1>4, <1>5, <1>6, <1>7, <1>8 DEF ConnectionStep

\* The selector holds what it has found ready until it has handed it out
LEMMA SelectorNext ==
    ASSUME ShapeInv, SelectorInv, Next
    PROVE  SelectorInv'
<1> USE DEF ShapeInv, SelectorInv
<1>1. ASSUME NEW w \in Waitables, NEW free, sel.at \in {"dispatch", "hand"}, HandTo(w, free)
      PROVE  SelectorInv'
  <2>1. w # NULL /\ sel \in Selector
    BY PoolAssumption DEF Waitables
  <2>2. CASE sel' = [sel EXCEPT !.at = NextRound(sel.ready \ {w}), !.ready = @ \ {w}, !.cur = NULL]
    BY <2>1, <2>2 DEF Selector, NextRound
  <2>3. CASE sel' = [sel EXCEPT !.at = "hand", !.ready = @ \ {w}, !.cur = w]
    BY <2>1, <2>3 DEF Selector
  <2> QED
    BY <1>1, <2>2, <2>3 DEF HandTo
<1>2. CASE Scan \/ PollInterrupted
  BY <1>2 DEF Scan, PollInterrupted, Look, Selector
<1>3. CASE Poll
  BY <1>3 DEF Poll, Selector, NextRound
<1>4. ASSUME NEW w \in Waitables, Dispatch(w) PROVE SelectorInv'
  BY <1>1, <1>4, SMT DEF Dispatch
<1>5. CASE HandOver
  BY <1>1, <1>5, SMT DEF HandOver, Selector
<1>6. CASE DestroyWorker
  BY <1>6 DEF DestroyWorker, Selector
<1>7. CASE SenderStep \/ MainStep \/ TimedSend \/ Shutdown
  BY <1>7 DEF SenderStep, HandleMessage, HandlerEnds, SendEnd, SendEnqueue, SendNotify, Begin,
              MainStep, QueueNull, DeleteAll, TimedSend, Shutdown
<1>8. ASSUME NEW c \in Conns,
             Connect(c) \/ Close(c) \/ ReadOutput(c) \/ \E r \in Request : Send(c, r)
      PROVE  SelectorInv'
  BY <1>8 DEF Connect, Close, ReadOutput, Send
<1>9. ASSUME NEW w \in Waitables, WorkerStep(w) PROVE SelectorInv'
  <2>1. PICK i \in DOMAIN jobs[w] : \/ w = Listener /\ (Accept(i) \/ AcceptFails(i))
                                    \/ w \in Conns /\ ConnectionStep(w, i)
                                    \/ WaitableStep(w, i)
    BY <1>9 DEF WorkerStep
  <2>2. sel' = sel
    BY <2>1, ConnectionJobs DEF Accept, AcceptFails, WaitableStep, Finish, Remove, Delete
  <2> QED
    BY <2>2
<1> QED
  BY <1>2, <1>3, <1>4, <1>5, <1>6, <1>7, <1>8, <1>9 DEF Next, ServerStep, SelectorStep

\* Handing out a waitable that nobody serves
LEMMA OwnHandTo ==
    ASSUME ShapeInv, SelectorInv, OwnInv, ~crossed, NEW w \in Waitables, NEW free, HandTo(w, free),
           sel.at \in {"dispatch", "hand"}, ~Served(w), life[w] = "open",
           events' = [events EXCEPT ![w] = {}], sel.cur \in {w, NULL},
           UNCHANGED <<members, life, crossed>>
    PROVE  OwnInv'
<1> DEFINE e == [at |-> "process", arg |-> Nobody]
<1>1. JobsShape /\ e \in Entry /\ e.at = "process" /\ sel \in Selector
  BY DEF JobsShape, ShapeInv, Entry, At
<1>2. Own(w)
  BY DEF OwnInv
<1>3. events'[w] = {} /\ \A x \in Waitables \ {w} : events'[x] = events[x]
  BY DEF ShapeInv
<1>4. w # NULL /\ \A x \in Waitables : x # NULL
  BY PoolAssumption DEF Waitables
<1>5. CASE free > 0
  <2>1. sel' = [sel EXCEPT !.at = NextRound(sel.ready \ {w}), !.ready = @ \ {w}, !.cur = NULL]
    BY <1>5 DEF HandTo
  <2>2. sel'.at # "poll" /\ sel'.ready = sel.ready \ {w} /\ sel'.cur = NULL
    BY <1>1, <2>1 DEF Selector, NextRound
  <2>3. jobs' = [jobs EXCEPT ![w] = Append(@, e)]
    BY <1>5 DEF HandTo
  <2> HIDE DEF e
  <2>4. Comes(w, e)
    BY <1>1, <2>3, JobComes
  <2>5. Own(w)'
    BY <1>1, <1>2, <1>3, <1>4, <2>2, <2>4, OwnComes DEF Awaited
  <2>6. ASSUME NEW x \in Waitables \ {w} PROVE Own(x)'
    <3>1. Own(x) /\ jobs'[x] = jobs[x]
      BY <2>4 DEF OwnInv, Comes, OthersStay
    <3>2. Awaited(x)' => Awaited(x)
      BY <2>2 DEF Awaited
    <3> QED
      BY <1>3, <1>4, <2>2, <3>1, <3>2 DEF Own, OneServes, Served
  <2> QED
    BY <2>5, <2>6 DEF OwnInv
<1>6. CASE ~(free > 0)
  <2>1. sel' = [sel EXCEPT !.at = "hand", !.ready = @ \ {w}, !.cur = w] /\ jobs' = jobs
    BY <1>6 DEF HandTo
  <2>2. sel'.at # "poll" /\ sel'.ready = sel.ready \ {w} /\ sel'.cur = w
    BY <1>1, <2>1 DEF Selector
  <2>3. ASSUME NEW x \in Waitables PROVE Own(x)'
    <3>1. Own(x) /\ jobs'[x] = jobs[x]
      BY <2>1 DEF OwnInv
    <3>2. Awaited(x)' => Awaited(x) /\ x # w
      BY <2>2 DEF Awaited
    <3>3. Served(x)' <=> Served(x)
      BY <3>1 DEF Served
    <3> QED
      BY <1>3, <2>2, <3>1, <3>2, <3>3 DEF Own, OneServes
  <2> QED
    BY <2>3 DEF OwnInv
<1> QED
  BY <1>5, <1>6

\* Steps of the selector: a waitable is handed over only when no worker serves it.
LEMMA OwnSelector ==
    ASSUME ShapeInv, SelectorInv, OwnInv, ~crossed, SelectorStep \/ Poll \/ PollInterrupted
    PROVE  OwnInv'
<1> USE DEF setVars, workerVars
<1>0. sel \in Selector /\ \A x \in Waitables : Own(x) /\ x # NULL
  BY PoolAssumption DEF ShapeInv, OwnInv, Waitables
<1>1. ASSUME UNCHANGED <<events, setVars, jobs, crossed>>, sel'.cur = NULL,
             \A x \in Waitables : Awaited(x)' => x \in members /\ events[x] # {}
      PROVE  OwnInv'
  <2>1. ASSUME NEW x \in Waitables PROVE Own(x)'
    <3>1. Own(x) /\ (Served(x)' <=> Served(x)) /\ (OneServes(x)' <=> OneServes(x)) /\ x # NULL
      BY <1>0, <1>1 DEF Served, OneServes
    <3> QED
      BY <1>1, <3>1 DEF Own
  <2> QED
    BY <2>1 DEF OwnInv
<1>2. CASE Scan \/ PollInterrupted
  <2>1. sel' = Look /\ sel.at \in {"scan", "poll"} /\ UNCHANGED <<events, setVars, jobs, crossed>>
    BY <1>2 DEF Scan, PollInterrupted
  <2>2. sel.cur = NULL /\ sel.ready = {}
    BY <2>1 DEF SelectorInv
  <2>3. sel'.cur = NULL /\ sel'.ready = {}
    BY <1>0, <2>1, <2>2 DEF Look, Selector
  <2>4. ASSUME NEW x \in Waitables, Awaited(x)' PROVE x \in members /\ events[x] # {}
    <3>1. sel'.at = "poll" /\ sel'.snap[x] # {}
      BY <2>3, <2>4 DEF Awaited
    <3>2. sel'.snap[x] = IF x \in members THEN events[x] ELSE {}
      BY <1>0, <2>1, <3>1 DEF Look, Selector
    <3> QED
      BY <3>1, <3>2
  <2> QED
    BY <1>1, <2>1, <2>3, <2>4
<1>3. CASE Poll
  <2> DEFINE found == {w \in Waitables : Active(w, sel.snap[w])}
  <2>1. sel' = [sel EXCEPT !.at = NextRound(found), !.ready = found, !.snap = [w \in Waitables |-> {}]]
    BY <1>3 DEF Poll
  <2>2. sel'.at # "poll" /\ sel'.ready = found /\ sel'.cur = sel.cur
    BY <1>0, <2>1 DEF Selector, NextRound
  <2>3. sel'.cur = NULL
    BY <1>3, <2>2 DEF Poll, SelectorInv
  <2>4. ASSUME NEW x \in Waitables, Awaited(x)' PROVE x \in members /\ events[x] # {}
    <3>1. Active(x, sel.snap[x])
      BY <2>2, <2>4 DEF Awaited
    <3>2. sel.snap[x] # {}
      BY <3>1 DEF Active
    <3> QED
      BY <1>0, <1>3, <3>2 DEF Poll, Own, Awaited
  <2> QED
    BY <1>1, <1>3, <2>3, <2>4 DEF Poll
<1>4. ASSUME NEW w \in Waitables, Dispatch(w) PROVE OwnInv'
  <2>1. Own(w) /\ Awaited(w) /\ sel.cur = NULL
    BY <1>0, <1>4 DEF Dispatch, Awaited, SelectorInv
  <2>2. ~Served(w) /\ life[w] = "open"
    BY <2>1 DEF Own
  <2>3. PICK made \in 0..Wanted : HandTo(w, idle + made - Spare)
    BY <1>4 DEF Dispatch
  <2> QED
    BY <1>4, <2>1, <2>2, <2>3, OwnHandTo DEF Dispatch
<1>5. CASE HandOver
  <2>1. sel.cur \in Waitables
    BY <1>0, <1>5 DEF HandOver, SelectorInv, Selector
  <2>2. Own(sel.cur) /\ ~Served(sel.cur) /\ life[sel.cur] = "open" /\ events[sel.cur] = {}
    BY <1>0, <2>1 DEF Own
  <2>3. events' = [events EXCEPT ![sel.cur] = {}]
    BY <1>5, <2>1, <2>2 DEF HandOver, ShapeInv
  <2> DEFINE w == sel.cur
  <2>4. /\ w \in Waitables /\ HandTo(w, idle) /\ sel.at \in {"dispatch", "hand"} /\ ~Served(w)
        /\ life[w] = "open" /\ events' = [events EXCEPT ![w] = {}] /\ sel.cur \in {w, NULL}
        /\ UNCHANGED <<members, life, crossed>>
    BY <1>5, <2>1, <2>2, <2>3 DEF HandOver
  <2> HIDE DEF w
  <2> QED
    BY <2>4, OwnHandTo
<1>6. CASE DestroyWorker
  <2>1. sel'.cur = sel.cur /\ sel'.ready = sel.ready /\ sel'.at # "poll"
    BY <1>0, <1>6 DEF DestroyWorker, Selector
  <2>2. sel.cur = NULL
    BY <1>6 DEF DestroyWorker, SelectorInv
  <2>3. \A x \in Waitables : Awaited(x)' => x \in members /\ events[x] # {}
    BY <1>0, <2>1 DEF Awaited, Own
  <2> QED
    BY <1>1, <1>6, <2>1, <2>2, <2>3 DEF DestroyWorker
<1> QED
  BY <1>2, <1>3, <1>4, <1>5, <1>6 DEF SelectorStep

\* Steps of a worker: what it stores or finishes is served by nobody else.
LEMMA OwnWorker ==
    ASSUME ShapeInv, SelectorInv, OwnInv, ~crossed, NEW w \in Waitables, WorkerStep(w)
    PROVE  OwnInv'
<1> USE DEF setVars, workerVars
<1>0. JobsShape /\ \A x \in Waitables : Own(x)
  BY DEF ShapeInv, OwnInv, JobsShape
<1>1. PICK i \in DOMAIN jobs[w] : \/ w = Listener /\ (Accept(i) \/ AcceptFails(i))
                                  \/ w \in Conns /\ ConnectionStep(w, i)
                                  \/ WaitableStep(w, i)
  BY DEF WorkerStep
<1>a. ASSUME NEW at \in At, Go(w, i, at)
      PROVE  Becomes(w, i, [at |-> at, arg |-> jobs[w][i].arg])
             /\ [at |-> at, arg |-> jobs[w][i].arg] \in Entry
  <2>1. jobs[w][i] \in Entry
    BY <1>0, SMT DEF JobsShape
  <2> QED
    BY <1>0, <1>a, <2>1, JobGoes DEF Entry
<1> DEFINE done == [at |-> "finish", arg |-> jobs[w][i].arg]
<1>2. CASE w \in Conns /\ ConnectionStep(w, i)
  <2>1. PICK e \in Entry : /\ Becomes(w, i, e)
                           /\ (e.at \in Serving /\ events'[w] = events[w]) \/ e.at = "finish"
    BY <1>2, ConnectionJobs
  <2>2. jobs[w][i].at \in Serving /\ UNCHANGED <<members, life, sel, crossed>>
        /\ \A x \in Waitables \ {w} : events'[x] = events[x]
    BY <1>2, ConnectionJobs
  <2>3. Own(w)'
    BY <1>0, <2>1, <2>2, OwnServes
  <2>4. ASSUME NEW x \in Waitables \ {w} PROVE Own(x)'
    BY <1>0, <2>1, <2>2, OwnStays DEF Becomes, OthersStay
  <2> QED
    BY <2>3, <2>4 DEF OwnInv
<1>3. CASE w = Listener /\ AcceptFails(i)
  <2>1. Go(w, i, "finish") /\ events' = [events EXCEPT ![w] = {"in"}] /\ jobs[w][i].at \in Serving
        /\ UNCHANGED <<members, life, sel, crossed>>
    BY <1>3 DEF AcceptFails, Return, Job, Serving
  <2>2. Becomes(w, i, done) /\ done \in Entry /\ done.at = "finish"
    BY <1>a, <2>1 DEF At
  <2> HIDE DEF done
  <2>3. Own(w)'
    BY <1>0, <2>1, <2>2, OwnServes
  <2>4. ASSUME NEW x \in Waitables \ {w} PROVE Own(x)'
    <3>1. jobs'[x] = jobs[x] /\ events'[x] = events[x]
      BY <2>1, <2>2 DEF Becomes, OthersStay, ShapeInv
    <3> QED
      BY <1>0, <2>1, <3>1, OwnStays
  <2> QED
    BY <2>3, <2>4 DEF OwnInv
<1>4. CASE w = Listener /\ Accept(i)
  <2>1. PICK c \in Conns : /\ life[c] = "connecting" /\ life' = [life EXCEPT ![c] = "open"]
                           /\ events' = [events EXCEPT ![c] = {"in", "out"}, ![w] = {"in"}]
                           /\ members' = members \cup {c}
    BY <1>4 DEF Accept, Add
  <2>2. c \in Waitables /\ c # w
    BY <1>4, PoolAssumption DEF Waitables
  <2>3. Go(w, i, "finish") /\ jobs[w][i].at \in Serving /\ UNCHANGED <<sel, crossed>>
    BY <1>4 DEF Accept, Job, Serving
  <2>4. Becomes(w, i, done) /\ done \in Entry /\ done.at = "finish"
    BY <1>a, <2>3 DEF At
  <2> HIDE DEF done
  <2>5. /\ life'[c] = "open" /\ events'[c] = {"in", "out"}
        /\ \A x \in Waitables \ {c} : life'[x] = life[x]
        /\ \A x \in Waitables \ {c, w} : events'[x] = events[x]
    BY <2>1, <2>2 DEF ShapeInv
  <2>6. Own(w)'
    BY <1>0, <2>1, <2>2, <2>3, <2>4, <2>5, OwnServes
  <2>7. Own(c)'
    <3>1. jobs[c] = <<>> /\ sel.cur # c /\ c \notin members /\ ~Awaited(c)
      BY <1>0, <2>1, <2>2 DEF Own
    <3>2. jobs'[c] = <<>>
      BY <2>2, <2>4, <3>1 DEF Becomes, OthersStay
    <3>3. ~Served(c)' /\ OneServes(c)' /\ ~Awaited(c)'
      BY <2>3, <3>1, <3>2, SMT DEF Served, OneServes, Awaited
    <3> QED
      BY <2>3, <2>5, <3>1, <3>2, <3>3, SMT DEF Own
  <2>8. ASSUME NEW x \in Waitables \ {c, w} PROVE Own(x)'
    <3>1. jobs'[x] = jobs[x] /\ events'[x] = events[x] /\ life'[x] = life[x]
          /\ (x \in members' <=> x \in members)
      BY <2>1, <2>4, <2>5 DEF Becomes, OthersStay
    <3> QED
      BY <1>0, <2>3, <3>1, OwnStays
  <2> QED
    BY <2>6, <2>7, <2>8 DEF OwnInv
<1>5. CASE Finish(w, i)
  <2>1. Leave(w, i) /\ UNCHANGED <<events, members, life, sel, crossed>>
    BY <1>5 DEF Finish
  <2>2. Leaves(w, i)
    BY <1>0, <2>1, JobLeaves
  <2>3. Own(w)'
    BY <1>0, <2>1, <2>2, OwnLeaves
  <2>4. ASSUME NEW x \in Waitables \ {w} PROVE Own(x)'
    BY <1>0, <2>1, <2>2, OwnStays DEF Leaves, OthersStay
  <2> QED
    BY <2>3, <2>4 DEF OwnInv
<1>6. CASE Remove(w, i)
  <2>1. /\ Go(w, i, "delete") /\ members' = members \ {w} /\ jobs[w][i].at = "finish" /\ events[w] = {}
        /\ UNCHANGED <<events, life, sel, crossed>>
    BY <1>6 DEF Remove, Job
  <2> DEFINE e == [at |-> "delete", arg |-> jobs[w][i].arg]
  <2>2. Becomes(w, i, e) /\ e \in Entry /\ e.at = "delete"
    BY <1>a, <2>1 DEF At
  <2> HIDE DEF e
  <2>3. Own(w)'
    <3>1. ~Awaited(w) /\ Own(w) /\ jobs[w] # <<>>
      BY <1>0, <2>1, SMT DEF Own
    <3>2. \A j \in DOMAIN jobs[w] : /\ jobs'[w][j].at \in Serving => jobs[w][j].at \in Serving
      BY <2>1, <2>2 DEF Becomes, Serving
    <3>3. DOMAIN jobs'[w] = DOMAIN jobs[w]
      BY <2>2 DEF Becomes
    <3>4. OneServes(w)' /\ (Served(w)' => Served(w)) /\ ~Awaited(w)'
      BY <2>1, <3>1, <3>2, <3>3 DEF Own, OneServes, Served, Awaited
    <3> QED
      BY <2>1, <3>1, <3>4 DEF Own
  <2>4. ASSUME NEW x \in Waitables \ {w} PROVE Own(x)'
    <3>1. jobs'[x] = jobs[x] /\ (x \in members' <=> x \in members)
      BY <2>1, <2>2 DEF Becomes, OthersStay
    <3> QED
      BY <1>0, <2>1, <3>1, OwnStays
  <2> QED
    BY <2>3, <2>4 DEF OwnInv
<1>7. CASE Delete(w, i)
  <2>1. /\ Leave(w, i) /\ jobs[w][i].at = "delete" /\ life' = [life EXCEPT ![w] = "deleted"]
        /\ crossed' = (Len(jobs[w]) > 1 \/ sel.cur = w) /\ UNCHANGED <<events, members, sel>>
    BY <1>7 DEF Delete, Job
  <2>2. Leaves(w, i)
    BY <1>0, <2>1, JobLeaves
  <2>3. w \notin members
    BY <1>0, <2>1 DEF Own
  <2>4. ~crossed' => jobs'[w] = <<>> /\ sel.cur # w
    <3>1. jobs[w] \in Seq(Entry) /\ jobs'[w] \in Seq(Entry) /\ Len(jobs'[w]) = Len(jobs[w]) - 1
      BY <1>0, <2>2 DEF JobsShape, Leaves
    <3>2. Len(jobs[w]) > 1 \/ Len(jobs'[w]) = 0
      <4>1. PICK n, m : n = Len(jobs[w]) /\ m = Len(jobs'[w])
        OBVIOUS
      <4>2. n \in Nat /\ n >= 1 /\ m = n - 1
        BY <3>1, <4>1, SMT
      <4>3. n > 1 \/ m = 0
        BY ONLY <4>2
      <4> QED
        BY ONLY <4>1, <4>3
    <3>3. Len(jobs'[w]) = 0 => jobs'[w] = <<>>
      BY <3>1, SMT
    <3> QED
      BY <2>1, <3>2, <3>3
  <2>5. Own(w)'
    BY <1>0, <2>1, <2>2, <2>3, <2>4, OwnLeaves
  <2>6. ASSUME NEW x \in Waitables \ {w} PROVE Own(x)'
    <3>1. jobs'[x] = jobs[x] /\ life'[x] = life[x]
      BY <2>1, <2>2 DEF Leaves, OthersStay, ShapeInv
    <3> QED
      BY <1>0, <2>1, <3>1, OwnStays
  <2> QED
    BY <2>5, <2>6 DEF OwnInv
<1> QED
  BY <1>1, <1>2, <1>3, <1>4, <1>5, <1>6, <1>7 DEF WaitableStep

\* The end of a broadcast changes only what the workers that wait for it do next
LEMMA SendEndJobs ==
    ASSUME ShapeInv, SendEnd, NEW w \in Waitables
    PROVE  /\ DOMAIN jobs'[w] = DOMAIN jobs[w] /\ (jobs'[w] = <<>> <=> jobs[w] = <<>>)
           /\ \A i \in DOMAIN jobs[w] :
                 \/ jobs'[w][i] = jobs[w][i]
                 \/ /\ jobs[w][i].at = "wait" /\ jobs'[w][i].at = "reply"
                    /\ jobs'[w][i].arg = jobs[w][i].arg
<1>1. jobs[w] \in Seq(Entry) /\ \A i \in DOMAIN jobs[w] : jobs[w][i] \in Entry
  BY SMT DEF ShapeInv
<1>2. jobs'[w] = IF w # bc.by THEN jobs[w]
                 ELSE [i \in DOMAIN jobs[w] |->
                         IF jobs[w][i].at = "wait" THEN [jobs[w][i] EXCEPT !.at = "reply"]
                         ELSE jobs[w][i]]
  BY DEF SendEnd
<1>3. CASE w # bc.by
  BY <1>2, <1>3
<1>4. CASE w = bc.by
  <2>1. DOMAIN jobs'[w] = DOMAIN jobs[w]
    BY <1>2, <1>4
  <2>2. jobs'[w] = <<>> <=> jobs[w] = <<>>
    BY <1>1, <1>2, <1>4, <2>1, SMT
  <2>3. ASSUME NEW i \in DOMAIN jobs[w]
        PROVE  \/ jobs'[w][i] = jobs[w][i]
               \/ /\ jobs[w][i].at = "wait" /\ jobs'[w][i].at = "reply"
                  /\ jobs'[w][i].arg = jobs[w][i].arg
    BY <1>1, <1>2, <1>4, SMT DEF Entry
  <2> QED
    BY <2>1, <2>2, <2>3
<1> QED
  BY <1>3, <1>4

\* The other threads and the clients never take a waitable.
LEMMA OwnSender ==
    ASSUME ShapeInv, SelectorInv, OwnInv, ~crossed,
           SenderStep \/ MainStep \/ TimedSend \/ Shutdown
           \/ \E c \in Conns : \/ Connect(c) \/ Close(c) \/ ReadOutput(c)
                               \/ \E r \in Request : Send(c, r)
    PROVE  OwnInv'
<1> USE DEF setVars, workerVars
<1>0. \A x \in Waitables : Own(x) /\ x # NULL
  BY PoolAssumption DEF OwnInv, Waitables
<1>1. ASSUME UNCHANGED <<events, members, life, jobs, sel, crossed>> PROVE OwnInv'
  BY <1>0, <1>1, OwnStays DEF OwnInv
<1>2. CASE HandleMessage \/ HandlerEnds \/ TimedSend \/ QueueNull \/ Shutdown
  BY <1>1, <1>2 DEF HandleMessage, HandlerEnds, TimedSend, Begin, QueueNull, Shutdown
<1>3. ASSUME NEW c \in Conns, SendEnqueue(c) \/ SendNotify(c) PROVE OwnInv'
  BY <1>1, <1>3 DEF SendEnqueue, SendNotify
<1>4. CASE SendEnd
  <2>1. UNCHANGED <<events, members, life, sel, crossed>>
    BY <1>4 DEF SendEnd
  <2>2. ASSUME NEW x \in Waitables PROVE Own(x)'
    <3>1. DOMAIN jobs'[x] = DOMAIN jobs[x] /\ (jobs'[x] = <<>> <=> jobs[x] = <<>>)
      BY <1>4, SendEndJobs
    <3>2. \A i \in DOMAIN jobs[x] : /\ jobs'[x][i].at \in Serving <=> jobs[x][i].at \in Serving
                                    /\ jobs'[x][i].at = "delete" <=> jobs[x][i].at = "delete"
      BY <1>4, SendEndJobs DEF Serving
    <3>3. /\ OneServes(x)' <=> OneServes(x)
          /\ Served(x)' <=> Served(x)
          /\ Awaited(x)' <=> Awaited(x)
      BY <2>1, <3>1, <3>2 DEF OneServes, Served, Awaited
    <3> QED
      BY <1>0, <2>1, <3>1, <3>2, <3>3 DEF Own
  <2> QED
    BY <2>2 DEF OwnInv
<1>5. CASE DeleteAll
  <2>1. /\ sel.at = "stopped" /\ members' = {} /\ UNCHANGED <<events, jobs, sel>>
        /\ life' = [w \in Waitables |-> IF w \in members THEN "deleted" ELSE life[w]]
        /\ crossed' = (\E w \in members : jobs[w] # <<>>)
    BY <1>5 DEF DeleteAll
  <2>2. sel.cur = NULL /\ sel.ready = {}
    BY <2>1 DEF SelectorInv
  <2>3. ASSUME NEW x \in Waitables PROVE Own(x)'
    <3>1. ~Awaited(x)' /\ sel'.cur # x
      BY <1>0, <2>1, <2>2 DEF Awaited
    <3>2. (OneServes(x)' <=> OneServes(x)) /\ (Served(x)' <=> Served(x))
      BY <2>1 DEF OneServes, Served
    <3>3. ~crossed' /\ jobs'[x] # <<>> => life'[x] = "open"
      <4>1. CASE x \in members
        BY <2>1, <4>1
      <4>2. CASE x \notin members
        BY <1>0, <2>1, <4>2 DEF Own
      <4> QED
        BY <4>1, <4>2
    <3> QED
      BY <1>0, <2>1, <3>1, <3>2, <3>3 DEF Own
  <2> QED
    BY <2>3 DEF OwnInv
<1>6. ASSUME NEW c \in Conns, Connect(c) PROVE OwnInv'
  <2>1. life[c] = "none" /\ UNCHANGED <<events, members, jobs, sel, crossed>> /\ c \in Waitables
    BY <1>6 DEF Connect, Waitables
  <2>2. \A x \in Waitables \ {c} : life'[x] = life[x]
    BY <1>6 DEF Connect, ShapeInv
  <2>3. Own(c)'
    <3>1. c \notin members /\ jobs[c] = <<>> /\ sel.cur # c /\ Own(c)
      BY <1>0, <2>1 DEF Own
    <3>2. (OneServes(c)' <=> OneServes(c)) /\ (Served(c)' <=> Served(c)) /\ (Awaited(c)' <=> Awaited(c))
      BY <2>1 DEF OneServes, Served, Awaited
    <3> QED
      BY <2>1, <3>1, <3>2 DEF Own
  <2>4. ASSUME NEW x \in Waitables \ {c} PROVE Own(x)'
    BY <1>0, <2>1, <2>2, OwnStays
  <2> QED
    BY <2>3, <2>4 DEF OwnInv
<1>7. ASSUME NEW c \in Conns, Close(c) \/ ReadOutput(c) \/ \E r \in Request : Send(c, r) PROVE OwnInv'
  BY <1>1, <1>7 DEF Close, ReadOutput, Send
<1> QED
  BY <1>2, <1>3, <1>4, <1>5, <1>6, <1>7 DEF SenderStep, MainStep

-----------------------------------------------------------------------------
(* The registry.  deregisterClient takes a connection out of every list: it *)
(* is there under the user who is logged in, and in the events it may see.  *)
LEMMA DeregisterAll ==
    ASSUME SessionShape, RegistryAgrees, NEW c \in Conns, deregisterClient(c)
    PROVE  /\ clients' \subseteq clients /\ \A p \in clients' : p[2] # c
           /\ \A e \in Event : subs'[e] \subseteq subs[e] /\ c \notin subs'[e]
<1>1. clients' \subseteq clients /\ \A p \in clients' : p[2] # c
  <2>1. \A p \in clients : p[2] = c => p = <<user[c], c>>
    BY SMT DEF SessionShape, RegistryAgrees
  <2> QED
    BY <2>1 DEF deregisterClient
<1>2. ASSUME NEW e \in Event PROVE subs'[e] \subseteq subs[e] /\ c \notin subs'[e]
  BY DEF deregisterClient, EventDrop, RegistryAgrees
<1> QED
  BY <1>1, <1>2

\* Before a login a connection is in no list
LEMMA NobodyIsListed ==
    ASSUME SessionShape, SessionInv, NEW c \in Conns, user[c] = Nobody
    PROVE  (\A p \in clients : p[2] # c) /\ \A e \in Event : c \notin subs[e]
<1>1. \A p \in clients : p[2] # c
  BY UsersAssumption DEF SessionShape, SessionInv, RegistryAgrees
<1>2. perms[c] = {}
  BY DEF SessionInv
<1>3. ASSUME NEW e \in Event PROVE ~matches(EventPermission[e], perms[c])
  BY <1>2, SMT DEF matches, Event, EventPermission
<1> QED
  BY <1>1, <1>3 DEF SessionInv, RegistryAgrees

\* A connection keeps AskedInv while its jobs stay and it comes into no list
LEMMA AskedStays ==
    ASSUME NEW x \in Conns, AskedInv(x), jobs'[x] = jobs[x],
           conn[x].inbox # <<>> => conn'[x].inbox # <<>>,
           \A p \in clients' : p[2] = x => p \in clients,
           \A e \in Event : x \in subs'[e] => x \in subs[e]
    PROVE  AskedInv(x)'
BY DEF AskedInv

\* Only the worker that serves a connection has a request before it
LEMMA AskedServes ==
    ASSUME JobsShape, NEW c \in Conns, NEW i \in DOMAIN jobs[c], NEW e \in Entry, Own(c),
           jobs[c][i].at \in Serving, Becomes(c, i, e),
           e.at \in Asked => conn'[c].inbox # <<>>,
           e.at = "auth" => /\ e.arg \in Users /\ \A p \in clients' : p[2] # c
                            /\ \A v \in Event : c \notin subs'[v]
    PROVE  AskedInv(c)'
<1>1. \A j \in DOMAIN jobs[c] : jobs[c][j].at \in Serving => j = i
  BY DEF Own, OneServes
<1>2. \A j \in DOMAIN jobs'[c] : jobs'[c][j].at \in Asked => jobs'[c][j] = e
  BY <1>1 DEF Becomes, Asked, Serving
<1>3. "auth" \in Asked
  BY DEF Asked
<1> QED
  BY <1>2, <1>3 DEF AskedInv

\* A step that changes no list, no stage of a broadcast and deletes nothing
LEMMA RegistryStays ==
    ASSUME SessionInv, UNCHANGED <<user, perms, clients, subs, bc>>,
           SessionShape, bc \in Sender, \A x \in Conns : life[x] = "open" => life'[x] = "open",
           \A c \in Conns : AskedInv(c)'
    PROVE  SessionInv'
<1>1. NoDangling'
  <2>1. \A p \in clients : p[2] \in Conns
    BY DEF SessionShape
  <2>2. \A e \in Event : \A c \in subs[e] : c \in Conns
    BY DEF SessionShape
  <2>3. \A c \in bc.todo \cup bc.half : c \in Conns
    BY DEF Sender
  <2> QED
    BY <2>1, <2>2, <2>3 DEF SessionInv, NoDangling
<1>2. RegistryAgrees'
  BY DEF SessionInv, RegistryAgrees
<1> QED
  BY <1>1, <1>2 DEF SessionInv

\* Steps of a worker inside a connection: logins, requests and answers keep the
\* registry and the permissions of the connection together.
LEMMA SessionConnection ==
    ASSUME ShapeInv, ShapeInv', OwnInv, SessionInv, ~crossed,
           NEW c \in Conns, NEW i \in DOMAIN jobs[c], ConnectionStep(c, i)
    PROVE  SessionInv'
<1> USE DEF setVars, workerVars, senderVars
<1>0. /\ JobsShape /\ SessionShape /\ bc \in Sender /\ c \in Waitables /\ Own(c) /\ life[c] = "open"
      /\ \A x \in Conns : AskedInv(x) /\ x \in Waitables
      /\ conn \in [Conns -> Stream]
  <2>1. Own(c) /\ jobs[c] # <<>>
    BY SMT DEF OwnInv, Waitables
  <2>2. life[c] = "open"
    BY <2>1 DEF Own
  <2> QED
    BY <2>1, <2>2 DEF ShapeInv, JobsShape, SessionInv, Waitables
<1>1. PICK e \in Entry : /\ Becomes(c, i, e)
                         /\ (e.at \in Serving /\ events'[c] = events[c]) \/ e.at = "finish"
  BY ConnectionJobs
<1>2. jobs[c][i].at \in Serving /\ UNCHANGED life /\ jobs'[c][i] = e
      /\ \A x \in Conns \ {c} : jobs'[x] = jobs[x]
  BY <1>0, <1>1, ConnectionJobs DEF Becomes, OthersStay
<1>3. bc' = bc /\ \A x \in Conns \ {c} : conn'[x] = conn[x]
  BY <1>0 DEF ConnectionStep, Handshake, AuthWrong, AuthBegin, AuthEnd, EventMap, Post, PostReply,
              ReadEnds, WriteOne, WriteEnds, WriteStops, Receive, Reply
<1>4. ASSUME \A x \in Conns \ {c} : \A p \in clients' : p[2] = x => p \in clients,
             \A x \in Conns \ {c} : \A v \in Event : x \in subs'[v] => x \in subs[v],
             e.at \in Asked => conn'[c].inbox # <<>>,
             e.at = "auth" => /\ e.arg \in Users /\ \A p \in clients' : p[2] # c
                              /\ \A v \in Event : c \notin subs'[v]
      PROVE  \A x \in Conns : AskedInv(x)'
  <2>1. AskedInv(c)'
    BY <1>0, <1>1, <1>2, <1>4, AskedServes
  <2>2. ASSUME NEW x \in Conns \ {c} PROVE AskedInv(x)'
    BY <1>0, <1>2, <1>3, <1>4, AskedStays
  <2> QED
    BY <2>1, <2>2
<1>5. ASSUME UNCHANGED sessionVars, e.at \in Asked => e.at # "auth" /\ conn'[c].inbox # <<>>
      PROVE  SessionInv'
  <2>1. "auth" \in Asked
    BY DEF Asked
  <2>2. UNCHANGED <<user, perms, clients, subs, bc>>
    BY <1>3, <1>5 DEF sessionVars
  <2>3. \A x \in Conns : AskedInv(x)'
    BY <1>4, <1>5, <2>1, <2>2
  <2> QED
    BY <1>0, <1>2, <2>2, <2>3, RegistryStays
<1>6. CASE Handshake(c, i) \/ ReadEnds(c, i) \/ WriteEnds(c, i) \/ WriteStops(c, i)
  <2>1. UNCHANGED sessionVars
    BY <1>6 DEF Handshake, ReadEnds, WriteEnds, WriteStops
  <2>2. jobs[c][i].at \in {"process", "write"}
    BY <1>6 DEF Handshake, ReadEnds, WriteEnds, WriteStops, Job
  <2>3. CASE UNCHANGED jobs
    BY <1>2, <1>5, <2>1, <2>2, <2>3 DEF Asked
  <2>4. ASSUME NEW at \in {"finish", "write"}, Go(c, i, at) PROVE SessionInv'
    <3>1. at \in At /\ at \notin Asked
      BY DEF At, Asked
    <3>2. Becomes(c, i, [at |-> at, arg |-> jobs[c][i].arg])
      BY <1>0, <2>4, <3>1, JobGoes
    <3>3. e.at = at
      BY <1>2, <3>2, SMT DEF Becomes
    <3> QED
      BY <1>5, <2>1, <3>1, <3>3
  <2> QED
    BY <1>6, <2>3, <2>4 DEF Handshake, ReadEnds, WriteEnds, WriteStops, Return
<1>7. CASE AuthWrong(c, i) \/ WriteOne(c, i)
  <2>1. UNCHANGED <<sessionVars, jobs>> /\ jobs[c][i].at \in {"process", "write"}
    BY <1>7 DEF AuthWrong, WriteOne, Receive, Job
  <2> QED
    BY <1>2, <1>5, <2>1 DEF Asked
<1>8. CASE Post(c, i)
  <2>1. UNCHANGED sessionVars /\ jobs[c][i].at = "process" /\ conn[c].inbox # <<>>
    BY <1>8 DEF Post, Receive, Job
  <2>2. CASE UNCHANGED jobs
    BY <1>2, <1>5, <2>1, <2>2 DEF Asked
  <2>3. CASE Go(c, i, "wait") /\ UNCHANGED conn
    <3>1. Becomes(c, i, [at |-> "wait", arg |-> jobs[c][i].arg])
      BY <1>0, <2>3, JobGoes DEF At
    <3>2. e.at = "wait"
      BY <1>2, <3>1, SMT DEF Becomes
    <3> QED
      BY <1>5, <2>1, <2>3, <3>2
  <2> QED
    BY <1>8, <2>2, <2>3 DEF Post
<1>9. CASE PostReply(c, i)
  <2>1. UNCHANGED sessionVars /\ Go(c, i, "process")
    BY <1>9 DEF PostReply
  <2>2. Becomes(c, i, [at |-> "process", arg |-> jobs[c][i].arg])
    BY <1>0, <2>1, JobGoes DEF At
  <2>3. e.at = "process"
    BY <1>2, <2>2, SMT DEF Becomes
  <2> QED
    BY <1>5, <2>1, <2>3 DEF Asked
<1>10. CASE AuthBegin(c, i)
  <2>1. /\ AuthForget(c) /\ jobs' = [jobs EXCEPT ![c][i] = [at |-> "auth", arg |-> Head(conn[c].inbox).arg]]
        /\ UNCHANGED conn /\ conn[c].inbox # <<>> /\ Head(conn[c].inbox).kind = "auth"
        /\ Head(conn[c].inbox).arg # Nobody
    BY <1>10 DEF AuthBegin, Receive
  <2>2. UNCHANGED <<user, perms>>
    BY <2>1 DEF AuthForget, sessionVars
  <2>3. /\ clients' \subseteq clients /\ \A p \in clients' : p[2] # c
        /\ \A v \in Event : subs'[v] \subseteq subs[v] /\ c \notin subs'[v]
    <3>1. CASE user[c] # Nobody
      BY <1>0, <2>1, <3>1, DeregisterAll DEF AuthForget, SessionInv
    <3>2. CASE user[c] = Nobody
      BY <1>0, <2>1, <3>2, NobodyIsListed DEF AuthForget, sessionVars
    <3> QED
      BY <3>1, <3>2
  <2>4. e.arg \in Users
    <3>1. conn[c].inbox \in Seq(Request)
      BY <1>0 DEF Stream
    <3>2. Head(conn[c].inbox) \in Request
      BY ONLY <2>1, <3>1, TailFacts
    <3>3. Head(conn[c].inbox).arg \in Users
      BY <2>1, <3>2 DEF Request
    <3>4. e = [at |-> "auth", arg |-> Head(conn[c].inbox).arg]
      BY <1>0, <1>2, <2>1 DEF JobsShape
    <3> QED
      BY <3>3, <3>4
  <2>5. \A x \in Conns : AskedInv(x)'
    BY <1>4, <2>1, <2>3, <2>4
  <2>6. NoDangling'
    BY <1>2, <1>3, <2>3 DEF SessionInv, NoDangling
  <2>7. RegistryAgrees'
    BY <2>2, <2>3 DEF SessionInv, RegistryAgrees
  <2> QED
    BY <1>3, <2>2, <2>5, <2>6, <2>7 DEF SessionInv
<1>11. CASE AuthEnd(c, i)
  <2> DEFINE u == jobs[c][i].arg
  <2>1. /\ u \in Users /\ jobs[c][i].at = "auth"
        /\ \A p \in clients : p[2] # c
        /\ \A v \in Event : c \notin subs[v]
    BY <1>0, <1>11 DEF AuthEnd, Job, AskedInv
  <2>2. /\ user' = [user EXCEPT ![c] = u] /\ clients' = clients \cup {<<u, c>>} /\ UNCHANGED subs
        /\ perms' = [perms EXCEPT ![c] = getPermissions(TypeOf[u])]
        /\ jobs' = [jobs EXCEPT ![c][i] = [at |-> "process", arg |-> Nobody]]
    BY <1>11 DEF AuthEnd, AuthRegister
  <2>3. e.at = "process"
    BY <1>0, <1>2, <2>2 DEF JobsShape
  <2>4. /\ user'[c] = u /\ user'[c] # Nobody
        /\ \A x \in Conns \ {c} : user'[x] = user[x] /\ perms'[x] = perms[x]
    BY <1>0, <2>1, <2>2, UsersAssumption DEF SessionShape
  <2> HIDE DEF u
  <2>5. \A x \in Conns : AskedInv(x)'
    BY <1>4, <2>2, <2>3, SMT DEF Asked
  <2>6. NoDangling'
    BY <1>0, <1>2, <1>3, <2>2, SMT DEF SessionInv, NoDangling
  <2>7. RegistryAgrees'
    <3>1. ASSUME NEW p \in clients' PROVE user'[p[2]] = p[1]
      <4>1. CASE p = <<u, c>>
        BY <2>4, <4>1
      <4>2. CASE p \in clients
        BY <1>0, <2>1, <2>4, <4>2 DEF SessionInv, RegistryAgrees, SessionShape
      <4> QED
        BY <2>2, <4>1, <4>2
    <3>2. ASSUME NEW v \in Event, NEW x \in subs'[v] PROVE matches(EventPermission[v], perms'[x])
      BY <1>0, <2>1, <2>2, <2>4, SMT DEF SessionInv, RegistryAgrees, SessionShape
    <3> QED
      BY <3>1, <3>2 DEF RegistryAgrees, matches
  <2> QED
    BY <1>3, <2>4, <2>5, <2>6, <2>7 DEF SessionInv
<1>12. CASE EventMap(c, i)
  <2>1. jobs[c][i].at = "process" /\ UNCHANGED <<jobs, user, perms, clients>>
    BY <1>12 DEF EventMap, Receive, Job, Subscribe, Unsubscribe
  <2>2. PICK v \in Event : Subscribe(c, v) \/ Unsubscribe(c, v)
    <3>1. conn[c].inbox \in Seq(Request) /\ conn[c].inbox # <<>> /\ Head(conn[c].inbox).kind \in {"sub", "unsub"}
      BY <1>0, <1>12 DEF EventMap, Receive, Stream
    <3>2. Head(conn[c].inbox) \in Request
      BY ONLY <3>1, TailFacts
    <3>3. Head(conn[c].inbox).arg \in Event
      BY <3>1, <3>2 DEF Request
    <3> QED
      BY <1>12, <3>3 DEF EventMap
  <2>3. subs' = [subs EXCEPT ![v] = EventAdd(v, c)] \/ subs' = [subs EXCEPT ![v] = EventDrop(v, c)]
    BY <2>2 DEF Subscribe, Unsubscribe
  <2>4. \A x \in Conns, d \in Event :
           x \in subs'[d] => x \in subs[d] \/ (x = c /\ matches(EventPermission[d], perms[c]))
    <3>1. subs \in [Event -> SUBSET Conns]
      BY <1>0 DEF SessionShape
    <3>2. \A x \in EventAdd(v, c) \cup EventDrop(v, c) :
             x \in subs[v] \/ (x = c /\ matches(EventPermission[v], perms[c]))
      BY DEF EventAdd, EventDrop, matches
    <3>3. /\ subs'[v] \subseteq EventAdd(v, c) \cup EventDrop(v, c)
          /\ \A d \in Event \ {v} : subs'[d] = subs[d]
      BY <2>3, <3>1
    <3> QED
      BY <3>2, <3>3 DEF matches
  <2>5. \A d \in Event : subs'[d] \subseteq Conns
    BY DEF ShapeInv, SessionShape
  <2>6. e.at = "process"
    BY <1>2, <2>1
  <2>7. \A x \in Conns : AskedInv(x)'
    BY <1>4, <2>1, <2>4, <2>6 DEF Asked
  <2>8. NoDangling'
    BY <1>0, <1>2, <1>3, <2>1, <2>4, <2>5 DEF SessionInv, NoDangling
  <2>9. RegistryAgrees'
    <3>1. ASSUME NEW d \in Event, NEW x \in subs'[d] PROVE matches(EventPermission[d], perms[x])
      BY <2>4, <2>5 DEF SessionInv, RegistryAgrees
    <3> QED
      BY <2>1, <3>1 DEF SessionInv, RegistryAgrees, matches
  <2> QED
    BY <1>3, <2>1, <2>7, <2>8, <2>9 DEF SessionInv
<1> QED
  BY <1>6, <1>7, <1>8, <1>9, <1>10, <1>11, <1>12 DEF ConnectionStep

\* All steps of a worker: a connection leaves the registry before it is deleted.
LEMMA SessionWorker ==
    ASSUME ShapeInv, ShapeInv', OwnInv, SessionInv, ~crossed, NEW w \in Waitables, WorkerStep(w)
    PROVE  SessionInv'
<1> USE DEF setVars, workerVars, senderVars
<1>0. /\ JobsShape /\ SessionShape /\ bc \in Sender /\ \A x \in Conns : AskedInv(x)
      /\ Listener \notin Conns
  BY PoolAssumption DEF ShapeInv, JobsShape, SessionInv
<1>1. PICK i \in DOMAIN jobs[w] : \/ w = Listener /\ (Accept(i) \/ AcceptFails(i))
                                  \/ w \in Conns /\ ConnectionStep(w, i)
                                  \/ WaitableStep(w, i)
  BY DEF WorkerStep
<1>2. CASE w \in Conns /\ ConnectionStep(w, i)
  BY <1>2, SessionConnection
<1>3. CASE w = Listener /\ (Accept(i) \/ AcceptFails(i))
  <2>1. /\ Go(w, i, "finish") /\ UNCHANGED <<user, perms, clients, subs, bc, conn>>
        /\ \A x \in Conns : life[x] = "open" => life'[x] = "open"
    BY <1>3 DEF Accept, AcceptFails, Return, sessionVars, ShapeInv, Waitables
  <2>2. Becomes(w, i, [at |-> "finish", arg |-> jobs[w][i].arg])
    BY <1>0, <2>1, JobGoes DEF At
  <2>3. \A x \in Conns : jobs'[x] = jobs[x]
    BY <1>0, <1>3, <2>2 DEF Becomes, OthersStay, Waitables
  <2>4. \A x \in Conns : AskedInv(x)'
    BY <1>0, <2>1, <2>3, AskedStays
  <2> QED
    BY <1>0, <2>1, <2>4, RegistryStays
<1>a. ASSUME NEW x \in Conns, Leaves(w, i), UNCHANGED conn, clients' \subseteq clients,
             \A v \in Event : subs'[v] \subseteq subs[v]
      PROVE  AskedInv(x)'
  <2>1. CASE x = w
    <3>1. \A j \in DOMAIN jobs'[w] : \E k \in DOMAIN jobs[w] : jobs'[w][j] = jobs[w][k]
      BY <1>0, <1>a, LeavesOthers
    <3> QED
      BY <1>0, <1>a, <2>1, <3>1, SMT DEF AskedInv
  <2>2. CASE x # w
    BY <1>0, <1>a, <2>2, AskedStays DEF Leaves, OthersStay, Waitables
  <2> QED
    BY <2>1, <2>2
<1>4. CASE Finish(w, i)
  <2>1. Leave(w, i) /\ UNCHANGED <<user, perms, clients, subs, bc, conn, life>>
    BY <1>4 DEF Finish, sessionVars
  <2>2. Leaves(w, i)
    BY <1>0, <2>1, JobLeaves
  <2>3. \A x \in Conns : AskedInv(x)'
    BY <1>a, <2>1, <2>2
  <2> QED
    BY <1>0, <2>1, <2>3, RegistryStays
<1>5. CASE Remove(w, i)
  <2>1. Go(w, i, "delete") /\ UNCHANGED <<user, perms, clients, subs, bc, conn, life>>
    BY <1>5 DEF Remove, sessionVars
  <2>2. Becomes(w, i, [at |-> "delete", arg |-> jobs[w][i].arg])
    BY <1>0, <2>1, JobGoes DEF At
  <2>3. ASSUME NEW x \in Conns PROVE AskedInv(x)'
    <3>1. CASE x = w
      <4>1. \A j \in DOMAIN jobs'[w] : j \in DOMAIN jobs[w] /\ (jobs'[w][j].at \in Asked => jobs'[w][j] = jobs[w][j])
        BY <2>2, SMT DEF Becomes, Asked
      <4>2. "auth" \in Asked
        BY DEF Asked
      <4> QED
        BY <1>0, <2>1, <3>1, <4>1, <4>2 DEF AskedInv
    <3>2. CASE x # w
      BY <1>0, <2>1, <2>2, <3>2, AskedStays DEF Becomes, OthersStay, Waitables
    <3> QED
      BY <3>1, <3>2
  <2> QED
    BY <1>0, <2>1, <2>3, RegistryStays
<1>6. CASE Delete(w, i)
  <2>1. /\ Leave(w, i) /\ bc.lock = NULL /\ UNCHANGED <<user, perms, bc, conn>>
        /\ life' = [life EXCEPT ![w] = "deleted"]
    BY <1>6 DEF Delete, RegistryAndEventsFree
  <2>2. Leaves(w, i)
    BY <1>0, <2>1, JobLeaves
  <2>3. /\ clients' \subseteq clients /\ \A p \in clients' : p[2] # w
        /\ \A v \in Event : subs'[v] \subseteq subs[v] /\ w \notin subs'[v]
    <3>1. CASE w = Listener
      <4>1. UNCHANGED <<clients, subs>>
        BY <1>6, <3>1 DEF Delete
      <4> QED
        BY <1>0, <3>1, <4>1 DEF SessionShape
    <3>2. CASE w # Listener
      <4>1. w \in Conns /\ deregisterClient(w) /\ RegistryAgrees
        BY <1>6, <3>2 DEF Delete, Waitables, SessionInv
      <4> QED
        BY <1>0, <4>1, DeregisterAll
    <3> QED
      BY <3>1, <3>2
  <2>4. \A x \in Conns : AskedInv(x)'
    BY <1>a, <2>1, <2>2, <2>3
  <2>5. \A x \in Conns : x # w => life'[x] = life[x]
    BY <2>1 DEF ShapeInv, Waitables
  <2>6. NoDangling'
    <3>1. bc'.todo = {} /\ bc'.half = {}
      BY <2>1 DEF SessionInv
    <3>2. \A p \in clients' : life'[p[2]] = "open"
      BY <1>0, <2>3, <2>5, SMT DEF SessionInv, NoDangling, SessionShape
    <3>3. \A v \in Event : \A c \in subs'[v] : life'[c] = "open"
      <4>1. ASSUME NEW v \in Event, NEW c \in subs'[v] PROVE life'[c] = "open"
        <5>1. c \in subs[v] /\ c # w /\ c \in Conns
          BY <1>0, <2>3 DEF SessionShape
        <5> QED
          BY <2>5, <5>1 DEF SessionInv, NoDangling
      <4> QED
        BY <4>1
    <3> QED
      BY <3>1, <3>2, <3>3 DEF NoDangling
  <2>7. RegistryAgrees'
    BY <2>1, <2>3 DEF SessionInv, RegistryAgrees
  <2> QED
    BY <2>1, <2>4, <2>6, <2>7 DEF SessionInv
<1> QED
  BY <1>1, <1>2, <1>3, <1>4, <1>5, <1>6 DEF WaitableStep

\* The selector does not touch sessions.
LEMMA SessionSelector ==
    ASSUME ShapeInv, SelectorInv, SessionInv, SelectorStep \/ Poll \/ PollInterrupted
    PROVE  SessionInv'
<1> USE DEF setVars, workerVars, senderVars
<1>0. JobsShape /\ SessionShape /\ bc \in Sender /\ \A x \in Conns : AskedInv(x) /\ x \in Waitables
  BY DEF ShapeInv, JobsShape, SessionInv, Waitables
<1>1. UNCHANGED <<user, perms, clients, subs, bc, life, conn>>
  BY DEF SelectorStep, Scan, Dispatch, HandOver, DestroyWorker, Poll, PollInterrupted, sessionVars
<1>2. ASSUME UNCHANGED jobs PROVE SessionInv'
  <2>1. \A x \in Conns : AskedInv(x)'
    BY <1>0, <1>1, <1>2, AskedStays
  <2> QED
    BY <1>0, <1>1, <2>1, RegistryStays
<1>3. ASSUME NEW w \in Waitables, NEW free, HandTo(w, free) PROVE SessionInv'
  <2> DEFINE e == [at |-> "process", arg |-> Nobody]
  <2>1. CASE jobs' = [jobs EXCEPT ![w] = Append(@, e)]
    <3>1. e \in Entry /\ e.at \notin Asked /\ "auth" \in Asked
      BY DEF Entry, At, Asked
    <3> HIDE DEF e
    <3>2. Comes(w, e)
      BY <1>0, <2>1, <3>1, JobComes
    <3>3. ASSUME NEW x \in Conns PROVE AskedInv(x)'
      <4>1. CASE x = w
        <5>1. Len(jobs[w]) \in Nat /\ DOMAIN jobs[w] = 1..Len(jobs[w])
          BY <1>0, SMT DEF JobsShape
        <5>2. \A j \in DOMAIN jobs'[w] : jobs'[w][j].at \in Asked => j \in DOMAIN jobs[w] /\ jobs'[w][j] = jobs[w][j]
          BY <3>1, <3>2, <5>1, SMT DEF Comes
        <5> QED
          BY <1>0, <1>1, <3>1, <4>1, <5>2 DEF AskedInv
      <4>2. CASE x # w
        BY <1>0, <1>1, <3>2, <4>2, AskedStays DEF Comes, OthersStay
      <4> QED
        BY <4>1, <4>2
    <3> QED
      BY <1>0, <1>1, <3>3, RegistryStays
  <2> QED
    BY <1>2, <1>3, <2>1 DEF HandTo
<1>4. CASE \E w \in Waitables : Dispatch(w)
  BY <1>3, <1>4 DEF Dispatch
<1>5. CASE HandOver
  <2>1. sel.cur \in Waitables
    BY <1>5 DEF HandOver, SelectorInv, ShapeInv, Selector
  <2> QED
    BY <1>3, <1>5, <2>1 DEF HandOver
<1>6. CASE Scan \/ DestroyWorker \/ Poll \/ PollInterrupted
  BY <1>2, <1>6 DEF Scan, DestroyWorker, Poll, PollInterrupted
<1> QED
  BY <1>4, <1>5, <1>6 DEF SelectorStep

\* A broadcast goes to registered connections only.
LEMMA SessionSender ==
    ASSUME ShapeInv, ShapeInv', SessionInv,
           SenderStep \/ MainStep \/ TimedSend \/ Shutdown
           \/ \E c \in Conns : \/ Connect(c) \/ Close(c) \/ ReadOutput(c)
                               \/ \E r \in Request : Send(c, r)
    PROVE  SessionInv'
<1> USE DEF setVars, workerVars, sessionVars, senderVars
<1>0. /\ JobsShape /\ SessionShape /\ bc \in Sender /\ \A x \in Conns : AskedInv(x) /\ x \in Waitables
      /\ conn \in [Conns -> Stream]
  BY DEF ShapeInv, JobsShape, SessionInv, Waitables
<1>1. ASSUME UNCHANGED <<user, perms, clients, subs, jobs>>,
             \A x \in Conns : life[x] = "open" => life'[x] = "open",
             \A x \in Conns : conn[x].inbox # <<>> => conn'[x].inbox # <<>>
      PROVE  /\ \A x \in Conns : AskedInv(x)'
             /\ bc' = bc => SessionInv'
  <2>1. \A x \in Conns : AskedInv(x)'
    BY <1>0, <1>1, AskedStays
  <2> QED
    BY <1>0, <1>1, <2>1, RegistryStays
<1>2. ASSUME UNCHANGED <<user, perms, clients, subs, jobs, life>>,
             \A x \in Conns : conn[x].inbox # <<>> => conn'[x].inbox # <<>>,
             \A c \in bc'.todo \cup bc'.half : life[c] = "open",
             bc'.lock = NULL \/ bc'.by = NULL => bc'.todo = {} /\ bc'.half = {}
      PROVE  SessionInv'
  <2>1. \A x \in Conns : AskedInv(x)'
    BY <1>1, <1>2
  <2>2. NoDangling' /\ RegistryAgrees'
    BY <1>2 DEF SessionInv, NoDangling, RegistryAgrees
  <2> QED
    BY <1>2, <2>1, <2>2 DEF SessionInv
<1>3. \A u, test : \A c \in broadcastEvent(u, test) : life[c] = "open"
  BY DEF broadcastEvent, SessionInv, NoDangling
<1>4. CASE HandleMessage
  <2> DEFINE targets == broadcastEvent(user[Head(mq)], "see_all")
  <2>1. bc' = [by |-> Head(mq), lock |-> "registry", todo |-> targets, half |-> {}] /\ Head(mq) # NULL
        /\ UNCHANGED <<user, perms, clients, subs, jobs, life, conn>>
    BY <1>4 DEF HandleMessage, Begin
  <2>2. \A c \in targets : life[c] = "open"
    BY <1>3
  <2> HIDE DEF targets
  <2> QED
    BY <1>2, <2>1, <2>2 DEF NULL
<1>5. CASE TimedSend
  <2>1. PICK targets, lock : /\ bc' = [by |-> "timer", lock |-> lock, todo |-> targets, half |-> {}]
                             /\ lock # NULL /\ \A c \in targets : life[c] = "open"
    <3>1. CASE Begin("timer", "registry", broadcastEvent(Nobody, "any"))
      BY <1>3, <3>1 DEF Begin, NULL
    <3>2. ASSUME NEW e \in Event, Begin("timer", "event", triggerEvent(e))
          PROVE  \E targets, lock : /\ bc' = [by |-> "timer", lock |-> lock, todo |-> targets, half |-> {}]
                                    /\ lock # NULL /\ \A c \in targets : life[c] = "open"
      BY <3>2 DEF Begin, NULL, triggerEvent, SessionInv, NoDangling
    <3> QED
      BY <1>5, <3>1, <3>2 DEF TimedSend
  <2>2. UNCHANGED <<user, perms, clients, subs, jobs, life, conn>>
    BY <1>5 DEF TimedSend, Begin
  <2> QED
    BY <1>2, <2>1, <2>2 DEF NULL
<1>6. CASE HandlerEnds \/ QueueNull \/ Shutdown
  BY <1>1, <1>6 DEF HandlerEnds, QueueNull, Shutdown
<1>7. ASSUME NEW c \in Conns, SendEnqueue(c) \/ SendNotify(c) PROVE SessionInv'
  <2>1. /\ bc'.todo \subseteq bc.todo /\ bc'.half \subseteq bc.todo
        /\ bc'.lock = bc.lock /\ bc'.by = bc.by /\ (bc.todo # {} \/ bc.half # {})
    <3>1. CASE SendEnqueue(c)
      <4>1. bc' = [bc EXCEPT !.todo = bc.todo \ {c}, !.half = {c}] /\ c \in bc.todo
        BY <3>1 DEF SendEnqueue
      <4> QED
        BY <1>0, <4>1 DEF Sender
    <3>2. CASE SendNotify(c)
      <4>1. bc' = [bc EXCEPT !.half = {}] /\ c \in bc.half
        BY <3>2 DEF SendNotify
      <4> QED
        BY <1>0, <4>1 DEF Sender
    <3> QED
      BY <1>7, <3>1, <3>2
  <2>2. /\ UNCHANGED <<user, perms, clients, subs, jobs, life>>
        /\ \A x \in Conns : conn'[x].inbox = conn[x].inbox
    <3>1. UNCHANGED <<user, perms, clients, subs, jobs, life>>
      BY <1>7 DEF SendEnqueue, SendNotify
    <3>2. conn'[c].inbox = conn[c].inbox /\ \A x \in Conns \ {c} : conn'[x] = conn[x]
      <4>1. CASE conn' = [conn EXCEPT ![c].queue = @ + 1]
        BY <1>0, <4>1 DEF Stream
      <4>2. CASE conn' = [conn EXCEPT ![c].note = TRUE]
        BY <1>0, <4>2 DEF Stream
      <4> QED
        BY <1>7, <4>1, <4>2 DEF SendEnqueue, SendNotify
    <3> QED
      BY <3>1, <3>2
  <2> QED
    BY <1>2, <2>1, <2>2 DEF SessionInv, NoDangling
<1>8. CASE SendEnd
  <2>1. /\ bc' = [by |-> NULL, lock |-> NULL, todo |-> {}, half |-> {}]
        /\ UNCHANGED <<user, perms, clients, subs, conn, life>>
    BY <1>8 DEF SendEnd
  <2>2. ASSUME NEW x \in Conns PROVE AskedInv(x)'
    <3>1. x \in Waitables /\ AskedInv(x)
      BY <1>0
    <3>2. DOMAIN jobs'[x] = DOMAIN jobs[x]
      BY <1>8, <3>1, SendEndJobs
    <3>3. \A j \in DOMAIN jobs[x] : /\ jobs'[x][j].at \in Asked => jobs[x][j].at \in Asked
                                    /\ jobs'[x][j].at = "auth" => jobs'[x][j] = jobs[x][j]
      BY <1>8, <3>1, SendEndJobs DEF Asked
    <3> QED
      BY <2>1, <3>1, <3>2, <3>3 DEF AskedInv
  <2>3. NoDangling' /\ RegistryAgrees'
    BY <2>1 DEF SessionInv, NoDangling, RegistryAgrees
  <2> QED
    BY <2>1, <2>2, <2>3 DEF SessionInv
<1>9. CASE DeleteAll
  <2>1. /\ bc.by = NULL /\ UNCHANGED <<user, perms, bc, jobs, conn>>
        /\ life' = [w \in Waitables |-> IF w \in members THEN "deleted" ELSE life[w]]
        /\ clients' = {p \in clients : p[2] \notin members}
        /\ subs' = [e \in Event |-> {c \in subs[e] : c \in members => c \in EventDrop(e, c)}]
    BY <1>9 DEF DeleteAll
  <2>2. \A e \in Event : \A c \in subs'[e] : c \in subs[e] /\ c \notin members
    <3>1. ASSUME NEW e \in Event, NEW c \in subs[e] PROVE c \notin EventDrop(e, c)
      BY DEF EventDrop, SessionInv, RegistryAgrees
    <3> QED
      BY <2>1, <3>1
  <2>3. \A x \in Conns : AskedInv(x)'
    BY <1>0, <2>1, <2>2, AskedStays
  <2>4. bc'.todo = {} /\ bc'.half = {}
    BY <2>1 DEF SessionInv
  <2>5. \A p \in clients' : life'[p[2]] = "open"
    <3>1. ASSUME NEW p \in clients' PROVE life'[p[2]] = "open"
      <4>1. p \in clients /\ p[2] \notin members /\ p[2] \in Waitables
        BY <1>0, <2>1 DEF SessionShape
      <4> QED
        BY <2>1, <4>1 DEF SessionInv, NoDangling
    <3> QED
      BY <3>1
  <2>6. \A e \in Event : \A c \in subs'[e] : life'[c] = "open"
    <3>1. ASSUME NEW e \in Event, NEW c \in subs'[e] PROVE life'[c] = "open"
      <4>1. c \in subs[e] /\ c \notin members /\ c \in Waitables
        BY <1>0, <2>2 DEF SessionShape
      <4> QED
        BY <2>1, <4>1 DEF SessionInv, NoDangling
    <3> QED
      BY <3>1
  <2>7. NoDangling'
    BY <2>4, <2>5, <2>6 DEF NoDangling
  <2>8. RegistryAgrees'
    BY <2>1, <2>2 DEF SessionInv, RegistryAgrees
  <2> QED
    BY <2>1, <2>3, <2>4, <2>7, <2>8 DEF SessionInv
<1>10. ASSUME NEW c \in Conns, Connect(c) \/ Close(c) \/ ReadOutput(c) PROVE SessionInv'
  <2>1. UNCHANGED <<user, perms, clients, subs, jobs, bc>>
    BY <1>10 DEF Connect, Close, ReadOutput
  <2>2. \A x \in Conns : life[x] = "open" => life'[x] = "open"
    BY <1>10 DEF Connect, Close, ReadOutput, ShapeInv, Waitables
  <2>3. \A x \in Conns : conn'[x].inbox = conn[x].inbox
    BY <1>0, <1>10, SMT DEF Connect, Close, ReadOutput, Stream
  <2> QED
    BY <1>1, <2>1, <2>2, <2>3
<1>11. ASSUME NEW c \in Conns, NEW r \in Request, Send(c, r) PROVE SessionInv'
  <2>1. UNCHANGED <<user, perms, clients, subs, jobs, bc, life>>
    BY <1>11 DEF Send
  <2>2. conn[c].inbox \in Seq(Request)
    BY <1>0 DEF Stream
  <2>3. Append(conn[c].inbox, r) # <<>>
    BY ONLY <2>2, r \in Request, AppendFacts
  <2>4. conn'[c].inbox = Append(conn[c].inbox, r) /\ \A x \in Conns \ {c} : conn'[x] = conn[x]
    BY <1>0, <1>11, SMT DEF Send, Stream
  <2> QED
    BY <1>1, <2>1, <2>3, <2>4
<1> QED
  BY <1>4, <1>5, <1>6, <1>7, <1>8, <1>9, <1>10, <1>11 DEF SenderStep, MainStep

-----------------------------------------------------------------------------
(* The output queues.  A connection whose stream and events stay waits as   *)
(* before.                                                                  *)
LEMMA OutputStays ==
    ASSUME NEW c \in Conns, OutputWaits(c), events'[c] = events[c],
           conn'[c].tls = conn[c].tls, conn'[c].queue = conn[c].queue, conn'[c].note = conn[c].note,
           c \in bc.half => c \in bc'.half
    PROVE  OutputWaits(c)'
BY DEF OutputWaits

\* A worker inside a connection does not forget its output.
LEMMA OutputConnection ==
    ASSUME ShapeInv, OwnInv, OutputInv, NEW c \in Conns, NEW i \in DOMAIN jobs[c], ConnectionStep(c, i)
    PROVE  OutputInv'
<1> USE DEF setVars, workerVars, senderVars
<1>0. /\ conn \in [Conns -> Stream] /\ events \in [Waitables -> SUBSET PollEvent]
      /\ \A x \in Conns : x \in Waitables /\ OutputWaits(x)
  BY DEF ShapeInv, OutputInv, Waitables
<1>1. jobs[c][i].at \in Serving /\ \A x \in Conns \ {c} : events'[x] = events[x]
  BY <1>0, ConnectionJobs
<1>2. events[c] = {}
  BY <1>0, <1>1 DEF OwnInv, Own, Served
<1>3. bc' = bc /\ \A x \in Conns \ {c} : conn'[x] = conn[x]
  BY <1>0 DEF ConnectionStep, Handshake, AuthWrong, AuthBegin, AuthEnd, EventMap, Post, PostReply,
              ReadEnds, WriteOne, WriteEnds, WriteStops, Receive, Reply
<1>4. ASSUME NEW x \in Conns \ {c} PROVE OutputWaits(x)'
  BY <1>0, <1>1, <1>3, OutputStays
<1>5. OutputWaits(c)'
  <2>1. CASE UNCHANGED events
    BY <1>2, <2>1 DEF OutputWaits
  <2>2. ASSUME NEW res, Return(c, i, res) PROVE events'[c] = res
    BY <1>0, <2>2 DEF Return
  <2>3. CASE Handshake(c, i)
    <3>1. UNCHANGED events \/ (~conn[c].tls /\ UNCHANGED conn)
      BY <2>3 DEF Handshake
    <3> QED
      BY <2>1, <3>1 DEF OutputWaits
  <2>4. CASE ReadEnds(c, i)
    <3>1. UNCHANGED events \/ Return(c, i, {})
      BY <2>4 DEF ReadEnds
    <3> QED
      BY <2>1, <2>2, <3>1 DEF OutputWaits
  <2>5. CASE WriteEnds(c, i)
    BY <2>2, <2>5 DEF WriteEnds, OutputWaits
  <2>6. CASE WriteStops(c, i)
    <3>1. Return(c, i, {}) \/ Return(c, i, {"in", "out"})
      BY <2>6 DEF WriteStops
    <3> QED
      BY <2>2, <3>1 DEF OutputWaits
  <2>7. CASE \/ AuthWrong(c, i) \/ AuthBegin(c, i) \/ AuthEnd(c, i) \/ EventMap(c, i) \/ Post(c, i)
             \/ PostReply(c, i) \/ WriteOne(c, i)
    BY <2>1, <2>7 DEF AuthWrong, AuthBegin, AuthEnd, EventMap, Post, PostReply, WriteOne, Receive
  <2> QED
    BY <2>3, <2>4, <2>5, <2>6, <2>7 DEF ConnectionStep
<1> QED
  BY <1>3, <1>4, <1>5 DEF OutputInv

\* No step of any thread forgets the output of a connection.
LEMMA OutputNext ==
    ASSUME ShapeInv, OwnInv, SessionInv, OutputInv, Next
    PROVE  OutputInv'
<1> USE DEF setVars, workerVars, senderVars
<1>0. /\ conn \in [Conns -> Stream] /\ events \in [Waitables -> SUBSET PollEvent] /\ bc \in Sender
      /\ \A x \in Conns : x \in Waitables /\ OutputWaits(x) /\ x # Listener
  BY PoolAssumption DEF ShapeInv, OutputInv, Waitables
<1>1. ASSUME UNCHANGED <<conn, bc>>, \A x \in Conns : events'[x] = events[x] \/ events'[x] = {} \/ "out" \in events'[x]
      PROVE  OutputInv'
  <2>1. ASSUME NEW x \in Conns PROVE OutputWaits(x)'
    BY <1>0, <1>1 DEF OutputWaits
  <2> QED
    BY <1>1, <2>1 DEF OutputInv
<1>2. CASE SelectorStep \/ Poll \/ PollInterrupted
  <2>1. UNCHANGED <<conn, bc>> /\ (UNCHANGED events \/ \E w \in Waitables : events' = [events EXCEPT ![w] = {}])
    BY <1>2 DEF SelectorStep, Scan, Dispatch, HandOver, DestroyWorker, Poll, PollInterrupted
  <2> QED
    BY <1>0, <1>1, <2>1
<1>3. ASSUME NEW w \in Waitables, WorkerStep(w) PROVE OutputInv'
  <2>1. PICK i \in DOMAIN jobs[w] : \/ w = Listener /\ (Accept(i) \/ AcceptFails(i))
                                    \/ w \in Conns /\ ConnectionStep(w, i)
                                    \/ WaitableStep(w, i)
    BY <1>3 DEF WorkerStep
  <2>2. CASE w \in Conns /\ ConnectionStep(w, i)
    BY <2>2, OutputConnection
  <2>3. CASE AcceptFails(i)
    BY <1>0, <1>1, <2>3 DEF AcceptFails, Return
  <2>4. CASE Accept(i)
    <3>1. PICK c \in Conns : events' = [events EXCEPT ![c] = {"in", "out"}, ![Listener] = {"in"}]
      BY <2>4 DEF Accept
    <3>2. \A x \in Conns : events'[x] = events[x] \/ "out" \in events'[x]
      BY <1>0, <3>1
    <3> QED
      BY <1>1, <2>4, <3>2 DEF Accept
  <2>5. CASE WaitableStep(w, i)
    BY <1>1, <2>5 DEF WaitableStep, Finish, Remove, Delete
  <2> QED
    BY <2>1, <2>2, <2>3, <2>4, <2>5
<1>4. ASSUME UNCHANGED <<events, conn>>, bc.half = {}, bc'.half = {} PROVE OutputInv'
  <2>1. ASSUME NEW x \in Conns PROVE OutputWaits(x)'
    BY <1>0, <1>4, OutputStays
  <2> QED
    BY <1>4, <2>1 DEF OutputInv
<1>5. CASE HandleMessage \/ TimedSend
  <2>1. bc.by = NULL /\ bc'.half = {} /\ UNCHANGED <<events, conn>>
    BY <1>5, SMT DEF HandleMessage, TimedSend, Begin
  <2> QED
    BY <1>4, <2>1 DEF SessionInv
<1>6. CASE SendEnd
  BY <1>4, <1>6 DEF SendEnd
<1>7. ASSUME NEW c \in Conns, SendEnqueue(c) PROVE OutputInv'
  <2>1. bc.half = {} /\ bc' = [bc EXCEPT !.todo = bc.todo \ {c}, !.half = {c}] /\ UNCHANGED events
        /\ conn' = [conn EXCEPT ![c].queue = @ + 1]
    BY <1>7 DEF SendEnqueue
  <2>2. bc'.half = {c}
    BY <1>0, <2>1 DEF Sender
  <2>3. conn'[c].tls = conn[c].tls /\ \A x \in Conns \ {c} : conn'[x] = conn[x]
    BY <1>0, <2>1 DEF Stream
  <2>4. OutputWaits(c)'
    BY <1>0, <2>1, <2>2, <2>3 DEF OutputWaits
  <2>5. ASSUME NEW x \in Conns \ {c} PROVE OutputWaits(x)'
    BY <1>0, <2>1, <2>3, OutputStays
  <2> QED
    BY <2>2, <2>4, <2>5 DEF OutputInv
<1>8. ASSUME NEW c \in Conns, SendNotify(c) PROVE OutputInv'
  <2>1. c \in bc.half /\ bc' = [bc EXCEPT !.half = {}] /\ UNCHANGED events
        /\ conn' = [conn EXCEPT ![c].note = TRUE]
    BY <1>8 DEF SendNotify
  <2>2. bc'.half = {} /\ \A x \in bc.half : x = c
    BY <1>0, <2>1 DEF Sender, OutputInv
  <2>3. conn'[c].tls = conn[c].tls /\ conn'[c].note /\ \A x \in Conns \ {c} : conn'[x] = conn[x]
    BY <1>0, <2>1 DEF Stream
  <2>4. OutputWaits(c)'
    BY <1>0, <2>1, <2>3 DEF OutputWaits
  <2>5. ASSUME NEW x \in Conns \ {c} PROVE OutputWaits(x)'
    BY <1>0, <2>1, <2>2, <2>3, OutputStays
  <2> QED
    BY <2>2, <2>4, <2>5 DEF OutputInv
<1>9. CASE HandlerEnds \/ MainStep \/ Shutdown
  BY <1>1, <1>9 DEF HandlerEnds, MainStep, QueueNull, DeleteAll, Shutdown
<1>10. ASSUME NEW c \in Conns, Connect(c) PROVE OutputInv'
  BY <1>1, <1>10 DEF Connect
<1>11. ASSUME NEW c \in Conns, Close(c) \/ ReadOutput(c) \/ \E r \in Request : Send(c, r)
       PROVE  OutputInv'
  <2>1. UNCHANGED <<events, bc>>
    BY <1>11 DEF Close, ReadOutput, Send
  <2>2. \A x \in Conns : conn'[x].tls = conn[x].tls /\ conn'[x].queue = conn[x].queue
                         /\ conn'[x].note = conn[x].note
    <3>1. PICK r : \/ conn' = [conn EXCEPT ![c] = [@ EXCEPT !.closed = r]]
                   \/ conn' = [conn EXCEPT ![c] = [@ EXCEPT !.wire = r]]
                   \/ conn' = [conn EXCEPT ![c] = [@ EXCEPT !.inbox = r]]
      BY <1>11 DEF Close, ReadOutput, Send
    <3>2. \A x \in Conns \ {c} : conn'[x] = conn[x]
      BY <1>0, <3>1
    <3>3. conn'[c].tls = conn[c].tls /\ conn'[c].queue = conn[c].queue /\ conn'[c].note = conn[c].note
      <4>1. conn[c] \in Stream
        BY <1>0
      <4>2. conn'[c] \in {[conn[c] EXCEPT !.closed = r], [conn[c] EXCEPT !.wire = r], [conn[c] EXCEPT !.inbox = r]}
        BY <1>0, <3>1
      <4> QED
        BY ONLY <4>1, <4>2 DEF Stream
    <3> QED
      BY <3>2, <3>3
  <2>3. \A x \in Conns : OutputWaits(x)'
    BY <1>0, <2>1, <2>2, OutputStays
  <2> QED
    BY <2>1, <2>3 DEF OutputInv
<1> QED
  BY <1>2, <1>3, <1>5, <1>6, <1>7, <1>8, <1>9, <1>10, <1>11 DEF Next, ServerStep, SenderStep

-----------------------------------------------------------------------------
(* The number of workers.  Max and Min of the sets that configure, Wanted   *)
(* and Spare use.                                                           *)
LEMMA MaxMin ==
    ASSUME NEW a \in Int, NEW b \in Int
    PROVE  /\ Max({a, b}) \in {a, b} /\ Max({a, b}) >= a /\ Max({a, b}) >= b
           /\ Min({a, b}) \in {a, b} /\ Min({a, b}) <= a /\ Min({a, b}) <= b
<1>1. \E x \in {a, b} : \A y \in {a, b} : x >= y
  BY SMT
<1>2. \E x \in {a, b} : \A y \in {a, b} : x <= y
  BY SMT
<1>3. Max({a, b}) \in {a, b} /\ \A y \in {a, b} : Max({a, b}) >= y
  BY <1>1 DEF Max
<1>4. Min({a, b}) \in {a, b} /\ \A y \in {a, b} : Min({a, b}) <= y
  BY <1>2 DEF Min
<1> QED
  BY <1>3, <1>4

\* configure: the pool begins within its limits
LEMMA ConfiguredSizes ==
    /\ MinIdle \in Nat /\ MaxIdle \in Nat /\ MaxTotal \in Nat
    /\ InitWorkers \in Nat /\ InitWorkers <= MaxTotal
<1>1. CfgInit \in Nat /\ CfgMax \in Nat /\ CfgMaxIdle \in Nat /\ CfgMinIdle \in Nat
  BY PoolAssumption
<1>2. MinIdle \in Nat /\ MinIdle >= 1
  BY <1>1, SMT DEF MinIdle
<1>3. MaxIdle \in Nat /\ MaxIdle > MinIdle
  BY <1>1, <1>2, SMT DEF MaxIdle
<1>4. MaxTotal \in Nat /\ MaxTotal >= 2 * MaxIdle
  <2>1. \E x \in {CfgMax, 2, 2 * MaxIdle} : \A y \in {CfgMax, 2, 2 * MaxIdle} : x >= y
    BY <1>1, <1>3, SMT
  <2>2. /\ Max({CfgMax, 2, 2 * MaxIdle}) \in {CfgMax, 2, 2 * MaxIdle}
        /\ \A y \in {CfgMax, 2, 2 * MaxIdle} : Max({CfgMax, 2, 2 * MaxIdle}) >= y
    BY <2>1 DEF Max
  <2> QED
    BY <1>1, <1>3, <2>2, SMT DEF MaxTotal
<1>5. InitWorkers \in Nat /\ InitWorkers <= MaxIdle
  BY <1>1, <1>2, <1>3, SMT DEF InitWorkers
<1> QED
  BY <1>2, <1>3, <1>4, <1>5, SMT

\* The set of workers at work when one is added, and when one leaves
LEMMA AtWorkComes ==
    ASSUME JobsShape, NEW w \in Waitables, NEW e, Comes(w, e), IsFiniteSet(AtWork)
    PROVE  IsFiniteSet(AtWork') /\ Cardinality(AtWork') = Cardinality(AtWork) + 1
<1>1. Len(jobs[w]) \in Nat /\ DOMAIN jobs[w] = 1..Len(jobs[w])
  BY SMT DEF JobsShape
<1>2. DOMAIN jobs'[w] = DOMAIN jobs[w] \cup {Len(jobs[w]) + 1}
  BY <1>1, SMT DEF Comes
<1>3. \A x \in Waitables \ {w} : DOMAIN jobs'[x] = DOMAIN jobs[x]
  BY DEF Comes, OthersStay
<1>4. AtWork' = AtWork \cup {<<w, Len(jobs[w]) + 1>>}
  BY <1>2, <1>3, SMT DEF AtWork
<1>5. <<w, Len(jobs[w]) + 1>> \notin AtWork
  BY <1>1, SMT DEF AtWork
<1> QED
  BY <1>4, <1>5, FS_AddElement

\* One worker fewer is at work after one has left a waitable.
LEMMA AtWorkLeaves ==
    ASSUME JobsShape, NEW w \in Waitables, NEW i \in DOMAIN jobs[w], Leaves(w, i), IsFiniteSet(AtWork)
    PROVE  IsFiniteSet(AtWork') /\ Cardinality(AtWork') = Cardinality(AtWork) - 1
<1>1. Len(jobs[w]) \in Nat /\ Len(jobs[w]) >= 1 /\ DOMAIN jobs[w] = 1..Len(jobs[w])
  BY SMT DEF JobsShape
<1>2. DOMAIN jobs'[w] = DOMAIN jobs[w] \ {Len(jobs[w])}
  BY <1>1, SMT DEF Leaves
<1>3. \A x \in Waitables \ {w} : DOMAIN jobs'[x] = DOMAIN jobs[x]
  BY DEF Leaves, OthersStay
<1>4. AtWork' = AtWork \ {<<w, Len(jobs[w])>>}
  BY <1>2, <1>3, SMT DEF AtWork
<1>5. <<w, Len(jobs[w])>> \in AtWork
  BY <1>1, SMT DEF AtWork
<1> QED
  BY <1>4, <1>5, FS_RemoveElement

\* As many workers are at work as long as none comes or leaves.
LEMMA AtWorkStays ==
    ASSUME \A x \in Waitables : DOMAIN jobs'[x] = DOMAIN jobs[x]
    PROVE  AtWork' = AtWork
BY DEF AtWork

\* The counts of workers are those of the threads after every step.
LEMMA WorkerNext ==
    ASSUME ShapeInv, SelectorInv, WorkerInv, Next
    PROVE  WorkerInv'
<1> USE DEF setVars, workerVars
<1>0. JobsShape /\ idle \in Nat /\ total \in Nat /\ total <= MaxTotal /\ MaxTotal \in Nat
      /\ IsFiniteSet(AtWork) /\ total = idle + Cardinality(AtWork) /\ Cardinality(AtWork) \in Nat
      /\ MinIdle \in Nat /\ MaxIdle \in Nat
  BY ConfiguredSizes, FS_CardinalityType DEF ShapeInv, JobsShape, WorkerInv
<1>1. ASSUME \A x \in Waitables : DOMAIN jobs'[x] = DOMAIN jobs[x], UNCHANGED <<idle, total>>
      PROVE  WorkerInv'
  <2>1. AtWork' = AtWork
    BY <1>1, AtWorkStays
  <2> QED
    BY <1>0, <1>1, <2>1 DEF WorkerInv, MaxTotal, MaxIdle, MinIdle
<1>2. ASSUME NEW w \in Waitables, NEW free \in Nat, HandTo(w, free), total' = free + Cardinality(AtWork),
             total' <= MaxTotal
      PROVE  WorkerInv'
  <2> DEFINE e == [at |-> "process", arg |-> Nobody]
  <2>1. e \in Entry
    BY DEF Entry, At
  <2>2. CASE free > 0
    <3>1. jobs' = [jobs EXCEPT ![w] = Append(@, e)] /\ idle' = free - 1
      BY <1>2, <2>2 DEF HandTo
    <3> HIDE DEF e
    <3>2. Comes(w, e)
      BY <1>0, <2>1, <3>1, JobComes
    <3>3. IsFiniteSet(AtWork') /\ Cardinality(AtWork') = Cardinality(AtWork) + 1
      BY <1>0, <3>2, AtWorkComes
    <3> QED
      BY <1>0, <1>2, <2>2, <3>1, <3>3, SMT DEF WorkerInv
  <2>3. CASE ~(free > 0)
    <3>1. jobs' = jobs /\ idle' = free
      BY <1>2, <2>3 DEF HandTo
    <3>2. AtWork' = AtWork
      BY <3>1, AtWorkStays
    <3> QED
      BY <1>0, <1>2, <3>1, <3>2, SMT DEF WorkerInv
  <2> QED
    BY <2>2, <2>3
<1>3. CASE Scan \/ PollInterrupted \/ Poll
  BY <1>1, <1>3 DEF Scan, PollInterrupted, Poll
<1>4. ASSUME NEW w \in Waitables, Dispatch(w) PROVE WorkerInv'
  <2> DEFINE short == Max({MinIdle + 1 - idle, 0})
             room == MaxTotal - total
  <2>1. PICK made \in 0..Wanted : total' = total + made - Spare /\ HandTo(w, idle + made - Spare)
    BY <1>4 DEF Dispatch
  <2>2. short \in Nat
    <3>1. MinIdle + 1 - idle \in Int /\ 0 \in Int
      BY <1>0, SMT
    <3>2. short \in {MinIdle + 1 - idle, 0} /\ short >= 0
      BY ONLY <3>1, MaxMin
    <3> QED
      BY ONLY <3>1, <3>2
  <2>3. Wanted \in Nat /\ Wanted <= room
    <3>1. room \in Nat
      BY <1>0, SMT
    <3>2. Wanted = Min({short, room})
      BY DEF Wanted
    <3> HIDE DEF short, room
    <3>3. short \in Int /\ room \in Int
      BY <2>2, <3>1, SMT
    <3>4. Min({short, room}) \in {short, room} /\ Min({short, room}) <= room
      BY ONLY <3>3, MaxMin
    <3> QED
      BY ONLY <2>2, <3>1, <3>2, <3>4
  <2>4. Spare \in Nat /\ Spare <= idle
    <3>1. idle - MaxIdle \in Int /\ 0 \in Int
      BY <1>0, SMT
    <3>2. Spare \in {idle - MaxIdle, 0} /\ Spare >= 0
      BY ONLY <3>1, MaxMin DEF Spare
    <3> QED
      BY <1>0, <3>1, <3>2, SMT
  <2>5. made \in Nat /\ made <= room
    BY <1>0, <2>1, <2>3, SMT
  <2> DEFINE free == idle + made - Spare
  <2>6. free \in Nat /\ total' = free + Cardinality(AtWork) /\ total' <= MaxTotal
    BY <1>0, <2>1, <2>4, <2>5, SMT
  <2>7. HandTo(w, free)
    BY <2>1
  <2> HIDE DEF free
  <2> QED
    BY <1>2, <2>6, <2>7
<1>5. CASE HandOver
  <2>1. sel.cur \in Waitables
    BY <1>5 DEF HandOver, SelectorInv, ShapeInv, Selector
  <2> QED
    BY <1>0, <1>2, <1>5, <2>1 DEF HandOver
<1>6. CASE DestroyWorker
  <2>1. AtWork' = AtWork /\ idle > 0 /\ idle' = idle - 1 /\ total' = total - 1
    BY <1>6, AtWorkStays DEF DestroyWorker
  <2> QED
    BY <1>0, <2>1, SMT DEF WorkerInv
<1>7. CASE HandleMessage \/ HandlerEnds \/ TimedSend \/ QueueNull \/ Shutdown \/ DeleteAll
  BY <1>1, <1>7 DEF HandleMessage, HandlerEnds, TimedSend, Begin, QueueNull, Shutdown, DeleteAll
<1>8. ASSUME NEW c \in Conns, \/ SendEnqueue(c) \/ SendNotify(c) \/ Connect(c) \/ Close(c)
                              \/ ReadOutput(c) \/ \E r \in Request : Send(c, r)
      PROVE  WorkerInv'
  BY <1>1, <1>8 DEF SendEnqueue, SendNotify, Connect, Close, ReadOutput, Send
<1>9. CASE SendEnd
  BY <1>1, <1>9, SendEndJobs DEF SendEnd
<1>10. ASSUME NEW w \in Waitables, NEW i \in DOMAIN jobs[w], WaitableStep(w, i) PROVE WorkerInv'
  <2>1. CASE Remove(w, i)
    <3>1. Go(w, i, "delete") /\ UNCHANGED <<idle, total>>
      BY <2>1 DEF Remove
    <3>2. Becomes(w, i, [at |-> "delete", arg |-> jobs[w][i].arg])
      BY <1>0, <3>1, JobGoes DEF At
    <3> QED
      BY <1>1, <3>1, <3>2 DEF Becomes, OthersStay
  <2>2. CASE Finish(w, i) \/ Delete(w, i)
    <3>1. Leave(w, i) /\ idle' = idle + 1 /\ UNCHANGED total
      BY <2>2 DEF Finish, Delete
    <3>2. Leaves(w, i)
      BY <1>0, <3>1, JobLeaves
    <3>3. IsFiniteSet(AtWork') /\ Cardinality(AtWork') = Cardinality(AtWork) - 1
      BY <1>0, <3>2, AtWorkLeaves
    <3> QED
      BY <1>0, <3>1, <3>3, SMT DEF WorkerInv
  <2> QED
    BY <1>10, <2>1, <2>2 DEF WaitableStep
<1>11. ASSUME NEW i \in DOMAIN jobs[Listener], Accept(i) \/ AcceptFails(i) PROVE WorkerInv'
  <2>1. Go(Listener, i, "finish") /\ UNCHANGED <<idle, total>> /\ Listener \in Waitables
    BY <1>11 DEF Accept, AcceptFails, Return, Waitables
  <2>2. Becomes(Listener, i, [at |-> "finish", arg |-> jobs[Listener][i].arg])
    BY <1>0, <2>1, JobGoes DEF At
  <2> QED
    BY <1>1, <2>1, <2>2 DEF Becomes, OthersStay
<1>12. ASSUME NEW c \in Conns, NEW i \in DOMAIN jobs[c], ConnectionStep(c, i) PROVE WorkerInv'
  BY <1>1, <1>12, ConnectionJobs DEF Becomes, OthersStay
<1>13. ASSUME NEW w \in Waitables, WorkerStep(w) PROVE WorkerInv'
  BY <1>10, <1>11, <1>12, <1>13 DEF WorkerStep
<1> QED
  BY <1>3, <1>4, <1>5, <1>6, <1>7, <1>8, <1>9, <1>13
     DEF Next, ServerStep, SelectorStep, SenderStep, MainStep

-----------------------------------------------------------------------------
(* At the start, and at any moment at which the connections in open wait.   *)
LEMMA PoolInitInv ==
    ASSUME NEW open \in SUBSET Conns, InitFrom(open)
    PROVE  PoolInv
<1> USE DEF InitFrom, SessionInit
<1>0. Listener \in Waitables /\ Conns \subseteq Waitables /\ Listener \notin Conns
      /\ \A x \in Waitables : x # NULL
  BY PoolAssumption DEF Waitables
<1>1. ShapeInv
  <2>1. SessionShape
    BY DEF SessionShape
  <2>2. events \in [Waitables -> SUBSET PollEvent]
    BY DEF PollEvent
  <2>3. members \subseteq Waitables /\ life \in [Waitables -> {"none", "connecting", "open", "deleted"}]
    BY <1>0
  <2>4. jobs \in [Waitables -> Seq(Entry)] /\ sel \in Selector
    BY SMT DEF Selector
  <2>5. conn \in [Conns -> Stream]
    BY SMT DEF Stream
  <2>6. mq \in Seq(Conns \cup {NULL}) /\ bc \in Sender
    BY SMT DEF Sender
  <2> QED
    BY <2>1, <2>2, <2>3, <2>4, <2>5, <2>6 DEF ShapeInv
<1>2. SelectorInv
  BY DEF SelectorInv
<1>3. OwnInv
  <2>1. \A w \in Waitables : jobs[w] = <<>> /\ DOMAIN jobs[w] = {} /\ sel.cur # w /\ sel.at = "scan" /\ sel.ready = {}
    BY <1>0, SMT
  <2>2. \A w \in Waitables : w \in members => life[w] = "open"
    OBVIOUS
  <2> QED
    BY <2>1, <2>2 DEF OwnInv, Own, OneServes, Served, Awaited
<1>4. SessionInv
  <2>1. \A c \in Conns : DOMAIN jobs[c] = {}
    BY <1>0, SMT
  <2> QED
    BY <2>1 DEF SessionInv, AskedInv, NoDangling, RegistryAgrees
<1>5. WorkerInv
  <2>1. AtWork = {}
    BY SMT DEF AtWork
  <2>2. IsFiniteSet(AtWork) /\ Cardinality(AtWork) = 0
    BY <2>1, FS_EmptySet
  <2> QED
    BY <2>2, ConfiguredSizes, SMT DEF WorkerInv
<1>6. OutputInv
  <2>1. \A c \in Conns : conn[c].queue = 0 /\ events[c] = IF c \in open THEN {"in", "note"} ELSE {}
    BY <1>0
  <2>2. ASSUME NEW c \in Conns PROVE OutputWaits(c)
    BY ONLY <2>1, c \in Conns DEF OutputWaits
  <2>3. \A x, y \in bc.half : x = y
    OBVIOUS
  <2> QED
    BY <2>2, <2>3 DEF OutputInv
<1> QED
  BY <1>1, <1>2, <1>3, <1>4, <1>5, <1>6 DEF PoolInv

\* No step breaks the invariant, up to the one by which a waitable is deleted
\* under a worker.
LEMMA PoolNextInv ==
    ASSUME PoolInv, Next
    PROVE  PoolInv'
<1> USE DEF PoolInv
<1>0. ~crossed
  BY DEF Next
<1>1. \/ SelectorStep \/ Poll \/ PollInterrupted
      \/ \E w \in Waitables : WorkerStep(w)
      \/ SenderStep \/ MainStep \/ TimedSend \/ Shutdown
      \/ \E c \in Conns : \/ Connect(c) \/ Close(c) \/ ReadOutput(c)
                          \/ \E r \in Request : Send(c, r)
  BY DEF Next, ServerStep
<1>2. SelectorInv' /\ WorkerInv' /\ OutputInv'
  BY SelectorNext, WorkerNext, OutputNext
<1>3. CASE SelectorStep \/ Poll \/ PollInterrupted
  BY <1>0, <1>2, <1>3, SelectorShape, OwnSelector, SessionSelector
<1>4. ASSUME NEW w \in Waitables, WorkerStep(w) PROVE PoolInv'
  <2>1. ShapeInv'
    BY <1>4, ConnectionShape, WaitableShape DEF WorkerStep
  <2> QED
    BY <1>0, <1>2, <1>4, <2>1, OwnWorker, SessionWorker
<1>5. CASE \/ SenderStep \/ MainStep \/ TimedSend \/ Shutdown
           \/ \E c \in Conns : \/ Connect(c) \/ Close(c) \/ ReadOutput(c)
                               \/ \E r \in Request : Send(c, r)
  <2>1. ShapeInv'
    BY <1>5, SenderShape
  <2>2. OwnInv'
    BY <1>0, <1>5, OwnSender
  <2>3. SessionInv'
    BY <1>5, <2>1, SessionSender
  <2> QED
    BY <1>2, <2>1, <2>2, <2>3
<1> QED
  BY <1>1, <1>3, <1>4, <1>5

(* The inductive invariant holds from the start of the server, and from any *)
(* moment at which some connections have had their handshake and wait.      *)
THEOREM SocketInvariant ==
    ASSUME NEW open \in SUBSET Conns
    PROVE  InitFrom(open) /\ [][Next]_vars => []PoolInv
<1>1. InitFrom(open) => PoolInv
  BY PoolInitInv
<1>2. PoolInv /\ [Next]_vars => PoolInv'
  <2>1. ASSUME PoolInv, Next PROVE PoolInv'
    BY <2>1, PoolNextInv
  <2>2. ASSUME PoolInv, UNCHANGED vars PROVE PoolInv'
    <3>1. UNCHANGED <<user, perms, clients, subs, events, members, life, jobs, idle, total, sel, conn, mq, bc, crossed>>
      BY <2>2 DEF vars, setVars, workerVars, senderVars, sessionVars
    <3>2. ShapeInv' /\ SelectorInv'
      BY <2>2, <3>1 DEF PoolInv, ShapeInv, SessionShape, SelectorInv
    <3>3. OwnInv'
      BY <2>2, <3>1 DEF PoolInv, OwnInv, Own, OneServes, Served, Awaited
    <3>4. SessionInv'
      BY <2>2, <3>1 DEF PoolInv, SessionInv, AskedInv, NoDangling, RegistryAgrees, matches
    <3>5. WorkerInv' /\ OutputInv'
      BY <2>2, <3>1 DEF PoolInv, WorkerInv, AtWork, OutputInv, OutputWaits
    <3> QED
      BY <3>2, <3>3, <3>4, <3>5 DEF PoolInv
  <2> QED
    BY <2>1, <2>2
<1> QED
  BY <1>1, <1>2, PTL

(* No message block that a worker, the message handler or the timer has put *)
(* into the queue of a connection is left there (sendMessageBlock,          *)
(* write_data): the connection waits to be writable or has been notified.   *)
THEOREM OutputIsNotForgotten == Spec => []OutputNotForgotten
<1>1. Spec => []PoolInv
  BY SocketInvariant DEF Spec, Init
<1>2. PoolInv => OutputNotForgotten
  <2>1. ASSUME PoolInv, NEW c \in Conns, conn[c].tls, conn[c].queue > 0, events[c] # {}
        PROVE  "out" \in events[c] \/ ("note" \in events[c] /\ (conn[c].note \/ c \in bc.half))
    BY <2>1, SMT DEF PoolInv, OutputInv, OutputWaits
  <2> QED
    BY <2>1 DEF OutputNotForgotten
<1> QED
  BY <1>1, <1>2, PTL

(* Every worker thread is idle or at work and there are never more than the *)
(* limit; the registry and a thread that is sending know only connections   *)
(* that exist; each is registered for the user who is logged in and for     *)
(* events its permissions allow (create_worker, worker_idle, ActAuth,       *)
(* registerClient, deregisterClient, the destructor of ClientConnection).   *)
THEOREM RegistryIsConsistent == Spec => []RegistryConsistent
<1>1. Spec => []PoolInv
  BY SocketInvariant DEF Spec, Init
<1>2. PoolInv => RegistryConsistent
  <2> SUFFICES ASSUME PoolInv PROVE RegistryConsistent
    OBVIOUS
  <2>1. \A w \in Waitables : \A i \in DOMAIN jobs[w] : jobs[w][i].at \in At
    <3>1. ASSUME NEW w \in Waitables, NEW i \in DOMAIN jobs[w] PROVE jobs[w][i].at \in At
      <4>1. jobs[w][i] \in Entry
        BY SMT DEF PoolInv, ShapeInv
      <4> QED
        BY <4>1 DEF Entry
    <3> QED
      BY <3>1
  <2>2. idle \in 0..MaxTotal /\ total \in 0..MaxTotal
    <3>1. MaxTotal \in Nat /\ Cardinality(AtWork) \in Nat
      BY ConfiguredSizes, FS_CardinalityType DEF PoolInv, WorkerInv
    <3> QED
      BY <3>1, SMT DEF PoolInv, WorkerInv
  <2>3. PoolTypeOK
    BY <2>1, <2>2 DEF PoolInv, ShapeInv, SessionShape, WorkerInv, PoolTypeOK
  <2> QED
    BY <2>3 DEF PoolInv, SessionInv, RegistryConsistent
<1> QED
  BY <1>1, <1>2, PTL
=============================================================================
