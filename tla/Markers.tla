------------------------------ MODULE Markers ------------------------------
(***************************************************************************)
(* The marking pool of abacusd: class Markers (src/src/markers.C).         *)
(*                                                                         *)
(* The pool matches submissions that wait for a mark (_problems) with      *)
(* marker connections that wait for work (_markers), remembers which       *)
(* submission each connection is working on (_issued), and keeps a         *)
(* priority queue of issue times from which a thread takes jobs back that  *)
(* were issued too long ago (_issue_times).                                *)
(*                                                                         *)
(* Every public method runs under one mutex, so each is one atomic action. *)
(* checkForTimeouts is the exception: it reads the clock again on every    *)
(* turn of its loop, so it is modelled turn by turn, and `checking' says   *)
(* that its thread holds the mutex meanwhile.                              *)
(*                                                                         *)
(* A ClientConnection is known to the pool by its address only.  Conn is   *)
(* the set of addresses: the same address may be used again by a later     *)
(* connection, which is what the pool would see.                           *)
(***************************************************************************)
EXTENDS Integers, Sequences, Functions

CONSTANTS
    Conn,       \* addresses of ClientConnection objects
    Sub,        \* submission ids (never 0)
    NoSub,      \* the 0 that hasIssued returns for "nothing issued"
    Timeout,    \* [markers] timeout of the configuration, in clock ticks
    MaxTime,    \* bound on the clock
    DbMayFail   \* may a database access inside issue() fail?

ASSUME NoSubAssumption == NoSub \notin Sub
ASSUME TimeAssumption == Timeout \in Nat \ {0} /\ MaxTime \in Nat
ASSUME DbAssumption == DbMayFail \in BOOLEAN

VARIABLES
    pool,       \* the data members of the Markers object
    live,       \* addresses at which a ClientConnection exists
    enqueued,   \* history: the submissions given to enqueueSubmission
    dismissed,  \* history: the submissions notifyMarked has let go of
    checking,   \* the timeout thread is inside the loop of checkForTimeouts
    now         \* time(NULL)

poolVars == <<pool, enqueued, dismissed, checking, now>>
vars == <<pool, live, enqueued, dismissed, checking, now>>

Pool == [markers     : Seq(Conn),
         problems    : Seq(Sub),
         issued      : [Conn -> Sub \cup {NoSub}],
         issue_times : SUBSET [time : Nat, cc : Conn, sub : Sub],
         issued_at   : [Conn -> Nat]]    \* history: time of the last issue

TypeOK ==
    /\ pool \in Pool
    /\ live \in SUBSET Conn
    /\ enqueued \in SUBSET Sub
    /\ dismissed \in SUBSET Sub
    /\ checking \in BOOLEAN
    /\ now \in Nat

Init ==
    /\ pool = [markers |-> <<>>, problems |-> <<>>,
               issued |-> [c \in Conn |-> NoSub], issue_times |-> {},
               issued_at |-> [c \in Conn |-> 0]]
    /\ live = {}
    /\ enqueued = {}
    /\ dismissed = {}
    /\ checking = FALSE
    /\ now = 0

-----------------------------------------------------------------------------
(* The private helpers, as functions from a pool to a pool.  `ok' is the   *)
(* outcome of the database accesses of the issue() call they lead to.      *)

DbOutcome == IF DbMayFail THEN BOOLEAN ELSE {TRUE}

\* Mutant: one issue-time entry per connection, kept when it is there already
IssueKeepsEntry(q, c, s, ok) ==
    LET entries == IF \E e \in q.issue_times : e.cc = c /\ e.sub = s
                   THEN q.issue_times
                   ELSE q.issue_times \cup {[time |-> now, cc |-> c, sub |-> s]}
    IN  IF ok
        THEN [q EXCEPT !.issued[c] = s, !.issued_at[c] = now, !.issue_times = entries]
        ELSE [q EXCEPT !.problems = Append(@, s), !.markers = Append(@, c)]

Issue(q, c, s, ok) ==
    IF ok
    THEN [q EXCEPT !.issued[c] = s,
                   !.issued_at[c] = now,
                   !.issue_times = @ \cup {[time |-> now, cc |-> c, sub |-> s]}]
    ELSE [q EXCEPT !.problems = Append(@, s), !.markers = Append(@, c)]

RealEnqueueSubmission(q, s, ok) ==
    IF q.markers = <<>>
    THEN [q EXCEPT !.problems = Append(@, s)]
    ELSE Issue([q EXCEPT !.markers = Tail(@)], Head(q.markers), s, ok)

\* Mutant: never looks for a waiting submission
RealEnqueueMarkerWaits(q, c, ok) == [q EXCEPT !.markers = Append(@, c)]

\* Mutant: takes the submission that arrived last
RealEnqueueMarkerLifo(q, c, ok) ==
    IF q.problems = <<>>
    THEN [q EXCEPT !.markers = Append(@, c)]
    ELSE Issue([q EXCEPT !.problems = SubSeq(@, 1, Len(@) - 1)],
               c, q.problems[Len(q.problems)], ok)

RealEnqueueMarker(q, c, ok) ==
    IF q.problems = <<>>
    THEN [q EXCEPT !.markers = Append(@, c)]
    ELSE Issue([q EXCEPT !.problems = Tail(@)], c, Head(q.problems), ok)

\* _issued.erase(cc)
Unissue(q, c) == [q EXCEPT !.issued[c] = NoSub]

\* _markers.erase(p), p the first place at which std::find finds cc
Position(s, x) ==
    CHOOSE i \in DOMAIN s : s[i] = x /\ \A j \in 1 .. i - 1 : s[j] # x
Erase(s, x) ==
    SubSeq(s, 1, Position(s, x) - 1) \o SubSeq(s, Position(s, x) + 1, Len(s))

\* Mutant: forgets the submission the marker was working on
PreemptedLosesJob(q, c, ok) ==
    IF c \in Range(q.markers)
    THEN [q EXCEPT !.markers = Erase(@, c)]
    ELSE Unissue(q, c)

\* what preemptMarker leaves of the pool
Preempted(q, c, ok) ==
    IF c \in Range(q.markers)
    THEN [q EXCEPT !.markers = Erase(@, c)]
    ELSE IF q.issued[c] # NoSub
         THEN RealEnqueueSubmission(Unissue(q, c), q.issued[c], ok)
         ELSE q

\* Mutant: the earliest entry first, with no other change
TopEarliest(times) == {e \in times : \A f \in times : e.time <= f.time}

\* the entry std::priority_queue keeps on top is a greatest one; which of
\* several with the same time depends on addresses
Top(times) == {e \in times : \A f \in times : f.time <= e.time}

TimedOut(e) == now - e.time > Timeout

-----------------------------------------------------------------------------
(* The public methods.                                                     *)

EnqueueMarker(c) ==
    /\ ~checking
    /\ IF pool.issued[c] # NoSub \/ c \in Range(pool.markers)
       THEN pool' = pool
       ELSE \E ok \in DbOutcome : pool' = RealEnqueueMarker(pool, c, ok)
    /\ UNCHANGED <<enqueued, dismissed, checking, now>>

PreemptMarker(c) ==
    /\ ~checking
    /\ \E ok \in DbOutcome : pool' = Preempted(pool, c, ok)
    /\ UNCHANGED <<enqueued, dismissed, checking, now>>

EnqueueSubmission(s) ==
    /\ ~checking
    /\ \E ok \in DbOutcome : pool' = RealEnqueueSubmission(pool, s, ok)
    /\ enqueued' = enqueued \cup {s}
    /\ UNCHANGED <<dismissed, checking, now>>

\* hasIssued(c) = s
HasIssued(c, s) == ~checking /\ pool.issued[c] = s

\* The code erases c from _issued after it has put another submission than
\* s back.  Nothing in between reads that entry: c is busy, so it is not the
\* marker real_enqueueSubmission takes from _markers.
NotifyMarked(c, s) ==
    /\ ~checking
    /\ \/ /\ pool.issued[c] = NoSub
          /\ UNCHANGED <<pool, dismissed>>
       \/ /\ pool.issued[c] # NoSub
          /\ \E ok1, ok2 \in DbOutcome :
                LET q == Unissue(pool, c)
                    r == IF pool.issued[c] # s
                         THEN RealEnqueueSubmission(q, pool.issued[c], ok1)
                         ELSE q
                IN  pool' = RealEnqueueMarker(r, c, ok2)
          /\ dismissed' = IF pool.issued[c] = s THEN dismissed \cup {s}
                                                ELSE dismissed
    /\ UNCHANGED <<enqueued, checking, now>>

-----------------------------------------------------------------------------
(* The timeout thread: take the mutex, pop expired entries while there are *)
(* any on top, release the mutex.                                          *)

CheckForTimeoutsEnter ==
    /\ ~checking
    /\ checking' = TRUE
    /\ UNCHANGED <<pool, enqueued, dismissed, now>>

\* Mutant: the marker that is too slow is given work again at once
CheckForTimeoutsPopReuses ==
    /\ checking
    /\ \E e \in Top(pool.issue_times), ok \in DbOutcome :
          /\ TimedOut(e)
          /\ LET q == [pool EXCEPT !.issue_times = @ \ {e}]
             IN  pool' = IF pool.issued[e.cc] = e.sub
                         THEN RealEnqueueMarker(
                                RealEnqueueSubmission(Unissue(q, e.cc), e.sub, ok), e.cc, ok)
                         ELSE q
    /\ UNCHANGED <<enqueued, dismissed, checking, now>>

CheckForTimeoutsPop ==
    /\ checking
    /\ \E e \in Top(pool.issue_times), ok \in DbOutcome :
          /\ TimedOut(e)
          /\ LET q == [pool EXCEPT !.issue_times = @ \ {e}]
             IN  pool' = IF pool.issued[e.cc] = e.sub
                         THEN RealEnqueueSubmission(Unissue(q, e.cc), e.sub, ok)
                         ELSE q
    /\ UNCHANGED <<enqueued, dismissed, checking, now>>

CheckForTimeoutsLeave ==
    /\ checking
    /\ \A e \in Top(pool.issue_times) : ~TimedOut(e)
    /\ checking' = FALSE
    /\ UNCHANGED <<pool, enqueued, dismissed, now>>

Tick ==
    /\ now < MaxTime
    /\ now' = now + 1
    /\ UNCHANGED <<pool, enqueued, dismissed, checking>>

-----------------------------------------------------------------------------
(* The callers.  A connection comes and goes; while it exists its client   *)
(* may subscribe, give up its job (a bad mark request or a new login), or  *)
(* report a mark for any submission.  The message handler enqueues each    *)
(* submission once.                                                        *)

Connect(c) ==
    /\ c \notin live
    /\ live' = live \cup {c}
    /\ UNCHANGED poolVars

\* ~ClientConnection
Disconnect(c) ==
    /\ c \in live
    /\ PreemptMarker(c)
    /\ live' = live \ {c}

Subscribe(c) == c \in live /\ EnqueueMarker(c) /\ UNCHANGED live

GiveUp(c) == c \in live /\ PreemptMarker(c) /\ UNCHANGED live

Report(c, s) == c \in live /\ NotifyMarked(c, s) /\ UNCHANGED live

Submit(s) == s \notin enqueued /\ EnqueueSubmission(s) /\ UNCHANGED live

TimeoutThread ==
    /\ CheckForTimeoutsEnter \/ CheckForTimeoutsPop \/ CheckForTimeoutsLeave
    /\ UNCHANGED live

Next ==
    \/ \E c \in Conn : Connect(c) \/ Disconnect(c) \/ Subscribe(c) \/ GiveUp(c)
    \/ \E c \in Conn, s \in Sub : Report(c, s)
    \/ \E s \in Sub : Submit(s)
    \/ TimeoutThread
    \/ Tick /\ UNCHANGED live

Spec == Init /\ [][Next]_vars

-----------------------------------------------------------------------------
(* Properties.                                                             *)

\* the submissions the pool still answers for
Held(q) == Range(q.problems) \cup ({q.issued[c] : c \in Conn} \ {NoSub})

(* No submission is lost and none comes back: whatever sequence of         *)
(* subscriptions, disconnections, timeouts, wrong reports and database     *)
(* failures happened, the pool (real_enqueueSubmission, issue,             *)
(* preemptMarker, notifyMarked, checkForTimeouts) holds exactly the        *)
(* submissions that were enqueued and whose mark has not been reported by  *)
(* the marker they were issued to.                                         *)
NothingLost == Held(pool) = enqueued \ dismissed

(* A submission is in one place only: at most once in _problems, issued to *)
(* at most one marker, never both.  This is what keeps two markers from    *)
(* working on one submission as far as the pool knows.                     *)
OneHome ==
    /\ IsInjective(pool.problems)
    /\ \A c \in Conn : pool.issued[c] \notin Range(pool.problems)
    /\ \A c, d \in Conn :
          pool.issued[c] = pool.issued[d] /\ pool.issued[c] # NoSub => c = d

(* The pool never refers to a destroyed connection, and never offers work  *)
(* to a busy one: the addresses in _markers are distinct, belong to        *)
(* existing connections and have nothing issued; addresses in _issued      *)
(* belong to existing connections.  issue() dereferences these addresses.  *)
MarkersUsable ==
    /\ IsInjective(pool.markers)
    /\ \A c \in Range(pool.markers) : c \in live /\ pool.issued[c] = NoSub
    /\ \A c \in Conn : pool.issued[c] # NoSub => c \in live

(* Every issued job has its own entry in _issue_times, whatever entries of *)
(* earlier jobs of the same address were popped meanwhile, so the timeout  *)
(* thread can find it.                                                     *)
TimerArmed ==
    \A c \in Conn : pool.issued[c] # NoSub =>
        [time |-> pool.issued_at[c], cc |-> c, sub |-> pool.issued[c]]
            \in pool.issue_times

(* The containers of the pool agree with each other and with the           *)
(* connections after every step: what issue(), preemptMarker,              *)
(* notifyMarked and checkForTimeouts rely on.                              *)
PoolConsistent == TypeOK /\ OneHome /\ MarkersUsable /\ TimerArmed

(* As long as no database access in issue() fails, the pool never keeps a  *)
(* marker idle while a submission waits.                                   *)
WorkConserving ==
    ~DbMayFail => pool.markers = <<>> \/ pool.problems = <<>>

(* A job is taken from its marker by checkForTimeouts only when that job   *)
(* itself is older than the timeout, although stale entries for the same   *)
(* address and the same submission may be in _issue_times.                 *)
NoPrematureTimeout ==
    [][\A c \in Conn :
          checking /\ pool.issued[c] # NoSub /\ pool'.issued[c] # pool.issued[c]
          => now - pool.issued_at[c] > Timeout]_vars

(* As long as no database access in issue() fails, submissions are handed  *)
(* out in queue order: nothing is issued past a submission that stays in   *)
(* _problems.                                                              *)
NoOvertaking ==
    [][\A c \in Conn, i \in DOMAIN pool.problems :
          /\ ~DbMayFail
          /\ pool'.issued[c] \notin {NoSub, pool.issued[c]}
          /\ pool.problems[i] \in Range(pool'.problems)
          => \E k \in 1 .. i - 1 : pool.problems[k] = pool'.issued[c]]_vars

(* "The earliest submitted marking job has timed out" (markers.C:194): the *)
(* loop looks at the jobs from the earliest on, so when it ends no issued  *)
(* job is older than the timeout.                                          *)
OverdueJobsCaught ==
    [][checking /\ ~checking' =>
         \A c \in Conn : pool.issued[c] # NoSub => now - pool.issued_at[c] <= Timeout]_vars
=============================================================================
