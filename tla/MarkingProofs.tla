--------------------------- MODULE MarkingProofs ---------------------------
(***************************************************************************)
(* Proofs about Markers and Marking.                                       *)
(*                                                                         *)
(* Markers: the pool, for every set of connections and submissions, every  *)
(* timeout, and with or without database failures.                         *)
(*                                                                         *)
(* Marking: no interleaving of mark requests, the message handler, the     *)
(* timeout thread and restarts makes the server forget a submission, reply *)
(* before the mark is stored, or let a marker report a job it does not     *)
(* have.  They hold for every number of connections, submissions, messages *)
(* and restarts, with or without failures of the database and of           *)
(* makeMessage.                                                            *)
(***************************************************************************)
EXTENDS Marking, FiniteSetTheorems, TLAPS

\* Most steps are logic and sets; those that compute name SMT
USE Zenon

-----------------------------------------------------------------------------
(* Lists without repetition: what push_back, pop_front and erase do.       *)

\* push_back of a new element keeps a list free of repetitions
LEMMA AppendFresh ==
    ASSUME NEW S, NEW s \in Seq(S), NEW x \in S,
           IsInjective(s), x \notin Range(s)
    PROVE  /\ Append(s, x) \in Seq(S)
           /\ IsInjective(Append(s, x))
           /\ Range(Append(s, x)) = Range(s) \cup {x}
           /\ Append(s, x) # <<>>
  <1>1. /\ Append(s, x) \in Seq(S)
        /\ Len(Append(s, x)) = Len(s) + 1
        /\ DOMAIN Append(s, x) = 1 .. Len(s) + 1
        /\ DOMAIN s = 1 .. Len(s)
        /\ \A i \in 1 .. Len(s) : Append(s, x)[i] = s[i]
        /\ Append(s, x)[Len(s) + 1] = x
        /\ Len(s) \in Nat
    BY SMT
  <1>2. IsInjective(Append(s, x))
    BY <1>1, SMT DEF IsInjective, Range
  <1>3. Range(Append(s, x)) = Range(s) \cup {x}
    BY <1>1, SMT DEF Range
  <1>4. Append(s, x) # <<>>
    BY <1>1, SMT
  <1> QED BY <1>1, <1>2, <1>3, <1>4

\* pop_front removes the front element, and only that
LEMMA TailOfDistinct ==
    ASSUME NEW S, NEW s \in Seq(S), IsInjective(s), s # <<>>
    PROVE  /\ Tail(s) \in Seq(S)
           /\ Head(s) \in S
           /\ Head(s) \in Range(s)
           /\ IsInjective(Tail(s))
           /\ Range(Tail(s)) = Range(s) \ {Head(s)}
  <1>1. /\ Tail(s) \in Seq(S)
        /\ Len(s) \in Nat /\ Len(s) > 0
        /\ DOMAIN s = 1 .. Len(s)
        /\ DOMAIN Tail(s) = 1 .. Len(s) - 1
        /\ \A i \in 1 .. Len(s) - 1 : Tail(s)[i] = s[i + 1]
        /\ Head(s) = s[1]
        /\ Head(s) \in S
    BY SMT
  <1>2. Head(s) \in Range(s)
    BY <1>1, SMT DEF Range
  <1>3. IsInjective(Tail(s))
    BY <1>1, SMT DEF IsInjective
  <1>4. ASSUME NEW x \in Range(Tail(s)) PROVE x \in Range(s) \ {Head(s)}
    <2>1. PICK i \in 1 .. Len(s) - 1 : x = s[i + 1]
      BY <1>1, <1>4 DEF Range
    <2>2. i + 1 \in DOMAIN s /\ 1 \in DOMAIN s /\ i + 1 # 1
      BY <1>1, SMT
    <2> QED BY <1>1, <2>1, <2>2 DEF Range, IsInjective
  <1>5. ASSUME NEW x \in Range(s) \ {Head(s)} PROVE x \in Range(Tail(s))
    <2>1. PICK i \in 1 .. Len(s) : x = s[i]
      BY <1>1 DEF Range
    <2>2. i # 1
      BY <1>1, <2>1
    <2>3. i - 1 \in 1 .. Len(s) - 1 /\ Tail(s)[i - 1] = s[i]
      BY <1>1, <2>2, SMT
    <2> QED BY <1>1, <2>1, <2>3 DEF Range
  <1> QED BY <1>1, <1>2, <1>3, <1>4, <1>5

\* what concatenation does to the length
LEMMA ConcatFacts ==
    ASSUME NEW S, NEW s \in Seq(S), NEW t \in Seq(S)
    PROVE  s \o t \in Seq(S) /\ Len(s \o t) = Len(s) + Len(t)
  BY SMT

\* erasing the element std::find found removes that element, and only that
LEMMA EraseFound ==
    ASSUME NEW S, NEW s \in Seq(S), IsInjective(s), NEW x \in Range(s)
    PROVE  /\ Erase(s, x) \in Seq(S)
           /\ IsInjective(Erase(s, x))
           /\ Range(Erase(s, x)) = Range(s) \ {x}
  <1> DEFINE t == Erase(s, x)
  <1>1. Len(s) \in Nat /\ DOMAIN s = 1 .. Len(s) /\ \A i \in 1 .. Len(s) : s[i] \in S
    BY SMT
  <1> DEFINE n == Position(s, x)
  <1>2. n \in 1 .. Len(s) /\ s[n] = x
    <2>1. PICK i \in 1 .. Len(s) : s[i] = x
      BY <1>1 DEF Range
    <2>2. \A j \in 1 .. Len(s) : s[j] = x => j = i
      BY <1>1, <2>1 DEF IsInjective
    <2>3. \A j \in 1 .. i - 1 : s[j] # x
      BY <1>1, <2>2, SMT
    <2> QED BY <1>1, <2>1, <2>3 DEF Position
  <1> HIDE DEF n
  <1>3. /\ Len(s) - 1 \in Nat
        /\ t \in Seq(S)
        /\ DOMAIN t = 1 .. Len(s) - 1
        /\ \A j \in 1 .. Len(s) - 1 : t[j] = IF j < n THEN s[j] ELSE s[j + 1]
    <2> DEFINE u == SubSeq(s, 1, n - 1)
               v == SubSeq(s, n + 1, Len(s))
    <2>1. u \in Seq(S) /\ Len(u) = n - 1 /\ \A i \in 1 .. n - 1 : u[i] = s[i]
      BY <1>2, SMT
    <2>2. v \in Seq(S) /\ Len(v) = Len(s) - n /\ \A i \in 1 .. Len(s) - n : v[i] = s[i + n]
      BY <1>2, SMT
    <2>3. t = u \o v
      BY DEF Erase, n
    <2> HIDE DEF t, u, v
    <2>4. t \in Seq(S) /\ Len(t) = Len(u) + Len(v)
      BY <2>1, <2>2, <2>3, ConcatFacts
    <2>5. Len(s) - 1 \in Nat /\ Len(t) = Len(s) - 1 /\ DOMAIN t = 1 .. Len(t)
      BY <1>2, <2>1, <2>2, <2>4, SMT
    <2>6. ASSUME NEW j \in 1 .. Len(s) - 1
          PROVE  t[j] = IF j < n THEN s[j] ELSE s[j + 1]
      <3>1. CASE j < n
        BY <1>2, <2>1, <2>2, <2>3, <3>1, SMT
      <3>2. CASE ~(j < n)
        <4>1. t[j] = v[j - (n - 1)]
          BY <1>2, <2>1, <2>2, <2>3, <3>2, SMT
        <4>2. j - (n - 1) \in 1 .. Len(s) - n /\ j - (n - 1) + n = j + 1
          BY <1>2, <3>2, SMT
        <4> QED BY <2>2, <3>2, <4>1, <4>2
      <3> QED BY <3>1, <3>2
    <2> QED BY <2>4, <2>5, <2>6
  <1> HIDE DEF t
  <1>5. IsInjective(t)
    <2> DEFINE up(j) == IF j < n THEN j ELSE j + 1
    <2>1. SUFFICES ASSUME NEW a \in 1 .. Len(s) - 1, NEW b \in 1 .. Len(s) - 1,
                          t[a] = t[b]
                   PROVE  a = b
      BY <1>3 DEF IsInjective
    <2>2. up(a) \in DOMAIN s /\ up(b) \in DOMAIN s /\ t[a] = s[up(a)] /\ t[b] = s[up(b)]
      BY <1>1, <1>2, <1>3, SMT
    <2>3. up(a) = up(b)
      BY <2>1, <2>2 DEF IsInjective
    <2> QED BY <1>1, <1>2, <2>3, SMT
  <1>6. ASSUME NEW y \in Range(t) PROVE y \in Range(s) \ {x}
    <2>1. PICK j \in 1 .. Len(s) - 1 : y = IF j < n THEN s[j] ELSE s[j + 1]
      BY <1>3, <1>6 DEF Range
    <2>2. PICK k \in 1 .. Len(s) : y = s[k] /\ k # n
      BY <1>1, <1>2, <2>1, SMT
    <2> QED BY <1>1, <1>2, <2>2 DEF Range, IsInjective
  <1>7. ASSUME NEW y \in Range(s) \ {x} PROVE y \in Range(t)
    <2>1. PICK k \in 1 .. Len(s) : y = s[k] /\ k # n
      BY <1>1, <1>2 DEF Range
    <2>2. CASE k < n
      <3>1. k \in 1 .. Len(s) - 1 /\ t[k] = y
        BY <1>1, <1>2, <1>3, <2>1, <2>2, SMT
      <3> QED BY <1>3, <3>1 DEF Range
    <2>3. CASE k > n
      <3>1. k - 1 \in 1 .. Len(s) - 1 /\ t[k - 1] = y
        BY <1>1, <1>2, <1>3, <2>1, <2>3, SMT
      <3> QED BY <1>3, <3>1 DEF Range
    <2> QED BY SMTT(20), <1>1, <1>2, <2>1, <2>2, <2>3
  <1> QED BY <1>3, <1>5, <1>6, <1>7 DEF t

-----------------------------------------------------------------------------
(* The pool's own invariant, as a predicate on a pool value.               *)

\* connections the pool refers to
Members(q) == Range(q.markers) \cup {c \in Conn : q.issued[c] # NoSub}

Armed(q) ==
    \A c \in Conn : q.issued[c] # NoSub =>
        [time |-> q.issued_at[c], cc |-> c, sub |-> q.issued[c]] \in q.issue_times

Sound(q) ==
    /\ q \in Pool
    /\ IsInjective(q.markers)
    /\ IsInjective(q.problems)
    /\ \A c \in Range(q.markers) : q.issued[c] = NoSub
    /\ \A c \in Conn : q.issued[c] \notin Range(q.problems)
    /\ \A c, d \in Conn : q.issued[c] = q.issued[d] /\ q.issued[c] # NoSub => c = d
    /\ Armed(q)

Conserving(q) == q.markers = <<>> \/ q.problems = <<>>

\* a pool is the record of its fields
LEMMA PoolFields ==
    ASSUME NEW q \in Pool
    PROVE  q = [markers |-> q.markers, problems |-> q.problems, issued |-> q.issued,
                issue_times |-> q.issue_times, issued_at |-> q.issued_at]
  BY DEF Pool

\* issue() puts a free submission and a free connection together, or both
\* back into their queues
LEMMA IssueSound ==
    ASSUME NEW q, NEW c \in Conn, NEW s \in Sub, NEW ok \in BOOLEAN,
           now \in Nat, Sound(q), s \notin Held(q), c \notin Members(q)
    PROVE  /\ Sound(Issue(q, c, s, ok))
           /\ Held(Issue(q, c, s, ok)) = Held(q) \cup {s}
           /\ Members(Issue(q, c, s, ok)) = Members(q) \cup {c}
  <1> DEFINE r == Issue(q, c, s, ok)
  <1>0. /\ q \in Pool
        /\ s \notin Range(q.problems) /\ \A d \in Conn : q.issued[d] # s
        /\ c \notin Range(q.markers) /\ q.issued[c] = NoSub
        /\ s # NoSub
    BY NoSubAssumption DEF Sound, Held, Members
  <1>1. CASE ok
    <2>1. /\ r.markers = q.markers
          /\ r.problems = q.problems
          /\ r.issued = [q.issued EXCEPT ![c] = s]
          /\ r.issued_at = [q.issued_at EXCEPT ![c] = now]
          /\ r.issue_times = q.issue_times \cup {[time |-> now, cc |-> c, sub |-> s]}
          /\ r \in Pool
      <3>1. r = [markers     |-> q.markers,
                 problems    |-> q.problems,
                 issued      |-> [q.issued EXCEPT ![c] = s],
                 issue_times |-> q.issue_times \cup {[time |-> now, cc |-> c, sub |-> s]},
                 issued_at   |-> [q.issued_at EXCEPT ![c] = now]]
        BY <1>0, <1>1 DEF Issue, Pool
      <3> HIDE DEF r
      <3>2. /\ [q.issued EXCEPT ![c] = s] \in [Conn -> Sub \cup {NoSub}]
            /\ [q.issued_at EXCEPT ![c] = now] \in [Conn -> Nat]
            /\ [time |-> now, cc |-> c, sub |-> s] \in [time : Nat, cc : Conn, sub : Sub]
        BY <1>0 DEF Pool
      <3> QED BY <1>0, <3>1, <3>2 DEF Pool
    <2> HIDE DEF r
    <2>2. /\ r.issued[c] = s /\ r.issued_at[c] = now
          /\ \A d \in Conn \ {c} : r.issued[d] = q.issued[d] /\ r.issued_at[d] = q.issued_at[d]
      BY <1>0, <2>1 DEF Pool
    <2>3. Armed(r)
      BY <2>1, <2>2 DEF Sound, Armed
    <2>4. Sound(r)
      BY SMTT(20), <1>0, <2>1, <2>2, <2>3 DEF Sound
    <2>5. Held(r) = Held(q) \cup {s}
      BY <1>0, <2>1, <2>2, SMT DEF Held
    <2>6. Members(r) = Members(q) \cup {c}
      BY <1>0, <2>1, <2>2 DEF Members
    <2> QED BY <2>4, <2>5, <2>6 DEF r
  <1>2. CASE ~ok
    <2>1. /\ r.markers = Append(q.markers, c)
          /\ r.problems = Append(q.problems, s)
          /\ r.issued = q.issued
          /\ r.issued_at = q.issued_at
          /\ r.issue_times = q.issue_times
      BY <1>0, <1>2 DEF Issue, Pool
    <2>2. /\ r.markers \in Seq(Conn) /\ IsInjective(r.markers)
          /\ Range(r.markers) = Range(q.markers) \cup {c}
      BY <1>0, <2>1, AppendFresh, SMT DEF Sound, Pool
    <2>3. /\ r.problems \in Seq(Sub) /\ IsInjective(r.problems)
          /\ Range(r.problems) = Range(q.problems) \cup {s}
      BY <1>0, <2>1, AppendFresh, SMT DEF Sound, Pool
    <2>4. r \in Pool
      BY <1>0, <1>2, <2>1, <2>2, <2>3 DEF Issue, Pool
    <2> HIDE DEF r
    <2>5. Sound(r)
      BY <1>0, <2>1, <2>2, <2>3, <2>4 DEF Sound, Armed
    <2>6. Held(r) = Held(q) \cup {s} /\ Members(r) = Members(q) \cup {c}
      BY <1>0, <2>1, <2>2, <2>3, SMT DEF Held, Members
    <2> QED BY <2>5, <2>6 DEF r
  <1> QED BY <1>1, <1>2

\* real_enqueueSubmission takes in a submission the pool does not have
LEMMA EnqueueSubmissionSound ==
    ASSUME NEW q, NEW s \in Sub, NEW ok \in BOOLEAN,
           now \in Nat, Sound(q), s \notin Held(q)
    PROVE  /\ Sound(RealEnqueueSubmission(q, s, ok))
           /\ Held(RealEnqueueSubmission(q, s, ok)) = Held(q) \cup {s}
           /\ Members(RealEnqueueSubmission(q, s, ok)) = Members(q)
           /\ ok /\ Conserving(q) => Conserving(RealEnqueueSubmission(q, s, ok))
  <1> DEFINE r == RealEnqueueSubmission(q, s, ok)
  <1>0. q \in Pool /\ s \notin Range(q.problems) /\ \A d \in Conn : q.issued[d] # s
    BY NoSubAssumption DEF Sound, Held
  <1>1. CASE q.markers = <<>>
    <2>1. /\ r.markers = q.markers
          /\ r.problems = Append(q.problems, s)
          /\ r.issued = q.issued
          /\ r.issued_at = q.issued_at
          /\ r.issue_times = q.issue_times
      BY <1>0, <1>1 DEF RealEnqueueSubmission, Pool
    <2>2. /\ r.problems \in Seq(Sub) /\ IsInjective(r.problems)
          /\ Range(r.problems) = Range(q.problems) \cup {s}
      BY <1>0, <2>1, AppendFresh, SMT DEF Sound, Pool
    <2>3. r \in Pool
      BY <1>0, <1>1, <2>1, <2>2 DEF RealEnqueueSubmission, Pool
    <2> HIDE DEF r
    <2>4. Sound(r)
      BY <1>0, <2>1, <2>2, <2>3 DEF Sound, Armed
    <2>5. Held(r) = Held(q) \cup {s} /\ Members(r) = Members(q) /\ Conserving(r)
      BY <1>0, <1>1, <2>1, <2>2, NoSubAssumption DEF Held, Members, Conserving
    <2> QED BY <2>4, <2>5 DEF r
  <1>2. CASE q.markers # <<>>
    <2> DEFINE p == [q EXCEPT !.markers = Tail(@)]
               c == Head(q.markers)
    <2>1. /\ Tail(q.markers) \in Seq(Conn) /\ c \in Conn /\ c \in Range(q.markers)
          /\ IsInjective(Tail(q.markers))
          /\ Range(Tail(q.markers)) = Range(q.markers) \ {c}
      BY <1>0, <1>2, TailOfDistinct DEF Sound, Pool
    <2>2. /\ p.markers = Tail(q.markers) /\ p.problems = q.problems
          /\ p.issued = q.issued /\ p.issued_at = q.issued_at
          /\ p.issue_times = q.issue_times /\ p \in Pool
      BY <1>0, <2>1 DEF Pool
    <2>3. r = Issue(p, c, s, ok)
      BY <1>2 DEF RealEnqueueSubmission
    <2> HIDE DEF p, c, r
    <2>4. Sound(p)
      BY <2>1, <2>2 DEF Sound, Armed
    <2>5. Held(p) = Held(q)
      BY <2>2 DEF Held
    <2>6. Members(p) = Members(q) \ {c} /\ c \in Members(q)
      BY <2>1, <2>2 DEF Members, Sound
    <2>7. /\ Sound(r) /\ Held(r) = Held(p) \cup {s} /\ Members(r) = Members(p) \cup {c}
      BY SMTT(20), <2>1, <2>3, <2>4, <2>5, <2>6, IssueSound
    <2>8. ASSUME ok, Conserving(q) PROVE Conserving(r)
      <3>1. r.problems = p.problems
        BY <2>2, <2>3, <2>8 DEF Issue, Pool
      <3> QED BY <1>2, <2>2, <2>8, <3>1 DEF Conserving
    <2>9. Held(r) = Held(q) \cup {s} /\ Members(r) = Members(q)
      BY <2>5, <2>6, <2>7
    <2> QED BY <2>7, <2>8, <2>9 DEF r
  <1> QED BY <1>1, <1>2

\* real_enqueueSubmission takes no job away from a busy connection
LEMMA EnqueueSubmissionKeepsJobs ==
    ASSUME NEW q, NEW s \in Sub, NEW ok \in BOOLEAN, NEW d \in Conn,
           Sound(q), q.issued[d] # NoSub
    PROVE  RealEnqueueSubmission(q, s, ok).issued[d] = q.issued[d]
  <1>0. q \in Pool
    BY DEF Sound
  <1>1. CASE q.markers = <<>>
    BY <1>0, <1>1 DEF RealEnqueueSubmission, Pool
  <1>2. CASE q.markers # <<>>
    <2> DEFINE p == [q EXCEPT !.markers = Tail(@)]
               c == Head(q.markers)
    <2>1. Tail(q.markers) \in Seq(Conn) /\ c \in Conn /\ c \in Range(q.markers)
      BY <1>0, <1>2, TailOfDistinct DEF Sound, Pool
    <2>2. p.issued = q.issued /\ p \in Pool
      BY <1>0, <2>1 DEF Pool
    <2>3. c # d
      BY <2>1 DEF Sound
    <2>4. RealEnqueueSubmission(q, s, ok) = Issue(p, c, s, ok)
      BY <1>2 DEF RealEnqueueSubmission
    <2> HIDE DEF p, c
    <2> QED BY <2>1, <2>2, <2>3, <2>4, SMT DEF Issue, Pool
  <1> QED BY <1>1, <1>2

\* real_enqueueMarker takes in a connection the pool does not have
LEMMA EnqueueMarkerSound ==
    ASSUME NEW q, NEW c \in Conn, NEW ok \in BOOLEAN,
           now \in Nat, Sound(q), c \notin Members(q)
    PROVE  /\ Sound(RealEnqueueMarker(q, c, ok))
           /\ Held(RealEnqueueMarker(q, c, ok)) = Held(q)
           /\ Members(RealEnqueueMarker(q, c, ok)) = Members(q) \cup {c}
           /\ ok /\ Conserving(q) => Conserving(RealEnqueueMarker(q, c, ok))
  <1> DEFINE r == RealEnqueueMarker(q, c, ok)
  <1>0. q \in Pool /\ c \notin Range(q.markers) /\ q.issued[c] = NoSub
    BY DEF Sound, Members
  <1>1. CASE q.problems = <<>>
    <2>1. /\ r.markers = Append(q.markers, c)
          /\ r.problems = q.problems
          /\ r.issued = q.issued
          /\ r.issued_at = q.issued_at
          /\ r.issue_times = q.issue_times
      BY <1>0, <1>1 DEF RealEnqueueMarker, Pool
    <2>2. /\ r.markers \in Seq(Conn) /\ IsInjective(r.markers)
          /\ Range(r.markers) = Range(q.markers) \cup {c}
      BY <1>0, <2>1, AppendFresh, SMT DEF Sound, Pool
    <2>3. r \in Pool
      BY <1>0, <1>1, <2>1, <2>2 DEF RealEnqueueMarker, Pool
    <2> HIDE DEF r
    <2>4. Sound(r)
      BY <1>0, <2>1, <2>2, <2>3, SMT DEF Sound, Armed
    <2>5. Held(r) = Held(q) /\ Members(r) = Members(q) \cup {c} /\ Conserving(r)
      BY SMTT(20), <1>0, <1>1, <2>1, <2>2 DEF Held, Members, Conserving
    <2> QED BY <2>4, <2>5 DEF r
  <1>2. CASE q.problems # <<>>
    <2> DEFINE p == [q EXCEPT !.problems = Tail(@)]
               s == Head(q.problems)
    <2>1. /\ Tail(q.problems) \in Seq(Sub) /\ s \in Sub /\ s \in Range(q.problems)
          /\ IsInjective(Tail(q.problems))
          /\ Range(Tail(q.problems)) = Range(q.problems) \ {s}
      BY <1>0, <1>2, TailOfDistinct DEF Sound, Pool
    <2>2. /\ p.problems = Tail(q.problems) /\ p.markers = q.markers
          /\ p.issued = q.issued /\ p.issued_at = q.issued_at
          /\ p.issue_times = q.issue_times /\ p \in Pool
      BY <1>0, <2>1 DEF Pool
    <2>3. r = Issue(p, c, s, ok)
      BY <1>2 DEF RealEnqueueMarker
    <2> HIDE DEF p, s, r
    <2>4. Sound(p)
      BY <2>1, <2>2 DEF Sound, Armed
    <2>5. Members(p) = Members(q)
      BY <2>2 DEF Members
    <2>6. Held(p) = Held(q) \ {s} /\ s \in Held(q)
      BY <2>1, <2>2, SMT DEF Held, Sound
    <2>7. /\ Sound(r) /\ Held(r) = Held(p) \cup {s} /\ Members(r) = Members(p) \cup {c}
      BY SMTT(20), <2>1, <2>3, <2>4, <2>5, <2>6, IssueSound
    <2>8. ASSUME ok, Conserving(q) PROVE Conserving(r)
      <3>1. r.markers = p.markers
        BY <2>2, <2>3, <2>8 DEF Issue, Pool
      <3> QED BY <1>2, <2>2, <2>8, <3>1 DEF Conserving
    <2>9. Held(r) = Held(q) /\ Members(r) = Members(q) \cup {c}
      BY <2>5, <2>6, <2>7
    <2> QED BY <2>7, <2>8, <2>9 DEF r
  <1> QED BY <1>1, <1>2

\* real_enqueueMarker takes no job away from a busy connection
LEMMA EnqueueMarkerKeepsJobs ==
    ASSUME NEW q, NEW c \in Conn, NEW ok \in BOOLEAN, NEW d \in Conn,
           Sound(q), c # d
    PROVE  RealEnqueueMarker(q, c, ok).issued[d] = q.issued[d]
  <1>0. q \in Pool
    BY DEF Sound
  <1>1. CASE q.problems = <<>>
    BY <1>0, <1>1 DEF RealEnqueueMarker, Pool
  <1>2. CASE q.problems # <<>>
    <2> DEFINE p == [q EXCEPT !.problems = Tail(@)]
               s == Head(q.problems)
    <2>1. Tail(q.problems) \in Seq(Sub)
      BY <1>0, <1>2, TailOfDistinct DEF Sound, Pool
    <2>2. p.issued = q.issued /\ p \in Pool
      BY <1>0, <2>1 DEF Pool
    <2>3. RealEnqueueMarker(q, c, ok) = Issue(p, c, s, ok)
      BY <1>2 DEF RealEnqueueMarker
    <2> HIDE DEF p, s
    <2> QED BY <2>2, <2>3, SMT DEF Issue, Pool
  <1> QED BY <1>1, <1>2

\* _issued.erase: the connection leaves the pool, its submission with it
LEMMA UnissueSound ==
    ASSUME NEW q, NEW c \in Conn, Sound(q), q.issued[c] # NoSub
    PROVE  /\ Sound(Unissue(q, c))
           /\ q.issued[c] \in Sub /\ q.issued[c] \in Held(q)
           /\ Held(Unissue(q, c)) = Held(q) \ {q.issued[c]}
           /\ c \in Members(q)
           /\ Members(Unissue(q, c)) = Members(q) \ {c}
           /\ Unissue(q, c).markers = q.markers
           /\ Unissue(q, c).problems = q.problems
  <1> DEFINE r == Unissue(q, c)
  <1>0. q \in Pool /\ q.issued[c] \in Sub /\ c \notin Range(q.markers)
    BY DEF Sound, Pool
  <1>1. r = [markers     |-> q.markers,
             problems    |-> q.problems,
             issued      |-> [q.issued EXCEPT ![c] = NoSub],
             issue_times |-> q.issue_times,
             issued_at   |-> q.issued_at]
    BY <1>0, PoolFields, SMT DEF Unissue
  <1> HIDE DEF r
  <1>2. r \in Pool
    BY <1>0, <1>1 DEF Pool
  <1>3. /\ r.issued[c] = NoSub
        /\ \A d \in Conn \ {c} : r.issued[d] = q.issued[d] /\ r.issued_at[d] = q.issued_at[d]
    BY <1>0, <1>1 DEF Pool
  <1>4. Armed(r)
    BY <1>1, <1>3 DEF Sound, Armed
  <1>5. NoSub \notin Range(r.problems)
    <2>1. Range(r.problems) \subseteq Sub
      BY <1>2, SMT DEF Pool, Range
    <2> QED BY <2>1, NoSubAssumption
  <1>6. Sound(r)
    BY SMTT(20), <1>0, <1>1, <1>2, <1>3, <1>4, <1>5 DEF Sound
  <1>7. q.issued[c] \in Held(q) /\ Held(r) = Held(q) \ {q.issued[c]}
    BY <1>0, <1>1, <1>3, SMT DEF Held, Sound
  <1>8. c \in Members(q) /\ Members(r) = Members(q) \ {c}
    BY <1>0, <1>1, <1>3 DEF Members
  <1> QED BY SMTT(20), <1>0, <1>1, <1>6, <1>7, <1>8 DEF r

\* what checkForTimeouts has of the pool before it puts the submission of the
\* popped entry e back
Reclaimed(q, e) == Unissue([q EXCEPT !.issue_times = @ \ {e}], e.cc)

\* popping the entry of an issued job and taking the job back
LEMMA ReclaimSound ==
    ASSUME NEW q, Sound(q), NEW e \in q.issue_times, q.issued[e.cc] = e.sub
    PROVE  /\ e.cc \in Conn /\ e.sub \in Sub /\ e.sub \in Held(q)
           /\ Sound(Reclaimed(q, e))
           /\ Held(Reclaimed(q, e)) = Held(q) \ {e.sub}
           /\ Members(Reclaimed(q, e)) = Members(q) \ {e.cc}
           /\ Reclaimed(q, e).markers = q.markers
           /\ Reclaimed(q, e).problems = q.problems
           /\ Reclaimed(q, e).issued = [q.issued EXCEPT ![e.cc] = NoSub]
  <1> DEFINE t == [q EXCEPT !.issue_times = @ \ {e}]
             p == Unissue(t, e.cc)
             u == Unissue(q, e.cc)
  <1>1. q \in Pool /\ e.cc \in Conn /\ e.sub \in Sub /\ e.sub # NoSub
    BY NoSubAssumption DEF Sound, Pool
  <1>2. /\ t.markers = q.markers /\ t.problems = q.problems /\ t.issued = q.issued
        /\ t.issued_at = q.issued_at /\ t.issue_times = q.issue_times \ {e}
        /\ t \in Pool
    BY <1>1 DEF Pool
  <1> HIDE DEF t
  <1>3. /\ p.markers = q.markers /\ p.problems = q.problems
        /\ p.issued = [q.issued EXCEPT ![e.cc] = NoSub]
        /\ p.issued_at = q.issued_at /\ p.issue_times = q.issue_times \ {e}
        /\ p \in Pool
    <2>1. /\ p.markers = t.markers /\ p.problems = t.problems
          /\ p.issued = [t.issued EXCEPT ![e.cc] = NoSub]
          /\ p.issued_at = t.issued_at /\ p.issue_times = t.issue_times /\ p \in Pool
      BY <1>1, <1>2 DEF Unissue, Pool
    <2> QED BY SMTT(20), <1>2, <2>1
  <1>4. /\ u.issued = [q.issued EXCEPT ![e.cc] = NoSub]
        /\ u.issued_at = q.issued_at /\ u.issue_times = q.issue_times
    BY SMTT(20), <1>1 DEF Unissue, Pool
  <1>5. /\ Sound(u) /\ e.sub \in Held(q) /\ Held(u) = Held(q) \ {e.sub}
        /\ Members(u) = Members(q) \ {e.cc}
        /\ u.markers = q.markers /\ u.problems = q.problems
    BY SMTT(20), <1>1, UnissueSound
  <1> HIDE DEF p, u
  <1>6. Armed(p)
    <2>1. p.issued[e.cc] = NoSub
      BY <1>1, <1>3 DEF Pool
    <2> QED BY <1>1, <1>3, <1>4, <1>5, <2>1, SMT DEF Sound, Armed
  <1>7. Sound(p)
    BY <1>3, <1>4, <1>5, <1>6, SMT DEF Sound
  <1>8. Held(p) = Held(u) /\ Members(p) = Members(u)
    BY SMTT(20), <1>3, <1>4, <1>5 DEF Held, Members
  <1>9. Reclaimed(q, e) = p
    BY DEF Reclaimed, p, t
  <1> QED BY <1>1, <1>3, <1>5, <1>7, <1>8, <1>9

\* preemptMarker takes a connection out of the pool and keeps its submission
LEMMA PreemptSound ==
    ASSUME NEW q, NEW c \in Conn, NEW ok \in BOOLEAN, now \in Nat, Sound(q)
    PROVE  /\ Sound(Preempted(q, c, ok))
           /\ Held(Preempted(q, c, ok)) = Held(q)
           /\ Members(Preempted(q, c, ok)) = Members(q) \ {c}
           /\ ok /\ Conserving(q) => Conserving(Preempted(q, c, ok))
  <1> DEFINE r == Preempted(q, c, ok)
  <1>0. q \in Pool
    BY DEF Sound
  <1>1. CASE c \in Range(q.markers)
    <2> DEFINE m == Erase(q.markers, c)
    <2>1. m \in Seq(Conn) /\ IsInjective(m) /\ Range(m) = Range(q.markers) \ {c}
      BY <1>0, <1>1, EraseFound, SMT DEF Sound, Pool
    <2>2. /\ r.markers = m
          /\ r.problems = q.problems
          /\ r.issued = q.issued
          /\ r.issued_at = q.issued_at
          /\ r.issue_times = q.issue_times
          /\ r \in Pool
      <3> HIDE DEF m
      <3>1. r = [q EXCEPT !.markers = m]
        BY <1>1 DEF Preempted, m
      <3> HIDE DEF r
      <3> QED BY <1>0, <2>1, <3>1 DEF Pool
    <2>3. q.issued[c] = NoSub /\ q.markers # <<>>
      BY <1>0, <1>1, SMT DEF Sound, Range
    <2> HIDE DEF r, m
    <2>4. Sound(r)
      BY <2>1, <2>2 DEF Sound, Armed
    <2>5. Held(r) = Held(q) /\ Members(r) = Members(q) \ {c}
      BY <2>1, <2>2, <2>3 DEF Held, Members
    <2>6. Conserving(q) => Conserving(r)
      BY <2>2, <2>3 DEF Conserving
    <2> QED BY <2>4, <2>5, <2>6 DEF r
  <1>2. CASE c \notin Range(q.markers) /\ q.issued[c] # NoSub
    <2>1. r = RealEnqueueSubmission(Unissue(q, c), q.issued[c], ok)
      BY <1>2 DEF Preempted
    <2> HIDE DEF r
    <2>2. /\ Sound(Unissue(q, c)) /\ q.issued[c] \in Sub /\ q.issued[c] \in Held(q)
          /\ Held(Unissue(q, c)) = Held(q) \ {q.issued[c]}
          /\ Members(Unissue(q, c)) = Members(q) \ {c}
      BY <1>2, UnissueSound
    <2>3. Conserving(q) => Conserving(Unissue(q, c))
      BY <1>2, UnissueSound DEF Conserving
    <2>4. /\ Sound(r) /\ Held(r) = Held(Unissue(q, c)) \cup {q.issued[c]}
          /\ Members(r) = Members(Unissue(q, c))
          /\ ok /\ Conserving(Unissue(q, c)) => Conserving(r)
      BY <2>1, <2>2, EnqueueSubmissionSound
    <2> QED BY <2>2, <2>3, <2>4 DEF r
  <1>3. CASE c \notin Range(q.markers) /\ q.issued[c] = NoSub
    <2>1. r = q /\ c \notin Members(q)
      BY <1>3 DEF Preempted, Members
    <2> QED BY <2>1
  <1> QED BY <1>1, <1>2, <1>3

-----------------------------------------------------------------------------
(* The invariant of the specification.                                     *)

Inv ==
    /\ TypeOK
    /\ Sound(pool)
    /\ Held(pool) = enqueued \ dismissed
    /\ dismissed \subseteq enqueued
    /\ Members(pool) \subseteq live
    /\ ~DbMayFail => Conserving(pool)

\* what a step owes: the new pool is sound and refers to no dead connection
LEMMA PoolStep ==
    ASSUME Inv, TypeOK', Sound(pool'), Held(pool') = enqueued' \ dismissed',
           dismissed' \subseteq enqueued', Members(pool') \subseteq live',
           ~DbMayFail => Conserving(pool')
    PROVE  Inv'
  BY DEF Inv, Sound, Held, Members, Conserving, Armed

\* the outcomes of issue()'s database accesses
LEMMA OutcomeType ==
    ASSUME NEW ok \in DbOutcome
    PROVE  ok \in BOOLEAN /\ (~DbMayFail => ok)
  BY DbAssumption DEF DbOutcome

\* Inv holds when the process starts
LEMMA InitInv == Init => Inv
  <1> SUFFICES ASSUME Init PROVE Inv
    OBVIOUS
  <1>1. /\ pool.markers = <<>> /\ pool.problems = <<>> /\ pool.issue_times = {}
        /\ pool.issued = [c \in Conn |-> NoSub]
        /\ pool.issued_at = [c \in Conn |-> 0]
        /\ pool \in Pool
    BY SMT DEF Init, Pool
  <1>2. Range(pool.markers) = {} /\ Range(pool.problems) = {}
    BY <1>1, SMT DEF Range
  <1>3. IsInjective(pool.markers) /\ IsInjective(pool.problems)
    BY <1>1, SMT DEF IsInjective
  <1>4. Sound(pool)
    BY <1>1, <1>2, <1>3 DEF Sound, Armed
  <1>5. Held(pool) = {} /\ Members(pool) = {}
    BY <1>1, <1>2 DEF Held, Members
  <1> QED BY <1>1, <1>4, <1>5 DEF Init, Inv, TypeOK, Conserving

\* every step preserves Inv
LEMMA NextInv == Inv /\ [Next]_vars => Inv'
  <1> SUFFICES ASSUME Inv, [Next]_vars PROVE Inv'
    OBVIOUS
  <1>0. /\ TypeOK /\ Sound(pool) /\ now \in Nat
        /\ Held(pool) = enqueued \ dismissed /\ dismissed \subseteq enqueued
        /\ Members(pool) \subseteq live /\ (~DbMayFail => Conserving(pool))
    BY DEF Inv, TypeOK
  <1>1. ASSUME NEW c \in Conn, Connect(c) PROVE Inv'
    BY <1>0, <1>1, PoolStep DEF Connect, poolVars, TypeOK
  <1>2. ASSUME NEW c \in Conn, PreemptMarker(c), live' \in {live, live \ {c}} PROVE Inv'
    <2>1. PICK ok \in DbOutcome : pool' = Preempted(pool, c, ok)
      BY <1>2 DEF PreemptMarker
    <2>2. /\ Sound(pool') /\ Held(pool') = Held(pool)
          /\ Members(pool') = Members(pool) \ {c}
          /\ ~DbMayFail => Conserving(pool')
      BY SMTT(20), <1>0, <2>1, OutcomeType, PreemptSound
    <2>3. pool' \in Pool
      BY <2>2 DEF Sound
    <2> QED BY SMTT(20), <1>0, <1>2, <2>2, <2>3, PoolStep DEF PreemptMarker, TypeOK
  <1>3. ASSUME NEW c \in Conn, Subscribe(c) PROVE Inv'
    <2>1. CASE pool.issued[c] # NoSub \/ c \in Range(pool.markers)
      BY SMTT(20), <1>0, <1>3, <2>1, PoolStep DEF Subscribe, EnqueueMarker, TypeOK
    <2>2. CASE ~(pool.issued[c] # NoSub \/ c \in Range(pool.markers))
      <3>1. PICK ok \in DbOutcome : pool' = RealEnqueueMarker(pool, c, ok)
        BY <1>3, <2>2 DEF Subscribe, EnqueueMarker
      <3>2. c \notin Members(pool) /\ c \in live
        BY <1>3, <2>2 DEF Members, Subscribe
      <3>3. /\ Sound(pool') /\ Held(pool') = Held(pool)
            /\ Members(pool') = Members(pool) \cup {c}
            /\ ~DbMayFail => Conserving(pool')
        BY SMTT(20), <1>0, <3>1, <3>2, OutcomeType, EnqueueMarkerSound
      <3>4. pool' \in Pool
        BY <3>3 DEF Sound
      <3> QED BY SMTT(20), <1>0, <1>3, <3>2, <3>3, <3>4, PoolStep DEF Subscribe, EnqueueMarker, TypeOK
    <2> QED BY <2>1, <2>2
  <1>4. ASSUME NEW c \in Conn, NEW s \in Sub, Report(c, s) PROVE Inv'
    <2>1. CASE pool.issued[c] = NoSub
      BY <1>0, <1>4, <2>1, PoolStep DEF Report, NotifyMarked, TypeOK
    <2>2. CASE pool.issued[c] # NoSub
      <3> DEFINE x == pool.issued[c]
                 q == Unissue(pool, c)
      <3>1. PICK ok1 \in DbOutcome, ok2 \in DbOutcome :
              pool' = RealEnqueueMarker(IF x # s THEN RealEnqueueSubmission(q, x, ok1) ELSE q,
                                        c, ok2)
        BY <1>4, <2>2 DEF Report, NotifyMarked
      <3>2. /\ Sound(q) /\ x \in Sub /\ x \in Held(pool) /\ Held(q) = Held(pool) \ {x}
            /\ c \in Members(pool) /\ Members(q) = Members(pool) \ {c}
        BY <1>0, <2>2, UnissueSound
      <3>3. Conserving(pool) => Conserving(q)
        BY SMTT(20), <1>0, <2>2, UnissueSound DEF Conserving
      <3> HIDE DEF x, q
      <3>4. ASSUME NEW r, Sound(r), Members(r) = Members(q), ~DbMayFail => Conserving(r),
                   pool' = RealEnqueueMarker(r, c, ok2)
            PROVE  /\ Sound(pool') /\ Held(pool') = Held(r) /\ Members(pool') = Members(pool)
                   /\ pool' \in Pool /\ (~DbMayFail => Conserving(pool'))
        <4>1. /\ Sound(pool') /\ Held(pool') = Held(r) /\ Members(pool') = Members(r) \cup {c}
              /\ ~DbMayFail => Conserving(pool')
          BY SMTT(20), <1>0, <3>2, <3>4, OutcomeType, EnqueueMarkerSound
        <4> QED BY SMTT(20), <3>2, <3>4, <4>1 DEF Sound
      <3>5. CASE x = s
        <4>1. pool' = RealEnqueueMarker(q, c, ok2)
          BY <3>1, <3>5
        <4>2. /\ Sound(pool') /\ Held(pool') = Held(q) /\ Members(pool') = Members(pool)
              /\ pool' \in Pool /\ (~DbMayFail => Conserving(pool'))
          BY SMTT(20), <1>0, <3>2, <3>3, <3>4, <4>1
        <4>3. dismissed' = dismissed \cup {x} /\ UNCHANGED <<enqueued, checking, now, live>>
          BY <1>4, <2>2, <3>5 DEF Report, NotifyMarked, x
        <4>4. Held(pool') = enqueued' \ dismissed' /\ dismissed' \subseteq enqueued'
          BY SMTT(20), <1>0, <3>2, <4>2, <4>3
        <4>5. TypeOK'
          BY SMTT(20), <1>0, <3>2, <4>2, <4>3 DEF TypeOK
        <4> QED BY SMTT(20), <1>0, <4>2, <4>3, <4>4, <4>5, PoolStep
      <3>6. CASE x # s
        <4> DEFINE r == RealEnqueueSubmission(q, x, ok1)
        <4>1. pool' = RealEnqueueMarker(r, c, ok2)
          BY <3>1, <3>6
        <4>2. /\ Sound(r) /\ Held(r) = Held(q) \cup {x} /\ Members(r) = Members(q)
              /\ ~DbMayFail => Conserving(r)
          BY SMTT(20), <1>0, <3>2, <3>3, OutcomeType, EnqueueSubmissionSound
        <4> HIDE DEF r
        <4>3. /\ Sound(pool') /\ Held(pool') = Held(r) /\ Members(pool') = Members(pool)
              /\ pool' \in Pool /\ (~DbMayFail => Conserving(pool'))
          BY SMTT(20), <3>4, <4>1, <4>2
        <4>4. UNCHANGED <<enqueued, dismissed, checking, now, live>>
          BY SMTT(20), <1>4, <2>2, <3>6 DEF Report, NotifyMarked, x
        <4>5. Held(pool') = Held(pool)
          BY <3>2, <4>2, <4>3
        <4>6. TypeOK'
          BY <1>0, <4>3, <4>4 DEF TypeOK
        <4> QED BY SMTT(20), <1>0, <4>3, <4>4, <4>5, <4>6, PoolStep
      <3> QED BY SMTT(20), <3>5, <3>6
    <2> QED BY <2>1, <2>2
  <1>5. ASSUME NEW s \in Sub, Submit(s) PROVE Inv'
    <2>1. PICK ok \in DbOutcome : pool' = RealEnqueueSubmission(pool, s, ok)
      BY <1>5 DEF Submit, EnqueueSubmission
    <2>2. /\ s \notin enqueued /\ s \notin Held(pool)
          /\ enqueued' = enqueued \cup {s} /\ UNCHANGED <<dismissed, checking, now, live>>
      BY <1>0, <1>5 DEF Submit, EnqueueSubmission
    <2>3. /\ Sound(pool') /\ Held(pool') = Held(pool) \cup {s} /\ Members(pool') = Members(pool)
          /\ ~DbMayFail => Conserving(pool')
      BY SMTT(20), <1>0, <2>1, <2>2, OutcomeType, EnqueueSubmissionSound
    <2>4. TypeOK'
      BY <1>0, <2>2, <2>3 DEF TypeOK, Sound
    <2>5. Held(pool') = enqueued' \ dismissed' /\ dismissed' \subseteq enqueued'
      BY <1>0, <2>2, <2>3
    <2> QED BY SMTT(20), <1>0, <2>2, <2>3, <2>4, <2>5, PoolStep
  <1>6. ASSUME TimeoutThread PROVE Inv'
    <2>1. CASE CheckForTimeoutsEnter \/ CheckForTimeoutsLeave
      BY <1>0, <1>6, <2>1, PoolStep
         DEF TimeoutThread, CheckForTimeoutsEnter, CheckForTimeoutsLeave, TypeOK
    <2>2. CASE CheckForTimeoutsPop
      <3>1. PICK e \in Top(pool.issue_times), ok \in DbOutcome :
              LET q == [pool EXCEPT !.issue_times = @ \ {e}]
              IN  pool' = IF pool.issued[e.cc] = e.sub
                          THEN RealEnqueueSubmission(Unissue(q, e.cc), e.sub, ok)
                          ELSE q
        BY <2>2 DEF CheckForTimeoutsPop
      <3> DEFINE q == [pool EXCEPT !.issue_times = @ \ {e}]
      <3>2. /\ e \in pool.issue_times /\ e.cc \in Conn /\ e.sub \in Sub
            /\ UNCHANGED <<enqueued, dismissed, checking, now, live>>
        BY <1>0, <1>6, <2>2 DEF Top, Sound, Pool, TimeoutThread, CheckForTimeoutsPop
      <3>3. /\ q.markers = pool.markers /\ q.problems = pool.problems
            /\ q.issued = pool.issued /\ q.issued_at = pool.issued_at
            /\ q.issue_times = pool.issue_times \ {e}
            /\ q \in Pool
        BY <1>0 DEF Sound, Pool
      <3> HIDE DEF q
      <3>4. Held(q) = Held(pool) /\ Members(q) = Members(pool) /\ (Conserving(pool) => Conserving(q))
        BY <3>3 DEF Held, Members, Conserving
      <3>5. CASE pool.issued[e.cc] # e.sub
        <4>1. pool' = q
          BY SMTT(20), <3>1, <3>5 DEF q
        <4>2. Armed(q)
          BY SMTT(20), <1>0, <3>2, <3>3, <3>5 DEF Sound, Armed
        <4>3. Sound(q)
          BY <1>0, <3>3, <4>2 DEF Sound
        <4>4. TypeOK'
          BY SMTT(20), <1>0, <3>2, <3>3, <4>1 DEF TypeOK
        <4> QED BY <1>0, <3>2, <3>4, <4>1, <4>3, <4>4, PoolStep
      <3>6. CASE pool.issued[e.cc] = e.sub
        <4> DEFINE p == Reclaimed(pool, e)
        <4>1. pool' = RealEnqueueSubmission(p, e.sub, ok)
          BY SMTT(20), <3>1, <3>6 DEF Reclaimed
        <4>2. /\ Sound(p) /\ e.sub \in Held(pool) /\ Held(p) = Held(pool) \ {e.sub}
              /\ Members(p) = Members(pool) \ {e.cc}
              /\ p.markers = pool.markers /\ p.problems = pool.problems
          <5>1. Sound(pool) /\ e \in pool.issue_times
            BY <1>0, <3>2
          <5> QED BY <3>6, <5>1, ReclaimSound
        <4> HIDE DEF p
        <4>3. Conserving(pool) => Conserving(p)
          BY <4>2 DEF Conserving
        <4>4. /\ Sound(pool') /\ Held(pool') = Held(p) \cup {e.sub} /\ Members(pool') = Members(p)
              /\ ~DbMayFail => Conserving(pool')
          BY SMTT(20), <1>0, <3>2, <4>1, <4>2, <4>3, OutcomeType, EnqueueSubmissionSound
        <4>5. TypeOK'
          BY SMTT(20), <1>0, <3>2, <4>4 DEF TypeOK, Sound
        <4>6. Held(pool') = Held(pool) /\ Members(pool') \subseteq live
          BY SMTT(20), <1>0, <4>2, <4>4
        <4> QED BY SMTT(20), <1>0, <3>2, <4>4, <4>5, <4>6, PoolStep
      <3> QED BY <3>5, <3>6
    <2> QED BY <1>6, <2>1, <2>2 DEF TimeoutThread
  <1>7. ASSUME Tick, UNCHANGED live PROVE Inv'
    BY <1>0, <1>7, PoolStep, SMT DEF Tick, TypeOK
  <1>8. ASSUME UNCHANGED vars PROVE Inv'
    BY <1>0, <1>8, PoolStep DEF vars, TypeOK
  <1> QED
    BY SMTT(20), <1>1, <1>2, <1>3, <1>4, <1>5, <1>6, <1>7, <1>8 DEF Next, Disconnect, GiveUp

(* Inv is an invariant of the pool.                                        *)
THEOREM PoolInvariant == Spec => []Inv
  BY InitInv, NextInv, PTL DEF Spec

(* The variables keep their types.                                         *)
THEOREM TypeCorrect == Spec => []TypeOK
  <1>1. Inv => TypeOK
    BY DEF Inv
  <1> QED BY <1>1, PoolInvariant, PTL

(* No submission that was given to the pool is ever lost by it, or comes   *)
(* back after its mark was reported (NothingLost).                         *)
THEOREM NothingIsLost == Spec => []NothingLost
  <1>1. Inv => NothingLost
    BY DEF Inv, NothingLost
  <1> QED BY <1>1, PoolInvariant, PTL

(* A submission is in one place at a time (OneHome), the pool refers to    *)
(* existing and idle connections only (MarkersUsable), and every issued    *)
(* job can be found by the timeout thread (TimerArmed).                    *)
THEOREM PoolIsConsistent == Spec => []PoolConsistent
  <1>1. Inv => OneHome
    BY DEF Inv, OneHome, Sound
  <1>2. Inv => MarkersUsable
    BY DEF Inv, MarkersUsable, Sound, Members
  <1>3. Inv => TimerArmed
    BY DEF Inv, TimerArmed, Sound, Armed
  <1>4. Inv => PoolConsistent
    BY <1>1, <1>2, <1>3 DEF Inv, PoolConsistent
  <1> QED BY <1>4, PoolInvariant, PTL

(* checkForTimeouts never takes a job back that is not itself older than   *)
(* the timeout (NoPrematureTimeout): the entry on top has the greatest     *)
(* time of all, and the job's own entry is still there (TimerArmed).       *)
THEOREM NoJobIsTakenEarly == Spec => NoPrematureTimeout
  <1>1. ASSUME Inv, [Next]_vars, NEW c \in Conn, checking,
               pool.issued[c] # NoSub, pool'.issued[c] # pool.issued[c]
        PROVE  now - pool.issued_at[c] > Timeout
    <2>0. Sound(pool) /\ pool \in Pool /\ now \in Nat
      BY <1>1 DEF Inv, TypeOK
    <2>1. CheckForTimeoutsPop
      BY <1>1 DEF Next, vars, poolVars, Connect, Disconnect, Subscribe, GiveUp, Report, Submit,
                  PreemptMarker, EnqueueMarker, NotifyMarked, EnqueueSubmission, TimeoutThread,
                  CheckForTimeoutsEnter, CheckForTimeoutsLeave, Tick
    <2>2. PICK e \in Top(pool.issue_times), ok \in DbOutcome :
            /\ TimedOut(e)
            /\ LET q == [pool EXCEPT !.issue_times = @ \ {e}]
               IN  pool' = IF pool.issued[e.cc] = e.sub
                           THEN RealEnqueueSubmission(Unissue(q, e.cc), e.sub, ok)
                           ELSE q
      BY <2>1 DEF CheckForTimeoutsPop
    <2>3. /\ e \in pool.issue_times /\ e.cc \in Conn /\ e.sub \in Sub /\ e.time \in Nat
          /\ ok \in BOOLEAN
      BY <2>0, OutcomeType DEF Top, Pool
    <2> DEFINE p == Reclaimed(pool, e)
    <2>4. pool.issued[e.cc] = e.sub /\ pool' = RealEnqueueSubmission(p, e.sub, ok)
      BY <1>1, <2>0, <2>2 DEF Reclaimed, Pool
    <2>5. Sound(p) /\ p.issued = [pool.issued EXCEPT ![e.cc] = NoSub]
      BY <2>0, <2>3, <2>4, ReclaimSound
    <2> HIDE DEF p
    <2>7. c = e.cc
      <3> SUFFICES ASSUME c # e.cc PROVE FALSE
        OBVIOUS
      <3>1. p.issued[c] = pool.issued[c]
        BY <2>0, <2>3, <2>5 DEF Pool
      <3>2. p.issued[c] # NoSub
        BY <1>1, <3>1
      <3>3. RealEnqueueSubmission(p, e.sub, ok).issued[c] = p.issued[c]
        <4>1. Sound(p) /\ e.sub \in Sub /\ ok \in BOOLEAN
          BY <2>3, <2>5
        <4> QED BY ONLY <4>1, <3>2, EnqueueSubmissionKeepsJobs
      <3> QED BY <1>1, <2>4, <3>1, <3>3
    <2>8. [time |-> pool.issued_at[c], cc |-> c, sub |-> pool.issued[c]] \in pool.issue_times
      BY <1>1, <2>0 DEF Sound, Armed
    <2>9. pool.issued_at[c] <= e.time /\ pool.issued_at[c] \in Nat
      BY <2>0, <2>8 DEF Top, Pool
    <2> QED BY SMTT(20), <2>0, <2>2, <2>3, <2>9, TimeAssumption DEF TimedOut
  <1>2. Inv /\ [Next]_vars =>
          [\A c \in Conn :
             checking /\ pool.issued[c] # NoSub /\ pool'.issued[c] # pool.issued[c]
             => now - pool.issued_at[c] > Timeout]_vars
    BY SMTT(20), <1>1
  <1> QED BY <1>2, PoolInvariant, PTL DEF Spec, NoPrematureTimeout

(* Without database failures no marker idles while a submission waits.     *)
THEOREM PoolConservesWork == Spec => []WorkConserving
  <1>1. Inv => WorkConserving
    BY DEF Inv, WorkConserving, Conserving
  <1> QED BY <1>1, PoolInvariant, PTL

\* with no marker waiting, a submission that comes in joins the queue
LEMMA EnqueueSubmissionWaits ==
    ASSUME NEW q, NEW s \in Sub, NEW ok \in BOOLEAN, q \in Pool, q.markers = <<>>
    PROVE  /\ RealEnqueueSubmission(q, s, ok).issued = q.issued
           /\ RealEnqueueSubmission(q, s, ok).problems = Append(q.problems, s)
  BY DEF RealEnqueueSubmission, Pool

\* a marker that comes in gets the submission at the front, which leaves the
\* queue
LEMMA EnqueueMarkerTakesFirst ==
    ASSUME NEW q, NEW c \in Conn, Sound(q), q.problems # <<>>
    PROVE  /\ RealEnqueueMarker(q, c, TRUE).issued = [q.issued EXCEPT ![c] = q.problems[1]]
           /\ q.problems[1] \notin Range(RealEnqueueMarker(q, c, TRUE).problems)
  <1> DEFINE p == [q EXCEPT !.problems = Tail(@)]
             s == Head(q.problems)
  <1>0. q \in Pool
    BY DEF Sound
  <1>1. /\ Tail(q.problems) \in Seq(Sub)
        /\ Range(Tail(q.problems)) = Range(q.problems) \ {s}
    BY <1>0, TailOfDistinct DEF Sound, Pool
  <1>2. s = q.problems[1]
    BY <1>0, SMT DEF Pool
  <1>3. p.issued = q.issued /\ p.problems = Tail(q.problems) /\ p \in Pool
    BY <1>0, <1>1 DEF Pool
  <1>4. RealEnqueueMarker(q, c, TRUE) = Issue(p, c, s, TRUE)
    BY DEF RealEnqueueMarker
  <1> HIDE DEF p, s
  <1>5. /\ Issue(p, c, s, TRUE).issued = [p.issued EXCEPT ![c] = s]
        /\ Issue(p, c, s, TRUE).problems = p.problems
    BY <1>3 DEF Issue, Pool
  <1> QED BY <1>1, <1>2, <1>3, <1>4, <1>5

(* Without database failures submissions are handed out in queue order     *)
(* (NoOvertaking).  While submissions wait no marker does (Conserving), so *)
(* nothing that is put back is issued at once, and a connection that comes *)
(* for work takes the front of the queue.                                  *)
THEOREM JobsAreInQueueOrder == Spec => NoOvertaking
  <1>1. ASSUME Inv, [Next]_vars, NEW c \in Conn, NEW i \in DOMAIN pool.problems,
               ~DbMayFail, pool'.issued[c] \notin {NoSub, pool.issued[c]},
               pool.problems[i] \in Range(pool'.problems)
        PROVE  \E k \in 1 .. i - 1 : pool.problems[k] = pool'.issued[c]
    <2>0. /\ Sound(pool) /\ pool \in Pool /\ Conserving(pool)
          /\ pool.issued \in [Conn -> Sub \cup {NoSub}]
      BY <1>1 DEF Inv, Sound, Pool
    <2>1. /\ Len(pool.problems) \in Nat /\ DOMAIN pool.problems = 1 .. Len(pool.problems)
          /\ pool.problems # <<>> /\ pool.problems \in Seq(Sub)
      BY <1>1, <2>0, SMT DEF Pool
    <2>2. pool.markers = <<>> /\ \A ok \in DbOutcome : ok = TRUE /\ ok \in BOOLEAN
      BY <1>1, <2>0, <2>1 DEF Conserving, DbOutcome
    <2>3. Range(pool.markers) = {}
      BY <2>2, SMT DEF Range
    <2>4. SUFFICES pool'.issued[c] = pool.problems[1] /\ pool.problems[i] # pool.problems[1]
      <3>1. i \in Nat /\ 1 <= i
        BY <2>1, SMT
      <3>2. ASSUME pool.problems[i] # pool.problems[1] PROVE 1 \in 1 .. i - 1
        BY <3>1, <3>2, SMT
      <3> QED BY <3>2
    <2>5. ASSUME NEW d \in Conn PROVE ~PreemptMarker(d)
      <3> SUFFICES ASSUME PreemptMarker(d) PROVE FALSE
        OBVIOUS
      <3>1. PICK ok \in DbOutcome : pool' = Preempted(pool, d, ok)
        BY DEF PreemptMarker
      <3>2. CASE pool.issued[d] = NoSub
        BY <1>1, <2>3, <3>1, <3>2 DEF Preempted
      <3>3. CASE pool.issued[d] # NoSub
        <4> DEFINE q == Unissue(pool, d)
        <4>1. pool' = RealEnqueueSubmission(q, pool.issued[d], ok)
          BY <2>3, <3>1, <3>3 DEF Preempted
        <4>2. q \in Pool /\ q.markers = <<>> /\ pool.issued[d] \in Sub
          BY <2>0, <2>2, <3>3, UnissueSound DEF Sound
        <4>3. q.issued = [pool.issued EXCEPT ![d] = NoSub]
          BY <2>0 DEF Unissue, Pool
        <4> HIDE DEF q
        <4>4. pool'.issued = q.issued
          BY <2>2, <4>1, <4>2, EnqueueSubmissionWaits
        <4> QED BY <1>1, <2>0, <4>3, <4>4
      <3> QED BY <3>2, <3>3
    <2>6. ASSUME NEW d \in Conn, Subscribe(d)
          PROVE  pool'.issued[c] = pool.problems[1] /\ pool.problems[i] # pool.problems[1]
      <3>1. pool' = RealEnqueueMarker(pool, d, TRUE)
        BY <1>1, <2>2, <2>6 DEF Subscribe, EnqueueMarker
      <3>2. /\ pool'.issued = [pool.issued EXCEPT ![d] = pool.problems[1]]
            /\ pool.problems[1] \notin Range(pool'.problems)
        BY <2>0, <2>1, <3>1, EnqueueMarkerTakesFirst
      <3> QED BY <1>1, <2>0, <3>2
    <2>7. ASSUME NEW d \in Conn, NEW s \in Sub, Report(d, s)
          PROVE  pool'.issued[c] = pool.problems[1] /\ pool.problems[i] # pool.problems[1]
      <3>1. pool.issued[d] # NoSub
        BY <1>1, <2>7 DEF Report, NotifyMarked
      <3> DEFINE x == pool.issued[d]
                 q == Unissue(pool, d)
                 r == IF x # s THEN RealEnqueueSubmission(q, x, TRUE) ELSE q
      <3>2. pool' = RealEnqueueMarker(r, d, TRUE)
        BY <2>2, <2>7, <3>1 DEF Report, NotifyMarked
      <3>3. /\ Sound(q) /\ x \in Sub /\ x \notin Held(q) /\ q.markers = <<>>
            /\ q.problems = pool.problems
        BY <2>0, <2>2, <3>1, UnissueSound, SMT
      <3>4. q.issued = [pool.issued EXCEPT ![d] = NoSub] /\ q \in Pool
        BY <2>0, <3>3 DEF Unissue, Pool, Sound
      <3>5. now \in Nat
        BY <1>1 DEF Inv, TypeOK
      <3> HIDE DEF q, x
      <3>6. Sound(r)
        <4>1. Sound(RealEnqueueSubmission(q, x, TRUE))
          BY ONLY <3>3, <3>5, EnqueueSubmissionSound, Zenon
        <4> QED BY <3>3, <4>1
      <3>7. r.issued = q.issued /\ r.problems \in {pool.problems, Append(pool.problems, x)}
        <4>1. /\ RealEnqueueSubmission(q, x, TRUE).issued = q.issued
              /\ RealEnqueueSubmission(q, x, TRUE).problems = Append(q.problems, x)
          BY ONLY <3>3, <3>4, EnqueueSubmissionWaits, Zenon
        <4> QED BY <3>3, <4>1
      <3> HIDE DEF r
      <3>8. r.problems # <<>> /\ r.problems[1] = pool.problems[1]
        BY <2>1, <3>3, <3>7, SMT
      <3>9. /\ pool'.issued = [r.issued EXCEPT ![d] = pool.problems[1]]
            /\ pool.problems[1] \notin Range(pool'.problems)
        <4>1. /\ RealEnqueueMarker(r, d, TRUE).issued = [r.issued EXCEPT ![d] = r.problems[1]]
              /\ r.problems[1] \notin Range(RealEnqueueMarker(r, d, TRUE).problems)
          BY ONLY <3>6, <3>8, EnqueueMarkerTakesFirst, Zenon
        <4> QED BY <3>2, <3>8, <4>1
      <3>10. \A e \in Conn : pool'.issued[e] \in {NoSub, pool.issued[e], pool.problems[1]}
        BY <2>0, <3>4, <3>7, <3>9, SMT
      <3> QED BY <1>1, <3>9, <3>10
    <2>8. ASSUME NEW s \in Sub PROVE ~Submit(s)
      <3> SUFFICES ASSUME Submit(s) PROVE FALSE
        OBVIOUS
      <3>1. PICK ok \in DbOutcome : pool' = RealEnqueueSubmission(pool, s, ok)
        BY DEF Submit, EnqueueSubmission
      <3>2. pool'.issued = pool.issued
        BY <2>0, <2>2, <3>1, EnqueueSubmissionWaits
      <3> QED BY <1>1, <3>2
    <2>9. ~CheckForTimeoutsPop
      <3> SUFFICES ASSUME CheckForTimeoutsPop PROVE FALSE
        OBVIOUS
      <3>1. PICK e \in Top(pool.issue_times), ok \in DbOutcome :
              pool' = IF pool.issued[e.cc] = e.sub
                      THEN RealEnqueueSubmission(Reclaimed(pool, e), e.sub, ok)
                      ELSE [pool EXCEPT !.issue_times = @ \ {e}]
        BY DEF CheckForTimeoutsPop, Reclaimed
      <3>2. pool.issued[e.cc] = e.sub
        BY <1>1, <2>0, <3>1 DEF Pool
      <3> DEFINE p == Reclaimed(pool, e)
      <3>3. e \in pool.issue_times /\ pool' = RealEnqueueSubmission(p, e.sub, ok)
        BY <3>1, <3>2 DEF Top
      <3>4. /\ Sound(p) /\ p.markers = <<>> /\ e.sub \in Sub
            /\ p.issued = [pool.issued EXCEPT ![e.cc] = NoSub]
        BY <2>0, <2>2, <3>2, <3>3, ReclaimSound
      <3> HIDE DEF p
      <3>5. pool'.issued = p.issued
        BY <2>2, <3>3, <3>4, EnqueueSubmissionWaits DEF Sound
      <3> QED BY <1>1, <2>0, <3>4, <3>5
    <2>10. /\ \A d \in Conn : ~Disconnect(d) /\ ~GiveUp(d)
           /\ pool' # pool
      BY <1>1, <2>5 DEF Disconnect, GiveUp
    <2> QED
      BY <1>1, <2>6, <2>7, <2>8, <2>9, <2>10
         DEF Next, vars, poolVars, Connect, TimeoutThread, CheckForTimeoutsEnter,
             CheckForTimeoutsLeave, Tick
  <1>2. Inv /\ [Next]_vars =>
          [\A c \in Conn, i \in DOMAIN pool.problems :
             /\ ~DbMayFail
             /\ pool'.issued[c] \notin {NoSub, pool.issued[c]}
             /\ pool.problems[i] \in Range(pool'.problems)
             => \E k \in 1 .. i - 1 : pool.problems[k] = pool'.issued[c]]_vars
    BY SMTT(20), <1>1
  <1> QED BY <1>2, PoolInvariant, PTL DEF Spec, NoOvertaking

-----------------------------------------------------------------------------
(* A connection that does not wait for work.                               *)

\* real_enqueueSubmission: a connection outside _markers keeps what it has
LEMMA SubmissionPassesBy ==
    ASSUME NEW q, NEW s \in Sub, NEW ok \in BOOLEAN, NEW c \in Conn,
           now \in Nat, Sound(q), s \notin Held(q), c \notin Range(q.markers)
    PROVE  /\ c \notin Range(RealEnqueueSubmission(q, s, ok).markers)
           /\ RealEnqueueSubmission(q, s, ok).issued[c] = q.issued[c]
  <1> DEFINE r == RealEnqueueSubmission(q, s, ok)
  <1>1. Sound(r) /\ Members(r) = Members(q)
    BY ONLY now \in Nat, Sound(q), s \notin Held(q), EnqueueSubmissionSound
  <1>2. q.issued[c] # NoSub => r.issued[c] = q.issued[c]
    BY ONLY Sound(q), EnqueueSubmissionKeepsJobs
  <1> HIDE DEF r
  <1> QED BY <1>1, <1>2 DEF Members, Sound, r

\* real_enqueueMarker for another connection
LEMMA MarkerPassesBy ==
    ASSUME NEW q, NEW d \in Conn, NEW ok \in BOOLEAN, NEW c \in Conn, c # d,
           now \in Nat, Sound(q), d \notin Members(q), c \notin Range(q.markers)
    PROVE  /\ c \notin Range(RealEnqueueMarker(q, d, ok).markers)
           /\ RealEnqueueMarker(q, d, ok).issued[c] = q.issued[c]
  <1> DEFINE r == RealEnqueueMarker(q, d, ok)
  <1>1. Sound(r) /\ Members(r) = Members(q) \cup {d}
    BY ONLY now \in Nat, Sound(q), d \notin Members(q), EnqueueMarkerSound
  <1>2. r.issued[c] = q.issued[c]
    BY ONLY Sound(q), c # d, EnqueueMarkerKeepsJobs
  <1> HIDE DEF r
  <1> QED BY <1>1, <1>2 DEF Members, Sound, r

\* _issued.erase for a connection leaves the others alone
LEMMA UnissuePassesBy ==
    ASSUME NEW q, NEW d \in Conn, NEW c \in Conn, q \in Pool
    PROVE  Unissue(q, d).issued[c] = IF c = d THEN NoSub ELSE q.issued[c]
  BY DEF Unissue, Pool

\* preemptMarker: a connection outside _markers keeps its job or loses it, and
\* stays outside
LEMMA PreemptPassesBy ==
    ASSUME NEW q, NEW d \in Conn, NEW ok \in BOOLEAN, NEW c \in Conn,
           now \in Nat, Sound(q), c \notin Range(q.markers)
    PROVE  /\ c \notin Range(Preempted(q, d, ok).markers)
           /\ Preempted(q, d, ok).issued[c] \in {NoSub, q.issued[c]}
  <1> DEFINE r == Preempted(q, d, ok)
  <1>0. q \in Pool
    BY DEF Sound
  <1>1. CASE d \in Range(q.markers)
    <2>1. Range(Erase(q.markers, d)) = Range(q.markers) \ {d}
      BY <1>0, <1>1, EraseFound, SMT DEF Sound, Pool
    <2>2. r.markers = Erase(q.markers, d) /\ r.issued = q.issued
      BY <1>0, <1>1 DEF Preempted, Pool
    <2> QED BY <2>1, <2>2
  <1>2. CASE d \notin Range(q.markers) /\ q.issued[d] # NoSub
    <2> DEFINE u == Unissue(q, d)
    <2>1. r = RealEnqueueSubmission(u, q.issued[d], ok)
      BY <1>2 DEF Preempted
    <2>2. /\ Sound(u) /\ q.issued[d] \in Sub /\ q.issued[d] \notin Held(u)
          /\ u.markers = q.markers
      BY <1>2, UnissueSound, SMT
    <2>3. u.issued[c] \in {NoSub, q.issued[c]}
      BY <1>0, UnissuePassesBy
    <2> HIDE DEF u, r
    <2>4. /\ c \notin Range(RealEnqueueSubmission(u, q.issued[d], ok).markers)
          /\ RealEnqueueSubmission(u, q.issued[d], ok).issued[c] = u.issued[c]
      BY <2>2, SubmissionPassesBy
    <2> QED BY <2>1, <2>3, <2>4 DEF r
  <1>3. CASE d \notin Range(q.markers) /\ q.issued[d] = NoSub
    BY <1>3 DEF Preempted
  <1> QED BY <1>1, <1>2, <1>3

\* a call of the pool's other users, seen from connection c
OthersCall(c) ==
    \/ \E d \in Conn : PreemptMarker(d)
    \/ \E d \in Conn \ {c} : EnqueueMarker(d)
    \/ \E d \in Conn \ {c}, s \in Sub : NotifyMarked(d, s)
    \/ \E s \in Sub \ enqueued : EnqueueSubmission(s)
    \/ TimeoutThread
    \/ pool' = pool

\* whatever the others do, a connection outside _markers gets no new job
LEMMA OthersPassBy ==
    ASSUME Inv, NEW c \in Conn, c \notin Range(pool.markers), OthersCall(c)
    PROVE  /\ c \notin Range(pool'.markers)
           /\ pool'.issued[c] \in {NoSub, pool.issued[c]}
  <1>0. /\ Sound(pool) /\ pool \in Pool /\ now \in Nat
        /\ Held(pool) = enqueued \ dismissed /\ DbOutcome \subseteq BOOLEAN
    BY OutcomeType DEF Inv, TypeOK
  <1>1. ASSUME NEW d \in Conn, PreemptMarker(d)
        PROVE  /\ c \notin Range(pool'.markers)
               /\ pool'.issued[c] \in {NoSub, pool.issued[c]}
    <2>1. PICK ok \in BOOLEAN : pool' = Preempted(pool, d, ok)
      BY <1>0, <1>1 DEF PreemptMarker
    <2>2. /\ c \notin Range(Preempted(pool, d, ok).markers)
          /\ Preempted(pool, d, ok).issued[c] \in {NoSub, pool.issued[c]}
      BY <1>0, PreemptPassesBy
    <2> QED BY <2>1, <2>2
  <1>2. ASSUME NEW d \in Conn \ {c}, EnqueueMarker(d)
        PROVE  /\ c \notin Range(pool'.markers)
               /\ pool'.issued[c] \in {NoSub, pool.issued[c]}
    <2>1. CASE d \in Members(pool)
      BY <1>2, <2>1 DEF EnqueueMarker, Members
    <2>2. CASE d \notin Members(pool)
      <3>1. PICK ok \in BOOLEAN : pool' = RealEnqueueMarker(pool, d, ok)
        BY <1>0, <1>2, <2>2 DEF EnqueueMarker, Members
      <3>2. /\ c \notin Range(RealEnqueueMarker(pool, d, ok).markers)
            /\ RealEnqueueMarker(pool, d, ok).issued[c] = pool.issued[c]
        BY <1>0, <2>2, MarkerPassesBy, SMT
      <3> QED BY <3>1, <3>2
    <2> QED BY <2>1, <2>2
  <1>3. ASSUME NEW d \in Conn \ {c}, NEW s \in Sub, NotifyMarked(d, s)
        PROVE  /\ c \notin Range(pool'.markers)
               /\ pool'.issued[c] \in {NoSub, pool.issued[c]}
    <2>1. CASE pool.issued[d] = NoSub
      BY <1>3, <2>1 DEF NotifyMarked
    <2>2. CASE pool.issued[d] # NoSub
      <3> DEFINE x == pool.issued[d]
                 q == Unissue(pool, d)
      <3>1. PICK ok1 \in BOOLEAN, ok2 \in BOOLEAN :
              pool' = RealEnqueueMarker(IF x # s THEN RealEnqueueSubmission(q, x, ok1) ELSE q,
                                        d, ok2)
        BY <1>0, <1>3, <2>2 DEF NotifyMarked
      <3> DEFINE r == IF x # s THEN RealEnqueueSubmission(q, x, ok1) ELSE q
      <3>2. /\ Sound(q) /\ x \in Sub /\ x \notin Held(q) /\ d \notin Members(q)
            /\ q.markers = pool.markers
        BY <1>0, <2>2, UnissueSound, SMT
      <3>3. q.issued[c] = pool.issued[c]
        BY <1>0, UnissuePassesBy
      <3> HIDE DEF q, x
      <3>4. /\ Sound(r) /\ d \notin Members(r) /\ c \notin Range(r.markers)
            /\ r.issued[c] = q.issued[c]
        <4> DEFINE e == RealEnqueueSubmission(q, x, ok1)
        <4>1. Sound(e) /\ Members(e) = Members(q)
          BY <1>0, <3>2, EnqueueSubmissionSound
        <4>2. c \notin Range(e.markers) /\ e.issued[c] = q.issued[c]
          BY <1>0, <3>2, SubmissionPassesBy, SMT
        <4> QED BY <3>2, <4>1, <4>2
      <3>5. pool' = RealEnqueueMarker(r, d, ok2)
        BY <3>1
      <3> HIDE DEF r
      <3>6. /\ c \notin Range(RealEnqueueMarker(r, d, ok2).markers)
            /\ RealEnqueueMarker(r, d, ok2).issued[c] = r.issued[c]
        BY <1>0, <3>4, MarkerPassesBy, SMT
      <3> QED BY <3>3, <3>4, <3>5, <3>6
    <2> QED BY <2>1, <2>2
  <1>4. ASSUME NEW s \in Sub \ enqueued, EnqueueSubmission(s)
        PROVE  /\ c \notin Range(pool'.markers)
               /\ pool'.issued[c] \in {NoSub, pool.issued[c]}
    <2>1. PICK ok \in BOOLEAN : pool' = RealEnqueueSubmission(pool, s, ok)
      BY <1>0, <1>4 DEF EnqueueSubmission
    <2>2. s \notin Held(pool)
      BY <1>0
    <2>3. /\ c \notin Range(RealEnqueueSubmission(pool, s, ok).markers)
          /\ RealEnqueueSubmission(pool, s, ok).issued[c] = pool.issued[c]
      BY <1>0, <2>2, SubmissionPassesBy, SMT
    <2> QED BY <2>1, <2>3
  <1>5. ASSUME CheckForTimeoutsPop
        PROVE  /\ c \notin Range(pool'.markers)
               /\ pool'.issued[c] \in {NoSub, pool.issued[c]}
    <2>1. PICK e \in Top(pool.issue_times), ok \in BOOLEAN :
            pool' = IF pool.issued[e.cc] = e.sub
                    THEN RealEnqueueSubmission(Reclaimed(pool, e), e.sub, ok)
                    ELSE [pool EXCEPT !.issue_times = @ \ {e}]
      BY <1>0, <1>5 DEF CheckForTimeoutsPop, Reclaimed
    <2>2. CASE pool.issued[e.cc] # e.sub
      BY <1>0, <2>1, <2>2 DEF Pool
    <2>3. CASE pool.issued[e.cc] = e.sub
      <3> DEFINE p == Reclaimed(pool, e)
      <3>1. e \in pool.issue_times
        BY DEF Top
      <3>2. /\ e.cc \in Conn /\ e.sub \in Sub /\ Sound(p) /\ e.sub \notin Held(p)
            /\ p.markers = pool.markers
            /\ p.issued = [pool.issued EXCEPT ![e.cc] = NoSub]
        <4>1. Sound(pool)
          BY <1>0
        <4> QED BY ONLY <4>1, <2>3, <3>1, ReclaimSound
      <3> HIDE DEF p
      <3>3. p.issued[c] \in {NoSub, pool.issued[c]}
        BY <1>0, <3>2 DEF Pool
      <3>4. /\ c \notin Range(RealEnqueueSubmission(p, e.sub, ok).markers)
            /\ RealEnqueueSubmission(p, e.sub, ok).issued[c] = p.issued[c]
        <4> DEFINE s == e.sub
        <4>1. /\ now \in Nat /\ Sound(p) /\ s \in Sub /\ s \notin Held(p)
              /\ c \notin Range(p.markers)
          BY <1>0, <3>2
        <4> HIDE DEF s
        <4>2. /\ c \notin Range(RealEnqueueSubmission(p, s, ok).markers)
              /\ RealEnqueueSubmission(p, s, ok).issued[c] = p.issued[c]
          BY ONLY <4>1, SubmissionPassesBy
        <4> QED BY <4>2 DEF s
      <3> QED BY <2>1, <2>3, <3>3, <3>4 DEF p
    <2> QED BY <2>2, <2>3
  <1>6. ASSUME CheckForTimeoutsEnter \/ CheckForTimeoutsLeave PROVE pool' = pool
    BY <1>6 DEF CheckForTimeoutsEnter, CheckForTimeoutsLeave
  <1> QED BY <1>1, <1>2, <1>3, <1>4, <1>5, <1>6 DEF OthersCall, TimeoutThread

-----------------------------------------------------------------------------
(* The invariant of the composed system.                                   *)

MarkOf(m) == [sub |-> m.sub, by |-> m.by, result |-> m.result]

\* what the worker of a connection knows at each step of ActPlaceMark
WorkersInv ==
    \A c \in Conn :
        /\ act[c].step # "idle" => c \in live /\ act[c].sub \in Sub
        /\ act[c].step \in {"notified", "waiting"} => act[c].result \in Verdict
        /\ act[c].step # "waiting" => act[c].id = 0
        /\ act[c].step = "waiting" =>
              /\ act[c].id \in DOMAIN messages
              /\ messages[act[c].id] = [kind |-> "mark", sub |-> act[c].sub,
                                        by |-> c, result |-> act[c].result]

\* a marker whose request has passed hasIssued is not in _markers, and has
\* that job or none
JobsInv ==
    \A c \in Conn \ (Admins \cup Judges) :
        act[c].step = "legal" =>
            /\ c \notin Range(pool.markers)
            /\ pool.issued[c] \in {NoSub, act[c].sub}

\* where the handler is in int_process, and what the tables hold by then.  A
\* submission it has stored has not been given to the pool yet.
HandlerInv ==
    /\ handler.step # "idle" => handler.id \in DOMAIN messages
    /\ handler.step = "stored" =>
          /\ Body.kind = "submission"
          /\ Body.sub \in subs \ enqueued
    /\ handler.step = "done" /\ Body.kind = "mark" => MarkOf(Body) \in marks

\* a submission the server still knows of (NoSubmissionForgotten, with the
\* pool's contents given by its histories)
Kept(s) ==
    \/ s \in enqueued \ dismissed
    \/ handler.step = "stored" /\ Body.sub = s
    \/ MarkUnderWay(s)

SysInv ==
    /\ SysTypeOK
    /\ Inv
    /\ IsFiniteSet(subs) /\ enqueued \subseteq subs
    /\ WorkersInv
    /\ JobsInv
    /\ HandlerInv
    /\ \A s \in Unmarked \ unstored : Kept(s)

\* the rows of the message log as a sequence
LEMMA LogType ==
    ASSUME SysTypeOK
    PROVE  /\ Len(messages) \in Nat /\ DOMAIN messages = 1 .. Len(messages)
           /\ \A i \in DOMAIN messages :
                 i \in Nat \ {0} /\ messages[i] \in SubmissionMessage \cup MarkMessage
  <1>1. messages \in Seq(SubmissionMessage \cup MarkMessage)
    BY DEF SysTypeOK
  <1> QED BY <1>1, SMT

\* makeMessage adds a row under the next id, which is then queued
LEMMA LogGrows ==
    ASSUME SysTypeOK, NEW m \in SubmissionMessage \cup MarkMessage,
           messages' = Append(messages, m), queue' = Append(queue, Len(messages) + 1),
           processed' = processed
    PROVE  /\ messages' \in Seq(SubmissionMessage \cup MarkMessage)
           /\ Len(messages) + 1 \in DOMAIN messages'
           /\ messages'[Len(messages) + 1] = m
           /\ Len(messages) + 1 \notin DOMAIN messages
           /\ \A i \in DOMAIN messages : i \in DOMAIN messages' /\ messages'[i] = messages[i]
           /\ processed' \in SUBSET DOMAIN messages'
           /\ queue' \in Seq(DOMAIN messages')
           /\ Len(messages) + 1 \in Unprocessed'
           /\ Unprocessed \subseteq Unprocessed'
  <1>1. /\ messages \in Seq(SubmissionMessage \cup MarkMessage)
        /\ queue \in Seq(DOMAIN messages) /\ processed \in SUBSET DOMAIN messages
    BY DEF SysTypeOK
  <1>2. Len(messages) \in Nat /\ DOMAIN messages = 1 .. Len(messages)
    BY <1>1, SMT
  <1>3. /\ messages' \in Seq(SubmissionMessage \cup MarkMessage)
        /\ DOMAIN messages' = 1 .. Len(messages) + 1
        /\ messages'[Len(messages) + 1] = m
        /\ \A i \in 1 .. Len(messages) : messages'[i] = messages[i]
    BY <1>1, SMT
  <1>4. DOMAIN messages \subseteq DOMAIN messages' /\ Len(messages) + 1 \in DOMAIN messages'
    BY <1>2, <1>3, SMT
  <1>5. Len(messages) + 1 \notin DOMAIN messages
    BY <1>2, SMT
  <1>6. queue' \in Seq(DOMAIN messages')
    <2>1. queue \in Seq(DOMAIN messages')
      BY <1>1, <1>4, SMT
    <2> QED BY <1>4, <2>1, SMT
  <1> QED BY <1>1, <1>2, <1>3, <1>4, <1>5, <1>6 DEF Unprocessed

\* a step of the pool that leaves tables, workers and histories alone
LEMMA QuietStep ==
    ASSUME SysInv, Inv', UNCHANGED <<storeVars, act, unstored, crashes, enqueued, dismissed>>,
           \A c \in Conn : act[c].step # "idle" => c \in live',
           \A c \in Conn : act[c].step = "legal" => OthersCall(c)
    PROVE  SysInv'
  <1>1. SysTypeOK'
    BY DEF SysInv, SysTypeOK, Inv, storeVars
  <1>2. IsFiniteSet(subs)' /\ (enqueued \subseteq subs)'
    BY DEF SysInv, storeVars
  <1>3. WorkersInv'
    BY DEF SysInv, WorkersInv, storeVars
  <1>4. JobsInv'
    <2> SUFFICES ASSUME NEW c \in Conn \ (Admins \cup Judges), act[c].step = "legal"
                 PROVE  /\ c \notin Range(pool'.markers)
                        /\ pool'.issued[c] \in {NoSub, act[c].sub}
      BY DEF JobsInv
    <2>1. c \notin Range(pool.markers) /\ pool.issued[c] \in {NoSub, act[c].sub}
      BY DEF SysInv, JobsInv
    <2>2. /\ c \notin Range(pool'.markers)
          /\ pool'.issued[c] \in {NoSub, pool.issued[c]}
      BY <2>1, OthersPassBy DEF SysInv
    <2> QED BY <2>1, <2>2
  <1>5. HandlerInv'
    BY DEF SysInv, HandlerInv, storeVars, Body
  <1>6. (\A s \in Unmarked \ unstored : Kept(s))'
    BY DEF SysInv, Unmarked, Marked, Kept, Body, MarkUnderWay, Unprocessed, storeVars
  <1> QED BY <1>1, <1>2, <1>3, <1>4, <1>5, <1>6 DEF SysInv

\* the workers other than c go on as before
OthersWork(c) == \A d \in Conn : d # c => act'[d] = act[d]

\* the actions that leave tables and workers alone
LEMMA PoolActionsInv ==
    ASSUME SysInv,
           \/ \E c \in Conn : Open(c) \/ Close(c) \/ SubscribeMark(c) \/ Relogin(c)
           \/ PoolThread
           \/ Clock
    PROVE  SysInv'
  <1>0. Inv
    BY DEF SysInv
  <1>1. ASSUME NEW c \in Conn, Open(c) PROVE SysInv'
    <2>1. Next /\ pool' = pool /\ UNCHANGED <<enqueued, dismissed>> /\ live \subseteq live'
      BY <1>1 DEF Open, Next, Connect, poolVars
    <2>2. Inv'
      BY <1>0, <2>1, NextInv
    <2> QED BY <1>1, <2>1, <2>2, QuietStep DEF Open, OthersCall, SysInv, WorkersInv
  <1>2. ASSUME NEW c \in Conn, Close(c) PROVE SysInv'
    <2>1. Next /\ PreemptMarker(c) /\ UNCHANGED <<enqueued, dismissed>> /\ live' = live \ {c}
      BY <1>2 DEF Close, Next, Disconnect, PreemptMarker
    <2>2. Inv'
      BY <1>0, <2>1, NextInv
    <2>3. act[c].step = "idle"
      BY <1>2 DEF Close, IsIdle
    <2> QED BY <1>2, <2>1, <2>2, <2>3, QuietStep DEF Close, OthersCall, SysInv, WorkersInv
  <1>3. ASSUME NEW c \in Conn, SubscribeMark(c) PROVE SysInv'
    <2>1. Next /\ EnqueueMarker(c) /\ UNCHANGED <<enqueued, dismissed, live>>
      BY <1>3 DEF SubscribeMark, Next, Subscribe, EnqueueMarker
    <2>2. Inv'
      BY <1>0, <2>1, NextInv
    <2>3. act[c].step = "idle"
      BY <1>3 DEF SubscribeMark, IsIdle
    <2>4. \A d \in Conn : act[d].step = "legal" => OthersCall(d)
      BY <2>1, <2>3 DEF OthersCall
    <2> QED BY <1>3, <2>1, <2>2, <2>4, QuietStep DEF SubscribeMark, SysInv, WorkersInv
  <1>4. ASSUME NEW c \in Conn, Relogin(c) PROVE SysInv'
    <2>1. Next /\ PreemptMarker(c) /\ UNCHANGED <<enqueued, dismissed, live>>
      BY <1>4 DEF Relogin, Next, GiveUp, PreemptMarker
    <2>2. Inv'
      BY <1>0, <2>1, NextInv
    <2> QED BY <1>4, <2>1, <2>2, QuietStep DEF Relogin, OthersCall, SysInv, WorkersInv
  <1>5. ASSUME PoolThread PROVE SysInv'
    <2>1. Next /\ TimeoutThread /\ UNCHANGED <<enqueued, dismissed, live>>
      BY <1>5 DEF PoolThread, Next, TimeoutThread, CheckForTimeoutsEnter, CheckForTimeoutsPop,
                  CheckForTimeoutsLeave
    <2>2. Inv'
      BY <1>0, <2>1, NextInv
    <2> QED BY <1>5, <2>1, <2>2, QuietStep DEF PoolThread, OthersCall, SysInv, WorkersInv
  <1>6. ASSUME Clock PROVE SysInv'
    <2>1. Next /\ pool' = pool /\ UNCHANGED <<enqueued, dismissed, live>>
      BY <1>6 DEF Clock, Next, Tick
    <2>2. Inv'
      BY <1>0, <2>1, NextInv
    <2> QED BY <1>6, <2>1, <2>2, QuietStep DEF Clock, OthersCall, SysInv, WorkersInv
  <1> QED BY <1>1, <1>2, <1>3, <1>4, <1>5, <1>6

\* a step that leaves the pool alone
LEMMA PoolRests ==
    ASSUME Inv, UNCHANGED vars
    PROVE  Inv'
  BY NextInv

\* ActPlaceMark: the request passes its checks
LEMMA PlaceMarkInv ==
    ASSUME SysInv, NEW c \in Conn, NEW s \in Sub, NEW r \in Verdict \cup {NoVerdict},
           PlaceMark(c, s, r)
    PROVE  SysInv'
  <1>0. /\ UNCHANGED <<vars, storeVars, unstored, crashes>>
        /\ c \in live /\ act[c].step = "idle" /\ Legal(c, s)
        /\ act \in [Conn -> [step : {"idle", "legal", "notified", "waiting"},
                             sub : Sub \cup {NoSub}, result : Verdict \cup {NoVerdict},
                             id : Nat]]
    BY DEF PlaceMark, IsIdle, SysInv, SysTypeOK
  <1>1. act'[c] = [step |-> "legal", sub |-> s, result |-> r, id |-> 0] /\ OthersWork(c)
    BY <1>0 DEF PlaceMark, Idle, OthersWork
  <1>2. Inv'
    BY <1>0, PoolRests DEF SysInv
  <1>3. SysTypeOK'
    <2>1. act' \in [Conn -> [step : {"idle", "legal", "notified", "waiting"},
                             sub : Sub \cup {NoSub}, result : Verdict \cup {NoVerdict},
                             id : Nat]]
      BY <1>0 DEF PlaceMark, Idle
    <2> QED BY <1>0, <1>2, <2>1 DEF SysInv, SysTypeOK, Inv, storeVars
  <1>4. IsFiniteSet(subs)' /\ (enqueued \subseteq subs)'
    BY <1>0 DEF SysInv, storeVars, vars
  <1>5. WorkersInv'
    <2>1. UNCHANGED <<live, messages>>
      BY <1>0 DEF storeVars, vars
    <2> QED BY <1>0, <1>1, <2>1, SMT DEF SysInv, WorkersInv, OthersWork
  <1>6. JobsInv'
    <2>1. ASSUME c \notin Admins \cup Judges
          PROVE  c \notin Range(pool.markers) /\ pool.issued[c] = s
      <3>1. pool.issued[c] = s
        BY <1>0, <2>1 DEF Legal, HasIssued
      <3> QED BY <3>1, NoSubAssumption DEF SysInv, Inv, Sound
    <2>2. pool' = pool
      BY <1>0 DEF vars
    <2> QED BY <1>1, <2>1, <2>2, SMT DEF SysInv, JobsInv, OthersWork
  <1>7. HandlerInv'
    BY <1>0 DEF SysInv, HandlerInv, storeVars, vars, Body
  <1>8. (\A t \in Unmarked \ unstored : Kept(t))'
    <2>1. \A t : MarkUnderWay(t) => MarkUnderWay(t)'
      BY <1>0, <1>1 DEF MarkUnderWay, Unprocessed, storeVars, OthersWork
    <2> QED BY <1>0, <2>1 DEF SysInv, Unmarked, Marked, Kept, Body, storeVars, vars
  <1> QED BY <1>2, <1>3, <1>4, <1>5, <1>6, <1>7, <1>8 DEF SysInv

\* a malformed result: the job goes back to the pool
LEMMA RejectMarkInv ==
    ASSUME SysInv, NEW c \in Conn, RejectMark(c)
    PROVE  SysInv'
  <1>0. /\ UNCHANGED <<live, storeVars, unstored, crashes, enqueued, dismissed>>
        /\ act[c].step = "legal" /\ PreemptMarker(c)
        /\ act \in [Conn -> [step : {"idle", "legal", "notified", "waiting"},
                             sub : Sub \cup {NoSub}, result : Verdict \cup {NoVerdict},
                             id : Nat]]
    BY DEF RejectMark, PreemptMarker, SysInv, SysTypeOK
  <1>1. act'[c] = Idle /\ OthersWork(c)
    BY <1>0 DEF RejectMark, OthersWork
  <1>2. Inv'
    <2>1. c \in live
      BY <1>0 DEF SysInv, WorkersInv
    <2>2. Next
      BY <1>0, <2>1 DEF Next, GiveUp
    <2> QED BY <2>2, NextInv DEF SysInv
  <1>3. SysTypeOK'
    <2>1. act' \in [Conn -> [step : {"idle", "legal", "notified", "waiting"},
                             sub : Sub \cup {NoSub}, result : Verdict \cup {NoVerdict},
                             id : Nat]]
      BY <1>0 DEF RejectMark, Idle
    <2> QED BY <1>0, <1>2, <2>1 DEF SysInv, SysTypeOK, Inv, storeVars
  <1>4. IsFiniteSet(subs)' /\ (enqueued \subseteq subs)'
    BY <1>0 DEF SysInv, storeVars
  <1>5. WorkersInv'
    <2>1. UNCHANGED <<live, messages>>
      BY <1>0 DEF storeVars
    <2>2. act'[c].step = "idle" /\ act'[c].id = 0
      BY <1>1, SMT DEF Idle
    <2> QED BY <1>1, <2>1, <2>2 DEF SysInv, WorkersInv, OthersWork
  <1>6. JobsInv'
    <2> SUFFICES ASSUME NEW d \in Conn \ (Admins \cup Judges), act'[d].step = "legal"
                 PROVE  /\ d \notin Range(pool'.markers)
                        /\ pool'.issued[d] \in {NoSub, act'[d].sub}
      BY DEF JobsInv
    <2>1. act'[d] = act[d]
      BY <1>1, SMT DEF OthersWork, Idle
    <2>2. d \notin Range(pool.markers) /\ pool.issued[d] \in {NoSub, act[d].sub}
      BY <2>1 DEF SysInv, JobsInv
    <2>3. OthersCall(d)
      BY <1>0 DEF OthersCall
    <2>4. d \notin Range(pool'.markers) /\ pool'.issued[d] \in {NoSub, pool.issued[d]}
      BY <2>2, <2>3, OthersPassBy DEF SysInv
    <2> QED BY <2>1, <2>2, <2>4
  <1>7. HandlerInv'
    BY <1>0 DEF SysInv, HandlerInv, storeVars, Body
  <1>8. (\A t \in Unmarked \ unstored : Kept(t))'
    <2>1. \A t : MarkUnderWay(t) => MarkUnderWay(t)'
      BY <1>0, <1>1 DEF MarkUnderWay, Unprocessed, storeVars, OthersWork
    <2> QED BY <1>0, <2>1 DEF SysInv, Unmarked, Marked, Kept, Body, storeVars
  <1> QED BY <1>2, <1>3, <1>4, <1>5, <1>6, <1>7, <1>8 DEF SysInv

\* notifyMarked: the pool lets go of the submission, and the worker has it
LEMMA NotifyInv ==
    ASSUME SysInv, NEW c \in Conn, Notify(c)
    PROVE  SysInv'
  <1> DEFINE x == act[c].sub
  <1>0. /\ UNCHANGED <<live, storeVars, unstored, crashes, enqueued>>
        /\ act[c].step = "legal" /\ act[c].result # NoVerdict /\ NotifyMarked(c, x)
        /\ act \in [Conn -> [step : {"idle", "legal", "notified", "waiting"},
                             sub : Sub \cup {NoSub}, result : Verdict \cup {NoVerdict},
                             id : Nat]]
    BY DEF Notify, NotifyMarked, SysInv, SysTypeOK
  <1>1. act'[c] = [act[c] EXCEPT !.step = "notified"] /\ OthersWork(c)
    BY <1>0 DEF Notify, OthersWork
  <1>2. c \in live /\ x \in Sub /\ act[c].result \in Verdict /\ act[c].id = 0
    BY <1>0 DEF SysInv, WorkersInv
  <1>3. /\ act'[c].step = "notified" /\ act'[c].sub = x /\ act'[c].id = 0
        /\ act'[c].result \in Verdict
    BY <1>0, <1>1, <1>2
  <1>4. Inv'
    <2>1. Next
      BY <1>0, <1>2 DEF Next, Report
    <2> QED BY <2>1, NextInv DEF SysInv
  <1>5. dismissed' \subseteq dismissed \cup {x}
    BY <1>0 DEF NotifyMarked
  <1>6. SysTypeOK'
    <2>1. act' \in [Conn -> [step : {"idle", "legal", "notified", "waiting"},
                             sub : Sub \cup {NoSub}, result : Verdict \cup {NoVerdict},
                             id : Nat]]
      BY <1>0 DEF Notify
    <2> QED BY <1>0, <1>4, <2>1 DEF SysInv, SysTypeOK, Inv, storeVars
  <1>7. IsFiniteSet(subs)' /\ (enqueued \subseteq subs)'
    BY <1>0 DEF SysInv, storeVars
  <1>8. WorkersInv'
    BY <1>0, <1>1, <1>2, <1>3, SMT DEF SysInv, WorkersInv, storeVars, OthersWork
  <1>9. JobsInv'
    <2> SUFFICES ASSUME NEW d \in Conn \ (Admins \cup Judges), act'[d].step = "legal"
                 PROVE  /\ d \notin Range(pool'.markers)
                        /\ pool'.issued[d] \in {NoSub, act'[d].sub}
      BY DEF JobsInv
    <2>1. d # c /\ act'[d] = act[d]
      BY <1>1, <1>3 DEF OthersWork
    <2>2. d \notin Range(pool.markers) /\ pool.issued[d] \in {NoSub, act[d].sub}
      BY <2>1 DEF SysInv, JobsInv
    <2>3. OthersCall(d)
      BY <1>0, <1>2, <2>1 DEF OthersCall
    <2>4. d \notin Range(pool'.markers) /\ pool'.issued[d] \in {NoSub, pool.issued[d]}
      BY <2>2, <2>3, OthersPassBy DEF SysInv
    <2> QED BY <2>1, <2>2, <2>4
  <1>10. HandlerInv'
    BY <1>0 DEF SysInv, HandlerInv, storeVars, Body
  <1>11. (\A t \in Unmarked \ unstored : Kept(t))'
    <2>1. \A t : MarkUnderWay(t) => MarkUnderWay(t)'
      BY <1>0, <1>1 DEF MarkUnderWay, Unprocessed, storeVars, OthersWork
    <2>2. \A t : t = x => MarkUnderWay(t)'
      BY <1>3 DEF MarkUnderWay
    <2> SUFFICES ASSUME NEW t \in Unmarked \ unstored PROVE Kept(t)'
      BY <1>0 DEF Unmarked, Marked, storeVars
    <2>3. Kept(t)
      BY DEF SysInv
    <2>4. UNCHANGED <<handler, Body, enqueued>>
      BY <1>0 DEF Body, storeVars
    <2> QED BY <1>5, <2>1, <2>2, <2>3, <2>4 DEF Kept
  <1> QED BY <1>4, <1>6, <1>7, <1>8, <1>9, <1>10, <1>11 DEF SysInv

\* makeMessage and enqueue leave the handler's message and the marks on their
\* way where they are
LEMMA LogGrowsInv ==
    ASSUME SysInv, NEW m \in SubmissionMessage \cup MarkMessage,
           messages' = Append(messages, m), queue' = Append(queue, Len(messages) + 1),
           UNCHANGED <<subs, marks, processed, handler, enqueued, dismissed>>
    PROVE  /\ HandlerInv'
           /\ handler.step = "stored" => Body' = Body
           /\ \A i \in Unprocessed : i \in Unprocessed' /\ messages'[i] = messages[i]
           /\ Unmarked' = Unmarked
  <1>1. /\ \A i \in DOMAIN messages : i \in DOMAIN messages' /\ messages'[i] = messages[i]
        /\ Unprocessed \subseteq Unprocessed'
    BY LogGrows DEF SysInv
  <1>2. handler.step # "idle" => handler.id \in DOMAIN messages /\ Body' = Body
    BY <1>1 DEF SysInv, HandlerInv, Body
  <1>3. HandlerInv'
    BY <1>1, <1>2 DEF SysInv, HandlerInv
  <1>4. Unmarked' = Unmarked
    BY DEF Unmarked, Marked
  <1>5. Unprocessed \subseteq DOMAIN messages
    BY DEF Unprocessed
  <1> QED BY <1>1, <1>2, <1>3, <1>4, <1>5

\* triggerMessage of the mark
LEMMA TriggerInv ==
    ASSUME SysInv, NEW c \in Conn, Trigger(c)
    PROVE  SysInv'
  <1> DEFINE x == act[c].sub
             m == [kind |-> "mark", sub |-> act[c].sub, by |-> c, result |-> act[c].result]
             n == Len(messages) + 1
  <1>0. /\ UNCHANGED <<vars, subs, marks, processed, handler, crashes>>
        /\ UNCHANGED <<pool, live, enqueued, dismissed>>
        /\ act[c].step = "notified"
        /\ act \in [Conn -> [step : {"idle", "legal", "notified", "waiting"},
                             sub : Sub \cup {NoSub}, result : Verdict \cup {NoVerdict},
                             id : Nat]]
    BY DEF Trigger, vars, SysInv, SysTypeOK
  <1>1. x \in Sub /\ act[c].result \in Verdict /\ c \in live
    BY <1>0 DEF SysInv, WorkersInv
  <1>2. Inv'
    BY <1>0, PoolRests DEF SysInv
  <1>3. IsFiniteSet(subs)' /\ (enqueued \subseteq subs)'
    BY <1>0 DEF SysInv
  <1>4. CASE /\ messages' = Append(messages, m) /\ queue' = Append(queue, n)
             /\ act' = [act EXCEPT ![c].step = "waiting", ![c].id = n]
             /\ UNCHANGED unstored
    <2>0. m \in SubmissionMessage \cup MarkMessage
      BY <1>1 DEF MarkMessage
    <2>1. /\ act'[c] = [act[c] EXCEPT !.step = "waiting", !.id = n] /\ OthersWork(c)
          /\ n \in Nat
      BY <1>0, <1>4, LogType, SMT DEF OthersWork, SysInv
    <2>2. /\ act'[c].step = "waiting" /\ act'[c].sub = x /\ act'[c].id = n
          /\ act'[c].result = act[c].result
      BY <1>0, <2>1
    <2>3. /\ messages' \in Seq(SubmissionMessage \cup MarkMessage)
          /\ n \in DOMAIN messages' /\ messages'[n] = m
          /\ \A i \in DOMAIN messages : i \in DOMAIN messages' /\ messages'[i] = messages[i]
          /\ processed' \in SUBSET DOMAIN messages'
          /\ queue' \in Seq(DOMAIN messages')
          /\ n \in Unprocessed'
      BY <1>0, <1>4, <2>0, LogGrows DEF SysInv
    <2>4. /\ HandlerInv'
          /\ handler.step = "stored" => Body' = Body
          /\ \A i \in Unprocessed : i \in Unprocessed' /\ messages'[i] = messages[i]
          /\ Unmarked' = Unmarked
      BY <1>0, <1>4, <2>0, LogGrowsInv
    <2>5. SysTypeOK'
      <3>1. act' \in [Conn -> [step : {"idle", "legal", "notified", "waiting"},
                               sub : Sub \cup {NoSub}, result : Verdict \cup {NoVerdict},
                               id : Nat]]
        <4> DEFINE R == [step : {"idle", "legal", "notified", "waiting"},
                         sub : Sub \cup {NoSub}, result : Verdict \cup {NoVerdict}, id : Nat]
        <4>1. act[c] \in R /\ n \in Nat
          BY <1>0, <2>1
        <4>2. act'[c] \in R
          BY <2>1, <4>1
        <4>3. act' = [act EXCEPT ![c] = act'[c]]
          BY <1>0, <1>4
        <4> HIDE DEF R
        <4>4. act \in [Conn -> R]
          BY <1>0 DEF R
        <4>5. act' \in [Conn -> R]
          BY <4>2, <4>3, <4>4
        <4> QED BY <4>5 DEF R
      <3> QED BY <1>0, <1>2, <1>4, <2>3, <3>1 DEF SysInv, SysTypeOK, Inv
    <2>6. WorkersInv'
      <3> SUFFICES ASSUME NEW d \in Conn
                   PROVE  /\ act'[d].step # "idle" => d \in live' /\ act'[d].sub \in Sub
                          /\ act'[d].step \in {"notified", "waiting"} => act'[d].result \in Verdict
                          /\ act'[d].step # "waiting" => act'[d].id = 0
                          /\ act'[d].step = "waiting" =>
                                /\ act'[d].id \in DOMAIN messages'
                                /\ messages'[act'[d].id] =
                                     [kind |-> "mark", sub |-> act'[d].sub,
                                      by |-> d, result |-> act'[d].result]
        BY DEF WorkersInv
      <3>1. CASE d = c
        <4>1. messages'[act'[c].id] = [kind |-> "mark", sub |-> act'[c].sub,
                                       by |-> c, result |-> act'[c].result]
          BY <2>2, <2>3
        <4>2. /\ c \in live' /\ act'[c].sub \in Sub /\ act'[c].result \in Verdict
              /\ act'[c].step = "waiting" /\ act'[c].id \in DOMAIN messages'
          BY <1>0, <1>1, <2>2, <2>3
        <4> QED BY <3>1, <4>1, <4>2
      <3>2. CASE d # c
        BY <1>0, <2>1, <2>3, <3>2, SMT DEF SysInv, WorkersInv, OthersWork
      <3> QED BY <3>1, <3>2
    <2>7. JobsInv'
      BY <1>0, <2>1, <2>2 DEF SysInv, JobsInv, OthersWork
    <2>8. (\A t \in Unmarked \ unstored : Kept(t))'
      <3> SUFFICES ASSUME NEW t \in Unmarked \ unstored PROVE Kept(t)'
        BY <1>4, <2>4
      <3>1. Kept(t)
        BY DEF SysInv
      <3>2. MarkUnderWay(t) => MarkUnderWay(t)'
        <4>1. ASSUME NEW d \in Conn, act[d].step = "notified", act[d].sub = t, d # c
              PROVE  MarkUnderWay(t)'
          BY <2>1, <4>1 DEF MarkUnderWay, OthersWork
        <4>2. x = t => MarkUnderWay(t)'
          BY <2>3, SMT DEF MarkUnderWay
        <4>3. ASSUME NEW i \in Unprocessed, messages[i].kind = "mark", messages[i].sub = t
              PROVE  MarkUnderWay(t)'
          BY <2>4, <4>3 DEF MarkUnderWay
        <4> QED BY <4>1, <4>2, <4>3 DEF MarkUnderWay
      <3> QED BY <1>0, <2>4, <3>1, <3>2 DEF Kept
    <2> QED BY <1>2, <1>3, <2>4, <2>5, <2>6, <2>7, <2>8 DEF SysInv
  <1>5. CASE /\ act' = [act EXCEPT ![c] = Idle]
             /\ unstored' = unstored \cup ({x} \ Held(pool))
             /\ UNCHANGED <<messages, queue>>
    <2>1. act'[c].step = "idle" /\ act'[c].id = 0 /\ OthersWork(c)
      BY <1>0, <1>5 DEF Idle, OthersWork
    <2>2. SysTypeOK'
      <3>1. act' \in [Conn -> [step : {"idle", "legal", "notified", "waiting"},
                               sub : Sub \cup {NoSub}, result : Verdict \cup {NoVerdict},
                               id : Nat]]
        BY <1>0, <1>5 DEF Idle
      <3> QED BY <1>0, <1>1, <1>2, <1>5, <3>1 DEF SysInv, SysTypeOK, Inv
    <2>3. WorkersInv'
      BY <1>0, <1>5, <2>1 DEF SysInv, WorkersInv, OthersWork
    <2>4. JobsInv'
      BY <1>0, <2>1 DEF SysInv, JobsInv, OthersWork
    <2>5. HandlerInv'
      BY <1>0, <1>5 DEF SysInv, HandlerInv, Body
    <2>6. (\A t \in Unmarked \ unstored : Kept(t))'
      <3> SUFFICES ASSUME NEW t \in Unmarked \ unstored' PROVE Kept(t)'
        BY <1>0 DEF Unmarked, Marked
      <3>1. Kept(t)
        BY <1>5 DEF SysInv
      <3>2. t = x => t \in enqueued \ dismissed
        BY <1>5 DEF SysInv, Inv
      <3>3. t # x /\ MarkUnderWay(t) => MarkUnderWay(t)'
        BY <1>0, <1>5, <2>1 DEF MarkUnderWay, Unprocessed, OthersWork
      <3>4. UNCHANGED Body
        BY <1>0, <1>5 DEF Body
      <3> QED BY <1>0, <3>1, <3>2, <3>3, <3>4 DEF Kept
    <2> QED BY <1>2, <1>3, <2>2, <2>3, <2>4, <2>5, <2>6 DEF SysInv
  <1> QED BY <1>4, <1>5 DEF Trigger

\* ActSubmit
LEMMA SubmitSolutionInv ==
    ASSUME SysInv, NEW s \in Sub, SubmitSolution(s)
    PROVE  SysInv'
  <1> DEFINE m == [kind |-> "submission", sub |-> s]
             n == Len(messages) + 1
  <1>0. /\ UNCHANGED <<vars, subs, marks, processed, handler, act, unstored, crashes>>
        /\ UNCHANGED <<pool, live, enqueued, dismissed>>
        /\ messages' = Append(messages, m) /\ queue' = Append(queue, n)
        /\ m \in SubmissionMessage \cup MarkMessage
    BY DEF SubmitSolution, vars, SubmissionMessage
  <1>1. Inv'
    BY <1>0, PoolRests DEF SysInv
  <1>2. /\ messages' \in Seq(SubmissionMessage \cup MarkMessage)
        /\ \A i \in DOMAIN messages : i \in DOMAIN messages' /\ messages'[i] = messages[i]
        /\ processed' \in SUBSET DOMAIN messages'
        /\ queue' \in Seq(DOMAIN messages')
    BY <1>0, LogGrows DEF SysInv
  <1>3. /\ HandlerInv'
        /\ handler.step = "stored" => Body' = Body
        /\ \A i \in Unprocessed : i \in Unprocessed' /\ messages'[i] = messages[i]
        /\ Unmarked' = Unmarked
    BY <1>0, LogGrowsInv
  <1>4. SysTypeOK'
    BY <1>0, <1>1, <1>2 DEF SysInv, SysTypeOK, Inv
  <1>5. IsFiniteSet(subs)' /\ (enqueued \subseteq subs)'
    BY <1>0 DEF SysInv
  <1>6. WorkersInv'
    BY <1>0, <1>2 DEF SysInv, WorkersInv
  <1>7. JobsInv'
    BY <1>0 DEF SysInv, JobsInv
  <1>8. (\A t \in Unmarked \ unstored : Kept(t))'
    <2> SUFFICES ASSUME NEW t \in Unmarked \ unstored PROVE Kept(t)'
      BY <1>0, <1>3
    <2>1. Kept(t)
      BY DEF SysInv
    <2>2. MarkUnderWay(t) => MarkUnderWay(t)'
      BY <1>0, <1>3 DEF MarkUnderWay
    <2> QED BY <1>0, <1>3, <2>1, <2>2 DEF Kept
  <1> QED BY <1>1, <1>3, <1>4, <1>5, <1>6, <1>7, <1>8 DEF SysInv

\* the handler takes a message and does its first database access
LEMMA HandlerTakeInv ==
    ASSUME SysInv, HandlerTake
    PROVE  SysInv'
  <1> DEFINE i == Head(queue)
             m == messages[i]
  <1>0. /\ UNCHANGED <<vars, messages, processed, unstored, crashes>>
        /\ UNCHANGED <<pool, live, enqueued, dismissed>>
        /\ handler.step = "idle" /\ queue # <<>> /\ queue' = Tail(queue)
        /\ queue \in Seq(DOMAIN messages)
    BY DEF HandlerTake, vars, SysInv, SysTypeOK
  <1>1. /\ i \in DOMAIN messages /\ i \in Nat \ {0} /\ queue' \in Seq(DOMAIN messages')
        /\ m \in SubmissionMessage \cup MarkMessage
    BY <1>0, LogType, SMT DEF SysInv
  <1>2. Inv'
    BY <1>0, PoolRests DEF SysInv
  <1>3. \A t \in Unmarked \ unstored : t \in enqueued \ dismissed \/ MarkUnderWay(t)
    BY <1>0 DEF SysInv, Kept
  <1>4. CASE /\ m.kind = "submission" /\ m.sub \notin subs
             /\ subs' = subs \cup {m.sub}
             /\ handler' = [step |-> "stored", id |-> i]
             /\ UNCHANGED <<marks, act>>
    <2>1. m.sub \in Sub
      BY <1>1 DEF SubmissionMessage, MarkMessage
    <2>2. SysTypeOK'
      BY <1>0, <1>1, <1>2, <1>4, <2>1 DEF SysInv, SysTypeOK, Inv
    <2>3. IsFiniteSet(subs)' /\ (enqueued \subseteq subs)'
      BY <1>0, <1>4, FS_AddElement DEF SysInv
    <2>4. WorkersInv' /\ JobsInv'
      BY <1>0, <1>4 DEF SysInv, WorkersInv, JobsInv
    <2>5. Body' = m
      BY <1>0, <1>4 DEF Body
    <2>6. HandlerInv'
      BY <1>0, <1>1, <1>4, <2>5 DEF SysInv, HandlerInv
    <2>7. (\A t \in Unmarked \ unstored : Kept(t))'
      <3> SUFFICES ASSUME NEW t \in Unmarked', t \notin unstored PROVE Kept(t)'
        BY <1>0
      <3>1. t = m.sub \/ t \in Unmarked
        BY <1>4 DEF Unmarked, Marked
      <3>2. MarkUnderWay(t) => MarkUnderWay(t)'
        BY <1>0, <1>4 DEF MarkUnderWay, Unprocessed
      <3> QED BY <1>0, <1>3, <1>4, <2>5, <3>1, <3>2 DEF Kept
    <2> QED BY <1>2, <2>2, <2>3, <2>4, <2>6, <2>7 DEF SysInv
  <1>5. CASE /\ m.kind = "submission" /\ m.sub \in subs
             /\ act' = Release(i)
             /\ UNCHANGED <<subs, marks, handler>>
    <2>1. \A c \in Conn : act[c].id # i
      <3> SUFFICES ASSUME NEW c \in Conn, act[c].id = i PROVE FALSE
        OBVIOUS
      <3>1. act[c].step = "waiting"
        BY <1>1 DEF SysInv, WorkersInv
      <3>2. messages[act[c].id] = [kind |-> "mark", sub |-> act[c].sub,
                                   by |-> c, result |-> act[c].result]
        BY <3>1 DEF SysInv, WorkersInv
      <3>3. m.kind = "mark"
        BY <3>2, SMT
      <3> QED BY <1>5, <3>3
    <2>2. act' = act
      BY <1>5, <2>1 DEF Release, SysInv, SysTypeOK
    <2>3. SysTypeOK'
      BY <1>0, <1>1, <1>2, <1>5, <2>2 DEF SysInv, SysTypeOK, Inv
    <2>4. IsFiniteSet(subs)' /\ (enqueued \subseteq subs)'
      BY <1>0, <1>5 DEF SysInv
    <2>5. WorkersInv' /\ JobsInv'
      BY <1>0, <2>2 DEF SysInv, WorkersInv, JobsInv
    <2>6. HandlerInv'
      BY <1>0, <1>5 DEF SysInv, HandlerInv, Body
    <2>7. (\A t \in Unmarked \ unstored : Kept(t))'
      <3>1. \A t : MarkUnderWay(t) => MarkUnderWay(t)'
        BY <1>0, <2>2 DEF MarkUnderWay, Unprocessed
      <3>2. Unmarked' = Unmarked
        BY <1>5 DEF Unmarked, Marked
      <3> QED BY <1>0, <1>3, <3>1, <3>2 DEF Kept
    <2> QED BY <1>2, <2>3, <2>4, <2>5, <2>6, <2>7 DEF SysInv
  <1>6. CASE /\ m.kind = "mark"
             /\ marks' = PutMark(m)
             /\ handler' = [step |-> "done", id |-> i]
             /\ UNCHANGED <<subs, act>>
    <2>1. m \in MarkMessage
      BY <1>1, <1>6 DEF SubmissionMessage
    <2>2. MarkOf(m) \in marks' /\ MarkOf(m) \in Mark /\ marks' \subseteq marks \cup {MarkOf(m)}
      BY <1>6, <2>1 DEF PutMark, MarkOf, MarkMessage, Mark
    <2>3. \A t : Marked(t) => Marked(t)'
      <3> SUFFICES ASSUME NEW t, NEW k \in marks, k.sub = t PROVE \E l \in marks' : l.sub = t
        BY DEF Marked
      <3>1. CASE k.sub = m.sub
        <4>1. MarkOf(m).sub = t
          BY <3>1 DEF MarkOf
        <4> QED BY <2>2, <4>1
      <3>2. CASE k.sub # m.sub
        BY <1>6, <3>2 DEF PutMark
      <3> QED BY <3>1, <3>2
    <2>4. SysTypeOK'
      BY <1>0, <1>1, <1>2, <1>6, <2>2 DEF SysInv, SysTypeOK, Inv
    <2>5. IsFiniteSet(subs)' /\ (enqueued \subseteq subs)'
      BY <1>0, <1>6 DEF SysInv
    <2>6. WorkersInv' /\ JobsInv'
      BY <1>0, <1>6 DEF SysInv, WorkersInv, JobsInv
    <2>7. HandlerInv'
      <3>1. Body' = m
        BY <1>0, <1>6 DEF Body
      <3> QED BY <1>0, <1>1, <1>6, <2>2, <3>1 DEF HandlerInv
    <2>8. (\A t \in Unmarked \ unstored : Kept(t))'
      <3>1. \A t : MarkUnderWay(t) => MarkUnderWay(t)'
        BY <1>0, <1>6 DEF MarkUnderWay, Unprocessed
      <3>2. Unmarked' \subseteq Unmarked
        BY <1>6, <2>3 DEF Unmarked
      <3> QED BY <1>0, <1>3, <3>1, <3>2 DEF Kept
    <2> QED BY <1>2, <2>4, <2>5, <2>6, <2>7, <2>8 DEF SysInv
  <1> QED BY <1>4, <1>5, <1>6 DEF HandlerTake

\* the handler gives the stored submission to the pool, which does not have it
LEMMA HandlerEnqueueInv ==
    ASSUME SysInv, HandlerEnqueue
    PROVE  SysInv'
  <1> DEFINE x == Body.sub
  <1>0. /\ UNCHANGED <<live, subs, marks, messages, processed, queue, act, unstored, crashes>>
        /\ handler.step = "stored" /\ handler' = [handler EXCEPT !.step = "done"]
        /\ EnqueueSubmission(x) /\ enqueued' = enqueued \cup {x} /\ dismissed' = dismissed
        /\ handler \in [step : {"idle", "stored", "done"}, id : Nat]
    BY DEF HandlerEnqueue, EnqueueSubmission, SysInv, SysTypeOK
  <1>1. /\ Body.kind = "submission" /\ x \in subs \ enqueued /\ x \in Sub
        /\ handler.id \in DOMAIN messages
    BY <1>0 DEF SysInv, HandlerInv, SysTypeOK
  <1>2. Inv'
    <2>1. Next
      BY <1>0, <1>1 DEF Next, Submit
    <2> QED BY <2>1, NextInv DEF SysInv
  <1>3. handler'.step = "done" /\ handler'.id = handler.id /\ Body' = Body
    BY <1>0 DEF Body
  <1>4. SysTypeOK'
    BY <1>0, <1>2 DEF SysInv, SysTypeOK, Inv
  <1>5. IsFiniteSet(subs)' /\ (enqueued \subseteq subs)'
    BY <1>0, <1>1 DEF SysInv
  <1>6. WorkersInv'
    BY <1>0 DEF SysInv, WorkersInv
  <1>7. JobsInv'
    <2> SUFFICES ASSUME NEW d \in Conn \ (Admins \cup Judges), act[d].step = "legal"
                 PROVE  /\ d \notin Range(pool'.markers)
                        /\ pool'.issued[d] \in {NoSub, act[d].sub}
      BY <1>0 DEF JobsInv
    <2>1. d \notin Range(pool.markers) /\ pool.issued[d] \in {NoSub, act[d].sub}
      BY DEF SysInv, JobsInv
    <2>2. OthersCall(d)
      BY <1>0, <1>1 DEF OthersCall
    <2>3. d \notin Range(pool'.markers) /\ pool'.issued[d] \in {NoSub, pool.issued[d]}
      BY <2>1, <2>2, OthersPassBy DEF SysInv
    <2> QED BY <2>1, <2>3
  <1>8. HandlerInv'
    BY <1>0, <1>1, <1>3 DEF HandlerInv
  <1>9. (\A t \in Unmarked \ unstored : Kept(t))'
    <2> SUFFICES ASSUME NEW t \in Unmarked \ unstored PROVE Kept(t)'
      BY <1>0 DEF Unmarked, Marked
    <2>1. Kept(t)
      BY DEF SysInv
    <2>2. MarkUnderWay(t) => MarkUnderWay(t)'
      BY <1>0 DEF MarkUnderWay, Unprocessed
    <2>3. x \notin dismissed
      BY <1>1 DEF SysInv, Inv
    <2> QED BY <1>0, <2>1, <2>2, <2>3 DEF Kept
  <1> QED BY <1>2, <1>4, <1>5, <1>6, <1>7, <1>8, <1>9 DEF SysInv

\* markProcessed: a mark message is processed only when its mark is stored
LEMMA HandlerFinishInv ==
    ASSUME SysInv, HandlerFinish
    PROVE  SysInv'
  <1>0. /\ UNCHANGED <<vars, subs, marks, messages, queue, unstored, crashes>>
        /\ UNCHANGED <<pool, live, enqueued, dismissed>>
        /\ handler.step = "done" /\ handler' = Resting
        /\ processed' = processed \cup {handler.id} /\ act' = Release(handler.id)
        /\ act \in [Conn -> [step : {"idle", "legal", "notified", "waiting"},
                             sub : Sub \cup {NoSub}, result : Verdict \cup {NoVerdict},
                             id : Nat]]
    BY DEF HandlerFinish, vars, SysInv, SysTypeOK
  <1>1. /\ handler.id \in DOMAIN messages /\ handler.id # 0
        /\ Body.kind = "mark" => MarkOf(Body) \in marks
    BY <1>0, LogType DEF SysInv, HandlerInv
  <1>2. Inv'
    BY <1>0, PoolRests DEF SysInv
  <1>3. /\ \A c \in Conn : act'[c] = IF act[c].id = handler.id THEN Idle ELSE act[c]
        /\ act' \in [Conn -> [step : {"idle", "legal", "notified", "waiting"},
                              sub : Sub \cup {NoSub}, result : Verdict \cup {NoVerdict},
                              id : Nat]]
    BY <1>0 DEF Release, Idle
  <1>4. SysTypeOK'
    BY <1>0, <1>1, <1>2, <1>3 DEF SysInv, SysTypeOK, Inv, Resting
  <1>5. IsFiniteSet(subs)' /\ (enqueued \subseteq subs)'
    BY <1>0 DEF SysInv
  <1>6. WorkersInv'
    <2>1. Idle.step = "idle" /\ Idle.id = 0
      BY DEF Idle
    <2>2. ASSUME NEW c \in Conn, act'[c] # act[c]
          PROVE  act'[c].step = "idle" /\ act'[c].id = 0
      <3>1. act'[c] = Idle
        BY <1>3, <2>2
      <3> QED BY <2>1, <3>1
    <2> QED BY <1>0, <2>2 DEF SysInv, WorkersInv
  <1>7. JobsInv'
    <2>1. \A c \in Conn : act'[c] = act[c] \/ act'[c].step = "idle"
      BY <1>3, SMT DEF Idle
    <2> QED BY <1>0, <2>1 DEF SysInv, JobsInv
  <1>8. HandlerInv'
    BY <1>0 DEF HandlerInv, Resting
  <1>9. (\A t \in Unmarked \ unstored : Kept(t))'
    <2> SUFFICES ASSUME NEW t \in Unmarked \ unstored PROVE Kept(t)'
      BY <1>0 DEF Unmarked, Marked
    <2>1. t \in enqueued \ dismissed \/ MarkUnderWay(t)
      BY <1>0 DEF SysInv, Kept
    <2>2. ASSUME NEW j \in Unprocessed, messages[j].kind = "mark", messages[j].sub = t
          PROVE  MarkUnderWay(t)'
      <3>1. j # handler.id
        <4> SUFFICES ASSUME j = handler.id PROVE FALSE
          OBVIOUS
        <4>1. MarkOf(Body) \in marks /\ MarkOf(Body).sub = t
          BY <1>1, <2>2 DEF Body, MarkOf
        <4> QED BY <4>1 DEF Unmarked, Marked
      <3> QED BY <1>0, <2>2, <3>1 DEF MarkUnderWay, Unprocessed
    <2>3. ASSUME NEW c \in Conn, act[c].step = "notified", act[c].sub = t
          PROVE  MarkUnderWay(t)'
      <3>1. act'[c] = act[c]
        BY <1>1, <1>3, <2>3 DEF SysInv, WorkersInv
      <3> QED BY <2>3, <3>1 DEF MarkUnderWay
    <2> QED BY <1>0, <2>1, <2>2, <2>3 DEF Kept, MarkUnderWay
  <1> QED BY <1>2, <1>4, <1>5, <1>6, <1>7, <1>8, <1>9 DEF SysInv

\* what initialise() makes of a table: a list of its rows without repetition
LEMMA RowsInAnyOrder ==
    ASSUME NEW S, IsFiniteSet(S), NEW p \in Listings(S)
    PROVE  p \in Seq(S) /\ IsInjective(p) /\ Range(p) = S
  <1> DEFINE n == Cardinality(S)
  <1>1. n \in Nat
    BY FS_CardinalityType
  <1>2. p \in [1 .. n -> S] /\ IsInjective(p) /\ \A x \in S : \E i \in 1 .. n : p[i] = x
    BY DEF Listings, Bijection, Injection, Surjection
  <1> HIDE DEF n
  <1>3. p \in Seq(S)
    BY <1>1, <1>2, SMT
  <1>4. Range(p) = S
    BY <1>2 DEF Range
  <1> QED BY <1>2, <1>3, <1>4

\* the server is started again
LEMMA RestartInv ==
    ASSUME SysInv, Restart
    PROVE  SysInv'
  <1>0. /\ crashes' = crashes + 1 /\ queue' \in Listings(Unprocessed)
        /\ enqueued' = Unmarked /\ dismissed' = {}
        /\ live' = {} /\ checking' = FALSE
        /\ handler' = Resting /\ act' = [c \in Conn |-> Idle] /\ unstored' = {}
        /\ UNCHANGED <<now, subs, marks, messages, processed>>
    BY DEF Restart
  <1>1. PICK p \in Listings(Unmarked) :
          pool' = [markers |-> <<>>, problems |-> p,
                   issued |-> [c \in Conn |-> NoSub], issue_times |-> {},
                   issued_at |-> [c \in Conn |-> 0]]
    BY DEF Restart
  <1>2. /\ Unmarked \subseteq subs /\ Unmarked \subseteq Sub /\ IsFiniteSet(Unmarked)
        /\ Unmarked' = Unmarked
    <2>1. Unmarked \subseteq subs
      BY DEF Unmarked
    <2>2. IsFiniteSet(Unmarked)
      BY <2>1, FS_Subset DEF SysInv
    <2> QED BY <1>0, <2>1, <2>2 DEF Unmarked, Marked, SysInv, SysTypeOK
  <1>3. p \in Seq(Sub) /\ IsInjective(p) /\ Range(p) = Unmarked
    <2>1. p \in Seq(Unmarked) /\ IsInjective(p) /\ Range(p) = Unmarked
      BY <1>2, RowsInAnyOrder
    <2> QED BY <1>2, <2>1, SMT
  <1>4. queue' \in Seq(DOMAIN messages)
    <2>1. IsFiniteSet(DOMAIN messages)
      BY LogType, FS_Interval, SMT DEF SysInv
    <2>2. Unprocessed \subseteq DOMAIN messages
      BY DEF Unprocessed
    <2>3. IsFiniteSet(Unprocessed)
      BY <2>1, <2>2, FS_Subset
    <2>4. queue' \in Seq(Unprocessed)
      BY <1>0, <2>3, RowsInAnyOrder
    <2> QED BY <2>2, <2>4, SMT
  <1>5. Inv'
    <2>1. /\ pool'.markers = <<>> /\ pool'.problems = p /\ pool'.issue_times = {}
          /\ pool'.issued = [c \in Conn |-> NoSub]
          /\ pool'.issued_at = [c \in Conn |-> 0]
      BY <1>1
    <2>2. pool' \in Pool
      BY <1>1, <1>3, SMT DEF Pool
    <2>3. Range(pool'.markers) = {} /\ IsInjective(pool'.markers)
      BY <2>1, SMT DEF Range, IsInjective
    <2>4. NoSub \notin Unmarked
      BY <1>2, NoSubAssumption
    <2>5. Sound(pool')
      BY <1>3, <2>1, <2>2, <2>3, <2>4 DEF Sound, Armed
    <2>6. Held(pool') = Unmarked /\ Members(pool') = {}
      BY <1>3, <2>1, <2>3, <2>4, SMT DEF Held, Members
    <2>7. TypeOK'
      BY <1>0, <1>2, <2>2 DEF TypeOK, SysInv, SysTypeOK
    <2> QED BY <1>0, <2>1, <2>5, <2>6, <2>7, PoolStep DEF SysInv, Conserving
  <1>6. act' \in [Conn -> [step : {"idle", "legal", "notified", "waiting"},
                           sub : Sub \cup {NoSub}, result : Verdict \cup {NoVerdict},
                           id : Nat]]
    BY <1>0 DEF Idle
  <1>7. SysTypeOK'
    BY <1>0, <1>4, <1>5, <1>6, SMT DEF SysInv, SysTypeOK, Inv, Resting
  <1>8. IsFiniteSet(subs)' /\ (enqueued \subseteq subs)'
    BY <1>0, <1>2 DEF SysInv
  <1>9. \A c \in Conn : act'[c].step = "idle" /\ act'[c].id = 0
    BY <1>0 DEF Idle
  <1>10. WorkersInv' /\ JobsInv'
    BY <1>9 DEF WorkersInv, JobsInv
  <1>11. HandlerInv'
    BY <1>0 DEF HandlerInv, Resting
  <1>12. (\A t \in Unmarked \ unstored : Kept(t))'
    BY <1>0, <1>2 DEF Kept
  <1> QED BY <1>5, <1>7, <1>8, <1>10, <1>11, <1>12 DEF SysInv

\* SysInv holds when the server is first started, with an empty database
LEMMA SysInitInv == SysInit => SysInv
  <1> SUFFICES ASSUME SysInit PROVE SysInv
    OBVIOUS
  <1>1. Inv
    BY InitInv DEF SysInit
  <1>2. act \in [Conn -> [step : {"idle", "legal", "notified", "waiting"},
                          sub : Sub \cup {NoSub}, result : Verdict \cup {NoVerdict},
                          id : Nat]]
    BY DEF SysInit, Idle
  <1>3. SysTypeOK
    BY <1>1, <1>2, SMT DEF SysInit, SysTypeOK, Inv, Resting
  <1>4. IsFiniteSet(subs) /\ enqueued \subseteq subs
    BY FS_EmptySet DEF SysInit, Init
  <1>5. \A c \in Conn : act[c].step = "idle" /\ act[c].id = 0
    BY DEF SysInit, Idle
  <1>6. WorkersInv /\ JobsInv
    BY <1>5 DEF WorkersInv, JobsInv
  <1>7. HandlerInv
    BY DEF SysInit, HandlerInv, Resting
  <1>8. \A s \in Unmarked \ unstored : Kept(s)
    BY DEF SysInit, Unmarked
  <1> QED BY <1>1, <1>3, <1>4, <1>6, <1>7, <1>8 DEF SysInv

\* every step preserves SysInv
LEMMA SysNextInv == SysInv /\ [SysNext]_sysVars => SysInv'
  <1> SUFFICES ASSUME SysInv, [SysNext]_sysVars PROVE SysInv'
    OBVIOUS
  <1>1. ASSUME UNCHANGED sysVars PROVE SysInv'
    <2>1. UNCHANGED <<vars, storeVars, act, unstored, crashes, pool, live, enqueued, dismissed>>
      BY <1>1 DEF sysVars, vars
    <2>2. Inv'
      BY <2>1, PoolRests DEF SysInv
    <2> QED BY <2>1, <2>2, QuietStep DEF OthersCall, SysInv, WorkersInv
  <1>2. CASE \E c \in Conn : Open(c) \/ Close(c) \/ SubscribeMark(c) \/ Relogin(c)
    BY <1>2, PoolActionsInv
  <1>3. CASE \E c \in Conn : Worker(c)
    BY <1>3, RejectMarkInv, NotifyInv, TriggerInv DEF Worker
  <1>4. CASE \E c \in Conn, s \in Sub, r \in Verdict \cup {NoVerdict} : PlaceMark(c, s, r)
    BY <1>4, PlaceMarkInv
  <1>5. CASE \E s \in Sub : SubmitSolution(s)
    BY <1>5, SubmitSolutionInv
  <1>6. CASE Handler
    BY <1>6, HandlerTakeInv, HandlerEnqueueInv, HandlerFinishInv DEF Handler
  <1>7. CASE PoolThread \/ Clock
    BY <1>7, PoolActionsInv
  <1>8. CASE Restart
    BY <1>8, RestartInv
  <1> QED BY <1>1, <1>2, <1>3, <1>4, <1>5, <1>6, <1>7, <1>8 DEF SysNext

(* SysInv is an invariant of the server: the pool's own invariant, what a  *)
(* worker and the handler have done so far, and that every stored          *)
(* submission is known somewhere.                                          *)
THEOREM MarkingInvariant == SysSpec => []SysInv
  BY SysInitInv, SysNextInv, PTL DEF SysSpec

(* The pool stays consistent in its surroundings and across restarts       *)
(* (SysConsistent): the handler never gives the pool a submission that     *)
(* initialise() has put there already, since putSubmission has failed for  *)
(* it before.                                                              *)
THEOREM MarkingIsConsistent == SysSpec => []SysConsistent
  <1>1. SysInv => OneHome
    BY DEF SysInv, Inv, OneHome, Sound
  <1>2. SysInv => MarkersUsable
    BY DEF SysInv, Inv, MarkersUsable, Sound, Members
  <1>3. SysInv => TimerArmed
    BY DEF SysInv, Inv, TimerArmed, Sound, Armed
  <1>4. SysInv => SysConsistent
    BY <1>1, <1>2, <1>3 DEF SysInv, Inv, PoolConsistent, SysConsistent
  <1> QED BY <1>4, MarkingInvariant, PTL

(* A stored submission without a mark is in the pool, on its way there, or *)
(* its mark is on its way (NoSubmissionForgotten): notifyMarked drops it   *)
(* only for a worker that then logs the mark or records it as unstored,    *)
(* and a restart reads it from the database again.                         *)
THEOREM SubmissionsAreKept == SysSpec => []NoSubmissionForgotten
  <1>1. SysInv => NoSubmissionForgotten
    BY DEF SysInv, Inv, Kept, NoSubmissionForgotten
  <1> QED BY <1>1, MarkingInvariant, PTL

(* A marker never reports a job while another one is issued to it          *)
(* (MarkerNotifiesItsJob): between hasIssued and notifyMarked the timeout  *)
(* thread may take the job, and nothing gives the marker a new one.        *)
THEOREM MarkersNotifyTheirJob == SysSpec => MarkerNotifiesItsJob
  <1>1. SysInv =>
          [\A c \in Conn \ (Admins \cup Judges) :
             act[c].step = "legal" /\ act'[c].step = "notified"
             => pool.issued[c] \in {NoSub, act[c].sub}]_sysVars
    BY DEF SysInv, JobsInv
  <1> QED BY <1>1, MarkingInvariant, PTL DEF MarkerNotifiesItsJob

(* A worker that waits for its mark message goes on only when the mark is  *)
(* in the database (ReplyAfterEffect): the semaphore it waits on is posted *)
(* for its own message, after putMark.                                     *)
THEOREM RepliesFollowTheirEffect == SysSpec => ReplyAfterEffect
  <1>1. ASSUME SysInv, [SysNext]_sysVars, NEW c \in Conn,
               act[c].step = "waiting", act'[c].step = "idle", crashes' = crashes
        PROVE  [sub |-> act[c].sub, by |-> c, result |-> act[c].result] \in marks'
    <2>1. /\ act[c].id \in DOMAIN messages
          /\ messages[act[c].id] = [kind |-> "mark", sub |-> act[c].sub,
                                    by |-> c, result |-> act[c].result]
      BY <1>1 DEF SysInv, WorkersInv
    <2>2. act \in [Conn -> [step : {"idle", "legal", "notified", "waiting"},
                            sub : Sub \cup {NoSub}, result : Verdict \cup {NoVerdict},
                            id : Nat]]
      BY <1>1 DEF SysInv, SysTypeOK
    <2>3. act'[c] # act[c]
      BY <1>1
    <2>4. ASSUME HandlerTake PROVE FALSE
      <3>1. messages[Head(queue)].kind = "submission" /\ act' = Release(Head(queue))
        BY <2>3, <2>4 DEF HandlerTake
      <3>2. act[c].id = Head(queue)
        BY <2>3, <3>1 DEF Release
      <3> QED BY <2>1, <3>1, <3>2, SMT
    <2>5. ASSUME HandlerFinish
          PROVE  [sub |-> act[c].sub, by |-> c, result |-> act[c].result] \in marks'
      <3>1. act[c].id = handler.id
        BY <2>3, <2>5 DEF HandlerFinish, Release
      <3>2. Body.kind = "mark" /\ MarkOf(Body) = [sub |-> act[c].sub, by |-> c,
                                                  result |-> act[c].result]
        BY <2>1, <3>1, SMT DEF Body, MarkOf
      <3>3. MarkOf(Body) \in marks
        BY <1>1, <2>5, <3>2 DEF SysInv, HandlerInv, HandlerFinish
      <3> QED BY <2>5, <3>2, <3>3 DEF HandlerFinish
    <2>6. ASSUME NEW d \in Conn, Worker(d) PROVE FALSE
      <3>1. act[d].step \in {"legal", "notified"}
        BY <2>6 DEF Worker, RejectMark, Notify, Trigger
      <3>2. d # c
        BY <1>1, <3>1
      <3>3. act'[c] = act[c]
        BY <2>2, <2>6, <3>2 DEF Worker, RejectMark, Notify, Trigger
      <3> QED BY <2>3, <3>3
    <2>7. ASSUME NEW d \in Conn, NEW s \in Sub, NEW r \in Verdict \cup {NoVerdict},
                 PlaceMark(d, s, r)
          PROVE  FALSE
      <3>1. d # c
        BY <1>1, <2>7 DEF PlaceMark, IsIdle
      <3>2. act'[c] = act[c]
        BY <2>2, <2>7, <3>1 DEF PlaceMark
      <3> QED BY <2>3, <3>2
    <2>8. ~Restart
      <3>1. crashes \in Nat
        BY <1>1 DEF SysInv, SysTypeOK
      <3> QED BY <1>1, <3>1, SMT DEF Restart
    <2> QED
      BY <1>1, <2>3, <2>4, <2>5, <2>6, <2>7, <2>8
         DEF SysNext, sysVars, Open, Close, SubscribeMark, Relogin, SubmitSolution, Handler,
             HandlerEnqueue, PoolThread, Clock
  <1>2. SysInv /\ [SysNext]_sysVars =>
          [\A c \in Conn :
             act[c].step = "waiting" /\ act'[c].step = "idle" /\ crashes' = crashes
             => [sub |-> act[c].sub, by |-> c, result |-> act[c].result] \in marks']_sysVars
    BY <1>1
  <1> QED BY <1>2, MarkingInvariant, PTL DEF SysSpec, ReplyAfterEffect
=============================================================================
