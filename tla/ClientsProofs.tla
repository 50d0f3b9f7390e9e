--------------------------- MODULE ClientsProofs ---------------------------
(***************************************************************************)
(* Proofs about the client programs on the client library: an answer goes  *)
(* to the call that asked for it, nothing of a connection outlives it, and *)
(* what abacustool tells its user is true; for every set of programs, of   *)
(* jobs and of lists, any number of connections and any interleaving of    *)
(* the threads, the server and the network.                                *)
(***************************************************************************)
EXTENDS Clients, TLAPS

\* Most steps are logic and sets; those that compute name SMT
USE Zenon

-----------------------------------------------------------------------------
(* The inductive invariant, in the parts that its proof takes one by one.  *)

Data == {NoData} \union Nat \union [conn : Nat, job : Jobs]
        \union {numbered(l) : l \in ListsSent \union SubsSent}
Events == {"mark", "close", "updatestandings"}
Actions == {"none", "ok", "err"} \union Events
Requests ==
    {NoReq, "terminated", "auth", "become", "getprobattrs", "mark", "standings", "getusers",
     "getgroups", "getproblems", "adduser", "addgroup", "getproblemtypes",
     "getproblemdescription", "allproblems", "setprobattrs", "startstop",
     "getsubmissionsource", "getsubmissions_for_user", "id_passwd", "getbonus", "setbonus",
     "getlanguages", "submit"}
Blocks == [action : Actions, req : Requests, data : Data]

ShapeInv ==
    /\ ssl \in {"none", "open", "shut"} /\ link \in {"up", "closed", "broken"}
    /\ up \in Seq(Requests) /\ down \in Seq(Blocks)
    /\ \A i \in DOMAIN down : down[i].action # "close"
    /\ response \in Blocks /\ response.action \in {"none", "ok", "err"}
    /\ call \in [at : {"idle", "write", "await", "done"}, req : Requests, res : Blocks]
    /\ rcv \in [at : {"none", "read", "closing", "callback", "ended"}, ev : Blocks]
    /\ ka \in {"none", "wait", "late", "ended"} /\ kill \in BOOLEAN
    /\ eventmap \subseteq Events

(* Of requests and answers there is at most one under way, that of the     *)
(* call that waits: the slot needs no request number.  It holds while the  *)
(* ThreadSSL reads; once it is shut the receiver fills the slot no more.   *)
Answer(b) == b.action \in {"ok", "err"}
Answers == {i \in DOMAIN down : Answer(down[i])}
Own(b) == Answer(b) /\ b.req = call.req
Awaiting == call.at = "await" /\ response = NoBlock

NothingUnderWay == up = <<>> /\ Answers = {} /\ (Awaiting => link # "up")
RequestUnderWay == Awaiting /\ up = <<call.req>> /\ Answers = {}
AnswerUnderWay == Awaiting /\ up = <<>> /\ \E i \in Answers : Answers = {i} /\ Own(down[i])

CallsInv ==
    /\ link # "up" => up = <<>>
    /\ ssl = "none" => link = "closed" /\ down = <<>>
    /\ ssl = "open" => NothingUnderWay \/ RequestUnderWay \/ AnswerUnderWay
    /\ ssl = "open" /\ call.at # "await" => response = NoBlock
    /\ call.at = "await" => response \in {NoBlock, Terminated} \/ Own(response)
    /\ ssl = "open" /\ response # NoBlock => Own(response)
    /\ call.at = "write" => call.res = NoBlock
    /\ call.at = "done" => call.res \in {NoBlock, Terminated} \/ Own(call.res)
    /\ ssl = "open" /\ link = "up" /\ call.at = "done" => Own(call.res)

(* Where main() of the program that is run has got to, and which threads   *)
(* of the connection there are.                                            *)
Pc == IF prog = "markerd" THEN main ELSE tmain

Apart == {"retry", "forget", "connect", "exit"}
Joining == {"joinReceiver", "joinKeepalive"}

ThreadsInv ==
    /\ ssl = "none" <=> Pc \in Apart
    /\ Pc \in Joining => ssl = "shut"
    /\ Pc = "joinKeepalive" => rcv.at = "ended"
    /\ ssl = "none" => rcv.at \in {"none", "ended"} /\ ka \in {"none", "ended"}
    /\ rcv.at \in {"closing", "ended"} => ssl # "open"
    /\ rcv.at = "callback" /\ rcv.ev.action = "close" => ssl # "open"

(* Every job on its way to markerd, or with it, is one of the connection   *)
(* it has; a NULL is there only once that connection is shut.              *)
MainLabels ==
    {"retry", "auth", "register", "register2", "become", "loop", "attrs", "mark", "submit",
     "disconnect", "joinReceiver", "joinKeepalive", "forget"}
Working == {"attrs", "mark", "submit"}

JobsInv ==
    /\ main \in MainLabels
    /\ conn \in Nat /\ queue \in Seq(Data \union {Null})
    /\ main = "retry" => queue = <<>>
    /\ NoStaleWork
    /\ prog # "markerd" => main = "retry"
    /\ prog = "markerd" =>
         /\ ssl # "none" => conn > 0
         /\ \A i \in DOMAIN down : down[i].action = "mark" => down[i].data.conn = conn
         /\ rcv.at = "callback" /\ rcv.ev.action = "mark" => rcv.ev.data.conn = conn
         /\ \A i \in DOMAIN queue : queue[i] # Null => queue[i].conn = conn
         /\ \A i \in DOMAIN queue : queue[i] = Null => ssl = "shut" \/ main = "forget"

(* What abacustool may believe of a block: an "ok" is one the server said, *)
(* standings are not newer than the server's and are not refused.          *)
Info(b) == b.action = "updatestandings" \/ (b.action = "ok" /\ b.req = "standings")
Sound(b) ==
    /\ b.action = "ok" => b.req \in acks
    /\ Info(b) => b.data \in 0 .. version
    /\ b.req = "standings" => b.action = "ok"

SoundInv ==
    /\ version \in Nat
    /\ prog # "markerd" =>
         /\ \A i \in DOMAIN down : Sound(down[i])
         /\ Sound(response) /\ Sound(call.res) /\ Sound(rcv.ev)

(* What a command that runs once has behind it.                            *)
Backed(i) == process(cmd)[i] # "allproblems" => process(cmd)[i] \in acks

ToolLabels ==
    {"connect", "exit", "auth", "call", "registerClose", "registerUpdate", "standings", "waiting",
     "disconnect", "joinReceiver", "joinKeepalive"}

CommandInv ==
    /\ prog = "markerd" => cmd = "none" /\ tmain = "connect"
    /\ prog # "markerd" => cmd \in ToolCommands
    /\ tmain \in ToolLabels /\ status \in {-1, 0, 1} /\ step \in 1 .. 5
    /\ cmd \in {"standings", "none"} => status = -1
    /\ tmain = "call" => OneShot
    /\ OneShot => /\ step \in 1 .. Len(process(cmd))
                  /\ cmd # "getbonus" => \A i \in 1 .. step - 1 : Backed(i)
    /\ StatusTruthful

(* What brings standings to the watcher, in the order it arrives: blocks   *)
(* under way, the update in the callback, the answer.                      *)
Infos == {i \in DOMAIN down : Info(down[i])}
Newest(i) == i \in Infos /\ \A j \in Infos : j <= i
Updating == rcv.at = "callback" /\ rcv.ev.action = "updatestandings"

(* The answer to the watcher's request has left the server, on a           *)
(* connection that lives.                                                  *)
Informed ==
    /\ ssl = "open" /\ link = "up"
    /\ \/ tmain = "waiting"
       \/ tmain = "standings" /\ call.at = "await" /\ up = <<>>
       \/ tmain = "standings" /\ call.at = "done"

(* The newest of what was sent is what the server has.                     *)
Fresh ==
    /\ \A i \in Infos : Newest(i) => down[i].data = version
    /\ Infos = {} =>
         \/ Updating /\ rcv.ev.data = version
         \/ ~Updating /\ call.at = "await" /\ response.data = version
         \/ ~Updating /\ call.at = "done" /\ call.res.data = version
         \/ ~Updating /\ call.at = "idle" /\ shown = version

Registering == {"registerClose", "registerUpdate", "standings"}

WatchInv ==
    /\ runlock \in {"free", "main"} /\ closed \in BOOLEAN /\ woken \in BOOLEAN
    /\ shown \in 0 .. version /\ file \in 0 .. version
    /\ prog # "markerd" /\ call.at # "idle" =>
         /\ tmain \in {"auth", "call", "standings"}
         /\ tmain = "standings" => call.req = "standings"
    /\ tmain \in Registering \union {"waiting"} => Watching
    /\ tmain \in Registering \union {"auth"} /\ Watching => runlock = "main"
    /\ tmain \in {"standings", "waiting"} => "updatestandings" \in eventmap
    /\ tmain = "waiting" => file = shown \/ woken
    /\ Informed => Fresh

ClientsInv == ShapeInv /\ CallsInv /\ ThreadsInv /\ JobsInv /\ SoundInv /\ CommandInv /\ WatchInv

-----------------------------------------------------------------------------
(* Sequences: what Append and Tail leave of the blocks under way.          *)

(* A block put at the end of what is under way.                            *)
LEMMA AppendFacts ==
    ASSUME NEW S, NEW s \in Seq(S), NEW b \in S
    PROVE  /\ Append(s, b) \in Seq(S)
           /\ DOMAIN Append(s, b) = 1 .. Len(s) + 1
           /\ DOMAIN s = 1 .. Len(s) /\ Len(s) \in Nat
           /\ \A i \in 1 .. Len(s) : Append(s, b)[i] = s[i]
           /\ Append(s, b)[Len(s) + 1] = b
    BY SMT

\* Two blocks put at the end of one stream are the same if the streams are.
LEMMA AppendInjective ==
    ASSUME NEW S, NEW s \in Seq(S), NEW b \in S, NEW c \in S, Append(s, b) = Append(s, c)
    PROVE  b = c
  <1>1. Append(s, b)[Len(s) + 1] = b /\ Append(s, c)[Len(s) + 1] = c
    BY SMT
  <1> QED
    BY <1>1

(* The first block taken from what is under way.                           *)
LEMMA TailFacts ==
    ASSUME NEW S, NEW s \in Seq(S), s # <<>>
    PROVE  /\ Head(s) = s[1] /\ Head(s) \in S /\ 1 \in DOMAIN s
           /\ Tail(s) \in Seq(S)
           /\ DOMAIN Tail(s) = 1 .. Len(s) - 1
           /\ DOMAIN s = 1 .. Len(s) /\ Len(s) \in Nat \ {0}
           /\ \A i \in 1 .. Len(s) - 1 : Tail(s)[i] = s[i + 1]
    BY SMT

-----------------------------------------------------------------------------
(* A step of a client program is, for the library, one of these.           *)
LiveStep ==
    \/ \E req \in Requests : sendMB(req)
    \/ WriteFails \/ writeToSSL \/ TakeResponse \/ (call.at = "done" /\ Reply)
    \/ \E ev \in Events : registerEventCallback(ev)
    \/ receive_thread \/ ReceiverEnds \/ ReceiverTells \/ CallbackReturns
    \/ KeepaliveTimesOut \/ KeepaliveSevers \/ KeepaliveKilled
    \/ \E a \in {"ok", "err"}, d \in Data : ServerAnswers(a, d)
    \/ \E e \in {"mark", "updatestandings"}, d \in Data : ServerSends(e, d)
    \/ ServerCloses \/ LinkBreaks
    \/ UNCHANGED connVars

ConnStep == connect \/ disconnect \/ JoinReceiver \/ JoinKeepalive \/ LiveStep

(* The blocks the library makes up are blocks.                             *)
LEMMA MadeUpBlocks ==
    /\ NoBlock \in Blocks /\ Terminated \in Blocks /\ NoBlock # Terminated /\ NoReq \in Requests
    /\ ~Answer(NoBlock) /\ Answer(Terminated)
    /\ Block("close", NoReq, NoData) \in Blocks
    /\ {"none", "ok", "err", "mark", "close", "updatestandings"} \subseteq Actions
    /\ \A a \in Actions, r \in Requests, d \in Data : Block(a, r, d) \in Blocks
    /\ Idle \in [at : {"idle", "write", "await", "done"}, req : Requests, res : Blocks]
  <1>1. NoData \in Data
    BY DEF Data
  <1>2. \A a \in Actions, r \in Requests, d \in Data : Block(a, r, d) \in Blocks
    BY DEF Block, Blocks
  <1>3. NoReq \in Requests /\ "terminated" \in Requests
    BY DEF Requests
  <1>4. {"none", "ok", "err", "mark", "close", "updatestandings"} \subseteq Actions
    BY DEF Actions, Events
  <1>5. NoBlock \in Blocks /\ Terminated \in Blocks /\ Block("close", NoReq, NoData) \in Blocks
    BY <1>1, <1>2, <1>3, <1>4 DEF NoBlock, Terminated
  <1>6. NoBlock # Terminated /\ ~Answer(NoBlock) /\ Answer(Terminated)
    BY DEF NoBlock, Terminated, Block, Answer
  <1>7. Idle \in [at : {"idle", "write", "await", "done"}, req : Requests, res : Blocks]
    BY <1>3, <1>5 DEF Idle
  <1> QED
    BY <1>2, <1>3, <1>4, <1>5, <1>6, <1>7

(* Every step keeps the shape of the connection's state.                   *)
LEMMA ShapeStep == ShapeInv /\ ConnStep => ShapeInv'
  <1> SUFFICES ASSUME ShapeInv, ConnStep PROVE ShapeInv'
    OBVIOUS
  <1> USE MadeUpBlocks DEF ShapeInv
  <1>0. <<>> \in Seq(Requests) /\ <<>> \in Seq(Blocks) /\ NoBlock.action = "none"
    BY SMT DEF NoBlock, Block
  <1>1. CASE connect
    <2>1. Thread("read", NoBlock) \in
              [at : {"none", "read", "closing", "callback", "ended"}, ev : Blocks]
      BY DEF Thread
    <2>2. up' = <<>> /\ down' = <<>> /\ DOMAIN down' = {}
      BY <1>1, SMT DEF connect
    <2>3. /\ response' = NoBlock /\ call' = Idle /\ rcv' = Thread("read", NoBlock)
          /\ ssl' = "open" /\ link' = "up" /\ ka' = "wait" /\ kill' = FALSE /\ eventmap' = {}
      BY <1>1 DEF connect
    <2> QED
      BY <1>0, <2>1, <2>2, <2>3
  <1>2a. CASE disconnect \/ JoinReceiver
    BY <1>2a DEF disconnect, JoinReceiver, sslShutdown
  <1>2. CASE JoinKeepalive
    BY <1>0, <1>2, SMT DEF JoinKeepalive
  <1>3. ASSUME NEW req \in Requests, sendMB(req) PROVE ShapeInv'
    <2>1. response'.action = "none"
      BY <1>3 DEF sendMB, NoBlock, Block
    <2> QED
      BY <1>3, <2>1 DEF sendMB
  <1>4. CASE WriteFails
    BY <1>4 DEF WriteFails
  <1>5. CASE writeToSSL
    <2>1. up' \in Seq(Requests)
      BY <1>5, AppendFacts DEF writeToSSL
    <2> QED
      BY <1>5, <2>1 DEF writeToSSL
  <1>6. CASE TakeResponse
    BY <1>6 DEF TakeResponse, NoBlock, Block
  <1>7. CASE call.at = "done" /\ Reply
    BY <1>7, SMT DEF Reply
  <1>8. ASSUME NEW ev \in Events, registerEventCallback(ev) PROVE ShapeInv'
    BY <1>8, SMT DEF registerEventCallback
  <1>9. CASE receive_thread
    <2>1. Head(down) \in Blocks /\ down' \in Seq(Blocks)
      BY <1>9, TailFacts DEF receive_thread
    <2>1a. \A i \in DOMAIN down' : down'[i].action # "close"
      BY <1>9, TailFacts, SMT DEF receive_thread
    <2> DEFINE b == Head(down)
    <2>2. CASE Answer(b)
      BY <1>9, <2>1, <2>1a, <2>2 DEF receive_thread, processMB, Answer
    <2>3. CASE ~Answer(b)
      BY <1>9, <2>1, <2>1a, <2>3, SMT DEF receive_thread, processMB, Answer, Thread
    <2> QED
      BY <2>2, <2>3
  <1>10. CASE ReceiverEnds
    BY <1>10 DEF ReceiverEnds, startShutdown, sslShutdown, Terminated, Block, Thread
  <1>11. CASE ReceiverTells
    BY <1>11 DEF ReceiverTells, Thread
  <1>12. CASE CallbackReturns
    BY <1>12 DEF CallbackReturns, Thread
  <1>13. CASE KeepaliveTimesOut \/ KeepaliveKilled
    BY <1>13 DEF KeepaliveTimesOut, KeepaliveKilled
  <1>14. CASE KeepaliveSevers
    BY <1>14 DEF KeepaliveSevers, startShutdown, sslShutdown, Terminated, Block
  <1>15. ASSUME NEW a \in {"ok", "err"}, NEW d \in Data, ServerAnswers(a, d) PROVE ShapeInv'
    <2>1. Head(up) \in Requests /\ up' \in Seq(Requests)
      BY <1>15, TailFacts DEF ServerAnswers
    <2>2. Block(a, Head(up), d) \in Blocks
      BY <2>1
    <2>3. down' \in Seq(Blocks) /\ \A i \in DOMAIN down' : down'[i].action # "close"
      BY <1>15, <2>2, AppendFacts, SMT DEF ServerAnswers, Block
    <2> QED
      BY <1>15, <2>1, <2>3 DEF ServerAnswers
  <1>16. ASSUME NEW e \in {"mark", "updatestandings"}, NEW d \in Data, ServerSends(e, d)
         PROVE  ShapeInv'
    <2>1. Block(e, NoReq, d) \in Blocks
      OBVIOUS
    <2>2. down' \in Seq(Blocks) /\ \A i \in DOMAIN down' : down'[i].action # "close"
      BY <1>16, <2>1, AppendFacts, SMT DEF ServerSends, Block
    <2> QED
      BY <1>16, <2>2 DEF ServerSends
  <1>17. CASE ServerCloses
    BY <1>0, <1>17 DEF ServerCloses
  <1>18. CASE LinkBreaks
    BY <1>0, <1>18, SMT DEF LinkBreaks
  <1>19. CASE UNCHANGED connVars
    BY <1>19, SMT DEF connVars
  <1> QED
    BY <1>1, <1>2a, <1>2, <1>3, <1>4, <1>5, <1>6, <1>7, <1>8, <1>9, <1>10, <1>11, <1>12, <1>13,
       <1>14, <1>15, <1>16, <1>17, <1>18, <1>19 DEF ConnStep, LiveStep

-----------------------------------------------------------------------------
(* Answers under way when the server sends a block.                        *)
LEMMA AnswersAppend ==
    ASSUME down \in Seq(Blocks), NEW b \in Blocks, down' = Append(down, b)
    PROVE  /\ ~Answer(b) => Answers' = Answers
           /\ Answer(b) /\ Answers = {} => Answers' = {Len(down) + 1}
           /\ \A i \in Answers : down'[i] = down[i]
           /\ down'[Len(down) + 1] = b
  <1>1. /\ DOMAIN down' = 1 .. Len(down) + 1 /\ DOMAIN down = 1 .. Len(down) /\ Len(down) \in Nat
        /\ \A i \in 1 .. Len(down) : down'[i] = down[i]
        /\ down'[Len(down) + 1] = b
    BY AppendFacts, SMT
  <1>2. \A i \in DOMAIN down' : i \in Answers' <=> i \in Answers \/ (i = Len(down) + 1 /\ Answer(b))
    BY <1>1, SMT DEF Answers, Answer
  <1>3. Answers' \subseteq DOMAIN down' /\ Answers \subseteq DOMAIN down'
    BY <1>1, SMT DEF Answers
  <1> QED
    BY <1>1, <1>2, <1>3, SMT DEF Answers

(* Answers under way when the receiver reads a block.                      *)
LEMMA AnswersTail ==
    ASSUME down \in Seq(Blocks), down # <<>>, down' = Tail(down)
    PROVE  /\ Answer(Head(down)) <=> 1 \in Answers
           /\ Answers = {} => Answers' = {}
           /\ Answers = {1} => Answers' = {}
           /\ \A i \in Answers : i # 1 /\ Answers = {i} => Answers' = {i - 1} /\ down'[i - 1] = down[i]
  <1>1. /\ Head(down) = down[1] /\ 1 \in DOMAIN down
        /\ DOMAIN down' = 1 .. Len(down) - 1
        /\ DOMAIN down = 1 .. Len(down) /\ Len(down) \in Nat \ {0}
        /\ \A i \in 1 .. Len(down) - 1 : down'[i] = down[i + 1]
    BY TailFacts
  <1>2. \A i \in DOMAIN down' : i \in Answers' <=> i + 1 \in Answers
    BY <1>1, SMT DEF Answers, Answer
  <1>3. Answers' \subseteq DOMAIN down' /\ Answers \subseteq DOMAIN down
    BY DEF Answers
  <1>4. Answer(Head(down)) <=> 1 \in Answers
    BY <1>1 DEF Answers
  <1>5. ASSUME NEW i \in Answers, i # 1, Answers = {i} PROVE Answers' = {i - 1} /\ down'[i - 1] = down[i]
    <2>1. i - 1 \in DOMAIN down' /\ i = (i - 1) + 1
      BY <1>1, <1>3, <1>5, SMT
    <2>2. \A j \in DOMAIN down' : j \in Answers' <=> j = i - 1
      BY <1>1, <1>2, <1>5, <2>1, SMT
    <2> QED
      BY <1>1, <1>3, <2>1, <2>2
  <1>6. Answers = {} \/ Answers = {1} => Answers' = {}
    BY <1>1, <1>2, <1>3, SMT
  <1> QED
    BY <1>4, <1>5, <1>6

(* Every step keeps at most one request or answer under way, the present   *)
(* call's.                                                                 *)
LEMMA CallsStep == ShapeInv /\ CallsInv /\ ConnStep => CallsInv'
  <1> SUFFICES ASSUME ShapeInv, CallsInv, ConnStep PROVE CallsInv'
    OBVIOUS
  <1>0. NoBlock # Terminated /\ ~Answer(NoBlock) /\ Answer(Terminated)
    BY MadeUpBlocks
  <1>1. CASE connect
    BY <1>0, <1>1, SMT DEF CallsInv, connect, NothingUnderWay, Answers, Awaiting, Idle
  <1>2. CASE disconnect
    BY <1>2 DEF ShapeInv, CallsInv, disconnect, sslShutdown, Own
  <1>3. CASE JoinReceiver
    BY <1>3 DEF CallsInv, JoinReceiver, NothingUnderWay, RequestUnderWay, AnswerUnderWay, Awaiting,
                Answers, Own
  <1>4. CASE JoinKeepalive
    BY <1>4 DEF ShapeInv, CallsInv, JoinKeepalive, Own
  <1>5. ASSUME NEW req \in Requests, sendMB(req) PROVE CallsInv'
    <2>1. ssl = "open" => NothingUnderWay
      BY <1>5 DEF CallsInv, sendMB, RequestUnderWay, AnswerUnderWay, Awaiting
    <2>2. call'.at = "write" /\ call'.res = NoBlock /\ response' = NoBlock /\ UNCHANGED <<ssl, link, up, down>>
      BY <1>5 DEF sendMB
    <2>3. NothingUnderWay => NothingUnderWay'
      BY <2>2 DEF NothingUnderWay, Awaiting, Answers
    <2> QED
      BY <2>1, <2>2, <2>3 DEF CallsInv
  <1>6. CASE WriteFails
    <2>1. ssl = "open" => NothingUnderWay
      BY <1>6 DEF CallsInv, WriteFails, RequestUnderWay, AnswerUnderWay, Awaiting
    <2> QED
      BY <1>6, <2>1 DEF ShapeInv, CallsInv, WriteFails, NothingUnderWay, Awaiting, Answers
  <1>7. CASE writeToSSL
    <2>1. NothingUnderWay /\ response = NoBlock
      BY <1>7 DEF CallsInv, writeToSSL, RequestUnderWay, AnswerUnderWay, Awaiting
    <2>2. call'.at = "await" /\ call'.req = call.req /\ call'.res = call.res
      BY <1>7 DEF ShapeInv, writeToSSL
    <2>3. CASE link = "up"
      <3>1. up' = <<call'.req>>
        BY <1>7, <2>1, <2>2, <2>3, SMT DEF writeToSSL, NothingUnderWay
      <3> QED
        BY <1>7, <2>1, <2>2, <2>3, <3>1
        DEF CallsInv, writeToSSL, RequestUnderWay, NothingUnderWay, Awaiting, Answers
    <2>4. CASE link # "up"
      BY <1>7, <2>1, <2>2, <2>4 DEF CallsInv, writeToSSL, NothingUnderWay, Awaiting, Answers
    <2> QED
      BY <2>3, <2>4
  <1>8. CASE TakeResponse
    <2>1. ssl = "open" => NothingUnderWay /\ Own(response)
      BY <1>8 DEF CallsInv, TakeResponse, RequestUnderWay, AnswerUnderWay, Awaiting
    <2>2. call'.at = "done" /\ call'.req = call.req /\ call'.res = response
      BY <1>8 DEF ShapeInv, TakeResponse
    <2> QED
      BY <1>8, <2>1, <2>2 DEF CallsInv, TakeResponse, NothingUnderWay, Awaiting, Answers, Own
  <1>9. CASE call.at = "done" /\ Reply
    <2>1. ssl = "open" => NothingUnderWay
      BY <1>9 DEF CallsInv, RequestUnderWay, AnswerUnderWay, Awaiting
    <2> QED
      BY <1>9, <2>1 DEF CallsInv, Reply, NothingUnderWay, Awaiting, Answers, Idle
  <1>10. ASSUME NEW ev \in Events, registerEventCallback(ev) PROVE CallsInv'
    BY <1>10 DEF CallsInv, registerEventCallback, NothingUnderWay, RequestUnderWay, AnswerUnderWay,
                 Awaiting, Answers, Own
  <1>11. CASE receive_thread
    <2> DEFINE b == Head(down)
    <2>1. /\ Answer(b) <=> 1 \in Answers
          /\ Answers = {} => Answers' = {}
          /\ Answers = {1} => Answers' = {}
          /\ \A i \in Answers : i # 1 /\ Answers = {i} => Answers' = {i - 1} /\ down'[i - 1] = down[i]
          /\ b = down[1]
      BY <1>11, AnswersTail, TailFacts DEF ShapeInv, receive_thread
    <2>2. ssl = "open" /\ ssl' = "open" /\ UNCHANGED <<link, up, call>>
      BY <1>11 DEF receive_thread, processMB
    <2>3. CASE Answer(b)
      <3>1. AnswerUnderWay
        BY <2>1, <2>2, <2>3 DEF CallsInv, NothingUnderWay, RequestUnderWay
      <3>2. Answers = {1} /\ Own(b) /\ Awaiting /\ up = <<>>
        BY <2>1, <2>3, <3>1 DEF AnswerUnderWay
      <3>3. response' = b /\ b # NoBlock
        BY <1>0, <1>11, <2>3, <3>2 DEF receive_thread, processMB, Answer, Awaiting
      <3>4. NothingUnderWay' /\ Own(response)'
        BY <2>1, <2>2, <3>2, <3>3 DEF NothingUnderWay, Awaiting, Own, Answer
      <3> QED
        BY <2>2, <3>2, <3>3, <3>4 DEF CallsInv, Awaiting
    <2>4. CASE ~Answer(b)
      <3>1. response' = response
        BY <1>11, <2>4 DEF receive_thread, processMB, Answer
      <3>2. (NothingUnderWay => NothingUnderWay') /\ (RequestUnderWay => RequestUnderWay')
        BY <2>1, <2>2, <3>1 DEF NothingUnderWay, RequestUnderWay, Awaiting
      <3>3. ASSUME AnswerUnderWay PROVE AnswerUnderWay'
        <4>1. PICK i \in Answers : Answers = {i} /\ Own(down[i])
          BY <3>3 DEF AnswerUnderWay
        <4>2. i # 1
          BY <2>1, <2>4
        <4>3. Answers' = {i - 1} /\ Own(down[i - 1])'
          BY <2>1, <2>2, <4>1, <4>2 DEF Own, Answer
        <4> QED
          BY <2>2, <3>1, <3>3, <4>3 DEF AnswerUnderWay, Awaiting
      <3> QED
        BY <2>2, <3>1, <3>2, <3>3 DEF CallsInv, Own, Answer
    <2> QED
      BY <2>3, <2>4
  <1>12. ASSUME startShutdown, UNCHANGED <<link, up, down, call>> PROVE CallsInv'
    BY <1>0, <1>12 DEF CallsInv, startShutdown, sslShutdown, Own
  <1>13. CASE ReceiverEnds \/ KeepaliveSevers
    BY <1>12, <1>13 DEF ReceiverEnds, KeepaliveSevers
  <1>14. CASE ReceiverTells \/ CallbackReturns
    BY <1>14 DEF CallsInv, ReceiverTells, CallbackReturns, NothingUnderWay, RequestUnderWay,
                 AnswerUnderWay, Awaiting, Answers, Own
  <1>15. CASE KeepaliveTimesOut \/ KeepaliveKilled
    BY <1>15 DEF CallsInv, KeepaliveTimesOut, KeepaliveKilled, NothingUnderWay, RequestUnderWay,
                 AnswerUnderWay, Awaiting, Answers, Own
  <1>16. ASSUME NEW a \in {"ok", "err"}, NEW d \in Data, ServerAnswers(a, d) PROVE CallsInv'
    <2> DEFINE b == Block(a, Head(up), d)
    <2>1. b \in Blocks /\ Answer(b) /\ b.req = Head(up)
      BY <1>16, TailFacts, MadeUpBlocks DEF ShapeInv, ServerAnswers, Block, Answer
    <2>2. UNCHANGED <<ssl, link, response, call>> /\ link = "up" /\ up # <<>>
      BY <1>16 DEF ServerAnswers
    <2>3. ASSUME ssl = "open" PROVE AnswerUnderWay'
      <3>1. RequestUnderWay
        BY <2>2, <2>3 DEF CallsInv, NothingUnderWay, AnswerUnderWay
      <3>2. Head(up) = call.req /\ up' = <<>>
        BY <1>16, <3>1, SMT DEF RequestUnderWay, ServerAnswers
      <3>3. Answers' = {Len(down) + 1} /\ down'[Len(down) + 1] = b
        BY <1>16, <2>1, <3>1, AnswersAppend DEF ServerAnswers, RequestUnderWay, ShapeInv
      <3> QED
        BY <2>1, <2>2, <3>1, <3>2, <3>3 DEF AnswerUnderWay, RequestUnderWay, Awaiting, Own, Answer
    <2> QED
      BY <2>2, <2>3 DEF CallsInv, Own
  <1>17. ASSUME NEW e \in {"mark", "updatestandings"}, NEW d \in Data, ServerSends(e, d)
         PROVE  CallsInv'
    <2>1. Block(e, NoReq, d) \in Blocks /\ ~Answer(Block(e, NoReq, d))
      BY MadeUpBlocks DEF Block, Answer
    <2>2. Answers' = Answers /\ \A i \in Answers : down'[i] = down[i]
      BY <1>17, <2>1, AnswersAppend DEF ServerSends, ShapeInv
    <2> QED
      BY <1>17, <2>2 DEF CallsInv, ServerSends, NothingUnderWay, RequestUnderWay, AnswerUnderWay,
                         Awaiting, Own
  <1>18. CASE ServerCloses
    BY <1>18 DEF ServerCloses, CallsInv, NothingUnderWay, RequestUnderWay, AnswerUnderWay,
                 Awaiting, Answers, Own
  <1>19. CASE LinkBreaks
    BY <1>19, SMT DEF LinkBreaks, CallsInv, NothingUnderWay, RequestUnderWay, AnswerUnderWay,
                 Awaiting, Answers, Own
  <1>20. CASE UNCHANGED connVars
    BY <1>20 DEF connVars, CallsInv, NothingUnderWay, RequestUnderWay, AnswerUnderWay,
                 Awaiting, Answers, Own
  <1> QED
    BY <1>1, <1>2, <1>3, <1>4, <1>5, <1>6, <1>7, <1>8, <1>9, <1>10, <1>11, <1>13, <1>14, <1>15,
       <1>16, <1>17, <1>18, <1>19, <1>20 DEF ConnStep, LiveStep

-----------------------------------------------------------------------------
(* The calls of a command that runs once (process) are requests, at most   *)
(* five.                                                                   *)
LEMMA CommandCallsAreRequests ==
    \A c \in ToolCommands \ {"standings"} :
        process(c) \in Seq(Requests) /\ Len(process(c)) \in 1 .. 5
  <1>1. {findUser, findGroup, findProblem, "adduser", "addgroup", "getproblemtypes",
         "getproblemdescription", "allproblems", "setprobattrs", "startstop",
         "getsubmissionsource", "getsubmissions_for_user", "id_passwd", "getbonus", "setbonus",
         "getlanguages", "submit"} \subseteq Requests
    BY DEF Requests, findUser, findGroup, findProblem
  <1> DEFINE Good(s) == s \in Seq(Requests) /\ Len(s) \in 1 .. 5
  <1>2. Good(do_adduser) /\ Good(do_addgroup) /\ Good(do_addtime) /\ Good(do_setpass)
    BY <1>1, SMT DEF do_adduser, do_addgroup, do_addtime, do_setpass
  <1>3. Good(do_getbonus) /\ Good(do_setbonus) /\ Good(do_submit) /\ Good(do_getsource)
    BY <1>1, SMT DEF do_getbonus, do_setbonus, do_submit, do_getsource
  <1>4. Good(do_add_or_replace_problem)
    BY <1>1, SMT DEF do_add_or_replace_problem
  <1>5. Good(do_replaceproblem)
    BY <1>1, SMT DEF do_replaceproblem, do_add_or_replace_problem
  <1>6. Good(do_getlatestsource)
    BY <1>1, SMT DEF do_getlatestsource, do_getsource
  <1>7. \A c \in ToolCommands \ {"standings"} :
          process(c) \in {do_adduser, do_addgroup, do_add_or_replace_problem, do_replaceproblem,
                          do_addtime, do_setpass, do_getbonus, do_setbonus, do_getsource,
                          do_getlatestsource, do_submit}
    BY DEF ToolCommands, process
  <1> HIDE DEF Good
  <1>8. \A c \in ToolCommands \ {"standings"} : Good(process(c))
    BY <1>2, <1>3, <1>4, <1>5, <1>6, <1>7
  <1> QED
    BY <1>8 DEF Good

-----------------------------------------------------------------------------
(* The library's threads while main() stays where it is, or goes on with   *)
(* the same connection.                                                    *)
SameConnection == Pc' = Pc \/ {Pc, Pc'} \intersect (Apart \union Joining) = {}

\* The threads of a connection stay as they are while the program neither
\* makes nor drops the connection.
LEMMA ThreadsLive == ShapeInv /\ ThreadsInv /\ LiveStep /\ SameConnection => ThreadsInv'
  <1> SUFFICES ASSUME ShapeInv, ThreadsInv, LiveStep, SameConnection PROVE ThreadsInv'
    OBVIOUS
  <1> DEFINE Threads == <<ssl, rcv, ka>>
  <1>1. ASSUME UNCHANGED Threads PROVE ThreadsInv'
    BY <1>1 DEF ThreadsInv, SameConnection, Apart, Joining
  <1>2. CASE receive_thread
    <2>1. Head(down).action # "close"
      BY <1>2, TailFacts, SMT DEF ShapeInv, receive_thread
    <2>2. rcv.at = "read" /\ ssl = "open" /\ UNCHANGED <<ssl, ka>>
      BY <1>2 DEF receive_thread, processMB
    <2>3. rcv' = rcv \/ rcv' = Thread("callback", Head(down))
      BY <1>2 DEF receive_thread, processMB
    <2>4. Thread("callback", Head(down)).at = "callback" /\ Thread("callback", Head(down)).ev = Head(down)
      BY DEF Thread
    <2> HIDE DEF Threads
    <2> QED
      BY <1>1, <2>1, <2>2, <2>3, <2>4 DEF ThreadsInv, SameConnection, Apart, Joining, Threads
  <1>3. CASE ReceiverEnds
    BY <1>3 DEF ShapeInv, ThreadsInv, SameConnection, Apart, Joining, ReceiverEnds, startShutdown,
                sslShutdown, Thread
  <1>4. CASE ReceiverTells
    BY <1>4 DEF ShapeInv, ThreadsInv, SameConnection, Apart, Joining, ReceiverTells, Thread
  <1>5. CASE CallbackReturns
    BY <1>5 DEF ShapeInv, ThreadsInv, SameConnection, Apart, Joining, CallbackReturns, Thread
  <1>6. CASE KeepaliveSevers
    BY <1>6 DEF ShapeInv, ThreadsInv, SameConnection, Apart, Joining, KeepaliveSevers, startShutdown,
                sslShutdown
  <1>7. CASE KeepaliveTimesOut \/ KeepaliveKilled
    BY <1>7 DEF ShapeInv, ThreadsInv, SameConnection, Apart, Joining, KeepaliveTimesOut, KeepaliveKilled
  <1>8. (\E req \in Requests : sendMB(req)) \/ WriteFails \/ writeToSSL \/ TakeResponse \/ Reply
        => UNCHANGED Threads
    BY DEF sendMB, WriteFails, writeToSSL, TakeResponse, Reply
  <1>9. (\E ev \in Events : registerEventCallback(ev)) => UNCHANGED Threads
    BY DEF registerEventCallback
  <1>10. \/ \E a \in {"ok", "err"}, d \in Data : ServerAnswers(a, d)
         \/ \E e \in {"mark", "updatestandings"}, d \in Data : ServerSends(e, d)
         \/ ServerCloses \/ LinkBreaks \/ UNCHANGED connVars
         => UNCHANGED Threads
    BY DEF ServerAnswers, ServerSends, ServerCloses, LinkBreaks, connVars
  <1> QED
    BY <1>1, <1>2, <1>3, <1>4, <1>5, <1>6, <1>7, <1>8, <1>9, <1>10 DEF LiveStep

(* main() connects, and takes the connection down.                         *)
LEMMA ThreadsConnect ==
    ShapeInv /\ ThreadsInv /\ connect /\ Pc' \notin Apart \union Joining => ThreadsInv'
  BY SMT DEF ThreadsInv, connect, Thread, Apart, Joining

\* ServerConnection::disconnect shuts the SSL down before it joins the threads.
LEMMA ThreadsDisconnect ==
    ShapeInv /\ ThreadsInv /\ disconnect /\ Pc' = "joinReceiver" => ThreadsInv'
  BY DEF ThreadsInv, disconnect, sslShutdown, Apart, Joining

\* It then joins the receiver and the keepalive thread, and deletes the SSL
\* after both.
LEMMA ThreadsJoin ==
    /\ ShapeInv /\ ThreadsInv
    /\ \/ Pc = "joinReceiver" /\ JoinReceiver /\ Pc' = "joinKeepalive"
       \/ Pc = "joinKeepalive" /\ JoinKeepalive /\ Pc' \in Apart
    => ThreadsInv'
  BY DEF ThreadsInv, JoinReceiver, JoinKeepalive, Apart, Joining

-----------------------------------------------------------------------------
(* Nothing happens to the program that is not run.                         *)
LEMMA MarkerdRests ==
    prog # "markerd" /\ UNCHANGED <<markerdVars, prog>> /\ JobsInv => JobsInv'
  BY DEF markerdVars, JobsInv, NoStaleWork

\* Nor does anything happen to abacustool while markerd runs.
LEMMA ToolRests ==
    prog = "markerd" /\ UNCHANGED <<toolVars, prog>> /\ SoundInv /\ CommandInv /\ WatchInv
        => SoundInv' /\ CommandInv' /\ WatchInv'
  BY DEF toolVars, SoundInv, CommandInv, WatchInv, Registering, OneShot, StatusTruthful, Informed

-----------------------------------------------------------------------------
(* markerd: main() moves on, or a thread of the library does, and the jobs *)
(* stay where they are.                                                    *)
LEMMA JobsStay ==
    ASSUME JobsInv, prog = "markerd", UNCHANGED <<prog, queue, mr, conn, down, rcv>>,
           ssl' = ssl \/ (ssl # "none" /\ ssl' = "shut"),
           main' = main \/ (main' \in MainLabels \ {"retry"} /\ main # "forget"),
           main' \in Working => main \in Working
    PROVE  JobsInv'
  BY DEF JobsInv, NoStaleWork, Working

(* A request of main() is sent, or has returned.                           *)
LEMMA MarkerdAsks ==
    ASSUME ShapeInv, ThreadsInv, JobsInv, prog = "markerd", UNCHANGED prog,
           NEW label \in MainLabels \ (Apart \union Joining), NEW req \in Requests,
           NEW ok, NEW yes \in {"register", "loop", "mark"}, yes = "mark" => label = "attrs",
           Ask(label, req) \/ Answered(label, req, ok, yes, "disconnect")
    PROVE  LiveStep /\ ThreadsInv' /\ JobsInv'
  <1> DEFINE A == Answered(label, req, ok, yes, "disconnect")
  <1>1. LiveStep /\ UNCHANGED <<queue, mr, conn, down, rcv, ssl>>
    <2>1. CASE Ask(label, req)
      BY <2>1 DEF Ask, LiveStep, sendMB, markerdVars
    <2>2. CASE A
      BY <2>2 DEF Answered, Returned, Reply, LiveStep, Goto
    <2> QED
      BY <2>1, <2>2
  <1>2. main = label /\ main' \in {label, yes, "disconnect"}
    BY DEF Ask, Answered, Goto, markerdVars
  <1>3. {label, yes, "disconnect"} \subseteq MainLabels \ (Apart \union Joining)
    BY DEF MainLabels, Apart, Joining
  <1>4. SameConnection
    BY <1>2, <1>3 DEF SameConnection, Pc
  <1>5. JobsInv'
    <2>1. main' \in MainLabels \ {"retry"} /\ main # "forget"
      BY <1>2, <1>3 DEF Apart
    <2>2. main' \in Working => main \in Working
      BY <1>2 DEF Working
    <2> QED
      BY <1>1, <2>1, <2>2, JobsStay
  <1> QED
    BY <1>1, <1>4, <1>5, ThreadsLive

(* Every step of main() of markerd.                                        *)
LEMMA MarkerdMainStep ==
    ASSUME ShapeInv, CallsInv, ThreadsInv, JobsInv, prog = "markerd", UNCHANGED prog, MarkerdMain
    PROVE  ConnStep /\ ThreadsInv' /\ JobsInv'
  <1>0. {"auth", "become", "getprobattrs", "mark"} \subseteq Requests /\ {"mark", "close"} \subseteq Events
    BY DEF Requests, Events
  <1>1. CASE Retry
    <2>1. Pc' \notin Apart \union Joining
      BY <1>1 DEF Retry, Pc, Apart, Joining
    <2>2. JobsInv'
      <3>1. DOMAIN down' = {} /\ ssl' = "open" /\ rcv'.at = "read"
        BY <1>1, SMT DEF Retry, connect, Thread
      <3>2. main = "retry" /\ main' = "auth" /\ conn' = conn + 1 /\ queue' = queue /\ queue = <<>>
        BY <1>1 DEF Retry, JobsInv
      <3> QED
        BY <3>1, <3>2, SMT DEF JobsInv, NoStaleWork, MainLabels
    <2> QED
      BY <1>1, <2>1, <2>2, ThreadsConnect DEF Retry, ConnStep
  <1>2. ASSUME NEW label \in {"auth", "become", "attrs", "submit"}, NEW req \in Requests,
               NEW ok, NEW yes \in {"register", "loop", "mark"}, yes = "mark" => label = "attrs",
               Ask(label, req) \/ Answered(label, req, ok, yes, "disconnect")
        PROVE  ConnStep /\ ThreadsInv' /\ JobsInv'
    <2>1. label \in MainLabels \ (Apart \union Joining)
      BY DEF MainLabels, Apart, Joining
    <2>2. LiveStep /\ ThreadsInv' /\ JobsInv'
      BY <1>2, <2>1, MarkerdAsks
    <2> QED
      BY <2>2 DEF ConnStep
  <1>3. CASE \/ Ask("auth", "auth")
             \/ Answered("auth", "auth", accountCall(call.res), "register", "disconnect")
    BY <1>0, <1>2, <1>3
  <1>4. CASE \/ Ask("become", "become")
             \/ Answered("become", "become", becomeMarker(call.res), "loop", "disconnect")
    BY <1>0, <1>2, <1>4
  <1>5. CASE \/ Ask("attrs", "getprobattrs")
             \/ Answered("attrs", "getprobattrs", getProblemAttributes(call.res), "mark", "disconnect")
    BY <1>0, <1>2, <1>5
  <1>6. CASE \/ Ask("submit", "mark")
             \/ Answered("submit", "mark", mark(call.res), "loop", "disconnect")
    BY <1>0, <1>2, <1>6
  <1>7. ASSUME LiveStep, UNCHANGED <<queue, mr, conn, down, rcv, ssl>>,
               {main, main'} \subseteq MainLabels \ (Apart \union Joining),
               main' \in Working => main \in Working
        PROVE  ConnStep /\ ThreadsInv' /\ JobsInv'
    <2>1. SameConnection
      BY <1>7 DEF SameConnection, Pc
    <2>2. main' \in MainLabels \ {"retry"} /\ main # "forget"
      BY <1>7 DEF Apart
    <2> QED
      BY <1>7, <2>1, <2>2, JobsStay, ThreadsLive DEF ConnStep
  <1>8. CASE RegisterMark \/ RegisterClose
    <2>1. LiveStep /\ UNCHANGED <<queue, mr, conn, down, rcv, ssl>>
      BY <1>0, <1>8 DEF RegisterMark, RegisterClose, LiveStep, Goto, registerEventCallback
    <2>2. {main, main'} \subseteq {"register", "register2", "become"}
      BY <1>8 DEF RegisterMark, RegisterClose, Goto
    <2> QED
      BY <1>7, <2>1, <2>2 DEF MainLabels, Apart, Joining, Working
  <1>9. CASE NoMarker \/ Mark
    <2>1. LiveStep /\ UNCHANGED <<queue, mr, conn, down, rcv, ssl>>
      BY <1>9 DEF NoMarker, Mark, LiveStep, Goto, connVars
    <2>2. {main, main'} \subseteq {"mark", "submit", "disconnect"} /\ main \in Working
      BY <1>9 DEF NoMarker, Mark, Goto, Working
    <2> QED
      BY <1>7, <2>1, <2>2 DEF MainLabels, Apart, Joining
  <1>10. CASE Dequeue
    <2>1. UNCHANGED <<prog, conn, down, rcv, ssl>> /\ UNCHANGED connVars
      BY <1>10 DEF Dequeue, connVars
    <2>2. main = "loop" /\ main' \in {"disconnect", "attrs"}
      BY <1>10 DEF Dequeue
    <2>3. SameConnection
      BY <2>2 DEF SameConnection, Pc, Apart, Joining
    <2>4. /\ Head(queue) = queue[1] /\ 1 \in DOMAIN queue /\ Tail(queue) \in Seq(Data \union {Null})
          /\ \A i \in DOMAIN Tail(queue) : i + 1 \in DOMAIN queue /\ Tail(queue)[i] = queue[i + 1]
      <3>1. queue \in Seq(Data \union {Null}) /\ queue # <<>>
        BY <1>10 DEF Dequeue, JobsInv
      <3> QED
        BY ONLY <3>1, TailFacts
    <2>5. JobsInv'
      <3>1. main' = "attrs" => queue[1] # Null
        BY <1>10, <2>4 DEF Dequeue
      <3>2. main' = "attrs" => mr'.conn = conn
        BY <1>10, <2>4, <3>1 DEF Dequeue, JobsInv
      <3>3. queue' = Tail(queue)
        BY <1>10 DEF Dequeue
      <3> QED
        BY <2>1, <2>2, <2>4, <3>2, <3>3 DEF JobsInv, NoStaleWork, MainLabels
    <2>6. LiveStep
      BY <2>1 DEF LiveStep
    <2> QED
      BY <2>3, <2>5, <2>6, ThreadsLive DEF ConnStep
  <1>11. CASE Disconnect
    <2>1. Pc' = "joinReceiver" /\ disconnect
      BY <1>11 DEF Disconnect, Goto, Pc
    <2>2. JobsInv'
      BY <1>11, JobsStay DEF Disconnect, Goto, disconnect, sslShutdown, MainLabels, Working
    <2> QED
      BY <2>1, <2>2, ThreadsDisconnect DEF ConnStep
  <1>12. CASE Joined1
    <2>1. Pc = "joinReceiver" /\ JoinReceiver /\ Pc' = "joinKeepalive"
      BY <1>12 DEF Joined1, Goto, Pc
    <2>2. JobsInv'
      BY <1>12, JobsStay DEF Joined1, Goto, JoinReceiver, MainLabels, Working
    <2> QED
      BY <2>1, <2>2, ThreadsJoin DEF ConnStep
  <1>13. CASE Joined2
    <2>1. Pc = "joinKeepalive" /\ JoinKeepalive /\ Pc' \in Apart
      BY <1>13 DEF Joined2, Goto, Pc, Apart
    <2>2. JobsInv'
      <3>1. DOMAIN down' = {} /\ ssl' = "none" /\ UNCHANGED rcv
        BY <1>13, SMT DEF Joined2, JoinKeepalive
      <3>2. main' = "forget" /\ UNCHANGED <<queue, mr, conn>>
        BY <1>13 DEF Joined2, Goto
      <3> QED
        BY <3>1, <3>2 DEF JobsInv, NoStaleWork, MainLabels
    <2> QED
      BY <2>1, <2>2, ThreadsJoin DEF ConnStep
  <1>14. CASE Forget
    <2>1. LiveStep /\ UNCHANGED <<conn, down, rcv, ssl, ka>>
      BY <1>14 DEF Forget, LiveStep, connVars
    <2>2. ThreadsInv'
      BY <1>14, <2>1 DEF Forget, ThreadsInv, Pc, Apart, Joining
    <2>3. JobsInv'
      <3>1. queue' = <<>> /\ DOMAIN queue' = {} /\ main' = "retry"
        BY <1>14, SMT DEF Forget
      <3> QED
        BY <2>1, <3>1, SMT DEF JobsInv, NoStaleWork, MainLabels
    <2> QED
      BY <2>1, <2>2, <2>3 DEF ConnStep
  <1> QED
    BY <1>1, <1>3, <1>4, <1>5, <1>6, <1>8, <1>9, <1>10, <1>11, <1>12, <1>13, <1>14 DEF MarkerdMain

(* The callbacks of markerd: a job of this connection, or the NULL that    *)
(* says it is shut, goes into the queue.                                   *)
LEMMA MarkerdCallbackStep ==
    ASSUME ShapeInv, ThreadsInv, JobsInv, prog = "markerd", UNCHANGED prog, MarkerdCallback
    PROVE  ConnStep /\ ThreadsInv' /\ JobsInv'
  <1>1. CallbackReturns /\ LiveStep /\ UNCHANGED <<main, mr, conn>> /\ UNCHANGED <<ssl, down>>
    BY DEF MarkerdCallback, LiveStep, CallbackReturns
  <1>2. SameConnection
    BY <1>1 DEF SameConnection, Pc
  <1>3. ssl # "none" /\ main # "retry" /\ conn > 0
    BY <1>1 DEF CallbackReturns, ThreadsInv, Pc, Apart, JobsInv
  <1>4. rcv'.at # "callback"
    BY <1>1 DEF CallbackReturns, Thread
  <1> DEFINE e == IF rcv.ev.action = "mark" THEN rcv.ev.data ELSE Null
  <1>5. /\ queue' = Append(queue, e) /\ e \in Data \union {Null}
        /\ e # Null => e.conn = conn
        /\ e = Null => ssl = "shut"
    <2>1. CASE mark_request
      <3>1. rcv.at = "callback" /\ rcv.ev.action = "mark" /\ rcv.ev \in Blocks
        BY <1>1, <2>1 DEF mark_request, CallbackReturns, ShapeInv
      <3>2. rcv.ev.data.conn = conn /\ rcv.ev.data \in Data
        BY <3>1 DEF JobsInv, Blocks
      <3>3. rcv.ev.data # Null
        BY <1>3, <3>2, SMT DEF Null, JobsInv
      <3> QED
        BY <2>1, <3>1, <3>2, <3>3 DEF mark_request
    <2>2. CASE server_close
      <3>1. rcv.at = "callback" /\ rcv.ev.action = "close" /\ ssl = "shut"
        BY <1>1, <1>3, <2>2 DEF server_close, CallbackReturns, ThreadsInv, ShapeInv
      <3> QED
        BY <2>2, <3>1 DEF server_close
    <2> QED
      BY <2>1, <2>2 DEF MarkerdCallback
  <1> HIDE DEF e
  <1>6. /\ queue' \in Seq(Data \union {Null})
        /\ \A i \in DOMAIN queue' : queue'[i] = e \/ (i \in DOMAIN queue /\ queue'[i] = queue[i])
    <2>1. queue \in Seq(Data \union {Null}) /\ e \in Data \union {Null}
      BY <1>5 DEF JobsInv
    <2>2. /\ Append(queue, e) \in Seq(Data \union {Null})
          /\ DOMAIN Append(queue, e) = 1 .. Len(queue) + 1
          /\ DOMAIN queue = 1 .. Len(queue) /\ Len(queue) \in Nat
          /\ \A i \in 1 .. Len(queue) : Append(queue, e)[i] = queue[i]
          /\ Append(queue, e)[Len(queue) + 1] = e
      BY ONLY <2>1, AppendFacts
    <2> QED
      BY <1>5, <2>2, SMT
  <1>7. JobsInv'
    BY <1>1, <1>3, <1>4, <1>5, <1>6 DEF JobsInv, NoStaleWork
  <1> QED
    BY <1>1, <1>2, <1>7, ThreadsLive DEF ConnStep

(* The server gives out a job, with the number of the connection, or       *)
(* answers.                                                                *)
LEMMA MarkerdServerStep ==
    ASSUME ShapeInv, ThreadsInv, JobsInv, prog = "markerd", UNCHANGED prog,
           \/ \E job \in Jobs : ServerMarks(job)
           \/ (\E a \in {"ok", "err"} : ServerAnswers(a, NoData)) /\ UNCHANGED markerdVars
    PROVE  ConnStep /\ ThreadsInv' /\ JobsInv'
  <1>1. PICK b \in Blocks :
            down' = Append(down, b) /\ (b.action = "mark" => b.data.conn = conn) /\ LiveStep
    <2>1. CASE \E job \in Jobs : ServerMarks(job)
      <3>1. PICK job \in Jobs : ServerMarks(job)
        BY <2>1
      <3> DEFINE d == [conn |-> conn, job |-> job]
      <3>2. d \in Data
        BY DEF Data, JobsInv
      <3>3. ServerSends("mark", d)
        BY <3>1 DEF ServerMarks
      <3>4. Block("mark", NoReq, d) \in Blocks /\ Block("mark", NoReq, d).data = d
        BY <3>2, MadeUpBlocks DEF Block
      <3> QED
        BY <3>2, <3>3, <3>4, SMT DEF ServerSends, LiveStep
    <2>2. CASE \E a \in {"ok", "err"} : ServerAnswers(a, NoData)
      <3>1. PICK a \in {"ok", "err"} : ServerAnswers(a, NoData)
        BY <2>2
      <3>2. Head(up) \in Requests
        BY <3>1, TailFacts DEF ServerAnswers, ShapeInv
      <3>3. NoData \in Data
        BY DEF Data
      <3>4. Block(a, Head(up), NoData) \in Blocks /\ Block(a, Head(up), NoData).action # "mark"
        BY <3>2, <3>3, MadeUpBlocks DEF Block
      <3> QED
        BY <3>1, <3>3, <3>4 DEF ServerAnswers, LiveStep
    <2> QED
      BY <2>1, <2>2
  <1>2. UNCHANGED markerdVars /\ UNCHANGED <<ssl, rcv>>
    BY DEF ServerMarks, ServerSends, ServerAnswers
  <1>3. SameConnection
    BY <1>2 DEF SameConnection, Pc, markerdVars
  <1>4. \A i \in DOMAIN down' : down'[i].action = "mark" => down'[i].data.conn = conn
    <2>1. \A i \in DOMAIN down' : down'[i] = b \/ (i \in DOMAIN down /\ down'[i] = down[i])
      BY <1>1, AppendFacts, SMT DEF ShapeInv
    <2> QED
      BY <1>1, <2>1 DEF JobsInv
  <1>5. JobsInv'
    BY <1>2, <1>4 DEF JobsInv, NoStaleWork, markerdVars
  <1> QED
    BY <1>1, <1>3, <1>5, ThreadsLive DEF ConnStep

-----------------------------------------------------------------------------
(* The steps of the library and of the network.                            *)
Undisturbed ==
    L(CallerSteps \/ ReceiverSteps \/ KeepaliveSteps \/ KeepaliveTimesOut \/ ServerCloses \/ LinkBreaks)

\* A step of the library's threads or of the network leaves the threads sound.
LEMMA LibraryStep ==
    ASSUME ShapeInv, ThreadsInv, Undisturbed
    PROVE  LiveStep /\ ThreadsInv'
  <1>1. LiveStep
    BY DEF Undisturbed, L, CallerSteps, ReceiverSteps, KeepaliveSteps, LiveStep
  <1>2. SameConnection
    BY DEF Undisturbed, L, SameConnection, Pc, markerdVars, toolVars
  <1> QED
    BY <1>1, <1>2, ThreadsLive

(* The jobs of markerd under way, or in a callback, stay those of this     *)
(* connection.                                                             *)
LEMMA LibraryJobs ==
    ASSUME ShapeInv, ThreadsInv, JobsInv, Undisturbed
    PROVE  JobsInv'
  <1>1. CASE prog # "markerd"
    BY <1>1, MarkerdRests DEF Undisturbed, L
  <1>2. CASE prog = "markerd"
    <2>1. UNCHANGED <<prog, main, queue, mr, conn>>
      BY DEF Undisturbed, L, markerdVars
    <2>2. CASE UNCHANGED <<down, rcv>> /\ (ssl' = ssl \/ (ssl # "none" /\ ssl' = "shut"))
      BY <1>2, <2>1, <2>2, JobsStay
    <2>3. CASE receive_thread
      <3>1. UNCHANGED ssl
        BY <2>3 DEF receive_thread, processMB
      <3>2. /\ Head(down) = down[1] /\ 1 \in DOMAIN down /\ down' = Tail(down)
            /\ \A i \in DOMAIN down' : i + 1 \in DOMAIN down /\ down'[i] = down[i + 1]
        BY <2>3, TailFacts, SMT DEF receive_thread, ShapeInv
      <3>3. rcv' = rcv \/ (rcv'.ev = down[1])
        BY <2>3, <3>2, SMT DEF receive_thread, processMB, Thread
      <3> QED
        BY <1>2, <2>1, <3>1, <3>2, <3>3 DEF JobsInv, NoStaleWork
    <2>4. CASE ReceiverEnds
      BY <1>2, <2>1, <2>4
      DEF ReceiverEnds, startShutdown, sslShutdown, Thread, ThreadsInv, JobsInv, NoStaleWork
    <2>5. CASE ReceiverTells
      <3>1. rcv'.at = "callback" => rcv'.ev.action = "close"
        BY <2>5 DEF ReceiverTells, Thread, Block
      <3> QED
        BY <1>2, <2>1, <2>5, <3>1 DEF ReceiverTells, JobsInv, NoStaleWork
    <2>6. CASE LinkBreaks
      <3>1. DOMAIN down' = {} /\ UNCHANGED <<ssl, rcv>>
        BY <2>6, SMT DEF LinkBreaks
      <3> QED
        BY <1>2, <2>1, <3>1 DEF JobsInv, NoStaleWork
    <2>7. CASE CallerSteps \/ KeepaliveSteps \/ KeepaliveTimesOut \/ ServerCloses
      BY <2>2, <2>7 DEF CallerSteps, WriteFails, writeToSSL, TakeResponse, KeepaliveSteps,
                        KeepaliveSevers, KeepaliveKilled, KeepaliveTimesOut, ServerCloses,
                        startShutdown, sslShutdown
    <2> QED
      BY <2>3, <2>4, <2>5, <2>6, <2>7 DEF Undisturbed, L, ReceiverSteps
  <1> QED
    BY <1>1, <1>2

-----------------------------------------------------------------------------
(* abacustool: what it may believe it goes on being able to believe, as    *)
(* long as the server sends nothing else.                                  *)
LEMMA SoundStep ==
    ASSUME ShapeInv, SoundInv, prog # "markerd", UNCHANGED prog, ConnStep,
           acks \subseteq acks', version' \in Nat, version <= version',
           \A b \in Blocks : down' = Append(down, b) => Sound(b)'
    PROVE  SoundInv'
  <1>1. \A b \in Blocks : Sound(b) => Sound(b)'
    BY SMT DEF Sound, Info, SoundInv
  <1>2. Sound(NoBlock)' /\ Sound(Terminated)' /\ Sound(Block("close", NoReq, NoData))'
    BY DEF Sound, Info, NoBlock, Terminated, Block, NoReq
  <1>3. response \in Blocks /\ call.res \in Blocks /\ rcv.ev \in Blocks
    BY DEF ShapeInv
  <1>4. \A i \in DOMAIN down : down[i] \in Blocks
    BY SMT DEF ShapeInv
  <1> DEFINE SoundNext(b) ==
               /\ b.action = "ok" => b.req \in acks'
               /\ Info(b) => b.data \in 0 .. version'
               /\ b.req = "standings" => b.action = "ok"
  <1>5. /\ \A b \in Blocks : Sound(b) => SoundNext(b)
        /\ SoundNext(NoBlock) /\ SoundNext(Terminated) /\ SoundNext(Block("close", NoReq, NoData))
        /\ \A b \in Blocks : down' = Append(down, b) => SoundNext(b)
    BY <1>1, <1>2 DEF Sound, Info
  <1> HIDE DEF SoundNext
  <1>6. /\ \A i \in DOMAIN down : Sound(down[i])
        /\ Sound(response) /\ Sound(call.res) /\ Sound(rcv.ev)
    BY DEF SoundInv
  <1>7. \A i \in DOMAIN down' : SoundNext(down'[i])
    <2>1. CASE down' = down
      BY <1>4, <1>5, <1>6, <2>1
    <2>2. CASE down' = <<>>
      BY <2>2, SMT
    <2>3. CASE down # <<>> /\ down' = Tail(down)
      <3>1. \A i \in DOMAIN down' : i + 1 \in DOMAIN down /\ down'[i] = down[i + 1]
        BY <2>3, TailFacts, SMT DEF ShapeInv
      <3> QED
        BY <1>4, <1>5, <1>6, <3>1
    <2>4. ASSUME NEW b \in Blocks, down' = Append(down, b) PROVE \A i \in DOMAIN down' : SoundNext(down'[i])
      <3>1. \A i \in DOMAIN down' : down'[i] = b \/ (i \in DOMAIN down /\ down'[i] = down[i])
        BY <2>4, AppendFacts, SMT DEF ShapeInv
      <3> QED
        BY <1>4, <1>5, <1>6, <2>4, <3>1
    <2>5. ASSUME NEW a \in {"ok", "err"}, NEW d \in Data, ServerAnswers(a, d)
          PROVE  \E b \in Blocks : down' = Append(down, b)
      <3>1. Head(up) \in Requests
        BY <2>5, TailFacts DEF ServerAnswers, ShapeInv
      <3> QED
        BY <2>5, <3>1, MadeUpBlocks DEF ServerAnswers
    <2>6. ASSUME NEW e \in {"mark", "updatestandings"}, NEW d \in Data, ServerSends(e, d)
          PROVE  \E b \in Blocks : down' = Append(down, b)
      BY <2>6, MadeUpBlocks DEF ServerSends
    <2>7. \/ down' = down \/ down' = <<>> \/ (down # <<>> /\ down' = Tail(down))
          \/ \E b \in Blocks : down' = Append(down, b)
      BY <2>5, <2>6
      DEF ConnStep, LiveStep, connect, disconnect, JoinReceiver, JoinKeepalive, sendMB, WriteFails,
          writeToSSL, TakeResponse, Reply, registerEventCallback, receive_thread, ReceiverEnds,
          ReceiverTells, CallbackReturns, KeepaliveTimesOut, KeepaliveSevers, KeepaliveKilled,
          ServerCloses, LinkBreaks, connVars
    <2> QED
      BY <2>1, <2>2, <2>3, <2>4, <2>7
  <1>8. receive_thread => Head(down) \in Blocks /\ Sound(Head(down))
    BY <1>4, <1>6, TailFacts, SMT DEF receive_thread, ShapeInv
  <1>9. SoundNext(response')
    <2>1. response' \in {response, NoBlock, Terminated} \/ (receive_thread /\ response' = Head(down))
      BY DEF ConnStep, LiveStep, connect, disconnect, JoinReceiver, JoinKeepalive, sendMB, WriteFails,
          writeToSSL, TakeResponse, Reply, registerEventCallback, receive_thread, processMB,
          ReceiverEnds, startShutdown, ReceiverTells, CallbackReturns, KeepaliveTimesOut,
          KeepaliveSevers, KeepaliveKilled, ServerAnswers, ServerSends, ServerCloses, LinkBreaks,
          connVars
    <2> QED
      BY <1>3, <1>5, <1>6, <1>8, <2>1
  <1>10. SoundNext(call'.res)
    <2>1. WriteFails \/ writeToSSL => call'.res = call.res
      BY DEF ShapeInv, WriteFails, writeToSSL
    <2>2. TakeResponse => call'.res = response
      BY DEF ShapeInv, TakeResponse
    <2>3. (\E req \in Requests : sendMB(req)) \/ connect \/ Reply => call'.res = NoBlock
      BY SMT DEF sendMB, connect, Reply, Idle
    <2>4. \/ connect \/ (\E req \in Requests : sendMB(req)) \/ WriteFails \/ writeToSSL \/ TakeResponse
          \/ Reply \/ call' = call
      BY DEF ConnStep, LiveStep, disconnect, JoinReceiver, JoinKeepalive, registerEventCallback,
          receive_thread, ReceiverEnds, ReceiverTells, CallbackReturns, KeepaliveTimesOut,
          KeepaliveSevers, KeepaliveKilled, ServerAnswers, ServerSends, ServerCloses, LinkBreaks,
          connVars
    <2> QED
      BY <1>3, <1>5, <1>6, <2>1, <2>2, <2>3, <2>4
  <1>11. SoundNext(rcv'.ev)
    <2>1. receive_thread => rcv' = rcv \/ rcv'.ev = Head(down)
      BY SMT DEF receive_thread, processMB, Thread
    <2>2. connect \/ ReceiverEnds \/ CallbackReturns => rcv'.ev = NoBlock
      BY SMT DEF connect, ReceiverEnds, CallbackReturns, Thread
    <2>3. ReceiverTells => rcv'.ev \in {NoBlock, Block("close", NoReq, NoData)}
      BY SMT DEF ReceiverTells, Thread
    <2>4. connect \/ receive_thread \/ ReceiverEnds \/ ReceiverTells \/ CallbackReturns \/ rcv' = rcv
      BY DEF ConnStep, LiveStep, disconnect, JoinReceiver, JoinKeepalive, sendMB, WriteFails,
          writeToSSL, TakeResponse, Reply, registerEventCallback, KeepaliveTimesOut,
          KeepaliveSevers, KeepaliveKilled, ServerAnswers, ServerSends, ServerCloses, LinkBreaks,
          connVars
    <2> QED
      BY <1>3, <1>5, <1>6, <1>8, <2>1, <2>2, <2>3, <2>4
  <1> QED
    BY <1>7, <1>9, <1>10, <1>11 DEF SoundInv, Sound, Info, SoundNext

-----------------------------------------------------------------------------
(* The requests of every command but getbonus.                             *)
Asked ==
    {findUser, findGroup, findProblem, "adduser", "addgroup", "getproblemtypes",
     "getproblemdescription", "allproblems", "setprobattrs", "startstop", "getsubmissionsource",
     "getsubmissions_for_user", "id_passwd", "setbonus", "getlanguages", "submit"}

\* Every one-shot command but getbonus is a series of calls whose answers tell
\* whether the server agreed.
LEMMA CommandsAsk ==
    \A c \in ToolCommands \ {"standings", "getbonus"} : process(c) \in Seq(Asked)
  <1>1. /\ do_adduser \in Seq(Asked) /\ do_addgroup \in Seq(Asked) /\ do_addtime \in Seq(Asked)
        /\ do_setpass \in Seq(Asked) /\ do_setbonus \in Seq(Asked) /\ do_submit \in Seq(Asked)
        /\ do_getsource \in Seq(Asked) /\ do_add_or_replace_problem \in Seq(Asked)
    BY SMT DEF Asked, do_adduser, do_addgroup, do_addtime, do_setpass, do_setbonus, do_submit,
           do_getsource, do_add_or_replace_problem
  <1>2. do_replaceproblem \in Seq(Asked)
    BY SMT DEF Asked, do_replaceproblem, do_add_or_replace_problem
  <1>3. do_getlatestsource \in Seq(Asked)
    BY SMT DEF Asked, do_getlatestsource, do_getsource
  <1>4. \A c \in ToolCommands \ {"standings", "getbonus"} :
          process(c) \in {do_adduser, do_addgroup, do_add_or_replace_problem, do_replaceproblem,
                          do_addtime, do_setpass, do_setbonus, do_getsource,
                          do_getlatestsource, do_submit}
    BY DEF ToolCommands, process
  <1> QED
    BY <1>1, <1>2, <1>3, <1>4

(* Of those, what a command goes on after is an "ok", except that          *)
(* do_add_or_replace_problem goes on whatever getProblems returns.         *)
LEMMA YieldsIsOk ==
    ASSUME NEW req \in Asked \ {"allproblems"}, NEW res, yields(req, res)
    PROVE  res.action = "ok"
  <1>1. CASE req \in {findUser, findGroup, findProblem}
    BY <1>1 DEF yields, indexedList, findUser, findGroup, findProblem
  <1>2. CASE req \in {"getproblemtypes", "getlanguages"}
    BY <1>2 DEF yields, vectorFromMB, findUser, findGroup, findProblem
  <1>3. CASE req \in {"adduser", "addgroup", "id_passwd", "setbonus", "startstop",
                      "getproblemdescription", "setprobattrs", "getsubmissionsource", "submit"}
    BY <1>3 DEF yields, simpleAction, accountCall, contestCall, getProblemDescription,
                setProblemAttributes, contentCall, submit, findUser, findGroup, findProblem
  <1>4. CASE req = "getsubmissions_for_user"
    <2>1. latest(getSubmissionsForUser(res)) # 0
      BY <1>4 DEF yields, findUser, findGroup, findProblem
    <2>2. latest({}) = 0
      <3>1. {0} \union {s.time : s \in {t \in {} : t.correct}} = {0}
        OBVIOUS
      <3> QED
        BY <3>1, SMT DEF latest, Max
    <2> QED
      BY <2>1, <2>2 DEF getSubmissionsForUser, multiListFromMB
  <1> QED
    BY <1>1, <1>2, <1>3, <1>4 DEF Asked

-----------------------------------------------------------------------------
(* Steps that bring no block and leave what the server said and has.       *)
LEMMA SoundQuiet ==
    ASSUME ShapeInv, SoundInv, prog # "markerd", UNCHANGED prog, ConnStep,
           UNCHANGED <<acks, version>>, down' \in {down, <<>>} \/ (down # <<>> /\ down' = Tail(down))
    PROVE  SoundInv'
  <1>1. ASSUME NEW b \in Blocks PROVE down' # Append(down, b)
    <2>1. down \in Seq(Blocks) /\ Len(down) \in Nat /\ Len(Append(down, b)) = Len(down) + 1
      BY SMT DEF ShapeInv
    <2>2. Len(<<>>) = 0 /\ (down # <<>> => Len(Tail(down)) = Len(down) - 1)
      BY <2>1, SMT
    <2> QED
      BY <2>1, <2>2, SMT
  <1>2. version' \in Nat /\ version <= version' /\ acks \subseteq acks'
    BY SMT DEF SoundInv
  <1> QED
    BY <1>1, <1>2, SoundStep

(* Every step of main() of abacustool is one of the library.               *)
LEMMA ToolMainConnStep ==
    ASSUME ShapeInv, CommandInv, prog # "markerd", ToolMain
    PROVE  /\ ConnStep
           /\ UNCHANGED <<acks, version, cmd>> /\ down' \in {down, <<>>}
  <1>1. {"auth", "standings"} \subseteq Requests /\ {"close", "updatestandings"} \subseteq Events
    BY DEF Requests, Events
  <1>2. CASE ToolConnects \/ ToolFails
    BY <1>2 DEF ToolConnects, ToolFails, connect, ConnStep, LiveStep, ConnSame, connVars, oneShotVars,
                watchVars
  <1>3. CASE ToolAuth \/ AskStandings
    BY <1>1, <1>3 DEF ToolAuth, AskStandings, sendMB, ConnStep, LiveStep, toolVars
  <1>4. CASE CommandCalls
    <2>1. TheCall \in Requests
      BY <1>4, CommandCallsAreRequests, SMT DEF CommandCalls, CommandInv, OneShot, TheCall
    <2> QED
      BY <1>4, <2>1 DEF CommandCalls, sendMB, ConnStep, LiveStep, toolVars
  <1>5. CASE ToolAuthReturns \/ CommandStops \/ CommandGoesOn \/ StandingsArrive
    BY <1>5 DEF ToolAuthReturns, CommandStops, CommandGoesOn, StandingsArrive, Returned, Reply,
                ConnStep, LiveStep, oneShotVars, watchVars
  <1>6. CASE CommandRefuses \/ WatchWakes
    BY <1>6 DEF CommandRefuses, WatchWakes, ConnSame, connVars, ConnStep, LiveStep, oneShotVars,
                watchVars
  <1>7. CASE \/ RegisterCallback("registerClose", "close", "registerUpdate")
             \/ RegisterCallback("registerUpdate", "updatestandings", "standings")
    BY <1>1, <1>7 DEF RegisterCallback, registerEventCallback, ConnStep, LiveStep, oneShotVars,
                      watchVars
  <1>8. CASE ToolDisconnects \/ ToolJoins1 \/ ToolJoins2
    BY <1>8 DEF ToolDisconnects, ToolJoins1, ToolJoins2, disconnect, JoinReceiver, JoinKeepalive,
                ConnStep, oneShotVars, watchVars
  <1> QED
    BY <1>2, <1>3, <1>4, <1>5, <1>6, <1>7, <1>8 DEF ToolMain

(* ... and keeps the threads in step with where main() is.                 *)
LEMMA ToolMainThreads ==
    ASSUME ShapeInv, ThreadsInv, CommandInv, prog # "markerd", UNCHANGED prog, ToolMain
    PROVE  ThreadsInv'
  <1>1. Pc = tmain /\ Pc' = tmain'
    BY DEF Pc
  <1>2. CASE ToolConnects
    BY <1>1, <1>2, ThreadsConnect DEF ToolConnects, Go, Apart, Joining
  <1>3. CASE ToolFails
    BY <1>1, <1>3 DEF ToolFails, Go, ThreadsInv, ConnSame, connVars, Apart, Joining
  <1>4. CASE ToolDisconnects
    BY <1>1, <1>4, ThreadsDisconnect DEF ToolDisconnects, Go
  <1>5. CASE ToolJoins1 \/ ToolJoins2
    BY <1>1, <1>5, ThreadsJoin DEF ToolJoins1, ToolJoins2, Go, Apart
  <1>6. ASSUME ~ToolConnects, ~ToolFails, ~ToolDisconnects, ~ToolJoins1, ~ToolJoins2
        PROVE  ThreadsInv'
    <2>1. UNCHANGED <<ssl, rcv, ka>>
      BY <1>6 DEF ToolMain, ToolAuth, AskStandings, CommandCalls, sendMB, ToolAuthReturns,
                  CommandStops, CommandGoesOn, StandingsArrive, Reply, CommandRefuses, WatchWakes,
                  ConnSame, connVars, RegisterCallback, registerEventCallback
    <2>2. /\ tmain \in {"auth", "call", "registerClose", "registerUpdate", "standings", "waiting"}
          /\ tmain' \in {"auth", "call", "registerClose", "registerUpdate", "standings", "waiting",
                         "disconnect"}
      BY <1>6 DEF ToolMain, ToolAuth, AskStandings, CommandCalls, toolVars, ToolAuthReturns, Go,
                  CommandStops, CommandGoesOn, StandingsArrive, CommandRefuses, WatchWakes,
                  RegisterCallback
    <2> QED
      BY <1>1, <2>1, <2>2 DEF ThreadsInv, Apart, Joining
  <1> QED
    BY <1>2, <1>3, <1>4, <1>5, <1>6

-----------------------------------------------------------------------------
(* The commands that run once: steps that leave status, step and acks.     *)
LEMMA CommandKept ==
    ASSUME CommandInv, UNCHANGED <<prog, cmd, step>>, acks \subseteq acks',
           status' = status \/ (status' = 1 /\ OneShot),
           tmain' \in ToolLabels, prog = "markerd" => tmain' = tmain, tmain' = "call" => OneShot
    PROVE  CommandInv'
  <1>1. \A i : Backed(i) => Backed(i)'
    BY DEF Backed
  <1>2. StatusTruthful'
    BY SMT DEF CommandInv, StatusTruthful
  <1>3. OneShot' <=> OneShot
    BY DEF OneShot
  <1>4. OneShot => /\ step' \in 1 .. Len(process(cmd'))
                   /\ cmd' # "getbonus" => \A i \in 1 .. step' - 1 : Backed(i)'
    BY <1>1 DEF CommandInv
  <1>5. cmd' \in {"standings", "none"} => status' = -1
    BY DEF CommandInv, OneShot
  <1> QED
    BY <1>2, <1>3, <1>4, <1>5 DEF CommandInv

(* A call that yields what the command needs was answered "ok": its own    *)
(* answer, that the server gave.                                           *)
LEMMA CommandBacked ==
    ASSUME ShapeInv, CallsInv, SoundInv, CommandInv, prog # "markerd", OneShot, cmd # "getbonus",
           Returned(TheCall), yields(TheCall, call.res)
    PROVE  Backed(step)
  <1>1. TheCall \in Asked /\ TheCall = process(cmd)[step]
    <2>1. cmd \in ToolCommands \ {"standings", "getbonus"} /\ step \in 1 .. Len(process(cmd))
      BY DEF CommandInv, OneShot
    <2>2. process(cmd) \in Seq(Asked)
      BY <2>1, CommandsAsk
    <2> QED
      BY <2>1, <2>2, SMT DEF TheCall
  <1>2. CASE TheCall = "allproblems"
    BY <1>1, <1>2 DEF Backed
  <1>3. CASE TheCall # "allproblems"
    <2>1. call.res.action = "ok"
      BY <1>1, <1>3, YieldsIsOk
    <2>2. Own(call.res)
      BY <2>1, SMT DEF Returned, CallsInv, NoBlock, Terminated, Block
    <2> QED
      BY <1>1, <2>1, <2>2 DEF Own, Returned, SoundInv, Sound, Backed
  <1> QED
    BY <1>2, <1>3

\* main() of abacustool comes to the exit status through calls that the server
\* has answered.
LEMMA ToolMainCommand ==
    ASSUME ShapeInv, CallsInv, SoundInv, CommandInv, prog # "markerd", UNCHANGED prog, ToolMain
    PROVE  CommandInv'
  <1>1. cmd \in ToolCommands /\ (OneShot <=> ~Watching)
    BY DEF CommandInv, OneShot, Watching, ToolCommands
  <1>2. CASE CommandGoesOn
    <2>1. OneShot /\ Returned(TheCall) /\ yields(TheCall, call.res) /\ UNCHANGED <<cmd, acks>>
      BY <1>2 DEF CommandGoesOn, CommandInv
    <2>2. cmd # "getbonus" => \A i \in 1 .. step : Backed(i)
      BY <2>1, CommandBacked, SMT DEF CommandInv
    <2>3. \A i : Backed(i) <=> Backed(i)'
      BY <2>1 DEF Backed
    <2>4. Len(process(cmd)) \in 1 .. 5
      BY <2>1, CommandCallsAreRequests DEF CommandInv, OneShot
    <2>5. CASE step < Len(process(cmd))
      <3>1. step' = step + 1 /\ UNCHANGED <<status, tmain>>
        BY <1>2, <2>5 DEF CommandGoesOn
      <3>2. cmd # "getbonus" => \A i \in 1 .. step' - 1 : Backed(i)'
        BY <2>2, <2>3, <3>1, SMT DEF CommandInv
      <3>3. step' \in 1 .. Len(process(cmd)) /\ step' \in 1 .. 5
        <4> DEFINE n == Len(process(cmd))
        <4>1. step \in 1 .. 5 /\ n \in 1 .. 5 /\ step < n
          BY <2>4, <2>5 DEF CommandInv
        <4> HIDE DEF n
        <4>2. step' \in 1 .. n /\ step' \in 1 .. 5
          BY ONLY <3>1, <4>1
        <4> QED
          BY <4>2 DEF n
      <3> QED
        BY <2>1, <3>1, <3>2, <3>3 DEF CommandInv, OneShot, StatusTruthful
    <2>6. CASE ~(step < Len(process(cmd)))
      <3>1. status' = 0 /\ tmain' = "disconnect" /\ UNCHANGED step
        BY <1>2, <2>6 DEF CommandGoesOn, Go
      <3>2. step = Len(process(cmd))
        BY <2>1, <2>4, <2>6, SMT DEF CommandInv
      <3>3. StatusTruthful'
        BY <2>1, <2>2, <3>2 DEF StatusTruthful, Backed
      <3>4. \A i \in 1 .. step - 1 : i \in 1 .. step
        BY SMT DEF CommandInv
      <3>5. cmd # "getbonus" => \A i \in 1 .. step' - 1 : Backed(i)'
        BY <2>2, <2>3, <3>1, <3>4
      <3> QED
        BY <2>1, <3>1, <3>3, <3>5 DEF CommandInv, OneShot, ToolLabels
    <2> QED
      BY <2>5, <2>6
  <1>3. CASE ToolAuthReturns
    <2>1. UNCHANGED <<prog, cmd, step, acks>> /\ tmain' \in {"disconnect", "registerClose", "call"}
      BY <1>3 DEF ToolAuthReturns, Go
    <2>2. (tmain' = "call" => OneShot) /\ (status' = status \/ (status' = 1 /\ OneShot))
      BY <1>1, <1>3 DEF ToolAuthReturns, Go
    <2> QED
      BY <2>1, <2>2, CommandKept DEF ToolLabels
  <1>4. CASE ToolFails \/ CommandRefuses \/ CommandStops
    <2>1. UNCHANGED <<prog, cmd, step, acks>> /\ tmain' \in {"disconnect", "exit"} /\ status' = 1
      BY <1>4 DEF ToolFails, CommandRefuses, CommandStops, Go
    <2>2. OneShot
      BY <1>1, <1>4 DEF ToolFails, CommandRefuses, CommandStops, CommandInv
    <2> QED
      BY <2>1, <2>2, CommandKept DEF ToolLabels
  <1>5. ASSUME ~CommandGoesOn, ~ToolAuthReturns, ~ToolFails, ~CommandRefuses, ~CommandStops
        PROVE  CommandInv'
    <2>1. UNCHANGED <<cmd, step, acks, status>>
      BY <1>5 DEF ToolMain, ToolConnects, ToolAuth, CommandCalls, AskStandings, StandingsArrive,
                  WatchWakes, RegisterCallback, ToolDisconnects, ToolJoins1, ToolJoins2, toolVars,
                  oneShotVars
    <2>2. tmain' = tmain \/ tmain' \in ToolLabels \ {"call"}
      BY <1>5 DEF ToolMain, ToolConnects, ToolAuth, CommandCalls, AskStandings, StandingsArrive,
                  WatchWakes, RegisterCallback, ToolDisconnects, ToolJoins1, ToolJoins2, toolVars,
                  Go, ToolLabels
    <2>3. tmain' \in ToolLabels /\ (tmain' = "call" => OneShot)
      BY <2>2 DEF CommandInv
    <2> QED
      BY <2>1, <2>3, CommandKept
  <1> QED
    BY <1>2, <1>3, <1>4, <1>5

-----------------------------------------------------------------------------
(* The watcher: a step after which it does not wait for its standings, or  *)
(* for updates.                                                            *)
LEMMA WatchBefore ==
    ASSUME SoundInv, UNCHANGED <<cmd, version>>,
           runlock' \in {"free", "main"}, closed' \in BOOLEAN, woken' \in BOOLEAN,
           shown' \in {0, shown}, file' \in {file, shown}, WatchInv,
           tmain' # "waiting",
           call'.at # "idle" => tmain' \in {"auth", "call", "standings"},
           tmain' = "standings" => /\ call'.at \in {"idle", "write"} /\ "updatestandings" \in eventmap'
                                   /\ call'.at # "idle" => call'.req = "standings",
           tmain' \in Registering => Watching /\ runlock' = "main",
           tmain' = "auth" /\ Watching => runlock' = "main"
    PROVE  WatchInv'
  <1>1. shown' \in 0 .. version' /\ file' \in 0 .. version'
    BY SMT DEF SoundInv, WatchInv
  <1>2. ~Informed'
    BY DEF Informed
  <1> QED
    BY <1>1, <1>2 DEF WatchInv, Watching, Registering

\* The watcher's main loop writes the file whenever a callback has woken it.
LEMMA ToolMainWatch ==
    ASSUME ShapeInv, CallsInv, SoundInv, CommandInv, WatchInv, prog # "markerd", UNCHANGED prog,
           ToolMain
    PROVE  WatchInv'
  <1>1. UNCHANGED <<cmd, version>>
    BY ToolMainConnStep
  <1>2. /\ runlock \in {"free", "main"} /\ closed \in BOOLEAN /\ woken \in BOOLEAN
        /\ call.at # "idle" => tmain \in {"auth", "call", "standings"}
        /\ tmain = "call" => ~Watching
        /\ tmain \in Registering \union {"waiting"} => Watching
        /\ tmain \in Registering \union {"auth"} /\ Watching => runlock = "main"
    BY DEF WatchInv, CommandInv, OneShot, Watching
  <1>3. Idle.at = "idle"
    BY DEF Idle
  <1>4. CASE ToolConnects
    BY <1>1, <1>2, <1>3, <1>4, WatchBefore DEF ToolConnects, connect, Go, Registering
  <1>5. CASE ToolFails
    BY <1>1, <1>2, <1>5, WatchBefore DEF ToolFails, Go, ConnSame, connVars, watchVars, Registering
  <1>6. CASE ToolAuth \/ AskStandings
    <2>1. call'.at = "write" /\ (AskStandings => call'.req = "standings") /\ UNCHANGED eventmap
      BY <1>6, SMT DEF ToolAuth, AskStandings, sendMB
    <2>2. UNCHANGED toolVars /\ tmain \in {"auth", "standings"} /\ (tmain = "standings" => AskStandings)
      BY <1>6 DEF ToolAuth, AskStandings
    <2>3. tmain = "standings" => "updatestandings" \in eventmap
      BY DEF WatchInv
    <2> QED
      BY <1>2, <2>1, <2>2, <2>3, WatchBefore DEF toolVars, Registering
  <1>7. CASE ToolAuthReturns
    <2>1. call'.at = "idle" /\ tmain' \in {"disconnect", "registerClose", "call"} /\ tmain = "auth"
      BY <1>3, <1>7 DEF ToolAuthReturns, Go, Reply
    <2>2. tmain' = "registerClose" => Watching
      BY <1>7 DEF ToolAuthReturns, Go
    <2>3. UNCHANGED watchVars
      BY <1>7 DEF ToolAuthReturns
    <2> QED
      BY <1>1, <1>2, <2>1, <2>2, <2>3, WatchBefore DEF watchVars, Registering
  <1>8. CASE CommandCalls
    BY <1>2, <1>8, WatchBefore DEF CommandCalls, sendMB, toolVars, Registering
  <1>9. CASE CommandRefuses
    BY <1>1, <1>2, <1>3, <1>9, WatchBefore DEF CommandRefuses, Go, ConnSame, connVars, watchVars,
                                               Registering
  <1>10. CASE CommandStops \/ CommandGoesOn
    <2>1. call'.at = "idle" /\ tmain' \in {"disconnect", "call"} /\ tmain = "call" /\ UNCHANGED watchVars
      BY <1>3, <1>10 DEF CommandStops, CommandGoesOn, Go, Reply
    <2> QED
      BY <1>1, <1>2, <2>1, WatchBefore DEF watchVars, Registering
  <1>11. CASE RegisterCallback("registerClose", "close", "registerUpdate")
    BY <1>1, <1>2, <1>11, WatchBefore
    DEF RegisterCallback, registerEventCallback, Go, watchVars, Registering
  <1>12. CASE RegisterCallback("registerUpdate", "updatestandings", "standings")
    BY <1>1, <1>2, <1>12, WatchBefore
    DEF RegisterCallback, registerEventCallback, Go, watchVars, Registering
  <1>13. CASE StandingsArrive
    <2>1. /\ tmain = "standings" /\ tmain' = "waiting" /\ call.at = "done" /\ call' = Idle
          /\ shown' = (IF simpleAction(call.res) THEN call.res.data ELSE shown)
          /\ file' = shown' /\ runlock' = "free" /\ woken' = FALSE /\ UNCHANGED closed
          /\ UNCHANGED <<ssl, link, up, down, response, rcv, eventmap>>
      BY <1>13 DEF StandingsArrive, Returned, Reply, Go
    <2>2. call.req = "standings"
      BY <1>13 DEF StandingsArrive, Returned
    <2>3. simpleAction(call.res) => Own(call.res)
      BY <2>1, SMT DEF CallsInv, simpleAction, NoBlock, Terminated, Block
    <2>4. simpleAction(call.res) => Info(call.res)
      BY <2>2, <2>3 DEF Own, Info, simpleAction
    <2>5. shown' \in 0 .. version
      BY <2>1, <2>4 DEF SoundInv, Sound, WatchInv
    <2>6. ASSUME Informed' PROVE Fresh'
      <3>1. Informed /\ Own(call.res)
        BY <2>1, <2>6 DEF Informed, CallsInv
      <3>2. simpleAction(call.res)
        BY <2>2, <3>1 DEF Own, SoundInv, Sound, simpleAction
      <3>3. shown' = call.res.data
        BY <2>1, <3>2
      <3>4. Fresh
        BY <3>1 DEF WatchInv
      <3>5. Infos' = Infos /\ (\A i \in Infos : Newest(i)' <=> Newest(i)) /\ (Updating' <=> Updating)
        BY <2>1 DEF Infos, Newest, Updating
      <3> QED
        BY <1>1, <1>3, <2>1, <3>3, <3>4, <3>5 DEF Fresh
    <2> QED
      BY <1>1, <1>2, <1>3, <2>1, <2>5, <2>6 DEF WatchInv, Registering, Watching
  <1>14. CASE WatchWakes
    <2>1. /\ tmain = "waiting" /\ UNCHANGED connVars /\ UNCHANGED <<runlock, closed, shown>>
          /\ woken' = FALSE
      BY <1>14 DEF WatchWakes, ConnSame
    <2>2. CASE tmain' = "disconnect"
      <3>1. UNCHANGED <<call, eventmap>> /\ file' \in {file, shown} /\ call.at = "idle"
        BY <1>2, <1>14, <2>1 DEF WatchWakes, connVars
      <3> QED
        BY <1>1, <1>2, <2>1, <2>2, <3>1, WatchBefore DEF Registering
    <2>3. CASE tmain' = tmain
      <3>1. file' = shown
        BY <1>14, <2>1, <2>3 DEF WatchWakes, Go
      <3>2. Informed' = Informed /\ Fresh' = Fresh
        BY <1>1, <2>1, <2>3 DEF Informed, Fresh, Infos, Newest, Updating, connVars
      <3> QED
        BY <1>1, <2>1, <2>3, <3>1, <3>2 DEF WatchInv, Registering, Watching, connVars
    <2> QED
      BY <1>14, <2>2, <2>3 DEF WatchWakes, Go
  <1>15. CASE ToolDisconnects
    BY <1>1, <1>2, <1>15, WatchBefore DEF ToolDisconnects, disconnect, Go, Registering
  <1>16. CASE ToolJoins1 \/ ToolJoins2
    <2>1. tmain' \in {"joinKeepalive", "connect", "exit"} /\ tmain \in Joining /\ UNCHANGED call
      BY <1>16 DEF ToolJoins1, ToolJoins2, JoinReceiver, JoinKeepalive, Go, Joining
    <2>2. UNCHANGED watchVars
      BY <1>16 DEF ToolJoins1, ToolJoins2
    <2> QED
      BY <1>1, <1>2, <2>1, <2>2, WatchBefore DEF watchVars, Registering, Joining
  <1> QED
    BY <1>4, <1>5, <1>6, <1>7, <1>8, <1>9, <1>10, <1>11, <1>12, <1>13, <1>14, <1>15, <1>16
    DEF ToolMain

-----------------------------------------------------------------------------
(* What brings standings, when the server sends a block, ...               *)
LEMMA InfosAppend ==
    ASSUME down \in Seq(Blocks), NEW b \in Blocks, down' = Append(down, b)
    PROVE  /\ ~Info(b) => Infos' = Infos
           /\ ~Info(b) => \A i \in Infos : (Newest(i)' <=> Newest(i)) /\ down'[i] = down[i]
           /\ Info(b) => Infos' # {} /\ \A i \in Infos' : Newest(i)' => down'[i] = b
  <1>1. /\ DOMAIN down' = 1 .. Len(down) + 1 /\ DOMAIN down = 1 .. Len(down) /\ Len(down) \in Nat
        /\ \A i \in 1 .. Len(down) : down'[i] = down[i]
        /\ down'[Len(down) + 1] = b
    BY AppendFacts, SMT
  <1>2. \A i \in DOMAIN down' : i \in Infos' <=> i \in Infos \/ (i = Len(down) + 1 /\ Info(b))
    BY <1>1, SMT DEF Infos, Info
  <1>3. Infos' \subseteq DOMAIN down' /\ Infos \subseteq DOMAIN down'
    BY <1>1, SMT DEF Infos
  <1>4. ASSUME ~Info(b)
        PROVE  Infos' = Infos /\ \A i \in Infos : (Newest(i)' <=> Newest(i)) /\ down'[i] = down[i]
    <2>1. Infos' = Infos
      BY <1>2, <1>3, <1>4
    <2> QED
      BY <1>1, <2>1 DEF Newest, Infos
  <1>5. ASSUME Info(b) PROVE Infos' # {} /\ \A i \in Infos' : Newest(i)' => down'[i] = b
    <2>1. Len(down) + 1 \in Infos'
      BY <1>1, <1>2, <1>5, SMT
    <2>2. \A i \in Infos' : Newest(i)' => i = Len(down) + 1
      BY <1>1, <1>3, <2>1, SMT DEF Newest
    <2> QED
      BY <1>1, <2>1, <2>2
  <1> QED
    BY <1>4, <1>5

(* ... and when the receiver reads one.                                    *)
LEMMA InfosTail ==
    ASSUME down \in Seq(Blocks), down # <<>>, down' = Tail(down)
    PROVE  /\ \A i \in Infos' : i + 1 \in Infos /\ down'[i] = down[i + 1]
           /\ \A i \in Infos' : Newest(i)' => Newest(i + 1)
           /\ Infos' = {} /\ Info(Head(down)) => Newest(1)
           /\ Infos' = {} /\ ~Info(Head(down)) => Infos = {}
           /\ Head(down) = down[1]
  <1>1. /\ Head(down) = down[1] /\ 1 \in DOMAIN down
        /\ DOMAIN down' = 1 .. Len(down) - 1
        /\ DOMAIN down = 1 .. Len(down) /\ Len(down) \in Nat \ {0}
        /\ \A i \in 1 .. Len(down) - 1 : down'[i] = down[i + 1]
    BY TailFacts
  <1>2. \A i \in DOMAIN down' : i \in Infos' <=> i + 1 \in Infos
    BY <1>1, SMT DEF Infos, Info
  <1>3. Infos' \subseteq DOMAIN down' /\ Infos \subseteq DOMAIN down
    BY DEF Infos
  <1>4. \A j \in Infos : j = 1 \/ (j - 1 \in Infos' /\ j - 1 \in Nat)
    <2>1. \A j \in DOMAIN down : j = 1 \/ (j - 1 \in DOMAIN down' /\ j = (j - 1) + 1)
      BY <1>1, SMT
    <2> QED
      BY <1>2, <1>3, <2>1, <1>1, SMT
  <1>5. \A i \in Infos' : i + 1 \in Infos /\ down'[i] = down[i + 1]
    BY <1>1, <1>2, <1>3
  <1>6. ASSUME NEW i \in Infos', Newest(i)' PROVE Newest(i + 1)
    <2>1. \A j \in Infos' : j <= i
      BY <1>6 DEF Newest
    <2>2. \A j \in Infos : j <= i + 1
      BY <1>1, <1>3, <1>4, <2>1, SMT
    <2> QED
      BY <1>5, <2>2 DEF Newest
  <1>7. 1 \in Infos <=> Info(Head(down))
    BY <1>1 DEF Infos
  <1>8. Infos' = {} => Infos \subseteq {1}
    BY <1>4
  <1>9. Infos' = {} /\ Info(Head(down)) => Newest(1)
    BY <1>7, <1>8, SMT DEF Newest
  <1>10. Infos' = {} /\ ~Info(Head(down)) => Infos = {}
    BY <1>7, <1>8
  <1> QED
    BY <1>1, <1>5, <1>6, <1>9, <1>10

(* The callbacks of the watcher (standings_update, server_close) run with  *)
(* runlock free, so main() waits for updates, or has no use for them.      *)
LEMMA ToolCallbackStep ==
    ASSUME ShapeInv, CallsInv, ThreadsInv, SoundInv, CommandInv, WatchInv, prog # "markerd",
           UNCHANGED prog, ToolCallback
    PROVE  ConnStep /\ ThreadsInv' /\ SoundInv' /\ CommandInv' /\ WatchInv'
  <1>1. /\ CallbackReturns /\ LiveStep /\ runlock = "free"
        /\ UNCHANGED <<tmain, cmd, step, status, acks, runlock, version, file>>
        /\ UNCHANGED <<ssl, link, up, down, response, call, eventmap>>
    BY DEF ToolCallback, CallbackReturns, LiveStep, oneShotVars
  <1>2. SameConnection
    BY <1>1 DEF SameConnection, Pc
  <1>3. ThreadsInv' /\ ConnStep
    BY <1>1, <1>2, ThreadsLive DEF ConnStep
  <1>4. SoundInv'
    BY <1>1, <1>3, SoundQuiet
  <1>5. CommandInv'
    BY <1>1, CommandKept DEF CommandInv
  <1>6. WatchInv'
    <2>1. rcv.at = "callback" /\ rcv'.at # "callback"
      BY <1>1 DEF CallbackReturns, Thread
    <2>2. ~Updating'
      BY <2>1 DEF Updating
    <2>3. /\ closed' \in BOOLEAN /\ woken' \in BOOLEAN
          /\ tmain = "waiting" => woken'
          /\ \/ rcv.ev.action = "updatestandings" /\ shown' = rcv.ev.data
             \/ rcv.ev.action = "close" /\ shown' = shown
      BY DEF ToolCallback, standings_update, server_closed, WatchInv
    <2>4. shown' \in 0 .. version
      BY <2>3 DEF SoundInv, Sound, Info, WatchInv
    <2>5. ASSUME Informed' PROVE Fresh'
      <3>1. Informed
        BY <1>1, <2>5 DEF Informed
      <3>2. tmain = "waiting" /\ call.at = "idle"
        BY <1>1, <3>1 DEF Informed, WatchInv, Registering, Watching
      <3>3. rcv.ev.action = "updatestandings" /\ shown' = rcv.ev.data /\ Updating
        BY <2>1, <2>3, <3>1 DEF ThreadsInv, Informed, Updating
      <3>4. Infos' = Infos /\ \A i \in Infos : Newest(i)' <=> Newest(i)
        BY <1>1 DEF Infos, Newest
      <3>5. Fresh
        BY <3>1 DEF WatchInv
      <3> QED
        BY <1>1, <2>2, <3>2, <3>3, <3>4, <3>5 DEF Fresh
    <2> QED
      BY <1>1, <2>3, <2>4, <2>5 DEF WatchInv, Registering, Watching
  <1> QED
    BY <1>3, <1>4, <1>5, <1>6

(* The server answers: the standings of the moment, or something else.     *)
LEMMA ToolAnswersStep ==
    ASSUME ShapeInv, CallsInv, ThreadsInv, SoundInv, CommandInv, WatchInv, prog # "markerd",
           UNCHANGED prog, ToolServerAnswers(ListsSent, SubsSent)
    PROVE  ConnStep /\ ThreadsInv' /\ SoundInv' /\ CommandInv' /\ WatchInv'
  <1>1. /\ UNCHANGED <<tmain, cmd, step, status, runlock, closed, woken, version, shown, file>>
        /\ acks \subseteq acks' /\ up # <<>>
    BY DEF ToolServerAnswers, watchVars
  <1>2. Head(up) \in Requests
    BY <1>1, TailFacts DEF ShapeInv
  <1>3. PICK a \in {"ok", "err"}, d \in Data :
            /\ ServerAnswers(a, d)
            /\ a = "ok" => Head(up) \in acks'
            /\ Head(up) = "standings" => a = "ok" /\ d = version
    <2>1. CASE Head(up) # "standings" /\ ServerAnswers("err", NoData)
      BY <2>1 DEF Data
    <2>2. ASSUME NEW d \in Lists(Head(up), ListsSent, SubsSent), ServerAnswers("ok", d),
                 Head(up) \in acks'
          PROVE  d \in Data /\ (Head(up) = "standings" => d = version)
      <3>1. CASE Head(up) = "getsubmissions_for_user"
        BY <2>2, <3>1 DEF Lists, Data
      <3>2. CASE Head(up) \in {"getusers", "getgroups", "getproblems", "allproblems",
                               "getproblemtypes", "getlanguages"}
        BY <2>2, <3>2 DEF Lists, Data
      <3>3. CASE Head(up) = "standings"
        BY <2>2, <3>3 DEF Lists, Data, SoundInv
      <3>4. CASE Head(up) \notin {"getsubmissions_for_user", "standings", "getusers", "getgroups",
                                  "getproblems", "allproblems", "getproblemtypes", "getlanguages"}
        BY <2>2, <3>4 DEF Lists, Data
      <3> QED
        BY <3>1, <3>2, <3>3, <3>4
    <2> QED
      BY <2>1, <2>2 DEF ToolServerAnswers
  <1>4. LiveStep /\ UNCHANGED <<ssl, link, response, call, rcv, eventmap>> /\ up' = Tail(up) /\ link = "up"
    BY <1>3 DEF LiveStep, ServerAnswers
  <1>5. SameConnection
    BY <1>1 DEF SameConnection, Pc
  <1>6. ThreadsInv' /\ ConnStep
    BY <1>4, <1>5, ThreadsLive DEF ConnStep
  <1>7. PICK b \in Blocks : down' = Append(down, b) /\ b.action = a /\ b.req = Head(up) /\ b.data = d
    <2>1. Block(a, Head(up), d) \in Blocks
      BY <1>2, MadeUpBlocks
    <2>2. /\ Block(a, Head(up), d).action = a /\ Block(a, Head(up), d).req = Head(up)
          /\ Block(a, Head(up), d).data = d
      BY DEF Block
    <2> QED
      BY <1>3, <2>1, <2>2 DEF ServerAnswers
  <1>8. SoundInv'
    <2>1. Sound(b)'
      BY <1>1, <1>3, <1>7, SMT DEF Sound, Info, SoundInv
    <2>2. ASSUME NEW c \in Blocks, down' = Append(down, c) PROVE c = b
      <3>1. down \in Seq(Blocks) /\ Append(down, b) = Append(down, c)
        BY <1>7, <2>2 DEF ShapeInv
      <3> QED
        BY ONLY <3>1, b \in Blocks, c \in Blocks, AppendInjective
    <2>3. version' \in Nat /\ version <= version'
      BY <1>1, SMT DEF SoundInv
    <2> QED
      BY <1>1, <1>6, <2>1, <2>2, <2>3, SoundStep
  <1>9. CommandInv'
    BY <1>1, CommandKept DEF CommandInv
  <1>10. ASSUME Informed' PROVE Fresh'
    <2>1. ssl = "open" /\ tmain \in {"waiting", "standings"}
      BY <1>1, <1>4, <1>10 DEF Informed
    <2>2. RequestUnderWay
      BY <1>1, <2>1 DEF CallsInv, NothingUnderWay, AnswerUnderWay
    <2>3. tmain = "standings" /\ call.req = "standings" /\ Head(up) = call.req
      BY <2>1, <2>2, SMT DEF WatchInv, RequestUnderWay, Awaiting
    <2>4. Info(b) /\ b.data = version
      BY <1>3, <1>7, <2>3 DEF Info
    <2>5. Infos' # {} /\ \A i \in Infos' : Newest(i)' => down'[i] = b
      BY <1>7, <2>4, InfosAppend DEF ShapeInv
    <2> QED
      BY <1>1, <2>4, <2>5 DEF Fresh
  <1>11. WatchInv'
    BY <1>1, <1>4, <1>10 DEF WatchInv, Registering, Watching
  <1> QED
    BY <1>6, <1>8, <1>9, <1>11

(* The standings change; the update is sent unless the connection is lost. *)
LEMMA StandingsChangeStep ==
    ASSUME ShapeInv, CallsInv, ThreadsInv, SoundInv, CommandInv, WatchInv, prog # "markerd",
           UNCHANGED prog, StandingsChange
    PROVE  ConnStep /\ ThreadsInv' /\ SoundInv' /\ CommandInv' /\ WatchInv'
  <1>1. /\ UNCHANGED <<tmain, cmd, step, status, acks, runlock, closed, woken, shown, file>>
        /\ version' = version + 1 /\ version \in Nat
    BY DEF StandingsChange, oneShotVars, SoundInv
  <1>2. SameConnection
    BY <1>1 DEF SameConnection, Pc
  <1>3. CommandInv'
    BY <1>1, CommandKept DEF CommandInv
  <1>4. ASSUME ConnStep, UNCHANGED <<call, eventmap>>, SoundInv', Informed' => Fresh'
        PROVE  WatchInv'
    BY <1>1, <1>4, SMT DEF WatchInv, Registering, Watching
  <1>5. CASE link = "up" /\ tmain \notin {"connect", "auth"}
    <2>1. ServerSends("updatestandings", version')
      BY <1>5 DEF StandingsChange
    <2>2. version' \in Data
      BY <1>1, SMT DEF Data
    <2>3. LiveStep /\ UNCHANGED <<call, eventmap>>
      BY <2>1, <2>2 DEF LiveStep, ServerSends
    <2>4. ThreadsInv' /\ ConnStep
      BY <1>2, <2>3, ThreadsLive DEF ConnStep
    <2>5. PICK b \in Blocks : /\ down' = Append(down, b) /\ b.action = "updatestandings"
                              /\ b.req = NoReq /\ b.data = version'
      BY <2>1, <2>2, MadeUpBlocks DEF ServerSends, Block
    <2>6. SoundInv'
      <3>1. Sound(b)'
        BY <1>1, <2>5, SMT DEF Sound, Info, NoReq
      <3>2. ASSUME NEW c \in Blocks, down' = Append(down, c) PROVE c = b
        <4>1. down \in Seq(Blocks) /\ Append(down, b) = Append(down, c)
          BY <2>5, <3>2 DEF ShapeInv
        <4> QED
          BY ONLY <4>1, b \in Blocks, c \in Blocks, AppendInjective
      <3>3. version' \in Nat /\ version <= version' /\ acks \subseteq acks'
        BY <1>1, SMT
      <3> QED
        BY <2>4, <3>1, <3>2, <3>3, SoundStep
    <2>7. Fresh'
      <3>1. Info(b)
        BY <2>5 DEF Info
      <3>2. Infos' # {} /\ \A i \in Infos' : Newest(i)' => down'[i] = b
        BY <2>5, <3>1, InfosAppend DEF ShapeInv
      <3> QED
        BY <2>5, <3>2 DEF Fresh
    <2> QED
      BY <1>3, <1>4, <2>3, <2>4, <2>6, <2>7
  <1>6. CASE ~(link = "up" /\ tmain \notin {"connect", "auth"})
    <2>1. UNCHANGED connVars
      BY <1>6 DEF StandingsChange, ConnSame
    <2>2. LiveStep /\ UNCHANGED <<call, eventmap, down, link>>
      BY <2>1 DEF LiveStep, connVars
    <2>3. ThreadsInv' /\ ConnStep
      BY <1>2, <2>2, ThreadsLive DEF ConnStep
    <2>4. SoundInv'
      <3>1. \A c \in Blocks : down' # Append(down, c)
        <4>1. \A c \in Blocks : DOMAIN Append(down, c) # DOMAIN down
          BY AppendFacts, SMT DEF ShapeInv
        <4> QED
          BY <2>2, <4>1
      <3>2. version' \in Nat /\ version <= version' /\ acks \subseteq acks'
        BY <1>1, SMT
      <3> QED
        BY <2>3, <3>1, <3>2, SoundStep
    <2>5. ~Informed'
      BY <1>1, <1>6, <2>2 DEF Informed
    <2> QED
      BY <1>3, <1>4, <2>2, <2>3, <2>4, <2>5
  <1> QED
    BY <1>5, <1>6

-----------------------------------------------------------------------------
(* The library and the network under abacustool.                           *)
LEMMA LibraryTool ==
    ASSUME ShapeInv, CallsInv, ThreadsInv, SoundInv, CommandInv, WatchInv, prog # "markerd",
           Undisturbed
    PROVE  SoundInv' /\ CommandInv' /\ WatchInv'
  <1>1. LiveStep /\ ConnStep
    BY LibraryStep DEF ConnStep
  <1>2. UNCHANGED <<prog, tmain, cmd, step, status, acks, runlock, closed, woken, version, shown, file>>
    BY DEF Undisturbed, L, toolVars
  <1>3. /\ down' \in {down, <<>>} \/ (down # <<>> /\ down' = Tail(down))
        /\ UNCHANGED eventmap
    BY DEF Undisturbed, L, CallerSteps, WriteFails, writeToSSL, TakeResponse, ReceiverSteps,
           receive_thread, ReceiverEnds, ReceiverTells, KeepaliveSteps, KeepaliveSevers,
           KeepaliveKilled, KeepaliveTimesOut, ServerCloses, LinkBreaks
  <1>4. SoundInv'
    BY <1>1, <1>2, <1>3, SoundQuiet
  <1>5. CommandInv'
    BY <1>2, CommandKept DEF CommandInv
  <1>6. (call'.at = "idle" <=> call.at = "idle") /\ call'.req = call.req
    BY DEF Undisturbed, L, CallerSteps, WriteFails, writeToSSL, TakeResponse, ReceiverSteps,
           receive_thread, ReceiverEnds, ReceiverTells, KeepaliveSteps, KeepaliveSevers,
           KeepaliveKilled, KeepaliveTimesOut, ServerCloses, LinkBreaks, ShapeInv
  <1>7. ASSUME Informed' PROVE Fresh'
    <2>1. ssl' = "open" /\ link' = "up" /\ tmain \in {"waiting", "standings"}
      BY <1>2, <1>7 DEF Informed
    <2>2. ~WriteFails /\ ~ReceiverEnds /\ ~KeepaliveSevers /\ ~ServerCloses /\ ~LinkBreaks
      BY <2>1 DEF WriteFails, ReceiverEnds, KeepaliveSevers, startShutdown, sslShutdown, ServerCloses,
                  LinkBreaks
    <2>3. ~ReceiverTells
      BY <2>1 DEF ReceiverTells, ThreadsInv
    <2>4. ASSUME writeToSSL PROVE FALSE
      <3>1. call.at = "write" /\ call'.at = "await" /\ up' = Append(up, call.req)
        BY <2>1, <2>4 DEF writeToSSL, ShapeInv
      <3>2. up' # <<>>
        BY <3>1, SMT DEF ShapeInv
      <3> QED
        BY <1>2, <1>7, <3>1, <3>2 DEF Informed, WatchInv
    <2>5. CASE TakeResponse
      <3>1. /\ UNCHANGED <<ssl, link, up, down, rcv>> /\ call'.at = "done" /\ call'.res = response
            /\ call.at = "await" /\ response # NoBlock
        BY <2>5 DEF TakeResponse, ShapeInv
      <3>2. up = <<>>
        BY <2>1, <3>1 DEF CallsInv, NothingUnderWay, RequestUnderWay, AnswerUnderWay, Awaiting
      <3>3. tmain = "standings"
        BY <2>1, <3>1 DEF WatchInv
      <3>4. Fresh
        BY <2>1, <3>1, <3>2, <3>3 DEF Informed, WatchInv
      <3>5. Infos' = Infos /\ (\A i \in Infos : Newest(i)' <=> Newest(i)) /\ (Updating' <=> Updating)
        BY <3>1 DEF Infos, Newest, Updating
      <3> QED
        BY <1>2, <3>1, <3>4, <3>5 DEF Fresh
    <2>6. CASE receive_thread
      <3>1. /\ rcv.at = "read" /\ ssl = "open" /\ down # <<>> /\ down' = Tail(down)
            /\ UNCHANGED <<ssl, link, up, call>>
        BY <2>6 DEF receive_thread, processMB
      <3>2. Informed /\ Fresh
        BY <1>2, <1>7, <3>1 DEF Informed, WatchInv
      <3>3. /\ \A i \in Infos' : i + 1 \in Infos /\ down'[i] = down[i + 1]
            /\ \A i \in Infos' : Newest(i)' => Newest(i + 1)
            /\ Infos' = {} /\ Info(Head(down)) => Newest(1)
            /\ Infos' = {} /\ ~Info(Head(down)) => Infos = {}
            /\ Head(down) = down[1]
        BY <3>1, InfosTail DEF ShapeInv
      <3>4. \A i \in Infos' : Newest(i)' => down'[i].data = version'
        BY <1>2, <3>2, <3>3 DEF Fresh
      <3>5. ~Updating
        BY <3>1 DEF Updating
      <3>6. ASSUME Infos' = {}, ~Info(Head(down))
            PROVE  Fresh'
        <4>1. Head(down).action # "updatestandings"
          BY <3>6 DEF Info
        <4>2. ~Updating'
          BY <2>6, <3>1, <4>1, SMT DEF receive_thread, processMB, Updating, Thread
        <4>3. call.at = "await" => response' = response
          <5>1. Infos = {}
            BY <3>3, <3>6
          <5>2. ASSUME call.at = "await", Answer(Head(down)) PROVE FALSE
            <6>1. AnswerUnderWay
              BY <3>1, <5>2, AnswersTail DEF CallsInv, NothingUnderWay, RequestUnderWay, ShapeInv
            <6>2. Own(Head(down))
              BY <3>1, <3>3, <5>2, <6>1, AnswersTail DEF AnswerUnderWay, ShapeInv
            <6>3. call.req = "standings"
              BY <2>1, <5>2 DEF WatchInv
            <6>4. Head(down).action = "ok"
              BY <3>1, <3>3, <6>2, <6>3, TailFacts, SMT DEF Own, SoundInv, Sound, ShapeInv
            <6> QED
              BY <3>6, <6>2, <6>3, <6>4 DEF Info, Own
          <5> QED
            BY <2>6, <5>2 DEF receive_thread, processMB, Answer
        <4> QED
          BY <1>2, <3>1, <3>2, <3>3, <3>4, <3>5, <3>6, <4>2, <4>3 DEF Fresh
      <3>7. ASSUME Infos' = {}, Info(Head(down))
            PROVE  Fresh'
        <4>1. Head(down).data = version
          BY <3>2, <3>3, <3>7 DEF Fresh, Newest
        <4>2. CASE Head(down).action = "updatestandings"
          <5>1. rcv' = Thread("callback", Head(down))
            BY <2>1, <2>6, <4>2 DEF receive_thread, processMB, WatchInv
          <5>2. Updating' /\ rcv'.ev.data = version
            BY <4>1, <4>2, <5>1 DEF Updating, Thread
          <5> QED
            BY <1>2, <3>4, <5>2 DEF Fresh
        <4>3. CASE Head(down).action = "ok"
          <5>1. Answer(Head(down)) /\ rcv' = rcv
            BY <2>6, <4>3 DEF Answer, receive_thread, processMB
          <5>2. AnswerUnderWay
            BY <3>1, <5>1, AnswersTail DEF CallsInv, NothingUnderWay, RequestUnderWay, ShapeInv
          <5>3. call.at = "await" /\ response' = Head(down)
            BY <2>6, <5>1, <5>2 DEF AnswerUnderWay, Awaiting, receive_thread, processMB, Answer
          <5>4. ~Updating'
            BY <3>5, <5>1 DEF Updating
          <5> QED
            BY <1>2, <3>1, <3>4, <4>1, <5>3, <5>4 DEF Fresh
        <4> QED
          BY <3>7, <4>2, <4>3 DEF Info
      <3>8. ASSUME Infos' # {} PROVE Fresh'
        BY <3>4, <3>8 DEF Fresh
      <3> QED
        BY <3>6, <3>7, <3>8
    <2>7. CASE KeepaliveKilled \/ KeepaliveTimesOut
      <3>1. UNCHANGED <<ssl, link, up, down, response, call, rcv>>
        BY <2>7 DEF KeepaliveKilled, KeepaliveTimesOut
      <3>2. Informed /\ Fresh
        BY <1>2, <1>7, <3>1 DEF Informed, WatchInv
      <3> QED
        BY <1>2, <3>1, <3>2 DEF Fresh, Infos, Newest, Updating
    <2> QED
      BY <2>2, <2>3, <2>4, <2>5, <2>6, <2>7
      DEF Undisturbed, L, CallerSteps, ReceiverSteps, KeepaliveSteps
  <1>8. WatchInv'
    BY <1>2, <1>3, <1>6, <1>7 DEF WatchInv, Registering, Watching
  <1> QED
    BY <1>4, <1>5, <1>8

-----------------------------------------------------------------------------
(* The programs start with no connection, nothing queued and nothing said. *)
LEMMA ClientsInitInv == ClientsInit => ClientsInv
  <1> SUFFICES ASSUME ClientsInit PROVE ClientsInv
    OBVIOUS
  <1>1. /\ ConnInit /\ main = "retry" /\ queue = <<>> /\ mr = Null /\ conn = 0
        /\ prog \in {"markerd"} \union ToolCommands
        /\ cmd = (IF prog = "markerd" THEN "none" ELSE prog)
        /\ tmain = "connect" /\ step = 1 /\ status = -1 /\ acks = {}
        /\ runlock = "free" /\ closed = FALSE /\ woken = FALSE
        /\ version = 1 /\ shown = 0 /\ file = 0
    BY ProgramsAssumption DEF ClientsInit, MarkerdInit, ToolInit, MarkerdOff
  <1>2. "markerd" \notin ToolCommands /\ "none" \notin ToolCommands
    BY DEF ToolCommands
  <1>3. NoBlock \in Blocks /\ NoBlock.action = "none" /\ NoBlock.req = NoReq
    BY MadeUpBlocks DEF NoBlock, Block
  <1>4. rcv.at = "none" /\ rcv.ev = NoBlock /\ rcv = NoThread
    BY <1>1 DEF ConnInit, NoThread, Thread
  <1>5. ShapeInv
    <2>1. NoThread \in [at : {"none", "read", "closing", "callback", "ended"}, ev : Blocks]
      BY <1>3 DEF NoThread, Thread
    <2>2. up = <<>> /\ down = <<>> /\ DOMAIN down = {}
      BY <1>1, SMT DEF ConnInit
    <2> QED
      <3>1. /\ ssl = "none" /\ link = "closed" /\ response = NoBlock /\ call = Idle /\ ka = "none"
            /\ kill = FALSE /\ eventmap = {}
        BY <1>1 DEF ConnInit
      <3>2. <<>> \in Seq(Requests) /\ <<>> \in Seq(Blocks)
        BY SMT
      <3> QED
        BY <1>3, <1>4, <2>1, <2>2, <3>1, <3>2, MadeUpBlocks DEF ShapeInv
  <1>6. CallsInv
    BY <1>1 DEF ConnInit, CallsInv, Idle
  <1>7. ThreadsInv
    BY <1>1, <1>4 DEF ConnInit, ThreadsInv, Pc, Apart, Joining
  <1>8. JobsInv
    BY <1>1, <1>4, SMT DEF ConnInit, JobsInv, NoStaleWork, MainLabels
  <1>9. SoundInv
    <2>1. Sound(NoBlock)
      BY <1>3 DEF Sound, Info, NoReq
    <2>2. DOMAIN down = {} /\ response = NoBlock /\ call.res = NoBlock
      BY <1>1, SMT DEF ConnInit, Idle
    <2> QED
      BY <1>1, <1>4, <2>1, <2>2 DEF SoundInv
  <1>10. CommandInv
    <2>0. tmain \in ToolLabels /\ status \in {-1, 0, 1} /\ step \in 1 .. 5
      BY <1>1, SMT DEF ToolLabels
    <2>1. OneShot => Len(process(cmd)) \in 1 .. 5
      BY <1>1, <1>2, CommandCallsAreRequests DEF OneShot
    <2> DEFINE n == Len(process(cmd))
    <2> HIDE DEF n
    <2>2. n \in 1 .. 5 => 1 \in 1 .. n
      BY SMT
    <2>3. OneShot => step \in 1 .. Len(process(cmd))
      BY <1>1, <2>1, <2>2 DEF n
    <2>4. \A i \in 1 .. step - 1 : Backed(i)
      BY <1>1, SMT
    <2> QED
      BY <1>1, <1>2, <2>0, <2>3, <2>4, SMT DEF CommandInv, StatusTruthful
  <1>11. WatchInv
    <2>1. call.at = "idle" /\ ~Informed
      BY <1>1 DEF ConnInit, Idle, Informed
    <2>2. shown \in 0 .. version /\ file \in 0 .. version
      BY <1>1, SMT
    <2> QED
      BY <1>1, <2>1, <2>2 DEF WatchInv, Registering
  <1> QED
    BY <1>5, <1>6, <1>7, <1>8, <1>9, <1>10, <1>11 DEF ClientsInv

(* Every step keeps the invariant.                                         *)
LEMMA ClientsNextInv == ClientsInv /\ [ClientsNext]_clientVars => ClientsInv'
  <1> SUFFICES ASSUME ClientsInv, [ClientsNext]_clientVars PROVE ClientsInv'
    OBVIOUS
  <1> USE DEF ClientsInv
  <1>1. ASSUME ConnStep, ThreadsInv', JobsInv', SoundInv', CommandInv', WatchInv' PROVE ClientsInv'
    BY <1>1, ShapeStep, CallsStep
  <1>2. ASSUME prog = "markerd", UNCHANGED <<toolVars, prog>>, ConnStep, ThreadsInv', JobsInv'
        PROVE  ClientsInv'
    BY <1>1, <1>2, ToolRests
  <1>3. CASE MMain
    BY <1>2, <1>3, MarkerdMainStep DEF MMain, M
  <1>4. CASE MCallback
    BY <1>2, <1>4, MarkerdCallbackStep DEF MCallback, M
  <1>5. CASE MAnswers
    BY <1>2, <1>5, MarkerdServerStep DEF MAnswers, M
  <1>6. CASE MServer
    BY <1>2, <1>6, MarkerdServerStep DEF MServer, M
  <1>7. ASSUME prog # "markerd", UNCHANGED <<markerdVars, prog>>, ConnStep, ThreadsInv', SoundInv',
               CommandInv', WatchInv'
        PROVE  ClientsInv'
    BY <1>1, <1>7, MarkerdRests
  <1>8. CASE TMain
    <2>1. prog # "markerd" /\ UNCHANGED <<markerdVars, prog>> /\ ToolMain
      BY <1>8 DEF TMain, T
    <2>2. ConnStep /\ UNCHANGED <<acks, version, cmd>> /\ down' \in {down, <<>>}
      BY <2>1, ToolMainConnStep
    <2>3. SoundInv'
      BY <2>1, <2>2, SoundQuiet
    <2> QED
      BY <1>7, <2>1, <2>2, <2>3, ToolMainThreads, ToolMainCommand, ToolMainWatch
  <1>9. CASE TCallback
    BY <1>7, <1>9, ToolCallbackStep DEF TCallback, T
  <1>10. CASE TAnswers
    BY <1>7, <1>10, ToolAnswersStep DEF TAnswers, T
  <1>11. CASE TServer
    BY <1>7, <1>11, StandingsChangeStep DEF TServer, T
  <1>12. CASE Caller \/ Receiver \/ Keepalive \/ Silence \/ Loss
    <2>1. Undisturbed
      BY <1>12 DEF Caller, Receiver, Keepalive, Silence, Loss, Undisturbed, L
    <2>2. ConnStep /\ ThreadsInv' /\ JobsInv'
      BY <2>1, LibraryStep, LibraryJobs DEF ConnStep
    <2>3. CASE prog = "markerd"
      BY <1>2, <2>1, <2>2, <2>3 DEF Undisturbed, L
    <2>4. CASE prog # "markerd"
      BY <1>1, <2>1, <2>2, <2>4, LibraryTool
    <2> QED
      BY <2>3, <2>4
  <1>13. CASE UNCHANGED clientVars
    <2>1. UNCHANGED <<connVars, markerdVars, toolVars, prog>>
      BY <1>13 DEF clientVars
    <2>2. ConnStep
      BY <2>1 DEF ConnStep, LiveStep
    <2>3. ThreadsInv' /\ JobsInv'
      BY <2>1 DEF connVars, markerdVars, toolVars, ThreadsInv, Pc, JobsInv, NoStaleWork
    <2>4. SoundInv'
      BY <2>1 DEF connVars, toolVars, SoundInv, Sound, Info
    <2>5. CommandInv'
      BY <2>1, CommandKept DEF toolVars, CommandInv
    <2>6. WatchInv'
      BY <2>1 DEF connVars, toolVars, WatchInv, Watching, Informed, Fresh, Infos, Newest, Updating
    <2> QED
      BY <1>1, <2>2, <2>3, <2>4, <2>5, <2>6
  <1> QED
    BY <1>3, <1>4, <1>5, <1>6, <1>8, <1>9, <1>10, <1>11, <1>12, <1>13 DEF ClientsNext

(* The parts of the invariant hold in every state of every program.        *)
THEOREM ClientsInvariant == ClientsSpec => []ClientsInv
  <1>1. ClientsInit => ClientsInv
    BY ClientsInitInv
  <1>2. ClientsInv /\ [ClientsNext]_clientVars => ClientsInv'
    BY ClientsNextInv
  <1> QED
    BY <1>1, <1>2, PTL DEF ClientsSpec

(* What a call of the library returns (sendMB) is the answer to its own    *)
(* request, the error startShutdown made up, or nothing.                   *)
THEOREM AnswersReachTheirCall == ClientsSpec => []AnswerIsMine
  <1>1. ClientsInv => AnswerIsMine
    BY SMT DEF ClientsInv, CallsInv, Own, AnswerIsMine, NoBlock, Terminated, Block
  <1> QED
    BY <1>1, ClientsInvariant, PTL

(* Nothing of a connection outlives it: the threads have ended when        *)
(* disconnect() deletes the ThreadSSL, and markerd works for, and gives    *)
(* up, only the connection it has.                                         *)
THEOREM ConnectionsAreSeparate == ClientsSpec => []ClientsConsistent
  <1>1. ClientsInv => ClientsTypeOK
    <2> SUFFICES ASSUME ClientsInv PROVE ClientsTypeOK
      OBVIOUS
    <2>1. ConnTypeOK
      BY DEF ClientsInv, ShapeInv, ConnTypeOK
    <2>2. MarkerdTypeOK
      BY <2>1 DEF ClientsInv, JobsInv, MainLabels, MarkerdTypeOK
    <2>3. ToolTypeOK
      BY <2>1, SMT DEF ClientsInv, SoundInv, CommandInv, WatchInv, ToolTypeOK
    <2> QED
      BY <2>2, <2>3 DEF ClientsTypeOK
  <1>2. ClientsInv => ThreadsJoined /\ NoStaleWork
    BY DEF ClientsInv, ThreadsInv, JobsInv, ThreadsJoined
  <1>3. ClientsInv => NoStaleClose
    <2> SUFFICES ASSUME ClientsInv, Null \in Range(queue) PROVE ssl = "shut" \/ main = "forget"
      BY DEF NoStaleClose
    <2>1. PICK i \in DOMAIN queue : queue[i] = Null
      BY DEF Range
    <2>2. queue # <<>> /\ prog = "markerd"
      BY <2>1, SMT DEF ClientsInv, JobsInv
    <2> QED
      BY <2>1, <2>2 DEF ClientsInv, JobsInv
  <1> QED
    BY <1>1, <1>2, <1>3, ClientsInvariant, PTL DEF ClientsConsistent

(* What abacustool tells its user is true: status 0 means that the server  *)
(* said yes to all the command rests on, and the file of a watcher at rest *)
(* holds the standings the server has.                                     *)
THEOREM ToolTellsTheTruth == ClientsSpec => []ToolTruthful
  <1>1. ClientsInv => StatusTruthful
    BY DEF ClientsInv, CommandInv
  <1>2. ClientsInv => FileCurrent
    <2> SUFFICES ASSUME ClientsInv, tmain = "waiting", ~woken, ssl = "open", link = "up",
                        down = <<>>, rcv.at = "read"
                 PROVE  file = version
      BY DEF FileCurrent
    <2>1. Fresh /\ file = shown
      BY DEF ClientsInv, WatchInv, Informed
    <2>2. Infos = {} /\ ~Updating
      BY SMT DEF Infos, Updating
    <2>3. call.at = "idle"
      BY DEF ClientsInv, CommandInv, WatchInv, Registering, Watching
    <2> QED
      BY <2>1, <2>2, <2>3 DEF Fresh
  <1> QED
    BY <1>1, <1>2, ClientsInvariant, PTL DEF ToolTruthful
=============================================================================
