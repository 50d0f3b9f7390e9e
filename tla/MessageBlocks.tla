--------------------------- MODULE MessageBlocks ---------------------------
(* The text form of client messages: MessageBlock::getRaw on the sender's    *)
(* side, and on the receiver's side MessageBlock::addBytes, fed by           *)
(* ClientConnection::read_data (and by the receiving thread of the client    *)
(* library) with whatever pieces SSL_read returns.                           *)
(*                                                                           *)
(* Bytes are numbers.  The name "content-length" is one byte here.           *)
EXTENDS Integers, SequencesExt

CONSTANTS
    Streams,    \* the sequences of blocks that may be sent over a connection
    BfrSize     \* CLIENT_BFR_SIZE

NL == 10
SP == 32
Digit0 == 48
Colon == 58
ContentLength == 1

VARIABLES
    blocks,     \* the blocks sent over the connection
    wire,       \* their bytes, not yet read
    message,    \* ClientConnection::_message
    got,        \* the blocks handed to ClientAction::process
    failed      \* read_data has returned -1

streamVars == <<blocks, wire, message, got, failed>>

-----------------------------------------------------------------------------
(* The sender.                                                             *)

\* sprintf("%d") and atol
RECURSIVE Decimal(_)
Decimal(n) == IF n < 10 THEN <<Digit0 + n>> ELSE Append(Decimal(n \div 10), Digit0 + (n % 10))

atol(s) == FoldLeft(LAMBDA n, d : 10 * n + (d - Digit0), 0, s)

\* a block made by the constructor, operator[] and setContent
Block(action, id, headers, content) ==
    [action |-> action, id |-> id, content |-> content,
     headers |-> IF content = <<>> THEN headers
                 ELSE [h \in DOMAIN headers \cup {<<ContentLength>>} |->
                         IF h = <<ContentLength>> THEN Decimal(Len(content)) ELSE headers[h]]]

getRaw(m) ==
    m.action \o (IF m.id = <<>> THEN <<>> ELSE <<SP>> \o m.id) \o <<NL>>
      \o FoldLeft(LAMBDA all, h : all \o h \o <<Colon>> \o m.headers[h] \o <<NL>>,
                  <<>>, SetToSeq(DOMAIN m.headers))
      \o <<NL>> \o m.content

\* the write queue of a connection: one block after the other
RawOf(ms) == FoldLeft(LAMBDA all, m : all \o getRaw(m), <<>>, ms)

-----------------------------------------------------------------------------
(* The receiver.  buf is _content: while the headers are read it holds an  *)
(* unfinished line, afterwards the content; collecting is _content_pos.    *)

NewBlock == [action |-> <<>>, id |-> <<>>, headers |-> [h \in {} |-> <<>>],
             buf |-> <<>>, length |-> 0, collecting |-> FALSE]
NoBlock == [NewBlock EXCEPT !.length = -1]      \* _message is NULL

Position(s, c) == SelectInSeq(s, LAMBDA x : x = c)
From(s, i) == SubSeq(s, i, Len(s))

\* addBytes while content is collected: the result and the block
Collect(b, bytes, left) ==
    [res |-> IF Len(bytes) < left THEN 0 ELSE left,
     b |-> [b EXCEPT !.buf = @ \o SubSeq(bytes, 1, Min({Len(bytes), left}))]]

\* the first line: a type and perhaps a message id
FirstLine(b, line, sp) ==
    IF sp = 0 THEN [b EXCEPT !.action = line]
    ELSE [b EXCEPT !.action = SubSeq(line, 1, sp - 1), !.id = From(line, sp + 1)]

Header(b, line, colon) ==
    LET name == SubSeq(line, 1, colon - 1)
    IN  [b EXCEPT !.headers = [h \in DOMAIN @ \cup {name} |->
                                  IF h = name THEN From(line, colon + 1) ELSE @[h]]]

LengthOf(b) ==
    IF <<ContentLength>> \in DOMAIN b.headers THEN atol(b.headers[<<ContentLength>>]) ELSE 0

\* Mutant: what the content used, without the header lines before it
EndOfHeadersShort(b, bytes, chowed) ==
    IF LengthOf(b) <= 0 THEN [res |-> chowed, b |-> b]
    ELSE Collect([b EXCEPT !.length = LengthOf(b), !.collecting = TRUE], bytes, LengthOf(b))

\* the blank line: the block is complete, or its content follows
EndOfHeaders(b, bytes, chowed) ==
    IF LengthOf(b) <= 0 THEN [res |-> chowed, b |-> b]
    ELSE LET r == Collect([b EXCEPT !.length = LengthOf(b), !.collecting = TRUE], bytes, LengthOf(b))
         IN  [r EXCEPT !.res = IF @ <= 0 THEN @ ELSE chowed + @]

\* addBytes while lines are read; chowed bytes have been used before bytes
RECURSIVE Lines(_, _, _)
Lines(b, bytes, chowed) ==
    IF Position(bytes, NL) = 0 THEN [res |-> 0, b |-> [b EXCEPT !.buf = @ \o bytes]]
    ELSE LET nl == Position(bytes, NL)
             line == b.buf \o SubSeq(bytes, 1, nl - 1)
             blank == [b EXCEPT !.buf = <<>>]
         IN  IF b.action = <<>>
             THEN Lines(FirstLine(blank, line, Position(line, SP)), From(bytes, nl + 1), chowed + nl)
             ELSE IF line = <<>> THEN EndOfHeaders(blank, From(bytes, nl + 1), chowed + nl)
             ELSE IF Position(line, Colon) = 0 THEN [res |-> -1, b |-> blank]
             ELSE Lines(Header(blank, line, Position(line, Colon)), From(bytes, nl + 1), chowed + nl)

addBytes(b, bytes) ==
    IF b.collecting THEN Collect(b, bytes, b.length - Len(b.buf)) ELSE Lines(b, bytes, 0)

\* what process sees of a complete block
Complete(b) == [action |-> b.action, id |-> b.id, headers |-> b.headers, content |-> b.buf]

\* the inner loop of read_data over one piece; r is what addBytes returned
RECURSIVE Feed(_, _, _)
Feed(r, bytes, done) ==
    IF r.res < 0 THEN [message |-> r.b, done |-> done, failed |-> TRUE]
    ELSE IF r.res = 0 THEN [message |-> r.b, done |-> done, failed |-> FALSE]
    ELSE IF r.res = Len(bytes)
         THEN [message |-> NoBlock, done |-> Append(done, Complete(r.b)), failed |-> FALSE]
    ELSE Feed(addBytes(NewBlock, From(bytes, r.res + 1)), From(bytes, r.res + 1),
              Append(done, Complete(r.b)))

StreamInit ==
    /\ blocks \in Streams
    /\ wire = RawOf(blocks)
    /\ message = NoBlock
    /\ got = <<>>
    /\ failed = FALSE

\* SSL_read returns n bytes
ReadData(n) ==
    /\ ~failed /\ n <= Len(wire)
    /\ LET piece == SubSeq(wire, 1, n)
           r == Feed(addBytes(IF message = NoBlock THEN NewBlock ELSE message, piece), piece, got)
       IN  message' = r.message /\ got' = r.done /\ failed' = r.failed
    /\ wire' = From(wire, n + 1)
    /\ UNCHANGED blocks

StreamNext == \E n \in 1..BfrSize : ReadData(n)

-----------------------------------------------------------------------------
(* However SSL_read cuts the stream, addBytes and read_data hand on the    *)
(* blocks that were sent, in order, with their ids, headers and content,   *)
(* and none is held back once its last byte has been read.                 *)
StreamIsParsed ==
    /\ ~failed
    /\ IsPrefix(got, blocks)
    /\ IF got = blocks THEN wire = <<>>
       ELSE Len(wire) > Len(RawOf(From(blocks, Len(got) + 2)))
=============================================================================
