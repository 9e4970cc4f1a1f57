------------------------- MODULE HttpSessionProofs -------------------------
(***************************************************************************)
(* What HttpSession keeps whatever the requests, the sizes and the number  *)
(* of connections: one pending operation per session, a clean object in    *)
(* the pool and responses of the length they are to have, from the one     *)
(* inductive invariant SessionInv.                                         *)
(***************************************************************************)
EXTENDS HttpSession, TLAPS

-----------------------------------------------------------------------------
(* The sizes.                                                              *)

(* The fields of a request that the handlers compute with; a request is    *)
(* never empty, so there is room for at least one byte.                    *)
LEMMA RequestFields ==
    ASSUME NEW q \in Requests
    PROVE  /\ q.hdr \in Nat /\ q.len \in Nat /\ q.line \in Nat
           /\ q.prog \in Nat /\ q.down \in Nat /\ q.point \in Nat
           /\ q.hdr + q.len \in Nat
           /\ 1 \in 0 .. MaxTransfer /\ 0 \in 0 .. MaxTransfer
<1>1. q \in RequestType
  BY RequestsAssumption
<1>2. q.hdr \in Nat \ {0} /\ q.len \in Nat /\ q.line \in Nat /\ q.prog \in Nat
        /\ q.down \in Nat /\ q.point \in Nat
  BY <1>1 DEF RequestType
<1>3. MaxTransfer \in Nat /\ q.hdr + q.len < MaxTransfer
  BY SizesAssumption
<1> QED
  BY <1>2, <1>3

(* get_data() hands out something while something is due, and never more.  *)
LEMMA ChunkBounds ==
    ASSUME NEW n \in Nat
    PROVE  Chunk(n) \in 0 .. n /\ (n > 0 => Chunk(n) > 0)
BY SizesAssumption DEF Chunk, Least

(* "%d" prints a size as it is below the limit of an int, and from there   *)
(* on another number.                                                      *)
LEMMA PrintedSize ==
    ASSUME NEW n \in Nat
    PROVE  Printed(n) = n <=> n < IntLimit
<1> DEFINE M == 2 * IntLimit
<1>1. IntLimit \in Nat /\ IntLimit > 0 /\ M \in Nat /\ M > 0 /\ n + IntLimit \in Nat
  BY SizesAssumption
<1>2. PICK r \in 0 .. M - 1 : r = (n + IntLimit) % M
  BY <1>1
<1>3. Printed(n) = r - IntLimit
  BY <1>2 DEF Printed
<1>4. CASE n < IntLimit
  <2>1. n + IntLimit \in 0 .. M - 1
    BY <1>1, <1>4
  <2>2. (n + IntLimit) % M = n + IntLimit
    BY <1>1, <2>1
  <2> QED
    BY <1>1, <1>2, <1>3, <1>4, <2>2
<1>5. CASE n >= IntLimit
  <2>1. r - IntLimit < IntLimit
    BY <1>1
  <2> QED
    BY <1>1, <1>3, <1>5, <2>1
<1> QED
  BY <1>1, <1>4, <1>5

(* So the header says what content_length_ says just below that limit.     *)
LEMMA LengthAnnounced ==
    /\ \A n \in Nat : contentLength = n => (Announced = n <=> n < IntLimit)
    /\ \A n \in Nat : contentLength' = n => (Announced' = n <=> n < IntLimit)
BY PrintedSize DEF Announced

(* The minimum transfer stays within the size of the receive buffer.       *)
LEMMA MissingBounds ==
    ASSUME NEW sz \in Nat, NEW rcv \in Nat
    PROVE  Missing(sz, rcv) \in 0 .. MaxTransfer
BY SizesAssumption DEF Missing, Least

(* Once the header is in, what lies behind it is a number of bytes; and a  *)
(* text that parses lies within it.                                        *)
LEMMA BodyIsCounted ==
    ASSUME TypeOK, NEW buf \in Nat, HeaderIn(buf)
    PROVE  /\ Body(buf) \in Nat
           /\ Runs(buf) => Feed(buf) \in Nat /\ Processed(buf) \in Nat
<1>1. req.hdr \in Nat /\ req.line \in Nat /\ req.prog \in Nat
  BY RequestFields DEF TypeOK
<1>2. Body(buf) \in Nat
  BY <1>1 DEF TypeOK, HeaderIn, HeaderEnd, Body
<1>3. ASSUME Runs(buf) PROVE Feed(buf) \in Nat
  <2>1. CASE ~program /\ Url = "vscript"
    <3>1. req.line + req.prog <= Body(buf)
      BY <1>3, <2>1 DEF Runs, ParseSucceeds
    <3> QED
      BY <1>1, <1>2, <2>1, <3>1 DEF Feed
  <2>2. CASE ~(~program /\ Url = "vscript")
    BY <1>2, <2>2 DEF Feed
  <2> QED
    BY <2>1, <2>2
<1>4. ASSUME Runs(buf) PROVE Processed(buf) \in Nat
  BY <1>3, <1>4 DEF TypeOK, Processed
<1> QED
  BY <1>2, <1>3, <1>4

(* The header leaves the reception state typed, and it is parsed only of   *)
(* the request that the client and the server both have come to.           *)
LEMMA HeaderParsed ==
    ASSUME TypeOK, TransactionsInStep, NEW buf \in Nat, ParseHeader(buf)
    PROVE  /\ ready' \in BOOLEAN /\ keepAlive' \in BOOLEAN
           /\ expSet' \in BOOLEAN /\ expSz' \in Nat
           /\ ready' => sNo <= cNo
           /\ HeaderIn(buf) => ready'
<1>1. req.len \in Nat /\ req \in Requests
  BY RequestFields DEF TypeOK
<1>2. CASE ready \/ ~HeaderIn(buf)
  <2>1. UNCHANGED <<ready, keepAlive, expSet, expSz>>
    BY <1>2 DEF ParseHeader
  <2> QED
    BY <1>2, <2>1 DEF TypeOK, TransactionsInStep
<1>3. CASE ~ready /\ HeaderIn(buf)
  <2>1. /\ ready' = TRUE
        /\ keepAlive' = (skew = 0 /\ req.keep)
        /\ expSet' = TRUE
        /\ expSz' = IF skew = 0 THEN req.len ELSE 0
    BY <1>3 DEF ParseHeader
  <2>2. sNo <= cNo
    BY <1>3 DEF HeaderIn, TypeOK
  <2>3. req.keep \in BOOLEAN
    BY <1>1, RequestsAssumption DEF RequestType
  <2>4. keepAlive' \in BOOLEAN
    BY <2>1, <2>3
  <2>5. expSz' \in Nat
    BY <1>1, <2>1
  <2> QED
    BY <2>1, <2>2, <2>4, <2>5
<1> QED
  BY <1>2, <1>3

-----------------------------------------------------------------------------
(* Handlers.                                                               *)

(* The part of a receive handler that takes the bytes from the socket.     *)
LEMMA BytesTaken ==
    ASSUME SessionInv, NEW k \in 1 .. avail, Received(k)
    PROVE  /\ k \in Nat /\ ubuf + k \in Nat
           /\ op = "read" /\ life = "open" /\ closes = 0 /\ queued = 0
           /\ ~prepare /\ ~hdrSent
           /\ req' \in Requests /\ cNo' \in 1 .. MaxRequests
           /\ sNo' \in 1 .. MaxRequests + 1
           /\ unsent' \in Nat /\ avail' \in Nat /\ skew' \in Nat
           /\ gone' \in BOOLEAN /\ conns' \in 0 .. Connections
           /\ received' \in Nat
           /\ cNo' = cNo /\ sNo' = sNo /\ prepare' = prepare
<1> USE DEF SessionInv, TypeOK
<1>1. /\ op = "read" /\ need <= k /\ k <= avail
      /\ avail' = avail - k /\ received' = received + k
      /\ UNCHANGED <<req, cNo, unsent, skew, gone, conns, sNo, prepare>>
  BY DEF Received
<1>2. life = "open"
  BY <1>1 DEF NothingAfterClose
<1>3. closes = 0 /\ queued = 0 /\ ~prepare
  BY <1>1, <1>2 DEF OnePending
<1>4. ~hdrSent
  BY <1>1 DEF ResponseExact
<1>5. k \in Nat /\ ubuf + k \in Nat /\ avail' \in Nat /\ received' \in Nat
  BY <1>1
<1> QED
  BY <1>1, <1>2, <1>3, <1>4, <1>5

(* A read that goes on or throws leaves one read or nothing behind.        *)
LEMMA NextRead ==
    ASSUME NEW set \in BOOLEAN, NEW sz \in Nat, NEW rcv \in Nat,
           AsyncReceive(set, sz, rcv), req \in Requests,
           life = "open", fate \in {"none", "BadReceptionState", "overrun", "spin"}
    PROVE  /\ \/ life' = "open" /\ op' = "read"
              \/ life' = "dead" /\ op' = "none"
           /\ fate' \in {"none", "BadReceptionState", "overrun", "spin"}
           /\ need' \in 0 .. MaxTransfer
<1>1. 0 \in 0 .. MaxTransfer /\ 1 \in 0 .. MaxTransfer
  BY RequestFields
<1>2. Missing(sz, rcv) \in 0 .. MaxTransfer
  BY MissingBounds
<1>3. CASE set /\ sz = rcv
  BY <1>1, <1>3 DEF AsyncReceive
<1>4. CASE ~(set /\ sz = rcv)
  BY <1>1, <1>2, <1>4 DEF AsyncReceive
<1> QED
  BY <1>3, <1>4

(* After a read that was not answered: the session reads on, waits for its *)
(* close or is lost, with nothing queued.                                  *)
LEMMA NotAnswered ==
    ASSUME SessionInv, TypeOK', NEW k \in 1 .. avail, Received(k),
           UNCHANGED <<queued, respVars>>,
           \/ life' = "open" /\ op' = "read" /\ closes' = 0
           \/ life' = "open" /\ op' = "none" /\ closes' = 1
           \/ life' = "dead" /\ op' = "none" /\ closes' = 0,
           ready' => sNo <= cNo
    PROVE  SessionInv'
<1>1. /\ op = "read" /\ life = "open" /\ closes = 0 /\ queued = 0
      /\ ~prepare /\ ~hdrSent /\ cNo' = cNo /\ sNo' = sNo /\ prepare' = prepare
  BY BytesTaken
<1>2. queued' = 0 /\ ~prepare' /\ ~hdrSent'
  BY <1>1 DEF respVars
<1>3. OnePending' /\ CleanWhenPooled' /\ NothingAfterClose'
  BY <1>2 DEF OnePending, CleanWhenPooled, NothingAfterClose
<1>4. ResponseExact'
  BY <1>2 DEF ResponseExact
<1>5. TransactionsInStep'
  BY <1>1 DEF SessionInv, TransactionsInStep
<1> QED
  BY <1>3, <1>4, <1>5 DEF SessionInv

(* kContinue: another read, or the exception that loses the thread.        *)
LEMMA ReceiveMoreStep ==
    ASSUME SessionInv, NEW k \in 1 .. avail, ReceiveMore(k)
    PROVE  SessionInv'
<1> DEFINE buf == ubuf + k
<1>1. /\ Received(k)
      /\ ParseHeader(buf)
      /\ ubuf' = IF HeaderIn(buf) THEN Body(buf) ELSE buf
      /\ AsyncReceive(expSet', expSz', received')
      /\ UNCHANGED <<closes, queued, respVars, progVars>>
  BY DEF ReceiveMore
<1>2. /\ k \in Nat /\ buf \in Nat /\ life = "open" /\ closes = 0 /\ received' \in Nat
      /\ req' \in Requests /\ cNo' \in 1 .. MaxRequests
      /\ sNo' \in 1 .. MaxRequests + 1
      /\ unsent' \in Nat /\ avail' \in Nat /\ skew' \in Nat
      /\ gone' \in BOOLEAN /\ conns' \in 0 .. Connections
      /\ queued = 0 /\ ~prepare /\ prepare' = prepare
  BY <1>1, BytesTaken
<1>3. TypeOK /\ TransactionsInStep
  BY DEF SessionInv
<1>4. /\ ready' \in BOOLEAN /\ keepAlive' \in BOOLEAN
      /\ expSet' \in BOOLEAN /\ expSz' \in Nat
      /\ ready' => sNo <= cNo
  BY <1>1, <1>2, <1>3, HeaderParsed
<1>5. /\ \/ life' = "open" /\ op' = "read"
         \/ life' = "dead" /\ op' = "none"
      /\ fate' \in {"none", "BadReceptionState", "overrun", "spin"}
      /\ need' \in 0 .. MaxTransfer
  BY <1>1, <1>2, <1>3, <1>4, NextRead DEF TypeOK
<1>6. ubuf' \in Nat
  BY <1>1, <1>2, <1>3, BodyIsCounted
<1>7. TypeOK'
  BY <1>1, <1>2, <1>3, <1>4, <1>5, <1>6 DEF TypeOK, respVars, progVars
<1> QED
  BY <1>1, <1>2, <1>4, <1>5, <1>7, NotAnswered

(* kClose: the close takes the place of the read.                          *)
LEMMA ReceiveRejectedStep ==
    ASSUME SessionInv, NEW k \in 1 .. avail, ReceiveRejected(k)
    PROVE  SessionInv'
<1> DEFINE buf == ubuf + k
<1>1. /\ Received(k)
      /\ HeaderIn(buf)
      /\ ParseHeader(buf)
      /\ ubuf' = Body(buf)
      /\ AsyncClose
      /\ UNCHANGED <<queued, respVars, progVars>>
  BY DEF ReceiveRejected, NeedsMore
<1>2. /\ k \in Nat /\ buf \in Nat /\ life = "open" /\ closes = 0 /\ received' \in Nat
      /\ req' \in Requests /\ cNo' \in 1 .. MaxRequests
      /\ sNo' \in 1 .. MaxRequests + 1
      /\ unsent' \in Nat /\ avail' \in Nat /\ skew' \in Nat
      /\ gone' \in BOOLEAN /\ conns' \in 0 .. Connections
      /\ queued = 0 /\ ~prepare /\ prepare' = prepare
  BY <1>1, BytesTaken
<1>3. TypeOK /\ TransactionsInStep
  BY DEF SessionInv
<1>4. /\ ready' \in BOOLEAN /\ keepAlive' \in BOOLEAN
      /\ expSet' \in BOOLEAN /\ expSz' \in Nat
      /\ ready' => sNo <= cNo
  BY <1>1, <1>2, <1>3, HeaderParsed
<1>5. 0 \in 0 .. MaxTransfer
  BY <1>3, RequestFields DEF TypeOK
<1>6. closes' = 1 /\ op' = "none" /\ need' = 0 /\ UNCHANGED <<life, fate>>
  BY <1>1, <1>2 DEF AsyncClose
<1>7. ubuf' \in Nat
  BY <1>1, <1>2, <1>3, BodyIsCounted
<1>8. TypeOK'
  BY <1>1, <1>2, <1>3, <1>4, <1>5, <1>6, <1>7 DEF TypeOK, respVars, progVars
<1> QED
  BY <1>1, <1>2, <1>4, <1>6, <1>8, NotAnswered

(* An erase() beyond the end: the session is lost.                         *)
LEMMA ReceiveOverrunsStep ==
    ASSUME SessionInv, NEW k \in 1 .. avail, ReceiveOverruns(k)
    PROVE  SessionInv'
<1> DEFINE buf == ubuf + k
<1>1. /\ Received(k)
      /\ HeaderIn(buf)
      /\ ParseHeader(buf)
      /\ ubuf' = Body(buf)
      /\ life' = "dead" /\ fate' = "overrun"
      /\ op' = "none" /\ need' = 0
      /\ UNCHANGED <<closes, queued, respVars, progVars>>
  BY DEF ReceiveOverruns
<1>2. /\ k \in Nat /\ buf \in Nat /\ life = "open" /\ closes = 0 /\ received' \in Nat
      /\ req' \in Requests /\ cNo' \in 1 .. MaxRequests
      /\ sNo' \in 1 .. MaxRequests + 1
      /\ unsent' \in Nat /\ avail' \in Nat /\ skew' \in Nat
      /\ gone' \in BOOLEAN /\ conns' \in 0 .. Connections
      /\ queued = 0 /\ ~prepare /\ prepare' = prepare
  BY <1>1, BytesTaken
<1>3. TypeOK /\ TransactionsInStep
  BY DEF SessionInv
<1>4. /\ ready' \in BOOLEAN /\ keepAlive' \in BOOLEAN
      /\ expSet' \in BOOLEAN /\ expSz' \in Nat
      /\ ready' => sNo <= cNo
  BY <1>1, <1>2, <1>3, HeaderParsed
<1>5. 0 \in 0 .. MaxTransfer
  BY <1>3, RequestFields DEF TypeOK
<1>6. ubuf' \in Nat
  BY <1>1, <1>2, <1>3, BodyIsCounted
<1>7. TypeOK'
  BY <1>1, <1>2, <1>3, <1>4, <1>5, <1>6 DEF TypeOK, respVars, progVars
<1> QED
  BY <1>1, <1>2, <1>4, <1>7, NotAnswered

(* A feed() that never returns: the session is lost.                       *)
LEMMA ReceiveSpinsStep ==
    ASSUME SessionInv, NEW k \in 1 .. avail, ReceiveSpins(k)
    PROVE  SessionInv'
<1> DEFINE buf == ubuf + k
<1>1. /\ Received(k)
      /\ HeaderIn(buf) /\ Runs(buf)
      /\ ParseHeader(buf)
      /\ ubuf' = Feed(buf)
      /\ program' = TRUE /\ processed' = Processed(buf)
      /\ download' \in {0, req.down} /\ finished' = FALSE
      /\ life' = "dead" /\ fate' = "spin"
      /\ op' = "none" /\ need' = 0
      /\ UNCHANGED <<closes, queued, respVars>>
  BY DEF ReceiveSpins, Runs
<1>2. /\ k \in Nat /\ buf \in Nat /\ life = "open" /\ closes = 0 /\ received' \in Nat
      /\ req' \in Requests /\ cNo' \in 1 .. MaxRequests
      /\ sNo' \in 1 .. MaxRequests + 1
      /\ unsent' \in Nat /\ avail' \in Nat /\ skew' \in Nat
      /\ gone' \in BOOLEAN /\ conns' \in 0 .. Connections
      /\ queued = 0 /\ ~prepare /\ prepare' = prepare
  BY <1>1, BytesTaken
<1>3. TypeOK /\ TransactionsInStep
  BY DEF SessionInv
<1>4. /\ ready' \in BOOLEAN /\ keepAlive' \in BOOLEAN
      /\ expSet' \in BOOLEAN /\ expSz' \in Nat
      /\ ready' => sNo <= cNo
  BY <1>1, <1>2, <1>3, HeaderParsed
<1>5. 0 \in 0 .. MaxTransfer /\ req.down \in Nat
  BY <1>3, RequestFields DEF TypeOK
<1>6. ubuf' \in Nat /\ processed' \in Nat /\ download' \in Nat
  BY <1>1, <1>2, <1>3, <1>5, BodyIsCounted
<1>7. TypeOK'
  BY <1>1, <1>2, <1>3, <1>4, <1>5, <1>6 DEF TypeOK, respVars
<1> QED
  BY <1>1, <1>2, <1>4, <1>7, NotAnswered

(* What feed() and consume() leave in the program.                         *)
LEMMA ProgramFed ==
    ASSUME TypeOK, TransactionsInStep, NEW buf \in Nat, FeedProgram(buf)
    PROVE  /\ ready' = TRUE /\ keepAlive' \in BOOLEAN
           /\ expSet' \in BOOLEAN /\ expSz' \in Nat
           /\ sNo <= cNo
           /\ ubuf' \in Nat /\ program' \in BOOLEAN
           /\ processed' \in Nat /\ download' \in Nat
<1>1. HeaderIn(buf) /\ Runs(buf) /\ ParseHeader(buf) /\ ubuf' = 0
      /\ program' = TRUE /\ processed' = Processed(buf)
      /\ download' = IF program THEN download
                     ELSE IF Url = "vscript" THEN req.down ELSE 0
  BY DEF FeedProgram, Runs
<1>2. /\ ready' = TRUE /\ keepAlive' \in BOOLEAN
      /\ expSet' \in BOOLEAN /\ expSz' \in Nat
      /\ sNo <= cNo
  BY <1>1, HeaderParsed
<1>3. processed' \in Nat
  BY <1>1, BodyIsCounted
<1>4. req.down \in Nat
  BY RequestFields DEF TypeOK
<1>5. download' \in Nat
  BY <1>1, <1>4 DEF TypeOK
<1> QED
  BY <1>1, <1>2, <1>3, <1>5

(* The program was fed and more data is expected: another read.            *)
LEMMA ReceiveFedStep ==
    ASSUME SessionInv, NEW k \in 1 .. avail, ReceiveFed(k)
    PROVE  SessionInv'
<1> DEFINE buf == ubuf + k
<1>1. /\ Received(k)
      /\ FeedProgram(buf)
      /\ finished' = FALSE
      /\ AsyncReceive(expSet', expSz', received')
      /\ UNCHANGED <<closes, queued, respVars>>
  BY DEF ReceiveFed
<1>2. /\ k \in Nat /\ buf \in Nat /\ life = "open" /\ closes = 0 /\ received' \in Nat
      /\ req' \in Requests /\ cNo' \in 1 .. MaxRequests
      /\ sNo' \in 1 .. MaxRequests + 1
      /\ unsent' \in Nat /\ avail' \in Nat /\ skew' \in Nat
      /\ gone' \in BOOLEAN /\ conns' \in 0 .. Connections
      /\ queued = 0 /\ ~prepare /\ prepare' = prepare
  BY <1>1, BytesTaken
<1>3. TypeOK /\ TransactionsInStep
  BY DEF SessionInv
<1>4. /\ ready' = TRUE /\ keepAlive' \in BOOLEAN
      /\ expSet' \in BOOLEAN /\ expSz' \in Nat
      /\ sNo <= cNo
      /\ ubuf' \in Nat /\ program' \in BOOLEAN
      /\ processed' \in Nat /\ download' \in Nat
  BY <1>1, <1>2, <1>3, ProgramFed
<1>5. /\ \/ life' = "open" /\ op' = "read"
         \/ life' = "dead" /\ op' = "none"
      /\ fate' \in {"none", "BadReceptionState", "overrun", "spin"}
      /\ need' \in 0 .. MaxTransfer
  BY <1>1, <1>2, <1>3, <1>4, NextRead DEF TypeOK
<1>6. TypeOK'
  BY <1>1, <1>2, <1>3, <1>4, <1>5 DEF TypeOK, respVars
<1> QED
  BY <1>1, <1>2, <1>4, <1>5, <1>6, NotAnswered

(* The response: the queue was empty, so send() starts the one write.      *)
LEMMA ReceiveRespondsStep ==
    ASSUME SessionInv, NEW k \in 1 .. avail, ReceiveResponds(k)
    PROVE  SessionInv'
<1> DEFINE buf == ubuf + k
<1>1. /\ Received(k)
      /\ FeedProgram(buf)
      /\ finished' = TRUE /\ hdrSent' = TRUE
      /\ contentLength' = download' /\ bodySent' = 0
      /\ Send
      /\ need' = 0
      /\ UNCHANGED <<closes, life, fate>>
  BY DEF ReceiveResponds
<1>2. /\ k \in Nat /\ buf \in Nat /\ life = "open" /\ closes = 0 /\ received' \in Nat
      /\ req' \in Requests /\ cNo' \in 1 .. MaxRequests
      /\ sNo' \in 1 .. MaxRequests + 1
      /\ unsent' \in Nat /\ avail' \in Nat /\ skew' \in Nat
      /\ gone' \in BOOLEAN /\ conns' \in 0 .. Connections
      /\ queued = 0 /\ ~prepare /\ prepare' = prepare
      /\ cNo' = cNo /\ sNo' = sNo
  BY <1>1, BytesTaken
<1>3. TypeOK /\ TransactionsInStep
  BY DEF SessionInv
<1>4. /\ ready' = TRUE /\ keepAlive' \in BOOLEAN
      /\ expSet' \in BOOLEAN /\ expSz' \in Nat
      /\ sNo <= cNo
      /\ ubuf' \in Nat /\ program' \in BOOLEAN
      /\ processed' \in Nat /\ download' \in Nat
  BY <1>1, <1>2, <1>3, ProgramFed
<1>5. queued' = 1 /\ op' = "write"
  BY <1>1, <1>2 DEF Send
<1>6. 0 \in 0 .. MaxTransfer
  BY <1>3, RequestFields DEF TypeOK
<1>7. TypeOK'
  BY <1>1, <1>2, <1>3, <1>4, <1>5, <1>6 DEF TypeOK
<1>8. OnePending' /\ CleanWhenPooled' /\ NothingAfterClose'
  BY <1>1, <1>2, <1>5 DEF OnePending, CleanWhenPooled, NothingAfterClose
<1>9. ResponseExact'
  <2>1. bodySent' = 0 /\ contentLength' = download' /\ download' \in Nat
    BY <1>1, <1>4
  <2>2. \A d \in Nat : 0 + d = d
    OBVIOUS
  <2>3. bodySent' + download' = contentLength'
    BY <2>1, <2>2, Zenon
  <2> QED
    BY <1>1, <1>4, <1>5, <2>1, <2>3, LengthAnnounced DEF ResponseExact
<1>10. TransactionsInStep'
  BY <1>2, <1>3, <1>4 DEF TransactionsInStep
<1> QED
  BY <1>7, <1>8, <1>9, <1>10 DEF SessionInv

(* An error on a read or a write: the close is posted in its place.        *)
LEMMA FailureStep ==
    ASSUME SessionInv, ReceiveFails \/ SendFails
    PROVE  SessionInv'
<1> USE DEF SessionInv
<1>1. /\ op # "none" /\ AsyncClose
      /\ op = "read" => queued' = queued
      /\ op = "write" => queued' = 0
      /\ UNCHANGED <<clientVars, recvVars, respVars, progVars, prepare, sNo, ready,
                     keepAlive>>
  BY DEF ReceiveFails, SendFails
<1>2. life = "open"
  BY <1>1 DEF NothingAfterClose
<1>3. closes = 0 /\ ~prepare /\ (op = "read" => queued = 0)
  BY <1>1, <1>2 DEF OnePending, TypeOK
<1>4. queued' = 0
  BY <1>1, <1>3 DEF TypeOK
<1>5. closes' = 1 /\ op' = "none" /\ need' = 0 /\ life' = "open" /\ fate' = fate
  BY <1>1, <1>2, <1>3 DEF AsyncClose
<1>6. 0 \in 0 .. MaxTransfer
  BY RequestFields DEF TypeOK
<1>7. TypeOK'
  BY <1>1, <1>4, <1>5, <1>6 DEF TypeOK, clientVars, recvVars, respVars, progVars
<1>8. OnePending' /\ CleanWhenPooled' /\ NothingAfterClose'
  BY <1>1, <1>3, <1>4, <1>5 DEF OnePending, CleanWhenPooled, NothingAfterClose
<1>9. ResponseExact'
  BY <1>1, <1>5 DEF ResponseExact, Announced, respVars, progVars
<1>10. TransactionsInStep'
  BY <1>1 DEF TransactionsInStep, clientVars
<1> QED
  BY <1>7, <1>8, <1>9, <1>10

(* A write is done: its queue held one buffer, so this is on_sent().  The  *)
(* next piece takes from download what it adds to bodySent, and only a     *)
(* transaction the client has begun comes to its end.                      *)
LEMMA SentStep ==
    ASSUME SessionInv, Sent
    PROVE  SessionInv'
<1> USE DEF SessionInv
<1>1. op = "write" /\ UNCHANGED clientVars
  BY DEF Sent
<1>2. life = "open"
  BY <1>1 DEF NothingAfterClose
<1>3. closes = 0 /\ ~prepare /\ queued = 1
  BY <1>1, <1>2 DEF OnePending, TypeOK
<1>4. ready /\ finished /\ hdrSent /\ bodySent + download = contentLength
  BY <1>1 DEF ResponseExact
<1>5. 0 \in 0 .. MaxTransfer /\ 1 \in 0 .. MaxTransfer
  BY RequestFields DEF TypeOK
<1>6. SentMore \/ SentKeepsAlive \/ SentCloses
  BY <1>3 DEF Sent
<1>7. CASE SentMore
  <2>1. /\ download > 0 /\ download' = download - Chunk(download)
        /\ bodySent' = bodySent + Chunk(download)
        /\ queued' = 1
        /\ prepare' = FALSE /\ closes' = 0
        /\ UNCHANGED <<recvVars, hdrSent, contentLength, program, processed, finished,
                       life, fate, op, need, sNo, ready, keepAlive>>
    BY <1>3, <1>7 DEF SentMore, PendingShutdown
  <2>2. Chunk(download) \in 0 .. download
    BY ChunkBounds DEF TypeOK
  <2>3. download' \in Nat /\ bodySent' \in Nat
        /\ bodySent' + download' = bodySent + download
    BY <2>1, <2>2 DEF TypeOK
  <2>4. TypeOK'
    BY <1>1, <2>1, <2>3 DEF TypeOK, clientVars, recvVars
  <2>5. OnePending' /\ CleanWhenPooled' /\ NothingAfterClose'
    BY <1>1, <1>2, <2>1 DEF OnePending, CleanWhenPooled, NothingAfterClose
  <2>6. ResponseExact'
    BY <1>1, <1>4, <2>1, <2>3, <2>4 DEF ResponseExact, Announced, TypeOK
  <2>7. TransactionsInStep'
    BY <1>1, <2>1 DEF TransactionsInStep, clientVars
  <2> QED
    BY <2>4, <2>5, <2>6, <2>7
<1>8. CASE SentKeepsAlive
  <2>1. /\ queued' = 0 /\ sNo' = sNo + 1
        /\ program' = FALSE /\ ready' = FALSE /\ keepAlive' = FALSE
        /\ hdrSent' = FALSE
        /\ expSet' = FALSE /\ expSz' = 0 /\ received' = 0 /\ ubuf' = 0
        /\ prepare' = FALSE /\ closes' = 0
        /\ UNCHANGED <<contentLength, bodySent, processed, download, finished>>
    BY <1>3, <1>8 DEF SentKeepsAlive, ResetTransaction, PendingShutdown
  <2>2. op' = "read" /\ need' = 1 /\ UNCHANGED <<life, fate>>
    BY <1>8 DEF SentKeepsAlive, AsyncReceive
  <2>3. sNo <= cNo
    BY <1>4 DEF TransactionsInStep
  <2>4. sNo' \in 1 .. MaxRequests + 1 /\ sNo' <= cNo' + 1
    BY <1>1, <2>1, <2>3, BoundsAssumption DEF TypeOK, clientVars
  <2>5. TypeOK'
    BY <1>1, <1>5, <2>1, <2>2, <2>4 DEF TypeOK, clientVars
  <2>6. OnePending' /\ CleanWhenPooled' /\ NothingAfterClose'
    BY <1>2, <2>1, <2>2 DEF OnePending, CleanWhenPooled, NothingAfterClose
  <2>7. ResponseExact'
    BY <2>1, <2>2 DEF ResponseExact
  <2>8. TransactionsInStep'
    BY <2>1, <2>4 DEF TransactionsInStep
  <2> QED
    BY <2>5, <2>6, <2>7, <2>8
<1>9. CASE SentCloses
  <2>1. /\ queued' = 0 /\ op' = "none" /\ need' = 0
        /\ prepare' = FALSE /\ closes' = 1
        /\ UNCHANGED <<recvVars, respVars, progVars, life, fate, sNo, ready,
                       keepAlive>>
    BY <1>3, <1>9 DEF SentCloses, PendingShutdown
  <2>2. TypeOK'
    BY <1>1, <1>5, <2>1 DEF TypeOK, clientVars, recvVars, respVars, progVars
  <2>3. OnePending' /\ CleanWhenPooled' /\ NothingAfterClose'
    BY <1>2, <2>1 DEF OnePending, CleanWhenPooled, NothingAfterClose
  <2>4. ResponseExact'
    BY <2>1 DEF ResponseExact, Announced, respVars, progVars
  <2>5. TransactionsInStep'
    BY <1>1, <2>1 DEF TransactionsInStep, clientVars
  <2> QED
    BY <2>2, <2>3, <2>4, <2>5
<1> QED
  BY <1>6, <1>7, <1>8, <1>9

(* The posted close finds an open session with nothing queued and no       *)
(* operation pending, and is the only one: it finalizes the session.       *)
LEMMA CloseOnceStep ==
    ASSUME SessionInv, CloseOnce
    PROVE  SessionInv'
<1> USE DEF SessionInv
<1>1. closes > 0 /\ closes' = closes - 1
      /\ UNCHANGED <<clientVars, recvVars, respVars, processed, download, finished,
                     fate, op, need, queued, sNo, ready, keepAlive>>
  BY DEF CloseOnce
<1>2. life = "open"
  BY <1>1 DEF NothingAfterClose
<1>3. closes = 1 /\ op = "none" /\ queued = 0 /\ ~prepare
  BY <1>1, <1>2 DEF OnePending, TypeOK
<1>4. prepare' = prepare /\ life' = "pooled" /\ program' = FALSE
  BY <1>2, <1>3 DEF CloseOnce
<1>5. closes' = 0
  BY <1>1, <1>3
<1>6. TypeOK'
  <2>1. closes' \in Nat /\ life' \in {"open", "pooled", "dead"}
        /\ program' \in BOOLEAN /\ prepare' \in BOOLEAN
    BY <1>4, <1>5 DEF TypeOK
  <2> QED
    BY <1>1, <2>1 DEF TypeOK, clientVars, recvVars, respVars
<1>7. OnePending' /\ CleanWhenPooled' /\ NothingAfterClose'
  BY <1>1, <1>3, <1>4, <1>5 DEF OnePending, CleanWhenPooled, NothingAfterClose
<1>8. ResponseExact'
  BY <1>1, <1>3 DEF ResponseExact, Announced, respVars
<1>9. TransactionsInStep'
  BY <1>1 DEF TransactionsInStep, clientVars
<1> QED
  BY <1>6, <1>7, <1>8, <1>9

(* setup() and reset_buffers() on the object that CleanWhenPooled gives.   *)
LEMMA NextConnectionStep ==
    ASSUME SessionInv, NEW q \in Requests, NextConnection(q)
    PROVE  SessionInv'
<1> USE DEF SessionInv
<1>1. /\ life = "pooled" /\ conns > 0 /\ conns' = conns - 1
      /\ req' = q /\ unsent' = q.hdr + q.len
      /\ cNo' = 1 /\ avail' = 0 /\ skew' = 0 /\ gone' = FALSE
      /\ life' = "open" /\ fate' = fate
      /\ program' = FALSE /\ ready' = FALSE /\ keepAlive' = FALSE /\ hdrSent' = FALSE
      /\ expSet' = FALSE /\ expSz' = 0 /\ received' = 0 /\ ubuf' = 0
      /\ op' = "read" /\ need' = 1 /\ sNo' = 1
      /\ UNCHANGED <<contentLength, bodySent, processed, download, finished, closes,
                     queued, prepare>>
  BY DEF NextConnection, Begin, ResetTransaction
<1>2. closes = 0 /\ queued = 0 /\ ~prepare
  BY <1>1 DEF CleanWhenPooled
<1>3. q.hdr + q.len \in Nat /\ 1 \in 0 .. MaxTransfer
  BY RequestFields
<1>4. 1 \in 1 .. MaxRequests /\ 1 \in 1 .. MaxRequests + 1
  BY BoundsAssumption
<1>5. conns' \in 0 .. Connections
  BY <1>1, BoundsAssumption DEF TypeOK
<1>6. TypeOK'
  BY <1>1, <1>3, <1>4, <1>5 DEF TypeOK
<1>7. OnePending' /\ CleanWhenPooled' /\ NothingAfterClose'
  BY <1>1, <1>2 DEF OnePending, CleanWhenPooled, NothingAfterClose
<1>8. ResponseExact' /\ TransactionsInStep'
  BY <1>1 DEF ResponseExact, TransactionsInStep
<1> QED
  BY <1>6, <1>7, <1>8

(* A client that goes on to its next request stays in step.               *)
LEMMA ClientAhead ==
    ASSUME TransactionsInStep, cNo \in Nat, cNo' \in Nat, sNo \in Nat,
           cNo <= cNo', sNo' = sNo, ready' = ready
    PROVE  TransactionsInStep'
<1>1. \A i, j, m \in Nat : i <= j /\ m <= i + 1 => m <= j + 1
  OBVIOUS
<1>2. sNo <= cNo + 1
  BY DEF TransactionsInStep
<1>3. sNo <= cNo' + 1
  BY <1>1, <1>2, Zenon
<1>4. sNo <= cNo => sNo <= cNo'
  OBVIOUS
<1> QED
  BY <1>3, <1>4 DEF TransactionsInStep

(* The client changes nothing of the session.                              *)
LEMMA ClientStep ==
    ASSUME SessionInv,
           \/ \E n \in 1 .. unsent : ClientSends(n)
           \/ \E q \in Requests : ClientNext(q)
           \/ ClientLeaves
    PROVE  SessionInv'
<1> USE DEF SessionInv
<1>1. UNCHANGED <<conns, recvVars, respVars, progVars, life, fate, op, need, closes,
                  queued, prepare, sNo, ready, keepAlive>>
  BY DEF ClientSends, ClientNext, ClientLeaves
<1>2. /\ req' \in Requests /\ cNo' \in 1 .. MaxRequests /\ cNo <= cNo'
      /\ unsent' \in Nat /\ avail' \in Nat /\ skew' \in Nat /\ gone' \in BOOLEAN
  <2>1. CASE \E n \in 1 .. unsent : ClientSends(n)
    BY <2>1 DEF ClientSends, TypeOK
  <2>2. CASE \E q \in Requests : ClientNext(q)
    <3>1. PICK q \in Requests : ClientNext(q)
      BY <2>2
    <3>2. q.hdr + q.len \in Nat
      BY RequestFields
    <3> QED
      BY <3>1, <3>2, BoundsAssumption DEF ClientNext, Begin, TypeOK
  <2>3. CASE ClientLeaves
    BY <2>3 DEF ClientLeaves, TypeOK
  <2> QED
    BY <2>1, <2>2, <2>3
<1>3. TypeOK'
  BY <1>1, <1>2 DEF TypeOK, recvVars, respVars, progVars
<1>4. OnePending' /\ CleanWhenPooled' /\ NothingAfterClose'
  BY <1>1 DEF OnePending, CleanWhenPooled, NothingAfterClose, progVars
<1>5. ResponseExact'
  BY <1>1 DEF ResponseExact, Announced, respVars, progVars
<1>6. TransactionsInStep'
  <2>1. cNo \in Nat /\ cNo' \in Nat /\ sNo \in Nat
    BY <1>2 DEF TypeOK
  <2>2. sNo' = sNo /\ ready' = ready
    BY <1>1
  <2> QED
    BY <1>2, <2>1, <2>2, ClientAhead
<1> QED
  BY <1>3, <1>4, <1>5, <1>6

-----------------------------------------------------------------------------
(* The invariant.                                                          *)

(* A session that has just been started.                                   *)
LEMMA SessionInit == Init => SessionInv
<1> SUFFICES ASSUME Init PROVE SessionInv
  OBVIOUS
<1>1. req.hdr + req.len \in Nat /\ 1 \in 0 .. MaxTransfer
  BY RequestFields DEF Init
<1>2. TypeOK
  <2>1. /\ cNo \in 1 .. MaxRequests /\ sNo \in 1 .. MaxRequests + 1
        /\ unsent \in Nat /\ conns \in 0 .. Connections /\ need \in 0 .. MaxTransfer
    BY <1>1, BoundsAssumption DEF Init
  <2> QED
    BY <2>1 DEF Init, TypeOK
<1>3. OnePending /\ CleanWhenPooled /\ NothingAfterClose
  BY DEF Init, OnePending, CleanWhenPooled, NothingAfterClose
<1>4. ResponseExact /\ TransactionsInStep
  BY DEF Init, ResponseExact, TransactionsInStep
<1> QED
  BY <1>2, <1>3, <1>4 DEF SessionInv

(* Every handler and every step of the client keeps the invariant.         *)
LEMMA SessionNext == SessionInv /\ [Next]_vars => SessionInv'
<1> SUFFICES ASSUME SessionInv, [Next]_vars PROVE SessionInv'
  OBVIOUS
<1>1. CASE \/ \E n \in 1 .. unsent : ClientSends(n)
           \/ \E q \in Requests : ClientNext(q)
           \/ ClientLeaves
  BY <1>1, ClientStep
<1>2. CASE \E q \in Requests : NextConnection(q)
  BY <1>2, NextConnectionStep
<1>3. CASE ReadCompletes
  <2>1. PICK k \in 1 .. avail :
            \/ ReceiveMore(k) \/ ReceiveRejected(k) \/ ReceiveOverruns(k)
            \/ ReceiveSpins(k) \/ ReceiveFed(k) \/ ReceiveResponds(k)
    BY <1>3 DEF ReadCompletes
  <2> QED
    BY <2>1, ReceiveMoreStep, ReceiveRejectedStep, ReceiveOverrunsStep,
       ReceiveSpinsStep, ReceiveFedStep, ReceiveRespondsStep
<1>4. CASE ReceiveFails \/ SendFails
  BY <1>4, FailureStep
<1>5. CASE Sent
  BY <1>5, SentStep
<1>6. CASE CloseOnce
  BY <1>6, CloseOnceStep
<1>7. CASE UNCHANGED vars
  BY <1>7 DEF SessionInv, TypeOK, OnePending, CleanWhenPooled, ResponseExact, Announced,
              NothingAfterClose, TransactionsInStep, vars, clientVars, recvVars,
              respVars, progVars
<1> QED
  BY <1>1, <1>2, <1>3, <1>4, <1>5, <1>6, <1>7 DEF Next, Handler

(* The inductive invariant holds in every reachable state: the parts of    *)
(* the session that the handlers keep in step with one another.            *)
THEOREM SessionInvariant == Spec => []SessionInv
BY SessionInit, SessionNext, PTL DEF Spec

(* Every counter of the session keeps its type: the unsigned differences   *)
(* of async_receive(), on_data() and on_sent() never wrap around, and the  *)
(* minimum transfer of a read fits the receive buffer.                     *)
THEOREM SessionTypeOK == Spec => []TypeOK
<1>1. SessionInv => TypeOK
  BY DEF SessionInv
<1> QED
  BY <1>1, SessionInvariant, PTL

(* Whatever arrives, in whatever pieces, and whenever the client leaves: a *)
(* session in use has exactly one read, write or posted close under way,   *)
(* so that close_once() never has to be put off.                           *)
THEOREM OneOperationPending == Spec => []OnePending
<1>1. SessionInv => OnePending
  BY DEF SessionInv
<1> QED
  BY <1>1, SessionInvariant, PTL

(* finalize() gives back an object that setup() can use: neither an        *)
(* operation nor a buffer nor a close of one connection meets the next.    *)
THEOREM PooledIsClean == Spec => []CleanWhenPooled
<1>1. SessionInv => CleanWhenPooled
  BY DEF SessionInv
<1> QED
  BY <1>1, SessionInvariant, PTL

(* Of every response, the pieces handed to send() and what is still due    *)
(* add up to content_length_, for every chunk size and download; "%d"      *)
(* prints that number in the header if and only if an int holds it; and    *)
(* the assertions of respond(), get_keep_alive() and has_more_data() hold. *)
THEOREM ResponsesAreExact == Spec => []ResponseExact
<1>1. SessionInv => ResponseExact
  BY DEF SessionInv
<1> QED
  BY <1>1, SessionInvariant, PTL

(* A connection is closed once: whatever ends it, the one close_once()     *)
(* that is posted runs on an open session and gives the object back, and   *)
(* nothing else does.                                                      *)
THEOREM ClosedOnce == Spec => CloseFinalizes
<1> DEFINE Closing == closes' < closes \/ (life' = "pooled" /\ life # "pooled")
           Closed  == closes = 1 /\ closes' = 0 /\ life = "open" /\ life' = "pooled"
<1>1. ASSUME SessionInv, CloseOnce PROVE Closed
  <2>1. closes > 0 /\ closes' = closes - 1
    BY <1>1 DEF CloseOnce
  <2>2. life = "open"
    BY <1>1, <2>1 DEF SessionInv, NothingAfterClose
  <2>3. closes = 1 /\ queued = 0
    BY <1>1, <2>1, <2>2 DEF SessionInv, OnePending, TypeOK
  <2>4. closes' = 0
    BY <2>1, <2>3
  <2> QED
    BY <1>1, <2>2, <2>3, <2>4 DEF CloseOnce
<1>2. ASSUME SessionInv, [Next]_vars, ~CloseOnce PROVE ~Closing
  <2>1. closes \in Nat
    BY <1>2 DEF SessionInv, TypeOK
  <2>2. ASSUME closes' \in {closes, closes + 1}, life' \in {life, "open", "dead"}
        PROVE  ~Closing
    BY <2>1, <2>2
  <2>3. CASE \/ \E n \in 1 .. unsent : ClientSends(n)
             \/ \E q \in Requests : ClientNext(q) \/ NextConnection(q)
             \/ ClientLeaves
    <3>1. closes' = closes /\ life' \in {life, "open"}
      BY <2>3 DEF ClientSends, ClientNext, NextConnection, ClientLeaves
    <3> QED
      BY <2>2, <3>1
  <2>4. CASE ReadCompletes
    <3>1. PICK k \in 1 .. avail :
              \/ ReceiveMore(k) \/ ReceiveRejected(k) \/ ReceiveOverruns(k)
              \/ ReceiveSpins(k) \/ ReceiveFed(k) \/ ReceiveResponds(k)
      BY <2>4 DEF ReadCompletes
    <3>2. closes' \in {closes, closes + 1}
      BY <3>1 DEF ReceiveMore, ReceiveRejected, ReceiveOverruns, ReceiveSpins,
                  ReceiveFed, ReceiveResponds, AsyncClose
    <3>3. life' \in {life, "dead"}
      BY <3>1 DEF ReceiveMore, ReceiveRejected, ReceiveOverruns, ReceiveSpins,
                  ReceiveFed, ReceiveResponds, AsyncClose, AsyncReceive
    <3> QED
      BY <2>2, <3>2, <3>3
  <2>5. CASE ReceiveFails \/ SendFails
    <3>1. closes' = closes + 1 /\ life' = life
      BY <2>5 DEF ReceiveFails, SendFails, AsyncClose
    <3> QED
      BY <2>2, <3>1
  <2>6. CASE Sent
    <3>1. ~prepare
      BY <1>2, <2>6 DEF Sent, SessionInv, OnePending, NothingAfterClose
    <3>2. closes' \in {closes, closes + 1} /\ life' = life
      BY <2>6, <3>1 DEF Sent, SentMore, SentKeepsAlive, SentCloses, PendingShutdown,
                        AsyncReceive
    <3> QED
      BY <2>2, <3>2
  <2>7. CASE UNCHANGED vars
    BY <2>2, <2>7 DEF vars
  <2> HIDE DEF Closing
  <2> QED
    BY <1>2, <2>3, <2>4, <2>5, <2>6, <2>7 DEF Next, Handler
<1>3. SessionInv /\ [Next]_vars => [Closing => Closed]_vars
  BY <1>1, <1>2
<1> QED
  BY <1>3, SessionInvariant, PTL DEF Spec, CloseFinalizes

(* The session object implements SessionLife: each life has one close, and *)
(* neither an operation nor a loss comes behind it.                        *)
THEOREM LivesAsPromised == Spec => LifeSpec
<1>1. Init => Life!LifeInit
  <2> SUFFICES ASSUME Init PROVE Life!LifeInit
    OBVIOUS
  <2>1. life = "open" /\ closes = 0
    BY DEF Init
  <2>2. Stage = "open"
    BY <2>1 DEF Stage
  <2> QED
    BY <2>2 DEF Life!LifeInit, Stages
<1>2. ASSUME NEW from, NEW to, Stage = from, Stage' = to,
             \/ from = "idle" /\ to = "open"
             \/ from = "open" /\ to = "closing"
             \/ from = "closing" /\ to = "idle"
             \/ from = "open" /\ to = "lost"
      PROVE  Life!LifeNext
  <2>1. "session" \in {"session"} /\ Stages["session"] = from
    BY <1>2 DEF Stages
  <2>2. Stages' = [s \in {"session"} |-> to]
    BY <1>2 DEF Stages
  <2>3. [s \in {"session"} |-> to] = [Stages EXCEPT !["session"] = to]
    BY DEF Stages
  <2>4. Life!Moves("session", from, to)
    BY <2>1, <2>2, <2>3 DEF Life!Moves
  <2> QED
    BY <1>2, <2>1, <2>4
       DEF Life!LifeNext, Life!Start, Life!RequestClose, Life!Finalize, Life!Lose
<1>3. ASSUME Stage' = Stage PROVE Stages' = Stages
  BY <1>3 DEF Stages
<1>4. ASSUME SessionInv, op # "none" PROVE life = "open" /\ closes = 0 /\ ~prepare
  <2>1. life = "open"
    BY <1>4 DEF SessionInv, NothingAfterClose
  <2> QED
    BY <1>4, <2>1 DEF SessionInv, OnePending, TypeOK
<1>5. ASSUME life = "open", closes = 0 PROVE Stage = "open"
  BY <1>5 DEF Stage
<1>6. ASSUME life' = "open", closes' = 1 PROVE Stage' = "closing"
  BY <1>6 DEF Stage
<1>7. ASSUME life' = "dead" PROVE Stage' = "lost"
  BY <1>7 DEF Stage
<1>8. ASSUME life' = life, closes' = closes PROVE Stage' = Stage
  BY <1>8 DEF Stage
<1>9. SessionInv /\ [Next]_vars => [Life!LifeNext]_Stages
  <2> SUFFICES ASSUME SessionInv, [Next]_vars PROVE [Life!LifeNext]_Stages
    OBVIOUS
  <2>1. CASE \/ \E n \in 1 .. unsent : ClientSends(n)
             \/ \E q \in Requests : ClientNext(q)
             \/ ClientLeaves
    <3>1. life' = life /\ closes' = closes
      BY <2>1 DEF ClientSends, ClientNext, ClientLeaves
    <3> QED
      BY <1>3, <1>8, <3>1
  <2>2. ASSUME NEW q \in Requests, NextConnection(q) PROVE Life!LifeNext
    <3>1. life = "pooled" /\ life' = "open" /\ closes' = closes
      BY <2>2 DEF NextConnection
    <3>2. closes = 0
      BY <3>1 DEF SessionInv, NothingAfterClose
    <3>3. Stage = "idle" /\ Stage' = "open"
      BY <3>1, <3>2 DEF Stage
    <3> QED
      BY <1>2, <3>3
  <2>3. CASE ReadCompletes
    <3>1. PICK k \in 1 .. avail :
              \/ ReceiveMore(k) \/ ReceiveRejected(k) \/ ReceiveOverruns(k)
              \/ ReceiveSpins(k) \/ ReceiveFed(k) \/ ReceiveResponds(k)
      BY <2>3 DEF ReadCompletes
    <3>2. op = "read"
      BY <3>1 DEF ReceiveMore, ReceiveRejected, ReceiveOverruns, ReceiveSpins,
                  ReceiveFed, ReceiveResponds, Received
    <3>3. life = "open" /\ closes = 0
      BY <1>4, <3>2
    <3>4. \/ life' = life /\ closes' = closes
          \/ life' = "dead"
          \/ life' = life /\ closes' = closes + 1
      BY <3>1 DEF ReceiveMore, ReceiveRejected, ReceiveOverruns, ReceiveSpins,
                  ReceiveFed, ReceiveResponds, AsyncClose, AsyncReceive
    <3>5. Stage = "open" /\ Stage' \in {Stage, "lost", "closing"}
      BY <1>5, <1>6, <1>7, <1>8, <3>3, <3>4
    <3> QED
      BY <1>2, <1>3, <3>5
  <2>4. CASE ReceiveFails \/ SendFails
    <3>1. op # "none" /\ closes' = closes + 1 /\ life' = life
      BY <2>4 DEF ReceiveFails, SendFails, AsyncClose
    <3>2. Stage = "open" /\ Stage' = "closing"
      BY <1>4, <1>5, <1>6, <3>1
    <3> QED
      BY <1>2, <3>2
  <2>5. CASE Sent
    <3>1. op # "none"
      BY <2>5 DEF Sent
    <3>2. life = "open" /\ closes = 0 /\ ~prepare
      BY <1>4, <3>1
    <3>3. life' = life /\ closes' \in {closes, closes + 1}
      BY <2>5, <3>2 DEF Sent, SentMore, SentKeepsAlive, SentCloses, PendingShutdown,
                        AsyncReceive
    <3>4. Stage = "open" /\ Stage' \in {Stage, "closing"}
      BY <1>5, <1>6, <1>8, <3>2, <3>3
    <3> QED
      BY <1>2, <1>3, <3>4
  <2>6. CASE CloseOnce
    <3>1. closes > 0 /\ closes' = closes - 1
      BY <2>6 DEF CloseOnce
    <3>2. life = "open"
      BY <3>1 DEF SessionInv, NothingAfterClose
    <3>3. queued = 0
      BY <3>1, <3>2 DEF SessionInv, OnePending, TypeOK
    <3>4. life' = "pooled"
      BY <2>6, <3>2, <3>3 DEF CloseOnce
    <3>5. Stage = "closing" /\ Stage' = "idle"
      BY <3>1, <3>2, <3>4 DEF Stage
    <3> QED
      BY <1>2, <3>5
  <2>7. CASE UNCHANGED vars
    BY <1>3, <1>8, <2>7 DEF vars
  <2> QED
    BY <2>1, <2>2, <2>3, <2>4, <2>5, <2>6, <2>7, Zenon DEF Next, Handler
<1> QED
  BY <1>1, <1>9, SessionInvariant, PTL DEF Spec, LifeSpec, Life!LifeSpec
=============================================================================
