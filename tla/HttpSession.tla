----------------------------- MODULE HttpSession -----------------------------
(***************************************************************************)
(* The data path of one session object: Session<Http> (src/src/session.hpp *)
(* and src/src/http.hpp), its outgoing queue (src/src/dynamic_queue.hpp)   *)
(* and the VScript it feeds (src/src/program.hpp), over the connections    *)
(* that use the object one after the other.                                *)
(*                                                                         *)
(* The handlers of a session never overlap: its context has one thread or  *)
(* the session has a strand.  What interleaves is the completion of its    *)
(* asynchronous operations, the closes it posts to itself, the segments in *)
(* which a request arrives and the departure of the client.  A client      *)
(* sends a request of a header and a body of the announced length, waits   *)
(* for the response and, on a kept connection, sends another one.          *)
(*                                                                         *)
(* Bytes are counted, not represented.  The response that a program's      *)
(* DOWNLOAD asks for is sent in pieces of at most ChunkSize.               *)
(***************************************************************************)
EXTENDS Integers

CONSTANTS Requests,      \* what clients may send, see RequestType
          MaxTransfer,   \* max_transfer_sz_
          ChunkSize,     \* Program::kSendBufferSz
          IntLimit,      \* 2^31, the first size that is not an int
          MaxRequests,   \* bound on the requests of a connection
          Connections    \* bound on the connections the object serves

(***************************************************************************)
(* hdr and len: bytes of header and body.  keep: Connection: keep-alive.   *)
(* For a VScript: line, the bytes of the body's first line; prog, the      *)
(* program length it states (0 if it is no number); good, whether the text *)
(* parses; point, the largest exec_point; down, the operand of DOWNLOAD.   *)
(***************************************************************************)
RequestType == [url : {"vscript", "sinkhole", "other"}, hdr : Nat \ {0},
                len : Nat, line : Nat, prog : Nat, good : BOOLEAN,
                point : Nat, down : Nat, keep : BOOLEAN]

ASSUME RequestsAssumption == Requests \subseteq RequestType
ASSUME SizesAssumption ==
    /\ ChunkSize \in Nat \ {0} /\ IntLimit \in Nat \ {0}
    /\ MaxTransfer \in Nat
    /\ \A q \in Requests : q.hdr + q.len < MaxTransfer
ASSUME BoundsAssumption == MaxRequests \in Nat \ {0} /\ Connections \in Nat

VARIABLES
    req,         \* the request the client sends or has sent last
    cNo,         \* its number on this connection
    unsent,      \* bytes of it still to be sent
    avail,       \* bytes in the socket
    skew,        \* bytes of the request before that were unread when it began
    gone,        \* the client has closed the connection
    conns,       \* connections still to come
    life,        \* "open", "pooled" (finalized) or "dead" (see fate)
    fate,        \* how the process or the thread was lost
    op,          \* the pending operation: "none", "read", "write"
    need,        \* the minimum transfer of the read
    closes,      \* close_once() handlers posted and not yet run
    expSet,      \* expected_data_chunck_sz_set_
    expSz,       \* expected_data_chunck_sz_
    received,    \* bytes_received_
    ubuf,        \* the number of bytes in ubuf_
    queued,      \* the length of outgoing_queue_
    prepare,     \* prepare_for_shutdown_
    sNo,         \* the number of the transaction the server is in
    ready,       \* the request header is parsed (request_header_.ready_)
    keepAlive,   \* request_header_.keep_alive_
    hdrSent,     \* response_header_.sent_
    program,     \* program_ is bound to the VM (its operator bool)
    processed,   \* bytes_processed_cnt_
    download,    \* download_size_
    finished,    \* finished_
    contentLength, \* response_header_.content_length_
    bodySent     \* body bytes handed to send() after it

clientVars == <<req, cNo, unsent, avail, skew, gone, conns>>
recvVars   == <<expSet, expSz, received, ubuf>>
respVars   == <<hdrSent, contentLength, bodySent>>
progVars   == <<program, processed, download, finished>>
vars == <<clientVars, recvVars, respVars, progVars, life, fate, op, need, closes,
          queued, prepare, sNo, ready, keepAlive>>

Least(m, n) == IF m <= n THEN m ELSE n

-----------------------------------------------------------------------------
(* Pieces of handlers.                                                     *)

(* get_data(): the size of the next piece of the response.                 *)
Chunk(n) == Least(ChunkSize, n)

(* What "%d" prints of a size_t: its low half, read as an int.             *)
Printed(n) == ((n + IntLimit) % (2 * IntLimit)) - IntLimit

(* The number in the Content-Length line of the response header.           *)
Announced == Printed(contentLength)

(* async_receive(): the minimum transfer is what is missing of the         *)
(* expected data, an unsigned difference; nothing missing throws, and the  *)
(* exception leaves the thread of the context.                             *)
Missing(sz, rcv) == IF rcv > sz THEN MaxTransfer ELSE Least(sz - rcv, MaxTransfer)

AsyncReceive(set, sz, rcv) ==
    IF set /\ sz = rcv
    THEN /\ life' = "dead" /\ fate' = "BadReceptionState"
         /\ op' = "none" /\ need' = 0
    ELSE /\ op' = "read"
         /\ need' = IF set THEN Missing(sz, rcv) ELSE 1
         /\ UNCHANGED <<life, fate>>

(* async_close() posts close_once().                                       *)
AsyncClose ==
    /\ closes' = closes + 1
    /\ op' = "none" /\ need' = 0
    /\ UNCHANGED <<life, fate>>

(* send() into an empty queue starts the write.                            *)
Send ==
    /\ queued' = queued + 1
    /\ op' = IF queued = 0 THEN "write" ELSE op

(* A transaction begins: Http::reset() and Session::reset_buffers().       *)
ResetTransaction ==
    /\ program' = FALSE
    /\ ready' = FALSE /\ keepAlive' = FALSE
    /\ hdrSent' = FALSE
    /\ expSet' = FALSE /\ expSz' = 0 /\ received' = 0 /\ ubuf' = 0

-----------------------------------------------------------------------------
(* The client and the network (external).                                  *)

Begin(q) == req' = q /\ unsent' = q.hdr + q.len

Init ==
    /\ req \in Requests /\ unsent = req.hdr + req.len
    /\ cNo = 1 /\ sNo = 1
    /\ avail = 0 /\ skew = 0 /\ gone = FALSE
    /\ conns = Connections
    /\ life = "open" /\ fate = "none"
    /\ op = "read" /\ need = 1
    /\ closes = 0 /\ queued = 0 /\ prepare = FALSE
    /\ expSet = FALSE /\ expSz = 0 /\ received = 0 /\ ubuf = 0
    /\ ready = FALSE /\ keepAlive = FALSE
    /\ hdrSent = FALSE /\ contentLength = 0 /\ bodySent = 0
    /\ program = FALSE /\ processed = 0 /\ download = 0 /\ finished = FALSE

ClientSends(n) ==
    /\ ~gone
    /\ n \in 1 .. unsent
    /\ unsent' = unsent - n
    /\ avail' = avail + n
    /\ UNCHANGED <<req, cNo, skew, gone, conns, recvVars, respVars, progVars, life,
                   fate, op, need, closes, queued, prepare, sNo, ready, keepAlive>>

(* The client has its response: the server went on to the next             *)
(* transaction, or as much as it announced is handed to a write that is    *)
(* about to complete.                                                      *)
ClientNext(q) ==
    /\ ~gone /\ unsent = 0 /\ req.keep
    /\ cNo < MaxRequests
    /\ sNo > cNo \/ (sNo = cNo /\ op = "write" /\ Announced <= bodySent)
    /\ cNo' = cNo + 1
    /\ Begin(q)
    /\ skew' = avail + ubuf
    /\ UNCHANGED <<avail, gone, conns, recvVars, respVars, progVars, life, fate, op,
                   need, closes, queued, prepare, sNo, ready, keepAlive>>

ClientLeaves ==
    /\ ~gone /\ life = "open"
    /\ gone' = TRUE
    /\ UNCHANGED <<req, cNo, unsent, avail, skew, conns, recvVars, respVars,
                   progVars, life, fate, op, need, closes, queued, prepare, sNo,
                   ready, keepAlive>>

-----------------------------------------------------------------------------
(* receive_event_cb().                                                     *)

(* A read ends with an error once the client is gone.                      *)
ReceiveFails ==
    /\ op = "read" /\ gone
    /\ AsyncClose
    /\ UNCHANGED <<clientVars, recvVars, respVars, progVars, queued, prepare, sNo,
                   ready, keepAlive>>

(* Where the header of the request ends in the buffer, if it does: behind  *)
(* what is left of the request before.                                     *)
HeaderEnd == skew + req.hdr
HeaderIn(buf) == ready \/ (cNo = sNo /\ buf >= HeaderEnd)
Body(buf) == IF ready THEN buf ELSE buf - HeaderEnd

(* Bytes of an older body in front of the header do not parse as a request *)
(* for a URL that is served.                                               *)
Url == IF skew > 0 THEN "other" ELSE req.url

(* Program::try_parse() on n bytes of body.  The length test leaves out    *)
(* the first line, so a text that is not all there may be parsed.          *)
ParseNeedsMore(n) == n < req.line \/ req.prog > n
ParseOverruns(n)  == ~ParseNeedsMore(n) /\ req.line + req.prog > n
ParseSucceeds(n)  == ~ParseNeedsMore(n) /\ req.good /\ req.prog > 0
                        /\ req.line + req.prog <= n

NeedsMore(buf) ==
    \/ ~HeaderIn(buf)
    \/ /\ ~program /\ Url = "vscript" /\ req.len >= 2
       /\ ParseNeedsMore(Body(buf))

Runs(buf) ==
    /\ HeaderIn(buf)
    /\ \/ program
       \/ Url = "sinkhole"
       \/ Url = "vscript" /\ req.len >= 2 /\ ParseSucceeds(Body(buf))

(* The bytes on_data() gives to feed(), and the state of a program that is *)
(* parsed just before.                                                     *)
Feed(buf) == IF ~program /\ Url = "vscript" THEN Body(buf) - req.line - req.prog
                                            ELSE Body(buf)
Processed(buf) == (IF program THEN processed ELSE 0) + Feed(buf)
LastPoint == IF Url = "vscript" THEN req.point ELSE 0

(* The part of on_data() that parses the header.                           *)
ParseHeader(buf) ==
    IF ready \/ ~HeaderIn(buf)
    THEN UNCHANGED <<ready, keepAlive, expSet, expSz>>
    ELSE /\ ready' = TRUE
         /\ keepAlive' = (skew = 0 /\ req.keep)
         /\ expSet' = TRUE
         /\ expSz' = IF skew = 0 THEN req.len ELSE 0

Received(k) ==
    /\ op = "read"
    /\ need <= k /\ k <= avail
    /\ avail' = avail - k
    /\ received' = received + k
    /\ UNCHANGED <<req, cNo, unsent, skew, gone, conns, sNo, prepare>>

(* The header or the program text is not complete: kContinue.              *)
ReceiveMore(k) ==
    LET buf == ubuf + k
    IN  /\ Received(k)
        /\ NeedsMore(buf)
        /\ ParseHeader(buf)
        /\ ubuf' = IF HeaderIn(buf) THEN Body(buf) ELSE buf
        /\ AsyncReceive(expSet', expSz', received')
        /\ UNCHANGED <<closes, queued, respVars, progVars>>

(* A URL or a program the server does not accept: kClose.                  *)
ReceiveRejected(k) ==
    LET buf == ubuf + k
    IN  /\ Received(k)
        /\ ~NeedsMore(buf) /\ ~Runs(buf)
        /\ ParseHeader(buf)
        /\ ubuf' = Body(buf)
        /\ AsyncClose
        /\ UNCHANGED <<queued, respVars, progVars>>

(* The same with a text that is not all there: what lies behind the buffer *)
(* may also parse, and consume() then erases more than there is.           *)
ReceiveOverruns(k) ==
    LET buf == ubuf + k
    IN  /\ Received(k)
        /\ HeaderIn(buf) /\ ~program /\ Url = "vscript" /\ req.len >= 2
        /\ ParseOverruns(Body(buf))
        /\ ParseHeader(buf)
        /\ ubuf' = Body(buf)
        /\ life' = "dead" /\ fate' = "overrun"
        /\ op' = "none" /\ need' = 0
        /\ UNCHANGED <<closes, queued, respVars, progVars>>

(* feed(): an instruction whose exec_point is beyond the bytes processed   *)
(* so far keeps the loop going for ever.                                   *)
ReceiveSpins(k) ==
    LET buf == ubuf + k
    IN  /\ Received(k)
        /\ Runs(buf)
        /\ LastPoint > Processed(buf)
        /\ ParseHeader(buf)
        /\ ubuf' = Feed(buf)
        /\ program' = TRUE /\ processed' = Processed(buf)
        /\ download' \in {0, req.down} /\ finished' = FALSE
        /\ life' = "dead" /\ fate' = "spin"
        /\ op' = "none" /\ need' = 0
        /\ UNCHANGED <<closes, queued, respVars>>

(* feed() and consume() with every instruction run; DOWNLOAD has set the   *)
(* size of the response.                                                   *)
FeedProgram(buf) ==
    /\ Runs(buf)
    /\ LastPoint <= Processed(buf)
    /\ ParseHeader(buf)
    /\ ubuf' = 0
    /\ program' = TRUE
    /\ processed' = Processed(buf)
    /\ download' = IF program THEN download
                   ELSE IF Url = "vscript" THEN req.down ELSE 0

CheckFinished == expSet' /\ received' >= expSz'

ReceiveFed(k) ==
    LET buf == ubuf + k
    IN  /\ Received(k)
        /\ FeedProgram(buf)
        /\ ~CheckFinished
        /\ finished' = FALSE
        /\ AsyncReceive(expSet', expSz', received')
        /\ UNCHANGED <<closes, queued, respVars>>

RespondAndRead(k) ==
    LET buf == ubuf + k
    IN  /\ Received(k)
        /\ FeedProgram(buf)
        /\ CheckFinished
        /\ finished' = TRUE
        /\ hdrSent' = TRUE
        /\ contentLength' = download'
        /\ bodySent' = 0
        /\ queued' = queued + 1
        /\ op' = "read" /\ need' = 1
        /\ UNCHANGED <<closes, life, fate>>

(* All expected bytes are in: respond() and kFinished.                     *)
ReceiveResponds(k) ==
    LET buf == ubuf + k
    IN  /\ Received(k)
        /\ FeedProgram(buf)
        /\ CheckFinished
        /\ finished' = TRUE
        /\ hdrSent' = TRUE
        /\ contentLength' = download'
        /\ bodySent' = 0
        /\ Send
        /\ need' = 0
        /\ UNCHANGED <<closes, life, fate>>

-----------------------------------------------------------------------------
(* send_event_cb() and on_sent().                                          *)

SendFailsKeepingQueue ==
    /\ op = "write" /\ gone
    /\ AsyncClose
    /\ UNCHANGED <<clientVars, recvVars, respVars, progVars, queued, prepare, sNo,
                   ready, keepAlive>>

(* A write may fail once the client is gone: the queue is dropped.         *)
SendFails ==
    /\ op = "write" /\ gone
    /\ queued' = 0
    /\ AsyncClose
    /\ UNCHANGED <<clientVars, recvVars, respVars, progVars, prepare, sNo, ready,
                   keepAlive>>

(* A shutdown that was put off until the queue is empty; n closes are      *)
(* posted already.                                                         *)
PendingShutdown(n) ==
    /\ prepare' = FALSE
    /\ closes' = IF prepare THEN n + 1 ELSE n

(* on_sent(): more of the response is due, fill the buffer and send() it.  *)
SentMore ==
    /\ download > 0
    /\ download' = download - Chunk(download)
    /\ bodySent' = bodySent + Chunk(download)
    /\ queued' = 1
    /\ PendingShutdown(closes)
    /\ UNCHANGED <<recvVars, hdrSent, contentLength, program, processed, finished,
                   life, fate, op, need, sNo, ready, keepAlive>>

SentFallsThrough ==
    /\ download = 0 /\ keepAlive
    /\ queued' = 0
    /\ sNo' = sNo + 1
    /\ ResetTransaction
    /\ AsyncReceive(FALSE, 0, 0)
    /\ PendingShutdown(closes + 1)
    /\ UNCHANGED <<contentLength, bodySent, processed, download, finished>>

SentKeepsHeader ==
    /\ download = 0 /\ keepAlive
    /\ queued' = 0
    /\ sNo' = sNo + 1
    /\ program' = FALSE /\ ready' = FALSE /\ keepAlive' = FALSE
    /\ expSet' = FALSE /\ expSz' = 0 /\ received' = 0 /\ ubuf' = 0
    /\ AsyncReceive(FALSE, 0, 0)
    /\ PendingShutdown(closes)
    /\ UNCHANGED <<respVars, processed, download, finished>>

(* on_sent(): the transaction is over and the connection is kept.          *)
SentKeepsAlive ==
    /\ download = 0 /\ keepAlive
    /\ queued' = 0
    /\ sNo' = sNo + 1
    /\ ResetTransaction
    /\ AsyncReceive(FALSE, 0, 0)
    /\ PendingShutdown(closes)
    /\ UNCHANGED <<contentLength, bodySent, processed, download, finished>>

(* on_sent(): the transaction is over and so is the connection.            *)
SentCloses ==
    /\ download = 0 /\ ~keepAlive
    /\ queued' = 0
    /\ op' = "none" /\ need' = 0
    /\ PendingShutdown(closes + 1)
    /\ UNCHANGED <<recvVars, respVars, progVars, life, fate, sNo, ready, keepAlive>>

(* A write is done: the next buffer of the queue, or on_sent().            *)
Sent ==
    /\ op = "write"
    /\ IF queued > 1
       THEN /\ queued' = queued - 1
            /\ UNCHANGED <<recvVars, respVars, progVars, life, fate, op, need,
                           closes, prepare, sNo, ready, keepAlive>>
       ELSE SentMore \/ SentKeepsAlive \/ SentCloses
    /\ UNCHANGED clientVars

-----------------------------------------------------------------------------
(* close_once() and the next life of the object.                           *)

(* A close is put off while the queue is not empty.  Otherwise the first   *)
(* one of a life finalizes the session: the program is reset and the       *)
(* object goes back to the pool.                                           *)
CloseOnce ==
    /\ closes > 0
    /\ closes' = closes - 1
    /\ IF queued > 0
       THEN prepare' = TRUE /\ UNCHANGED <<life, program>>
       ELSE /\ prepare' = prepare
            /\ IF life = "open"
               THEN life' = "pooled" /\ program' = FALSE
               ELSE UNCHANGED <<life, program>>
    /\ UNCHANGED <<clientVars, recvVars, respVars, processed, download, finished,
                   fate, op, need, queued, sNo, ready, keepAlive>>

(* setup() and session_start() on a new connection.                        *)
NextConnection(q) ==
    /\ life = "pooled" /\ conns > 0
    /\ conns' = conns - 1
    /\ Begin(q)
    /\ cNo' = 1 /\ avail' = 0 /\ skew' = 0 /\ gone' = FALSE
    /\ life' = "open" /\ fate' = fate
    /\ ResetTransaction
    /\ op' = "read" /\ need' = 1
    /\ sNo' = 1
    /\ UNCHANGED <<contentLength, bodySent, processed, download, finished, closes,
                   queued, prepare>>

-----------------------------------------------------------------------------
ReadCompletes ==
    \E k \in 1 .. avail :
        \/ ReceiveMore(k) \/ ReceiveRejected(k) \/ ReceiveOverruns(k)
        \/ ReceiveSpins(k) \/ ReceiveFed(k) \/ ReceiveResponds(k)

Handler == ReadCompletes \/ ReceiveFails \/ SendFails \/ Sent \/ CloseOnce

Next ==
    \/ \E n \in 1 .. unsent : ClientSends(n)
    \/ \E q \in Requests : ClientNext(q) \/ NextConnection(q)
    \/ ClientLeaves
    \/ Handler

Spec == Init /\ [][Next]_vars

(* An operation that can complete does, and its handler runs.  Nothing     *)
(* obliges a client to send or to leave.                                   *)
FairSpec == Spec /\ WF_vars(Handler)

-----------------------------------------------------------------------------
TypeOK ==
    /\ req \in Requests
    /\ cNo \in 1 .. MaxRequests /\ sNo \in 1 .. MaxRequests + 1
    /\ unsent \in Nat /\ avail \in Nat /\ skew \in Nat
    /\ gone \in BOOLEAN /\ conns \in 0 .. Connections
    /\ life \in {"open", "pooled", "dead"}
    /\ fate \in {"none", "BadReceptionState", "overrun", "spin"}
    /\ op \in {"none", "read", "write"} /\ need \in 0 .. MaxTransfer
    /\ closes \in Nat /\ queued \in Nat /\ prepare \in BOOLEAN
    /\ expSet \in BOOLEAN /\ expSz \in Nat /\ received \in Nat /\ ubuf \in Nat
    /\ ready \in BOOLEAN /\ keepAlive \in BOOLEAN
    /\ hdrSent \in BOOLEAN /\ contentLength \in Nat /\ bodySent \in Nat
    /\ program \in BOOLEAN /\ processed \in Nat /\ download \in Nat
    /\ finished \in BOOLEAN

(* A session in use is waiting for exactly one thing: a read, a write of   *)
(* the one buffer in its queue, or a close it has posted to itself.  It is *)
(* never forgotten, it never has two writes in flight, and close_once() is *)
(* never put off.                                                          *)
OnePending ==
    life = "open" =>
        /\ closes + (IF op = "none" THEN 0 ELSE 1) = 1
        /\ queued = IF op = "write" THEN 1 ELSE 0
        /\ ~prepare

(* What setup() and reset_buffers() do not reset is as it should be when   *)
(* the object is borrowed again: no operation, no buffer, no late close    *)
(* and no put-off shutdown of the last connection can hit the next one.    *)
CleanWhenPooled ==
    life = "pooled" =>
        op = "none" /\ closes = 0 /\ queued = 0 /\ ~prepare /\ ~program

(* The assertions on the way: respond() finds the response header unsent,  *)
(* get_keep_alive() a parsed request, has_more_data() a finished program;  *)
(* and of a response, what was handed to send() and what is left never     *)
(* exceed or miss content_length_.  The header announces just that as long *)
(* as an int holds it, and something else for every larger download.       *)
ResponseExact ==
    /\ op = "read" => ~hdrSent
    /\ op = "write" => ready /\ finished /\ hdrSent
    /\ hdrSent => bodySent + download = contentLength
    /\ hdrSent => (Announced = bodySent + download <=> contentLength < IntLimit)

(* A session that is finalized or lost has nothing under way: no handler   *)
(* of it runs again before the object is borrowed for another connection.  *)
NothingAfterClose ==
    life # "open" => op = "none" /\ closes = 0 /\ queued = 0 /\ ~prepare

(* The server is never more than one transaction ahead of the client, and  *)
(* it has a parsed header only of a request that the client has begun.     *)
TransactionsInStep == sNo <= cNo + 1 /\ (ready => sNo <= cNo)

(* Every close_once() that runs finds its session in use and finalizes it: *)
(* a connection is closed once, and only a close takes a session to the    *)
(* pool.                                                                   *)
CloseFinalizes ==
    [][(closes' < closes \/ (life' = "pooled" /\ life # "pooled"))
            => closes = 1 /\ closes' = 0 /\ life = "open" /\ life' = "pooled"]_vars

(* The inductive invariant of the session: what the checked properties     *)
(* need of one another to be kept by every step.                           *)
SessionInv ==
    /\ TypeOK
    /\ OnePending
    /\ CleanWhenPooled
    /\ ResponseExact
    /\ NothingAfterClose
    /\ TransactionsInStep

(* Seen from inside, an object goes through the life that Server sees of   *)
(* its sessions: a connection has one close, posted while nothing else is  *)
(* under way, and nothing is received, sent or lost behind it.             *)
Stage == CASE life = "pooled" -> "idle"
           [] life = "dead" -> "lost"
           [] OTHER -> IF closes > 0 THEN "closing" ELSE "open"
Stages == [s \in {"session"} |-> Stage]
Life == INSTANCE SessionLife WITH Objects <- {"session"}, stage <- Stages
LifeSpec == Life!LifeSpec

(* Once its client has gone, a session is finalized and returns to the     *)
(* pool, unless its thread was lost before.                                *)
GoneIsFinalized == (gone /\ life = "open") ~> (life # "open")

(* http.hpp, before the response: "All data is fed into the program, now   *)
(* we check the response from the program."                                *)
AllDataFed ==
    op = "write" /\ cNo = sNo => received = req.hdr + req.len

(* README.md on an instruction's BYTE: "at what point in the upload stream *)
(* should the instruction be executed".  A feed() that never returns keeps *)
(* an instruction from its point only if the request has no such byte.     *)
PointsReached == fate = "spin" => LastPoint > req.len - req.line - req.prog
=============================================================================
