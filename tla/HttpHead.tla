------------------------------ MODULE HttpHead ------------------------------
(***************************************************************************)
(* The two headers of an HTTP transaction: a client sends the header of a  *)
(* request, HttpRequestHeader::try_parse() finds its end and has it        *)
(* parsed, and the header of the response is generated.  One               *)
(* HttpRequestHeader and one HttpResponseHeader serve every transaction of *)
(* a session, with a reset() in between.                                   *)
(*                                                                         *)
(* try_parse() waits for the whole header and then parses it at one go.    *)
(* Here the parser takes each byte when it arrives; its results are looked *)
(* at when the header is ready.                                            *)
(***************************************************************************)
EXTENDS RequestParser, ResponseHeader

CONSTANTS Lengths,      \* the content lengths a client announces
          Urls,         \* URLs, as sequences of symbols
          Values,       \* values of lines that mean nothing to the server
          Alphabet      \* the symbols of any other text

(* The lengths the parser has room for: it refuses a further digit when    *)
(* more than a tenth of the room is taken.                                 *)
ASSUME HeadLengths ==
    \A n \in Lengths : n \in Nat /\ n \div 10 <= (MaxLength - 10) \div 10

(* A URL that is a path, perhaps with a query string and a fragment.       *)
ASSUME HeadUrls ==
    \A u \in Urls : u \in Seq(UrlChars \cup {"?", "#"}) /\ u # <<>> /\ Head(u) = "/"

(* A value of one line that is not blank; an open quotation that ended in  *)
(* a backslash would take the line break for its text.                     *)
ASSUME HeadValues ==
    \A v \in Values :
        /\ v \in Seq(Symbols \ {"CR", "LF", "NUL"})
        /\ \E i \in 1 .. Len(v) : v[i] \notin {"SP", "HT"}
        /\ v[Len(v)] # "BS"

ASSUME HeadAlphabet == Alphabet \subseteq Symbols

VARIABLES
    todo,       \* the rest of the line the client is sending
    ref         \* what the lines sent so far mean

vars == <<header, scan, parser, marks, text, responseVars, todo, ref>>
parserVars == <<header, parser, marks, text>>

(* The decimal notation of a number.                                       *)
Decimal[n \in Nat] ==
    LET last == <<CHOOSE d \in Digits : Value[d] = n % 10>>
    IN  IF n < 10 THEN last ELSE Decimal[n \div 10] \o last

(***************************************************************************)
(* ref.line is the kind of line that is due, or "free" once the client has *)
(* sent anything else than complete lines in their order.                  *)
(***************************************************************************)
NoRef == [line |-> "request", len |-> 0, keep |-> FALSE, chunked |-> FALSE]
FreeRef == [NoRef EXCEPT !.line = "free"]

Init ==
    /\ header = InitHeader /\ scan = 0
    /\ parser = InitParser /\ marks = {} /\ text = ""
    /\ ResponseInit
    /\ todo = <<>> /\ ref = NoRef

-----------------------------------------------------------------------------
(* The client.                                                             *)
Writes(line, meaning) ==
    /\ todo = <<>> /\ ~header.ready
    /\ todo' = line \o <<"CR", "LF">>
    /\ ref' = meaning
    /\ UNCHANGED <<parserVars, scan, responseVars>>

SendRequestLine(url) ==
    /\ ref.line = "request"
    /\ Writes(<<"GET", "SP">> \o url
                \o <<"SP", "H", "x", "x", "x", "/", "1", ".", "1">>,
              [ref EXCEPT !.line = "headers"])

SendLength(n) ==
    /\ ref.line = "headers"
    /\ Writes(<<"content-length", ":", "SP">> \o Decimal[n], [ref EXCEPT !.len = n])

SendConnection(keep) ==
    /\ ref.line = "headers"
    /\ Writes(<<"connection", ":", IF keep THEN "keep-alive" ELSE "close">>,
              [ref EXCEPT !.keep = keep])

SendChunked ==
    /\ ref.line = "headers"
    /\ Writes(<<"transfer-encoding", ":", "SP", "chunked">>, [ref EXCEPT !.chunked = TRUE])

SendOther(name, value) ==
    /\ ref.line = "headers"
    /\ Writes(<<name, ":">> \o value, ref)

SendBlankLine == ref.line = "headers" /\ Writes(<<>>, [ref EXCEPT !.line = "end"])

-----------------------------------------------------------------------------
(* try_parse().                                                            *)
Receive(ch) ==
    /\ scan < 4
    /\ Execute(ch)
    /\ scan' = ScanStep(scan, ch)
    /\ UNCHANGED responseVars

ReceiveLine ==
    /\ todo # <<>>
    /\ Receive(Head(todo))
    /\ todo' = Tail(todo)
    /\ UNCHANGED ref

(* Any other text a client may send.                                       *)
ReceiveFree(ch) ==
    /\ todo = <<>> /\ ref.line # "end"
    /\ Receive(ch)
    /\ ref' = FreeRef
    /\ UNCHANGED todo

TryParse ==
    /\ scan = 4 /\ ~header.ready
    /\ ExecuteReturns
    /\ UNCHANGED <<scan, responseVars, todo, ref>>

(* respond(), for a URL that is served.                                    *)
Respond(digits) ==
    /\ header.ready /\ header.url
    /\ Prepare(digits, header.keepAlive)
    /\ UNCHANGED <<parserVars, scan, todo, ref>>

PrintResponse == Printing /\ UNCHANGED <<parserVars, scan, todo, ref>>

ResetKeepsHeader ==
    /\ header' = [header EXCEPT !.ready = FALSE]
    /\ parser' = InitParser

ResetRequest == header' = InitHeader /\ parser' = InitParser

(* Http::reset(): the response is sent, or the session begins again for    *)
(* another client, whatever the last one had sent.                         *)
Reset ==
    /\ response # "printing"
    /\ scan > 0 \/ header.ready
    /\ ResetRequest
    /\ ResponseReset
    /\ marks' = {} /\ text' = ""
    /\ scan' = 0 /\ todo' = <<>> /\ ref' = NoRef

-----------------------------------------------------------------------------
Next ==
    \/ \E u \in Urls : SendRequestLine(u)
    \/ \E n \in Lengths : SendLength(n)
    \/ \E k \in BOOLEAN : SendConnection(k)
    \/ SendChunked
    \/ \E m \in {"x", "upgrade"}, v \in Values : SendOther(m, v)
    \/ SendBlankLine
    \/ ReceiveLine
    \/ \E ch \in Alphabet : ReceiveFree(ch)
    \/ TryParse
    \/ \E d \in LengthSizes : Respond(d)
    \/ PrintResponse
    \/ Reset

Spec == Init /\ [][Next]_vars

(* generate_header() is a run of calls on one thread: it goes on.          *)
FairSpec == Spec /\ WF_vars(PrintResponse)

-----------------------------------------------------------------------------
(* Whatever is sent, the parser and the headers keep their types; above    *)
(* all, the length of a body or of a chunk stays within 64 bits.           *)
TypeOK ==
    /\ header \in HeaderType /\ scan \in 0 .. 4
    /\ parser \in ParserType
    /\ marks \subseteq {"url", "field", "value", "body"}
    /\ size \in Nat /\ capacity \in Nat /\ pieces \in Seq(Nat)
    /\ response \in {"none", "printing", "sent"}

(* A request of complete lines in their order is understood, on every use  *)
(* of the object: execute() ends without an error at the end that          *)
(* try_parse() found, in one message, with the last Content-Length, the    *)
(* last Connection and the Transfer-Encoding the client has sent.          *)
RequestRead ==
    header.ready /\ ref.line = "end" =>
        /\ parser.errno = "OK"
        /\ parser.messages = 1 /\ header.url
        /\ ContentLength(parser.clen) = ref.len
        /\ header.keepAlive = ref.keep
        /\ ("F_CHUNKED" \in parser.flags) = ref.chunked
        /\ parser.state = IF ref.chunked THEN "s_chunk_size_start"
                          ELSE IF ref.len > 0 THEN "s_body_identity"
                          ELSE "s_pre_start_req"

(* What is counted down has not run out and what is counted up has begun,  *)
(* and chunks are read only in a chunked message.                          *)
Counted(p) ==
    /\ p.state \in ChunkSizeStates \cup ChunkDataStates => "F_CHUNKED" \in p.flags
    /\ p.state \in {"s_body_identity", "s_chunk_data"} => p.clen > 0
    /\ p.state = "s_chunk_data_almost_done" => p.clen = 0
    /\ p.state \in ChunkSizeStates \ {"s_chunk_size_start"} => p.clen >= 0
    /\ (/\ p.state \in {"s_header_value", "s_header_almost_done"}
        /\ p.headerState = "h_content_length"
        /\ p.errno = "OK") => p.clen >= 0

(* The assertions of execute(): Counted, and at most one mark is set; and  *)
(* no URL, name or value is left half delivered where the header ends.     *)
ParserAssertions ==
    /\ Counted(parser)
    /\ Cardinality(marks) <= 1
    /\ scan = 4 /\ Running => marks \subseteq {"body"}

(* The spaces the parser reports for a line break inside a value never     *)
(* reach the comparison with "close" and "keep-alive": the name of the     *)
(* line is forgotten with the first part of its value.                     *)
ValueComparedOnce ==
    State \in {"s_header_almost_done", "s_header_value_lws"} => header.nameIs = "kNone"

(* The buffer has room for what is printed and its terminating zero, and   *)
(* nothing of an earlier response is sent with this one.                   *)
ResponseFits ==
    /\ response # "none" => size < capacity
    /\ response = "sent" => \E d \in LengthSizes :
                                size = 39 + d + (IF header.keepAlive THEN 22 ELSE 17)

(* printf() ends: the header of a response is completed and sent.          *)
ResponseCompleted == (response = "printing") ~> (response = "sent")
=============================================================================
