---------------------------- MODULE RequestParser ----------------------------
(***************************************************************************)
(* http_parser_execute() (src/src/http_parser.cpp) for HTTP_REQUEST, the   *)
(* only type LServer creates, in the build without HTTP_PARSER_STRICT.     *)
(* One action handles one symbol in one state, or in a few states that     *)
(* share their code; `goto reexecute_byte' continues in the same action.   *)
(* Names and keywords are matched as whole words; a word matched in part   *)
(* behaves like any other text.                                            *)
(***************************************************************************)
EXTENDS RequestHeader

CONSTANTS MaxLength,    \* INT64_MAX
          MaxVersion    \* the largest major or minor version, 999

ASSUME ParserBounds == MaxLength \in Nat /\ MaxLength > 15 /\ MaxVersion \in Nat

VARIABLES
    parser,     \* the http_parser
    marks,      \* the marks of http_parser_execute() that are set
    text        \* what lies between the mark and the current byte

Digits == {"0", "1", "2", "3", "4", "5", "6", "7", "8", "9"}
Value == [d \in Digits \cup {"f"} |->
            CASE d = "0" -> 0 [] d = "1" -> 1 [] d = "2" -> 2 [] d = "3" -> 3
              [] d = "4" -> 4 [] d = "5" -> 5 [] d = "6" -> 6 [] d = "7" -> 7
              [] d = "8" -> 8 [] d = "9" -> 9 [] d = "f" -> 15]
Hex == DOMAIN Value
Methods == {"GET", "CONNECT"}
Names == {"content-length", "transfer-encoding", "upgrade", "connection"}
Alpha == Methods \cup Names
            \cup {"H", "f", "k", "x", "chunked", "close", "keep-alive"}
Tokens == Alpha \cup Digits \cup {".", "#"}
Symbols == Tokens \cup {"CR", "LF", "SP", "HT", "QT", "BS", "NUL", ":", "/", "?",
                        "[", "]", ";"}
UrlChars == Symbols \ {"CR", "LF", "SP", "NUL", "?", "#"}
HostChars == Alpha \cup Digits \cup {"."}

UrlStates == {"s_req_path", "s_req_query_string_start", "s_req_query_string",
              "s_req_fragment_start", "s_req_fragment"}
HostStates == {"s_req_schema", "s_req_schema_slash", "s_req_schema_slash_slash",
               "s_req_host_start", "s_req_host", "s_req_host_ipv6",
               "s_req_host_done", "s_req_port"}
VersionStates == {"s_req_http_start", "s_req_http_H", "s_req_http_HT",
                  "s_req_http_HTT", "s_req_http_HTTP", "s_req_first_http_major",
                  "s_req_http_major", "s_req_first_http_minor", "s_req_http_minor"}
LineStates == {"s_req_line_almost_done", "s_header_field_start", "s_header_field",
               "s_header_value_start", "s_header_value", "s_header_almost_done",
               "s_header_value_lws", "s_headers_almost_done"}
ChunkSizeStates == {"s_chunk_size_start", "s_chunk_size", "s_chunk_parameters",
                    "s_chunk_size_almost_done"}
ChunkDataStates == {"s_chunk_data", "s_chunk_data_almost_done", "s_chunk_data_done"}

(* PARSING_HEADER(): the states whose bytes count against the size limit.  *)
HeaderStates == {"s_pre_start_req", "s_req_method", "s_req_spaces_before_url"}
                    \cup UrlStates \cup HostStates \cup VersionStates
                    \cup LineStates \cup ChunkSizeStates
States == HeaderStates \cup ChunkDataStates \cup {"s_body_identity"}

LineKinds == {"h_general", "h_general_and_quote", "h_general_and_quote_and_escape",
              "h_content_length", "h_transfer_encoding", "h_upgrade",
              "h_transfer_encoding_chunked"}

Errors == {"INVALID_METHOD", "INVALID_URL", "INVALID_HOST", "INVALID_PORT",
           "INVALID_PATH", "INVALID_QUERY_STRING", "INVALID_FRAGMENT",
           "INVALID_CONSTANT", "INVALID_VERSION", "LF_EXPECTED",
           "INVALID_HEADER_TOKEN", "INVALID_CONTENT_LENGTH", "HUGE_CONTENT_LENGTH",
           "INVALID_TRANSFER_ENCODING", "INVALID_UPGRADE",
           "INVALID_CHUNK_SIZE", "HUGE_CHUNK_SIZE", "STRICT", "HEADER_OVERFLOW"}

(***************************************************************************)
(* `left': execute() has returned before the end of its input because the  *)
(* rest is in another protocol.  `messages': messages begun so far,        *)
(* counted up to 2.                                                        *)
(***************************************************************************)
ParserType ==
    [state : States, headerState : LineKinds, errno : {"OK"} \cup Errors,
     flags : SUBSET {"F_CHUNKED", "F_TRAILING", "F_UPGRADE"}, clen : -1 .. MaxLength,
     method : Methods \cup {"none", "part"}, major : Nat, minor : Nat,
     upgrade : BOOLEAN, left : BOOLEAN, messages : 0 .. 2]

(* http_parser_init() on the zeroed object of reset().                     *)
InitParser ==
    [state |-> "s_pre_start_req", headerState |-> "h_general", errno |-> "OK",
     flags |-> {}, clen |-> 0, method |-> "none", major |-> 0, minor |-> 0,
     upgrade |-> FALSE, left |-> FALSE, messages |-> 0]

State == parser.state
Quiet == UNCHANGED <<marks, text, header>>

(* Leave the loop by `goto error': no callback is made.                    *)
Fail(e) == parser' = [parser EXCEPT !.errno = e] /\ Quiet

Goto(s) == parser' = [parser EXCEPT !.state = s] /\ Quiet

(* MARK().                                                                 *)
Mark(m, ch) ==
    /\ marks' = marks \cup {m}
    /\ text' = IF m \in marks THEN text ELSE ch
    /\ UNCHANGED header

OnUrlKeepsMark ==
    /\ header' = IF "url" \in marks THEN SetUrl(header) ELSE header
    /\ UNCHANGED <<marks, text>>

(* CALLBACK_DATA(url).                                                     *)
OnUrl ==
    /\ header' = IF "url" \in marks THEN SetUrl(header) ELSE header
    /\ marks' = marks \ {"url"}
    /\ text' = ""

-----------------------------------------------------------------------------
(* s_pre_start_req, s_start_req and s_req_method.                          *)
StartRequest(ch) ==
    LET p == [parser EXCEPT !.flags = {}, !.clen = -1,
                            !.messages = IF @ = 0 THEN 1 ELSE 2]
    IN  /\ State = "s_pre_start_req"
        /\ Quiet
        /\ \/ ch \in {"CR", "LF"} /\ UNCHANGED parser
           \/ /\ ch \in Methods
              /\ parser' = [p EXCEPT !.state = "s_req_method", !.method = ch]
           \/ /\ ch \in Alpha \ Methods     \* perhaps the beginning of a method
              /\ parser' = [p EXCEPT !.state = "s_req_method", !.method = "part"]
           \/ /\ ch \notin Methods \cup {"CR", "LF"}
              /\ parser' = [p EXCEPT !.errno = "INVALID_METHOD"]

Method(ch) ==
    /\ State = "s_req_method"
    /\ \/ ch = "SP" /\ parser.method # "part" /\ Goto("s_req_spaces_before_url")
       \/ (ch # "SP" \/ parser.method = "part") /\ Fail("INVALID_METHOD")

HostStart(ch) ==
    CASE ch = "[" -> "s_req_host_ipv6"
      [] ch \in Alpha \cup Digits -> "s_req_host"
      [] OTHER -> "error"

SpacesBeforeUrl(ch) ==
    /\ State = "s_req_spaces_before_url"
    /\ \/ ch = "SP" /\ Goto(State)
       \/ /\ ch # "SP" /\ parser.method = "CONNECT"
          /\ HostStart(ch) # "error"
          /\ parser' = [parser EXCEPT !.state = HostStart(ch)]
          /\ Mark("url", "")
       \/ /\ ch # "SP" /\ parser.method = "CONNECT"
          /\ HostStart(ch) = "error"
          /\ parser' = [parser EXCEPT !.errno = "INVALID_HOST"]
          /\ Mark("url", "")
       \/ /\ ch = "/" /\ parser.method # "CONNECT"
          /\ parser' = [parser EXCEPT !.state = "s_req_path"]
          /\ Mark("url", "")
       \/ /\ ch \in Alpha /\ parser.method # "CONNECT"
          /\ parser' = [parser EXCEPT !.state = "s_req_schema"]
          /\ Mark("url", "")
       \/ /\ ch \notin Alpha \cup {"SP", "/"} /\ parser.method # "CONNECT"
          /\ Fail("INVALID_URL")

Schema(ch) ==
    \/ /\ State = "s_req_schema"
       /\ \/ ch \in Alpha /\ Goto(State)
          \/ ch = ":" /\ Goto("s_req_schema_slash")
          \/ ch \notin Alpha \cup {":"} /\ Fail("INVALID_URL")
    \/ State = "s_req_schema_slash" /\ Goto("s_req_schema_slash_slash")
    \/ State = "s_req_schema_slash_slash" /\ Goto("s_req_host_start")

(* What may follow a host or a port.                                       *)
AfterHost(ch, error) ==
    \/ ch = "/" /\ Goto("s_req_path")
    \/ ch = "?" /\ Goto("s_req_query_string_start")
    \/ ch = "SP" /\ parser' = [parser EXCEPT !.state = "s_req_http_start"] /\ OnUrl
    \/ ch \notin {"/", "?", "SP"} /\ Fail(error)

HostDone(ch) ==
    \/ ch = ":" /\ Goto("s_req_port")
    \/ ch # ":" /\ AfterHost(ch, "INVALID_HOST")

Host(ch) ==
    \/ /\ State = "s_req_host_start"
       /\ \/ HostStart(ch) # "error" /\ Goto(HostStart(ch))
          \/ HostStart(ch) = "error" /\ Fail("INVALID_HOST")
    \/ /\ State = "s_req_host"
       /\ \/ ch \in HostChars /\ Goto(State)
          \/ ch \notin HostChars /\ HostDone(ch)
    \/ /\ State = "s_req_host_ipv6"
       /\ \/ ch \in Hex \cup {":"} /\ Goto(State)
          \/ ch = "]" /\ Goto("s_req_host_done")
          \/ ch \notin Hex \cup {":", "]"} /\ Fail("INVALID_HOST")
    \/ State = "s_req_host_done" /\ HostDone(ch)
    \/ /\ State = "s_req_port"
       /\ \/ ch \in Digits /\ Goto(State)
          \/ ch \notin Digits /\ AfterHost(ch, "INVALID_PORT")

-----------------------------------------------------------------------------
(* s_headers_almost_done and s_headers_done at the LF that ends the        *)
(* header, or s_message_done when it ends the trailer of a chunked body.   *)
HeadersEnd(p) ==
    LET upgrade == "F_UPGRADE" \in p.flags \/ p.method = "CONNECT"
        hasBody == "F_CHUNKED" \in p.flags \/ p.clen > 0
        leaves  == upgrade /\ (p.method = "CONNECT" \/ ~hasBody)
    IN  IF "F_TRAILING" \in p.flags
        THEN [p EXCEPT !.state = "s_pre_start_req", !.left = p.upgrade]
        ELSE [p EXCEPT !.upgrade = upgrade, !.left = leaves,
                       !.state = CASE leaves \/ ~hasBody -> "s_pre_start_req"
                                   [] ~leaves /\ "F_CHUNKED" \in p.flags ->
                                        "s_chunk_size_start"
                                   [] OTHER -> "s_body_identity"]

(* The states of the path, the query string and the fragment.              *)
UrlGoto(ch) ==
    CASE ch \in UrlChars /\ State = "s_req_query_string_start" -> "s_req_query_string"
      [] ch \in UrlChars /\ State = "s_req_fragment_start" -> "s_req_fragment"
      [] ch = "?" /\ State = "s_req_path" -> "s_req_query_string_start"
      [] ch = "?" /\ State = "s_req_fragment_start" -> "s_req_fragment"
      [] ch = "#" /\ State \notin {"s_req_fragment_start", "s_req_fragment"}
            -> "s_req_fragment_start"
      [] OTHER -> State

Url(ch) ==
    /\ State \in UrlStates
    /\ \/ ch \in UrlChars \cup {"?", "#"} /\ Goto(UrlGoto(ch))
       \/ ch = "SP" /\ parser' = [parser EXCEPT !.state = "s_req_http_start"] /\ OnUrl
       \/ ch = "CR" /\ parser' = [parser EXCEPT !.state = "s_headers_almost_done"]
                    /\ OnUrl
       \/ ch = "LF" /\ parser' = HeadersEnd(parser) /\ OnUrl
       \/ /\ ch = "NUL"
          /\ Fail(CASE State = "s_req_path" -> "INVALID_PATH"
                    [] State \in {"s_req_fragment_start", "s_req_fragment"}
                            -> "INVALID_FRAGMENT"
                    [] OTHER -> "INVALID_QUERY_STRING")

(* STRICT_CHECK() is empty: whatever follows the H passes for TTP/.        *)
HttpWord(ch) ==
    \/ /\ State = "s_req_http_start"
       /\ \/ ch = "H" /\ Goto("s_req_http_H")
          \/ ch = "SP" /\ Goto(State)
          \/ ch \notin {"H", "SP"} /\ Fail("INVALID_CONSTANT")
    \/ State = "s_req_http_H" /\ Goto("s_req_http_HT")
    \/ State = "s_req_http_HT" /\ Goto("s_req_http_HTT")
    \/ State = "s_req_http_HTT" /\ Goto("s_req_http_HTTP")
    \/ State = "s_req_http_HTTP" /\ Goto("s_req_first_http_major")

MajorVersion(ch) ==
    \/ /\ State = "s_req_first_http_major"
       /\ IF ch \in Digits
          THEN /\ parser' = [parser EXCEPT !.state = "s_req_http_major",
                                           !.major = Value[ch]]
               /\ Quiet
          ELSE Fail("INVALID_VERSION")
    \/ /\ State = "s_req_http_major"
       /\ \/ ch = "." /\ Goto("s_req_first_http_minor")
          \/ /\ ch \in Digits /\ parser.major * 10 + Value[ch] <= MaxVersion
             /\ parser' = [parser EXCEPT !.major = @ * 10 + Value[ch]]
             /\ Quiet
          \/ /\ ch \in Digits => parser.major * 10 + Value[ch] > MaxVersion
             /\ ch # "."
             /\ Fail("INVALID_VERSION")

(* Nothing reads the version behind the request line: it is forgotten.     *)
MinorVersion(ch) ==
    LET p == [parser EXCEPT !.major = 0, !.minor = 0]
        isOld == parser.major = 0 /\ parser.minor = 9
    IN  \/ /\ State = "s_req_first_http_minor"
           /\ IF ch \in Digits
              THEN /\ parser' = [parser EXCEPT !.state = "s_req_http_minor",
                                               !.minor = Value[ch]]
                   /\ Quiet
              ELSE Fail("INVALID_VERSION")
        \/ /\ State = "s_req_http_minor"
           /\ \/ /\ ch = "CR" /\ Quiet
                 /\ parser' = [p EXCEPT !.state = IF isOld
                                                  THEN "s_headers_almost_done"
                                                  ELSE "s_req_line_almost_done"]
              \/ /\ ch = "LF" /\ Quiet
                 /\ parser' = IF isOld THEN HeadersEnd(p)
                              ELSE [p EXCEPT !.state = "s_header_field_start"]
              \/ /\ ch \in Digits /\ parser.minor * 10 + Value[ch] <= MaxVersion
                 /\ parser' = [parser EXCEPT !.minor = @ * 10 + Value[ch]]
                 /\ Quiet
              \/ /\ ch \in Digits => parser.minor * 10 + Value[ch] > MaxVersion
                 /\ ch \notin {"CR", "LF"}
                 /\ Fail("INVALID_VERSION")

RequestLineEnd(ch) ==
    /\ State = "s_req_line_almost_done"
    /\ \/ ch = "LF" /\ Goto("s_header_field_start")
       \/ ch # "LF" /\ Fail("LF_EXPECTED")

-----------------------------------------------------------------------------
(* The header lines.                                                       *)

FieldStart(ch) ==
    \/ ch = "CR" /\ Goto("s_headers_almost_done")
    \/ ch = "LF" /\ parser' = HeadersEnd(parser) /\ Quiet
    \/ /\ ch \in Tokens
       /\ parser' = [parser EXCEPT
                       !.state = "s_header_field",
                       !.headerState =
                            CASE ch = "content-length" -> "h_content_length"
                              [] ch = "transfer-encoding" -> "h_transfer_encoding"
                              [] ch = "upgrade" -> "h_upgrade"
                              [] OTHER -> "h_general"]
       /\ Mark("field", ch)
    \/ ch \notin Tokens \cup {"CR", "LF"} /\ Fail("INVALID_HEADER_TOKEN")

HeaderFieldStart(ch) == State = "s_header_field_start" /\ FieldStart(ch)

(* A name that goes on behind a known word is another name.                *)
HeaderField(ch) ==
    /\ State = "s_header_field"
    /\ \/ /\ ch \in Tokens
          /\ parser' = [parser EXCEPT !.headerState = "h_general"]
          /\ text' = "other"
          /\ UNCHANGED <<marks, header>>
       \/ /\ ch = ":"
          /\ parser' = [parser EXCEPT !.state = "s_header_value_start"]
          /\ header' = SetField(header, text)
          /\ marks' = marks \ {"field"}
          /\ text' = ""
       \/ ch \notin Tokens \cup {":"} /\ Fail("INVALID_HEADER_TOKEN")

EmptyValueError ==
    CASE parser.headerState = "h_content_length" -> "INVALID_CONTENT_LENGTH"
      [] parser.headerState = "h_transfer_encoding" -> "INVALID_TRANSFER_ENCODING"
      [] parser.headerState = "h_upgrade" -> "INVALID_UPGRADE"
      [] OTHER -> "OK"

(* The first byte of a value, or of a continuation line: the header state  *)
(* then is still that of the line it continues.                            *)
ValueBegins(ch) ==
    CASE parser.headerState = "h_upgrade" ->
            [parser EXCEPT !.flags = @ \cup {"F_UPGRADE"},
                           !.headerState = "h_general"]
      [] parser.headerState = "h_transfer_encoding" ->
            [parser EXCEPT !.headerState = IF ch = "chunked"
                                           THEN "h_transfer_encoding_chunked"
                                           ELSE "h_general"]
      [] parser.headerState = "h_content_length" ->
            IF ch \in Digits THEN [parser EXCEPT !.clen = Value[ch]]
            ELSE [parser EXCEPT !.errno = "INVALID_CONTENT_LENGTH"]
      [] OTHER ->
            [parser EXCEPT !.headerState = IF ch = "QT" THEN "h_general_and_quote"
                                           ELSE "h_general"]

HeaderValueStart(ch) ==
    /\ State = "s_header_value_start"
    /\ \/ ch \in {"SP", "HT"} /\ Goto(State)
       \/ ch \in {"CR", "LF"} /\ EmptyValueError # "OK" /\ Fail(EmptyValueError)
       \/ /\ ch \in {"CR", "LF"} /\ EmptyValueError = "OK"
          /\ parser' = IF ch = "CR"
                       THEN [parser EXCEPT !.headerState = "h_general",
                                           !.state = "s_header_almost_done"]
                       ELSE [parser EXCEPT !.state = "s_header_field_start"]
          /\ header' = SetValue(header, "")
          /\ UNCHANGED <<marks, text>>
       \/ /\ ch \notin {"SP", "HT", "CR", "LF"}
          /\ parser' = [ValueBegins(ch) EXCEPT !.state = "s_header_value"]
          /\ Mark("value", ch)

(* CALLBACK_DATA(header_value).                                            *)
OnValue ==
    /\ header' = IF "value" \in marks THEN SetValue(header, text) ELSE header
    /\ marks' = marks \ {"value"}
    /\ text' = ""

(* s_header_almost_done sets the flag for a value that was `chunked'.      *)
LineEnds(s) ==
    [parser EXCEPT !.state = s,
                   !.flags = IF parser.headerState = "h_transfer_encoding_chunked"
                             THEN @ \cup {"F_CHUNKED"} ELSE @]

LengthDigitUnchecked(d) == [parser EXCEPT !.clen = @ * 10 + d]

(* A further digit of Content-Length, unless it might overflow.            *)
LengthDigit(d) ==
    IF parser.clen > (MaxLength - 10) \div 10
    THEN [parser EXCEPT !.errno = "HUGE_CONTENT_LENGTH"]
    ELSE [parser EXCEPT !.clen = @ * 10 + d]

(* A further byte of a value that is neither CR nor LF, or is escaped.     *)
ValueGoesOn(ch) ==
    LET h == parser.headerState
        to(k) == [parser EXCEPT !.headerState = k]
    IN  CASE h = "h_content_length" ->
                CASE ch = "SP" -> parser
                  [] ch \in Digits -> LengthDigit(Value[ch])
                  [] OTHER -> [parser EXCEPT !.errno = "INVALID_CONTENT_LENGTH"]
          [] h = "h_general_and_quote_and_escape" -> to("h_general_and_quote")
          [] h = "h_general_and_quote" /\ ch = "QT" -> to("h_general")
          [] h = "h_general_and_quote" /\ ch = "BS" ->
                to("h_general_and_quote_and_escape")
          [] h = "h_general_and_quote" /\ ch \notin {"QT", "BS"} -> parser
          [] h = "h_transfer_encoding_chunked" /\ ch = "SP" -> parser
          [] h = "h_general" /\ ch = "QT" -> to("h_general_and_quote")
          [] OTHER -> to("h_general")

HeaderValue(ch) ==
    LET escaped == parser.headerState = "h_general_and_quote_and_escape"
    IN  /\ State = "s_header_value"
        /\ \/ /\ ch = "CR" /\ ~escaped
              /\ parser' = [parser EXCEPT !.state = "s_header_almost_done"]
              /\ OnValue
           \/ ch = "LF" /\ ~escaped /\ parser' = LineEnds("s_header_value_lws")
                                     /\ OnValue
           \/ ch = "NUL" /\ ~escaped /\ Fail("INVALID_HEADER_TOKEN")
           \/ /\ ch \notin {"CR", "LF", "NUL"} \/ escaped
              /\ parser' = ValueGoesOn(ch)
              /\ text' = "other"
              /\ UNCHANGED <<marks, header>>

(* A CR without LF is reported as a space and the value goes on, without a *)
(* mark.                                                                   *)
HeaderAlmostDone(ch) ==
    /\ State = "s_header_almost_done"
    /\ \/ ch = "LF" /\ parser' = LineEnds("s_header_value_lws") /\ Quiet
       \/ /\ ch # "LF"
          /\ parser' = LineEnds("s_header_value")
          /\ header' = SetValue(header, "SP")
          /\ UNCHANGED <<marks, text>>

(* A line that begins with white space continues the one before.           *)
HeaderValueLws(ch) ==
    /\ State = "s_header_value_lws"
    /\ \/ /\ ch \in {"SP", "HT"}
          /\ parser' = [parser EXCEPT !.state = "s_header_value_start"]
          /\ header' = SetValue(header, "SP")
          /\ UNCHANGED <<marks, text>>
       \/ ch \notin {"SP", "HT"} /\ FieldStart(ch)

HeadersAlmostDone(ch) ==
    /\ State = "s_headers_almost_done"
    /\ \/ ch = "LF" /\ parser' = HeadersEnd(parser) /\ Quiet
       \/ ch # "LF" /\ Fail("STRICT")

-----------------------------------------------------------------------------
(* What follows a header that ends before the CR LF CR LF of the scan.     *)

(* s_message_done: the next message, unless the protocol changes.          *)
MessageDone(p) ==
    [p EXCEPT !.state = "s_pre_start_req", !.left = p.upgrade]

BodyIdentity ==
    /\ State = "s_body_identity"
    /\ UNCHANGED <<text, header>>
    /\ IF parser.clen = 1
       THEN /\ parser' = MessageDone([parser EXCEPT !.clen = 0])
            /\ marks' = marks \ {"body"}
       ELSE /\ parser' = [parser EXCEPT !.clen = @ - 1]
            /\ marks' = marks \cup {"body"}

ChunkSize(ch) ==
    \/ /\ State = "s_chunk_size_start"
       /\ \/ /\ ch \in Hex /\ Quiet
             /\ parser' = [parser EXCEPT !.state = "s_chunk_size", !.clen = Value[ch]]
          \/ ch \notin Hex /\ Fail("INVALID_CHUNK_SIZE")
    \/ /\ State = "s_chunk_size"
       /\ \/ ch = "CR" /\ Goto("s_chunk_size_almost_done")
          \/ ch \in {";", "SP"} /\ Goto("s_chunk_parameters")
          \/ /\ ch \in Hex /\ parser.clen > (MaxLength - Value[ch]) \div 16
             /\ Fail("HUGE_CHUNK_SIZE")
          \/ /\ ch \in Hex /\ parser.clen <= (MaxLength - Value[ch]) \div 16
             /\ parser' = [parser EXCEPT !.clen = @ * 16 + Value[ch]]
             /\ Quiet
          \/ ch \notin Hex \cup {"CR", ";", "SP"} /\ Fail("INVALID_CHUNK_SIZE")
    \/ /\ State = "s_chunk_parameters"
       /\ Goto(IF ch = "CR" THEN "s_chunk_size_almost_done" ELSE State)
    \/ /\ State = "s_chunk_size_almost_done"      \* the LF is not checked
       /\ parser' = IF parser.clen = 0
                    THEN [parser EXCEPT !.state = "s_header_field_start",
                                        !.flags = @ \cup {"F_TRAILING"}]
                    ELSE [parser EXCEPT !.state = "s_chunk_data"]
       /\ Quiet

ChunkData ==
    /\ UNCHANGED <<text, header>>
    /\ \/ /\ State = "s_chunk_data"
          /\ marks' = marks \cup {"body"}
          /\ parser' = [parser EXCEPT !.clen = @ - 1,
                            !.state = IF parser.clen = 1 THEN "s_chunk_data_almost_done"
                                      ELSE State]
       \/ /\ State = "s_chunk_data_almost_done"  \* neither the CR ...
          /\ marks' = marks \ {"body"}
          /\ parser' = [parser EXCEPT !.state = "s_chunk_data_done"]
       \/ /\ State = "s_chunk_data_done"         \* ... nor the LF is checked
          /\ parser' = [parser EXCEPT !.state = "s_chunk_size_start"]
          /\ UNCHANGED marks

-----------------------------------------------------------------------------
Running == parser.errno = "OK" /\ ~parser.left

(* One byte in http_parser_execute().                                      *)
Execute(ch) ==
    \/ ~Running /\ UNCHANGED parser /\ Quiet
    \/ /\ Running
       /\ \/ StartRequest(ch) \/ Method(ch) \/ SpacesBeforeUrl(ch) \/ Schema(ch)
          \/ Host(ch) \/ Url(ch) \/ HttpWord(ch) \/ MajorVersion(ch)
          \/ MinorVersion(ch) \/ RequestLineEnd(ch)
          \/ HeaderFieldStart(ch) \/ HeaderField(ch) \/ HeaderValueStart(ch)
          \/ HeaderValue(ch) \/ HeaderAlmostDone(ch) \/ HeaderValueLws(ch)
          \/ HeadersAlmostDone(ch)
          \/ BodyIdentity \/ ChunkSize(ch) \/ ChunkData

(***************************************************************************)
(* The end of the input.  nread has just been reset where a header ended;  *)
(* in the other header states the text may have grown past                 *)
(* HTTP_MAX_HEADER_SIZE.  Otherwise the marks that are left get their      *)
(* callbacks.                                                              *)
(***************************************************************************)
MayOverflow == /\ Running
               /\ State \in HeaderStates \ {"s_pre_start_req", "s_chunk_size_start"}

LeftOver(h) ==
    CASE "field" \in marks -> SetField(h, text)
      [] "value" \in marks -> SetValue(h, text)
      [] "url" \in marks -> SetUrl(h)
      [] OTHER -> h

ExecuteReturns ==
    /\ marks' = {} /\ text' = ""
    /\ \/ /\ header' = [IF Running THEN LeftOver(header) ELSE header
                          EXCEPT !.ready = TRUE]
          /\ UNCHANGED parser
       \/ /\ MayOverflow
          /\ parser' = [parser EXCEPT !.errno = "HEADER_OVERFLOW"]
          /\ header' = [header EXCEPT !.ready = TRUE]
=============================================================================
