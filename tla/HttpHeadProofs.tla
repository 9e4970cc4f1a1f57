--------------------------- MODULE HttpHeadProofs ---------------------------
(***************************************************************************)
(* The request parser and the response keep their types, whatever is sent  *)
(* and however large MaxLength is.  The types alone are not inductive: a   *)
(* body or chunk that is counted down below zero would leave them.  The    *)
(* invariant therefore adds Counted, what the state of the parser says of  *)
(* the length; each lemma shows that the code of some states keeps both.   *)
(* The last part is about the marks of http_parser_execute().              *)
(***************************************************************************)
EXTENDS HttpHead, FiniteSetTheorems, TLAPS

Safe(p) == p \in ParserType /\ Counted(p)

ParserOK == /\ header \in HeaderType
            /\ Safe(parser)
            /\ marks \subseteq {"url", "field", "value", "body"}

Plain == States \ (ChunkSizeStates \cup ChunkDataStates
                     \cup {"s_body_identity", "s_header_value", "s_header_almost_done"})

LEMMA ValueFacts ==
  /\ \A d \in Digits : Value[d] \in 0 .. 9
  /\ \A d \in Hex : Value[d] \in 0 .. 15
BY DEF Value, Digits, Hex

(* The callbacks keep the type of the header.                              *)
LEMMA CallbackFacts ==
  ASSUME NEW h \in HeaderType, NEW v
  PROVE  SetUrl(h) \in HeaderType /\ SetField(h, v) \in HeaderType
            /\ SetValue(h, v) \in HeaderType
BY DEF HeaderType, SetUrl, SetField, SetValue

(* A state in which nothing is counted, and an error, keep Safe.           *)
LEMMA PlainSafe ==
  ASSUME NEW p, Safe(p), NEW s \in Plain
  PROVE  Safe([p EXCEPT !.state = s])
BY DEF Safe, ParserType, Counted, Plain, ChunkSizeStates, ChunkDataStates

LEMMA ErrorSafe ==
  ASSUME NEW p, Safe(p), NEW e \in Errors
  PROVE  Safe([p EXCEPT !.errno = e])
BY DEF Safe, ParserType, Counted, Errors

LEMMA GotoOK ==
  ASSUME ParserOK, NEW s, s \in Plain \/ s = parser.state, Goto(s)
  PROVE  ParserOK'
<1>1. s = parser.state => parser' = parser
  BY DEF Goto, ParserOK, Safe, ParserType
<1>2. Safe(parser')
  BY <1>1, PlainSafe DEF Goto, ParserOK
<1> QED
  BY <1>2 DEF Goto, ParserOK, Quiet, Safe, Counted

LEMMA FailOK ==
  ASSUME ParserOK, NEW e \in Errors, Fail(e)
  PROVE  ParserOK'
<1>1. Safe(parser')
  BY ErrorSafe DEF Fail, ParserOK
<1> QED
  BY <1>1 DEF Fail, ParserOK, Quiet, Safe, Counted

LEMMA Inside ==
  /\ UrlStates \cup HostStates \cup VersionStates \subseteq Plain
  /\ LineStates \ {"s_header_value", "s_header_almost_done"} \subseteq Plain
  /\ {"s_pre_start_req", "s_req_method", "s_req_spaces_before_url"} \subseteq Plain
  /\ Plain \subseteq States
BY DEF Plain, States, HeaderStates, UrlStates, HostStates, VersionStates, LineStates,
       ChunkSizeStates, ChunkDataStates

-----------------------------------------------------------------------------
(* The request line.                                                       *)

LEMMA StartOK ==
  ASSUME ParserOK, NEW ch, StartRequest(ch) \/ Method(ch)
  PROVE  ParserOK'
<1>1. CASE StartRequest(ch)
  <2> DEFINE n == IF parser.messages = 0 THEN 1 ELSE 2
             p == [parser EXCEPT !.flags = {}, !.clen = -1, !.messages = n]
  <2>1. /\ parser \in ParserType /\ parser.state = "s_pre_start_req"
        /\ -1 \in -1 .. MaxLength /\ n \in 0 .. 2
    BY <1>1, ParserBounds DEF StartRequest, State, ParserOK, Safe
  <2> HIDE DEF n
  <2>2. p \in ParserType /\ p.state = "s_pre_start_req"
    BY <2>1 DEF ParserType
  <2> HIDE DEF p
  <2>3. Safe(p)
    BY <2>2 DEF Safe, Counted, ChunkSizeStates, ChunkDataStates
  <2>4. Safe([p EXCEPT !.errno = "INVALID_METHOD"])
    BY <2>3, ErrorSafe DEF Errors
  <2>5. ASSUME NEW m \in Methods \cup {"part"}
        PROVE  Safe([p EXCEPT !.state = "s_req_method", !.method = m])
    <3>1. [p EXCEPT !.state = "s_req_method", !.method = m] \in ParserType
      BY <2>2, Inside DEF ParserType
    <3> QED
      BY <3>1, <2>2 DEF Safe, Counted, ParserType, ChunkSizeStates, ChunkDataStates
  <2>6. \/ parser' = parser \/ parser' = [p EXCEPT !.errno = "INVALID_METHOD"]
        \/ \E m \in Methods \cup {"part"} :
               parser' = [p EXCEPT !.state = "s_req_method", !.method = m]
    BY <1>1 DEF StartRequest, p, n
  <2>7. Safe(parser')
    BY <2>4, <2>5, <2>6 DEF ParserOK
  <2> QED
    BY <1>1, <2>7 DEF StartRequest, ParserOK, Quiet, Safe, Counted
<1>2. CASE Method(ch)
  BY <1>2, GotoOK, FailOK, Inside DEF Method, Errors
<1> QED
  BY <1>1, <1>2

LEMMA UrlStartOK ==
  ASSUME ParserOK, NEW ch, SpacesBeforeUrl(ch)
  PROVE  ParserOK'
<1>1. HostStart(ch) \in HostStates \cup {"error"}
  BY DEF HostStart, HostStates
<1>2. CASE Goto(State) \/ Fail("INVALID_URL")
  BY <1>2, GotoOK, FailOK DEF Errors, State
<1>3. CASE /\ Mark("url", "")
           /\ \/ parser' = [parser EXCEPT !.errno = "INVALID_HOST"]
              \/ \E s \in Plain : parser' = [parser EXCEPT !.state = s]
  <2>1. "INVALID_HOST" \in Errors
    BY DEF Errors
  <2>e. parser' = [parser EXCEPT !.errno = "INVALID_HOST"] => Safe(parser')
    BY <2>1, ErrorSafe DEF ParserOK
  <2>s. ASSUME NEW s \in Plain, parser' = [parser EXCEPT !.state = s]
        PROVE  Safe(parser')
    BY <2>s, PlainSafe DEF ParserOK
  <2>2. Safe(parser')
    BY <1>3, <2>e, <2>s
  <2> QED
    BY <1>3, <2>2 DEF Mark, ParserOK, Safe, Counted
<1> QED
  BY <1>1, <1>2, <1>3, Inside DEF SpacesBeforeUrl, UrlStates, HostStates

LEMMA OnUrlOK ==
  ASSUME ParserOK, OnUrl
  PROVE  header' \in HeaderType /\ marks' \subseteq {"url", "field", "value", "body"}
BY CallbackFacts DEF OnUrl, ParserOK

LEMMA AfterHostOK ==
  ASSUME ParserOK, NEW ch, NEW e \in Errors, AfterHost(ch, e)
  PROVE  ParserOK'
<1>1. CASE parser' = [parser EXCEPT !.state = "s_req_http_start"] /\ OnUrl
  <2>1. Safe(parser')
    BY <1>1, PlainSafe, Inside DEF ParserOK, VersionStates
  <2> QED
    BY <1>1, <2>1, OnUrlOK DEF ParserOK, Safe, Counted
<1> QED
  BY <1>1, GotoOK, FailOK, Inside DEF AfterHost, UrlStates

LEMMA HostOK ==
  ASSUME ParserOK, NEW ch, Schema(ch) \/ Host(ch)
  PROVE  ParserOK'
<1>1. CASE Schema(ch)
  BY <1>1, GotoOK, FailOK, Inside DEF Schema, State, Errors, HostStates
<1>2. CASE HostDone(ch)
  BY <1>2, GotoOK, AfterHostOK, Inside DEF HostDone, Errors, HostStates
<1>3. HostStart(ch) \in HostStates \cup {"error"}
  BY DEF HostStart, HostStates
<1>4. CASE Host(ch)
  BY <1>2, <1>3, <1>4, GotoOK, FailOK, AfterHostOK, Inside
     DEF Host, State, Errors, HostStates
<1> QED
  BY <1>1, <1>4

(* The end of a header, also of one that is the trailer of a chunked body. *)
LEMMA HeadersEndSafe ==
  ASSUME NEW p, Safe(p)
  PROVE  Safe(HeadersEnd(p))
<1>1. ASSUME NEW u \in BOOLEAN, NEW l \in BOOLEAN,
             NEW s \in {"s_pre_start_req", "s_chunk_size_start", "s_body_identity"},
             s = "s_chunk_size_start" => "F_CHUNKED" \in p.flags,
             s = "s_body_identity" => p.clen > 0
      PROVE  Safe([p EXCEPT !.upgrade = u, !.left = l, !.state = s])
  <2>1. s \in States
    BY DEF States, HeaderStates, ChunkSizeStates
  <2>2. [p EXCEPT !.upgrade = u, !.left = l, !.state = s] \in ParserType
    BY <2>1 DEF Safe, ParserType
  <2> QED
    BY <1>1, <2>2 DEF Safe, ParserType, Counted, ChunkSizeStates, ChunkDataStates
<1>2. p.upgrade \in BOOLEAN /\ p \in ParserType
  BY DEF Safe, ParserType
<1>3. CASE "F_TRAILING" \in p.flags
  <2>1. HeadersEnd(p) = [p EXCEPT !.upgrade = p.upgrade, !.left = p.upgrade,
                                  !.state = "s_pre_start_req"]
    BY <1>2, <1>3 DEF HeadersEnd, ParserType
  <2> QED
    BY <1>1, <1>2, <2>1
<1>4. CASE "F_TRAILING" \notin p.flags
  <2> DEFINE upgrade == "F_UPGRADE" \in p.flags \/ p.method = "CONNECT"
             hasBody == "F_CHUNKED" \in p.flags \/ p.clen > 0
             leaves  == upgrade /\ (p.method = "CONNECT" \/ ~hasBody)
             next == CASE leaves \/ ~hasBody -> "s_pre_start_req"
                       [] ~leaves /\ "F_CHUNKED" \in p.flags -> "s_chunk_size_start"
                       [] OTHER -> "s_body_identity"
  <2>1. HeadersEnd(p) = [p EXCEPT !.upgrade = upgrade, !.left = leaves, !.state = next]
    BY <1>4 DEF HeadersEnd
  <2>2. /\ next \in {"s_pre_start_req", "s_chunk_size_start", "s_body_identity"}
        /\ next = "s_chunk_size_start" => "F_CHUNKED" \in p.flags
        /\ next = "s_body_identity" => p.clen > 0
    OBVIOUS
  <2>3. upgrade \in BOOLEAN /\ leaves \in BOOLEAN
    OBVIOUS
  <2> HIDE DEF upgrade, leaves, next
  <2> QED
    BY <1>1, <2>1, <2>2, <2>3
<1> QED
  BY <1>3, <1>4

LEMMA UrlOK ==
  ASSUME ParserOK, NEW ch, Url(ch)
  PROVE  ParserOK'
<1>1. UrlGoto(ch) \in UrlStates
  BY DEF Url, UrlGoto, UrlStates, State
<1>2. CASE /\ OnUrl
           /\ \/ parser' = HeadersEnd(parser)
              \/ \E s \in Plain : parser' = [parser EXCEPT !.state = s]
  <2>1. Safe(parser')
    BY <1>2, PlainSafe, HeadersEndSafe DEF ParserOK
  <2> QED
    BY <1>2, <2>1, OnUrlOK DEF ParserOK, Safe, Counted
<1> QED
  BY <1>1, <1>2, GotoOK, FailOK, Inside DEF Url, Errors, VersionStates, LineStates

(* VERSION digits and the end of the request line.                         *)
LEMMA VersionOK ==
  ASSUME ParserOK, NEW ch,
         HttpWord(ch) \/ MajorVersion(ch) \/ MinorVersion(ch) \/ RequestLineEnd(ch)
  PROVE  ParserOK'
<1>1. CASE HttpWord(ch) \/ RequestLineEnd(ch)
  BY <1>1, GotoOK, FailOK, Inside
     DEF HttpWord, RequestLineEnd, State, Errors, VersionStates, LineStates
<1>2. ASSUME NEW s \in VersionStates, NEW m \in Nat, NEW n \in Nat
      PROVE  Safe([parser EXCEPT !.state = s, !.major = m, !.minor = n])
  <2>1. s \in Plain /\ s \in States
    BY Inside
  <2>2. [parser EXCEPT !.state = s, !.major = m, !.minor = n] \in ParserType
    BY <2>1 DEF ParserOK, Safe, ParserType
  <2> QED
    BY <2>1, <2>2 DEF Safe, Counted, ParserType, Plain, ChunkSizeStates, ChunkDataStates
<1>3. parser \in ParserType /\ parser.major \in Nat /\ parser.minor \in Nat
  BY DEF ParserOK, Safe, ParserType
<1>4. \A d \in Digits : Value[d] \in Nat
  BY ValueFacts
<1>5. CASE MajorVersion(ch)
  <2>1. CASE Goto("s_req_first_http_minor") \/ Fail("INVALID_VERSION")
    BY <2>1, GotoOK, FailOK, Inside DEF Errors, VersionStates
  <2>2. CASE /\ Quiet /\ ch \in Digits
             /\ parser' = [parser EXCEPT !.state = "s_req_http_major", !.major = Value[ch]]
    <3> DEFINE m == Value[ch]
    <3>1. m \in Nat
      BY <1>4, <2>2
    <3>2. parser' = [parser EXCEPT !.state = "s_req_http_major", !.major = m,
                                   !.minor = parser.minor]
      BY <1>3, <2>2 DEF ParserType
    <3> HIDE DEF m
    <3>3. Safe(parser')
      BY <1>2, <1>3, <3>1, <3>2 DEF VersionStates
    <3> QED
      BY <2>2, <3>3 DEF ParserOK, Quiet, Safe, Counted
  <2>3. CASE /\ Quiet /\ ch \in Digits /\ State = "s_req_http_major"
             /\ parser' = [parser EXCEPT !.major = @ * 10 + Value[ch]]
    <3> DEFINE m == parser.major * 10 + Value[ch]
    <3>1. m \in Nat
      BY <1>3, <1>4, <2>3
    <3>2. parser' = [parser EXCEPT !.state = "s_req_http_major", !.major = m,
                                   !.minor = parser.minor]
      BY <1>3, <2>3 DEF ParserType, State
    <3> HIDE DEF m
    <3>3. Safe(parser')
      BY <1>2, <1>3, <3>1, <3>2 DEF VersionStates
    <3> QED
      BY <2>3, <3>3 DEF ParserOK, Quiet, Safe, Counted
  <2> QED
    BY <1>5, <2>1, <2>2, <2>3 DEF MajorVersion
<1>6. CASE MinorVersion(ch)
  <2> DEFINE p == [parser EXCEPT !.major = 0, !.minor = 0]
  <2>1. Safe(p)
    <3>1. p \in ParserType
      BY <1>3 DEF ParserType
    <3>2. /\ p.state = parser.state /\ p.clen = parser.clen /\ p.flags = parser.flags
          /\ p.errno = parser.errno /\ p.headerState = parser.headerState
      BY <1>3 DEF ParserType
    <3> HIDE DEF p
    <3> QED
      BY <3>1, <3>2 DEF ParserOK, Safe, Counted
  <2>2. CASE Fail("INVALID_VERSION")
    BY <2>2, FailOK DEF Errors
  <2>3. CASE /\ Quiet /\ ch \in Digits
             /\ parser' = [parser EXCEPT !.state = "s_req_http_minor", !.minor = Value[ch]]
    <3>1. parser' = [parser EXCEPT !.state = "s_req_http_minor", !.major = parser.major,
                                   !.minor = Value[ch]]
      BY <1>3, <2>3 DEF ParserType
    <3>2. Safe(parser')
      BY <1>2, <1>3, <1>4, <2>3, <3>1 DEF VersionStates
    <3> QED
      BY <2>3, <3>2 DEF ParserOK, Quiet, Safe, Counted
  <2>4. CASE /\ Quiet /\ ch \in Digits /\ State = "s_req_http_minor"
             /\ parser' = [parser EXCEPT !.minor = @ * 10 + Value[ch]]
    <3> DEFINE m == parser.minor * 10 + Value[ch]
    <3>1. m \in Nat
      BY <1>3, <1>4, <2>4
    <3>2. parser' = [parser EXCEPT !.state = "s_req_http_minor", !.major = parser.major,
                                   !.minor = m]
      BY <1>3, <2>4 DEF ParserType, State
    <3> HIDE DEF m
    <3>3. Safe(parser')
      BY <1>2, <1>3, <3>1, <3>2 DEF VersionStates
    <3> QED
      BY <2>4, <3>3 DEF ParserOK, Quiet, Safe, Counted
  <2>5. CASE /\ Quiet
             /\ \/ parser' = HeadersEnd(p)
                \/ \E s \in {"s_headers_almost_done", "s_req_line_almost_done",
                            "s_header_field_start"} : parser' = [p EXCEPT !.state = s]
    <3> HIDE DEF p
    <3>1. Safe(parser')
      BY <2>1, <2>5, HeadersEndSafe, PlainSafe, Inside DEF LineStates
    <3> QED
      BY <2>5, <3>1 DEF ParserOK, Quiet, Safe, Counted
  <2> QED
    BY <1>6, <2>2, <2>3, <2>4, <2>5 DEF MinorVersion
<1> QED
  BY <1>1, <1>5, <1>6

-----------------------------------------------------------------------------
(* The header lines.                                                       *)

(* A parser that differs in the state, the kind of the line, the error and *)
(* the length only.                                                        *)
LEMMA LineSafe ==
  ASSUME NEW p, Safe(p), NEW s \in LineStates, NEW h \in LineKinds,
         NEW e \in {"OK"} \cup Errors, NEW n \in -1 .. MaxLength,
         (/\ s \in {"s_header_value", "s_header_almost_done"}
          /\ h = "h_content_length" /\ e = "OK") => n >= 0
  PROVE  Safe([p EXCEPT !.state = s, !.headerState = h, !.errno = e, !.clen = n])
<1>1. s \in States
  BY DEF States, HeaderStates
<1>2. [p EXCEPT !.state = s, !.headerState = h, !.errno = e, !.clen = n] \in ParserType
  BY <1>1 DEF Safe, ParserType
<1>3. s \notin ChunkSizeStates \cup ChunkDataStates \cup {"s_body_identity"}
  BY DEF LineStates, ChunkSizeStates, ChunkDataStates
<1> QED
  BY <1>2, <1>3 DEF Safe, ParserType, Counted, ChunkSizeStates, ChunkDataStates

LEMMA FlagsSafe ==
  ASSUME NEW p, Safe(p), NEW f \in {"F_CHUNKED", "F_TRAILING", "F_UPGRADE"}
  PROVE  Safe([p EXCEPT !.flags = @ \cup {f}])
<1>1. [p EXCEPT !.flags = @ \cup {f}] \in ParserType
  BY DEF Safe, ParserType
<1> QED
  BY <1>1 DEF Safe, ParserType, Counted, ChunkSizeStates, ChunkDataStates

LEMMA FieldStartOK ==
  ASSUME ParserOK, NEW ch, FieldStart(ch)
  PROVE  ParserOK'
<1>1. CASE Goto("s_headers_almost_done") \/ Fail("INVALID_HEADER_TOKEN")
  BY <1>1, GotoOK, FailOK, Inside DEF Errors, LineStates
<1>2. CASE parser' = HeadersEnd(parser) /\ Quiet
  <2>1. Safe(parser')
    BY <1>2, HeadersEndSafe DEF ParserOK
  <2> QED
    BY <1>2, <2>1 DEF ParserOK, Quiet, Safe, Counted
<1>3. CASE /\ Mark("field", ch)
           /\ \E h \in LineKinds :
                  parser' = [parser EXCEPT !.state = "s_header_field", !.headerState = h]
  <2>1. PICK h \in LineKinds :
               parser' = [parser EXCEPT !.state = "s_header_field", !.headerState = h]
    BY <1>3
  <2>2. /\ parser \in ParserType /\ parser.errno \in {"OK"} \cup Errors
        /\ parser.clen \in -1 .. MaxLength
    BY DEF ParserOK, Safe, ParserType
  <2>3. parser' = [parser EXCEPT !.state = "s_header_field", !.headerState = h,
                                 !.errno = parser.errno, !.clen = parser.clen]
    BY <2>1, <2>2 DEF ParserType
  <2>4. Safe(parser')
    BY <2>2, <2>3, LineSafe DEF ParserOK, LineStates
  <2> QED
    BY <1>3, <2>4 DEF Mark, ParserOK, Safe, Counted
<1> QED
  BY <1>1, <1>2, <1>3 DEF FieldStart, LineKinds

LEMMA FieldOK ==
  ASSUME ParserOK, NEW ch,
         \/ HeaderFieldStart(ch) \/ HeaderField(ch)
         \/ HeaderValueLws(ch) \/ HeadersAlmostDone(ch)
  PROVE  ParserOK'
<1>0. /\ parser \in ParserType /\ parser.errno \in {"OK"} \cup Errors
      /\ parser.clen \in -1 .. MaxLength /\ header \in HeaderType
  BY DEF ParserOK, Safe, ParserType
<1>1. CASE HeaderFieldStart(ch)
  BY <1>1, FieldStartOK DEF HeaderFieldStart
<1>2. CASE HeaderField(ch)
  <2>1. CASE Fail("INVALID_HEADER_TOKEN")
    BY <2>1, FailOK DEF Errors
  <2>2. CASE /\ State = "s_header_field" /\ UNCHANGED <<marks, header>>
             /\ parser' = [parser EXCEPT !.headerState = "h_general"]
    <3>1. parser' = [parser EXCEPT !.state = "s_header_field", !.headerState = "h_general",
                                   !.errno = parser.errno, !.clen = parser.clen]
      BY <1>0, <2>2 DEF ParserType, State
    <3>2. Safe(parser')
      BY <1>0, <3>1, LineSafe DEF ParserOK, LineStates, LineKinds
    <3> QED
      BY <2>2, <3>2 DEF ParserOK, Safe, Counted
  <2>3. CASE /\ parser' = [parser EXCEPT !.state = "s_header_value_start"]
             /\ header' = SetField(header, text)
             /\ marks' = marks \ {"field"}
    <3>1. Safe(parser')
      BY <2>3, PlainSafe, Inside DEF ParserOK, LineStates
    <3> QED
      BY <1>0, <2>3, <3>1, CallbackFacts DEF ParserOK, Safe, Counted
  <2> QED
    BY <1>2, <2>1, <2>2, <2>3 DEF HeaderField
<1>3. CASE HeaderValueLws(ch)
  <2>1. CASE FieldStart(ch)
    BY <2>1, FieldStartOK
  <2>2. CASE /\ parser' = [parser EXCEPT !.state = "s_header_value_start"]
             /\ header' = SetValue(header, "SP")
             /\ UNCHANGED marks
    <3>1. Safe(parser')
      BY <2>2, PlainSafe, Inside DEF ParserOK, LineStates
    <3> QED
      BY <1>0, <2>2, <3>1, CallbackFacts DEF ParserOK, Safe, Counted
  <2> QED
    BY <1>3, <2>1, <2>2 DEF HeaderValueLws
<1>4. CASE HeadersAlmostDone(ch)
  <2>1. CASE Fail("STRICT")
    BY <2>1, FailOK DEF Errors
  <2>2. CASE parser' = HeadersEnd(parser) /\ Quiet
    <3>1. Safe(parser')
      BY <2>2, HeadersEndSafe DEF ParserOK
    <3> QED
      BY <2>2, <3>1 DEF ParserOK, Quiet, Safe, Counted
  <2> QED
    BY <1>4, <2>1, <2>2 DEF HeadersAlmostDone
<1> QED
  BY <1>1, <1>2, <1>3, <1>4

LEMMA LineEndsSafe ==
  ASSUME ParserOK, NEW s \in {"s_header_value_lws", "s_header_value"},
         s = "s_header_value" => parser.state = "s_header_almost_done"
  PROVE  Safe(LineEnds(s))
<1> DEFINE f == IF parser.headerState = "h_transfer_encoding_chunked"
                THEN parser.flags \cup {"F_CHUNKED"} ELSE parser.flags
<1>1. /\ s \in LineStates /\ s \in States
      /\ f \subseteq {"F_CHUNKED", "F_TRAILING", "F_UPGRADE"}
  BY DEF LineStates, States, HeaderStates, ParserOK, Safe, ParserType
<1>2. LineEnds(s) = [parser EXCEPT !.state = s, !.flags = f]
  BY DEF LineEnds
<1> HIDE DEF f
<1>3. [parser EXCEPT !.state = s, !.flags = f] \in ParserType
  BY <1>1 DEF ParserOK, Safe, ParserType
<1> QED
  BY <1>2, <1>3 DEF ParserOK, Safe, ParserType, Counted, ChunkSizeStates, ChunkDataStates

(* The first digit of a length and every further one stay within its type. *)
LEMMA LengthSafe ==
  ASSUME ParserOK, NEW d \in 0 .. 9,
         parser.state = "s_header_value", parser.headerState = "h_content_length",
         parser.errno = "OK"
  PROVE  Safe(LengthDigit(d))
<1>1. /\ parser \in ParserType /\ parser.clen \in 0 .. MaxLength
      /\ "HUGE_CONTENT_LENGTH" \in Errors
  BY DEF ParserOK, Safe, ParserType, Counted, Errors
<1>2. CASE parser.clen > (MaxLength - 10) \div 10
  BY <1>1, <1>2, ErrorSafe DEF LengthDigit, ParserOK
<1>3. CASE ~(parser.clen > (MaxLength - 10) \div 10)
  <2> DEFINE n == parser.clen * 10 + d
  <2>1. n \in -1 .. MaxLength /\ n >= 0
    BY <1>1, <1>3, ParserBounds
  <2>2. LengthDigit(d) = [parser EXCEPT !.state = "s_header_value",
                              !.headerState = "h_content_length",
                              !.errno = "OK", !.clen = n]
    BY <1>1, <1>3 DEF LengthDigit, ParserType
  <2> HIDE DEF n
  <2>3. Safe([parser EXCEPT !.state = "s_header_value", !.headerState = "h_content_length",
                            !.errno = "OK", !.clen = n])
    BY <2>1, LineSafe DEF ParserOK, LineStates, LineKinds
  <2> QED
    BY <2>2, <2>3
<1> QED
  BY <1>2, <1>3

LEMMA ValueBeginsSafe ==
  ASSUME ParserOK, NEW ch
  PROVE  Safe([ValueBegins(ch) EXCEPT !.state = "s_header_value"])
<1>0. /\ parser \in ParserType /\ parser.clen \in -1 .. MaxLength
      /\ parser.errno \in {"OK"} \cup Errors /\ Safe(parser)
      /\ "s_header_value" \in LineStates /\ "INVALID_CONTENT_LENGTH" \in Errors
  BY DEF ParserOK, Safe, ParserType, LineStates, Errors
<1>1. CASE parser.headerState = "h_upgrade"
  <2> DEFINE p == [parser EXCEPT !.flags = @ \cup {"F_UPGRADE"}]
  <2>1. Safe(p) /\ p \in ParserType /\ p.clen = parser.clen /\ p.errno = parser.errno
    BY <1>0, FlagsSafe DEF ParserType, Safe
  <2>2. [ValueBegins(ch) EXCEPT !.state = "s_header_value"]
            = [p EXCEPT !.state = "s_header_value", !.headerState = "h_general",
                        !.errno = p.errno, !.clen = p.clen]
    BY <1>0, <1>1 DEF ValueBegins, ParserType
  <2> HIDE DEF p
  <2>3. Safe([p EXCEPT !.state = "s_header_value", !.headerState = "h_general",
                       !.errno = p.errno, !.clen = p.clen])
    BY <1>0, <2>1, LineSafe DEF LineKinds
  <2> QED
    BY <2>2, <2>3
<1>2. CASE parser.headerState = "h_content_length" /\ ch \in Digits
  <2> DEFINE n == Value[ch]
  <2>1. n \in -1 .. MaxLength /\ n >= 0
    BY <1>2, ValueFacts, ParserBounds
  <2>2. [ValueBegins(ch) EXCEPT !.state = "s_header_value"]
            = [parser EXCEPT !.state = "s_header_value",
                             !.headerState = "h_content_length",
                             !.errno = parser.errno, !.clen = n]
    BY <1>0, <1>2 DEF ValueBegins, ParserType
  <2> HIDE DEF n
  <2>3. Safe([parser EXCEPT !.state = "s_header_value",
                            !.headerState = "h_content_length",
                            !.errno = parser.errno, !.clen = n])
    BY <1>0, <2>1, LineSafe DEF LineKinds
  <2> QED
    BY <2>2, <2>3
<1>3. CASE parser.headerState = "h_content_length" /\ ch \notin Digits
  <2>1. [ValueBegins(ch) EXCEPT !.state = "s_header_value"]
            = [parser EXCEPT !.state = "s_header_value",
                             !.headerState = "h_content_length",
                             !.errno = "INVALID_CONTENT_LENGTH", !.clen = parser.clen]
    BY <1>0, <1>3 DEF ValueBegins, ParserType
  <2>2. Safe([parser EXCEPT !.state = "s_header_value",
                            !.headerState = "h_content_length",
                            !.errno = "INVALID_CONTENT_LENGTH", !.clen = parser.clen])
    BY <1>0, LineSafe DEF LineKinds
  <2> QED
    BY <2>1, <2>2
<1>4. CASE parser.headerState \notin {"h_content_length", "h_upgrade"}
  <2> DEFINE h == ValueBegins(ch).headerState
  <2>1. h \in LineKinds /\ h # "h_content_length"
    BY <1>0, <1>4 DEF ValueBegins, LineKinds, ParserType
  <2>2. [ValueBegins(ch) EXCEPT !.state = "s_header_value"]
            = [parser EXCEPT !.state = "s_header_value", !.headerState = h,
                             !.errno = parser.errno, !.clen = parser.clen]
    BY <1>0, <1>4 DEF ValueBegins, ParserType
  <2> HIDE DEF h
  <2>3. Safe([parser EXCEPT !.state = "s_header_value", !.headerState = h,
                            !.errno = parser.errno, !.clen = parser.clen])
    BY <1>0, <2>1, LineSafe
  <2> QED
    BY <2>2, <2>3
<1> QED
  BY <1>1, <1>2, <1>3, <1>4

LEMMA OnValueOK ==
  ASSUME ParserOK, OnValue
  PROVE  header' \in HeaderType /\ marks' \subseteq {"url", "field", "value", "body"}
BY CallbackFacts DEF OnValue, ParserOK

LEMMA ValueGoesOnSafe ==
  ASSUME ParserOK, parser.errno = "OK", NEW ch, State = "s_header_value"
  PROVE  Safe(ValueGoesOn(ch))
<1>0. /\ parser \in ParserType /\ parser.clen \in -1 .. MaxLength
      /\ parser.errno \in {"OK"} \cup Errors /\ Safe(parser)
      /\ "s_header_value" \in LineStates
  BY DEF ParserOK, Safe, ParserType, LineStates
<1>1. CASE parser.headerState = "h_content_length"
  <2>1. CASE ch = "SP"
    BY <1>0, <1>1, <2>1 DEF ValueGoesOn, Digits
  <2>2. CASE ch # "SP" /\ ch \in Digits
    <3>1. ValueGoesOn(ch) = LengthDigit(Value[ch])
      BY <1>1, <2>2 DEF ValueGoesOn
    <3>2. Value[ch] \in 0 .. 9
      BY <2>2, ValueFacts
    <3> QED
      BY <1>1, <3>1, <3>2, LengthSafe DEF State
  <2>3. CASE ch # "SP" /\ ch \notin Digits
    <3>1. ValueGoesOn(ch) = [parser EXCEPT !.errno = "INVALID_CONTENT_LENGTH"]
      BY <1>1, <2>3 DEF ValueGoesOn
    <3> QED
      BY <1>0, <3>1, ErrorSafe DEF Errors
  <2> QED
    BY <2>1, <2>2, <2>3
<1>2. CASE parser.headerState # "h_content_length"
  <2> DEFINE h == ValueGoesOn(ch).headerState
  <2>1. h \in LineKinds /\ h # "h_content_length"
    BY <1>0, <1>2 DEF ValueGoesOn, LineKinds, ParserType
  <2>2. ValueGoesOn(ch) = [parser EXCEPT !.state = "s_header_value", !.headerState = h,
                             !.errno = parser.errno, !.clen = parser.clen]
    BY <1>0, <1>2 DEF ValueGoesOn, ParserType, State
  <2> HIDE DEF h
  <2>3. Safe([parser EXCEPT !.state = "s_header_value", !.headerState = h,
                            !.errno = parser.errno, !.clen = parser.clen])
    BY <1>0, <2>1, LineSafe
  <2> QED
    BY <2>2, <2>3
<1> QED
  BY <1>1, <1>2

LEMMA ValueOK ==
  ASSUME ParserOK, parser.errno = "OK", NEW ch,
         HeaderValueStart(ch) \/ HeaderValue(ch) \/ HeaderAlmostDone(ch)
  PROVE  ParserOK'
<1>0. /\ parser \in ParserType /\ parser.clen \in -1 .. MaxLength
      /\ parser.errno \in {"OK"} \cup Errors /\ Safe(parser) /\ header \in HeaderType
  BY DEF ParserOK, Safe, ParserType
<1>1. CASE HeaderValueStart(ch)
  <2>1. CASE Goto(State)
    BY <2>1, GotoOK DEF State
  <2>2. CASE EmptyValueError # "OK" /\ Fail(EmptyValueError)
    <3>1. EmptyValueError \in Errors
      BY <2>2 DEF EmptyValueError, Errors
    <3> QED
      BY <2>2, <3>1, FailOK
  <2>3. CASE /\ parser' = [parser EXCEPT !.headerState = "h_general",
                                         !.state = "s_header_almost_done"]
             /\ header' = SetValue(header, "") /\ UNCHANGED marks
    <3>1. parser' = [parser EXCEPT !.state = "s_header_almost_done",
                                   !.headerState = "h_general",
                                   !.errno = parser.errno, !.clen = parser.clen]
      BY <1>0, <2>3 DEF ParserType
    <3>2. Safe([parser EXCEPT !.state = "s_header_almost_done",
                              !.headerState = "h_general",
                              !.errno = parser.errno, !.clen = parser.clen])
      BY <1>0, LineSafe DEF LineStates, LineKinds
    <3> QED
      BY <1>0, <2>3, <3>1, <3>2, CallbackFacts DEF ParserOK, Safe, Counted
  <2>4. CASE /\ parser' = [parser EXCEPT !.state = "s_header_field_start"]
             /\ header' = SetValue(header, "") /\ UNCHANGED marks
    <3>1. Safe(parser')
      BY <1>0, <2>4, PlainSafe, Inside DEF LineStates
    <3> QED
      BY <1>0, <2>4, <3>1, CallbackFacts DEF ParserOK, Safe, Counted
  <2>5. CASE /\ parser' = [ValueBegins(ch) EXCEPT !.state = "s_header_value"]
             /\ Mark("value", ch)
    <3>1. Safe(parser')
      BY <2>5, ValueBeginsSafe
    <3> QED
      BY <2>5, <3>1 DEF Mark, ParserOK, Safe, Counted
  <2> QED
    BY <1>1, <2>1, <2>2, <2>3, <2>4, <2>5 DEF HeaderValueStart
<1>2. CASE HeaderValue(ch)
  <2>1. CASE /\ State = "s_header_value" /\ OnValue
             /\ \/ parser' = [parser EXCEPT !.state = "s_header_almost_done"]
                \/ parser' = LineEnds("s_header_value_lws")
    <3>1. "s_header_almost_done" \in States
      BY DEF States, HeaderStates, LineStates
    <3>2. [parser EXCEPT !.state = "s_header_almost_done"] \in ParserType
      BY <1>0, <3>1 DEF ParserType
    <3>3. Safe([parser EXCEPT !.state = "s_header_almost_done"])
      BY <1>0, <2>1, <3>2
         DEF State, Safe, ParserType, Counted, ChunkSizeStates, ChunkDataStates
    <3>4. Safe(parser')
      BY <2>1, <3>3, LineEndsSafe
    <3> QED
      BY <2>1, <3>4, OnValueOK DEF ParserOK, Safe, Counted
  <2>2. CASE Fail("INVALID_HEADER_TOKEN")
    BY <2>2, FailOK DEF Errors
  <2>3. CASE /\ State = "s_header_value" /\ parser' = ValueGoesOn(ch)
             /\ UNCHANGED <<marks, header>>
    <3>1. Safe(parser')
      BY <2>3, ValueGoesOnSafe
    <3> QED
      BY <2>3, <3>1 DEF ParserOK, Safe, Counted
  <2> QED
    BY <1>2, <2>1, <2>2, <2>3 DEF HeaderValue
<1>3. CASE HeaderAlmostDone(ch)
  <2>1. Safe(parser')
    BY <1>3, LineEndsSafe DEF HeaderAlmostDone, State
  <2> QED
    BY <1>0, <1>3, <2>1, CallbackFacts DEF HeaderAlmostDone, ParserOK, Quiet, Safe, Counted
<1> QED
  BY <1>1, <1>2, <1>3

-----------------------------------------------------------------------------
(* Bodies and chunks: what is counted down is at least one.                *)

LEMMA CountSafe ==
  ASSUME NEW p, Safe(p), NEW s \in States, NEW n \in -1 .. MaxLength,
         s \in ChunkSizeStates \cup ChunkDataStates => "F_CHUNKED" \in p.flags,
         s \notin {"s_header_value", "s_header_almost_done"},
         s \in {"s_body_identity", "s_chunk_data"} => n > 0,
         s = "s_chunk_data_almost_done" => n = 0,
         s \in ChunkSizeStates => n >= 0
  PROVE  Safe([p EXCEPT !.clen = n, !.state = s])
<1>1. [p EXCEPT !.clen = n, !.state = s] \in ParserType
  BY DEF Safe, ParserType
<1> QED
  BY <1>1 DEF Safe, ParserType, Counted, ChunkSizeStates, ChunkDataStates

LEMMA BodyOK ==
  ASSUME ParserOK, BodyIdentity
  PROVE  ParserOK'
<1>0. /\ parser \in ParserType /\ parser.clen \in 1 .. MaxLength /\ Safe(parser)
      /\ parser.state = "s_body_identity"
  BY DEF ParserOK, Safe, ParserType, Counted, BodyIdentity, State
<1>1. CASE parser.clen = 1
  <2>1. parser' = [parser EXCEPT !.clen = 0, !.state = "s_pre_start_req",
                                 !.left = parser.upgrade]
    BY <1>0, <1>1 DEF BodyIdentity, MessageDone, ParserType
  <2>2. parser.upgrade \in BOOLEAN /\ "s_pre_start_req" \in States /\ 0 \in -1 .. MaxLength
    BY <1>0, ParserBounds DEF ParserType, States, HeaderStates
  <2>3. [parser EXCEPT !.clen = 0, !.state = "s_pre_start_req",
                       !.left = parser.upgrade] \in ParserType
    BY <1>0, <2>2 DEF ParserType
  <2>4. Safe(parser')
    BY <1>0, <2>1, <2>3 DEF Safe, ParserType, Counted, ChunkSizeStates, ChunkDataStates
  <2> QED
    BY <1>1, <2>4 DEF BodyIdentity, ParserOK, Safe, Counted
<1>2. CASE parser.clen # 1
  <2> DEFINE n == parser.clen - 1
  <2>1. n \in -1 .. MaxLength /\ n > 0
    BY <1>0, <1>2, ParserBounds
  <2>2. parser' = [parser EXCEPT !.clen = n, !.state = "s_body_identity"]
    BY <1>0, <1>2 DEF BodyIdentity, ParserType
  <2>3. "s_body_identity" \in States \ (ChunkSizeStates \cup ChunkDataStates)
    BY DEF States, ChunkSizeStates, ChunkDataStates
  <2> HIDE DEF n
  <2>4. Safe([parser EXCEPT !.clen = n, !.state = "s_body_identity"])
    BY <1>0, <2>1, <2>3, CountSafe
  <2> QED
    BY <1>2, <2>2, <2>4 DEF BodyIdentity, ParserOK, Safe, Counted
<1> QED
  BY <1>1, <1>2

LEMMA ChunkStates ==
  /\ ChunkSizeStates \cup ChunkDataStates \subseteq States
  /\ (ChunkSizeStates \cup ChunkDataStates)
        \cap {"s_header_value", "s_header_almost_done", "s_body_identity"} = {}
  /\ ChunkSizeStates \cap ChunkDataStates = {}
  /\ {"s_chunk_size_start", "s_chunk_size", "s_chunk_parameters",
      "s_chunk_size_almost_done"} = ChunkSizeStates
  /\ {"s_chunk_data", "s_chunk_data_almost_done", "s_chunk_data_done"} = ChunkDataStates
BY DEF States, HeaderStates, ChunkSizeStates, ChunkDataStates

LEMMA ChunkDataOK ==
  ASSUME ParserOK, ChunkData
  PROVE  ParserOK'
<1>0. /\ parser \in ParserType /\ Safe(parser) /\ "F_CHUNKED" \in parser.flags
      /\ parser.clen \in -1 .. MaxLength
  BY DEF ParserOK, Safe, ParserType, Counted, ChunkData, State, ChunkDataStates
<1>1. Safe(parser')
  <2>1. CASE parser.state = "s_chunk_data"
    <3> DEFINE n == parser.clen - 1
               s == IF n = 0 THEN "s_chunk_data_almost_done" ELSE "s_chunk_data"
    <3>1. n \in -1 .. MaxLength /\ n >= 0
      BY <1>0, <2>1, ParserBounds DEF Safe, Counted
    <3>2. parser' = [parser EXCEPT !.clen = n, !.state = s]
      BY <1>0, <2>1 DEF ChunkData, State
    <3>3. /\ s \in ChunkDataStates /\ s # "s_chunk_size_start"
          /\ s = "s_chunk_data" => n # 0
          /\ s = "s_chunk_data_almost_done" => n = 0
      BY ChunkStates
    <3> HIDE DEF n, s
    <3>a. /\ s \in States /\ s \notin ChunkSizeStates
          /\ s \notin {"s_header_value", "s_header_almost_done"}
          /\ s \in {"s_body_identity", "s_chunk_data"} => n > 0
      BY <3>1, <3>3, ChunkStates, ParserBounds
    <3>4. Safe([parser EXCEPT !.clen = n, !.state = s])
      BY <1>0, <3>1, <3>3, <3>a, CountSafe
    <3> QED
      BY <3>2, <3>4
  <2>2. CASE parser.state = "s_chunk_data_almost_done"
    <3>1. parser' = [parser EXCEPT !.clen = parser.clen, !.state = "s_chunk_data_done"]
      BY <1>0, <2>2 DEF ChunkData, State, ParserType
    <3>2. Safe([parser EXCEPT !.clen = parser.clen, !.state = "s_chunk_data_done"])
      BY <1>0, ChunkStates, CountSafe
    <3> QED
      BY <3>1, <3>2
  <2>3. CASE parser.state = "s_chunk_data_done"
    <3>1. parser' = [parser EXCEPT !.state = "s_chunk_size_start"]
      BY <2>3 DEF ChunkData, State
    <3>2. [parser EXCEPT !.state = "s_chunk_size_start"] \in ParserType
      BY <1>0, ChunkStates DEF ParserType
    <3> QED
      BY <1>0, <3>1, <3>2
         DEF Safe, ParserType, Counted, ChunkSizeStates, ChunkDataStates
  <2> QED
    BY <2>1, <2>2, <2>3 DEF ChunkData, State
<1> QED
  BY <1>1 DEF ChunkData, ParserOK, Safe, Counted

LEMMA ChunkSizeOK ==
  ASSUME ParserOK, NEW ch, ChunkSize(ch)
  PROVE  ParserOK'
<1>0. /\ parser \in ParserType /\ Safe(parser) /\ "F_CHUNKED" \in parser.flags
      /\ parser.clen \in -1 .. MaxLength
      /\ parser.state # "s_chunk_size_start" => parser.clen >= 0
  BY DEF ParserOK, Safe, ParserType, Counted, ChunkSize, State, ChunkSizeStates
<1>1. CASE \E e \in {"INVALID_CHUNK_SIZE", "HUGE_CHUNK_SIZE"} : Fail(e)
  BY <1>1, FailOK DEF Errors
<1>2. ASSUME NEW s \in ChunkSizeStates, parser.clen >= 0, Goto(s)
      PROVE  ParserOK'
  <2>1. parser' = [parser EXCEPT !.clen = parser.clen, !.state = s]
    BY <1>0, <1>2 DEF Goto, ParserType
  <2>2. Safe([parser EXCEPT !.clen = parser.clen, !.state = s])
    BY <1>0, <1>2, ChunkStates, CountSafe
  <2> QED
    BY <1>2, <2>1, <2>2 DEF Goto, Quiet, ParserOK, Safe, Counted
<1>3. ASSUME NEW n \in 0 .. MaxLength, Quiet,
             parser' = [parser EXCEPT !.clen = n, !.state = "s_chunk_size"]
      PROVE  ParserOK'
  <2>a. n \in -1 .. MaxLength /\ n >= 0 /\ "s_chunk_size" \in States
    BY <1>3, ChunkStates, ParserBounds
  <2>1. Safe([parser EXCEPT !.clen = n, !.state = "s_chunk_size"])
    BY <1>0, <2>a, CountSafe
  <2> QED
    BY <1>3, <2>1 DEF Quiet, ParserOK, Safe, Counted
<1>4. CASE State = "s_chunk_size_start"
  <2>1. CASE /\ ch \in Hex /\ Quiet
             /\ parser' = [parser EXCEPT !.state = "s_chunk_size", !.clen = Value[ch]]
    <3>1. Value[ch] \in 0 .. MaxLength
      BY <2>1, ValueFacts, ParserBounds
    <3>2. parser' = [parser EXCEPT !.clen = Value[ch], !.state = "s_chunk_size"]
      BY <1>0, <2>1 DEF ParserType
    <3> QED
      BY <1>3, <2>1, <3>1, <3>2
  <2> QED
    BY <1>1, <1>4, <2>1 DEF ChunkSize
<1>5. CASE State = "s_chunk_size"
  <2>1. CASE /\ ch \in Hex /\ parser.clen <= (MaxLength - Value[ch]) \div 16
             /\ parser' = [parser EXCEPT !.clen = @ * 16 + Value[ch]]
             /\ Quiet
    <3> DEFINE n == parser.clen * 16 + Value[ch]
    <3>1. Value[ch] \in 0 .. 15
      BY <2>1, ValueFacts
    <3>2. n \in 0 .. MaxLength
      BY <1>0, <1>5, <2>1, <3>1, ParserBounds DEF State
    <3>3. parser' = [parser EXCEPT !.clen = n, !.state = "s_chunk_size"]
      BY <1>0, <1>5, <2>1 DEF ParserType, State
    <3> HIDE DEF n
    <3> QED
      BY <1>3, <2>1, <3>2, <3>3
  <2> QED
    BY <1>0, <1>1, <1>2, <1>5, <2>1, ChunkStates DEF ChunkSize, State
<1>6. CASE State = "s_chunk_parameters"
  <2>1. \E s \in ChunkSizeStates : Goto(s)
    BY <1>6, ChunkStates DEF ChunkSize
  <2> QED
    BY <1>0, <1>2, <1>6, <2>1 DEF State
<1>7. CASE State = "s_chunk_size_almost_done"
  <2>1. CASE parser.clen = 0
    <3> DEFINE p == [parser EXCEPT !.flags = @ \cup {"F_TRAILING"}]
    <3>1. Safe(p)
      BY <1>0, FlagsSafe
    <3>2. parser' = [p EXCEPT !.state = "s_header_field_start"]
      BY <1>0, <1>7, <2>1 DEF ChunkSize, ParserType, State
    <3> HIDE DEF p
    <3>3. Safe(parser')
      BY <3>1, <3>2, PlainSafe, Inside DEF LineStates
    <3> QED
      BY <1>7, <3>3 DEF ChunkSize, State, Quiet, ParserOK, Safe, Counted
  <2>2. CASE parser.clen # 0
    <3>1. parser' = [parser EXCEPT !.clen = parser.clen, !.state = "s_chunk_data"]
      BY <1>0, <1>7, <2>2 DEF ChunkSize, ParserType, State
    <3>a. parser.clen > 0 /\ "s_chunk_data" \in States \ ChunkSizeStates
      BY <1>0, <1>7, <2>2, ChunkStates, ParserBounds DEF State
    <3>2. Safe([parser EXCEPT !.clen = parser.clen, !.state = "s_chunk_data"])
      BY <1>0, <3>a, CountSafe
    <3> QED
      BY <1>7, <3>1, <3>2 DEF ChunkSize, State, Quiet, ParserOK, Safe, Counted
  <2> QED
    BY <2>1, <2>2
<1> QED
  BY <1>4, <1>5, <1>6, <1>7 DEF ChunkSize

-----------------------------------------------------------------------------
LEMMA ExecuteOK ==
  ASSUME ParserOK, NEW ch, Execute(ch)
  PROVE  ParserOK'
<1>1. CASE UNCHANGED parser /\ Quiet
  BY <1>1 DEF Quiet, ParserOK, Safe, Counted
<1>2. CASE parser.errno = "OK" /\ Execute(ch) /\ ~(UNCHANGED parser /\ Quiet)
  BY <1>2, StartOK, UrlStartOK, HostOK, UrlOK, VersionOK, FieldOK, ValueOK, BodyOK,
     ChunkSizeOK, ChunkDataOK DEF Execute
<1> QED
  BY <1>1, <1>2 DEF Execute, Running

LEMMA ReturnOK ==
  ASSUME ParserOK, ExecuteReturns
  PROVE  ParserOK'
<1>1. \A h \in HeaderType : LeftOver(h) \in HeaderType
  BY CallbackFacts DEF LeftOver
<1>2. \A h \in HeaderType : [h EXCEPT !.ready = TRUE] \in HeaderType
  BY DEF HeaderType
<1>3. header' \in HeaderType
  BY <1>1, <1>2 DEF ExecuteReturns, ParserOK
<1>4. Safe(parser')
  BY ErrorSafe DEF ExecuteReturns, ParserOK, Errors
<1> QED
  BY <1>3, <1>4 DEF ExecuteReturns, ParserOK, Safe, Counted

ResponseOK ==
    /\ size \in Nat /\ capacity \in Nat /\ pieces \in Seq(Nat)
    /\ response \in {"none", "printing", "sent"}

LEMMA PrintingOK ==
  ASSUME ResponseOK, Printing
  PROVE  ResponseOK'
<1>1. CASE PrintPiece
  <2>1. Head(pieces) \in Nat /\ Tail(pieces) \in Seq(Nat)
    BY <1>1 DEF PrintPiece, ResponseOK
  <2> QED
    BY <1>1, <2>1 DEF PrintPiece, ResponseOK
<1>2. CASE EnlargeBuffer
  <2>1. Head(pieces) \in Nat
    BY <1>2 DEF EnlargeBuffer, ResponseOK
  <2> QED
    BY <1>2, <2>1 DEF EnlargeBuffer, NewCapacity, ResponseOK
<1>3. CASE SendHeader
  BY <1>3 DEF SendHeader, ResponseOK
<1> QED
  BY <1>1, <1>2, <1>3 DEF Printing

(* http_parser_init() on a zeroed object.                                  *)
LEMMA InitSafe == Safe(InitParser) /\ InitHeader \in HeaderType
<1>1. InitParser \in ParserType
  BY ParserBounds DEF InitParser, ParserType, States, HeaderStates, LineKinds
<1>2. Counted(InitParser)
  BY DEF InitParser, Counted, ChunkSizeStates, ChunkDataStates
<1> QED
  BY <1>1, <1>2 DEF Safe, InitHeader, HeaderType

LEMMA PrepareOK ==
  ASSUME ResponseOK, NEW d \in LengthSizes, NEW k, Prepare(d, k)
  PROVE  ResponseOK'
<1>1. d \in Nat
  BY ResponseBounds
<1>2. Pieces(d, k) \in Seq(Nat)
  BY <1>1 DEF Pieces
<1> QED
  BY <1>2 DEF Prepare, ResponseOK

HeadInv == ParserOK /\ ResponseOK /\ scan \in 0 .. 4

(* The inductive invariant, with one step per action of Next.              *)
THEOREM HeadInvariance == Spec => []HeadInv
<1>1. Init => HeadInv
  <2> SUFFICES ASSUME Init PROVE HeadInv
    OBVIOUS
  <2>1. ParserOK
    BY InitSafe DEF Init, ParserOK
  <2>2. size = 0 /\ capacity = Capacity /\ pieces = <<>> /\ response = "none" /\ scan = 0
    BY Zenon DEF Init, ResponseInit
  <2>3. ResponseOK
    BY <2>2, ResponseBounds DEF ResponseOK
  <2> QED
    BY <2>1, <2>2, <2>3 DEF HeadInv
<1>2. HeadInv /\ [Next]_vars => HeadInv'
  <2> SUFFICES ASSUME HeadInv, [Next]_vars PROVE HeadInv'
    OBVIOUS
  <2> USE DEF HeadInv
  <2>p. ASSUME UNCHANGED parserVars PROVE ParserOK'
    BY <2>p DEF parserVars, ParserOK, Safe, Counted
  <2>r. ASSUME UNCHANGED responseVars PROVE ResponseOK'
    BY <2>r DEF responseVars, ResponseOK
  <2>w. ASSUME NEW l, NEW m, Writes(l, m) PROVE HeadInv'
    BY <2>w, <2>p, <2>r DEF Writes
  <2>1. ASSUME NEW u \in Urls, SendRequestLine(u) PROVE HeadInv'
    BY <2>1, <2>w DEF SendRequestLine
  <2>2. ASSUME NEW n \in Lengths, SendLength(n) PROVE HeadInv'
    BY <2>2, <2>w DEF SendLength
  <2>3. ASSUME NEW k \in BOOLEAN, SendConnection(k) PROVE HeadInv'
    BY <2>3, <2>w DEF SendConnection
  <2>4. CASE SendChunked
    BY <2>4, <2>w DEF SendChunked
  <2>5. ASSUME NEW m \in {"x", "upgrade"}, NEW v \in Values, SendOther(m, v) PROVE HeadInv'
    BY <2>5, <2>w DEF SendOther
  <2>6. CASE SendBlankLine
    BY <2>6, <2>w DEF SendBlankLine
  <2>7. ASSUME NEW ch, Receive(ch) PROVE HeadInv'
    <3>1. scan' \in 0 .. 4
      BY <2>7 DEF Receive, ScanStep
    <3> QED
      BY <2>7, <2>r, <3>1, ExecuteOK DEF Receive
  <2>8. CASE ReceiveLine
    BY <2>8, <2>7 DEF ReceiveLine
  <2>9. ASSUME NEW ch \in Alphabet, ReceiveFree(ch) PROVE HeadInv'
    BY <2>9, <2>7 DEF ReceiveFree
  <2>10. CASE TryParse
    BY <2>10, <2>r, ReturnOK DEF TryParse
  <2>11. ASSUME NEW d \in LengthSizes, Respond(d) PROVE HeadInv'
    BY <2>11, <2>p, PrepareOK DEF Respond
  <2>12. CASE PrintResponse
    BY <2>12, <2>p, PrintingOK DEF PrintResponse
  <2>13. CASE Reset
    <3>1. parser' = InitParser /\ header' = InitHeader /\ marks' = {} /\ scan' = 0
      BY <2>13 DEF Reset, ResetRequest
    <3>2. Safe(parser')
      BY <3>1, InitSafe
    <3>3. ParserOK'
      BY <3>1, <3>2, InitSafe DEF ParserOK, Safe, Counted
    <3>4. ResponseOK'
      BY <2>13 DEF Reset, ResponseReset, ResponseOK
    <3> QED
      BY <3>1, <3>3, <3>4
  <2>14. CASE UNCHANGED vars
    BY <2>14, <2>p, <2>r DEF vars, parserVars
  <2> QED
    BY <2>1, <2>2, <2>3, <2>4, <2>5, <2>6, <2>8, <2>9, <2>10, <2>11, <2>12, <2>13, <2>14
       DEF Next
<1> QED
  BY <1>1, <1>2, PTL DEF Spec

(* Whatever a client sends and whatever MaxLength is, the parser and the   *)
(* headers keep their types; a Content-Length or a chunk size that would   *)
(* not fit is refused before it is computed.                               *)
THEOREM TypeCorrect == Spec => []TypeOK
<1>1. HeadInv => TypeOK
  BY DEF HeadInv, ParserOK, ResponseOK, Safe, TypeOK
<1> QED
  BY <1>1, HeadInvariance, PTL

-----------------------------------------------------------------------------
(* The buffer of the response.  That what has been printed and what is     *)
(* left add up to the whole header needs the Connection of the request to  *)
(* stay what it was, hence that the parser is done when a response begins. *)

LEMMA ReadyKept ==
  ASSUME header \in HeaderType, NEW ch, Execute(ch)
  PROVE  header'.ready = header.ready
<1> DEFINE Called == \/ header' = header \/ header' = SetUrl(header)
                     \/ \E v : header' = SetField(header, v)
                     \/ \E v : header' = SetValue(header, v)
<1>1. StartRequest(ch) \/ Method(ch) \/ SpacesBeforeUrl(ch) \/ Schema(ch) => Called
  BY Zenon DEF StartRequest, Method, SpacesBeforeUrl, Schema, Mark, Goto, Fail, Quiet
<1>2. Host(ch) \/ Url(ch) => Called
  BY Zenon DEF Host, HostDone, AfterHost, Url, OnUrl, Goto, Fail, Quiet
<1>3. HttpWord(ch) \/ MajorVersion(ch) \/ MinorVersion(ch) \/ RequestLineEnd(ch) => Called
  BY Zenon DEF HttpWord, MajorVersion, MinorVersion, RequestLineEnd, Goto, Fail, Quiet
<1>4. (\/ HeaderFieldStart(ch) \/ HeaderField(ch) \/ HeaderValueLws(ch)
       \/ HeadersAlmostDone(ch)) => Called
  BY Zenon DEF HeaderFieldStart, FieldStart, HeaderField, HeaderValueLws,
               HeadersAlmostDone, Mark, Goto, Fail, Quiet
<1>5. HeaderValueStart(ch) \/ HeaderValue(ch) \/ HeaderAlmostDone(ch) => Called
  BY Zenon DEF HeaderValueStart, HeaderValue, HeaderAlmostDone, OnValue, Mark, Goto,
               Fail, Quiet
<1>6. BodyIdentity \/ ChunkSize(ch) \/ ChunkData => Called
  BY Zenon DEF BodyIdentity, ChunkSize, ChunkData, Goto, Fail, Quiet
<1>q. Quiet => Called
  BY DEF Quiet
<1>7. Called
  <2> HIDE DEF Called
  <2> QED
    BY <1>1, <1>2, <1>3, <1>4, <1>5, <1>6, <1>q DEF Execute
<1>8. /\ SetUrl(header).ready = header.ready
      /\ \A v : SetField(header, v).ready = header.ready
      /\ \A v : SetValue(header, v).ready = header.ready
  BY DEF SetUrl, SetField, SetValue, HeaderType
<1> QED
  BY <1>7, <1>8

Total(d) == 39 + d + (IF header.keepAlive THEN 22 ELSE 17)

(* The positions of generate_header(): what is in the buffer, and the      *)
(* pieces that are still to come.                                          *)
Position(d, c) ==
    \/ size = 0 /\ pieces = <<15, 2, 16 + d, 2, c, 2, 2>>
    \/ size = 15 /\ pieces = <<2, 16 + d, 2, c, 2, 2>>
    \/ size = 17 /\ pieces = <<16 + d, 2, c, 2, 2>>
    \/ size = 33 + d /\ pieces = <<2, c, 2, 2>>
    \/ size = 35 + d /\ pieces = <<c, 2, 2>>
    \/ size = 35 + d + c /\ pieces = <<2, 2>>
    \/ size = 37 + d + c /\ pieces = <<2>>
    \/ size = 39 + d + c /\ pieces = <<>>

Printed ==
    /\ capacity > 0
    /\ header.ready => scan = 4
    /\ response # "none" => header.ready /\ size < capacity
    /\ response = "printing" =>
           \E d \in LengthSizes : Position(d, IF header.keepAlive THEN 22 ELSE 17)
    /\ response = "sent" => \E d \in LengthSizes : size = Total(d)

LEMMA PositionSteps ==
  ASSUME NEW d \in Nat, NEW c \in Nat, Position(d, c)
  PROVE  /\ pieces = <<>> => size = 39 + d + c
         /\ PrintPiece => Position(d, c)'
         /\ size \in Nat
         /\ pieces # <<>> => Head(pieces) \in Nat
<1> USE DEF Position
<1>1. CASE size = 0 /\ pieces = <<15, 2, 16 + d, 2, c, 2, 2>>
  BY <1>1 DEF PrintPiece
<1>2. CASE size = 15 /\ pieces = <<2, 16 + d, 2, c, 2, 2>>
  BY <1>2 DEF PrintPiece
<1>3. CASE size = 17 /\ pieces = <<16 + d, 2, c, 2, 2>>
  BY <1>3 DEF PrintPiece
<1>4. CASE size = 33 + d /\ pieces = <<2, c, 2, 2>>
  BY <1>4 DEF PrintPiece
<1>5. CASE size = 35 + d /\ pieces = <<c, 2, 2>>
  BY <1>5 DEF PrintPiece
<1>6. CASE size = 35 + d + c /\ pieces = <<2, 2>>
  BY <1>6 DEF PrintPiece
<1>7. CASE size = 37 + d + c /\ pieces = <<2>>
  BY <1>7 DEF PrintPiece
<1>8. CASE size = 39 + d + c /\ pieces = <<>>
  BY <1>8 DEF PrintPiece
<1> QED
  BY <1>1, <1>2, <1>3, <1>4, <1>5, <1>6, <1>7, <1>8

LEMMA PrintedKept ==
  ASSUME HeadInv, Printed, Next
  PROVE  Printed'
<1>0. /\ header \in HeaderType /\ capacity \in Nat /\ size \in Nat
      /\ \A d \in LengthSizes : d \in Nat
  BY ResponseBounds DEF HeadInv, ParserOK, ResponseOK
<1>u. ASSUME UNCHANGED <<header, scan, responseVars>> PROVE Printed'
  BY <1>u DEF Printed, Position, Total, responseVars
<1>w. ASSUME NEW l, NEW m, Writes(l, m) PROVE Printed'
  BY <1>w, <1>u DEF Writes, parserVars
<1>1. ASSUME NEW ch, Receive(ch) PROVE Printed'
  <2>1. ~header.ready /\ response = "none"
    BY <1>1 DEF Receive, Printed
  <2>2. ~header'.ready /\ response' = "none" /\ capacity' = capacity
    BY <1>0, <1>1, <2>1, ReadyKept DEF Receive, responseVars
  <2> QED
    BY <2>2 DEF Printed
<1>2. CASE TryParse
  <2>1. response = "none" /\ scan = 4
    BY <1>2 DEF TryParse, Printed
  <2> QED
    BY <1>2, <2>1 DEF TryParse, Printed, responseVars
<1>3. ASSUME NEW d \in LengthSizes, Respond(d) PROVE Printed'
  <2>1. /\ size' = 0 /\ capacity' = capacity /\ response' = "printing" /\ header' = header
        /\ header.ready /\ scan' = scan
        /\ pieces' = <<15, 2, 16 + d, 2, IF header.keepAlive THEN 22 ELSE 17, 2, 2>>
    BY <1>3 DEF Respond, Prepare, Pieces, parserVars
  <2>2. Position(d, IF header.keepAlive THEN 22 ELSE 17)'
    BY <2>1 DEF Position
  <2> QED
    BY <2>1, <2>2 DEF Printed
<1>4. CASE PrintResponse
  <2>1. PICK d \in LengthSizes, c \in Nat :
               c = (IF header.keepAlive THEN 22 ELSE 17) /\ Position(d, c)
    BY <1>4 DEF PrintResponse, Printing, PrintPiece, EnlargeBuffer, SendHeader, Printed
  <2>2. d \in Nat /\ c \in Nat
    BY <1>0
  <2>3. header' = header /\ scan' = scan
    BY <1>4 DEF PrintResponse, parserVars
  <2>4. Total(d) = 39 + d + c
    BY <2>1 DEF Total
  <2>5. c = IF header'.keepAlive THEN 22 ELSE 17
    BY <2>1, <2>3
  <2>6. /\ pieces = <<>> => size = 39 + d + c
        /\ pieces # <<>> => Head(pieces) \in Nat
    BY <2>1, <2>2, PositionSteps
  <2>7. CASE PrintPiece
    <3>1. Position(d, c)'
      BY <2>1, <2>2, <2>7, PositionSteps
    <3>2. size' < capacity' /\ response' = "printing" /\ capacity' = capacity
          /\ header.ready
      BY <1>0, <2>6, <2>7 DEF PrintPiece, Fits, Printed
    <3> QED
      BY <2>2, <2>3, <2>5, <3>1, <3>2 DEF Printed
  <2>8. CASE EnlargeBuffer
    <3>1. /\ response' = "printing" /\ header.ready /\ size' = size /\ pieces' = pieces
          /\ size < capacity /\ capacity > 0
          /\ capacity' = NewCapacity(size + Head(pieces)) /\ ~Fits /\ Head(pieces) \in Nat
      BY <2>6, <2>8 DEF EnlargeBuffer, Printed
    <3>2. capacity' >= capacity /\ capacity' \in Nat
      BY <1>0, <3>1 DEF Fits, NewCapacity
    <3>3. Position(d, c)'
      BY <2>1, <2>2, <3>1 DEF Position
    <3>4. size' < capacity' /\ capacity' > 0
      BY <1>0, <3>1, <3>2
    <3> QED
      BY <2>2, <2>3, <2>5, <3>1, <3>3, <3>4 DEF Printed
  <2>9. CASE SendHeader
    <3>1. response' = "sent" /\ size' = size /\ capacity' = capacity /\ size = Total(d)
      BY <2>4, <2>6, <2>9 DEF SendHeader
    <3>2. size' = Total(d)'
      BY <2>3, <3>1 DEF Total
    <3>3. header.ready /\ size < capacity
      BY <2>9 DEF SendHeader, Printed
    <3> QED
      BY <2>3, <3>1, <3>2, <3>3 DEF Printed
  <2> QED
    BY <1>4, <2>7, <2>8, <2>9 DEF PrintResponse, Printing
<1>5. CASE Reset
  BY <1>5 DEF Reset, ResetRequest, ResponseReset, InitHeader, Printed
<1> QED
  BY <1>w, <1>1, <1>2, <1>3, <1>4, <1>5
     DEF Next, SendRequestLine, SendLength, SendConnection, SendChunked, SendOther,
         SendBlankLine, ReceiveLine, ReceiveFree

(* For every initial capacity and every number of digits: the terminating  *)
(* zero of a printf() has room, and a response that is sent is exactly its *)
(* own header.                                                             *)
THEOREM ResponseAlwaysFits == Spec => []ResponseFits
<1>1. Init => Printed
  <2> SUFFICES ASSUME Init PROVE Printed
    OBVIOUS
  <2>1. capacity = Capacity /\ response = "none" /\ header = InitHeader
    BY Zenon DEF Init, ResponseInit
  <2> QED
    BY <2>1, ResponseBounds DEF Printed, InitHeader
<1>2. HeadInv /\ Printed /\ [Next]_vars => Printed'
  <2>1. UNCHANGED vars /\ Printed => Printed'
    BY DEF vars, responseVars, Printed, Position, Total
  <2> QED
    BY <2>1, PrintedKept
<1>3. Printed => ResponseFits
  BY DEF Printed, ResponseFits, Total
<1> QED
  BY <1>1, <1>2, <1>3, HeadInvariance, PTL DEF Spec

-----------------------------------------------------------------------------
(* The marks of http_parser_execute(): at most one is set, in the states   *)
(* that belong to it, and none but that of a body survives the CR LF CR LF *)
(* try_parse() looks for; so no callback gets half of a URL, a name or a   *)
(* value.                                                                  *)

(* The states in which a mark may be set.                                  *)
MarkOf(s) ==
    CASE s \in UrlStates \cup HostStates -> {"url"}
      [] s = "s_header_field" -> {"field"}
      [] s = "s_header_value" -> {"value"}
      [] s \in {"s_body_identity", "s_chunk_data", "s_chunk_data_almost_done"} -> {"body"}
      [] OTHER -> {}

Escape == "h_general_and_quote_and_escape"

(* While the parser runs, a mark is that of its state; a value that goes   *)
(* on without a mark has no name any more.                                 *)
MarkInv ==
    /\ \E m : marks \subseteq {m}
    /\ Running => marks \subseteq MarkOf(State)
    /\ Running /\ State = "s_header_value" /\ "value" \notin marks =>
           header.nameIs = "kNone"
    /\ ValueComparedOnce

(* What may be marked behind a CR, a CR LF and a CR LF CR: STRICT_CHECK()  *)
(* being empty, "://" of a URL may hold the first two, and a quoted value  *)
(* an escaped CR.                                                          *)
Delivered == Running => marks \subseteq {"body"}
BehindCR ==
    Running => \/ marks \subseteq {"body"}
               \/ State \in {"s_req_schema_slash_slash", "s_req_host_start"}
               \/ State = "s_header_value" /\ parser.headerState # Escape
BehindCRLF == Running => marks \subseteq {"body"} \/ State = "s_req_host_start"

ScanInv ==
    /\ scan = 1 => BehindCR
    /\ scan = 2 => BehindCRLF
    /\ scan \in {3, 4} => Delivered

(* The same as a property of a step on one symbol.                         *)
StepInv(ch) ==
    /\ MarkInv'
    /\ ch = "CR" => BehindCR'
    /\ ch = "LF" /\ BehindCR => BehindCRLF'
    /\ ch = "CR" /\ BehindCRLF => Delivered'
    /\ ch = "LF" /\ Delivered => Delivered'

-----------------------------------------------------------------------------
(* A set of one mark has one member.                                       *)
LEMMA Single ==
  ASSUME NEW s
  PROVE  \E m : MarkOf(s) \subseteq {m}
BY DEF MarkOf

(* Inside a URL the mark is the URL's.                                     *)
LEMMA UrlMark ==
  ASSUME NEW s \in UrlStates \cup HostStates
  PROVE  MarkOf(s) = {"url"}
BY DEF MarkOf, UrlStates, HostStates

(* An error: the callbacks are over.                                       *)
LEMMA Stopped ==
  ASSUME MarkInv, NEW ch, parser'.errno # "OK", \E m : marks' \subseteq {m},
         \/ parser'.state \notin {"s_header_almost_done", "s_header_value_lws"}
         \/ header' = header /\ parser'.state = parser.state
  PROVE  StepInv(ch)
<1>1. ~Running'
  BY DEF Running
<1>2. ValueComparedOnce'
  BY DEF MarkInv, ValueComparedOnce, State
<1> QED
  BY <1>1, <1>2 DEF StepInv, MarkInv, BehindCR, BehindCRLF, Delivered

(* A step to a state outside the values of header lines.                   *)
LEMMA Moved ==
  ASSUME MarkInv, NEW ch, marks' \subseteq MarkOf(parser'.state),
         parser'.state \notin {"s_header_value", "s_header_almost_done",
                               "s_header_value_lws"},
         ch \in {"CR", "LF"} => marks' \subseteq {"body"}
  PROVE  StepInv(ch)
<1>1. \E m : marks' \subseteq {m}
  BY Single
<1> QED
  BY <1>1 DEF StepInv, MarkInv, ValueComparedOnce, BehindCR, BehindCRLF, Delivered, State

(* What the macros do to the fields the marks depend on.                   *)
LEMMA FailStep ==
  ASSUME ParserOK, MarkInv, NEW ch, NEW e \in Errors, Fail(e)
  PROVE  StepInv(ch)
<1>1. parser'.errno # "OK" /\ parser'.state = parser.state
  BY DEF Fail, ParserOK, Safe, ParserType, Errors
<1>2. \E m : marks' \subseteq {m}
  BY DEF Fail, Quiet, MarkInv
<1> QED
  BY <1>1, <1>2, Stopped DEF Fail, Quiet

(* reexecute_byte: the state changes and the marks stay.                   *)
LEMMA GotoStep ==
  ASSUME ParserOK, MarkInv, Running, NEW ch, NEW s, Goto(s),
         s \notin {"s_header_value", "s_header_almost_done", "s_header_value_lws"},
         MarkOf(State) \subseteq MarkOf(s),
         ch \in {"CR", "LF"} => MarkOf(State) \subseteq {"body"}
  PROVE  StepInv(ch)
<1>1. parser'.state = s /\ marks' = marks
  BY DEF Goto, Quiet, ParserOK, Safe, ParserType
<1>2. marks \subseteq MarkOf(State)
  BY DEF MarkInv
<1> QED
  BY <1>1, <1>2, Moved

(* The request line.                                                       *)
LEMMA RequestLineStep ==
  ASSUME ParserOK, MarkInv, Running, NEW ch,
         \/ StartRequest(ch) \/ Method(ch) \/ HttpWord(ch) \/ MajorVersion(ch)
         \/ MinorVersion(ch) \/ RequestLineEnd(ch)
  PROVE  StepInv(ch)
<1>1. MarkOf(State) = {}
  BY DEF StartRequest, Method, HttpWord, MajorVersion, MinorVersion, RequestLineEnd,
         MarkOf, UrlStates, HostStates
<1>2. marks = {} /\ marks' = {}
  BY <1>1 DEF MarkInv, StartRequest, Method, HttpWord, MajorVersion, MinorVersion,
              RequestLineEnd, Goto, Fail, Quiet
<1>3. parser'.state \notin {"s_header_value", "s_header_almost_done",
                            "s_header_value_lws"}
  <2>1. parser \in ParserType
    BY DEF ParserOK, Safe
  <2>2. CASE StartRequest(ch)
    BY <2>1, <2>2 DEF StartRequest, ParserType, State
  <2>3. CASE Method(ch) \/ HttpWord(ch) \/ RequestLineEnd(ch)
    BY <2>1, <2>3 DEF Method, HttpWord, RequestLineEnd, ParserType, State, Goto, Fail
  <2>4. CASE MajorVersion(ch)
    BY <2>1, <2>4 DEF MajorVersion, ParserType, State, Goto, Fail
  <2>5. CASE MinorVersion(ch)
    BY <2>1, <2>5 DEF MinorVersion, HeadersEnd, ParserType, State, Goto, Fail
  <2> QED
    BY <2>2, <2>3, <2>4, <2>5
<1> QED
  BY <1>2, <1>3, Moved

(* The step that sets the mark of the URL.                                 *)
LEMMA UrlStartStep ==
  ASSUME ParserOK, MarkInv, Running, NEW ch, SpacesBeforeUrl(ch)
  PROVE  StepInv(ch)
<1>1. MarkOf(State) = {} /\ marks = {}
  BY DEF SpacesBeforeUrl, MarkInv, MarkOf, UrlStates, HostStates
<1>2. /\ parser \in ParserType /\ State = "s_req_spaces_before_url"
      /\ parser.state = "s_req_spaces_before_url"
  BY DEF ParserOK, Safe, SpacesBeforeUrl, State
<1>3. CASE ch = "SP" /\ Goto(State)
  BY <1>1, <1>2, <1>3, GotoStep
<1>4. CASE Fail("INVALID_URL")
  BY <1>4, FailStep DEF Errors
<1>5. CASE parser' = [parser EXCEPT !.errno = "INVALID_HOST"] /\ Mark("url", "")
  <2>1. parser'.errno = "INVALID_HOST" /\ parser'.state = "s_req_spaces_before_url"
    BY <1>2, <1>5 DEF ParserType
  <2>2. marks' \subseteq {"url"}
    BY <1>1, <1>5 DEF Mark
  <2> QED
    BY <2>1, <2>2, Stopped
<1>6. ASSUME NEW s \in UrlStates \cup HostStates, Mark("url", ""), ch \notin {"CR", "LF"},
             parser' = [parser EXCEPT !.state = s]
      PROVE  StepInv(ch)
  <2>1. parser'.state = s
    BY <1>2, <1>6 DEF ParserType
  <2>2. marks' \subseteq MarkOf(s)
    BY <1>1, <1>6, UrlMark DEF Mark
  <2>3. s \notin {"s_header_value", "s_header_almost_done", "s_header_value_lws"}
    BY DEF UrlStates, HostStates
  <2> QED
    BY <1>6, <2>1, <2>2, <2>3, Moved
<1>7. /\ HostStart(ch) # "error" => HostStart(ch) \in HostStates /\ ch \notin {"CR", "LF"}
      /\ ch \in Alpha => ch \notin {"CR", "LF"}
  BY DEF HostStart, HostStates, Alpha, Digits, Methods, Names
<1> QED
  BY <1>3, <1>4, <1>5, <1>6, <1>7 DEF SpacesBeforeUrl, UrlStates, HostStates

(* The bytes of "://" are not checked: the only states of a URL that take  *)
(* a CR or an LF.                                                          *)
LEMMA SchemaStep ==
  ASSUME ParserOK, MarkInv, Running, NEW ch, Schema(ch)
  PROVE  StepInv(ch)
<1>1. /\ parser \in ParserType /\ MarkOf(State) = {"url"}
      /\ ch \in Alpha => ch \notin {"CR", "LF"}
  BY DEF ParserOK, Safe, Schema, MarkOf, HostStates, UrlStates, Alpha, Methods, Names
<1>2. CASE Fail("INVALID_URL")
  BY <1>2, FailStep DEF Errors
<1>3. CASE \E s \in {"s_req_schema", "s_req_schema_slash"} :
               ch \notin {"CR", "LF"} /\ Goto(s)
  BY <1>1, <1>3, GotoStep DEF MarkOf, HostStates, UrlStates
<1>4. CASE \/ State = "s_req_schema_slash" /\ Goto("s_req_schema_slash_slash")
           \/ State = "s_req_schema_slash_slash" /\ Goto("s_req_host_start")
  <2>1. /\ parser'.state \in {"s_req_schema_slash_slash", "s_req_host_start"}
        /\ State = "s_req_schema_slash_slash" => parser'.state = "s_req_host_start"
        /\ State \in {"s_req_schema_slash", "s_req_schema_slash_slash"}
        /\ marks' = marks
    BY <1>1, <1>4 DEF Goto, Quiet, ParserType
  <2>2. marks \subseteq {"url"} /\ MarkOf(parser'.state) = {"url"}
    BY <1>1, <2>1 DEF MarkInv, MarkOf, UrlStates, HostStates
  <2>3. MarkInv'
    BY <2>1, <2>2 DEF MarkInv, ValueComparedOnce, State
  <2>4. BehindCR' /\ (BehindCR => BehindCRLF') /\ (BehindCRLF => Delivered')
        /\ (Delivered => Delivered')
    BY <2>1, <2>2 DEF BehindCR, BehindCRLF, Delivered, State
  <2> QED
    BY <2>3, <2>4 DEF StepInv
<1>5. CASE State = "s_req_schema"
  BY <1>1, <1>2, <1>3, <1>5 DEF Schema
<1> QED
  BY <1>4, <1>5 DEF Schema

(* Host, port, path, query string and fragment: a CR or an LF there is an  *)
(* error or ends the URL, with its callback.                               *)
LEMMA UrlEndStep ==
  ASSUME ParserOK, MarkInv, Running, NEW ch, OnUrl, MarkOf(State) \subseteq {"url"},
         parser'.state \notin {"s_header_value", "s_header_almost_done",
                               "s_header_value_lws"}
  PROVE  StepInv(ch)
<1>1. marks' = {}
  BY DEF MarkInv, OnUrl
<1> QED
  BY <1>1, Moved

(* What may follow the host of a URL.                                      *)
LEMMA AfterHostStep ==
  ASSUME ParserOK, MarkInv, Running, NEW ch, NEW e \in Errors, AfterHost(ch, e),
         MarkOf(State) = {"url"}
  PROVE  StepInv(ch)
<1>1. CASE Fail(e)
  BY <1>1, FailStep
<1>2. CASE ch \in {"/", "?"} /\ \E s \in UrlStates : Goto(s)
  BY <1>2, GotoStep DEF MarkOf, UrlStates
<1>3. CASE parser' = [parser EXCEPT !.state = "s_req_http_start"] /\ OnUrl
  <2>1. parser'.state = "s_req_http_start"
    BY <1>3 DEF ParserOK, Safe, ParserType
  <2> QED
    BY <1>3, <2>1, UrlEndStep
<1> QED
  BY <1>1, <1>2, <1>3 DEF AfterHost, UrlStates

(* The states inside the host of a URL.                                    *)
LEMMA HostStep ==
  ASSUME ParserOK, MarkInv, Running, NEW ch, Host(ch)
  PROVE  StepInv(ch)
<1>1. MarkOf(State) = {"url"}
  BY DEF Host, MarkOf, HostStates, UrlStates
<1>2. ASSUME NEW e \in Errors, Fail(e) PROVE StepInv(ch)
  BY <1>2, FailStep
<1>3. ASSUME NEW s \in HostStates, Goto(s), ch \notin {"CR", "LF"} PROVE StepInv(ch)
  <2>1. /\ MarkOf(s) = {"url"}
        /\ s \notin {"s_header_value", "s_header_almost_done", "s_header_value_lws"}
    BY DEF MarkOf, HostStates, UrlStates
  <2> QED
    BY <1>1, <1>3, <2>1, GotoStep
<1>4. CASE HostDone(ch)
  BY <1>1, <1>3, <1>4, AfterHostStep DEF HostDone, Errors, HostStates
<1>5. /\ HostStart(ch) # "error" => HostStart(ch) \in HostStates /\ ch \notin {"CR", "LF"}
      /\ ch \in HostChars \cup Hex \cup Digits => ch \notin {"CR", "LF"}
  BY DEF HostStart, HostStates, HostChars, Hex, Value, Alpha, Digits, Methods, Names
<1>6. CASE State = "s_req_host_start"
  BY <1>2, <1>3, <1>5, <1>6 DEF Host, Errors
<1>7. CASE State \in {"s_req_host", "s_req_host_done"}
  BY <1>3, <1>4, <1>5, <1>7 DEF Host, HostStates
<1>8. CASE State = "s_req_host_ipv6"
  BY <1>2, <1>3, <1>5, <1>8 DEF Host, HostStates, Errors
<1>9. CASE State = "s_req_port"
  BY <1>1, <1>3, <1>5, <1>9, AfterHostStep DEF Host, HostStates, Errors
<1> QED
  BY <1>6, <1>7, <1>8, <1>9 DEF Host

(* The states of path, query and fragment, and the end of the URL.         *)
LEMMA UrlStep ==
  ASSUME ParserOK, MarkInv, Running, NEW ch, Url(ch)
  PROVE  StepInv(ch)
<1>1. State \in UrlStates /\ MarkOf(State) = {"url"} /\ parser \in ParserType
  BY UrlMark DEF Url, ParserOK, Safe
<1>2. CASE ch \in UrlChars \cup {"?", "#"} /\ Goto(UrlGoto(ch))
  <2>1. UrlGoto(ch) \in UrlStates /\ ch \notin {"CR", "LF"}
    BY <1>1, <1>2 DEF UrlGoto, UrlStates, UrlChars
  <2>2. MarkOf(UrlGoto(ch)) = {"url"}
    BY <2>1, UrlMark
  <2>3. UrlGoto(ch) \notin {"s_header_value", "s_header_almost_done",
                            "s_header_value_lws"}
    BY <2>1 DEF UrlStates
  <2> QED
    BY <1>1, <1>2, <2>1, <2>2, <2>3, GotoStep
<1>3. ASSUME NEW e \in Errors, Fail(e) PROVE StepInv(ch)
  BY <1>3, FailStep
<1>4. CASE OnUrl /\ \/ parser' = [parser EXCEPT !.state = "s_req_http_start"]
                    \/ parser' = [parser EXCEPT !.state = "s_headers_almost_done"]
                    \/ parser' = HeadersEnd(parser)
  <2>1. parser'.state \in {"s_req_http_start", "s_headers_almost_done", "s_pre_start_req",
                           "s_chunk_size_start", "s_body_identity"}
    BY <1>1, <1>4 DEF HeadersEnd, ParserType
  <2> QED
    BY <1>1, <1>4, <2>1, UrlEndStep
<1> QED
  BY <1>2, <1>3, <1>4 DEF Url, Errors

-----------------------------------------------------------------------------
(* The names of header lines.                                              *)
LEMMA FieldStartStep ==
  ASSUME ParserOK, MarkInv, Running, NEW ch, FieldStart(ch), MarkOf(State) = {}
  PROVE  StepInv(ch)
<1>1. marks = {} /\ parser \in ParserType
  BY DEF MarkInv, ParserOK, Safe
<1>2. CASE Goto("s_headers_almost_done")
  BY <1>1, <1>2, GotoStep
<1>3. CASE Fail("INVALID_HEADER_TOKEN")
  BY <1>3, FailStep DEF Errors
<1>4. CASE parser' = HeadersEnd(parser) /\ Quiet
  <2>1. parser'.state \in {"s_pre_start_req", "s_chunk_size_start", "s_body_identity"}
    BY <1>1, <1>4 DEF HeadersEnd, ParserType
  <2>2. marks' = {}
    BY <1>1, <1>4 DEF Quiet
  <2> QED
    BY <2>1, <2>2, Moved
<1>5. CASE /\ ch \in Tokens /\ Mark("field", ch)
           /\ \E h : parser' = [parser EXCEPT !.state = "s_header_field",
                                              !.headerState = h]
  <2>1. parser'.state = "s_header_field"
    BY <1>1, <1>5 DEF ParserType
  <2>2. marks' = {"field"} /\ ch \notin {"CR", "LF"}
    BY <1>1, <1>5 DEF Mark, Tokens, Alpha, Digits, Methods, Names
  <2>3. MarkOf("s_header_field") = {"field"}
    BY DEF MarkOf, UrlStates, HostStates
  <2> QED
    BY <2>1, <2>2, <2>3, Moved
<1> QED
  BY <1>2, <1>3, <1>4, <1>5 DEF FieldStart

(* The name of a header line, from its mark to its delivery.               *)
LEMMA FieldStep ==
  ASSUME ParserOK, MarkInv, Running, NEW ch,
         \/ HeaderFieldStart(ch) \/ HeaderField(ch) \/ HeadersAlmostDone(ch)
  PROVE  StepInv(ch)
<1>0. parser \in ParserType
  BY DEF ParserOK, Safe
<1>1. CASE HeaderFieldStart(ch)
  BY <1>1, FieldStartStep DEF HeaderFieldStart, MarkOf, UrlStates, HostStates
<1>2. CASE HeaderField(ch)
  <2>1. State = "s_header_field" /\ MarkOf(State) = {"field"} /\ marks \subseteq {"field"}
    BY <1>2 DEF HeaderField, MarkOf, UrlStates, HostStates, MarkInv
  <2>2. CASE Fail("INVALID_HEADER_TOKEN")
    BY <2>2, FailStep DEF Errors
  <2>3. CASE /\ ch \in Tokens /\ UNCHANGED marks
             /\ parser' = [parser EXCEPT !.headerState = "h_general"]
    <3>1. parser'.state = State /\ ch \notin {"CR", "LF"}
      BY <1>0, <2>3 DEF ParserType, State, Tokens, Alpha, Digits, Methods, Names
    <3> QED
      BY <2>1, <2>3, <3>1, Moved
  <2>4. CASE /\ parser' = [parser EXCEPT !.state = "s_header_value_start"]
             /\ marks' = marks \ {"field"}
    <3>1. parser'.state = "s_header_value_start" /\ marks' = {}
      BY <1>0, <2>1, <2>4 DEF ParserType
    <3> QED
      BY <3>1, Moved
  <2> QED
    BY <1>2, <2>2, <2>3, <2>4 DEF HeaderField
<1>3. CASE HeadersAlmostDone(ch)
  <2>1. State = "s_headers_almost_done" /\ MarkOf(State) = {} /\ marks = {}
    BY <1>3 DEF HeadersAlmostDone, MarkOf, UrlStates, HostStates, MarkInv
  <2>2. CASE Fail("STRICT")
    BY <2>2, FailStep DEF Errors
  <2>3. CASE parser' = HeadersEnd(parser) /\ Quiet
    <3>1. parser'.state \in {"s_pre_start_req", "s_chunk_size_start", "s_body_identity"}
      BY <1>0, <2>3 DEF HeadersEnd, ParserType
    <3>2. marks' = {}
      BY <2>1, <2>3 DEF Quiet
    <3> QED
      BY <3>1, <3>2, Moved
  <2> QED
    BY <1>3, <2>2, <2>3 DEF HeadersAlmostDone
<1> QED
  BY <1>1, <1>2, <1>3

(* Bodies and chunks.                                                      *)
LEMMA BodyStep ==
  ASSUME ParserOK, MarkInv, Running, NEW ch, BodyIdentity \/ ChunkSize(ch) \/ ChunkData
  PROVE  StepInv(ch)
<1>0. parser \in ParserType
  BY DEF ParserOK, Safe
<1>b. \A s \in {"s_body_identity", "s_chunk_data", "s_chunk_data_almost_done"} :
          MarkOf(s) = {"body"}
  BY DEF MarkOf, UrlStates, HostStates
<1>1. CASE BodyIdentity
  <2>1. marks \subseteq {"body"} /\ State = "s_body_identity"
    BY <1>1, <1>b DEF BodyIdentity, MarkInv
  <2>2. \/ parser'.state = "s_pre_start_req" /\ marks' = {}
        \/ parser'.state = "s_body_identity" /\ marks' \subseteq {"body"}
    BY <1>0, <1>1, <2>1 DEF BodyIdentity, MessageDone, ParserType, State
  <2> QED
    BY <1>b, <2>2, Moved
<1>2. CASE ChunkSize(ch)
  <2>1. MarkOf(State) = {} /\ marks = {} /\ marks' = {}
    BY <1>2 DEF ChunkSize, MarkInv, MarkOf, UrlStates, HostStates, Goto, Fail, Quiet
  <2>2. parser'.state \notin {"s_header_value", "s_header_almost_done",
                              "s_header_value_lws"}
    BY <1>0, <1>2 DEF ChunkSize, ParserType, Goto, Fail, State
  <2> QED
    BY <2>1, <2>2, Moved
<1>3. CASE ChunkData
  <2>1. /\ marks \subseteq MarkOf(State)
        /\ State \in {"s_chunk_data", "s_chunk_data_almost_done", "s_chunk_data_done"}
        /\ MarkOf("s_chunk_data_done") = {}
    BY <1>3 DEF ChunkData, MarkInv, MarkOf, UrlStates, HostStates
  <2>2. \/ /\ parser'.state \in {"s_chunk_data", "s_chunk_data_almost_done"}
           /\ marks' \subseteq {"body"}
        \/ parser'.state \in {"s_chunk_data_done", "s_chunk_size_start"} /\ marks' = {}
    BY <1>0, <1>3, <1>b, <2>1 DEF ChunkData, ParserType, State
  <2> QED
    BY <1>b, <2>2, Moved
<1> QED
  BY <1>1, <1>2, <1>3

-----------------------------------------------------------------------------
(* The values of header lines.  SetValue forgets the name of the line.     *)
LEMMA ValueForgets ==
  ASSUME NEW h \in HeaderType, NEW v
  PROVE  SetValue(h, v).nameIs = "kNone"
BY DEF SetValue, HeaderType

(* The end of a value, or of a line of it: the name is forgotten.          *)
LEMMA LineEnded ==
  ASSUME MarkInv, NEW ch, marks' = {}, header'.nameIs = "kNone"
  PROVE  StepInv(ch)
BY DEF StepInv, MarkInv, ValueComparedOnce, BehindCR, BehindCRLF, Delivered, State

(* The step that sets the mark of a value.                                 *)
LEMMA ValueStartStep ==
  ASSUME ParserOK, MarkInv, Running, NEW ch, HeaderValueStart(ch)
  PROVE  StepInv(ch)
<1>1. /\ parser \in ParserType /\ header \in HeaderType /\ MarkOf(State) = {}
      /\ marks = {} /\ State = "s_header_value_start"
  BY DEF ParserOK, Safe, HeaderValueStart, MarkInv, MarkOf, UrlStates, HostStates
<1>2. CASE Goto(State)
  BY <1>1, <1>2, GotoStep
<1>3. CASE EmptyValueError # "OK" /\ Fail(EmptyValueError)
  <2>1. EmptyValueError \in Errors
    BY <1>3 DEF EmptyValueError, Errors
  <2> QED
    BY <1>3, <2>1, FailStep
<1>4. CASE header' = SetValue(header, "") /\ UNCHANGED marks
  BY <1>1, <1>4, ValueForgets, LineEnded
<1>5. CASE /\ ch \notin {"SP", "HT", "CR", "LF"}
           /\ parser' = [ValueBegins(ch) EXCEPT !.state = "s_header_value"]
           /\ Mark("value", ch)
  <2>1. "state" \in DOMAIN ValueBegins(ch)
    BY <1>1 DEF ValueBegins, ParserType
  <2>2. parser'.state = "s_header_value"
    BY <1>5, <2>1
  <2>3. marks' = {"value"} /\ MarkOf("s_header_value") = {"value"}
    BY <1>1, <1>5 DEF Mark, MarkOf, UrlStates, HostStates
  <2>4. MarkInv'
    BY <2>2, <2>3 DEF MarkInv, ValueComparedOnce, State
  <2> QED
    BY <1>5, <2>4 DEF StepInv
<1> QED
  BY <1>2, <1>3, <1>4, <1>5 DEF HeaderValueStart

(* The value of a header line, from its mark to its delivery.              *)
LEMMA ValueStep ==
  ASSUME ParserOK, MarkInv, Running, NEW ch, HeaderValue(ch)
  PROVE  StepInv(ch)
<1>1. /\ parser \in ParserType /\ header \in HeaderType
      /\ State = "s_header_value" /\ parser.state = "s_header_value"
      /\ MarkOf("s_header_value") = {"value"} /\ marks \subseteq {"value"}
      /\ "value" \notin marks => header.nameIs = "kNone"
  BY DEF ParserOK, Safe, HeaderValue, MarkInv, MarkOf, UrlStates, HostStates, State
<1>2. CASE OnValue
  <2>1. marks' = {}
    BY <1>1, <1>2 DEF OnValue
  <2>2. header'.nameIs = "kNone"
    BY <1>1, <1>2, ValueForgets DEF OnValue
  <2> QED
    BY <2>1, <2>2, LineEnded
<1>3. CASE Fail("INVALID_HEADER_TOKEN")
  BY <1>3, FailStep DEF Errors
<1>4. CASE /\ ch \notin {"CR", "LF", "NUL"} \/ parser.headerState = Escape
           /\ parser' = ValueGoesOn(ch)
           /\ UNCHANGED <<marks, header>>
  <2>1. ValueGoesOn(ch).state = "s_header_value"
    BY <1>1 DEF ValueGoesOn, LengthDigit, ParserType
  <2>2. parser.headerState = Escape => ValueGoesOn(ch).headerState # Escape
    BY <1>1 DEF ValueGoesOn, Escape, ParserType
  <2>3. MarkInv'
    BY <1>1, <1>4, <2>1 DEF MarkInv, ValueComparedOnce, State
  <2>4. ch = "CR" => BehindCR'
    BY <1>4, <2>1, <2>2 DEF BehindCR, State
  <2>5. /\ ch = "LF" /\ BehindCR => marks = {}
        /\ BehindCRLF \/ Delivered => marks = {}
    BY <1>1, <1>4 DEF BehindCR, BehindCRLF, Delivered
  <2> QED
    BY <1>4, <2>3, <2>4, <2>5 DEF StepInv, BehindCRLF, Delivered
<1> QED
  BY <1>2, <1>3, <1>4 DEF HeaderValue, Escape

(* The end of a line, and of the header.                                   *)
LEMMA LineEndStep ==
  ASSUME ParserOK, MarkInv, Running, NEW ch, HeaderAlmostDone(ch) \/ HeaderValueLws(ch)
  PROVE  StepInv(ch)
<1>1. /\ State \in {"s_header_almost_done", "s_header_value_lws"}
      /\ MarkOf(State) = {} /\ marks = {} /\ header.nameIs = "kNone"
      /\ header \in HeaderType
  BY DEF HeaderAlmostDone, HeaderValueLws, MarkInv, ValueComparedOnce, MarkOf, UrlStates,
         HostStates, ParserOK
<1>2. CASE UNCHANGED marks /\ header' = SetValue(header, "SP")
  BY <1>1, <1>2, ValueForgets, LineEnded
<1>3. CASE Quiet
  BY <1>1, <1>3, LineEnded DEF Quiet
<1>4. CASE FieldStart(ch)
  BY <1>1, <1>4, FieldStartStep
<1> QED
  BY <1>2, <1>3, <1>4 DEF HeaderAlmostDone, HeaderValueLws

-----------------------------------------------------------------------------
(* One byte, whatever it is and whatever the state of the parser.          *)
LEMMA ExecuteStep ==
  ASSUME ParserOK, MarkInv, NEW ch, Execute(ch)
  PROVE  StepInv(ch)
<1>1. CASE ~Running /\ UNCHANGED parser /\ Quiet
  <2>1. ~Running'
    BY <1>1 DEF Running
  <2>2. MarkInv'
    BY <1>1, <2>1 DEF MarkInv, ValueComparedOnce, State, Quiet
  <2> QED
    BY <2>1, <2>2 DEF StepInv, BehindCR, BehindCRLF, Delivered
<1>2. CASE Running
  BY <1>2, RequestLineStep, UrlStartStep, SchemaStep, HostStep, UrlStep, FieldStep,
     BodyStep, ValueStartStep, ValueStep, LineEndStep DEF Execute
<1> QED
  BY <1>1, <1>2 DEF Execute

(* Every byte that execute() handles keeps the invariant.                  *)
LEMMA ReceiveMarks ==
  ASSUME HeadInv, MarkInv, ScanInv, NEW ch, Receive(ch)
  PROVE  MarkInv' /\ ScanInv'
<1>1. StepInv(ch) /\ scan' = ScanStep(scan, ch) /\ scan \in 0 .. 4 /\ scan < 4
  BY ExecuteStep DEF Receive, HeadInv
<1>2. CASE ch = "CR"
  BY <1>1, <1>2 DEF StepInv, ScanInv, ScanStep
<1>3. CASE ch = "LF" /\ scan \in {1, 3}
  BY <1>1, <1>3 DEF StepInv, ScanInv, ScanStep
<1>4. CASE ch # "CR" /\ ~(ch = "LF" /\ scan \in {1, 3})
  BY <1>1, <1>4 DEF StepInv, ScanInv, ScanStep
<1> QED
  BY <1>2, <1>3, <1>4

(* The callbacks for what is left at the end of the input.                 *)
LEMMA ReturnMarks ==
  ASSUME HeadInv, MarkInv, ScanInv, TryParse
  PROVE  MarkInv' /\ ScanInv'
<1>1. /\ parser \in ParserType /\ header \in HeaderType /\ marks' = {}
      /\ Running => marks \subseteq {"body"}
  BY DEF HeadInv, ParserOK, Safe, TryParse, ExecuteReturns, ScanInv, Delivered
<1>2. ScanInv'
  BY <1>1 DEF ScanInv, BehindCR, BehindCRLF, Delivered
<1>3. header'.nameIs = header.nameIs
  <2>1. Running => LeftOver(header) = header
    BY <1>1 DEF LeftOver
  <2> QED
    BY <1>1, <2>1 DEF TryParse, ExecuteReturns, HeaderType
<1>4. CASE UNCHANGED parser
  BY <1>1, <1>2, <1>3, <1>4 DEF MarkInv, ValueComparedOnce, Running, State
<1>5. CASE parser' = [parser EXCEPT !.errno = "HEADER_OVERFLOW"]
  <2>1. parser'.state = parser.state /\ ~Running'
    BY <1>1, <1>5 DEF ParserType, Running
  <2> QED
    BY <1>1, <1>2, <1>3, <2>1 DEF MarkInv, ValueComparedOnce, State
<1> QED
  BY <1>2, <1>4, <1>5 DEF TryParse, ExecuteReturns

(* So does every step, those of try_parse() and reset() included.          *)
LEMMA NextMarks == HeadInv /\ MarkInv /\ ScanInv /\ [Next]_vars => MarkInv' /\ ScanInv'
<1> SUFFICES ASSUME HeadInv, MarkInv, ScanInv, [Next]_vars
             PROVE  MarkInv' /\ ScanInv'
  OBVIOUS
<1>u. ASSUME UNCHANGED <<parserVars, scan>> PROVE MarkInv' /\ ScanInv'
  <2>1. UNCHANGED <<header, parser, marks, scan>>
    BY <1>u DEF parserVars
  <2> QED
    BY <2>1 DEF MarkInv, ScanInv, ValueComparedOnce, BehindCR, BehindCRLF, Delivered,
                Running, State
<1>w. ASSUME NEW l, NEW m, Writes(l, m) PROVE MarkInv' /\ ScanInv'
  BY <1>w, <1>u DEF Writes
<1>1. ASSUME NEW ch, Receive(ch) PROVE MarkInv' /\ ScanInv'
  BY <1>1, ReceiveMarks
<1>2. CASE TryParse
  BY <1>2, ReturnMarks
<1>3. CASE PrintResponse \/ \E d \in LengthSizes : Respond(d)
  BY <1>3, <1>u DEF PrintResponse, Respond
<1>4. CASE Reset
  <2>1. parser' = InitParser /\ header' = InitHeader /\ marks' = {} /\ scan' = 0
    BY <1>4 DEF Reset, ResetRequest
  <2> QED
    BY <2>1 DEF MarkInv, ScanInv, ValueComparedOnce, State, InitParser
<1>5. CASE UNCHANGED vars
  BY <1>5, <1>u DEF vars, parserVars
<1> QED
  BY <1>w, <1>1, <1>2, <1>3, <1>4, <1>5
     DEF Next, SendRequestLine, SendLength, SendConnection, SendChunked, SendOther,
         SendBlankLine, ReceiveLine, ReceiveFree

(* The invariant of the marks and of the search for the header's end.      *)
LEMMA MarksKept == Spec => [](MarkInv /\ ScanInv)
<1>1. Init => MarkInv /\ ScanInv
  <2> SUFFICES ASSUME Init PROVE MarkInv /\ ScanInv
    OBVIOUS
  <2>1. parser = InitParser /\ marks = {} /\ scan = 0
    BY Zenon DEF Init
  <2> QED
    BY <2>1 DEF MarkInv, ScanInv, ValueComparedOnce, State, InitParser
<1> QED
  BY <1>1, NextMarks, HeadInvariance, PTL DEF Spec

(* Whatever a client sends: a length is counted down only while there is   *)
(* something to count, at most one mark is set, and when try_parse() has   *)
(* found the end of the header no URL, name or value is half delivered.    *)
THEOREM AssertionsHold == Spec => []ParserAssertions
<1>1. HeadInv /\ MarkInv /\ ScanInv => ParserAssertions
  <2> SUFFICES ASSUME HeadInv, MarkInv, ScanInv PROVE ParserAssertions
    OBVIOUS
  <2>1. PICK m : marks \subseteq {m}
    BY DEF MarkInv
  <2>2. marks = {} \/ marks = {m}
    BY <2>1
  <2>3. Cardinality(marks) <= 1
    <3>1. Cardinality({}) = 0 /\ Cardinality({m}) = 1
      BY FS_EmptySet, FS_Singleton
    <3> QED
      BY <2>2, <3>1
  <2>4. Counted(parser)
    BY DEF HeadInv, ParserOK, Safe
  <2> QED
    BY <2>3, <2>4 DEF ParserAssertions, ScanInv, Delivered
<1> QED
  BY <1>1, MarksKept, HeadInvariance, PTL

(* A value that is interrupted by a line break is compared with "close"    *)
(* and "keep-alive" once: on_header_value() forgets the name of the line.  *)
THEOREM ComparedOnce == Spec => []ValueComparedOnce
<1>1. MarkInv => ValueComparedOnce
  BY DEF MarkInv
<1> QED
  BY <1>1, MarksKept, PTL
=============================================================================
