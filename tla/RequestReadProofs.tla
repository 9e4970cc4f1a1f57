-------------------------- MODULE RequestReadProofs --------------------------
(***************************************************************************)
(* A request of complete lines is understood, whatever its URL, lengths    *)
(* and headers.  ReadInv says how far the parser has come in what the      *)
(* client is sending, symbol by symbol: which part of the line is left,    *)
(* which state the parser is in and what it has understood so far.  The    *)
(* digits of a Content-Length are read back to the number the client wrote *)
(* (DecimalReads); that is induction over data, done with the least        *)
(* counterexample of a set of numbers.                                     *)
(***************************************************************************)
EXTENDS HttpHeadProofs, SequenceTheorems, WellFoundedInduction

(* A set of natural numbers has a least element: the principle every       *)
(* induction of this module rests on.                                      *)
LEMMA Least ==
  ASSUME NEW T, T \subseteq Nat, T # {}
  PROVE  \E m \in T : \A k \in T : m <= k
<1>1. PICK m \in T : \A k \in T : ~(<<k, m>> \in OpToRel(<, Nat))
  BY NatLessThanWellFounded, WFMin
<1>2. \A k \in T : ~(k < m)
  BY <1>1 DEF OpToRel
<1> QED
  BY <1>2

(* The digit for a number, and the recursion of Decimal.                   *)
Last(n) == <<CHOOSE d \in Digits : Value[d] = n % 10>>
Follows(f, n) == IF n < 10 THEN Last(n) ELSE f[n \div 10] \o Last(n)

(* The first values of the recursion.                                      *)
Begun(k) == {f \in [0 .. k -> Seq(Digits)] : \A n \in 0 .. k : f[n] = Follows(f, n)}

(* The last digit of a number is its remainder.                            *)
LEMMA LastDigit ==
  ASSUME NEW n \in Nat
  PROVE  /\ Last(n) \in Seq(Digits) /\ Len(Last(n)) = 1
         /\ Last(n)[1] \in Digits /\ Value[Last(n)[1]] = n % 10
<1>1. n % 10 \in 0 .. 9
  OBVIOUS
<1>2. \A i \in 0 .. 9 : \E d \in Digits : Value[d] = i
  BY DEF Value, Digits
<1>3. PICK d \in Digits : d = (CHOOSE c \in Digits : Value[c] = n % 10)
  BY <1>1, <1>2
<1>4. Value[d] = n % 10
  BY <1>1, <1>2, <1>3
<1> QED
  BY <1>3, <1>4 DEF Last

(* A number of two digits or more is larger than its tenth.                *)
LEMMA Tenth ==
  ASSUME NEW n \in Nat, n >= 10
  PROVE  /\ n \div 10 \in Nat /\ n \div 10 < n /\ n = 10 * (n \div 10) + (n % 10)
         /\ n \div 10 > 0
OBVIOUS

(* Two runs of the recursion agree.                                        *)
LEMMA BegunAgree ==
  ASSUME NEW j \in Nat, NEW k \in Nat, NEW f \in Begun(j), NEW g \in Begun(k)
  PROVE  \A n \in 0 .. j : n <= k => f[n] = g[n]
<1> DEFINE T == {n \in 0 .. j : n <= k /\ f[n] # g[n]}
<1>1. SUFFICES ASSUME T # {} PROVE FALSE
  OBVIOUS
<1>2. PICK m \in T : \A n \in T : m <= n
  <2>1. T \subseteq Nat
    OBVIOUS
  <2> HIDE DEF T
  <2> QED
    BY <1>1, <2>1, Least
<1>3. m \in 0 .. j /\ m \in 0 .. k /\ m \in Nat /\ f[m] # g[m]
  OBVIOUS
<1>4. f[m] = Follows(f, m) /\ g[m] = Follows(g, m)
  BY <1>3 DEF Begun
<1>5. CASE m < 10
  BY <1>3, <1>4, <1>5 DEF Follows
<1>6. CASE m >= 10
  <2>1. m \div 10 \in 0 .. j /\ m \div 10 <= k /\ m \div 10 < m
    BY <1>3, <1>6, Tenth
  <2>2. f[m \div 10] = g[m \div 10]
    BY <1>2, <1>3, <2>1
  <2> QED
    BY <1>3, <1>4, <2>2 DEF Follows
<1> QED
  BY <1>3, <1>5, <1>6

(* The recursion goes on as far as one likes.                              *)
LEMMA BegunExists ==
  ASSUME NEW k \in Nat
  PROVE  Begun(k) # {}
<1> DEFINE T == {n \in Nat : Begun(n) = {}}
<1>1. SUFFICES ASSUME T # {} PROVE FALSE
  OBVIOUS
<1>2. PICK m \in T : \A n \in T : m <= n
  BY <1>1, Least
<1>3. m \in Nat /\ Begun(m) = {}
  OBVIOUS
<1>4. ASSUME m = 0 PROVE FALSE
  <2> DEFINE f == [n \in 0 .. 0 |-> Last(0)]
  <2>1. f \in [0 .. 0 -> Seq(Digits)]
    BY LastDigit
  <2>2. \A n \in 0 .. 0 : f[n] = Follows(f, n)
    BY DEF Follows
  <2> QED
    BY <1>3, <1>4, <2>1, <2>2 DEF Begun
<1>5. ASSUME m > 0 PROVE FALSE
  <2>1. m - 1 \in Nat /\ Begun(m - 1) # {}
    BY <1>2, <1>3, <1>5
  <2>2. PICK f \in Begun(m - 1) : TRUE
    BY <2>1
  <2>3. f \in [0 .. (m - 1) -> Seq(Digits)] /\ \A n \in 0 .. (m - 1) : f[n] = Follows(f, n)
    BY <2>2 DEF Begun
  <2> DEFINE g == [n \in 0 .. m |-> IF n = m THEN Follows(f, m) ELSE f[n]]
  <2>4. m >= 10 => m \div 10 \in 0 .. (m - 1)
    BY <1>3, Tenth
  <2>5. Follows(f, m) \in Seq(Digits)
    BY <1>3, <2>3, <2>4, LastDigit, ConcatProperties DEF Follows
  <2>6. g \in [0 .. m -> Seq(Digits)]
    BY <2>3, <2>5, <1>3
  <2>7. \A n \in 0 .. m : n >= 10 => g[n \div 10] = f[n \div 10] 
    BY <1>3, Tenth
  <2>8. \A n \in 0 .. m : g[n] = Follows(g, n)
    <3> TAKE n \in 0 .. m
    <3>1. g[n] = Follows(f, n)
      BY <2>3, <1>3
    <3> HIDE DEF g
    <3> QED
      BY <3>1, <2>7, <1>3 DEF Follows
  <2> QED
    BY <1>3, <2>6, <2>8 DEF Begun
<1> QED
  BY <1>3, <1>4, <1>5

(* Decimal is the function its definition says.                            *)
LEMMA DecimalUnfolds ==
  ASSUME NEW n \in Nat
  PROVE  Decimal[n] = Follows(Decimal, n)
<1> DEFINE G == [k \in Nat |-> (CHOOSE f \in Begun(k) : TRUE)[k]]
<1>1. \A k \in Nat : (CHOOSE f \in Begun(k) : TRUE) \in Begun(k)
  BY BegunExists
<1>2. \A k \in Nat : G[k] = Follows(G, k)
  <2> TAKE k \in Nat
  <2>1. PICK f \in Begun(k) : f = (CHOOSE h \in Begun(k) : TRUE)
    BY <1>1
  <2>2. G[k] = f[k]
    BY <2>1
  <2>4. f[k] = Follows(f, k)
    <3>1. \A g \in Begun(k) : g[k] = Follows(g, k)
      BY DEF Begun
    <3> QED
      BY <3>1
  <2>3. ASSUME k >= 10 PROVE f[k \div 10] = G[k \div 10]
    <3>1. k \div 10 \in Nat /\ k \div 10 < k
      BY <2>3, Tenth
    <3>2. PICK g \in Begun(k \div 10) : g = (CHOOSE h \in Begun(k \div 10) : TRUE)
      BY <1>1, <3>1
    <3>3. f[k \div 10] = g[k \div 10]
      BY <3>1, <2>1, <3>2, BegunAgree
    <3> QED
      BY <3>1, <3>2, <3>3
  <2> HIDE DEF G
  <2> QED
    BY <2>2, <2>3, <2>4 DEF Follows
<1>3. G = [k \in Nat |-> Follows(G, k)]
  <2>1. G = [k \in Nat |-> G[k]]
    OBVIOUS
  <2> QED
    BY <1>2, <2>1, Zenon
<1> HIDE DEF G
<1>4. \E f : f = [k \in Nat |-> Follows(f, k)]
  BY <1>3
<1>5. Decimal = CHOOSE f : f = [k \in Nat |-> Follows(f, k)]
  BY DEF Decimal, Follows, Last
<1>6. Decimal = [k \in Nat |-> Follows(Decimal, k)]
  BY <1>4, <1>5
<1> QED
  BY <1>6

(* v[i] is the number the first i digits of s stand for, and n that of all *)
(* of them; before each digit the parser has read at most a tenth of n.    *)
Reads(s, v, n) ==
    /\ s \in Seq(Digits) /\ s # <<>>
    /\ v \in [0 .. Len(s) -> Nat] /\ v[0] = 0 /\ v[Len(s)] = n
    /\ \A i \in 1 .. Len(s) :
           v[i] = 10 * v[i - 1] + Value[s[i]] /\ v[i - 1] <= n \div 10

(* The decimal notation of a number is read as that number.                *)
LEMMA DecimalReads ==
  ASSUME NEW n \in Nat
  PROVE  \E v : Reads(Decimal[n], v, n)
<1> DEFINE T == {k \in Nat : ~\E v : Reads(Decimal[k], v, k)}
<1>1. SUFFICES ASSUME T # {} PROVE FALSE
  OBVIOUS
<1>2. PICK m \in T : \A k \in T : m <= k
  <2>1. T \subseteq Nat
    OBVIOUS
  <2> HIDE DEF T
  <2> QED
    BY <1>1, <2>1, Least
<1>3. m \in Nat /\ ~\E v : Reads(Decimal[m], v, m)
  OBVIOUS
<1>4. Decimal[m] = Follows(Decimal, m)
  BY <1>3, DecimalUnfolds
<1>5. CASE m < 10
  <2> DEFINE v == [i \in 0 .. 1 |-> IF i = 0 THEN 0 ELSE m]
  <2>1. Decimal[m] = Last(m) /\ m % 10 = m /\ m \div 10 = 0
    BY <1>3, <1>4, <1>5 DEF Follows
  <2>2. PICK s : s = Decimal[m]
    OBVIOUS
  <2>3. s \in Seq(Digits) /\ Len(s) = 1 /\ s # <<>> /\ Value[s[1]] = m
    BY <1>3, <2>1, <2>2, LastDigit
  <2>4. v \in [0 .. Len(s) -> Nat] /\ v[0] = 0 /\ v[1] = m
    BY <1>3, <2>3
  <2> HIDE DEF v
  <2>5. Reads(s, v, m)
    BY <1>3, <2>1, <2>3, <2>4 DEF Reads
  <2> QED
    BY <1>3, <2>2, <2>5
<1>6. CASE m >= 10
  <2>1. PICK q \in Nat : q = m \div 10
    BY <1>3
  <2>2. /\ q \in Nat /\ q < m /\ m = 10 * q + (m % 10)
        /\ Decimal[m] = Decimal[q] \o Last(m)
    BY <1>3, <1>4, <1>6, <2>1, Tenth DEF Follows
  <2>3. PICK w : Reads(Decimal[q], w, q)
    BY <1>2, <2>2
  <2>4. PICK s, t, e : s = Decimal[m] /\ t = Decimal[q] /\ e = Last(m)
    OBVIOUS
  <2>5. /\ e \in Seq(Digits) /\ Len(e) = 1 /\ e[1] \in Digits /\ Value[e[1]] = m % 10
    BY <1>3, <2>4, LastDigit
  <2>6. t \in Seq(Digits) /\ Len(t) \in Nat
    BY <2>3, <2>4 DEF Reads
  <2>7. /\ s \in Seq(Digits) /\ Len(s) = Len(t) + 1
        /\ \A i \in 1 .. Len(t) : s[i] = t[i]
        /\ s[Len(t) + 1] = e[1]
    <3>1. s = t \o e
      BY <2>2, <2>4
    <3>2. /\ t \o e \in Seq(Digits) /\ Len(t \o e) = Len(t) + Len(e)
          /\ \A i \in 1 .. Len(t) + Len(e) : (t \o e)[i] =
                 IF i <= Len(t) THEN t[i] ELSE e[i - Len(t)]
      BY <2>5, <2>6, ConcatProperties
    <3> QED
      BY <2>5, <2>6, <3>1, <3>2
  <2> DEFINE v == [i \in 0 .. Len(s) |-> IF i = Len(s) THEN m ELSE w[i]]
  <2>8. /\ w \in [0 .. Len(t) -> Nat] /\ w[0] = 0 /\ w[Len(t)] = q
        /\ \A i \in 1 .. Len(t) : w[i] = 10 * w[i - 1] + Value[t[i]] /\ w[i - 1] <= q \div 10
    BY <2>3, <2>4 DEF Reads
  <2>9. v \in [0 .. Len(s) -> Nat] /\ v[Len(s)] = m /\ \A i \in 0 .. Len(t) : v[i] = w[i]
    BY <1>3, <2>6, <2>7, <2>8
  <2> HIDE DEF v
  <2>10. q \div 10 <= q
    BY <2>1
  <2>11. ASSUME NEW i \in 1 .. Len(s)
         PROVE  v[i] = 10 * v[i - 1] + Value[s[i]] /\ v[i - 1] <= q
    <3>1. CASE i \in 1 .. Len(t)
      <4>0. i \in 0 .. Len(t) /\ i - 1 \in 0 .. Len(t)
        BY <2>6, <3>1
      <4>1. v[i] = w[i] /\ v[i - 1] = w[i - 1] /\ s[i] = t[i] /\ w[i - 1] \in Nat
        BY <2>7, <2>8, <2>9, <3>1, <4>0
      <4> QED
        BY <2>1, <2>8, <2>10, <3>1, <4>1
    <3>2. CASE i = Len(t) + 1
      <4>1. v[i] = m /\ v[i - 1] = q /\ s[i] = e[1]
        BY <2>6, <2>7, <2>8, <2>9, <3>2
      <4> QED
        BY <2>1, <2>2, <2>5, <4>1
    <3> QED
      BY <2>6, <2>7, <3>1, <3>2
  <2>12. s # <<>> /\ v[0] = 0
    BY <2>6, <2>7, <2>8, <2>9
  <2>13. Reads(s, v, m)
    BY <2>1, <2>7, <2>9, <2>11, <2>12 DEF Reads
  <2> QED
    BY <1>3, <2>4, <2>13
<1> QED
  BY <1>3, <1>5, <1>6

-----------------------------------------------------------------------------
(* What is left of a line when its first symbol has been read.             *)
LEMMA FirstOf ==
  ASSUME NEW S, NEW w \in Seq(S), NEW t \in Seq(S), w # <<>>
  PROVE  /\ w \o t \in Seq(S) /\ w \o t # <<>>
         /\ Head(w \o t) = Head(w) /\ Tail(w \o t) = Tail(w) \o t
<1>1. /\ Len(w) \in Nat \ {0} /\ Tail(w) \in Seq(S) /\ Len(Tail(w)) = Len(w) - 1
      /\ \A i \in 1 .. Len(w) - 1 : Tail(w)[i] = w[i + 1]
      /\ Head(w) = w[1] /\ Len(t) \in Nat
  BY HeadTailProperties, EmptySeq, LenProperties
<1>2. /\ w \o t \in Seq(S) /\ Len(w \o t) = Len(w) + Len(t)
      /\ \A i \in 1 .. Len(w) + Len(t) : (w \o t)[i] = IF i <= Len(w) THEN w[i] ELSE t[i - Len(w)]
  BY ConcatProperties
<1>3. PICK s \in Seq(S) : s = w \o t
  BY <1>2
<1>4. s # <<>> /\ Head(s) = Head(w)
  BY <1>1, <1>2, <1>3
<1>5. /\ Tail(s) \in Seq(S) /\ Len(Tail(s)) = Len(s) - 1
      /\ \A i \in 1 .. Len(s) - 1 : Tail(s)[i] = s[i + 1]
  BY <1>4, HeadTailProperties
<1>6. PICK r \in Seq(S) : r = Tail(w) \o t
  BY <1>1, ConcatProperties
<1>7. /\ Len(r) = Len(w) - 1 + Len(t)
      /\ \A i \in 1 .. Len(w) - 1 + Len(t) :
             r[i] = IF i <= Len(w) - 1 THEN Tail(w)[i] ELSE t[i - (Len(w) - 1)]
  BY <1>1, <1>6, ConcatProperties
<1>8. Len(Tail(s)) = Len(r) /\ \A i \in 1 .. Len(r) : Tail(s)[i] = r[i]
  BY <1>1, <1>2, <1>3, <1>5, <1>7
<1>9. Tail(s) = r
  BY <1>5, <1>8, SeqEqual
<1> QED
  BY <1>2, <1>3, <1>4, <1>6, <1>9

(* A symbol before a text.                                                 *)
LEMMA ConsOf ==
  ASSUME NEW S, NEW c \in S, NEW t \in Seq(S)
  PROVE  /\ <<c>> \o t \in Seq(S) /\ <<c>> \o t # <<>>
         /\ Head(<<c>> \o t) = c /\ Tail(<<c>> \o t) = t
<1>1. <<c>> \in Seq(S) /\ <<c>> # <<>> /\ Head(<<c>>) = c /\ Tail(<<c>>) = <<>>
  OBVIOUS
<1> QED
  BY <1>1, FirstOf, ConcatEmptySeq

-----------------------------------------------------------------------------
(* The invariant: how far a request of complete lines has been read.       *)
EOL == <<"CR", "LF">>
UrlSymbols == UrlChars \cup {"?", "#"}
ValueSymbols == Symbols \ {"CR", "LF", "NUL"}

(* The end of the request line, and the state behind each of its symbols.  *)
VersionLine == <<"SP", "H", "x", "x", "x", "/", "1", ".", "1", "CR", "LF">>
VersionState ==
    <<"s_req_http_start", "s_req_http_H", "s_req_http_HT", "s_req_http_HTT",
      "s_req_http_HTTP", "s_req_first_http_major", "s_req_http_major",
      "s_req_first_http_minor", "s_req_http_minor", "s_req_line_almost_done">>

(* The one message has begun and nothing is wrong with it.                 *)
Started ==
    /\ Running /\ parser.messages = 1 /\ parser.method = "GET"
    /\ "F_TRAILING" \notin parser.flags /\ ~header.ready

LengthRead == ContentLength(parser.clen) = ref.len
KeepRead == header.keepAlive = ref.keep
ChunkedRead == ("F_CHUNKED" \in parser.flags) = ref.chunked
AllRead == LengthRead /\ KeepRead /\ ChunkedRead

(* The request line.                                                       *)
AtRequest ==
    /\ parser = InitParser /\ header = InitHeader /\ marks = {} /\ scan = 0
    /\ ref = [NoRef EXCEPT !.line = "headers"]
    /\ \E u \in Urls : todo = <<"GET">> \o (<<"SP">> \o (u \o VersionLine))

AtMethod ==
    /\ Started /\ AllRead /\ scan = 0 /\ State = "s_req_method"
    /\ \E u \in Urls : todo = <<"SP">> \o (u \o VersionLine)

AtUrl ==
    /\ Started /\ AllRead /\ scan = 0 /\ State = "s_req_spaces_before_url"
    /\ \E u \in Urls : todo = u \o VersionLine

InUrl ==
    /\ Started /\ AllRead /\ scan = 0 /\ State \in UrlStates /\ "url" \in marks
    /\ \E w \in Seq(UrlSymbols) : todo = w \o VersionLine

InVersion(i) ==
    /\ Started /\ AllRead /\ header.url /\ State = VersionState[i]
    /\ scan = IF i = 10 THEN 1 ELSE 0
    /\ i \in 7 .. 9 => parser.major = 1
    /\ todo = SubSeq(VersionLine, i + 1, 11)

(* Between two lines.                                                      *)
Between ==
    /\ Started /\ header.url /\ scan = 2
    /\ State \in {"s_header_field_start", "s_header_value_lws"}

(* A header line: what is known but for its own meaning, and what may be   *)
(* left of its value before its first symbol other than a space.           *)
Known(name) ==
    /\ Started /\ header.url /\ ref.keep \in BOOLEAN /\ ref.chunked \in BOOLEAN
    /\ name # "content-length" => LengthRead
    /\ name # "connection" => KeepRead
    /\ name # "transfer-encoding" => ChunkedRead

KeepWord == IF ref.keep THEN "keep-alive" ELSE "close"

Plainly(w) == w \in Seq(ValueSymbols) /\ (w # <<>> => w[Len(w)] # "BS")

Before(name, w) ==
    \/ /\ name = "content-length" /\ ref.len \in Lengths
       /\ w \in {Decimal[ref.len], <<"SP">> \o Decimal[ref.len]}
    \/ name = "connection" /\ w = <<KeepWord>>
    \/ /\ name = "transfer-encoding" /\ ref.chunked
       /\ w \in {<<"chunked">>, <<"SP">> \o <<"chunked">>}
    \/ /\ name \in {"x", "upgrade"} /\ Plainly(w)
       /\ \E i \in 1 .. Len(w) : w[i] \notin {"SP", "HT"}

KindOf(name) ==
    CASE name = "content-length" -> "h_content_length"
      [] name = "transfer-encoding" -> "h_transfer_encoding"
      [] name = "upgrade" -> "h_upgrade"
      [] OTHER -> "h_general"

NameIs(name) == IF name = "connection" THEN "kConnection" ELSE "kNone"

AtName(name, w) ==
    /\ Known(name) /\ Before(name, w) /\ Between
    /\ todo = <<name>> \o (<<":">> \o (w \o EOL))

InName(name, w) ==
    /\ Known(name) /\ Before(name, w) /\ scan = 0
    /\ State = "s_header_field" /\ parser.headerState = KindOf(name) /\ text = name
    /\ todo = <<":">> \o (w \o EOL)

AtValue(name, w) ==
    /\ Known(name) /\ Before(name, w) /\ scan = 0
    /\ State = "s_header_value_start" /\ parser.headerState = KindOf(name)
    /\ header.nameIs = NameIs(name)
    /\ todo = w \o EOL

(* The digits of a length, the other words and a value of no meaning.      *)
InLength ==
    /\ parser.headerState = "h_content_length" /\ ref.len \in Lengths
    /\ \E v : \E i \in 1 .. Len(Decimal[ref.len]) :
           /\ Reads(Decimal[ref.len], v, ref.len)
           /\ parser.clen = v[i]
           /\ todo = SubSeq(Decimal[ref.len], i + 1, Len(Decimal[ref.len])) \o EOL

InOther ==
    /\ parser.headerState \in {"h_general", "h_general_and_quote", Escape}
    /\ \E w : /\ Plainly(w) /\ (parser.headerState = Escape => w # <<>>)
              /\ todo = w \o EOL

InValue(name) ==
    /\ Known(name) /\ scan = 0
    /\ State = "s_header_value" /\ header.nameIs = NameIs(name)
    /\ \/ name = "content-length" /\ InLength
       \/ /\ name = "connection" /\ parser.headerState = "h_general"
          /\ "value" \in marks /\ text = KeepWord /\ todo = EOL
       \/ /\ name = "transfer-encoding" /\ ref.chunked /\ todo = EOL
          /\ parser.headerState = "h_transfer_encoding_chunked"
       \/ name \in {"x", "upgrade"} /\ InOther

AtLineEnd ==
    /\ Started /\ header.url /\ LengthRead /\ KeepRead
    /\ State = "s_header_almost_done" /\ scan = 1 /\ todo = <<"LF">>
    /\ (\/ "F_CHUNKED" \in parser.flags
        \/ parser.headerState = "h_transfer_encoding_chunked") = ref.chunked

LineNames == {"content-length", "connection", "transfer-encoding", "x", "upgrade"}

HeaderLineInv ==
    \/ \E name \in LineNames : \E w : AtName(name, w) \/ InName(name, w) \/ AtValue(name, w)
    \/ \E name \in LineNames : InValue(name)
    \/ AtLineEnd

RequestLineInv == AtRequest \/ AtMethod \/ AtUrl \/ InUrl \/ \E i \in 1 .. 10 : InVersion(i)

(* The blank line.                                                         *)
InBlankLine ==
    /\ Started /\ AllRead /\ header.url
    /\ \/ State \in {"s_header_field_start", "s_header_value_lws"} /\ scan = 2 /\ todo = EOL
       \/ State = "s_headers_almost_done" /\ scan = 3 /\ todo = <<"LF">>

Understood ==
    /\ parser.errno = "OK" /\ parser.messages = 1 /\ header.url /\ AllRead
    /\ parser.state = IF ref.chunked THEN "s_chunk_size_start"
                      ELSE IF ref.len > 0 THEN "s_body_identity"
                      ELSE "s_pre_start_req"

ReadInv ==
    \/ ref.line = "free"
    \/ /\ ref = NoRef /\ todo = <<>>
       /\ parser = InitParser /\ header = InitHeader /\ marks = {} /\ scan = 0
    \/ ref.line = "headers" /\ RequestLineInv
    \/ ref.line = "headers" /\ Between /\ AllRead /\ todo = <<>>
    \/ ref.line = "headers" /\ HeaderLineInv
    \/ ref.line = "end" /\ InBlankLine
    \/ ref.line = "end" /\ Understood /\ todo = <<>> /\ scan = 4

-----------------------------------------------------------------------------
(* The symbols of the lines.                                               *)
LEMMA SymbolFacts ==
  /\ UrlSymbols \subseteq Symbols /\ UrlSymbols \cap {"CR", "LF", "SP", "NUL"} = {}
  /\ ValueSymbols \subseteq Symbols
  /\ ValueSymbols \cap {"CR", "LF", "NUL"} = {}
  /\ Digits \subseteq ValueSymbols /\ Digits \cap {"SP", "HT", "CR", "LF", "NUL"} = {}
  /\ {"GET", "SP", ":", "CR", "LF", "chunked", "close", "keep-alive"} \subseteq Symbols
  /\ LineNames \subseteq Tokens /\ Tokens \subseteq Symbols
  /\ Tokens \cap {"CR", "LF", "SP", "HT", ":", "NUL"} = {}
BY DEF UrlSymbols, UrlChars, ValueSymbols, Symbols, Digits, Tokens, Alpha, Methods, Names,
       LineNames

(* What the lines of a client are made of.                                 *)
LEMMA LineFacts ==
  /\ EOL \in Seq(Symbols) /\ VersionLine \in Seq(Symbols)
  /\ \A u \in Urls : u \in Seq(UrlSymbols) /\ u \in Seq(Symbols) /\ u # <<>> /\ Head(u) = "/"
  /\ \A n \in Lengths : n \in Nat /\ Decimal[n] \in Seq(Digits) /\ Decimal[n] \in Seq(Symbols)
                           /\ Decimal[n] # <<>>
<1>1. EOL \in Seq(Symbols) /\ VersionLine \in Seq(Symbols)
  <2>1. \A s \in {"SP", "H", "x", "/", "1", ".", "CR", "LF"} : s \in Symbols
    BY DEF Symbols, Tokens, Alpha, Digits
  <2> QED
    BY <2>1 DEF EOL, VersionLine
<1>2. \A u \in Urls : u \in Seq(UrlSymbols) /\ u # <<>> /\ Head(u) = "/"
  BY HeadUrls DEF UrlSymbols
<1>3. \A n \in Lengths : n \in Nat /\ Decimal[n] \in Seq(Digits) /\ Decimal[n] # <<>>
  BY HeadLengths, DecimalReads DEF Reads
<1>4. UrlSymbols \subseteq Symbols /\ Digits \subseteq Symbols
  BY SymbolFacts
<1> QED
  BY <1>1, <1>2, <1>3, <1>4, SeqMonotonic

(* A byte is handled by the action of its state.                           *)
LEMMA Dispatch ==
  ASSUME NEW ch, Execute(ch), Running
  PROVE  /\ State = "s_pre_start_req" => StartRequest(ch)
         /\ State = "s_req_method" => Method(ch)
         /\ State = "s_req_spaces_before_url" => SpacesBeforeUrl(ch)
         /\ State \in UrlStates => Url(ch)
         /\ State \in {"s_req_http_start", "s_req_http_H", "s_req_http_HT",
                       "s_req_http_HTT", "s_req_http_HTTP"} => HttpWord(ch)
         /\ State \in {"s_req_first_http_major", "s_req_http_major"} => MajorVersion(ch)
         /\ State \in {"s_req_first_http_minor", "s_req_http_minor"} => MinorVersion(ch)
         /\ State = "s_req_line_almost_done" => RequestLineEnd(ch)
         /\ State = "s_header_field_start" => HeaderFieldStart(ch)
         /\ State = "s_header_field" => HeaderField(ch)
         /\ State = "s_header_value_start" => HeaderValueStart(ch)
         /\ State = "s_header_value" => HeaderValue(ch)
         /\ State = "s_header_almost_done" => HeaderAlmostDone(ch)
         /\ State = "s_header_value_lws" => HeaderValueLws(ch)
         /\ State = "s_headers_almost_done" => HeadersAlmostDone(ch)
<1>1. /\ StartRequest(ch) => State = "s_pre_start_req"
      /\ Method(ch) => State = "s_req_method"
      /\ SpacesBeforeUrl(ch) => State = "s_req_spaces_before_url"
      /\ Schema(ch) \/ Host(ch) => State \in HostStates
  BY Zenon DEF StartRequest, Method, SpacesBeforeUrl, Schema, Host, HostStates
<1>2. /\ Url(ch) => State \in UrlStates
      /\ HttpWord(ch) => State \in {"s_req_http_start", "s_req_http_H", "s_req_http_HT",
                                    "s_req_http_HTT", "s_req_http_HTTP"}
      /\ MajorVersion(ch) => State \in {"s_req_first_http_major", "s_req_http_major"}
      /\ MinorVersion(ch) => State \in {"s_req_first_http_minor", "s_req_http_minor"}
      /\ RequestLineEnd(ch) => State = "s_req_line_almost_done"
  BY Zenon DEF Url, HttpWord, MajorVersion, MinorVersion, RequestLineEnd
<1>3. /\ HeaderFieldStart(ch) => State = "s_header_field_start"
      /\ HeaderField(ch) => State = "s_header_field"
      /\ HeaderValueStart(ch) => State = "s_header_value_start"
      /\ HeaderValue(ch) => State = "s_header_value"
      /\ HeaderAlmostDone(ch) => State = "s_header_almost_done"
      /\ HeaderValueLws(ch) => State = "s_header_value_lws"
      /\ HeadersAlmostDone(ch) => State = "s_headers_almost_done"
  BY Zenon DEF HeaderFieldStart, HeaderField, HeaderValueStart, HeaderValue,
               HeaderAlmostDone, HeaderValueLws, HeadersAlmostDone
<1>4. BodyIdentity \/ ChunkSize(ch) \/ ChunkData =>
          State \in {"s_body_identity"} \cup ChunkSizeStates \cup ChunkDataStates
  BY Zenon DEF BodyIdentity, ChunkSize, ChunkData, ChunkSizeStates, ChunkDataStates
<1>5. \/ StartRequest(ch) \/ Method(ch) \/ SpacesBeforeUrl(ch) \/ Schema(ch)
      \/ Host(ch) \/ Url(ch) \/ HttpWord(ch) \/ MajorVersion(ch)
      \/ MinorVersion(ch) \/ RequestLineEnd(ch)
      \/ HeaderFieldStart(ch) \/ HeaderField(ch) \/ HeaderValueStart(ch)
      \/ HeaderValue(ch) \/ HeaderAlmostDone(ch) \/ HeaderValueLws(ch)
      \/ HeadersAlmostDone(ch)
      \/ BodyIdentity \/ ChunkSize(ch) \/ ChunkData
  BY Zenon DEF Execute
<1> QED
  BY <1>1, <1>2, <1>3, <1>4, <1>5 DEF UrlStates, HostStates, ChunkSizeStates, ChunkDataStates

(* What a step to another state leaves alone.                              *)
SameMessage ==
    /\ parser'.errno = parser.errno /\ parser'.left = parser.left
    /\ parser'.messages = parser.messages /\ parser'.method = parser.method
    /\ parser'.flags = parser.flags

SameParser == SameMessage /\ parser'.clen = parser.clen

(* Going to another state leaves the message as it is.                     *)
LEMMA GotoKeeps ==
  ASSUME parser \in ParserType, NEW s, Goto(s)
  PROVE  /\ State' = s /\ SameParser /\ parser'.major = parser.major
         /\ parser'.headerState = parser.headerState
         /\ header' = header /\ marks' = marks /\ text' = text
BY DEF Goto, Quiet, ParserType, SameParser, SameMessage, State

(* The message goes on.                                                    *)
LEMMA StartedKept ==
  ASSUME Started, SameMessage, header'.ready = header.ready
  PROVE  Started'
BY DEF Started, Running, SameMessage

(* What has been understood stays understood.                              *)
LEMMA ReadKept ==
  ASSUME SameParser, header'.keepAlive = header.keepAlive, ref' = ref
  PROVE  /\ LengthRead => LengthRead'
         /\ KeepRead => KeepRead'
         /\ ChunkedRead => ChunkedRead'
         /\ AllRead => AllRead'
BY DEF SameParser, SameMessage, AllRead, LengthRead, KeepRead, ChunkedRead, ContentLength

(* try_parse() starts over at every symbol but CR and LF.                  *)
LEMMA ScanOther ==
  ASSUME NEW ch, ch \notin {"CR", "LF"}, NEW n
  PROVE  ScanStep(n, ch) = 0
BY DEF ScanStep

(* A step of the line that is being sent.                                  *)
LEMMA LineStep ==
  ASSUME HeadInv, ReceiveLine, NEW ch, NEW s, Head(todo) = ch, Tail(todo) = s
  PROVE  /\ Execute(ch) /\ todo' = s /\ ref' = ref /\ scan' = ScanStep(scan, ch)
         /\ parser \in ParserType /\ header \in HeaderType
BY DEF ReceiveLine, Receive, HeadInv, ParserOK, Safe

-----------------------------------------------------------------------------
(* The request line, symbol by symbol.                                     *)
LEMMA ReadMethod ==
  ASSUME HeadInv, ReceiveLine, AtRequest
  PROVE  AtMethod'
<1>1. PICK u \in Urls : todo = <<"GET">> \o (<<"SP">> \o (u \o VersionLine))
  BY DEF AtRequest
<1>2. PICK s : s = <<"SP">> \o (u \o VersionLine)
  OBVIOUS
<1>3. Head(todo) = "GET" /\ Tail(todo) = s
  <2>1. s \in Seq(Symbols) /\ "GET" \in Symbols
    BY <1>2, LineFacts, SymbolFacts, ConcatProperties, ConsOf
  <2> QED
    BY <1>1, <1>2, <2>1, ConsOf
<1>4. Execute("GET") /\ todo' = s /\ ref' = ref /\ scan' = 0
  BY <1>3, LineStep, ScanOther
<1>5. /\ parser = InitParser /\ header = InitHeader /\ ref.len = 0
      /\ ref.keep = FALSE /\ ref.chunked = FALSE
  BY DEF AtRequest, NoRef
<1>6. StartRequest("GET")
  BY <1>4, <1>5, Dispatch DEF InitParser, State, Running
<1>7. /\ parser' = [InitParser EXCEPT !.flags = {}, !.clen = -1, !.messages = 1,
                                      !.state = "s_req_method", !.method = "GET"]
      /\ header' = header
  BY <1>5, <1>6 DEF StartRequest, Methods, Alpha, InitParser, Quiet
<1>8. /\ parser'.errno = "OK" /\ parser'.left = FALSE /\ parser'.messages = 1
      /\ parser'.method = "GET" /\ parser'.flags = {} /\ parser'.clen = -1
      /\ parser'.state = "s_req_method"
      /\ header'.ready = FALSE /\ header'.keepAlive = FALSE
  BY <1>5, <1>7 DEF InitHeader, InitParser
<1>9. Started' /\ State' = "s_req_method"
  BY <1>8 DEF Started, Running, State
<1>10. AllRead'
  <2>1. LengthRead'
    BY <1>4, <1>5, <1>8 DEF LengthRead, ContentLength
  <2>2. KeepRead'
    BY <1>4, <1>5, <1>8, Zenon DEF KeepRead
  <2>3. ("F_CHUNKED" \in parser'.flags) = FALSE
    BY <1>8
  <2>4. ChunkedRead'
    BY <1>4, <1>5, <2>3, Zenon DEF ChunkedRead
  <2> QED
    BY <2>1, <2>2, <2>4 DEF AllRead
<1> QED
  BY <1>2, <1>4, <1>9, <1>10 DEF AtMethod

(* The space behind the method.                                            *)
LEMMA ReadSpace ==
  ASSUME HeadInv, ReceiveLine, AtMethod
  PROVE  AtUrl'
<1>1. PICK u \in Urls : todo = <<"SP">> \o (u \o VersionLine)
  BY DEF AtMethod
<1>2. PICK s : s = u \o VersionLine
  OBVIOUS
<1>3. Head(todo) = "SP" /\ Tail(todo) = s
  <2>1. s \in Seq(Symbols) /\ "SP" \in Symbols
    BY <1>2, LineFacts, SymbolFacts, ConcatProperties
  <2> QED
    BY <1>1, <1>2, <2>1, ConsOf
<1>4. Execute("SP") /\ todo' = s /\ ref' = ref /\ scan' = 0 /\ parser \in ParserType
  BY <1>3, LineStep, ScanOther
<1>5. Method("SP") /\ parser.method = "GET"
  BY <1>4, Dispatch DEF AtMethod, Started
<1>6. Goto("s_req_spaces_before_url")
  BY <1>5 DEF Method
<1>7. Started' /\ AllRead' /\ State' = "s_req_spaces_before_url"
  BY <1>4, <1>6, GotoKeeps, StartedKept, ReadKept DEF AtMethod, SameParser
<1> QED
  BY <1>2, <1>4, <1>7 DEF AtUrl

(* The first symbol of the URL.                                            *)
LEMMA ReadUrlStart ==
  ASSUME HeadInv, ReceiveLine, AtUrl
  PROVE  InUrl'
<1>1. PICK u \in Urls : todo = u \o VersionLine
  BY DEF AtUrl
<1>2. /\ u \in Seq(UrlSymbols) /\ u \in Seq(Symbols) /\ u # <<>> /\ Head(u) = "/"
      /\ VersionLine \in Seq(Symbols)
  BY LineFacts
<1>3. Head(todo) = "/" /\ Tail(todo) = Tail(u) \o VersionLine
  BY <1>1, <1>2, FirstOf
<1>4. /\ Execute("/") /\ todo' = Tail(u) \o VersionLine /\ ref' = ref /\ scan' = 0
      /\ parser \in ParserType /\ header \in HeaderType
  BY <1>3, LineStep, ScanOther
<1>5. SpacesBeforeUrl("/") /\ parser.method = "GET"
  BY <1>4, Dispatch DEF AtUrl, Started
<1>6. parser' = [parser EXCEPT !.state = "s_req_path"] /\ Mark("url", "")
  BY <1>5 DEF SpacesBeforeUrl, Alpha, Methods, Names
<1>7. State' = "s_req_path" /\ SameParser /\ header' = header /\ "url" \in marks'
  BY <1>4, <1>6 DEF ParserType, Mark, SameParser, SameMessage, State
<1>8. Started' /\ AllRead'
  BY <1>4, <1>7, StartedKept, ReadKept DEF AtUrl, SameParser
<1>9. Tail(u) \in Seq(UrlSymbols)
  BY <1>2, HeadTailProperties
<1> QED
  BY <1>4, <1>7, <1>8, <1>9 DEF InUrl, UrlStates

(* A further symbol of the URL, or the space that ends it.                 *)
LEMMA ReadUrl ==
  ASSUME HeadInv, ReceiveLine, InUrl
  PROVE  InUrl' \/ InVersion(1)'
<1>1. PICK w \in Seq(UrlSymbols) : todo = w \o VersionLine
  BY DEF InUrl
<1>2. /\ w \in Seq(Symbols) /\ VersionLine \in Seq(Symbols)
      /\ Started /\ AllRead /\ scan = 0 /\ State \in UrlStates /\ "url" \in marks
  BY LineFacts, SymbolFacts, SeqMonotonic DEF InUrl
<1>3. CASE w # <<>>
  <2>1. PICK ch \in UrlSymbols : ch = Head(w)
    BY <1>3, HeadTailProperties
  <2>2. Head(todo) = ch /\ Tail(todo) = Tail(w) \o VersionLine
    BY <1>1, <1>2, <1>3, <2>1, FirstOf
  <2>3. ch \notin {"CR", "LF", "SP", "NUL"}
    BY <2>1, SymbolFacts
  <2>4. /\ Execute(ch) /\ todo' = Tail(w) \o VersionLine /\ ref' = ref /\ scan' = 0
        /\ parser \in ParserType
    BY <2>2, <2>3, LineStep, ScanOther
  <2>5. Url(ch)
    BY <1>2, <2>4, Dispatch DEF Started
  <2>6. Goto(UrlGoto(ch))
    BY <2>1, <2>3, <2>5 DEF Url
  <2>7. UrlGoto(ch) \in UrlStates
    BY <1>2 DEF UrlGoto, UrlStates
  <2>8. Started' /\ AllRead' /\ State' \in UrlStates /\ "url" \in marks'
    BY <1>2, <2>4, <2>6, <2>7, GotoKeeps, StartedKept, ReadKept DEF SameParser
  <2>9. Tail(w) \in Seq(UrlSymbols)
    BY <1>3, HeadTailProperties
  <2> QED
    BY <2>4, <2>8, <2>9 DEF InUrl
<1>4. CASE w = <<>>
  <2>1. todo = VersionLine
    BY <1>1, <1>2, <1>4, ConcatEmptySeq
  <2>2. Head(todo) = "SP" /\ Tail(todo) = SubSeq(VersionLine, 2, 11)
    <3>1. Len(VersionLine) = 11 /\ Head(VersionLine) = "SP" /\ VersionLine # <<>>
      BY DEF VersionLine
    <3>2. Tail(VersionLine) = SubSeq(VersionLine, 2, Len(VersionLine))
      BY <1>2, <3>1, TailIsSubSeq
    <3> QED
      BY <2>1, <3>1, <3>2
  <2>3. /\ Execute("SP") /\ todo' = SubSeq(VersionLine, 2, 11) /\ ref' = ref /\ scan' = 0
        /\ parser \in ParserType /\ header \in HeaderType
    BY <2>2, LineStep, ScanOther
  <2>4. Url("SP")
    BY <1>2, <2>3, Dispatch DEF Started
  <2>5. parser' = [parser EXCEPT !.state = "s_req_http_start"] /\ OnUrl
    BY <2>4 DEF Url, UrlChars
  <2>6. /\ State' = "s_req_http_start" /\ SameParser /\ header'.url
        /\ header'.ready = header.ready /\ header'.keepAlive = header.keepAlive
    BY <1>2, <2>3, <2>5 DEF ParserType, HeaderType, OnUrl, SetUrl, SameParser,
                            SameMessage, State
  <2>7. Started' /\ AllRead'
    BY <1>2, <2>3, <2>6, StartedKept, ReadKept DEF SameParser
  <2>8. VersionState[1] = "s_req_http_start"
    BY DEF VersionState
  <2> QED
    BY <2>3, <2>6, <2>7, <2>8 DEF InVersion
<1> QED
  BY <1>3, <1>4

(* The version: whatever stands for TTP/, a major 1 and a minor 1.         *)
LEMMA ReadVersion ==
  ASSUME HeadInv, ReceiveLine, NEW i \in 1 .. 10, InVersion(i)
  PROVE  \/ i < 10 /\ InVersion(i + 1)'
         \/ (Between /\ AllRead /\ todo = <<>>)'
<1>1. /\ Started /\ AllRead /\ header.url /\ State = VersionState[i]
      /\ scan = IF i = 10 THEN 1 ELSE 0
      /\ i \in 7 .. 9 => parser.major = 1
      /\ todo = SubSeq(VersionLine, i + 1, 11)
  BY DEF InVersion
<1>2. PICK ch : ch = VersionLine[i + 1]
  OBVIOUS
<1>3. Head(todo) = ch /\ Tail(todo) = SubSeq(VersionLine, i + 2, 11)
  <2>1. Len(VersionLine) = 11 /\ i + 1 \in 1 .. 11 /\ 11 \in i + 1 .. 11
    BY DEF VersionLine
  <2>2. VersionLine \in Seq(Symbols)
    BY LineFacts
  <2>3. PICK j \in 1 .. Len(VersionLine) : j = i + 1 /\ 11 \in j .. Len(VersionLine)
    BY <2>1
  <2>4. /\ Head(SubSeq(VersionLine, j, 11)) = VersionLine[j]
        /\ Tail(SubSeq(VersionLine, j, 11)) = SubSeq(VersionLine, j + 1, 11)
    BY <2>2, <2>3, HeadTailOfSubSeq
  <2>5. j + 1 = i + 2
    BY <2>3
  <2> QED
    BY <1>1, <1>2, <2>3, <2>4, <2>5
<1>4. /\ Execute(ch) /\ todo' = SubSeq(VersionLine, i + 2, 11) /\ ref' = ref
      /\ scan' = ScanStep(scan, ch) /\ parser \in ParserType /\ header \in HeaderType
  BY <1>3, LineStep
<1>5. Running
  BY <1>1 DEF Started
<1>6. ASSUME SameParser, header' = header, i < 10, State' = VersionState[i + 1],
             scan' = IF i = 9 THEN 1 ELSE 0, i \in 6 .. 8 => parser'.major = 1
      PROVE  InVersion(i + 1)'
  <2>1. Started' /\ AllRead' /\ header'.url
    BY <1>1, <1>4, <1>6, StartedKept, ReadKept DEF SameParser
  <2>2. i + 1 \in 7 .. 9 => parser'.major = 1
    BY <1>6
  <2>3. scan' = IF i + 1 = 10 THEN 1 ELSE 0
    BY <1>6
  <2>4. todo' = SubSeq(VersionLine, (i + 1) + 1, 11)
    <3>1. i + 2 = (i + 1) + 1
      OBVIOUS
    <3> QED
      BY <1>4, <3>1
  <2> QED
    BY <1>6, <2>1, <2>2, <2>3, <2>4 DEF InVersion
<1>7. CASE i \in {1, 2, 3, 4, 5, 7}
  <2>1. /\ ch = CASE i = 1 -> "H" [] i = 5 -> "/" [] i = 7 -> "." [] OTHER -> "x"
        /\ ch \notin {"CR", "LF", "SP"} /\ ch \notin Digits
    BY <1>2, <1>7 DEF VersionLine, Digits
  <2>2. Goto(VersionState[i + 1])
    <3>1. CASE i \in 1 .. 5
      <4>1. HttpWord(ch)
        BY <1>1, <1>4, <1>5, <3>1, Dispatch DEF VersionState
      <4> QED
        BY <1>1, <2>1, <3>1, <4>1 DEF HttpWord, VersionState
    <3>2. CASE i = 7
      <4>1. MajorVersion(ch)
        BY <1>1, <1>4, <1>5, <3>2, Dispatch DEF VersionState
      <4> QED
        BY <1>1, <2>1, <3>2, <4>1 DEF MajorVersion, VersionState
    <3> QED
      BY <1>7, <3>1, <3>2
  <2>3. scan' = 0
    BY <1>4, <2>1, ScanOther
  <2> QED
    BY <1>1, <1>4, <1>6, <1>7, <2>2, <2>3, GotoKeeps
<1>8. CASE i = 6
  <2>1. ch = "1" /\ ch \in Digits /\ Value[ch] = 1 /\ State = "s_req_first_http_major"
    BY <1>1, <1>2, <1>8 DEF VersionLine, VersionState, Digits, Value
  <2>2. MajorVersion(ch)
    BY <1>4, <1>5, <2>1, Dispatch
  <2>3. parser' = [parser EXCEPT !.state = "s_req_http_major", !.major = 1] /\ Quiet
    BY <2>1, <2>2 DEF MajorVersion
  <2>4. /\ State' = "s_req_http_major" /\ SameParser /\ parser'.major = 1 /\ header' = header
    BY <1>4, <2>3 DEF ParserType, SameParser, SameMessage, State, Quiet
  <2>5. scan' = 0 /\ VersionState[7] = "s_req_http_major"
    BY <1>4, <2>1, ScanOther DEF VersionState
  <2> QED
    BY <1>6, <1>8, <2>4, <2>5
<1>9. CASE i = 8
  <2>1. ch = "1" /\ ch \in Digits /\ State = "s_req_first_http_minor"
    BY <1>1, <1>2, <1>9 DEF VersionLine, VersionState, Digits
  <2>2. MinorVersion(ch)
    BY <1>4, <1>5, <2>1, Dispatch
  <2>3. parser' = [parser EXCEPT !.state = "s_req_http_minor", !.minor = Value[ch]] /\ Quiet
    BY <2>1, <2>2 DEF MinorVersion
  <2>4. /\ State' = "s_req_http_minor" /\ SameParser /\ parser'.major = parser.major
        /\ header' = header
    BY <1>4, <2>3 DEF ParserType, SameParser, SameMessage, State, Quiet
  <2>5. scan' = 0 /\ VersionState[9] = "s_req_http_minor"
    BY <1>4, <2>1, ScanOther DEF VersionState
  <2> QED
    BY <1>1, <1>6, <1>9, <2>4, <2>5
<1>10. CASE i = 9
  <2>1. ch = "CR" /\ State = "s_req_http_minor" /\ parser.major = 1
    BY <1>1, <1>2, <1>10 DEF VersionLine, VersionState
  <2>2. MinorVersion(ch)
    BY <1>4, <1>5, <2>1, Dispatch
  <2>3. /\ parser' = [parser EXCEPT !.major = 0, !.minor = 0,
                                    !.state = "s_req_line_almost_done"]
        /\ Quiet
    BY <1>4, <2>1, <2>2 DEF MinorVersion, ParserType, Digits
  <2>4. State' = "s_req_line_almost_done" /\ SameParser /\ header' = header
    BY <1>4, <2>3 DEF ParserType, SameParser, SameMessage, State, Quiet
  <2>5. scan' = 1 /\ VersionState[10] = "s_req_line_almost_done"
    BY <1>1, <1>4, <1>10, <2>1 DEF VersionState, ScanStep
  <2> QED
    BY <1>6, <1>10, <2>4, <2>5
<1>11. CASE i = 10
  <2>1. ch = "LF" /\ State = "s_req_line_almost_done"
    BY <1>1, <1>2, <1>11 DEF VersionLine, VersionState
  <2>2. Goto("s_header_field_start")
    BY <1>4, <1>5, <2>1, Dispatch DEF RequestLineEnd
  <2>3. scan' = 2
    BY <1>1, <1>4, <1>11, <2>1 DEF ScanStep
  <2>4. todo' = <<>>
    BY <1>4, <1>11, SubSeqEmpty
  <2>5. Started' /\ AllRead' /\ header'.url /\ State' = "s_header_field_start"
    BY <1>1, <1>4, <2>2, GotoKeeps, StartedKept, ReadKept DEF SameParser
  <2> QED
    BY <2>3, <2>4, <2>5 DEF Between
<1> QED
  BY <1>7, <1>8, <1>9, <1>10, <1>11

-----------------------------------------------------------------------------
(* The header lines.                                                       *)
LEMMA WordFacts ==
  /\ KeepWord \in ValueSymbols /\ "chunked" \in ValueSymbols /\ "SP" \in ValueSymbols
  /\ {KeepWord, "chunked"} \cap {"SP", "HT", "QT"} = {}
BY DEF KeepWord, ValueSymbols, Symbols, Tokens, Alpha

(* The values a client writes are not empty.                               *)
LEMMA BeforeFacts ==
  ASSUME NEW name \in LineNames, NEW w, Before(name, w)
  PROVE  w \in Seq(ValueSymbols) /\ w \in Seq(Symbols) /\ w # <<>>
<1>1. w \in Seq(ValueSymbols) /\ w # <<>>
  <2>1. CASE name = "content-length"
    <3>1. ref.len \in Lengths /\ w \in {Decimal[ref.len], <<"SP">> \o Decimal[ref.len]}
      BY <2>1 DEF Before
    <3>2. Decimal[ref.len] \in Seq(ValueSymbols) /\ Decimal[ref.len] # <<>>
      BY <3>1, LineFacts, SymbolFacts, SeqMonotonic
    <3>3. /\ <<"SP">> \o Decimal[ref.len] \in Seq(ValueSymbols)
          /\ <<"SP">> \o Decimal[ref.len] # <<>>
      BY <3>2, WordFacts, ConsOf
    <3> QED
      BY <3>1, <3>2, <3>3
  <2>2. CASE name = "connection"
    <3>1. w = <<KeepWord>>
      BY <2>2 DEF Before
    <3> QED
      BY <3>1, WordFacts
  <2>3. CASE name = "transfer-encoding"
    <3>1. w \in {<<"chunked">>, <<"SP">> \o <<"chunked">>}
      BY <2>3 DEF Before
    <3>2. <<"chunked">> \in Seq(ValueSymbols) /\ <<"chunked">> # <<>>
      BY WordFacts
    <3>3. /\ <<"SP">> \o <<"chunked">> \in Seq(ValueSymbols)
          /\ <<"SP">> \o <<"chunked">> # <<>>
      BY <3>2, WordFacts, ConsOf
    <3> QED
      BY <3>1, <3>2, <3>3
  <2>4. CASE name \in {"x", "upgrade"}
    BY <2>4 DEF Before, Plainly
  <2> QED
    BY <2>1, <2>2, <2>3, <2>4 DEF LineNames
<1>2. ValueSymbols \subseteq Symbols
  BY SymbolFacts
<1> QED
  BY <1>1, <1>2, SeqMonotonic

(* The value of a line depends on the meaning of the lines only.           *)
LEMMA BeforeKept ==
  ASSUME NEW name, NEW w, Before(name, w), ref' = ref
  PROVE  Before(name, w)'
BY DEF Before, KeepWord

(* What the other lines said stays known.                                  *)
LEMMA KnownKept ==
  ASSUME NEW name, Known(name), SameParser, header'.ready = header.ready,
         header'.url = header.url, header'.keepAlive = header.keepAlive, ref' = ref
  PROVE  Known(name)'
<1>1. Started'
  BY StartedKept DEF Known, SameParser
<1> QED
  BY <1>1, ReadKept DEF Known

(* Outside a name or a value nothing is marked.                            *)
LEMMA NoMark ==
  ASSUME MarkInv, Running,
         State \in {"s_header_field_start", "s_header_value_lws", "s_header_value_start"}
  PROVE  marks = {}
<1>1. MarkOf(State) = {}
  BY DEF MarkOf, UrlStates, HostStates
<1> QED
  BY <1>1 DEF MarkInv

(* The name of a line.                                                     *)
LEMMA ReadName ==
  ASSUME HeadInv, MarkInv, ReceiveLine, NEW name \in LineNames, NEW w, AtName(name, w)
  PROVE  InName(name, w)'
<1>1. /\ Known(name) /\ Before(name, w) /\ Running
      /\ State \in {"s_header_field_start", "s_header_value_lws"}
      /\ todo = <<name>> \o (<<":">> \o (w \o EOL))
  BY DEF AtName, Between, Started
<1>2. PICK s : s = <<":">> \o (w \o EOL)
  OBVIOUS
<1>3. name \in Tokens /\ name \in Symbols /\ name \notin {"CR", "LF", "SP", "HT"}
  BY SymbolFacts
<1>4. Head(todo) = name /\ Tail(todo) = s
  <2>1. w \o EOL \in Seq(Symbols) /\ ":" \in Symbols
    BY <1>1, BeforeFacts, LineFacts, SymbolFacts, ConcatProperties
  <2>2. s \in Seq(Symbols)
    BY <1>2, <2>1, ConsOf
  <2> QED
    BY <1>1, <1>2, <1>3, <2>2, ConsOf
<1>5. /\ Execute(name) /\ todo' = s /\ ref' = ref /\ scan' = 0 /\ parser \in ParserType
  BY <1>3, <1>4, LineStep, ScanOther
<1>6. FieldStart(name)
  <2>1. State = "s_header_field_start" => FieldStart(name)
    BY <1>1, <1>5, Dispatch DEF HeaderFieldStart
  <2>2. State = "s_header_value_lws" => FieldStart(name)
    BY <1>1, <1>3, <1>5, Dispatch DEF HeaderValueLws
  <2> QED
    BY <1>1, <2>1, <2>2
<1>7. /\ parser' = [parser EXCEPT !.state = "s_header_field", !.headerState = KindOf(name)]
      /\ Mark("field", name)
  BY <1>3, <1>6 DEF FieldStart, KindOf
<1>8. /\ State' = "s_header_field" /\ parser'.headerState = KindOf(name) /\ SameParser
  BY <1>5, <1>7 DEF ParserType, SameParser, SameMessage, State
<1>9. header' = header /\ text' = name
  BY <1>1, <1>7, NoMark DEF Mark
<1> QED
  BY <1>1, <1>2, <1>5, <1>8, <1>9, BeforeKept, KnownKept DEF InName

(* The colon behind the name.                                              *)
LEMMA ReadColon ==
  ASSUME HeadInv, ReceiveLine, NEW name \in LineNames, NEW w, InName(name, w)
  PROVE  AtValue(name, w)'
<1>1. /\ Known(name) /\ Before(name, w) /\ Running /\ State = "s_header_field"
      /\ parser.headerState = KindOf(name) /\ text = name /\ todo = <<":">> \o (w \o EOL)
  BY DEF InName, Known, Started
<1>2. Head(todo) = ":" /\ Tail(todo) = w \o EOL
  <2>1. w \o EOL \in Seq(Symbols) /\ ":" \in Symbols
    BY <1>1, BeforeFacts, LineFacts, SymbolFacts, ConcatProperties
  <2> QED
    BY <1>1, <2>1, ConsOf
<1>3. /\ Execute(":") /\ todo' = w \o EOL /\ ref' = ref /\ scan' = 0
      /\ parser \in ParserType /\ header \in HeaderType
  BY <1>2, LineStep, ScanOther
<1>4. HeaderField(":") /\ ":" \notin Tokens
  BY <1>1, <1>3, Dispatch, SymbolFacts
<1>5. /\ parser' = [parser EXCEPT !.state = "s_header_value_start"]
      /\ header' = SetField(header, name)
  BY <1>1, <1>4 DEF HeaderField
<1>6. /\ State' = "s_header_value_start" /\ SameParser
      /\ parser'.headerState = parser.headerState
  BY <1>3, <1>5 DEF ParserType, SameParser, SameMessage, State
<1>7. /\ header'.nameIs = NameIs(name) /\ header'.ready = header.ready
      /\ header'.url = header.url /\ header'.keepAlive = header.keepAlive
  BY <1>3, <1>5 DEF HeaderType, SetField, NameIs
<1> QED
  BY <1>1, <1>3, <1>6, <1>7, BeforeKept, KnownKept DEF AtValue

(* The end of a value, at the CR.                                          *)
LEMMA ReadValueEnd ==
  ASSUME HeadInv, ReceiveLine, NEW name \in LineNames, Known(name), scan = 0, todo = EOL,
         State = "s_header_value", header.nameIs = NameIs(name), LengthRead,
         name = "connection" => "value" \in marks /\ text = KeepWord,
         parser.headerState # Escape,
         (\/ "F_CHUNKED" \in parser.flags
          \/ parser.headerState = "h_transfer_encoding_chunked") = ref.chunked
  PROVE  AtLineEnd'
<1>1. Head(todo) = "CR" /\ Tail(todo) = <<"LF">>
  BY DEF EOL
<1>2. /\ Execute("CR") /\ todo' = <<"LF">> /\ ref' = ref /\ scan' = 1
      /\ parser \in ParserType /\ header \in HeaderType
  BY <1>1, LineStep DEF ScanStep
<1>3. HeaderValue("CR")
  BY <1>2, Dispatch DEF Known, Started
<1>4. parser' = [parser EXCEPT !.state = "s_header_almost_done"] /\ OnValue
  BY <1>3 DEF HeaderValue, Escape
<1>5. /\ State' = "s_header_almost_done" /\ SameParser
      /\ parser'.headerState = parser.headerState
  BY <1>2, <1>4 DEF ParserType, SameParser, SameMessage, State
<1>6. header'.ready = header.ready /\ header'.url = header.url
  BY <1>2, <1>4 DEF OnValue, SetValue, HeaderType
<1>7. KeepRead'
  <2>1. CASE name = "connection"
    <3>1. header' = SetValue(header, KeepWord) /\ header.nameIs = "kConnection"
      BY <1>4, <2>1 DEF OnValue, NameIs
    <3>2. CASE ref.keep
      <4>1. KeepWord = "keep-alive"
        BY <3>2 DEF KeepWord
      <4> QED
        <5>1. header'.keepAlive = TRUE /\ ref.keep = TRUE
          BY <1>2, <3>1, <3>2, <4>1 DEF SetValue, KeepsAlive, HeaderType, Known
        <5> QED
          BY <1>2, <5>1, Zenon DEF KeepRead
    <3>3. CASE ~ref.keep
      <4>1. KeepWord = "close"
        BY <3>3 DEF KeepWord
      <4>2. header'.keepAlive = FALSE /\ ref.keep = FALSE
        BY <1>2, <3>1, <3>3, <4>1 DEF SetValue, KeepsAlive, Closes, HeaderType, Known
      <4> QED
        BY <1>2, <4>2, Zenon DEF KeepRead
    <3> QED
      BY <3>2, <3>3
  <2>2. CASE name # "connection"
    <3>1. header' = header
      BY <1>4, <2>2 DEF OnValue, NameIs, SetValue
    <3> QED
      BY <1>2, <2>2, <3>1 DEF Known, KeepRead
  <2> QED
    BY <2>1, <2>2
<1>8. Started' /\ LengthRead' /\ header'.url
  BY <1>2, <1>5, <1>6, StartedKept DEF Known, SameParser, LengthRead, ContentLength
<1>9. parser'.flags = parser.flags
  BY <1>5 DEF SameParser, SameMessage
<1> QED
  BY <1>2, <1>5, <1>7, <1>8, <1>9 DEF AtLineEnd

(* The LF behind a value: `chunked' becomes a flag.                        *)
LEMMA ReadLineEnd ==
  ASSUME HeadInv, ReceiveLine, AtLineEnd
  PROVE  (Between /\ AllRead /\ todo = <<>>)'
<1>1. Head(todo) = "LF" /\ Tail(todo) = <<>>
  BY DEF AtLineEnd
<1>2. /\ Execute("LF") /\ todo' = <<>> /\ ref' = ref /\ scan' = 2
      /\ parser \in ParserType /\ header \in HeaderType
  BY <1>1, LineStep DEF ScanStep, AtLineEnd
<1>3. HeaderAlmostDone("LF")
  BY <1>2, Dispatch DEF AtLineEnd, Started
<1>4. parser' = LineEnds("s_header_value_lws") /\ header' = header
  BY <1>3 DEF HeaderAlmostDone, Quiet
<1> DEFINE c == parser.headerState = "h_transfer_encoding_chunked"
<1>5. /\ State' = "s_header_value_lws" /\ parser'.errno = parser.errno
      /\ parser'.left = parser.left /\ parser'.messages = parser.messages
      /\ parser'.method = parser.method /\ parser'.clen = parser.clen
      /\ parser'.flags = IF c THEN parser.flags \cup {"F_CHUNKED"} ELSE parser.flags
  BY <1>2, <1>4 DEF LineEnds, ParserType, State
<1>6. Started' /\ header'.url
  BY <1>4, <1>5 DEF AtLineEnd, Started, Running
<1>7. LengthRead' /\ KeepRead'
  BY <1>2, <1>4, <1>5 DEF AtLineEnd, LengthRead, KeepRead, ContentLength
<1>8. ChunkedRead'
  <2>1. ("F_CHUNKED" \in parser'.flags) = ("F_CHUNKED" \in parser.flags \/ c)
    BY <1>5
  <2> QED
    BY <1>2, <2>1, Zenon DEF AtLineEnd, ChunkedRead
<1> QED
  BY <1>2, <1>5, <1>6, <1>7, <1>8 DEF Between, AllRead

(* Blanks before a value.                                                  *)
LEMMA SkipBlank ==
  ASSUME NEW name \in LineNames, NEW w, Before(name, w), Head(w) \in {"SP", "HT"}
  PROVE  Before(name, Tail(w))
<1>1. w \in Seq(ValueSymbols) /\ w # <<>>
  BY BeforeFacts
<1>2. CASE name = "content-length"
  <2>1. ref.len \in Lengths /\ w \in {Decimal[ref.len], <<"SP">> \o Decimal[ref.len]}
    BY <1>2 DEF Before
  <2>2. Decimal[ref.len] \in Seq(Digits) /\ Decimal[ref.len] # <<>>
        /\ Decimal[ref.len] \in Seq(Symbols)
    BY <2>1, LineFacts
  <2>3. Head(Decimal[ref.len]) \in Digits
    BY <2>2, HeadTailProperties
  <2>4. w = <<"SP">> \o Decimal[ref.len]
    BY <2>1, <2>3, SymbolFacts
  <2>5. Tail(w) = Decimal[ref.len]
    BY <2>2, <2>4, ConsOf, SymbolFacts
  <2> QED
    BY <1>2, <2>1, <2>5 DEF Before
<1>3. CASE name = "connection"
  <2>1. Head(w) = KeepWord
    BY <1>3 DEF Before
  <2> QED
    BY <2>1, WordFacts
<1>4. CASE name = "transfer-encoding"
  <2>1. ref.chunked /\ w \in {<<"chunked">>, <<"SP">> \o <<"chunked">>}
    BY <1>4 DEF Before
  <2>2. w = <<"SP">> \o <<"chunked">>
    BY <2>1, WordFacts
  <2>3. <<"chunked">> \in Seq(ValueSymbols)
    BY WordFacts
  <2>4. Tail(w) = <<"chunked">>
    <3>1. PICK t \in Seq(ValueSymbols) : t = <<"chunked">>
      BY <2>3
    <3>2. Tail(<<"SP">> \o t) = t
      BY ConsOf, WordFacts
    <3> QED
      BY <2>2, <3>1, <3>2, Zenon
  <2> QED
    BY <1>4, <2>1, <2>4 DEF Before
<1>5. CASE name \in {"x", "upgrade"}
  <2>1. /\ w[Len(w)] # "BS"
        /\ \E i \in 1 .. Len(w) : w[i] \notin {"SP", "HT"}
    BY <1>1, <1>5 DEF Before, Plainly
  <2>2. /\ Tail(w) \in Seq(ValueSymbols) /\ Len(Tail(w)) = Len(w) - 1 /\ Len(w) \in Nat
        /\ \A i \in 1 .. Len(w) - 1 : Tail(w)[i] = w[i + 1]
    BY <1>1, HeadTailProperties, LenProperties
  <2>3. PICK i \in 1 .. Len(w) : w[i] \notin {"SP", "HT"}
    BY <2>1
  <2>4. i # 1
    BY <1>1, <2>3
  <2>5. i - 1 \in 1 .. Len(Tail(w)) /\ Tail(w)[i - 1] = w[i]
    BY <2>2, <2>4
  <2>6. Plainly(Tail(w))
    BY <2>1, <2>2, <2>5 DEF Plainly
  <2> QED
    BY <1>5, <2>3, <2>5, <2>6 DEF Before
<1> QED
  BY <1>2, <1>3, <1>4, <1>5 DEF LineNames

(* A space or tab before the value.                                        *)
LEMMA ReadBlank ==
  ASSUME HeadInv, ReceiveLine, NEW name \in LineNames, NEW w, AtValue(name, w),
         Head(w) \in {"SP", "HT"}
  PROVE  AtValue(name, Tail(w))'
<1>1. /\ Known(name) /\ Before(name, w) /\ Running /\ State = "s_header_value_start"
      /\ parser.headerState = KindOf(name) /\ header.nameIs = NameIs(name)
      /\ todo = w \o EOL
  BY DEF AtValue, Known, Started
<1>2. Head(todo) = Head(w) /\ Tail(todo) = Tail(w) \o EOL
  BY <1>1, BeforeFacts, LineFacts, FirstOf
<1>3. /\ Execute(Head(w)) /\ todo' = Tail(w) \o EOL /\ ref' = ref /\ scan' = 0
      /\ parser \in ParserType
  BY <1>2, LineStep, ScanOther
<1>4. HeaderValueStart(Head(w))
  BY <1>1, <1>3, Dispatch
<1>5. Goto("s_header_value_start")
  BY <1>1, <1>4 DEF HeaderValueStart
<1>6. Before(name, Tail(w))
  BY <1>1, SkipBlank
<1> QED
  BY <1>1, <1>3, <1>5, <1>6, GotoKeeps, BeforeKept, KnownKept DEF AtValue

(* The first symbol of a value.                                            *)
LEMMA ValueStart ==
  ASSUME HeadInv, MarkInv, ReceiveLine, NEW name \in LineNames, NEW w, AtValue(name, w),
         Head(w) \notin {"SP", "HT"}
  PROVE  /\ parser' = [ValueBegins(Head(w)) EXCEPT !.state = "s_header_value"]
         /\ header' = header /\ "value" \in marks' /\ text' = Head(w)
         /\ todo' = Tail(w) \o EOL /\ ref' = ref /\ scan' = 0
         /\ parser \in ParserType /\ parser.headerState = KindOf(name)
         /\ header.nameIs = NameIs(name) /\ Known(name) /\ Before(name, w)
<1>1. /\ Known(name) /\ Before(name, w) /\ Running /\ State = "s_header_value_start"
      /\ parser.headerState = KindOf(name) /\ header.nameIs = NameIs(name)
      /\ todo = w \o EOL
  BY DEF AtValue, Known, Started
<1>2. Head(todo) = Head(w) /\ Tail(todo) = Tail(w) \o EOL
  BY <1>1, BeforeFacts, LineFacts, FirstOf
<1>3. Head(w) \notin {"CR", "LF"}
  <2>1. Head(w) \in ValueSymbols
    BY <1>1, BeforeFacts, HeadTailProperties
  <2> QED
    BY <2>1, SymbolFacts
<1>4. /\ Execute(Head(w)) /\ todo' = Tail(w) \o EOL /\ ref' = ref /\ scan' = 0
      /\ parser \in ParserType
  BY <1>2, <1>3, LineStep, ScanOther
<1>5. HeaderValueStart(Head(w))
  BY <1>1, <1>4, Dispatch
<1>6. /\ parser' = [ValueBegins(Head(w)) EXCEPT !.state = "s_header_value"]
      /\ Mark("value", Head(w))
  BY <1>3, <1>5 DEF HeaderValueStart
<1>7. header' = header /\ "value" \in marks' /\ text' = Head(w)
  BY <1>1, <1>6, NoMark DEF Mark
<1> QED
  BY <1>1, <1>4, <1>6, <1>7

(* The first digit of a length.                                            *)
LEMMA ReadFirstDigit ==
  ASSUME HeadInv, MarkInv, ReceiveLine, NEW w, AtValue("content-length", w),
         Head(w) \notin {"SP", "HT"}
  PROVE  InValue("content-length")'
<1>1. "content-length" \in LineNames
  BY DEF LineNames
<1>2. /\ parser' = [ValueBegins(Head(w)) EXCEPT !.state = "s_header_value"]
      /\ header' = header /\ todo' = Tail(w) \o EOL /\ ref' = ref /\ scan' = 0
      /\ parser \in ParserType /\ parser.headerState = "h_content_length"
      /\ header.nameIs = NameIs("content-length")
      /\ Known("content-length") /\ Before("content-length", w)
  BY <1>1, ValueStart DEF KindOf
<1>3. ref.len \in Lengths /\ w \in {Decimal[ref.len], <<"SP">> \o Decimal[ref.len]}
  BY <1>2 DEF Before
<1>4. PICK s : s = Decimal[ref.len]
  OBVIOUS
<1>5. s \in Seq(Digits) /\ s # <<>> /\ s \in Seq(Symbols) /\ ref.len \in Nat
  BY <1>3, <1>4, LineFacts
<1>6. w = s
  BY <1>3, <1>4, <1>5, ConsOf, SymbolFacts
<1>7. PICK v : Reads(s, v, ref.len)
  BY <1>4, <1>5, DecimalReads
<1>8. /\ Head(s) = s[1] /\ s[1] \in Digits /\ 1 \in 1 .. Len(s) /\ Len(s) \in Nat
      /\ Tail(s) = SubSeq(s, 2, Len(s))
  BY <1>5, TailIsSubSeq, ElementOfSeq, LenProperties
<1>9. v[1] = Value[s[1]]
  <2>1. v[1] = 10 * v[1 - 1] + Value[s[1]] /\ v[0] = 0
    BY <1>7, <1>8 DEF Reads
  <2>2. Value[s[1]] \in Nat
    BY <1>8, ValueFacts
  <2> QED
    BY <2>1, <2>2
<1>10. parser' = [parser EXCEPT !.clen = v[1], !.state = "s_header_value"]
  BY <1>2, <1>6, <1>8, <1>9 DEF ValueBegins
<1>11. /\ State' = "s_header_value" /\ SameMessage /\ parser'.clen = v[1]
       /\ parser'.headerState = "h_content_length"
  BY <1>2, <1>10 DEF ParserType, SameMessage, State
<1>12. Known("content-length")'
  <2>1. Started'
    BY <1>2, <1>11, StartedKept DEF Known
  <2>2. KeepRead' /\ ChunkedRead'
    BY <1>2, <1>11 DEF Known, KeepRead, ChunkedRead, SameMessage
  <2> QED
    BY <1>2, <2>1, <2>2 DEF Known
<1>13. todo' = SubSeq(s, 1 + 1, Len(s)) \o EOL
  <2>1. 1 + 1 = 2
    OBVIOUS
  <2> QED
    BY <1>2, <1>6, <1>8, <2>1, Zenon
<1>14. InLength'
  BY <1>2, <1>3, <1>4, <1>7, <1>8, <1>11, <1>13 DEF InLength
<1> QED
  BY <1>2, <1>11, <1>12, <1>14 DEF InValue

(* The word of Connection and of Transfer-Encoding.                        *)
LEMMA ReadWord ==
  ASSUME HeadInv, MarkInv, ReceiveLine, NEW name \in {"connection", "transfer-encoding"},
         NEW w, AtValue(name, w), Head(w) \notin {"SP", "HT"}
  PROVE  InValue(name)'
<1>1. name \in LineNames
  BY DEF LineNames
<1>2. /\ parser' = [ValueBegins(Head(w)) EXCEPT !.state = "s_header_value"]
      /\ header' = header /\ "value" \in marks' /\ text' = Head(w)
      /\ todo' = Tail(w) \o EOL /\ ref' = ref /\ scan' = 0
      /\ parser \in ParserType /\ parser.headerState = KindOf(name)
      /\ header.nameIs = NameIs(name) /\ Known(name) /\ Before(name, w)
  BY <1>1, ValueStart
<1>3. CASE name = "connection"
  <2>1. w = <<KeepWord>>
    BY <1>2, <1>3 DEF Before
  <2>2. Head(w) = KeepWord /\ Tail(w) = <<>> /\ Head(w) # "QT"
    <3>1. Head(w) = KeepWord
      BY <2>1
    <3>2. Tail(w) = <<>>
      BY <2>1
    <3> QED
      BY <3>1, <3>2, WordFacts
  <2>3. parser' = [parser EXCEPT !.headerState = "h_general", !.state = "s_header_value"]
    BY <1>2, <1>3, <2>2 DEF ValueBegins, KindOf
  <2>4. State' = "s_header_value" /\ SameParser /\ parser'.headerState = "h_general"
    BY <1>2, <2>3 DEF ParserType, SameParser, SameMessage, State
  <2>5. todo' = EOL
    BY <1>2, <2>2, LineFacts, ConcatEmptySeq
  <2>6. Known(name)' /\ text' = KeepWord'
    BY <1>2, <2>2, <2>4, KnownKept DEF KeepWord
  <2> QED
    BY <1>2, <1>3, <2>4, <2>5, <2>6 DEF InValue
<1>4. CASE name = "transfer-encoding"
  <2>1. ref.chunked /\ w \in {<<"chunked">>, <<"SP">> \o <<"chunked">>}
    BY <1>2, <1>4 DEF Before
  <2>2. w = <<"chunked">>
    <3>1. <<"chunked">> \in Seq(ValueSymbols)
      BY WordFacts
    <3>2. Head(<<"SP">> \o <<"chunked">>) = "SP"
      BY <3>1, ConsOf, WordFacts
    <3> QED
      BY <2>1, <3>2
  <2>3. Head(w) = "chunked" /\ Tail(w) = <<>>
    BY <2>2
  <2>4. parser' = [parser EXCEPT !.headerState = "h_transfer_encoding_chunked",
                                 !.state = "s_header_value"]
    BY <1>2, <1>4, <2>3 DEF ValueBegins, KindOf
  <2>5. /\ State' = "s_header_value" /\ SameParser
        /\ parser'.headerState = "h_transfer_encoding_chunked"
    BY <1>2, <2>4 DEF ParserType, SameParser, SameMessage, State
  <2>6. todo' = EOL
    BY <1>2, <2>3, LineFacts, ConcatEmptySeq
  <2>7. Known(name)'
    BY <1>2, <2>5, KnownKept
  <2> QED
    BY <1>2, <1>4, <2>1, <2>5, <2>6, <2>7 DEF InValue
<1> QED
  BY <1>3, <1>4

(* The rest of a value that means nothing.                                 *)
LEMMA TailPlainly ==
  ASSUME NEW w, Plainly(w), w # <<>>
  PROVE  /\ Plainly(Tail(w)) /\ Head(w) \in ValueSymbols
         /\ Head(w) = "BS" => Tail(w) # <<>>
<1>1. /\ Tail(w) \in Seq(ValueSymbols) /\ Len(Tail(w)) = Len(w) - 1 /\ Len(w) \in Nat \ {0}
      /\ \A i \in 1 .. Len(w) - 1 : Tail(w)[i] = w[i + 1]
      /\ Head(w) \in ValueSymbols /\ Head(w) = w[1] /\ w[Len(w)] # "BS"
  BY HeadTailProperties, EmptySeq DEF Plainly
<1>2. Tail(w) # <<>> => Tail(w)[Len(Tail(w))] = w[Len(w)]
  <2> SUFFICES ASSUME Tail(w) # <<>> PROVE Tail(w)[Len(Tail(w))] = w[Len(w)]
    OBVIOUS
  <2>1. Len(Tail(w)) \in Nat \ {0}
    BY <1>1, EmptySeq
  <2>2. Len(w) - 1 \in 1 .. Len(w) - 1 /\ Len(w) - 1 + 1 = Len(w)
    BY <1>1, <2>1
  <2> QED
    BY <1>1, <2>2
<1>3. Head(w) = "BS" => Len(w) # 1
  BY <1>1
<1>4. Head(w) = "BS" => Len(Tail(w)) # 0
  BY <1>1, <1>3
<1> QED
  BY <1>1, <1>2, <1>4, EmptySeq DEF Plainly

(* The first symbol of a value that means nothing.                         *)
LEMMA ReadOtherStart ==
  ASSUME HeadInv, MarkInv, ReceiveLine, NEW name \in {"x", "upgrade"},
         NEW w, AtValue(name, w), Head(w) \notin {"SP", "HT"}
  PROVE  InValue(name)'
<1>1. name \in LineNames
  BY DEF LineNames
<1>2. /\ parser' = [ValueBegins(Head(w)) EXCEPT !.state = "s_header_value"]
      /\ header' = header /\ todo' = Tail(w) \o EOL /\ ref' = ref /\ scan' = 0
      /\ parser \in ParserType /\ parser.headerState = KindOf(name)
      /\ header.nameIs = NameIs(name) /\ Known(name) /\ Before(name, w)
  BY <1>1, ValueStart
<1>3. Plainly(w) /\ w # <<>>
  BY <1>1, <1>2, BeforeFacts DEF Before
<1>4. /\ State' = "s_header_value" /\ parser'.errno = parser.errno
      /\ parser'.left = parser.left /\ parser'.messages = parser.messages
      /\ parser'.method = parser.method /\ parser'.clen = parser.clen
      /\ parser'.flags \in {parser.flags, parser.flags \cup {"F_UPGRADE"}}
      /\ parser'.headerState \in {"h_general", "h_general_and_quote"}
  <2>1. CASE name = "x"
    <3>1. parser' = [parser EXCEPT !.headerState = IF Head(w) = "QT" THEN "h_general_and_quote"
                                                   ELSE "h_general",
                                   !.state = "s_header_value"]
      BY <1>2, <2>1 DEF ValueBegins, KindOf
    <3> QED
      BY <1>2, <3>1 DEF ParserType, State
  <2>2. CASE name = "upgrade"
    <3>1. parser' = [parser EXCEPT !.flags = parser.flags \cup {"F_UPGRADE"},
                                   !.headerState = "h_general", !.state = "s_header_value"]
      BY <1>2, <2>2 DEF ValueBegins, KindOf
    <3> QED
      BY <1>2, <3>1 DEF ParserType, State
  <2> QED
    BY <2>1, <2>2
<1>5. Known(name)'
  <2>1. Started' /\ header'.url
    BY <1>2, <1>4 DEF Known, Started, Running
  <2>2. LengthRead' /\ KeepRead'
    BY <1>2, <1>4 DEF Known, LengthRead, KeepRead, ContentLength
  <2>3. ("F_CHUNKED" \in parser'.flags) = ("F_CHUNKED" \in parser.flags)
    BY <1>4
  <2>4. ChunkedRead'
    BY <1>2, <2>3 DEF Known, ChunkedRead
  <2> QED
    BY <1>2, <2>1, <2>2, <2>4 DEF Known
<1>6. InOther'
  BY <1>2, <1>3, <1>4, TailPlainly DEF InOther, Escape
<1> QED
  BY <1>2, <1>4, <1>5, <1>6 DEF InValue

(* A further symbol of a value.                                            *)
LEMMA ReadDigit ==
  ASSUME HeadInv, ReceiveLine, InValue("content-length")
  PROVE  InValue("content-length")' \/ AtLineEnd'
<1>1. /\ Known("content-length") /\ scan = 0 /\ State = "s_header_value"
      /\ header.nameIs = NameIs("content-length") /\ ref.len \in Lengths /\ Running
      /\ parser.headerState = "h_content_length" /\ InLength
  BY DEF InValue, InLength, Known, Started
<1>2. PICK s : s = Decimal[ref.len]
  OBVIOUS
<1>3. PICK v : \E i \in 1 .. Len(s) : /\ Reads(s, v, ref.len) /\ parser.clen = v[i]
                                      /\ todo = SubSeq(s, i + 1, Len(s)) \o EOL
  BY <1>1, <1>2 DEF InLength
<1>4. PICK i \in 1 .. Len(s) : /\ Reads(s, v, ref.len) /\ parser.clen = v[i]
                               /\ todo = SubSeq(s, i + 1, Len(s)) \o EOL
  BY <1>3
<1>5. /\ s \in Seq(Digits) /\ s \in Seq(Symbols) /\ Len(s) \in Nat /\ ref.len \in Nat
      /\ EOL \in Seq(Symbols)
  BY <1>1, <1>2, LineFacts, LenProperties
<1>6. CASE i = Len(s)
  <2>1. todo = EOL
    <3>1. SubSeq(s, i + 1, Len(s)) = <<>>
      BY <1>5, <1>6, SubSeqEmpty
    <3> QED
      BY <1>4, <1>5, <3>1, ConcatEmptySeq
  <2>2. LengthRead
    BY <1>4, <1>5, <1>6 DEF Reads, LengthRead, ContentLength
  <2>3. /\ parser.headerState # Escape
        /\ parser.headerState # "h_transfer_encoding_chunked"
    BY <1>1 DEF Escape
  <2>4. (\/ "F_CHUNKED" \in parser.flags
         \/ parser.headerState = "h_transfer_encoding_chunked") = ref.chunked
    BY <1>1, <2>3 DEF Known, ChunkedRead
  <2> QED
    BY <1>1, <2>1, <2>2, <2>3, <2>4, ReadValueEnd DEF LineNames
<1>7. CASE i < Len(s)
  <2>1. PICK j \in 1 .. Len(s) : j = i + 1 /\ Len(s) \in j .. Len(s)
    BY <1>5, <1>7
  <2>2. PICK ch \in Digits : ch = s[j]
    BY <1>5, ElementOfSeq
  <2>3. PICK t \in Seq(Symbols) : t = SubSeq(s, j, Len(s))
    <3>1. \A k \in j .. Len(s) : s[k] \in Symbols
      BY <1>5, <2>1, ElementOfSeq
    <3>2. j \in Int /\ Len(s) \in Int
      BY <1>5, <2>1
    <3>3. SubSeq(s, j, Len(s)) \in Seq(Symbols)
      BY <3>1, <3>2, SubSeqProperties
    <3> QED
      BY <3>3
  <2>4. t # <<>> /\ Head(t) = ch /\ Tail(t) = SubSeq(s, j + 1, Len(s))
    <3>1. Head(t) = ch /\ Tail(t) = SubSeq(s, j + 1, Len(s))
      BY <1>5, <2>1, <2>2, <2>3, HeadTailOfSubSeq
    <3>2. \A k \in j .. Len(s) : s[k] \in Symbols
      BY <1>5, <2>1, ElementOfSeq
    <3>3. Len(t) = Len(s) - j + 1
      BY <1>5, <2>1, <2>3, <3>2, SubSeqProperties
    <3> QED
      BY <1>5, <2>1, <3>1, <3>3
  <2>5. Head(todo) = ch /\ Tail(todo) = SubSeq(s, j + 1, Len(s)) \o EOL
    <3>1. todo = t \o EOL
      BY <1>4, <2>1, <2>3
    <3>2. t \in Seq(Symbols) /\ EOL \in Seq(Symbols) /\ t # <<>>
      BY <1>5, <2>4
    <3>3. Head(t \o EOL) = Head(t) /\ Tail(t \o EOL) = Tail(t) \o EOL
      BY <3>2, FirstOf
    <3> QED
      BY <2>4, <3>1, <3>3
  <2>6. ch \notin {"CR", "LF", "NUL", "SP"}
    BY SymbolFacts
  <2>7. /\ Execute(ch) /\ todo' = SubSeq(s, j + 1, Len(s)) \o EOL /\ ref' = ref
        /\ scan' = 0 /\ parser \in ParserType
    BY <2>5, <2>6, LineStep, ScanOther
  <2>8. HeaderValue(ch)
    BY <1>1, <2>7, Dispatch
  <2>9. parser' = LengthDigit(Value[ch]) /\ header' = header
    BY <1>1, <2>2, <2>6, <2>8 DEF HeaderValue, ValueGoesOn
  <2>10. /\ v[j] = 10 * v[i] + Value[ch] /\ v[i] <= ref.len \div 10 /\ v[i] \in Nat
    <3>1. j - 1 = i /\ i \in 0 .. Len(s)
      BY <1>5, <2>1
    <3>2. v[j] = 10 * v[j - 1] + Value[s[j]] /\ v[j - 1] <= ref.len \div 10
          /\ v \in [0 .. Len(s) -> Nat]
      BY <1>4, <2>1 DEF Reads
    <3> QED
      BY <2>2, <3>1, <3>2
  <2>11. ref.len \div 10 <= (MaxLength - 10) \div 10 /\ ref.len \div 10 \in Nat
    BY <1>1, <1>5, HeadLengths
  <2>12. (MaxLength - 10) \div 10 \in Int
    BY ParserBounds
  <2>13. ~(parser.clen > (MaxLength - 10) \div 10)
    BY <1>4, <2>10, <2>11, <2>12
  <2>14. parser' = [parser EXCEPT !.clen = parser.clen * 10 + Value[ch]]
    BY <2>9, <2>13 DEF LengthDigit
  <2>15. parser.clen * 10 + Value[ch] = v[j]
    <3>1. Value[ch] \in Nat
      BY ValueFacts
    <3> QED
      BY <1>4, <2>10, <3>1
  <2>16. /\ State' = "s_header_value" /\ SameMessage /\ parser'.clen = v[j]
         /\ parser'.headerState = "h_content_length"
    BY <1>1, <2>7, <2>14, <2>15 DEF ParserType, SameMessage, State
  <2>17. Known("content-length")'
    <3>1. Started'
      BY <1>1, <2>9, <2>16, StartedKept DEF Known
    <3>2. KeepRead' /\ ChunkedRead'
      BY <1>1, <2>7, <2>9, <2>16 DEF Known, KeepRead, ChunkedRead, SameMessage
    <3> QED
      BY <1>1, <2>7, <2>9, <3>1, <3>2 DEF Known
  <2>18. InLength'
    BY <1>1, <1>2, <1>4, <2>1, <2>7, <2>16 DEF InLength
  <2> QED
    BY <1>1, <2>7, <2>9, <2>16, <2>17, <2>18 DEF InValue
<1> QED
  BY <1>5, <1>6, <1>7

(* The CR behind a word.                                                   *)
LEMMA ReadWordEnd ==
  ASSUME HeadInv, ReceiveLine, NEW name \in {"connection", "transfer-encoding"},
         InValue(name)
  PROVE  AtLineEnd'
<1>1. /\ Known(name) /\ scan = 0 /\ State = "s_header_value" /\ todo = EOL
      /\ header.nameIs = NameIs(name) /\ parser.headerState # Escape
      /\ name = "connection" => "value" \in marks /\ text = KeepWord
      /\ LengthRead /\ name \in LineNames
  BY DEF InValue, Escape, Known, LineNames
<1>2. (\/ "F_CHUNKED" \in parser.flags
       \/ parser.headerState = "h_transfer_encoding_chunked") = ref.chunked
  <2>1. CASE name = "connection"
    BY <1>1, <2>1 DEF InValue, Known, ChunkedRead
  <2>2. CASE name = "transfer-encoding"
    BY <1>1, <2>2 DEF InValue, Known
  <2> QED
    BY <2>1, <2>2
<1> QED
  BY <1>1, <1>2, ReadValueEnd

(* A further symbol of a value that means nothing, or its CR.              *)
LEMMA ReadOther ==
  ASSUME HeadInv, ReceiveLine, NEW name \in {"x", "upgrade"}, InValue(name)
  PROVE  InValue(name)' \/ AtLineEnd'
<1>1. /\ Known(name) /\ scan = 0 /\ State = "s_header_value" /\ Running
      /\ header.nameIs = NameIs(name) /\ InOther /\ name \in LineNames
      /\ parser.headerState \in {"h_general", "h_general_and_quote", Escape}
  BY DEF InValue, InOther, Known, Started, LineNames
<1>2. PICK w : /\ Plainly(w) /\ (parser.headerState = Escape => w # <<>>)
               /\ todo = w \o EOL
  BY <1>1 DEF InOther
<1>3. w \in Seq(ValueSymbols) /\ w \in Seq(Symbols) /\ EOL \in Seq(Symbols)
  BY <1>2, LineFacts, SymbolFacts, SeqMonotonic DEF Plainly
<1>4. CASE w = <<>>
  <2>1. todo = EOL /\ parser.headerState # Escape
    BY <1>2, <1>3, <1>4, ConcatEmptySeq
  <2>2. parser.headerState # "h_transfer_encoding_chunked" /\ LengthRead
        /\ name # "connection"
    BY <1>1 DEF Known, Escape
  <2>3. (\/ "F_CHUNKED" \in parser.flags
         \/ parser.headerState = "h_transfer_encoding_chunked") = ref.chunked
    BY <1>1, <2>2 DEF Known, ChunkedRead
  <2> QED
    BY <1>1, <2>1, <2>2, <2>3, ReadValueEnd
<1>5. CASE w # <<>>
  <2>1. PICK ch \in ValueSymbols : ch = Head(w)
    BY <1>2, <1>5, TailPlainly
  <2>2. /\ Head(todo) = ch /\ Tail(todo) = Tail(w) \o EOL
        /\ ch \notin {"CR", "LF", "NUL"}
    BY <1>2, <1>3, <1>5, <2>1, FirstOf, SymbolFacts
  <2>3. /\ Execute(ch) /\ todo' = Tail(w) \o EOL /\ ref' = ref /\ scan' = 0
        /\ parser \in ParserType
    BY <2>2, LineStep, ScanOther
  <2>4. HeaderValue(ch)
    BY <1>1, <2>3, Dispatch
  <2>5. parser' = ValueGoesOn(ch) /\ header' = header
    BY <2>2, <2>4 DEF HeaderValue
  <2>6. PICK k \in {"h_general", "h_general_and_quote", Escape} :
            /\ parser' = [parser EXCEPT !.headerState = k]
            /\ k = Escape => ch = "BS"
    <3>1. parser = [parser EXCEPT !.headerState = parser.headerState]
      BY <2>3 DEF ParserType
    <3>2. CASE parser.headerState = Escape
      BY <2>5, <3>2 DEF ValueGoesOn, Escape
    <3>3. CASE parser.headerState = "h_general"
      BY <2>5, <3>3 DEF ValueGoesOn, Escape
    <3>4. CASE parser.headerState = "h_general_and_quote"
      BY <2>5, <3>1, <3>4 DEF ValueGoesOn, Escape
    <3> QED
      BY <1>1, <3>2, <3>3, <3>4
  <2>7. /\ State' = "s_header_value" /\ SameParser /\ parser'.headerState = k
    BY <1>1, <2>3, <2>6 DEF ParserType, SameParser, SameMessage, State
  <2>8. Known(name)'
    BY <1>1, <2>3, <2>5, <2>7, KnownKept
  <2>9. InOther'
    BY <1>2, <1>5, <2>1, <2>3, <2>6, <2>7, TailPlainly DEF InOther
  <2> QED
    BY <1>1, <2>3, <2>5, <2>7, <2>8, <2>9 DEF InValue
<1> QED
  BY <1>4, <1>5

-----------------------------------------------------------------------------
(* The end of the header.                                                  *)
LEMMA ReadBlankLine ==
  ASSUME HeadInv, ReceiveLine, InBlankLine
  PROVE  InBlankLine' \/ (Understood /\ todo = <<>> /\ scan = 4)'
<1>1. Started /\ AllRead /\ header.url /\ Running
  BY DEF InBlankLine, Started
<1>2. CASE /\ State \in {"s_header_field_start", "s_header_value_lws"}
           /\ scan = 2 /\ todo = EOL
  <2>1. Head(todo) = "CR" /\ Tail(todo) = <<"LF">>
    BY <1>2 DEF EOL
  <2>2. /\ Execute("CR") /\ todo' = <<"LF">> /\ ref' = ref /\ scan' = 3
        /\ parser \in ParserType
    BY <1>2, <2>1, LineStep DEF ScanStep
  <2>3. FieldStart("CR")
    <3>1. State = "s_header_field_start" => FieldStart("CR")
      BY <1>1, <2>2, Dispatch DEF HeaderFieldStart
    <3>2. State = "s_header_value_lws" => FieldStart("CR")
      BY <1>1, <2>2, Dispatch DEF HeaderValueLws
    <3> QED
      BY <1>2, <3>1, <3>2
  <2>4. Goto("s_headers_almost_done")
    BY <2>3, SymbolFacts DEF FieldStart
  <2>5. Started' /\ AllRead' /\ header'.url /\ State' = "s_headers_almost_done"
    BY <1>1, <2>2, <2>4, GotoKeeps, StartedKept, ReadKept DEF SameParser
  <2> QED
    BY <2>2, <2>5 DEF InBlankLine
<1>3. CASE State = "s_headers_almost_done" /\ scan = 3 /\ todo = <<"LF">>
  <2>1. Head(todo) = "LF" /\ Tail(todo) = <<>>
    BY <1>3
  <2>2. /\ Execute("LF") /\ todo' = <<>> /\ ref' = ref /\ scan' = 4
        /\ parser \in ParserType
    BY <1>3, <2>1, LineStep DEF ScanStep
  <2>3. parser' = HeadersEnd(parser) /\ header' = header
    BY <1>1, <1>3, <2>2, Dispatch DEF HeadersAlmostDone, Quiet
  <2> DEFINE upgrade == "F_UPGRADE" \in parser.flags \/ parser.method = "CONNECT"
             hasBody == "F_CHUNKED" \in parser.flags \/ parser.clen > 0
             leaves == upgrade /\ (parser.method = "CONNECT" \/ ~hasBody)
             s == CASE leaves \/ ~hasBody -> "s_pre_start_req"
                    [] ~leaves /\ "F_CHUNKED" \in parser.flags -> "s_chunk_size_start"
                    [] OTHER -> "s_body_identity"
  <2>4. "F_TRAILING" \notin parser.flags /\ parser.method # "CONNECT"
    BY <1>1 DEF Started
  <2>5. parser' = [parser EXCEPT !.upgrade = upgrade, !.left = leaves, !.state = s]
    BY <2>3, <2>4, Zenon DEF HeadersEnd
  <2>6. parser'.state = s /\ parser'.errno = "OK" /\ parser'.messages = 1
        /\ parser'.clen = parser.clen /\ parser'.flags = parser.flags
    BY <1>1, <2>2, <2>5 DEF ParserType, Started, Running
  <2>7. AllRead'
    BY <1>1, <2>2, <2>3, <2>6 DEF AllRead, LengthRead, KeepRead, ChunkedRead, ContentLength
  <2>8. s = IF ref.chunked THEN "s_chunk_size_start"
            ELSE IF ref.len > 0 THEN "s_body_identity" ELSE "s_pre_start_req"
    <3>1. ("F_CHUNKED" \in parser.flags) = ref.chunked /\ ref.len = ContentLength(parser.clen)
      BY <1>1 DEF AllRead, LengthRead, ChunkedRead
    <3>2. parser.clen \in Int
      BY <2>2, ParserBounds DEF ParserType
    <3>3. (ref.len > 0) = (parser.clen > 0)
      BY <3>1, <3>2 DEF ContentLength
    <3>4. leaves => ~hasBody
      BY <2>4
    <3> QED
      BY <3>1, <3>3, <3>4
  <2>9. Understood'
    BY <1>1, <2>2, <2>3, <2>6, <2>7, <2>8 DEF Understood
  <2> QED
    BY <2>2, <2>9
<1> QED
  BY <1>2, <1>3 DEF InBlankLine

(* One symbol of a line.                                                   *)
LEMMA RequestLineReadStep ==
  ASSUME HeadInv, ReceiveLine, RequestLineInv
  PROVE  RequestLineInv' \/ (Between /\ AllRead /\ todo = <<>>)'
<1>1. CASE AtRequest \/ AtMethod \/ AtUrl \/ InUrl
  <2>1. 1 \in 1 .. 10
    OBVIOUS
  <2> QED
    BY <1>1, <2>1, ReadMethod, ReadSpace, ReadUrlStart, ReadUrl DEF RequestLineInv
<1>2. ASSUME NEW i \in 1 .. 10, InVersion(i)
      PROVE  RequestLineInv' \/ (Between /\ AllRead /\ todo = <<>>)'
  <2>1. i < 10 => i + 1 \in 1 .. 10
    OBVIOUS
  <2> QED
    BY <1>2, <2>1, ReadVersion DEF RequestLineInv
<1> QED
  BY <1>1, <1>2 DEF RequestLineInv

(* Every symbol of a header line.                                          *)
LEMMA HeaderLineReadStep ==
  ASSUME HeadInv, MarkInv, ReceiveLine, HeaderLineInv
  PROVE  HeaderLineInv' \/ (Between /\ AllRead /\ todo = <<>>)'
<1>1. CASE AtLineEnd
  BY <1>1, ReadLineEnd
<1>2. ASSUME NEW name \in LineNames, InValue(name)
      PROVE  HeaderLineInv'
  <2>1. name = "content-length" => InValue(name)' \/ AtLineEnd'
    BY <1>2, ReadDigit
  <2>2. name \in {"connection", "transfer-encoding"} => AtLineEnd'
    BY <1>2, ReadWordEnd
  <2>3. name \in {"x", "upgrade"} => InValue(name)' \/ AtLineEnd'
    BY <1>2, ReadOther
  <2> QED
    BY <2>1, <2>2, <2>3 DEF LineNames, HeaderLineInv
<1>3. ASSUME NEW name \in LineNames, NEW w, AtValue(name, w)
      PROVE  HeaderLineInv'
  <2>1. Head(w) \in {"SP", "HT"} => AtValue(name, Tail(w))'
    BY <1>3, ReadBlank
  <2>2. Head(w) \notin {"SP", "HT"} => InValue(name)'
    BY <1>3, ReadFirstDigit, ReadWord, ReadOtherStart DEF LineNames
  <2> QED
    BY <2>1, <2>2 DEF HeaderLineInv
<1>4. ASSUME NEW name \in LineNames, NEW w, AtName(name, w) \/ InName(name, w)
      PROVE  HeaderLineInv'
  BY <1>4, ReadName, ReadColon DEF HeaderLineInv
<1> QED
  BY <1>1, <1>2, <1>3, <1>4 DEF HeaderLineInv

(* A symbol of the line the client has written is read.                    *)
LEMMA ReadLine ==
  ASSUME HeadInv, MarkInv, ReadInv, ReceiveLine
  PROVE  ReadInv'
<1>1. ref' = ref /\ todo # <<>>
  BY DEF ReceiveLine
<1>2. CASE ref.line = "free"
  BY <1>1, <1>2 DEF ReadInv
<1>3. CASE ref.line = "headers" /\ RequestLineInv
  BY <1>1, <1>3, RequestLineReadStep DEF ReadInv
<1>4. CASE ref.line = "headers" /\ HeaderLineInv
  BY <1>1, <1>4, HeaderLineReadStep DEF ReadInv
<1>5. CASE ref.line = "end" /\ InBlankLine
  BY <1>1, <1>5, ReadBlankLine DEF ReadInv
<1> QED
  BY <1>1, <1>2, <1>3, <1>4, <1>5 DEF ReadInv

-----------------------------------------------------------------------------
(* The lines as the client writes them.                                    *)
RefOK == ref \in [line : {"request", "headers", "end", "free"}, len : Nat,
                  keep : BOOLEAN, chunked : BOOLEAN]

(* A line is not empty.                                                    *)
LEMMA NotEmpty ==
  ASSUME NEW w \in Seq(Symbols), NEW t \in Seq(Symbols), t # <<>>
  PROVE  w \o t # <<>>
BY ConcatEqualIffEmpty

(* Concatenation associates; as Cat it is not expanded by the provers.     *)
Texts == Seq(Symbols)
Cat(s, t) == s \o t

(* Three texts in a row.                                                   *)
LEMMA CatThree ==
  \A a, b, c \in Texts :
      Cat(a, b) \in Texts /\ Cat(Cat(a, b), c) = Cat(a, Cat(b, c))
<1>1. TAKE a, b, c \in Texts
<1>2. Cat(a, b) \in Texts
  BY ConcatProperties DEF Cat, Texts
<1>3. Cat(Cat(a, b), c) = Cat(a, Cat(b, c))
  BY ConcatAssociative DEF Cat, Texts
<1> QED
  BY <1>2, <1>3

(* Four texts in a row.                                                    *)
LEMMA CatFour ==
  \A a, b, c, d \in Texts :
      Cat(Cat(Cat(a, b), c), d) = Cat(a, Cat(b, Cat(c, d)))
<1>1. TAKE a, b, c, d \in Texts
<1>2. Cat(a, b) \in Texts /\ Cat(c, d) \in Texts
  BY CatThree
<1>3. Cat(Cat(Cat(a, b), c), d) = Cat(Cat(a, b), Cat(c, d))
  BY <1>2, CatThree
<1>4. Cat(Cat(a, b), Cat(c, d)) = Cat(a, Cat(b, Cat(c, d)))
  BY <1>2, CatThree
<1> QED
  BY <1>3, <1>4

(* Five texts in a row.                                                    *)
LEMMA CatFive ==
  \A a, b, c, d, e \in Texts :
      Cat(Cat(Cat(Cat(a, b), c), d), e) = Cat(a, Cat(b, Cat(c, Cat(d, e))))
<1>1. TAKE a, b, c, d, e \in Texts
<1>2. Cat(a, b) \in Texts /\ Cat(d, e) \in Texts
  BY CatThree
<1>3. Cat(c, Cat(d, e)) \in Texts
  BY <1>2, CatThree
<1>4. Cat(Cat(Cat(Cat(a, b), c), d), e) = Cat(Cat(a, b), Cat(c, Cat(d, e)))
  BY <1>2, CatFour
<1>5. Cat(Cat(a, b), Cat(c, Cat(d, e))) = Cat(a, Cat(b, Cat(c, Cat(d, e))))
  BY <1>3, CatThree
<1> QED
  BY <1>4, <1>5

(* Inside a line something is left to be read.                             *)
LEMMA InsideLine ==
  ASSUME RequestLineInv \/ HeaderLineInv \/ InBlankLine
  PROVE  todo # <<>>
<1>0. /\ EOL \in Seq(Symbols) /\ EOL # <<>>
      /\ VersionLine \in Seq(Symbols) /\ VersionLine # <<>> /\ Len(VersionLine) = 11
  BY LineFacts DEF EOL, VersionLine
<1>1. CASE AtRequest \/ AtMethod \/ AtUrl
  <2>1. PICK u \in Urls : \/ todo = <<"GET">> \o (<<"SP">> \o (u \o VersionLine))
                          \/ todo = <<"SP">> \o (u \o VersionLine)
                          \/ todo = u \o VersionLine
    BY <1>1 DEF AtRequest, AtMethod, AtUrl
  <2>2. u \o VersionLine \in Seq(Symbols) /\ u \o VersionLine # <<>>
    BY <1>0, LineFacts, FirstOf
  <2>3. /\ <<"SP">> \o (u \o VersionLine) \in Seq(Symbols)
        /\ <<"SP">> \o (u \o VersionLine) # <<>>
    BY <2>2, SymbolFacts, ConsOf
  <2>4. <<"GET">> \o (<<"SP">> \o (u \o VersionLine)) # <<>>
    BY <2>3, SymbolFacts, ConsOf
  <2> QED
    BY <2>1, <2>2, <2>3, <2>4
<1>2. CASE InUrl
  <2>1. PICK w \in Seq(UrlSymbols) : todo = w \o VersionLine
    BY <1>2 DEF InUrl
  <2>2. w \in Seq(Symbols)
    BY SymbolFacts, SeqMonotonic
  <2> QED
    BY <1>0, <2>1, <2>2, NotEmpty
<1>3. ASSUME NEW i \in 1 .. 10, InVersion(i) PROVE todo # <<>>
  <2>1. todo = SubSeq(VersionLine, i + 1, 11) /\ i + 1 \in Int /\ 11 \in Int
    BY <1>3 DEF InVersion
  <2>2. \A k \in i + 1 .. 11 : VersionLine[k] \in Symbols
    <3>1. PICK s \in Seq(Symbols) : s = VersionLine /\ Len(s) = 11
      BY <1>0
    <3>2. \A k \in 1 .. 11 : s[k] \in Symbols
      BY <3>1, ElementOfSeq
    <3> QED
      BY <3>1, <3>2
  <2>3. Len(todo) = IF i + 1 <= 11 THEN 11 - (i + 1) + 1 ELSE 0
    BY <2>1, <2>2, SubSeqProperties
  <2> QED
    BY <2>3
<1>4. ASSUME NEW name \in LineNames, NEW w,
             AtName(name, w) \/ InName(name, w) \/ AtValue(name, w)
      PROVE  todo # <<>>
  <2>1. w \in Seq(Symbols) /\ w # <<>> /\ name \in Symbols /\ ":" \in Symbols
    BY <1>4, BeforeFacts, SymbolFacts DEF AtName, InName, AtValue
  <2>2. w \o EOL \in Seq(Symbols) /\ w \o EOL # <<>>
    BY <1>0, <2>1, FirstOf
  <2>3. <<":">> \o (w \o EOL) \in Seq(Symbols) /\ <<":">> \o (w \o EOL) # <<>>
    BY <2>1, <2>2, ConsOf
  <2>4. <<name>> \o (<<":">> \o (w \o EOL)) # <<>>
    BY <2>1, <2>3, ConsOf
  <2> QED
    BY <1>4, <2>2, <2>3, <2>4 DEF AtName, InName, AtValue
<1>5. ASSUME NEW name \in LineNames, InValue(name) PROVE todo # <<>>
  <2>1. CASE InLength
    <3>1. PICK s \in Seq(Symbols) : s = Decimal[ref.len]
      BY <2>1, LineFacts DEF InLength
    <3>2. PICK i \in 1 .. Len(s) : todo = SubSeq(s, i + 1, Len(s)) \o EOL
      BY <2>1, <3>1 DEF InLength
    <3>3. \A k \in i + 1 .. Len(s) : s[k] \in Symbols
      BY <3>1, ElementOfSeq
    <3>4. i + 1 \in Int /\ Len(s) \in Int
      BY <3>1, LenProperties
    <3>5. SubSeq(s, i + 1, Len(s)) \in Seq(Symbols)
      BY <3>3, <3>4, SubSeqProperties
    <3> QED
      BY <1>0, <3>2, <3>5, NotEmpty
  <2>2. CASE InOther
    <3>1. PICK w : Plainly(w) /\ todo = w \o EOL
      BY <2>2 DEF InOther
    <3>2. w \in Seq(Symbols)
      BY <3>1, SymbolFacts, SeqMonotonic DEF Plainly
    <3> QED
      BY <1>0, <3>1, <3>2, NotEmpty
  <2>3. CASE todo = EOL
    BY <1>0, <2>3
  <2> QED
    BY <1>5, <2>1, <2>2, <2>3 DEF InValue
<1>6. CASE AtLineEnd \/ InBlankLine
  <2>1. <<"LF">> # <<>>
    OBVIOUS
  <2>2. todo = EOL \/ todo = <<"LF">>
    BY <1>6 DEF AtLineEnd, InBlankLine
  <2> QED
    BY <1>0, <2>1, <2>2, Zenon
<1> QED
  BY <1>1, <1>2, <1>3, <1>4, <1>5, <1>6 DEF RequestLineInv, HeaderLineInv

(* A header line, split at its name and its colon.                         *)
LEMMA NameLine ==
  ASSUME NEW name \in Symbols, NEW w \in Seq(Symbols)
  PROVE  (<<name, ":">> \o w) \o <<"CR", "LF">> = <<name>> \o (<<":">> \o (w \o EOL))
<1>1. /\ <<name>> \in Seq(Symbols) /\ <<":">> \in Seq(Symbols)
      /\ <<name, ":">> = <<name>> \o <<":">> /\ EOL \in Seq(Symbols)
  BY LineFacts, SymbolFacts
<1>2. PICK a \in Seq(Symbols), b \in Seq(Symbols), e \in Seq(Symbols) :
          a = <<name>> /\ b = <<":">> /\ e = EOL
  BY <1>1
<1>3. a \in Texts /\ b \in Texts /\ w \in Texts /\ e \in Texts
  BY DEF Texts
<1>4. Cat(Cat(Cat(a, b), w), e) = Cat(a, Cat(b, Cat(w, e)))
  BY <1>3, CatFour
<1> QED
  BY <1>1, <1>2, <1>4, Zenon DEF EOL, Cat

(* Name, colon and space, split before the space.                          *)
LEMMA ThreeSymbols ==
  ASSUME NEW x \in Symbols, NEW y \in Symbols, NEW z \in Symbols, NEW w \in Seq(Symbols)
  PROVE  <<x, y, z>> \o w = <<x, y>> \o (<<z>> \o w)
<1>1. PICK a : a = <<x, y>>
  OBVIOUS
<1>2. PICK b : b = <<z>>
  OBVIOUS
<1>3. PICK d : d = <<x, y, z>>
  OBVIOUS
<1>4. a \in Seq(Symbols) /\ Len(a) = 2 /\ a[1] = x /\ a[2] = y
  BY <1>1
<1>5. b \in Seq(Symbols) /\ Len(b) = 1 /\ b[1] = z
  BY <1>2
<1>6. d \in Seq(Symbols) /\ Len(d) = 3 /\ d[1] = x /\ d[2] = y /\ d[3] = z
  BY <1>3
<1>7. PICK ab : ab = a \o b
  OBVIOUS
<1>8. /\ ab \in Seq(Symbols) /\ Len(ab) = Len(a) + Len(b)
      /\ \A i \in 1 .. Len(a) + Len(b) : ab[i] = IF i <= Len(a) THEN a[i] ELSE b[i - Len(a)]
  BY <1>4, <1>5, <1>7, ConcatProperties
<1>9. Len(ab) = 3 /\ ab[1] = x /\ ab[2] = y /\ ab[3] = z
  BY <1>4, <1>5, <1>8
<1>10. \A i \in 1 .. Len(ab) : ab[i] = d[i]
  BY <1>6, <1>9
<1>11. ab = d
  BY <1>6, <1>8, <1>9, <1>10, SeqEqual
<1>12. a \in Texts /\ b \in Texts /\ w \in Texts
  BY <1>4, <1>5 DEF Texts
<1>13. Cat(Cat(a, b), w) = Cat(a, Cat(b, w))
  BY <1>12, CatThree
<1> QED
  BY <1>1, <1>2, <1>3, <1>7, <1>11, <1>13, Zenon DEF Cat

(* A header line is written.                                               *)
LEMMA WriteLine ==
  ASSUME Between, AllRead, UNCHANGED <<parserVars, scan>>,
         ref'.line = "headers", ref'.keep \in BOOLEAN, ref'.chunked \in BOOLEAN,
         NEW name \in LineNames, NEW w,
         name # "content-length" => ref'.len = ref.len,
         name # "connection" => ref'.keep = ref.keep,
         name # "transfer-encoding" => ref'.chunked = ref.chunked,
         Before(name, w)', todo' = (<<name, ":">> \o w) \o <<"CR", "LF">>,
         w \in Seq(Symbols)
  PROVE  ReadInv'
<1>1. todo' = <<name>> \o (<<":">> \o (w \o EOL))
  BY NameLine, SymbolFacts
<1>2. Between'
  BY DEF Between, Started, Running, State, parserVars
<1>3. Known(name)'
  BY <1>2 DEF Between, Known, AllRead, LengthRead, KeepRead, ChunkedRead, parserVars
<1>4. AtName(name, w)'
  BY <1>1, <1>2, <1>3 DEF AtName
<1> QED
  BY <1>4 DEF ReadInv, HeaderLineInv

(* The request line is written.                                            *)
LEMMA WriteRequest ==
  ASSUME ReadInv, NEW u \in Urls, SendRequestLine(u)
  PROVE  ReadInv'
<1>1. /\ ref = NoRef /\ parser = InitParser /\ header = InitHeader /\ marks = {} /\ scan = 0
  BY DEF ReadInv, SendRequestLine
<1>2. /\ todo' = (<<"GET", "SP">> \o u \o <<"SP", "H", "x", "x", "x", "/", "1", ".", "1">>)
                     \o <<"CR", "LF">>
      /\ ref' = [NoRef EXCEPT !.line = "headers"]
      /\ UNCHANGED <<parser, header, marks, scan>>
  BY <1>1 DEF SendRequestLine, Writes, parserVars
<1>3. todo' = <<"GET">> \o (<<"SP">> \o (u \o VersionLine))
  <2> DEFINE h == <<"SP", "H", "x", "x", "x", "/", "1", ".", "1">>
  <2>1. /\ <<"GET">> \in Seq(Symbols) /\ <<"SP">> \in Seq(Symbols)
        /\ <<"GET", "SP">> = <<"GET">> \o <<"SP">> /\ EOL \in Seq(Symbols)
        /\ u \in Seq(Symbols)
    BY LineFacts, SymbolFacts
  <2>2. \A s \in {"SP", "H", "x", "/", "1", "."} : s \in Symbols
    BY DEF Symbols, Tokens, Alpha, Digits
  <2>3. h \in Seq(Symbols)
    BY <2>2
  <2>4. h \o EOL = VersionLine
    <3>1. PICK g \in Seq(Symbols), e \in Seq(Symbols), v \in Seq(Symbols) :
              g = h /\ e = EOL /\ v = VersionLine
      BY <2>3, LineFacts
    <3>2. Len(g) = 9 /\ Len(e) = 2 /\ Len(v) = 11
      BY <3>1 DEF EOL, VersionLine
    <3>3. /\ g \o e \in Seq(Symbols) /\ Len(g \o e) = Len(g) + Len(e)
          /\ \A i \in 1 .. Len(g) + Len(e) :
                 (g \o e)[i] = IF i <= Len(g) THEN g[i] ELSE e[i - Len(g)]
      BY ConcatProperties
    <3>4. \A i \in 1 .. 9 : g[i] = v[i]
      BY <3>1 DEF VersionLine
    <3>5. \A i \in 10 .. 11 : e[i - 9] = v[i]
      BY <3>1 DEF EOL, VersionLine
    <3>6. \A i \in 1 .. 11 : (g \o e)[i] = v[i]
      <4>1. TAKE i \in 1 .. 11
      <4>2. CASE i <= 9
        <5>1. (g \o e)[i] = g[i]
          BY <3>2, <3>3, <4>2
        <5>2. i \in 1 .. 9
          BY <4>2
        <5> QED
          BY <3>4, <5>1, <5>2
      <4>3. CASE i > 9
        <5>1. (g \o e)[i] = e[i - 9]
          BY <3>2, <3>3, <4>3
        <5>2. i \in 10 .. 11
          BY <4>3
        <5> QED
          BY <3>5, <5>1, <5>2
      <4>4. i <= 9 \/ i > 9
        OBVIOUS
      <4> QED
        BY <4>2, <4>3, <4>4, Zenon
    <3>7. PICK f : f = g \o e
      OBVIOUS
    <3>8. f \in Seq(Symbols) /\ Len(f) = Len(v) /\ \A i \in 1 .. Len(f) : f[i] = v[i]
      <4>1. f \in Seq(Symbols) /\ Len(f) = 11
        BY <3>2, <3>3, <3>7
      <4>2. \A i \in 1 .. 11 : f[i] = v[i]
        BY <3>6, <3>7, Zenon
      <4> QED
        BY <3>2, <4>1, <4>2
    <3>9. f = v
      BY <3>8, SeqEqual
    <3> QED
      BY <3>1, <3>7, <3>9, Zenon
  <2>5. PICK a \in Seq(Symbols), b \in Seq(Symbols), c \in Seq(Symbols), e \in Seq(Symbols) :
            a = <<"GET">> /\ b = <<"SP">> /\ c = h /\ e = EOL
    BY <2>1, <2>3
  <2>11. Cat(Cat(Cat(Cat(a, b), u), c), e) = Cat(a, Cat(b, Cat(u, Cat(c, e))))
    <3>1. a \in Texts /\ b \in Texts /\ u \in Texts /\ c \in Texts /\ e \in Texts
      BY <2>1 DEF Texts
    <3> QED
      BY <3>1, CatFive
  <2>12. (((a \o b) \o u) \o c) \o e = a \o (b \o (u \o (c \o e)))
    BY <2>11, Zenon DEF Cat
  <2>13. a \o b = <<"GET", "SP">> /\ c \o e = VersionLine /\ e = <<"CR", "LF">>
    BY <2>1, <2>4, <2>5, Zenon DEF EOL
  <2> QED
    BY <1>2, <2>5, <2>12, <2>13, Zenon
<1>4. AtRequest'
  BY <1>1, <1>2, <1>3 DEF AtRequest
<1> QED
  BY <1>2, <1>4 DEF ReadInv, RequestLineInv, NoRef

(* A header line or the blank line is written.                             *)
LEMMA WriteHeader ==
  ASSUME RefOK, ReadInv,
         \/ \E n \in Lengths : SendLength(n)
         \/ \E k \in BOOLEAN : SendConnection(k)
         \/ SendChunked
         \/ \E m \in {"x", "upgrade"}, v \in Values : SendOther(m, v)
         \/ SendBlankLine
  PROVE  ReadInv'
<1>1. todo = <<>> /\ ref.line = "headers" /\ UNCHANGED <<parserVars, scan>>
  BY DEF SendLength, SendConnection, SendChunked, SendOther, SendBlankLine, Writes
<1>2. Between /\ AllRead
  BY <1>1, InsideLine DEF ReadInv, NoRef
<1>3. ref \in [line : {"request", "headers", "end", "free"}, len : Nat,
               keep : BOOLEAN, chunked : BOOLEAN]
  BY DEF RefOK
<1>4. ASSUME NEW n \in Lengths, SendLength(n) PROVE ReadInv'
  <2>1. /\ todo' = (<<"content-length", ":", "SP">> \o Decimal[n]) \o <<"CR", "LF">>
        /\ ref' = [ref EXCEPT !.len = n]
    BY <1>4 DEF SendLength, Writes
  <2>2. /\ ref'.line = "headers" /\ ref'.keep = ref.keep /\ ref'.chunked = ref.chunked
        /\ ref'.len = n /\ ref'.keep \in BOOLEAN /\ ref'.chunked \in BOOLEAN
    BY <1>1, <1>3, <2>1
  <2>3. PICK w \in Seq(Symbols) : w = <<"SP">> \o Decimal[n]
    BY LineFacts, SymbolFacts, ConsOf
  <2>4. <<"content-length", ":", "SP">> \o Decimal[n] = <<"content-length", ":">> \o w
    <3>1. "content-length" \in Symbols
      BY SymbolFacts DEF LineNames
    <3>2. ":" \in Symbols /\ "SP" \in Symbols
      BY SymbolFacts
    <3>3. PICK c \in Seq(Symbols) : c = Decimal[n]
      BY LineFacts
    <3>4. <<"content-length", ":", "SP">> \o c = <<"content-length", ":">> \o (<<"SP">> \o c)
      BY <3>1, <3>2, ThreeSymbols
    <3> QED
      BY <2>3, <3>3, <3>4, Zenon
  <2>5. Before("content-length", w)'
    BY <2>2, <2>3 DEF Before
  <2> QED
    BY <1>1, <1>2, <2>1, <2>2, <2>4, <2>5, WriteLine DEF LineNames
<1>5. ASSUME NEW k \in BOOLEAN, SendConnection(k) PROVE ReadInv'
  <2>1. PICK word : word = IF k THEN "keep-alive" ELSE "close"
    OBVIOUS
  <2>2. /\ todo' = <<"connection", ":", word>> \o <<"CR", "LF">>
        /\ ref' = [ref EXCEPT !.keep = k]
    BY <1>5, <2>1 DEF SendConnection, Writes
  <2>3. /\ ref'.line = "headers" /\ ref'.keep = k /\ ref'.chunked = ref.chunked
        /\ ref'.len = ref.len /\ ref'.keep \in BOOLEAN /\ ref'.chunked \in BOOLEAN
    BY <1>1, <1>3, <2>2
  <2>4. <<word>> \in Seq(Symbols)
    BY <2>1, SymbolFacts
  <2>5. <<"connection", ":", word>> = <<"connection", ":">> \o <<word>>
    OBVIOUS
  <2>6. Before("connection", <<word>>)'
    BY <2>1, <2>3 DEF Before, KeepWord
  <2>7. todo' = (<<"connection", ":">> \o <<word>>) \o <<"CR", "LF">>
    BY <2>2, <2>5, Zenon
  <2> QED
    BY <1>1, <1>2, <2>3, <2>4, <2>6, <2>7, WriteLine DEF LineNames
<1>6. CASE SendChunked
  <2>1. /\ todo' = <<"transfer-encoding", ":", "SP", "chunked">> \o <<"CR", "LF">>
        /\ ref' = [ref EXCEPT !.chunked = TRUE]
    BY <1>6 DEF SendChunked, Writes
  <2>2. /\ ref'.line = "headers" /\ ref'.keep = ref.keep /\ ref'.chunked = TRUE
        /\ ref'.len = ref.len /\ ref'.keep \in BOOLEAN /\ ref'.chunked \in BOOLEAN
    BY <1>1, <1>3, <2>1
  <2>3. PICK w : w = <<"SP">> \o <<"chunked">>
    OBVIOUS
  <2>4. w \in Seq(Symbols)
    BY <2>3, SymbolFacts
  <2>5. <<"transfer-encoding", ":", "SP", "chunked">> = <<"transfer-encoding", ":">> \o w
    BY <2>3
  <2>6. Before("transfer-encoding", w)'
    BY <2>2, <2>3 DEF Before
  <2>7. todo' = (<<"transfer-encoding", ":">> \o w) \o <<"CR", "LF">>
    BY <2>1, <2>5, Zenon
  <2> QED
    BY <1>1, <1>2, <2>2, <2>4, <2>6, <2>7, WriteLine DEF LineNames
<1>7. ASSUME NEW m \in {"x", "upgrade"}, NEW v \in Values, SendOther(m, v) PROVE ReadInv'
  <2>1. todo' = (<<m, ":">> \o v) \o <<"CR", "LF">> /\ ref' = ref
    BY <1>7 DEF SendOther, Writes
  <2>2. /\ v \in Seq(ValueSymbols) /\ v[Len(v)] # "BS"
        /\ \E i \in 1 .. Len(v) : v[i] \notin {"SP", "HT"}
    BY HeadValues DEF ValueSymbols
  <2>3. v \in Seq(Symbols)
    BY <2>2, SymbolFacts, SeqMonotonic
  <2>4. Before(m, v)'
    BY <2>2 DEF Before, Plainly
  <2> QED
    BY <1>1, <1>2, <1>3, <2>1, <2>3, <2>4, WriteLine DEF LineNames
<1>8. CASE SendBlankLine
  <2>1. todo' = <<>> \o <<"CR", "LF">> /\ ref' = [ref EXCEPT !.line = "end"]
    BY <1>8 DEF SendBlankLine, Writes
  <2>2. /\ ref'.line = "end" /\ ref'.keep = ref.keep /\ ref'.chunked = ref.chunked
        /\ ref'.len = ref.len
    BY <1>3, <2>1
  <2>3. todo' = EOL
    <3>1. <<"CR", "LF">> \in Seq(Symbols)
      BY LineFacts DEF EOL
    <3> QED
      BY <2>1, <3>1, ConcatEmptySeq DEF EOL
  <2>4. InBlankLine'
    BY <1>1, <1>2, <2>2, <2>3
       DEF InBlankLine, Between, Started, Running, State, AllRead, LengthRead, KeepRead,
           ChunkedRead, parserVars
  <2> QED
    BY <2>2, <2>4 DEF ReadInv
<1> QED
  BY <1>4, <1>5, <1>6, <1>7, <1>8

-----------------------------------------------------------------------------
(* The other actions.                                                      *)

(* What the lines mean keeps its type.                                     *)
LEMMA RefKept ==
  ASSUME RefOK, [Next]_vars
  PROVE  RefOK'
<1>0. /\ NoRef \in [line : {"request", "headers", "end", "free"},
                    len : Nat, keep : BOOLEAN, chunked : BOOLEAN]
      /\ FreeRef \in [line : {"request", "headers", "end", "free"},
                      len : Nat, keep : BOOLEAN, chunked : BOOLEAN]
  BY DEF NoRef, FreeRef
<1>1. \/ ref' = ref \/ ref' = NoRef \/ ref' = FreeRef
      \/ ref' = [ref EXCEPT !.line = "headers"]
      \/ \E n \in Lengths : ref' = [ref EXCEPT !.len = n]
      \/ \E k \in BOOLEAN : ref' = [ref EXCEPT !.keep = k]
      \/ ref' = [ref EXCEPT !.chunked = TRUE]
      \/ ref' = [ref EXCEPT !.line = "end"]
  BY Zenon DEF Next, SendRequestLine, SendLength, SendConnection, SendChunked, SendOther,
         SendBlankLine, Writes, ReceiveLine, ReceiveFree, TryParse, Respond, PrintResponse,
         Reset, vars
<1>2. \A n \in Lengths : n \in Nat
  BY HeadLengths
<1> QED
  BY <1>0, <1>1, <1>2 DEF RefOK

(* Nothing of a line is left when its end is found.                        *)
LEMMA LineOver ==
  ASSUME ReadInv, scan = 4, ref.line # "free"
  PROVE  ref.line = "end" /\ Understood /\ todo = <<>>
<1>1. ~RequestLineInv
  BY DEF RequestLineInv, AtRequest, AtMethod, AtUrl, InUrl, InVersion
<1>2. ~HeaderLineInv
  <2>1. ~AtLineEnd
    BY DEF AtLineEnd
  <2>2. \A name, w : ~AtName(name, w) /\ ~InName(name, w) /\ ~AtValue(name, w)
    BY DEF AtName, InName, AtValue, Between
  <2>3. \A name : ~InValue(name)
    BY DEF InValue
  <2> QED
    BY <2>1, <2>2, <2>3, Zenon DEF HeaderLineInv
<1>3. ~Between /\ ~InBlankLine
  BY DEF Between, InBlankLine
<1> QED
  BY <1>1, <1>2, <1>3 DEF ReadInv

(* The end of the header is found: nothing of it is left to be delivered.  *)
LEMMA ReadEnd ==
  ASSUME HeadInv, ScanInv, ReadInv, TryParse
  PROVE  ReadInv'
<1>1. /\ scan = 4 /\ scan' = scan /\ todo' = todo /\ ref' = ref
  BY DEF TryParse
<1>2. CASE ref.line = "free"
  BY <1>1, <1>2 DEF ReadInv
<1>3. CASE ref.line # "free"
  <2>1. ref.line = "end" /\ Understood /\ todo = <<>>
    BY <1>1, <1>3, LineOver
  <2>2. /\ parser.errno = "OK"
        /\ parser.state \in {"s_chunk_size_start", "s_body_identity", "s_pre_start_req"}
    BY <2>1 DEF Understood
  <2>3. header \in HeaderType
    BY DEF HeadInv, ParserOK
  <2>4. ~MayOverflow
    BY <2>2 DEF MayOverflow, State, HeaderStates, UrlStates, HostStates, VersionStates,
                LineStates, ChunkSizeStates
  <2>5. Running => LeftOver(header) = header
    <3>1. Running => "field" \notin marks /\ "value" \notin marks /\ "url" \notin marks
      BY <1>1 DEF ScanInv, Delivered
    <3> QED
      BY <3>1 DEF LeftOver
  <2>6. header' = [header EXCEPT !.ready = TRUE] /\ parser' = parser
    BY <2>4, <2>5 DEF TryParse, ExecuteReturns
  <2>7. header'.url = header.url /\ header'.keepAlive = header.keepAlive
    BY <2>3, <2>6 DEF HeaderType
  <2>8. Understood'
    BY <1>1, <2>1, <2>6, <2>7
       DEF Understood, AllRead, LengthRead, KeepRead, ChunkedRead
  <2> QED
    BY <1>1, <2>1, <2>8 DEF ReadInv
<1> QED
  BY <1>2, <1>3

(* Respond, PrintResponse and a stuttering step leave the request alone.   *)
LEMMA ReadSame ==
  ASSUME ReadInv, UNCHANGED <<header, parser, marks, text, scan, todo, ref>>
  PROVE  ReadInv'
<1>1. (Started <=> Started') /\ (AllRead <=> AllRead')
  BY DEF Started, Running, State, AllRead, LengthRead, KeepRead, ChunkedRead
<1>2. (LengthRead <=> LengthRead') /\ (KeepRead <=> KeepRead') /\ (ChunkedRead <=> ChunkedRead')
  BY DEF LengthRead, KeepRead, ChunkedRead
<1>3. State' = State
  BY DEF State
<1>4. RequestLineInv <=> RequestLineInv'
  BY <1>1, <1>3, Zenon DEF RequestLineInv, AtRequest, AtMethod, AtUrl, InUrl, InVersion
<1>5. Between <=> Between'
  BY <1>1, <1>3, Zenon DEF Between
<1>6. \A name : Known(name) <=> Known(name)'
  BY <1>1, <1>2, Zenon DEF Known
<1>7. KeepWord' = KeepWord
  BY DEF KeepWord
<1>8. \A name, w : Before(name, w) <=> Before(name, w)'
  BY <1>7, Zenon DEF Before
<1>9. \A name, w : /\ AtName(name, w) <=> AtName(name, w)'
                   /\ InName(name, w) <=> InName(name, w)'
                   /\ AtValue(name, w) <=> AtValue(name, w)'
  BY <1>3, <1>5, <1>6, <1>8, Zenon DEF AtName, InName, AtValue
<1>10. (InLength <=> InLength') /\ (InOther <=> InOther')
  BY Zenon DEF InLength, InOther
<1>11. \A name : InValue(name) <=> InValue(name)'
  BY <1>3, <1>6, <1>7, <1>10, Zenon DEF InValue
<1>12. AtLineEnd <=> AtLineEnd'
  BY <1>1, <1>2, <1>3, Zenon DEF AtLineEnd
<1>13. HeaderLineInv <=> HeaderLineInv'
  BY <1>9, <1>11, <1>12, Zenon DEF HeaderLineInv
<1>14. (InBlankLine <=> InBlankLine') /\ (Understood <=> Understood')
  BY <1>1, <1>3, Zenon DEF InBlankLine, Understood
<1> QED
  BY <1>1, <1>4, <1>5, <1>13, <1>14, Zenon DEF ReadInv

(* The invariant is kept, with one step per action of Next.                *)
LEMMA NextRead ==
  ASSUME HeadInv, MarkInv, ScanInv, RefOK, ReadInv, [Next]_vars
  PROVE  ReadInv'
<1>1. ASSUME NEW u \in Urls, SendRequestLine(u) PROVE ReadInv'
  BY <1>1, WriteRequest
<1>2. CASE \/ \E n \in Lengths : SendLength(n)
           \/ \E k \in BOOLEAN : SendConnection(k)
           \/ SendChunked
           \/ \E m \in {"x", "upgrade"}, v \in Values : SendOther(m, v)
           \/ SendBlankLine
  BY <1>2, WriteHeader
<1>3. CASE ReceiveLine
  BY <1>3, ReadLine
<1>4. ASSUME NEW ch \in Alphabet, ReceiveFree(ch) PROVE ReadInv'
  <2>1. ref' = FreeRef
    BY <1>4 DEF ReceiveFree
  <2> QED
    BY <2>1 DEF ReadInv, FreeRef, NoRef
<1>5. CASE TryParse
  BY <1>5, ReadEnd
<1>6. CASE Reset
  BY <1>6 DEF Reset, ResetRequest, ReadInv
<1>7. ASSUME NEW d \in LengthSizes, Respond(d) PROVE ReadInv'
  BY <1>7, ReadSame DEF Respond, parserVars
<1>8. CASE PrintResponse
  BY <1>8, ReadSame DEF PrintResponse, parserVars
<1>9. CASE UNCHANGED vars
  BY <1>9, ReadSame DEF vars
<1> QED
  BY <1>1, <1>2, <1>3, <1>4, <1>5, <1>6, <1>7, <1>8, <1>9, Zenon DEF Next

(* The inductive invariant.                                                *)
LEMMA ReadKeptAlways == Spec => [](RefOK /\ ReadInv)
<1>1. Init => RefOK /\ ReadInv
  <2> SUFFICES ASSUME Init PROVE RefOK /\ ReadInv
    OBVIOUS
  <2>1. ref = NoRef /\ todo = <<>> /\ header = InitHeader /\ scan = 0
    BY Zenon DEF Init
  <2>2. parser = InitParser /\ marks = {}
    BY Zenon DEF Init
  <2> QED
    BY <2>1, <2>2 DEF RefOK, ReadInv, NoRef
<1>2. RefOK /\ [Next]_vars => RefOK'
  BY RefKept
<1>3. HeadInv /\ MarkInv /\ ScanInv /\ RefOK /\ ReadInv /\ [Next]_vars => ReadInv'
  BY NextRead
<1> QED
  BY <1>1, <1>2, <1>3, HeadInvariance, MarksKept, PTL DEF Spec

(* A request of complete lines in their order is understood on every use   *)
(* of the object, whatever URL, lengths, connections and further headers   *)
(* it carries and however often a header is repeated.                      *)
THEOREM RequestsRead == Spec => []RequestRead
<1>1. HeadInv /\ RefOK /\ ReadInv => RequestRead
  <2> SUFFICES ASSUME HeadInv, RefOK, ReadInv, header.ready, ref.line = "end"
               PROVE  Understood
    BY Zenon DEF RequestRead, Understood, AllRead, LengthRead, KeepRead, ChunkedRead
  <2>1. ~InBlankLine
    BY DEF InBlankLine, Started
  <2> QED
    BY <2>1 DEF ReadInv, NoRef
<1> QED
  BY <1>1, HeadInvariance, ReadKeptAlways, PTL
===============================================================================
