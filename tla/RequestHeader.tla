---------------------------- MODULE RequestHeader ----------------------------
(***************************************************************************)
(* HttpRequestHeader (src/src/http_header.hpp): the search for the end of  *)
(* the header, and the callbacks through which the request parser reports  *)
(* a URL, the name of a header line and its value.                         *)
(*                                                                         *)
(* The input is a sequence of symbols.  A symbol is a character, or a word *)
(* that the parser or the callbacks compare with as a whole; a word counts *)
(* as one byte where bytes are counted, because whatever a word does there *)
(* a single letter does too.                                               *)
(***************************************************************************)
EXTENDS Integers, Sequences, FiniteSets

VARIABLES
    header,     \* the members of HttpRequestHeader
    scan        \* how much of CR LF CR LF the last bytes match

(* Of url_ only whether the parser has set it.                             *)
HeaderType == [nameIs : {"kNone", "kConnection"}, keepAlive : BOOLEAN,
               ready : BOOLEAN, url : BOOLEAN]

InitHeader == [nameIs |-> "kNone", keepAlive |-> FALSE, ready |-> FALSE, url |-> FALSE]

(* memmem() for CR LF CR LF: a CR that does not go on with the match       *)
(* begins a new one.                                                       *)
ScanStep(n, ch) ==
    CASE ch = "CR" -> IF n = 2 THEN 3 ELSE 1
      [] ch = "LF" /\ n \in {1, 3} -> n + 1
      [] OTHER -> 0

SetUrl(h) == [h EXCEPT !.url = TRUE]

SetField(h, name) ==
    [h EXCEPT !.nameIs = IF name = "connection" THEN "kConnection" ELSE "kNone"]

(* strncasecmp() over the length of the value: a prefix of "close" or of   *)
(* "keep-alive", the empty value too, compares equal.                      *)
Closes == {"", "close"}
KeepsAlive == {"k", "keep-alive"}

SetValueKeepsName(h, value) ==
    IF h.nameIs = "kNone" THEN h
    ELSE [h EXCEPT !.keepAlive = \/ value \in KeepsAlive
                                 \/ @ /\ value \notin Closes]

SetValue(h, value) ==
    IF h.nameIs = "kNone" THEN h
    ELSE [h EXCEPT !.nameIs = "kNone",
                   !.keepAlive = \/ value \in KeepsAlive
                                 \/ @ /\ value \notin Closes]

(* get_content_length().                                                   *)
ContentLength(clen) == IF clen > 0 THEN clen ELSE 0
=============================================================================
