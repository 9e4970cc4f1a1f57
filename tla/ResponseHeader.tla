--------------------------- MODULE ResponseHeader ---------------------------
(***************************************************************************)
(* HttpResponseHeader (src/src/http_header.hpp) and the DynamicString it   *)
(* prints into (src/src/dynamic_string.hpp).  generate_header() prints     *)
(* seven pieces; a printf() that does not fit enlarges the buffer and      *)
(* tries again.  The buffer stays with the session, and with it the        *)
(* capacity it has grown to.                                               *)
(***************************************************************************)
EXTENDS Naturals, Sequences

CONSTANTS Capacity,     \* what prepare_send_buffer() asked for, 64
          Doubling,     \* the capacity up to which a buffer is doubled, 512
          LengthSizes   \* the numbers of digits of a content length

ASSUME ResponseBounds ==
    Capacity \in Nat \ {0} /\ Doubling \in Nat /\ LengthSizes \subseteq Nat

VARIABLES
    size,       \* size() of the buffer
    capacity,   \* its capacity_
    pieces,     \* the sizes of the pieces still to be printed
    response    \* "none", "printing", or "sent"

responseVars == <<size, capacity, pieces, response>>

(* "HTTP/1.1 200 OK", "Content-Length: " and the number, "Connection: "    *)
(* and "Keep-Alive" or "Close", and the line breaks.                       *)
Pieces(digits, keepAlive) ==
    <<15, 2, 16 + digits, 2, IF keepAlive THEN 22 ELSE 17, 2, 2>>

ResponseInit ==
    size = 0 /\ capacity = Capacity /\ pieces = <<>> /\ response = "none"

PrepareAppends(digits, keepAlive) ==
    /\ response = "none"
    /\ size' = size
    /\ pieces' = Pieces(digits, keepAlive)
    /\ response' = "printing"
    /\ UNCHANGED capacity

(* prepare(): the buffer is emptied, then generate_header() begins.        *)
Prepare(digits, keepAlive) ==
    /\ response = "none"
    /\ size' = 0
    /\ pieces' = Pieces(digits, keepAlive)
    /\ response' = "printing"
    /\ UNCHANGED capacity

Fits == Head(pieces) < capacity - size

(* printf() of a piece with room for it and the terminating zero.          *)
PrintPiece ==
    /\ response = "printing" /\ pieces # <<>>
    /\ Fits
    /\ size' = size + Head(pieces)
    /\ pieces' = Tail(pieces)
    /\ UNCHANGED <<capacity, response>>

NewCapacityExact(need) == need

(* The capacity printf() asks for: just the characters, without the        *)
(* terminating zero, unless the buffer is small enough to be doubled.      *)
NewCapacity(need) ==
    IF need < capacity * 2 /\ capacity <= Doubling THEN capacity * 2 ELSE need

(* printf() without: resize() and try again.                               *)
EnlargeBuffer ==
    /\ response = "printing" /\ pieces # <<>>
    /\ ~Fits
    /\ capacity' = NewCapacity(size + Head(pieces))
    /\ UNCHANGED <<size, pieces, response>>

(* send(), set_sent().                                                     *)
SendHeader ==
    /\ response = "printing" /\ pieces = <<>>
    /\ response' = "sent"
    /\ UNCHANGED <<size, capacity, pieces>>

(* reset().                                                                *)
ResponseReset == response' = "none" /\ UNCHANGED <<size, capacity, pieces>>

Printing == PrintPiece \/ EnlargeBuffer \/ SendHeader
=============================================================================
