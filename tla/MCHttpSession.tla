--------------------------- MODULE MCHttpSession ---------------------------
(* Uploads to the sinkhole that are shorter and longer than their header,  *)
(* VScripts with and without data behind the program, a small download and *)
(* one of several pieces that is beyond IntLimit, an instruction whose     *)
(* exec_point lies beyond the program text, a text that does not parse and *)
(* a URL that is not served.                                               *)
EXTENDS HttpSession

Sinkhole(h, n, k) ==
    [url |-> "sinkhole", hdr |-> h, len |-> n, line |-> 0, prog |-> 0,
     good |-> TRUE, point |-> 0, down |-> 0, keep |-> k]

Script(h, n, pr, g, pt, d, k) ==
    [url |-> "vscript", hdr |-> h, len |-> n, line |-> 1, prog |-> pr,
     good |-> g, point |-> pt, down |-> d, keep |-> k]

AllRequests == { Sinkhole(1, 3, TRUE), Sinkhole(2, 1, FALSE),
                 Script(1, 4, 2, TRUE, 0, 5, TRUE),
                 Script(3, 3, 2, TRUE, 0, 1, TRUE),
                 Script(1, 4, 1, TRUE, 2, 0, TRUE),
                 Script(1, 3, 2, FALSE, 0, 0, TRUE),
                 [Sinkhole(1, 0, TRUE) EXCEPT !.url = "other"] }

OneUpload == { Sinkhole(1, 3, TRUE) }
OneScript == { Script(1, 4, 1, TRUE, 2, 0, TRUE) }
=============================================================================
