------------------------------ MODULE MCServer ------------------------------
(* Up to three contexts of one or two threads, or none if a request says   *)
(* so; two sessions, and enough control requests to append, deactivate and *)
(* reuse a context and to be refused; the acceptor on its own thread or on *)
(* worker 0.                                                               *)
EXTENDS Server, TLC

(* Sessions are interchangeable; used by the run without liveness.         *)
SessionSymmetry == Permutations(Sessions)
=============================================================================
