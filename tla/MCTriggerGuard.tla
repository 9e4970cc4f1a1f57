--------------------------- MODULE MCTriggerGuard ---------------------------
(* Three guards, so that two nested scopes of one thread overlap with a    *)
(* scope of another, and two threads that race to shut the server down.    *)
EXTENDS TriggerGuard
=============================================================================
