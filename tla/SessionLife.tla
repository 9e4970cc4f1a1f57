---------------------------- MODULE SessionLife ----------------------------
(***************************************************************************)
(* The life of session objects, as the accept loop, the pool and the       *)
(* handlers of a session agree on it: an object that nobody uses is        *)
(* started for a connection, its close is asked for once, the close        *)
(* finalizes it, and only then is it started again.  The process may lose  *)
(* an object in use to an exception or an endless loop, but never one      *)
(* whose close is under way.                                               *)
(***************************************************************************)
CONSTANT Objects

VARIABLE stage   \* "idle", "open", "closing" or "lost"

LifeInit == stage \in [Objects -> {"idle", "open"}]

Moves(s, from, to) == stage[s] = from /\ stage' = [stage EXCEPT ![s] = to]

Start(s)        == Moves(s, "idle", "open")
RequestClose(s) == Moves(s, "open", "closing")
Finalize(s)     == Moves(s, "closing", "idle")
Lose(s)         == Moves(s, "open", "lost")

LifeNext == \E s \in Objects : Start(s) \/ RequestClose(s) \/ Finalize(s) \/ Lose(s)

LifeSpec == LifeInit /\ [][LifeNext]_stage
=============================================================================
