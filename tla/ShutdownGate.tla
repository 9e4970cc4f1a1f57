---------------------------- MODULE ShutdownGate ----------------------------
(***************************************************************************)
(* What TriggerGuard promises its users: scopes come and go while the gate *)
(* is open; the gate closes only while no scope is inside, and once closed *)
(* it admits nobody and never opens again.                                 *)
(***************************************************************************)
CONSTANT Scopes

VARIABLES inside,   \* the scopes that hold a guard
          closed    \* trigger() has gone off

gateVars == <<inside, closed>>

GateInit == inside = {} /\ closed = FALSE

Enter(s) ==
    /\ ~closed
    /\ s \notin inside
    /\ inside' = inside \cup {s}
    /\ UNCHANGED closed

Leave(s) ==
    /\ s \in inside
    /\ inside' = inside \ {s}
    /\ UNCHANGED closed

Close ==
    /\ ~closed
    /\ inside = {}
    /\ closed' = TRUE
    /\ UNCHANGED inside

GateNext == (\E s \in Scopes : Enter(s) \/ Leave(s)) \/ Close

GateSpec == GateInit /\ [][GateNext]_gateVars
=============================================================================
