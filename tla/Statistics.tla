----------------------------- MODULE Statistics -----------------------------
(***************************************************************************)
(* The statistics of the sessions: the deltas each session counts up       *)
(* (SessionStatsDelta in src/src/stats.hpp, updated in src/src/session.hpp)*)
(* and the poll that sweeps them into the one SessionStats of the pool     *)
(* (SessionPool::get_stats() in src/src/session_pool.hpp).                 *)
(*                                                                         *)
(* LSStats keeps references: a poller sweeps, and reads the totals later.  *)
(* Transactions, bytes received and bytes sent are counted and swept in    *)
(* the same way; one of them stands for the three.                         *)
(***************************************************************************)
EXTENDS Naturals

CONSTANTS Sessions,     \* the sessions the pool may create
          Pollers,      \* the threads that poll
          MaxCount      \* bound on what a session counts

ASSUME MaxCountAssumption == MaxCount \in Nat

VARIABLES
    items,      \* all_items_ of the session pool
    pending,    \* the delta of each session
    counted,    \* all it has counted in its life
    swept,      \* what polls have taken from it
    total,      \* the total in session_stats_
    poll,       \* where each poller is: "idle", "sweep", "add" or "read"
    left,       \* its copy of all_items_, the sessions still to be swept
    carry,      \* the delta it has taken and not yet added
    gathered,   \* what it has added in this poll
    alone       \* nobody else has swept since this poll began

statVars == <<items, pending, counted, swept, total, poll, left, carry, gathered,
              alone>>

StatInit ==
    /\ items = {}
    /\ pending = [s \in Sessions |-> 0]
    /\ counted = [s \in Sessions |-> 0]
    /\ swept = [s \in Sessions |-> 0]
    /\ total = 0
    /\ poll = [p \in Pollers |-> "idle"]
    /\ left = [p \in Pollers |-> {}]
    /\ carry = [p \in Pollers |-> 0]
    /\ gathered = [p \in Pollers |-> 0]
    /\ alone = [p \in Pollers |-> FALSE]

-----------------------------------------------------------------------------
(* The pool creates a session.                                             *)
NewSession(s) ==
    /\ s \notin items
    /\ items' = items \cup {s}
    /\ UNCHANGED <<pending, counted, swept, total, poll, left, carry, gathered, alone>>

(* fetch_add() on the delta, by a thread of the session.                   *)
Count(s) ==
    /\ s \in items
    /\ counted[s] < MaxCount
    /\ pending' = [pending EXCEPT ![s] = @ + 1]
    /\ counted' = [counted EXCEPT ![s] = @ + 1]
    /\ UNCHANGED <<items, swept, total, poll, left, carry, gathered, alone>>

Sweeping(p) == poll[p] \in {"sweep", "add"}

(* Who is disturbed by a poll of p that begins.                            *)
Overlapped(p) ==
    [q \in Pollers |-> IF q = p THEN \A r \in Pollers \ {p} : ~Sweeping(r) ELSE FALSE]

PollBeginUncleared(p) ==
    /\ poll[p] = "idle"
    /\ poll' = [poll EXCEPT ![p] = "sweep"]
    /\ left' = [left EXCEPT ![p] = items]
    /\ gathered' = [gathered EXCEPT ![p] = 0]
    /\ alone' = Overlapped(p)
    /\ UNCHANGED <<items, pending, counted, swept, total, carry>>

(* get_stats(): session_stats_.clear(), then a copy of all_items_.         *)
PollBegin(p) ==
    /\ poll[p] = "idle"
    /\ total' = 0
    /\ poll' = [poll EXCEPT ![p] = "sweep"]
    /\ left' = [left EXCEPT ![p] = items]
    /\ gathered' = [gathered EXCEPT ![p] = 0]
    /\ alone' = Overlapped(p)
    /\ UNCHANGED <<items, pending, counted, swept, carry>>

LoadDelta(p, s) ==
    /\ poll[p] = "sweep" /\ s \in left[p]
    /\ carry' = [carry EXCEPT ![p] = pending[s]]
    /\ swept' = [swept EXCEPT ![s] = @ + pending[s]]
    /\ left' = [left EXCEPT ![p] = @ \ {s}]
    /\ poll' = [poll EXCEPT ![p] = "add"]
    /\ UNCHANGED <<items, pending, counted, total, gathered, alone>>

(* exchange(0) on the delta of the next session ...                        *)
Exchange(p, s) ==
    /\ poll[p] = "sweep" /\ s \in left[p]
    /\ carry' = [carry EXCEPT ![p] = pending[s]]
    /\ swept' = [swept EXCEPT ![s] = @ + pending[s]]
    /\ pending' = [pending EXCEPT ![s] = 0]
    /\ left' = [left EXCEPT ![p] = @ \ {s}]
    /\ poll' = [poll EXCEPT ![p] = "add"]
    /\ UNCHANGED <<items, counted, total, gathered, alone>>

(* ... and fetch_add() on the total.                                       *)
AddDelta(p) ==
    /\ poll[p] = "add"
    /\ total' = total + carry[p]
    /\ gathered' = [gathered EXCEPT ![p] = @ + carry[p]]
    /\ carry' = [carry EXCEPT ![p] = 0]
    /\ poll' = [poll EXCEPT ![p] = "sweep"]
    /\ UNCHANGED <<items, pending, counted, swept, left, alone>>

(* get_stats() returns an LSStats.                                         *)
SweepDone(p) ==
    /\ poll[p] = "sweep" /\ left[p] = {}
    /\ poll' = [poll EXCEPT ![p] = "read"]
    /\ UNCHANGED <<items, pending, counted, swept, total, left, carry, gathered, alone>>

(* print_rec(), or GetStats() of the control server, reads the totals.     *)
ReadTotals(p) ==
    /\ poll[p] = "read"
    /\ poll' = [poll EXCEPT ![p] = "idle"]
    /\ alone' = [alone EXCEPT ![p] = FALSE]
    /\ UNCHANGED <<items, pending, counted, swept, total, left, carry, gathered>>

PollStep(p) ==
    (\E s \in Sessions : Exchange(p, s)) \/ AddDelta(p) \/ SweepDone(p) \/ ReadTotals(p)

-----------------------------------------------------------------------------
(* Whatever polls overlap and whenever a session counts, nothing it has    *)
(* counted is taken twice or dropped from its delta.                       *)
DeltasSweptOnce == \A s \in Sessions : counted[s] = pending[s] + swept[s]

(* A poll that finds the totals as it left them reads exactly what it has  *)
(* taken from the sessions: nothing of an earlier poll is left in them.    *)
(* (Polls of the portal and the control server that overlap do read wrong  *)
(* totals: each clears what the other has added.)                          *)
LoneSweepExact ==
    \A p \in Pollers : poll[p] = "read" /\ alone[p] => total = gathered[p]
=============================================================================
