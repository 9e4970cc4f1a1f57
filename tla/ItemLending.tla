---------------------------- MODULE ItemLending ----------------------------
(***************************************************************************)
(* What a pool promises its borrowers: an item is lent to one borrower at  *)
(* a time and only when nobody has it; never more than the limit are lent; *)
(* and once a borrower waits, the next item that is lent goes to it.       *)
(***************************************************************************)
EXTENDS Naturals, FiniteSets

CONSTANTS Items, Users, Nobody

VARIABLES lentTo,    \* who has each item
          waiting,   \* the borrower that waits for one
          limit      \* how many may be lent, 0 is unlimited

lendVars == <<lentTo, waiting, limit>>

Lent == {p \in Items : lentTo[p] # Nobody}
Room == limit = 0 \/ Cardinality(Lent) < limit

LendInit ==
    /\ lentTo = [p \in Items |-> Nobody]
    /\ waiting = Nobody
    /\ limit \in Nat

Lend(p, u) ==
    /\ waiting = Nobody
    /\ lentTo[p] = Nobody
    /\ Room
    /\ lentTo' = [lentTo EXCEPT ![p] = u]
    /\ UNCHANGED <<waiting, limit>>

Wait(u) ==
    /\ limit > 0
    /\ waiting = Nobody
    /\ waiting' = u
    /\ UNCHANGED <<lentTo, limit>>

ServeWaiting(p) ==
    /\ waiting # Nobody
    /\ lentTo[p] = Nobody
    /\ Room
    /\ lentTo' = [lentTo EXCEPT ![p] = waiting]
    /\ waiting' = Nobody
    /\ UNCHANGED limit

Return(p) ==
    /\ lentTo[p] # Nobody
    /\ lentTo' = [lentTo EXCEPT ![p] = Nobody]
    /\ UNCHANGED <<waiting, limit>>

LendNext ==
    \/ \E p \in Items, u \in Users : Lend(p, u)
    \/ \E u \in Users : Wait(u)
    \/ \E p \in Items : ServeWaiting(p) \/ Return(p)

LendSpec == LendInit /\ [][LendNext]_lendVars
=============================================================================
