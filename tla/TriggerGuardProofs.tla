------------------------- MODULE TriggerGuardProofs -------------------------
(***************************************************************************)
(* Proofs about TriggerGuard, for every finite set of guards and every set *)
(* of threads that call trigger().                                         *)
(***************************************************************************)
EXTENDS TriggerGuard, FiniteSetTheorems, TLAPS

(* The set of guards in scope is finite, so counting it makes sense.       *)
LEMMA HeldFinite == IsFiniteSet(Held)
<1>1. Held \subseteq Guards
  BY DEF Held
<1> QED
  BY <1>1, GuardsAssumption, FS_Subset

(* A guard that is counted enters the set of held guards.                  *)
LEMMA HeldAdd ==
  ASSUME NEW g \in Guards, guard[g] # "held", TypeOK,
         guard' = [guard EXCEPT ![g] = "held"]
  PROVE  /\ Held' = Held \cup {g}
         /\ Cardinality(Held') = Cardinality(Held) + 1
<1>1. Held' = Held \cup {g}
  BY DEF Held, TypeOK
<1>2. g \notin Held
  BY DEF Held
<1> QED
  BY <1>1, <1>2, HeldFinite, FS_AddElement

(* A guard that is released leaves the set of held guards, and the set was *)
(* not empty.                                                              *)
LEMMA HeldRemove ==
  ASSUME NEW g \in Guards, guard[g] = "held", TypeOK,
         guard' = [guard EXCEPT ![g] = "notify"]
  PROVE  /\ Held' = Held \ {g}
         /\ Cardinality(Held') = Cardinality(Held) - 1
         /\ Cardinality(Held) \in Nat \ {0}
<1>1. Held' = Held \ {g}
  BY DEF Held, TypeOK
<1>2. g \in Held
  BY DEF Held
<1>3. Cardinality(Held) \in Nat /\ Cardinality(Held) # 0
  BY <1>2, HeldFinite, FS_CardinalityType, FS_EmptySet
<1> QED
  BY <1>1, <1>2, <1>3, HeldFinite, FS_RemoveElement

(* Any other change of a guard's state leaves the held guards alone.       *)
LEMMA HeldSame ==
  ASSUME NEW g \in Guards, NEW st \in {"none", "inactive"},
         guard[g] # "held", TypeOK, guard' = [guard EXCEPT ![g] = st]
  PROVE  Held' = Held
BY DEF Held, TypeOK

(* No guard is in scope exactly when the count is zero.                    *)
LEMMA HeldEmpty == Cardinality(Held) = 0 <=> Held = {}
BY HeldFinite, FS_EmptySet

(* The initial state satisfies the inductive invariant.                    *)
LEMMA InitGuardInv == Init => GuardInv
<1> SUFFICES ASSUME Init PROVE GuardInv
  OBVIOUS
<1>1. TypeOK
  BY DEF Init, TypeOK, GuardStates, TriggerStates
<1>2. Held = {}
  BY DEF Init, Held
<1>3. RefCountExact
  BY <1>2, HeldEmpty DEF Init, RefCountExact
<1>4. MutexOwnership
  BY ThreadAssumption DEF Init, MutexOwnership, OwnsMutex
<1>5. TestStillHolds /\ WaitSetExact /\ GuardExcludesTrigger
  BY DEF Init, TestStillHolds, WaitSetExact, GuardExcludesTrigger
<1> QED
  BY <1>1, <1>3, <1>4, <1>5 DEF GuardInv

(* Every statement of a guard or of trigger() preserves the invariant.     *)
LEMMA NextGuardInv == GuardInv /\ [Next]_vars => GuardInv'
<1> SUFFICES ASSUME GuardInv, [Next]_vars PROVE GuardInv'
  OBVIOUS
<1> USE DEF GuardInv, OwnsMutex, MutexOwnership, TestStillHolds, WaitSetExact
<1>1. ASSUME NEW g \in Guards, AcquireScopedGuard(g) PROVE GuardInv'
  <2>1. CASE triggered
    <3>1. Held' = Held
      BY <1>1, <2>1, HeldSame DEF AcquireScopedGuard
    <3>2. TypeOK'
      BY <1>1, <2>1 DEF AcquireScopedGuard, TypeOK, GuardStates
    <3> QED
      BY <1>1, <2>1, <3>1, <3>2
         DEF AcquireScopedGuard, RefCountExact, GuardExcludesTrigger
  <2>2. CASE ~triggered
    <3>1. Cardinality(Held') = Cardinality(Held) + 1
      BY <1>1, <2>2, HeldAdd DEF AcquireScopedGuard
    <3>2. TypeOK'
      BY <1>1, <2>2 DEF AcquireScopedGuard, TypeOK, GuardStates
    <3>3. RefCountExact'
      BY <1>1, <2>2, <3>1 DEF AcquireScopedGuard, RefCountExact
    <3>4. \A t \in Triggerers : pc[t] # "set"
      BY <1>1, ThreadAssumption DEF AcquireScopedGuard
    <3> QED
      BY <1>1, <2>2, <3>2, <3>3, <3>4
         DEF AcquireScopedGuard, GuardExcludesTrigger
  <2> QED
    BY <2>1, <2>2
<1>2. ASSUME NEW g \in Guards, ReleaseScopedGuard(g) PROVE GuardInv'
  <2>1. /\ Held' = Held \ {g}
        /\ Cardinality(Held') = Cardinality(Held) - 1
        /\ Cardinality(Held) \in Nat \ {0}
    BY <1>2, HeldRemove DEF ReleaseScopedGuard
  <2>2. refCnt # 0
    BY <2>1 DEF RefCountExact
  <2>3. TypeOK'
    BY <1>2, <2>2 DEF ReleaseScopedGuard, TypeOK, GuardStates
  <2>4. RefCountExact'
    BY <1>2, <2>1 DEF ReleaseScopedGuard, RefCountExact
  <2>5. TestStillHolds'
    BY <1>2, <2>2 DEF ReleaseScopedGuard
  <2>6. GuardExcludesTrigger'
    BY <1>2, <2>1 DEF ReleaseScopedGuard, GuardExcludesTrigger
  <2> QED
    BY <1>2, <2>3, <2>4, <2>5, <2>6 DEF ReleaseScopedGuard
<1>3. ASSUME NEW g \in Guards, NotifyAll(g) PROVE GuardInv'
  <2>1. Held' = Held
    BY <1>3, HeldSame DEF NotifyAll
  <2>2. TypeOK'
    BY <1>3 DEF NotifyAll, TypeOK, GuardStates, TriggerStates
  <2>3. MutexOwnership' /\ TestStillHolds' /\ WaitSetExact'
    BY <1>3 DEF NotifyAll, TypeOK
  <2> QED
    BY <1>3, <2>1, <2>2, <2>3
       DEF NotifyAll, RefCountExact, GuardExcludesTrigger
<1>4. ASSUME NEW g \in Guards, DropInactiveGuard(g) PROVE GuardInv'
  <2>1. Held' = Held
    BY <1>4, HeldSame DEF DropInactiveGuard
  <2>2. TypeOK'
    BY <1>4 DEF DropInactiveGuard, TypeOK, GuardStates
  <2> QED
    BY <1>4, <2>1, <2>2
       DEF DropInactiveGuard, RefCountExact, GuardExcludesTrigger
<1>5. ASSUME NEW t \in Triggerers, TriggerLock(t) PROVE GuardInv'
  <2>1. TypeOK'
    BY <1>5 DEF TriggerLock, TypeOK, TriggerStates
  <2>2. MutexOwnership'
    BY <1>5, ThreadAssumption DEF TriggerLock, TypeOK
  <2> QED
    BY <1>5, <2>1, <2>2
       DEF TriggerLock, TypeOK, Held, RefCountExact, GuardExcludesTrigger
<1>6. ASSUME NEW t \in Triggerers, TriggerCheckFlag(t) PROVE GuardInv'
  <2>1. TypeOK'
    BY <1>6 DEF TriggerCheckFlag, TypeOK, TriggerStates
  <2>2. MutexOwnership'
    BY <1>6, ThreadAssumption DEF TriggerCheckFlag, TypeOK
  <2> QED
    BY <1>6, <2>1, <2>2
       DEF TriggerCheckFlag, TypeOK, Held, RefCountExact, GuardExcludesTrigger
<1>7. ASSUME NEW t \in Triggerers, WaitTest(t) PROVE GuardInv'
  <2>1. TypeOK'
    BY <1>7 DEF WaitTest, TypeOK, TriggerStates
  <2> QED
    BY <1>7, <2>1
       DEF WaitTest, TypeOK, Held, RefCountExact, GuardExcludesTrigger
<1>8. ASSUME NEW t \in Triggerers, WaitBlock(t) PROVE GuardInv'
  <2>1. TypeOK'
    BY <1>8 DEF WaitBlock, TypeOK, TriggerStates
  <2>2. MutexOwnership'
    BY <1>8, ThreadAssumption DEF WaitBlock, TypeOK
  <2>3. WaitSetExact'
    BY <1>8 DEF WaitBlock, TypeOK
  <2> QED
    BY <1>8, <2>1, <2>2, <2>3
       DEF WaitBlock, TypeOK, Held, RefCountExact, GuardExcludesTrigger
<1>9. ASSUME NEW t \in Triggerers, SpuriousWakeup(t) PROVE GuardInv'
  <2>1. TypeOK'
    BY <1>9 DEF SpuriousWakeup, TypeOK, TriggerStates
  <2>2. MutexOwnership' /\ WaitSetExact'
    BY <1>9 DEF SpuriousWakeup, TypeOK
  <2> QED
    BY <1>9, <2>1, <2>2
       DEF SpuriousWakeup, TypeOK, Held, RefCountExact, GuardExcludesTrigger
<1>10. ASSUME NEW t \in Triggerers, WaitRelock(t) PROVE GuardInv'
  <2>1. TypeOK'
    BY <1>10 DEF WaitRelock, TypeOK, TriggerStates
  <2>2. MutexOwnership'
    BY <1>10, ThreadAssumption DEF WaitRelock, TypeOK
  <2> QED
    BY <1>10, <2>1, <2>2
       DEF WaitRelock, TypeOK, Held, RefCountExact, GuardExcludesTrigger
<1>11. ASSUME NEW t \in Triggerers, TriggerSet(t) PROVE GuardInv'
  <2>1. TypeOK'
    BY <1>11 DEF TriggerSet, TypeOK, TriggerStates
  <2>2. MutexOwnership'
    BY <1>11, ThreadAssumption DEF TriggerSet, TypeOK
  <2>3. Held' = Held
    BY <1>11 DEF TriggerSet, Held
  <2>4. Held = {}
    BY <1>11, HeldEmpty DEF TriggerSet, RefCountExact
  <2> QED
    BY <1>11, <2>1, <2>2, <2>3, <2>4
       DEF TriggerSet, TypeOK, RefCountExact, GuardExcludesTrigger
<1>12. CASE UNCHANGED vars
  BY <1>12 DEF vars, TypeOK, Held, RefCountExact, GuardExcludesTrigger
<1> QED
  BY <1>1, <1>2, <1>3, <1>4, <1>5, <1>6, <1>7, <1>8, <1>9, <1>10, <1>11, <1>12
     DEF Next, GuardStep, TriggerStep

(* The inductive invariant holds in every reachable state.                 *)
THEOREM GuardInvariance == Spec => []GuardInv
BY InitGuardInv, NextGuardInv, PTL DEF Spec

(* No scope is open once trigger() has gone off.                           *)
THEOREM TriggerExcluded == Spec => []GuardExcludesTrigger
<1>1. GuardInv => GuardExcludesTrigger
  BY DEF GuardInv
<1> QED
  BY <1>1, GuardInvariance, PTL

(* Every step of the guard is a step of the gate, or invisible to it.      *)
LEMMA StepSimulation ==
  GuardInv /\ [Next]_vars => [Gate!GateNext]_(Gate!gateVars)
<1> SUFFICES ASSUME GuardInv, Next
             PROVE  [Gate!GateNext]_(Gate!gateVars)
  BY DEF vars, Held, Gate!gateVars
<1> USE DEF Gate!gateVars, Gate!GateNext
<1>1. ASSUME NEW g \in Guards, AcquireScopedGuard(g)
      PROVE  [Gate!GateNext]_(Gate!gateVars)
  <2>1. CASE triggered
    BY <1>1, <2>1, HeldSame DEF AcquireScopedGuard, GuardInv
  <2>2. CASE ~triggered
    <3>1. Held' = Held \cup {g}
      BY <1>1, <2>2, HeldAdd DEF AcquireScopedGuard, GuardInv
    <3>2. Gate!Enter(g)
      BY <1>1, <2>2, <3>1 DEF AcquireScopedGuard, Gate!Enter, Held
    <3> QED
      BY <3>2
  <2> QED
    BY <2>1, <2>2
<1>2. ASSUME NEW g \in Guards, ReleaseScopedGuard(g)
      PROVE  [Gate!GateNext]_(Gate!gateVars)
  <2>1. Held' = Held \ {g} /\ g \in Held
    BY <1>2, HeldRemove DEF ReleaseScopedGuard, GuardInv, Held
  <2>2. Gate!Leave(g)
    BY <1>2, <2>1 DEF ReleaseScopedGuard, Gate!Leave
  <2> QED
    BY <2>2
<1>3. ASSUME NEW g \in Guards, NotifyAll(g) \/ DropInactiveGuard(g)
      PROVE  [Gate!GateNext]_(Gate!gateVars)
  <2>1. Held' = Held
    BY <1>3, HeldSame DEF NotifyAll, DropInactiveGuard, GuardInv
  <2> QED
    BY <1>3, <2>1 DEF NotifyAll, DropInactiveGuard
<1>4. ASSUME NEW t \in Triggerers, TriggerSet(t)
      PROVE  [Gate!GateNext]_(Gate!gateVars)
  <2>1. Held' = Held
    BY <1>4 DEF TriggerSet, Held
  <2>2. Held = {}
    BY <1>4, HeldEmpty
       DEF TriggerSet, GuardInv, TestStillHolds, RefCountExact
  <2>3. CASE triggered
    BY <1>4, <2>1, <2>3 DEF TriggerSet
  <2>4. CASE ~triggered
    BY <1>4, <2>1, <2>2, <2>4 DEF TriggerSet, Gate!Close
  <2> QED
    BY <2>3, <2>4
<1>5. ASSUME NEW t \in Triggerers,
             \/ TriggerLock(t) \/ TriggerCheckFlag(t) \/ WaitTest(t)
             \/ WaitBlock(t) \/ WaitRelock(t) \/ SpuriousWakeup(t)
      PROVE  [Gate!GateNext]_(Gate!gateVars)
  BY <1>5 DEF TriggerLock, TriggerCheckFlag, WaitTest, WaitBlock, WaitRelock,
              SpuriousWakeup, Held
<1> QED
  BY <1>1, <1>2, <1>3, <1>4, <1>5 DEF Next, GuardStep, TriggerStep

(* TriggerGuard implements the gate its users rely on.                     *)
THEOREM Refinement == Spec => GateSpec
<1>1. Init => Gate!GateInit
  BY DEF Init, Gate!GateInit, Held
<1> QED
  BY <1>1, GuardInvariance, StepSimulation, PTL
     DEF Spec, GateSpec, Gate!GateSpec
=============================================================================
