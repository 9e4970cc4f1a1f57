---------------------------- MODULE TriggerGuard ----------------------------
(***************************************************************************)
(* The shutdown guard of the server (src/src/syncronization_utils.hpp).    *)
(*                                                                         *)
(* A ScopedGuard blocks every trigger() for as long as it is in scope.     *)
(* acquire_scoped_guard() counts the guard under mtx_; the guard's         *)
(* destructor decrements the counter and notifies WITHOUT mtx_, so its two *)
(* statements interleave with the two halves of the condition variable     *)
(* wait in trigger(): testing the predicate, and blocking.                 *)
(*                                                                         *)
(* Guards is a set of ScopedGuard objects.  A thread that nests two scopes *)
(* (the accept handler and the dispatch() it calls) is two overlapping     *)
(* guards.  Triggerers is the set of threads that call trigger().          *)
(***************************************************************************)
EXTENDS Naturals, FiniteSets

CONSTANTS Guards,       \* the ScopedGuard objects
          Triggerers,   \* the threads that call trigger()
          NoThread      \* mtx_ is free

ASSUME GuardsAssumption == IsFiniteSet(Guards)
ASSUME ThreadAssumption == NoThread \notin Triggerers

VARIABLES
    triggered,    \* triggered_
    refCnt,       \* ref_cnt_
    mtx,          \* the thread that owns mtx_
    guard,        \* where each ScopedGuard is in its life
    pc,           \* where each thread is in trigger()
    waiters       \* the threads blocked on cv_

vars == <<triggered, refCnt, mtx, guard, pc, waiters>>

(***************************************************************************)
(* "none": not constructed.  "held": constructed with triggered_ = false,  *)
(* it has counted itself.  "inactive": constructed with triggered_ = true, *)
(* it has not.  "notify": its destructor has decremented ref_cnt_ and has  *)
(* not called notify_all() yet.                                            *)
(***************************************************************************)
GuardStates == {"none", "held", "inactive", "notify"}

(***************************************************************************)
(* "idle", then with mtx_ held: "check" the flag, "test" the predicate,    *)
(* "block" (the predicate was false, wait() is about to release mtx_ and   *)
(* enqueue) or "set" (it was true).  "waiting" is blocked on cv_,          *)
(* "relock" is woken and wants mtx_ back.  "done" returned, "threw" raised *)
(* InactiveTriggerGuardInvoked.                                            *)
(***************************************************************************)
TriggerStates == {"idle", "check", "test", "block", "waiting", "relock",
                  "set", "done", "threw"}

Held == {g \in Guards : guard[g] = "held"}

Init ==
    /\ triggered = FALSE
    /\ refCnt = 0
    /\ mtx = NoThread
    /\ guard = [g \in Guards |-> "none"]
    /\ pc = [t \in Triggerers |-> "idle"]
    /\ waiters = {}

-----------------------------------------------------------------------------
(* acquire_scoped_guard() and the life of a ScopedGuard.                   *)

AcquireUnlocked(g) ==
    /\ guard[g] = "none"
    /\ guard' = [guard EXCEPT ![g] = IF triggered THEN "inactive" ELSE "held"]
    /\ refCnt' = IF triggered THEN refCnt ELSE refCnt + 1
    /\ UNCHANGED <<triggered, mtx, pc, waiters>>

(* The section under mtx_: count the guard unless triggered, and remember  *)
(* in the guard which of the two happened.                                 *)
AcquireScopedGuard(g) ==
    /\ mtx = NoThread
    /\ guard[g] = "none"
    /\ guard' = [guard EXCEPT ![g] = IF triggered THEN "inactive" ELSE "held"]
    /\ refCnt' = IF triggered THEN refCnt ELSE refCnt + 1
    /\ UNCHANGED <<triggered, mtx, pc, waiters>>

ReleaseSilently(g) ==
    /\ guard[g] = "held"
    /\ guard' = [guard EXCEPT ![g] = "none"]
    /\ refCnt' = refCnt - 1
    /\ UNCHANGED <<triggered, mtx, pc, waiters>>

(* release_scoped_guard(), first statement: ref_cnt_.fetch_sub(1).         *)
ReleaseScopedGuard(g) ==
    /\ guard[g] = "held"
    /\ guard' = [guard EXCEPT ![g] = "notify"]
    /\ refCnt' = refCnt - 1
    /\ UNCHANGED <<triggered, mtx, pc, waiters>>

(* release_scoped_guard(), second statement: cv_.notify_all().             *)
NotifyAll(g) ==
    /\ guard[g] = "notify"
    /\ guard' = [guard EXCEPT ![g] = "none"]
    /\ waiters' = {}
    /\ pc' = [t \in Triggerers |-> IF t \in waiters THEN "relock" ELSE pc[t]]
    /\ UNCHANGED <<triggered, refCnt, mtx>>

(* ~ScopedGuard() of a guard that was never counted, after                 *)
(* SCOPED_GUARD_OR_RETURN has returned from the guarded function.          *)
DropInactiveGuard(g) ==
    /\ guard[g] = "inactive"
    /\ guard' = [guard EXCEPT ![g] = "none"]
    /\ UNCHANGED <<triggered, refCnt, mtx, pc, waiters>>

-----------------------------------------------------------------------------
(* trigger(), statement by statement.                                      *)

TriggerLock(t) ==
    /\ pc[t] = "idle"
    /\ mtx = NoThread
    /\ mtx' = t
    /\ pc' = [pc EXCEPT ![t] = "check"]
    /\ UNCHANGED <<triggered, refCnt, guard, waiters>>

TriggerCheckFlag(t) ==
    /\ pc[t] = "check"
    /\ IF triggered
       THEN mtx' = NoThread /\ pc' = [pc EXCEPT ![t] = "threw"]
       ELSE mtx' = mtx /\ pc' = [pc EXCEPT ![t] = "test"]
    /\ UNCHANGED <<triggered, refCnt, guard, waiters>>

(* The predicate of cv_.wait(), evaluated with mtx_ held.                  *)
WaitTest(t) ==
    /\ pc[t] = "test"
    /\ pc' = [pc EXCEPT ![t] = IF refCnt = 0 THEN "set" ELSE "block"]
    /\ UNCHANGED <<triggered, refCnt, mtx, guard, waiters>>

(* cv_.wait() releases mtx_ and enqueues the thread in one step.           *)
WaitBlock(t) ==
    /\ pc[t] = "block"
    /\ mtx' = NoThread
    /\ waiters' = waiters \cup {t}
    /\ pc' = [pc EXCEPT ![t] = "waiting"]
    /\ UNCHANGED <<triggered, refCnt, guard>>

(* A condition variable may wake a thread that nobody notified.            *)
SpuriousWakeup(t) ==
    /\ t \in waiters
    /\ waiters' = waiters \ {t}
    /\ pc' = [pc EXCEPT ![t] = "relock"]
    /\ UNCHANGED <<triggered, refCnt, mtx, guard>>

RelockWithoutTest(t) ==
    /\ pc[t] = "relock"
    /\ mtx = NoThread
    /\ mtx' = t
    /\ pc' = [pc EXCEPT ![t] = "set"]
    /\ UNCHANGED <<triggered, refCnt, guard, waiters>>

(* A woken thread owns mtx_ again before the predicate is tested again.    *)
WaitRelock(t) ==
    /\ pc[t] = "relock"
    /\ mtx = NoThread
    /\ mtx' = t
    /\ pc' = [pc EXCEPT ![t] = "test"]
    /\ UNCHANGED <<triggered, refCnt, guard, waiters>>

(* triggered_.store(true); the lock is released at the end of the scope.   *)
TriggerSet(t) ==
    /\ pc[t] = "set"
    /\ triggered' = TRUE
    /\ mtx' = NoThread
    /\ pc' = [pc EXCEPT ![t] = "done"]
    /\ UNCHANGED <<refCnt, guard, waiters>>

-----------------------------------------------------------------------------
GuardStep(g) ==
    \/ AcquireScopedGuard(g)
    \/ ReleaseScopedGuard(g)
    \/ NotifyAll(g)
    \/ DropInactiveGuard(g)

TriggerStep(t) ==
    \/ TriggerLock(t)
    \/ TriggerCheckFlag(t)
    \/ WaitTest(t)
    \/ WaitBlock(t)
    \/ WaitRelock(t)
    \/ TriggerSet(t)

Next ==
    \/ \E g \in Guards : GuardStep(g)
    \/ \E t \in Triggerers : TriggerStep(t) \/ SpuriousWakeup(t)

Spec == Init /\ [][Next]_vars

(* A scope that was entered is left: a running thread takes its next       *)
(* statement.  Nothing obliges a thread to enter a scope, or to call       *)
(* trigger(), and nothing obliges a condition variable to wake spuriously. *)
Fairness ==
    /\ \A g \in Guards : WF_vars(ReleaseScopedGuard(g) \/ NotifyAll(g)
                                    \/ DropInactiveGuard(g))
    /\ \A t \in Triggerers :
          WF_vars(TriggerCheckFlag(t) \/ WaitTest(t) \/ WaitBlock(t)
                     \/ WaitRelock(t) \/ TriggerSet(t))

FairSpec == Spec /\ Fairness

-----------------------------------------------------------------------------
TypeOK ==
    /\ triggered \in BOOLEAN
    /\ refCnt \in Nat
    /\ mtx \in Triggerers \cup {NoThread}
    /\ guard \in [Guards -> GuardStates]
    /\ pc \in [Triggerers -> TriggerStates]
    /\ waiters \subseteq Triggerers

(* ref_cnt_ counts exactly the guards that are in scope and were not       *)
(* refused: what trigger() waits for is that nobody is in a scope.         *)
RefCountExact == refCnt = Cardinality(Held)

(* The promise of the class: once trigger() has set the flag, no guarded   *)
(* scope is open, so the operator bool of a counted guard never turns      *)
(* false while the guard is in scope, although it reads the live flag.     *)
GuardExcludesTrigger == triggered => Held = {}

(* The mutex is owned exactly by the thread that is between taking it and  *)
(* giving it back (a blocked waiter does not own it), so acquirers are     *)
(* never locked out by a trigger() that waits.                             *)
OwnsMutex(t) == pc[t] \in {"check", "test", "block", "set"}
MutexOwnership == \A t \in Triggerers : OwnsMutex(t) <=> mtx = t

(* Between the successful test of the predicate and the store, nobody      *)
(* enters a scope.                                                         *)
TestStillHolds == \A t \in Triggerers : pc[t] = "set" => refCnt = 0

(* A blocked thread is in the queue of cv_, and only then.                 *)
WaitSetExact == waiters = {t \in Triggerers : pc[t] = "waiting"}

(* The inductive invariant behind GuardExcludesTrigger.                    *)
GuardInv ==
    /\ TypeOK
    /\ RefCountExact
    /\ MutexOwnership
    /\ TestStillHolds
    /\ WaitSetExact
    /\ GuardExcludesTrigger

(* A thread that blocked while a guard is still in scope is woken: the     *)
(* last release notifies it, whatever guards come and go in between.       *)
BlockedBehindGuardWakes ==
    \A t \in Triggerers :
        (pc[t] = "waiting" /\ refCnt > 0) ~> (pc[t] # "waiting")

(* TriggerGuard implements the gate: an acquisition enters it, a release   *)
(* leaves it, the store of the flag closes it, and every other statement,  *)
(* a refused acquisition and a repeated trigger() included, is invisible.  *)
Gate == INSTANCE ShutdownGate WITH Scopes <- Guards, inside <- Held,
                                   closed <- triggered
GateSpec == Gate!GateSpec

(* The comment of the class: "Trigger request will unblock and continue    *)
(* when there are no scoped guards in scope."                              *)
TriggerUnblocks ==
    \A t \in Triggerers :
        (pc[t] \notin {"idle", "done", "threw"} /\ [](refCnt = 0))
            ~> (pc[t] \in {"done", "threw"})
=============================================================================
