---------------------------- MODULE ServerProofs ----------------------------
(***************************************************************************)
(* The invariant of the running server, for every number of contexts,      *)
(* sessions and control requests and every mix of thread counts.           *)
(***************************************************************************)
EXTENDS Server, FiniteSetTheorems, TLAPS

(* The sessions of a context are finitely many.                            *)
LEMMA AttachedFinite ==
  ASSUME NEW c
  PROVE  IsFiniteSet(Attached(c)) /\ Cardinality(Attached(c)) \in Nat
<1>1. Attached(c) \in SUBSET Sessions
  BY DEF Attached
<1> QED
  BY <1>1, SessionsAssumption, FS_Subset, FS_CardinalityType

(* The round robin index stays inside the array of contexts.               *)
LEMMA NextInRange ==
  ASSUME NEW k \in Nat, NEW n \in 1 .. Capacity
  PROVE  k % n \in Contexts /\ k % n \in 0 .. n - 1
<1>1. k % n \in 0 .. n - 1
  BY CapacityAssumption
<1> QED
  BY <1>1, CapacityAssumption DEF Contexts

(* While the handler prepares a session, the context it has chosen is      *)
(* active, nobody drains it and the shutdown has not begun.                *)
LEMMA ChosenContext ==
  ASSUME ServerInv, pc # "idle"
  PROVE  /\ ~closed
         /\ stopPc = "running"
         /\ writer # "stop"
         /\ pc # "dispatch" => /\ active[accCtx]
                               /\ draining # accCtx
                               /\ hold[accCtx] > 0
<1>1. ~closed /\ stopPc = "running" /\ writer # "stop"
  BY DEF ServerInv, LocksHeld
<1>2. ASSUME pc # "dispatch"
      PROVE  active[accCtx] /\ draining # accCtx /\ hold[accCtx] > 0
  <2>1. accCtx \in Contexts /\ accCtx # NoContext
    BY CapacityAssumption, NoContextAssumption DEF ServerInv, TypeOK, Contexts
  <2>2. hold[accCtx] > 0
    BY <1>2, <2>1 DEF ServerInv, CountersExact
  <2>3. active[accCtx]
    BY <1>1, <2>1, <2>2 DEF ServerInv, HeldContextsActive
  <2>4. draining # accCtx
    BY <2>1, <2>3 DEF ServerInv, LocksHeld
  <2> QED
    BY <2>2, <2>3, <2>4
<1> QED
  BY <1>1, <1>2

-----------------------------------------------------------------------------
(* A started server satisfies the invariant.                               *)
LEMMA InitServerInv == Init => ServerInv
<1> SUFFICES ASSUME Init PROVE ServerInv
  OBVIOUS
<1>1. PICK n \in NumWorkers, t \in NumThreads :
         /\ PoolInit(n, t)
         /\ accCtx = IF separate THEN 0 ELSE 1 % n
         /\ next = (accCtx + 1) % n
         /\ hold = [c \in Contexts |->
                       (IF c = accCtx THEN 1 ELSE 0)
                         + IF OnAcceptorContext(c) THEN 1 ELSE 0]
  BY DEF Init
<1>2. n \in 1 .. Capacity /\ t \in Nat /\ t > 0
  BY NumWorkersAssumption, NumThreadsAssumption
<1>3. 0 \in Contexts /\ accCtx \in Contexts /\ accCtx \in 0 .. n - 1
  <2>1. 0 \in Contexts /\ 0 \in 0 .. n - 1
    BY <1>2, CapacityAssumption DEF Contexts
  <2>2. 1 % n \in Contexts /\ 1 % n \in 0 .. n - 1
    BY <1>2, NextInRange
  <2> QED
    BY <1>1, <2>1, <2>2
<1>4. next \in Contexts
  <2>1. accCtx + 1 \in Nat
    BY <1>3
  <2> QED
    BY <1>1, <1>2, <2>1, NextInRange
<1>5. TypeOK
  <2>1. CtxTypeOK
    BY <1>1, <1>2, <1>4, CapacityAssumption
    DEF CtxTypeOK, PoolInit, Contexts
  <2>2. requests \in 0 .. ControlBudget /\ stopAt \in 0 .. Capacity
    BY ControlBudgetAssumption, CapacityAssumption DEF Init
  <2> QED
    BY <1>3, <2>1, <2>2 DEF Init, TypeOK
<1>6. CountersExact
  <2> SUFFICES ASSUME NEW c \in Contexts
               PROVE  /\ ref[c] = Cardinality(Attached(c))
                      /\ hold[c] = (IF pc # "dispatch" /\ accCtx = c THEN 1 ELSE 0)
                                     + IF OnAcceptorContext(c) THEN 1 ELSE 0
    BY DEF CountersExact
  <2>1. Attached(c) = {}
    BY DEF Attached, Init
  <2>2. ref[c] = Cardinality(Attached(c))
    BY <1>1, <2>1, FS_EmptySet DEF PoolInit
  <2>3. pc # "dispatch"
    BY DEF Init
  <2> QED
    BY <1>1, <2>2, <2>3
<1>7. HeldContextsActive
  <2>1. 0 \in Existing /\ 0 < n
    BY <1>1, <1>2 DEF Existing, PoolInit
  <2>3. active[0]
    BY <1>1, <1>3, <2>1 DEF PoolInit
  <2>2. ASSUME NEW c \in Contexts, hold[c] > 0 \/ OnAcceptorContext(c)
        PROVE  active[c]
    <3>1. c = accCtx \/ c = 0
      BY <1>1, <2>2 DEF OnAcceptorContext
    <3>2. c < n
      BY <1>2, <1>3, <3>1
    <3> QED
      BY <1>1, <3>2 DEF PoolInit
  <2> QED
    BY <2>1, <2>2, <2>3 DEF HeldContextsActive, ActiveContexts
<1>8. OpenSessionCanClose /\ SetupInStep
  BY DEF Init, OpenSessionCanClose, SetupInStep
<1>9. LocksHeld
  BY <1>1, <1>2 DEF Init, PoolInit, LocksHeld
<1> QED
  BY <1>5, <1>6, <1>7, <1>8, <1>9 DEF ServerInv
-----------------------------------------------------------------------------
(* Steps that leave the contexts and the sessions alone.                   *)
LEMMA QuietOK ==
  ASSUME ServerInv, UNCHANGED <<ctxVars, separate, accCtx, cur, sess, sctx, strand,
                                invoked, flagged, stopAt, requests>>,
         \/ UNCHANGED pc
         \/ pc = "idle" /\ pc' = "handler"
         \/ pc = "emplaced" /\ pc' = "return"
         \/ pc = "return" /\ pc' = "idle",
         accept' \in {"none", "pending", "done", "failed"},
         inside' \subseteq {"handler", "dispatch"}, closed' \in BOOLEAN,
         \/ UNCHANGED stopPc
         \/ /\ stopPc \in {"running", "triggered", "acceptor"}
            /\ stopPc' \in {"triggered", "acceptor", "lock"},
         closed => closed', closed' => inside' = {},
         stopPc' # "running" => closed', pc' # "idle" => "handler" \in inside'
  PROVE  ServerInv'
<1>1. TypeOK'
  BY DEF ServerInv, TypeOK, CtxTypeOK, ctxVars
<1>2. CountersExact'
  <2>1. pc' = "dispatch" <=> pc = "dispatch"
    OBVIOUS
  <2>2. \A c \in Contexts : Attached(c)' = Attached(c)
    BY DEF Attached
  <2> QED
    BY <2>1, <2>2 DEF ServerInv, CountersExact, OnAcceptorContext, ctxVars
<1>3. HeldContextsActive'
  BY DEF ServerInv, HeldContextsActive, ActiveContexts, Existing, OnAcceptorContext,
         ctxVars
<1>4. OpenSessionCanClose'
  BY DEF ServerInv, OpenSessionCanClose
<1>5. SetupInStep'
  BY DEF ServerInv, SetupInStep
<1>6. LocksHeld'
  BY DEF ServerInv, LocksHeld, ctxVars
<1> QED
  BY <1>1, <1>2, <1>3, <1>4, <1>5, <1>6 DEF ServerInv

(* The accept completes, and the handler enters its guard or is refused;   *)
(* the guard of dispatch() is entered and both go out of scope.            *)
LEMMA GuardStepsOK ==
  ASSUME ServerInv,
         \/ AcceptCompletes \/ HandlerEnter \/ HandlerRefused
         \/ DispatchRegister \/ HandlerReturn
  PROVE  ServerInv'
<1>1. stopPc \in {"running", "triggered", "acceptor", "lock", "stopped",
                  "workers", "join"}
      /\ inside \subseteq {"handler", "dispatch"} /\ closed \in BOOLEAN
      /\ accept \in {"none", "pending", "done", "failed"}
  BY DEF ServerInv, TypeOK
<1>2. UNCHANGED <<ctxVars, separate, accCtx, cur, sess, sctx, strand,
                  invoked, flagged, stopPc, stopAt, requests>>
  BY DEF AcceptCompletes, HandlerEnter, HandlerRefused, DispatchRegister,
         HandlerReturn
<1>3. /\ \/ UNCHANGED pc
         \/ pc = "idle" /\ pc' = "handler"
         \/ pc = "emplaced" /\ pc' = "return"
         \/ pc = "return" /\ pc' = "idle"
      /\ accept' \in {"none", "pending", "done", "failed"}
      /\ inside' \subseteq {"handler", "dispatch"}
      /\ closed' = closed
      /\ closed' => inside' = {}
      /\ pc' # "idle" => "handler" \in inside'
  <2>1. CASE AcceptCompletes
    BY <1>1, <2>1 DEF ServerInv, LocksHeld, AcceptCompletes
  <2>5. CASE HandlerRefused
    BY <1>1, <2>5 DEF ServerInv, LocksHeld, HandlerRefused
  <2>2. CASE HandlerEnter
    BY <1>1, <2>2 DEF ServerInv, LocksHeld, HandlerEnter, Gate!Enter
  <2>3. CASE DispatchRegister
    BY <1>1, <2>3 DEF ServerInv, LocksHeld, DispatchRegister, Gate!Enter
  <2>4. CASE HandlerReturn
    BY <1>1, <2>4 DEF ServerInv, LocksHeld, HandlerReturn
  <2> QED
    BY <2>1, <2>2, <2>3, <2>4, <2>5
<1> QED
  BY <1>1, <1>2, <1>3, QuietOK DEF ServerInv, LocksHeld

(* trigger(), the closing of the acceptor and the join of its thread.      *)
LEMMA ShutdownStepsOK ==
  ASSUME ServerInv, Trigger \/ CloseAcceptor \/ StopAcceptorPool
  PROVE  ServerInv'
<1>1. /\ inside \subseteq {"handler", "dispatch"} /\ closed \in BOOLEAN
      /\ accept \in {"none", "pending", "done", "failed"}
  BY DEF ServerInv, TypeOK
<1>2. CASE Trigger
  BY <1>1, <1>2, QuietOK DEF ServerInv, LocksHeld, Trigger, Gate!Close
<1>3. CASE CloseAcceptor
  BY <1>1, <1>3, QuietOK DEF ServerInv, LocksHeld, CloseAcceptor
<1>4. CASE StopAcceptorPool
  BY <1>1, <1>4, QuietOK DEF ServerInv, LocksHeld, StopAcceptorPool
<1> QED
  BY <1>2, <1>3, <1>4

-----------------------------------------------------------------------------
(* Steps on the sessions that touch no context and attach or detach none.  *)
LEMMA SessionStepOK ==
  ASSUME ServerInv,
         UNCHANGED <<ctxVars, separate, inside, closed, accCtx, stopPc, stopAt,
                     requests>>,
         accept' \in {"none", "pending", "done", "failed"},
         cur' \in Sessions \cup {NoSession},
         sess' \in [Sessions -> {"pooled", "borrowed", "attached", "ready", "open",
                                 "closing", "finalizing"}],
         UNCHANGED <<sctx, strand>>,
         invoked' \in [Sessions -> BOOLEAN],
         flagged' \in [Sessions -> Contexts \cup {NoContext}],
         \/ UNCHANGED pc
         \/ pc # "idle" /\ pc # "dispatch" /\ pc' \in {"attach", "start", "unhold"},
         \A s \in Sessions :
             sess'[s] \in {"attached", "ready", "open", "closing"} <=>
             sess[s] \in {"attached", "ready", "open", "closing"},
         OpenSessionCanClose', SetupInStep'
  PROVE  ServerInv'
<1>1. TypeOK'
  BY DEF ServerInv, TypeOK, CtxTypeOK, ctxVars
<1>2. CountersExact'
  <2>1. \A c \in Contexts : Attached(c)' = Attached(c)
    BY DEF Attached
  <2>2. pc' = "dispatch" <=> pc = "dispatch"
    OBVIOUS
  <2> QED
    BY <2>1, <2>2 DEF ServerInv, CountersExact, OnAcceptorContext, ctxVars
<1>3. HeldContextsActive'
  BY DEF ServerInv, HeldContextsActive, ActiveContexts, Existing, OnAcceptorContext,
         ctxVars
<1>4. LocksHeld'
  BY DEF ServerInv, LocksHeld, ctxVars
<1> QED
  BY <1>1, <1>2, <1>3, <1>4 DEF ServerInv

(* pool_.borrow(): the session leaves the pool.                            *)
LEMMA HandlerBorrowOK ==
  ASSUME ServerInv, NEW s \in Sessions, HandlerBorrow(s)
  PROVE  ServerInv'
<1>1. sess' = [sess EXCEPT ![s] = "borrowed"] /\ sess[s] = "pooled"
  BY DEF HandlerBorrow
<1>2. sess' \in [Sessions -> {"pooled", "borrowed", "attached", "ready", "open",
                              "closing", "finalizing"}]
  BY <1>1 DEF ServerInv, TypeOK
<1>3. OpenSessionCanClose'
  BY <1>1, <1>2 DEF ServerInv, TypeOK, OpenSessionCanClose, HandlerBorrow
<1>4. SetupInStep'
  BY <1>1, <1>2 DEF ServerInv, TypeOK, SetupInStep, HandlerBorrow
<1>5. \A r \in Sessions :
          sess'[r] \in {"attached", "ready", "open", "closing"} <=>
          sess[r] \in {"attached", "ready", "open", "closing"}
  BY <1>1, <1>2 DEF ServerInv, TypeOK
<1> QED
  BY <1>2, <1>3, <1>4, <1>5, SessionStepOK DEF ServerInv, TypeOK, HandlerBorrow

(* The reset of the close flag waits for the mutex, so the late            *)
(* "invoked_ = true" of the previous life comes before it.                 *)
LEMMA SetupResetOK ==
  ASSUME ServerInv, SetupReset
  PROVE  ServerInv'
<1>1. cur \in Sessions /\ sess[cur] = "attached" /\ sctx[cur] = accCtx
  BY DEF ServerInv, SetupInStep, SetupReset
<1>2. /\ sess' = [sess EXCEPT ![cur] = "ready"]
      /\ invoked' = [invoked EXCEPT ![cur] = FALSE]
      /\ flagged[cur] = NoContext /\ UNCHANGED <<flagged, sctx, cur, accCtx>>
      /\ pc = "reset" /\ pc' = "start"
  BY DEF SetupReset
<1>3. /\ sess' \in [Sessions -> {"pooled", "borrowed", "attached", "ready", "open",
                                 "closing", "finalizing"}]
      /\ invoked' \in [Sessions -> BOOLEAN]
  BY <1>1, <1>2 DEF ServerInv, TypeOK
<1>4. OpenSessionCanClose'
  BY <1>1, <1>2, <1>3 DEF ServerInv, TypeOK, OpenSessionCanClose
<1>5. SetupInStep'
  BY <1>1, <1>2, <1>3 DEF ServerInv, TypeOK, SetupInStep
<1>6. \A r \in Sessions :
          sess'[r] \in {"attached", "ready", "open", "closing"} <=>
          sess[r] \in {"attached", "ready", "open", "closing"}
  BY <1>1, <1>2, <1>3 DEF ServerInv, TypeOK
<1> QED
  BY <1>2, <1>3, <1>4, <1>5, <1>6, SessionStepOK DEF ServerInv, TypeOK, SetupReset

(* start(): the session is open.                                           *)
LEMMA SessionStartOK ==
  ASSUME ServerInv, SessionStart
  PROVE  ServerInv'
<1>1. cur \in Sessions /\ sess[cur] = "ready" /\ sctx[cur] = accCtx
  BY DEF ServerInv, SetupInStep, SessionStart
<1>2. /\ sess' = [sess EXCEPT ![cur] = "open"]
      /\ UNCHANGED <<invoked, flagged, sctx, cur, accCtx>>
      /\ pc = "start" /\ pc' = "unhold"
  BY DEF SessionStart
<1>3. sess' \in [Sessions -> {"pooled", "borrowed", "attached", "ready", "open",
                              "closing", "finalizing"}]
  BY <1>1, <1>2 DEF ServerInv, TypeOK
<1>4. OpenSessionCanClose'
  BY <1>1, <1>2, <1>3 DEF ServerInv, TypeOK, OpenSessionCanClose
<1>5. SetupInStep'
  BY <1>1, <1>2, <1>3 DEF ServerInv, TypeOK, SetupInStep
<1>6. \A r \in Sessions :
          sess'[r] \in {"attached", "ready", "open", "closing"} <=>
          sess[r] \in {"attached", "ready", "open", "closing"}
  BY <1>1, <1>2, <1>3 DEF ServerInv, TypeOK
<1> QED
  BY <1>2, <1>3, <1>4, <1>5, <1>6, SessionStepOK DEF ServerInv, TypeOK, SessionStart

(* A close is posted, a finalized session goes back to the pool, and       *)
(* run_once() sets its flag when the session is out of finalize().         *)
LEMMA SessionLifeOK ==
  ASSUME ServerInv, NEW s \in Sessions,
         SessionClose(s) \/ FinalizePutBack(s) \/ RunOnceReturns(s)
  PROVE  ServerInv'
<1>1. UNCHANGED <<ctxVars, separate, inside, closed, accept, accCtx, stopPc, stopAt,
                  requests, cur, pc, sctx, strand>>
  BY DEF SessionClose, FinalizePutBack, RunOnceReturns
<1>2. /\ \/ sess[s] = "open" /\ sess' = [sess EXCEPT ![s] = "closing"]
         \/ sess[s] = "finalizing" /\ sess' = [sess EXCEPT ![s] = "pooled"]
         \/ UNCHANGED sess
      /\ \/ /\ flagged[s] # NoContext
            /\ invoked' = [invoked EXCEPT ![s] = TRUE]
            /\ flagged' = [flagged EXCEPT ![s] = NoContext]
            /\ UNCHANGED sess
         \/ UNCHANGED <<invoked, flagged>>
  BY DEF SessionClose, FinalizePutBack, RunOnceReturns
<1>3. /\ sess' \in [Sessions -> {"pooled", "borrowed", "attached", "ready", "open",
                                 "closing", "finalizing"}]
      /\ invoked' \in [Sessions -> BOOLEAN]
      /\ flagged' \in [Sessions -> Contexts \cup {NoContext}]
  BY <1>2 DEF ServerInv, TypeOK
<1>4. OpenSessionCanClose'
  BY <1>2, <1>3 DEF ServerInv, TypeOK, OpenSessionCanClose
<1>5. SetupInStep'
  BY <1>1, <1>2, <1>3 DEF ServerInv, TypeOK, SetupInStep
<1>6. \A r \in Sessions :
          sess'[r] \in {"attached", "ready", "open", "closing"} <=>
          sess[r] \in {"attached", "ready", "open", "closing"}
  BY <1>2, <1>3 DEF ServerInv, TypeOK
<1> QED
  BY <1>1, <1>3, <1>4, <1>5, <1>6, SessionStepOK DEF ServerInv, TypeOK

-----------------------------------------------------------------------------
(* unhold() of the chosen context, by the handler that rejects or by       *)
(* session_start(): exactly the hold of dispatch() is taken back.          *)
LEMMA UnholdOK ==
  ASSUME ServerInv, HandlerReject \/ SessionStartUnhold
  PROVE  ServerInv'
<1>1. /\ Unhold(accCtx)
      /\ pc \in {"handler", "unhold"} /\ pc' = "dispatch"
      /\ UNCHANGED <<separate, inside, closed, accCtx, sess, sctx, strand,
                     invoked, flagged, stopPc, stopAt, requests>>
      /\ accept' \in {"none", accept} /\ cur' \in {cur, NoSession}
  <2>1. CASE HandlerReject
    BY <2>1 DEF HandlerReject
  <2>2. CASE SessionStartUnhold
    BY <2>2 DEF SessionStartUnhold, ServerInv, SetupInStep
  <2> QED
    BY <2>1, <2>2
<1>2. accCtx \in Contexts /\ hold \in [Contexts -> Nat] /\ hold[accCtx] > 0
  BY <1>1, ChosenContext DEF ServerInv, TypeOK, CtxTypeOK
<1>3. /\ hold' = [hold EXCEPT ![accCtx] = @ - 1] /\ hold' \in [Contexts -> Nat]
      /\ UNCHANGED <<size, next, writer, draining, active, ref, numThreads, live, threadless>>
  BY <1>1, <1>2 DEF Unhold
<1>4. TypeOK'
  BY <1>1, <1>3 DEF ServerInv, TypeOK, CtxTypeOK
<1>5. CountersExact'
  <2>1. \A c \in Contexts : Attached(c)' = Attached(c)
    BY <1>1 DEF Attached
  <2> QED
    BY <1>1, <1>2, <1>3, <2>1 DEF ServerInv, CountersExact, OnAcceptorContext
<1>6. HeldContextsActive'
  <2>1. \A c \in Contexts : hold'[c] > 0 => hold[c] > 0
    BY <1>2, <1>3
  <2> QED
    BY <1>1, <1>3, <2>1
    DEF ServerInv, HeldContextsActive, ActiveContexts, Existing, OnAcceptorContext
<1>7. OpenSessionCanClose' /\ SetupInStep'
  BY <1>1 DEF ServerInv, OpenSessionCanClose, SetupInStep
<1>8. LocksHeld'
  BY <1>1, <1>3 DEF ServerInv, LocksHeld
<1> QED
  BY <1>4, <1>5, <1>6, <1>7, <1>8 DEF ServerInv

(* get_context_round_robin(): the next active context is held.             *)
LEMMA DispatchGetContextOK ==
  ASSUME ServerInv, NEW c \in Contexts, DispatchGetContext(c)
  PROVE  ServerInv'
<1>1. /\ pc = "dispatch" /\ pc' = "emplaced" /\ accCtx' = c
      /\ UNCHANGED <<separate, inside, closed, accept, cur, sess, sctx, strand,
                     invoked, flagged, stopPc, stopAt, requests>>
      /\ c \in Existing /\ active[c]
      /\ next' = (c + 1) % size
      /\ hold' = [hold EXCEPT ![c] = @ + 1]
      /\ UNCHANGED <<size, writer, draining, active, ref, numThreads, live, threadless>>
  BY DEF DispatchGetContext, GetContextRoundRobin, IsNextActive, ActiveContexts
<1>2. next' \in Contexts
  <2>1. c + 1 \in Nat /\ size \in 1 .. Capacity
    BY <1>1, CapacityAssumption DEF ServerInv, TypeOK, CtxTypeOK, Existing, Contexts
  <2> QED
    BY <1>1, <2>1, NextInRange
<1>3. hold \in [Contexts -> Nat] /\ hold' \in [Contexts -> Nat]
  BY <1>1 DEF ServerInv, TypeOK, CtxTypeOK
<1>4. TypeOK'
  BY <1>1, <1>2, <1>3 DEF ServerInv, TypeOK, CtxTypeOK
<1>5. CountersExact'
  <2>1. \A d \in Contexts : Attached(d)' = Attached(d)
    BY <1>1 DEF Attached
  <2> QED
    BY <1>1, <1>3, <2>1 DEF ServerInv, CountersExact, OnAcceptorContext
<1>6. HeldContextsActive'
  <2>1. \A d \in Contexts : hold'[d] > 0 => hold[d] > 0 \/ d = c
    BY <1>1, <1>3
  <2>2. ~closed => /\ ActiveContexts # {}
                   /\ \A d \in Contexts :
                         hold'[d] > 0 \/ OnAcceptorContext(d) => active[d]
    BY <1>1, <2>1 DEF ServerInv, HeldContextsActive
  <2> QED
    BY <1>1, <2>2 DEF HeldContextsActive, ActiveContexts, Existing, OnAcceptorContext
<1>7. OpenSessionCanClose' /\ SetupInStep'
  BY <1>1 DEF ServerInv, OpenSessionCanClose, SetupInStep
<1>8. LocksHeld'
  BY <1>1 DEF ServerInv, LocksHeld
<1> QED
  BY <1>4, <1>5, <1>6, <1>7, <1>8 DEF ServerInv

(* setup(): the session joins those of the chosen context.                 *)
LEMMA SetupAttachOK ==
  ASSUME ServerInv, SetupAttach
  PROVE  ServerInv'
<1>1. /\ cur \in Sessions /\ sess[cur] = "borrowed" /\ accCtx \in Contexts
      /\ pc = "attach" /\ pc' = "reset"
      /\ sctx' = [sctx EXCEPT ![cur] = accCtx]
      /\ strand' = [strand EXCEPT ![cur] = numThreads[accCtx] # 1]
      /\ sess' = [sess EXCEPT ![cur] = "attached"]
      /\ UNCHANGED <<separate, inside, closed, accept, accCtx, cur, invoked,
                     flagged, stopPc, stopAt, requests>>
      /\ ref' = [ref EXCEPT ![accCtx] = @ + 1]
      /\ UNCHANGED <<size, next, writer, draining, active, hold, numThreads, live, threadless>>
  BY DEF SetupAttach, Ref, ServerInv, TypeOK, SetupInStep
<1>2. /\ sess' \in [Sessions -> {"pooled", "borrowed", "attached", "ready", "open",
                                 "closing", "finalizing"}]
      /\ sctx' \in [Sessions -> Contexts \cup {NoContext}]
      /\ ref \in [Contexts -> Nat] /\ ref' \in [Contexts -> Nat]
  BY <1>1 DEF ServerInv, TypeOK, CtxTypeOK
<1>3. strand' \in [Sessions -> BOOLEAN]
  BY <1>1 DEF ServerInv, TypeOK
<1>4. TypeOK'
  BY <1>1, <1>2, <1>3 DEF ServerInv, TypeOK, CtxTypeOK
<1>5. CountersExact'
  <2>1. /\ Attached(accCtx)' = Attached(accCtx) \cup {cur}
        /\ cur \notin Attached(accCtx)
    BY <1>1, <1>2 DEF ServerInv, TypeOK, Attached
  <2>2. \A c \in Contexts : c # accCtx => Attached(c)' = Attached(c)
    BY <1>1, <1>2 DEF ServerInv, TypeOK, Attached
  <2>3. Cardinality(Attached(accCtx)') = Cardinality(Attached(accCtx)) + 1
    BY <2>1, AttachedFinite, FS_AddElement
  <2>4. \A c \in Contexts : ref'[c] = Cardinality(Attached(c)')
    BY <1>1, <1>2, <2>2, <2>3 DEF ServerInv, CountersExact
  <2> QED
    BY <1>1, <2>4 DEF ServerInv, CountersExact, OnAcceptorContext
<1>6. HeldContextsActive'
  BY <1>1
  DEF ServerInv, HeldContextsActive, ActiveContexts, Existing, OnAcceptorContext
<1>7. OpenSessionCanClose'
  BY <1>1, <1>2 DEF ServerInv, TypeOK, OpenSessionCanClose
<1>8. SetupInStep'
  BY <1>1, <1>2 DEF ServerInv, TypeOK, SetupInStep
<1>9. LocksHeld'
  BY <1>1 DEF ServerInv, LocksHeld
<1> QED
  BY <1>4, <1>5, <1>6, <1>7, <1>8, <1>9 DEF ServerInv

(* finalize(): the session leaves those of its context.                    *)
LEMMA CloseOnceOK ==
  ASSUME ServerInv, NEW s \in Sessions, CloseOnce(s)
  PROVE  ServerInv'
<1>0. PICK k \in Contexts : k = sctx[s]
  BY DEF CloseOnce, ServerInv, SetupInStep
<1>1. /\ sess[s] = "closing"
      /\ UNCHANGED <<separate, inside, closed, accept, pc, accCtx, cur, sctx,
                     invoked, stopPc, stopAt, requests>>
      /\ strand' = [strand EXCEPT ![s] = FALSE]
      /\ sess' = [sess EXCEPT ![s] = "finalizing"]
      /\ flagged' = [flagged EXCEPT ![s] = k]
      /\ ref' = [ref EXCEPT ![k] = @ - 1]
      /\ UNCHANGED <<size, next, writer, draining, active, hold, numThreads, live, threadless>>
  BY <1>0 DEF CloseOnce, Deref
<1>2. s \in Attached(k)
  BY <1>0, <1>1 DEF Attached
<1>3. /\ Cardinality(Attached(k)) \in Nat /\ Cardinality(Attached(k)) # 0
      /\ Cardinality(Attached(k) \ {s}) = Cardinality(Attached(k)) - 1
  BY <1>2, AttachedFinite, FS_RemoveElement, FS_EmptySet
<1>4. ref[k] = Cardinality(Attached(k)) /\ ref[k] > 0
  BY <1>1, <1>3 DEF ServerInv, CountersExact
<1>5. /\ sess' \in [Sessions -> {"pooled", "borrowed", "attached", "ready", "open",
                                 "closing", "finalizing"}]
      /\ flagged' \in [Sessions -> Contexts \cup {NoContext}]
      /\ strand' \in [Sessions -> BOOLEAN]
      /\ ref \in [Contexts -> Nat]
  BY <1>1 DEF ServerInv, TypeOK, CtxTypeOK
<1>6. ref' \in [Contexts -> Nat]
  BY <1>1, <1>4, <1>5
<1>7. TypeOK'
  BY <1>1, <1>5, <1>6 DEF ServerInv, TypeOK, CtxTypeOK
<1>8. CountersExact'
  <2>1. Attached(k)' = Attached(k) \ {s}
    BY <1>1, <1>5 DEF ServerInv, TypeOK, Attached
  <2>2. \A c \in Contexts : c # k => Attached(c)' = Attached(c)
    BY <1>0, <1>1, <1>5 DEF ServerInv, TypeOK, Attached
  <2>3. \A c \in Contexts : ref'[c] = Cardinality(Attached(c)')
    BY <1>1, <1>3, <1>4, <1>5, <2>1, <2>2 DEF ServerInv, CountersExact
  <2> QED
    BY <1>1, <2>3 DEF ServerInv, CountersExact, OnAcceptorContext
<1>9. HeldContextsActive'
  BY <1>1
  DEF ServerInv, HeldContextsActive, ActiveContexts, Existing, OnAcceptorContext
<1>10. OpenSessionCanClose'
  BY <1>1, <1>5 DEF ServerInv, TypeOK, OpenSessionCanClose
<1>11. SetupInStep'
  BY <1>1, <1>5 DEF ServerInv, TypeOK, SetupInStep
<1>12. LocksHeld'
  BY <1>1 DEF ServerInv, LocksHeld
<1> QED
  BY <1>7, <1>8, <1>9, <1>10, <1>11, <1>12 DEF ServerInv

-----------------------------------------------------------------------------
(* Steps of the control server and of stop() on the contexts: they touch   *)
(* neither the counters nor the sessions.                                  *)
LEMMA ContextStepOK ==
  ASSUME ServerInv,
         UNCHANGED <<separate, inside, closed, accept, pc, accCtx, cur, sess, sctx,
                     strand, invoked, flagged, next, hold, ref>>,
         requests' \in 0 .. ControlBudget,
         size' \in 0 .. Capacity, writer' \in {"none", "control", "stop"},
         draining' \in Contexts \cup {NoContext},
         active' \in [Contexts -> BOOLEAN],
         numThreads' \in [Contexts -> Nat], live' \in [Contexts -> Nat],
         threadless' \subseteq Contexts,
         stopPc' \in {"running", "triggered", "acceptor", "lock", "workers", "join",
                      "stopped"},
         stopAt' \in 0 .. Capacity,
         HeldContextsActive', LocksHeld'
  PROVE  ServerInv'
<1>1. TypeOK'
  BY DEF ServerInv, TypeOK, CtxTypeOK
<1>2. CountersExact'
  <2>1. \A c \in Contexts : Attached(c)' = Attached(c)
    BY DEF Attached
  <2> QED
    BY <2>1 DEF ServerInv, CountersExact, OnAcceptorContext
<1>3. OpenSessionCanClose' /\ SetupInStep'
  BY DEF ServerInv, OpenSessionCanClose, SetupInStep
<1> QED
  BY <1>1, <1>2, <1>3 DEF ServerInv

(* add_context(): a context becomes active again, or one is appended.      *)
LEMMA AddContextOK ==
  ASSUME ServerInv, NEW n \in ThreadCounts, AddContext(n),
         UNCHANGED <<separate, inside, closed, accept, pc, accCtx, cur, sess, sctx,
                     strand, invoked, flagged, stopPc, stopAt>>,
         requests' \in 0 .. ControlBudget
  PROVE  ServerInv'
<1>1. /\ size \in 0 .. Capacity /\ active \in [Contexts -> BOOLEAN]
      /\ numThreads \in [Contexts -> Nat] /\ live \in [Contexts -> Nat]
      /\ Capacity \in Nat /\ n \in Nat /\ threadless \subseteq Contexts
  BY CapacityAssumption, ThreadCountsAssumption DEF ServerInv, TypeOK, CtxTypeOK
<1>2. CASE AddContextThrows
  BY <1>2, ContextStepOK
  DEF AddContextThrows, ctxVars, ServerInv, TypeOK, CtxTypeOK, HeldContextsActive,
      ActiveContexts, Existing, OnAcceptorContext, LocksHeld
<1>3. ASSUME NEW k \in Contexts, writer = "none",
             active' = [active EXCEPT ![k] = TRUE],
             numThreads' \in [Contexts -> Nat], live' \in [Contexts -> Nat],
             threadless' \subseteq Contexts,
             size' \in {size, size + 1}, size' <= Capacity,
             UNCHANGED <<next, writer, draining, hold, ref>>
      PROVE  ServerInv'
  <2>1. /\ active' \in [Contexts -> BOOLEAN] /\ size' \in 0 .. Capacity
        /\ size <= size'
    BY <1>1, <1>3
  <2>2. \A c \in Contexts : active[c] => active'[c]
    BY <1>1, <1>3
  <2>3. HeldContextsActive'
    <3>1. ActiveContexts # {} => ActiveContexts' # {}
      <4> SUFFICES ASSUME NEW d \in ActiveContexts PROVE d \in ActiveContexts'
        OBVIOUS
      <4>1. d \in Existing /\ active[d]
        BY DEF ActiveContexts
      <4>2. d \in Contexts
        BY <1>1, <4>1 DEF Existing, Contexts
      <4>3. d \in Existing'
        <5>1. d \in Nat /\ d < size /\ size \in Nat /\ size' \in Nat /\ size <= size'
          BY <1>1, <2>1, <4>1 DEF Existing
        <5>2. \A x, a, b \in Nat : x < a /\ a <= b => x \in 0 .. b - 1
          OBVIOUS
        <5> QED
          BY <5>1, <5>2, Zenon DEF Existing
      <4> QED
        BY <2>2, <4>1, <4>2, <4>3 DEF ActiveContexts
    <3> QED
      BY <1>3, <2>2, <3>1 DEF ServerInv, HeldContextsActive, OnAcceptorContext
  <2>4. LocksHeld'
    BY <1>1, <1>3, <2>1 DEF ServerInv, TypeOK, LocksHeld
  <2> QED
    BY <1>3, <2>1, <2>3, <2>4, ContextStepOK DEF ServerInv, TypeOK, CtxTypeOK
<1>4. ASSUME NEW k \in Contexts, ReuseContext(n, k) PROVE ServerInv'
  <2>1. /\ writer = "none"
        /\ active' = [active EXCEPT ![k] = TRUE]
        /\ numThreads' = [numThreads EXCEPT ![k] = n]
        /\ live' = [live EXCEPT ![k] = n]
        /\ threadless' \subseteq threadless \cup {k}
        /\ UNCHANGED <<size, next, writer, draining, hold, ref>>
    BY <1>4 DEF ReuseContext, StartThreads
  <2>2. /\ numThreads' \in [Contexts -> Nat] /\ live' \in [Contexts -> Nat]
        /\ size' \in {size, size + 1} /\ size' <= Capacity
        /\ threadless' \subseteq Contexts
    BY <1>1, <2>1
  <2> QED
    BY <1>3, <2>1, <2>2
<1>5. CASE AppendContext(n)
  <2>1. PICK m \in IF ValidThreadCount(n) THEN {n} ELSE ThreadCounts :
           numThreads' = [numThreads EXCEPT ![size] = m]
    BY <1>5 DEF AppendContext
  <2>2. m \in Nat
    BY <1>1, <2>1, ThreadCountsAssumption
  <2>3. size \in Contexts
    BY <1>1, <1>5 DEF AppendContext, Contexts
  <2>4. /\ writer = "none"
        /\ active' = [active EXCEPT ![size] = TRUE]
        /\ size' = size + 1 /\ size < Capacity
        /\ live' = [live EXCEPT ![size] = IF ValidThreadCount(n) THEN n ELSE 0]
        /\ threadless' \subseteq threadless \cup {size}
        /\ UNCHANGED <<next, writer, draining, hold, ref>>
    BY <1>5 DEF AppendContext, StartThreads
  <2>5. /\ numThreads' \in [Contexts -> Nat] /\ live' \in [Contexts -> Nat]
        /\ size' \in {size, size + 1} /\ size' <= Capacity
        /\ threadless' \subseteq Contexts
    BY <1>1, <2>1, <2>2, <2>3, <2>4
  <2>6. PICK k \in Contexts : k = size
    BY <2>3
  <2> QED
    BY <1>3, <2>4, <2>5, <2>6
<1> QED
  BY <1>2, <1>4, <1>5 DEF AddContext

(* deactivate_context(): never the last active context nor a held one.     *)
LEMMA DeactivateContextOK ==
  ASSUME ServerInv, NEW k \in Contexts, DeactivateContext(k),
         UNCHANGED <<separate, inside, closed, accept, pc, accCtx, cur, sess, sctx,
                     strand, invoked, flagged, stopPc, stopAt>>,
         requests' \in 0 .. ControlBudget
  PROVE  ServerInv'
<1>1. /\ writer = "none" /\ writer' = "control" /\ draining' = k
      /\ k \in ActiveContexts /\ Cardinality(ActiveContexts) >= 2 /\ hold[k] = 0
      /\ active' = [active EXCEPT ![k] = FALSE]
      /\ UNCHANGED <<size, next, hold, ref, numThreads, live, threadless>>
  BY DEF DeactivateContext
<1>2. size \in 0 .. Capacity /\ active \in [Contexts -> BOOLEAN] /\ Capacity \in Nat
  BY CapacityAssumption DEF ServerInv, TypeOK, CtxTypeOK
<1>3. active' \in [Contexts -> BOOLEAN] /\ ~active'[k]
  BY <1>1, <1>2
<1>4. HeldContextsActive'
  <2>1. PICK d \in ActiveContexts : d # k
    <3>1. ActiveContexts # {k} /\ ActiveContexts # {}
      <4>1. Cardinality({k}) = 1 /\ Cardinality({}) = 0
        BY FS_Singleton, FS_EmptySet
      <4> QED
        BY <1>1, <4>1
    <3> QED
      BY <1>1, <3>1
  <2>2. d \in Existing /\ d \in Contexts /\ active[d]
    BY <1>2, <2>1 DEF ActiveContexts, Existing, Contexts
  <2>3. d \in ActiveContexts'
    BY <1>1, <1>2, <2>1, <2>2 DEF ActiveContexts, Existing
  <2>4. ASSUME ~closed, NEW c \in Contexts, hold[c] > 0 \/ OnAcceptorContext(c)
        PROVE  active'[c]
    <3>1. active[c]
      BY <2>4 DEF ServerInv, HeldContextsActive
    <3>2. hold[c] > 0
      BY <2>4 DEF ServerInv, CountersExact
    <3>3. c # k
      BY <1>1, <3>2
    <3> QED
      BY <1>1, <1>2, <3>1, <3>3
  <2> QED
    BY <1>1, <2>3, <2>4 DEF HeldContextsActive, OnAcceptorContext
<1>5. LocksHeld'
  BY <1>1, <1>3 DEF ServerInv, LocksHeld
<1> QED
  BY <1>1, <1>2, <1>3, <1>4, <1>5, ContextStepOK DEF ServerInv, TypeOK, CtxTypeOK

(* A request of the control server.                                        *)
LEMMA ControlRequestOK ==
  ASSUME ServerInv, ControlRequest
  PROVE  ServerInv'
<1>1. /\ UNCHANGED <<separate, inside, closed, accept, pc, accCtx, cur, sess, sctx,
                     strand, invoked, flagged, stopPc, stopAt>>
      /\ requests' \in 0 .. ControlBudget
  BY ControlBudgetAssumption DEF ControlRequest, ServerInv, TypeOK
<1>2. ASSUME NEW i \in 0 .. Capacity, DeactivateRefused(i) PROVE ServerInv'
  BY <1>1, <1>2, ContextStepOK
  DEF DeactivateRefused, ctxVars, ServerInv, TypeOK, CtxTypeOK, HeldContextsActive,
      ActiveContexts, Existing, OnAcceptorContext, LocksHeld
<1> QED
  BY <1>1, <1>2, AddContextOK, DeactivateContextOK DEF ControlRequest

(* The threads of the deactivated context are gone.                        *)
LEMMA ControlJoinedOK ==
  ASSUME ServerInv, NEW k \in Contexts, ControlJoined(k)
  PROVE  ServerInv'
<1>1. /\ writer = "control" /\ writer' = "none" /\ draining' = NoContext
      /\ live' = [live EXCEPT ![k] = 0]
      /\ UNCHANGED <<size, next, active, hold, ref, numThreads, threadless>>
      /\ UNCHANGED srvVars
  BY DEF ControlJoined, DeactivateDone
<1>2. live' \in [Contexts -> Nat]
  BY <1>1 DEF ServerInv, TypeOK, CtxTypeOK
<1>3. HeldContextsActive'
  BY <1>1 DEF ServerInv, HeldContextsActive, ActiveContexts, Existing,
              OnAcceptorContext, srvVars
<1>4. LocksHeld'
  BY <1>1 DEF ServerInv, LocksHeld, srvVars
<1> QED
  BY <1>1, <1>2, <1>3, <1>4, ContextStepOK
  DEF ServerInv, TypeOK, CtxTypeOK, srvVars

(* workers_pool_.stop(): it has triggered the guard before, so no handler  *)
(* runs any more, and it walks over all the contexts, active or not.       *)
LEMMA StopWorkersOK ==
  ASSUME ServerInv, StopWorkers
  PROVE  ServerInv'
<1>1. UNCHANGED <<separate, inside, closed, accept, pc, accCtx, cur, sess, sctx,
                  strand, invoked, flagged, requests>>
  BY DEF StopWorkers
<1>2. /\ closed /\ pc = "idle"
      /\ size \in 0 .. Capacity /\ stopAt \in 0 .. Capacity
      /\ active \in [Contexts -> BOOLEAN] /\ Capacity \in Nat
      /\ live \in [Contexts -> Nat]
  BY CapacityAssumption
  DEF StopWorkers, ServerInv, TypeOK, CtxTypeOK, LocksHeld
<1>3. HeldContextsActive'
  BY <1>1, <1>2 DEF HeldContextsActive
<1>4. CASE stopPc = "lock" /\ StopLock /\ stopPc' = "workers" /\ UNCHANGED stopAt
  <2>1. LocksHeld'
    BY <1>1, <1>2, <1>4 DEF ServerInv, LocksHeld, StopLock
  <2> QED
    BY <1>1, <1>3, <1>4, <2>1, ContextStepOK
    DEF ServerInv, TypeOK, CtxTypeOK, StopLock
<1>5. CASE /\ stopPc = "workers" /\ stopAt < size /\ StopContext(stopAt)
           /\ stopPc' = "join" /\ UNCHANGED stopAt
  <2>1. PICK k \in Contexts : k = stopAt
    BY <1>2, <1>5 DEF Contexts
  <2>2. /\ writer = "stop" /\ draining' = k /\ active' = [active EXCEPT ![k] = FALSE]
        /\ UNCHANGED <<size, next, writer, hold, ref, numThreads, live, threadless>>
    BY <1>5, <2>1 DEF StopContext
  <2>3. active' \in [Contexts -> BOOLEAN] /\ ~active'[k]
    BY <1>2, <2>2
  <2>4. LocksHeld'
    BY <1>1, <1>2, <1>5, <2>2, <2>3 DEF ServerInv, LocksHeld
  <2> QED
    BY <1>1, <1>3, <1>5, <2>2, <2>3, <2>4, ContextStepOK
    DEF ServerInv, TypeOK, CtxTypeOK
<1>6. CASE /\ stopPc = "join" /\ StopContextDone(stopAt) /\ Drained(stopAt)
           /\ stopPc' = "workers" /\ stopAt' = stopAt + 1
  <2>1. /\ writer = "stop" /\ draining' = NoContext
        /\ live' = [live EXCEPT ![stopAt] = 0]
        /\ UNCHANGED <<size, next, writer, active, hold, ref, numThreads, threadless>>
    BY <1>6 DEF StopContextDone
  <2>2. live' \in [Contexts -> Nat]
    BY <1>2, <2>1
  <2>3. stopAt < size /\ stopAt' \in 0 .. Capacity /\ stopAt' <= size
    BY <1>2, <1>6 DEF ServerInv, LocksHeld
  <2>4. LocksHeld'
    BY <1>1, <1>2, <1>6, <2>1, <2>3 DEF ServerInv, LocksHeld
  <2> QED
    BY <1>1, <1>3, <1>6, <2>1, <2>2, <2>3, <2>4, ContextStepOK
    DEF ServerInv, TypeOK, CtxTypeOK
<1>7. CASE /\ stopPc = "workers" /\ stopAt = size /\ StopUnlock
           /\ stopPc' = "stopped" /\ UNCHANGED stopAt
  <2>1. LocksHeld'
    BY <1>1, <1>2, <1>7 DEF ServerInv, LocksHeld, StopUnlock
  <2> QED
    BY <1>1, <1>3, <1>7, <2>1, ContextStepOK
    DEF ServerInv, TypeOK, CtxTypeOK, StopUnlock
<1> QED
  BY <1>4, <1>5, <1>6, <1>7 DEF StopWorkers

(* Every step of the server preserves the invariant.                       *)
LEMMA NextServerInv == ServerInv /\ [Next]_vars => ServerInv'
<1> SUFFICES ASSUME ServerInv, [Next]_vars PROVE ServerInv'
  OBVIOUS
<1>1. CASE UNCHANGED vars
  BY <1>1
  DEF vars, srvVars, ctxVars, ServerInv, TypeOK, CtxTypeOK, CountersExact, Attached,
      HeldContextsActive, ActiveContexts, Existing, OnAcceptorContext,
      OpenSessionCanClose, SetupInStep, LocksHeld
<1>2. CASE HandlerStep
  BY <1>2, UnholdOK, SetupAttachOK, SetupResetOK, SessionStartOK, HandlerBorrowOK,
     DispatchGetContextOK, GuardStepsOK DEF HandlerStep
<1>3. CASE \E s \in Sessions : \/ SessionClose(s) \/ CloseOnce(s)
                               \/ FinalizePutBack(s) \/ RunOnceReturns(s)
  BY <1>3, SessionLifeOK, CloseOnceOK
<1>4. CASE AcceptCompletes \/ HandlerEnter \/ HandlerRefused
  BY <1>4, GuardStepsOK
<1>5. CASE ControlRequest \/ \E c \in Contexts : ControlJoined(c)
  BY <1>5, ControlRequestOK, ControlJoinedOK
<1>6. CASE Trigger \/ CloseAcceptor \/ StopAcceptorPool \/ StopWorkers
  BY <1>6, ShutdownStepsOK, StopWorkersOK
<1> QED
  BY <1>1, <1>2, <1>3, <1>4, <1>5, <1>6 DEF Next

(* The invariant of the server holds in every reachable state.             *)
THEOREM ServerInvariant == Spec => []ServerInv
BY InitServerInv, NextServerInv, PTL DEF Spec

(* Every variable stays in its type.                                       *)
THEOREM ServerTypeOK == Spec => []TypeOK
<1>1. ServerInv => TypeOK
  BY DEF ServerInv
<1> QED
  BY <1>1, ServerInvariant, PTL

(* ref_cnt_ and hold_cnt_ always count the sessions and the holds, so the  *)
(* assertions of deref() and unhold() cannot fail.                         *)
THEOREM CountersAreExact == Spec => []CountersExact
<1>1. ServerInv => CountersExact
  BY DEF ServerInv
<1> QED
  BY <1>1, ServerInvariant, PTL

(* get_context_round_robin() always finds an active context, and no held   *)
(* context and not the acceptor's is ever deactivated.                     *)
THEOREM HeldContextsStayActive == Spec => []HeldContextsActive
<1>1. ServerInv => HeldContextsActive
  BY DEF ServerInv
<1> QED
  BY <1>1, ServerInvariant, PTL

(* The accept handler is never overtaken by the shutdown, nor by a         *)
(* deactivation of the context it prepares a session for.                  *)
THEOREM HandlerIsUndisturbed == Spec => []HandlerUndisturbed
<1>1. ServerInv => HandlerUndisturbed
  BY ChosenContext DEF HandlerUndisturbed
<1> QED
  BY <1>1, ServerInvariant, PTL

(* The close flag of a running session is never left set by the run_once() *)
(* of its previous life.                                                   *)
THEOREM OpenSessionsCanClose == Spec => []OpenSessionCanClose
<1>1. ServerInv => OpenSessionCanClose
  BY DEF ServerInv
<1> QED
  BY <1>1, ServerInvariant, PTL

-----------------------------------------------------------------------------
(* When the join of a context with threads has returned, no session is     *)
(* left on it: the open and closing ones keep the io_context busy, and the *)
(* one being set up keeps its context from being drained at all.           *)
LEMMA DrainedIsEmpty ==
  ASSUME ServerInv, ThreadsUntilDrained, NEW k \in Contexts \ threadless,
         draining = k, Drained(k)
  PROVE  Attached(k) = {}
<1>1. CASE live[k] = 0
  BY <1>1 DEF ThreadsUntilDrained
<1>2. CASE live[k] # 0
  <2> SUFFICES ASSUME NEW s \in Attached(k) PROVE FALSE
    OBVIOUS
  <2>1. s \in Sessions /\ sctx[s] = k /\ sess[s] \in {"attached", "ready"}
    BY <1>2 DEF Drained, Attached
  <2>2. pc \in {"reset", "start"} /\ accCtx = k
    BY <2>1 DEF ServerInv, SetupInStep
  <2> QED
    BY <2>2, ChosenContext
<1> QED
  BY <1>1, <1>2

(* Every step keeps the threads of the contexts that have sessions.        *)
LEMMA NextThreads ==
  ASSUME ServerInv, ThreadsUntilDrained, [Next]_vars
  PROVE  ThreadsUntilDrained'
<1> USE NoContextAssumption
<1>1. ASSUME UNCHANGED <<active, live, draining, threadless>>,
             \A c \in Contexts : Attached(c)' \subseteq Attached(c)
      PROVE  ThreadsUntilDrained'
  BY <1>1 DEF ThreadsUntilDrained
<1>2. ASSUME UNCHANGED <<ctxVars, sctx>>,
             \A s \in Sessions :
                 sess'[s] \in {"attached", "ready", "open", "closing"} =>
                 sess[s] \in {"attached", "ready", "open", "closing"}
      PROVE  ThreadsUntilDrained'
  <2>1. \A c \in Contexts : Attached(c)' \subseteq Attached(c)
    BY <1>2 DEF Attached
  <2> QED
    BY <1>1, <1>2, <2>1 DEF ctxVars
<1>3. CASE \/ UNCHANGED vars \/ AcceptCompletes \/ HandlerEnter \/ HandlerRefused
           \/ DispatchRegister \/ HandlerReturn \/ Trigger \/ CloseAcceptor
           \/ StopAcceptorPool
  <2>1. UNCHANGED <<ctxVars, sctx, sess>>
    BY <1>3 DEF vars, srvVars, AcceptCompletes, HandlerEnter, HandlerRefused,
                DispatchRegister, HandlerReturn, Trigger, CloseAcceptor,
                StopAcceptorPool
  <2> QED
    BY <1>2, <2>1
<1>4. CASE HandlerReject \/ SessionStartUnhold \/ \E c \in Contexts : DispatchGetContext(c)
  <2>1. UNCHANGED <<active, live, draining, threadless, sctx, sess>>
    BY <1>4 DEF HandlerReject, SessionStartUnhold, DispatchGetContext, Unhold,
                GetContextRoundRobin
  <2>2. \A c \in Contexts : Attached(c)' \subseteq Attached(c)
    BY <2>1 DEF Attached
  <2> QED
    BY <1>1, <2>1, <2>2
<1>5. CASE SetupReset \/ SessionStart
  <2>1. /\ cur \in Sessions /\ sess[cur] \in {"attached", "ready"}
        /\ UNCHANGED <<ctxVars, sctx>>
        /\ \E v : sess' = [sess EXCEPT ![cur] = v]
    BY <1>5 DEF SetupReset, SessionStart, ServerInv, SetupInStep
  <2> QED
    BY <1>2, <2>1 DEF ServerInv, TypeOK
<1>6. CASE \E s \in Sessions : \/ HandlerBorrow(s) \/ SessionClose(s)
                               \/ FinalizePutBack(s) \/ RunOnceReturns(s)
  <2>1. PICK s \in Sessions : \/ HandlerBorrow(s) \/ SessionClose(s)
                              \/ FinalizePutBack(s) \/ RunOnceReturns(s)
    BY <1>6
  <2>2. /\ UNCHANGED <<ctxVars, sctx>>
        /\ \/ sess' = [sess EXCEPT ![s] = "borrowed"]
           \/ sess' = [sess EXCEPT ![s] = "closing"] /\ sess[s] = "open"
           \/ sess' = [sess EXCEPT ![s] = "pooled"]
           \/ sess' = sess
    BY <2>1 DEF HandlerBorrow, SessionClose, FinalizePutBack, RunOnceReturns
  <2> QED
    BY <1>2, <2>2 DEF ServerInv, TypeOK
<1>7. CASE \E s \in Sessions : CloseOnce(s)
  <2>1. PICK s \in Sessions : CloseOnce(s)
    BY <1>7
  <2>2. /\ UNCHANGED <<active, live, draining, threadless, sctx>>
        /\ sess' = [sess EXCEPT ![s] = "finalizing"]
    BY <2>1 DEF CloseOnce, Deref
  <2>3. \A c \in Contexts : Attached(c)' \subseteq Attached(c)
    BY <2>2 DEF Attached, ServerInv, TypeOK
  <2> QED
    BY <1>1, <2>2, <2>3
<1>8. CASE SetupAttach
  <2>1. active[accCtx] /\ accCtx \in Contexts
    BY <1>8, ChosenContext DEF SetupAttach, ServerInv, TypeOK
  <2>2. /\ UNCHANGED <<active, live, draining, threadless>>
        /\ sctx' = [sctx EXCEPT ![cur] = accCtx]
        /\ sess' = [sess EXCEPT ![cur] = "attached"]
    BY <1>8 DEF SetupAttach, Ref
  <2>3. \A c \in Contexts : c # accCtx => Attached(c)' \subseteq Attached(c)
    BY <2>2 DEF Attached, ServerInv, TypeOK
  <2> QED
    BY <2>1, <2>2, <2>3 DEF ThreadsUntilDrained
<1>9. ASSUME NEW n \in ThreadCounts, AddContext(n), UNCHANGED <<sess, sctx>>
      PROVE  ThreadsUntilDrained'
  <2>1. \A c \in Contexts : Attached(c)' = Attached(c)
    BY <1>9 DEF Attached
  <2>3. ASSUME NEW k \in Contexts, NEW m \in Nat,
               active' = [active EXCEPT ![k] = TRUE], StartThreads(k, m),
               UNCHANGED draining
        PROVE  ThreadsUntilDrained'
    <3>1. /\ live' = [live EXCEPT ![k] = m]
          /\ threadless' = IF m = 0 THEN threadless \cup {k} ELSE threadless \ {k}
      BY <2>3 DEF StartThreads
    <3>2. /\ active \in [Contexts -> BOOLEAN] /\ live \in [Contexts -> Nat]
      BY DEF ServerInv, TypeOK, CtxTypeOK
    <3> SUFFICES ASSUME NEW c \in Contexts, c \notin threadless'
                 PROVE  /\ active'[c] => live'[c] > 0
                        /\ Attached(c)' # {} =>
                              live'[c] > 0 /\ (active'[c] \/ draining' = c)
      BY Zenon DEF ThreadsUntilDrained
    <3>3. CASE c = k
      <4>1. m > 0 /\ live'[c] = m /\ active'[c]
        BY <2>3, <3>1, <3>2, <3>3
      <4> QED
        BY <4>1
    <3>4. CASE c # k
      <4>1. /\ active'[c] = active[c] /\ live'[c] = live[c] /\ draining' = draining
            /\ c \notin threadless /\ Attached(c)' = Attached(c)
        BY <2>1, <2>3, <3>1, <3>2, <3>4
      <4> QED
        BY <4>1 DEF ThreadsUntilDrained
    <3> QED
      BY <3>3, <3>4
  <2>4. ASSUME NEW k \in Contexts, ReuseContext(n, k) PROVE ThreadsUntilDrained'
    BY <2>3, <2>4, ThreadCountsAssumption DEF ReuseContext
  <2>5. CASE AppendContext(n)
    <3>1. PICK k \in Contexts : k = size
      BY <2>5, CapacityAssumption
      DEF AppendContext, Contexts, ServerInv, TypeOK, CtxTypeOK
    <3>2. PICK m \in Nat : m = IF ValidThreadCount(n) THEN n ELSE 0
      BY ThreadCountsAssumption
    <3>3. active' = [active EXCEPT ![k] = TRUE] /\ StartThreads(k, m) /\ UNCHANGED draining
      BY <2>5, <3>1, <3>2 DEF AppendContext
    <3> QED
      BY <2>3, <3>3
  <2>6. CASE AddContextThrows
    BY <1>1, <2>1, <2>6 DEF AddContextThrows, ctxVars
  <2> QED
    BY <1>9, <2>4, <2>5, <2>6 DEF AddContext
<1>10. ASSUME NEW k \in Contexts, draining = NoContext, draining' = k,
              active' = [active EXCEPT ![k] = FALSE],
              UNCHANGED <<live, threadless, sess, sctx>>
       PROVE  ThreadsUntilDrained'
  <2>1. \A c \in Contexts : Attached(c)' = Attached(c)
    BY <1>10 DEF Attached
  <2>2. \A c \in Contexts : c # NoContext
    BY DEF Contexts
  <2> QED
    BY <1>10, <2>1, <2>2 DEF ThreadsUntilDrained, ServerInv, TypeOK, CtxTypeOK
<1>11. ASSUME NEW k \in Contexts, draining = k, Drained(k), draining' = NoContext,
              live' = [live EXCEPT ![k] = 0],
              UNCHANGED <<active, threadless, sess, sctx>>
       PROVE  ThreadsUntilDrained'
  <2>1. \A c \in Contexts : Attached(c)' = Attached(c)
    BY <1>11 DEF Attached
  <2>2. ~active[k] /\ (k \notin threadless => Attached(k) = {})
    BY <1>11, DrainedIsEmpty DEF ServerInv, LocksHeld, Contexts
  <2> QED
    BY <1>11, <2>1, <2>2 DEF ThreadsUntilDrained, ServerInv, TypeOK, CtxTypeOK
<1>12. CASE ControlRequest
  <2>1. UNCHANGED <<sess, sctx>>
    BY <1>12 DEF ControlRequest
  <2>2. ASSUME NEW k \in Contexts, DeactivateContext(k) PROVE ThreadsUntilDrained'
    BY <1>10, <2>1, <2>2 DEF DeactivateContext, ServerInv, LocksHeld
  <2>3. ASSUME NEW i \in 0 .. Capacity, DeactivateRefused(i)
        PROVE  ThreadsUntilDrained'
    BY <1>2, <2>1, <2>3 DEF DeactivateRefused
  <2> QED
    BY <1>9, <1>12, <2>1, <2>2, <2>3 DEF ControlRequest
<1>13. CASE \E c \in Contexts : ControlJoined(c)
  BY <1>11, <1>13 DEF ControlJoined, DeactivateDone, srvVars
<1>14. CASE StopWorkers
  <2>1. UNCHANGED <<sess, sctx>>
    BY <1>14 DEF StopWorkers
  <2>2. CASE StopLock \/ StopUnlock
    <3>1. UNCHANGED <<active, live, draining, threadless>>
      BY <2>2 DEF StopLock, StopUnlock
    <3>2. \A c \in Contexts : Attached(c)' \subseteq Attached(c)
      BY <2>1 DEF Attached
    <3> QED
      BY <1>1, <3>1, <3>2
  <2>3. CASE stopAt < size /\ StopContext(stopAt)
    <3>1. PICK k \in Contexts : k = stopAt
      BY <2>3, CapacityAssumption DEF Contexts, ServerInv, TypeOK, CtxTypeOK
    <3> QED
      BY <1>10, <2>1, <2>3, <3>1 DEF StopContext
  <2>4. CASE stopPc = "join" /\ StopContextDone(stopAt) /\ Drained(stopAt)
    <3>1. PICK k \in Contexts : k = stopAt
      BY <2>4, CapacityAssumption
      DEF Contexts, ServerInv, TypeOK, CtxTypeOK, LocksHeld
    <3> QED
      BY <1>11, <2>1, <2>4, <3>1 DEF StopContextDone
  <2> QED
    BY <1>14, <2>2, <2>3, <2>4 DEF StopWorkers
<1> QED
  BY <1>3, <1>4, <1>5, <1>6, <1>7, <1>8, <1>12, <1>13, <1>14 DEF Next, HandlerStep

(* The same over all behaviours; a server starts with at least one thread  *)
(* per context.                                                            *)
LEMMA ThreadsLast == Spec => []ThreadsUntilDrained
<1>1. Init => ThreadsUntilDrained
  <2> SUFFICES ASSUME Init PROVE ThreadsUntilDrained
    OBVIOUS
  <2>1. PICK n \in NumWorkers, t \in NumThreads : PoolInit(n, t)
    BY DEF Init
  <2>2. t \in Nat /\ t > 0
    BY NumThreadsAssumption
  <2>3. \A c \in Contexts : Attached(c) = {}
    BY DEF Attached, Init
  <2>4. \A c \in Contexts : active[c] => live[c] > 0
    BY <2>1, <2>2 DEF PoolInit
  <2> QED
    BY <2>3, <2>4 DEF ThreadsUntilDrained
<1>2. ServerInv /\ ThreadsUntilDrained /\ [Next]_vars => ThreadsUntilDrained'
  BY NextThreads
<1> QED
  BY <1>1, <1>2, ServerInvariant, PTL DEF Spec

(* The threads of a context outlive its sessions for every sequence of     *)
(* control requests, whatever thread counts they name; only a context that *)
(* was never given a thread has sessions and no thread.                    *)
THEOREM SessionsHaveThreads == Spec => []SessionsOnLiveContexts
<1>1. ThreadsUntilDrained => SessionsOnLiveContexts
  BY DEF ThreadsUntilDrained, SessionsOnLiveContexts
<1> QED
  BY <1>1, ThreadsLast, PTL

(* A context whose stop() has returned has no references unless it was     *)
(* never given a thread: for the others the second conjunct of reusable()  *)
(* is implied by the first.                                                *)
THEOREM StoppedContextsAreFree == Spec => []StoppedHasNoRefs
<1>1. ServerInv /\ ThreadsUntilDrained => StoppedHasNoRefs
  <2> SUFFICES ASSUME ServerInv, ThreadsUntilDrained, NEW c \in Existing,
                      ~active[c], draining # c, ref[c] > 0, c \notin threadless
               PROVE  FALSE
    BY DEF StoppedHasNoRefs
  <2>1. c \in Contexts
    BY CapacityAssumption DEF ServerInv, TypeOK, CtxTypeOK, Existing, Contexts
  <2>2. Attached(c) = {}
    BY <2>1 DEF ThreadsUntilDrained
  <2>3. ref[c] = 0
    BY <2>1, <2>2, FS_EmptySet DEF ServerInv, CountersExact
  <2> QED
    BY <2>3
<1> QED
  BY <1>1, ServerInvariant, ThreadsLast, PTL

(* The steps that leave every session where it is in its life.            *)
LEMMA OtherStepsKeepSessions ==
  ASSUME \/ AcceptCompletes \/ HandlerEnter \/ HandlerRefused \/ HandlerReject
         \/ SessionStartUnhold \/ (\E c \in Contexts : DispatchGetContext(c))
         \/ DispatchRegister \/ HandlerReturn
         \/ (\E s \in Sessions : RunOnceReturns(s))
         \/ ControlRequest \/ (\E c \in Contexts : ControlJoined(c))
         \/ Trigger \/ CloseAcceptor \/ StopAcceptorPool \/ StopWorkers
         \/ UNCHANGED vars
  PROVE  sess' = sess
BY Zenon
   DEF AcceptCompletes, HandlerEnter, HandlerRefused, HandlerReject,
       SessionStartUnhold, DispatchGetContext, DispatchRegister, HandlerReturn,
       RunOnceReturns, ControlRequest, ControlJoined, Trigger, CloseAcceptor,
       StopAcceptorPool, StopWorkers, srvVars, vars

(* The server's sessions implement SessionLife.                            *)
THEOREM SessionsLiveAsPromised == Spec => LifeSpec
<1>1. Init => Life!LifeInit
  <2> SUFFICES ASSUME Init PROVE Life!LifeInit
    OBVIOUS
  <2>1. sess = [s \in Sessions |-> "pooled"]
    BY Zenon DEF Init
  <2>2. \A s \in Sessions : Stage(s) = "idle"
    BY <2>1 DEF Stage
  <2> QED
    BY <2>2 DEF Life!LifeInit, Stages
<1>2. ASSUME NEW s \in Sessions, NEW x, TypeOK, sess' = [sess EXCEPT ![s] = x]
      PROVE  /\ Stages' = [Stages EXCEPT ![s] = Stage(s)']
             /\ sess'[s] = x
  <2>1. /\ sess'[s] = x
        /\ \A t \in Sessions : t # s => sess'[t] = sess[t]
    BY <1>2 DEF TypeOK
  <2>2. \A t \in Sessions : t # s => Stage(t)' = Stage(t)
    BY <2>1 DEF Stage
  <2> QED
    BY <2>1, <2>2 DEF Stages
<1>3. ASSUME NEW s \in Sessions, TypeOK, NEW x, sess' = [sess EXCEPT ![s] = x],
             \/ sess[s] = "ready" /\ x = "open"
             \/ sess[s] = "open" /\ x = "closing"
             \/ sess[s] = "finalizing" /\ x = "pooled"
      PROVE  Life!LifeNext
  <2>1. Stages' = [Stages EXCEPT ![s] = Stage(s)'] /\ sess'[s] = x /\ Stages[s] = Stage(s)
    BY <1>2, <1>3 DEF Stages
  <2>2. \/ Stage(s) = "idle" /\ Stage(s)' = "open"
        \/ Stage(s) = "open" /\ Stage(s)' = "closing"
        \/ Stage(s) = "closing" /\ Stage(s)' = "idle"
    BY <1>3, <2>1 DEF Stage
  <2>3. \/ Life!Moves(s, "idle", "open") \/ Life!Moves(s, "open", "closing")
        \/ Life!Moves(s, "closing", "idle")
    BY <2>1, <2>2 DEF Life!Moves
  <2> QED
    BY <2>3 DEF Life!LifeNext, Life!Start, Life!RequestClose, Life!Finalize
<1>4. ASSUME NEW s \in Sessions, TypeOK, NEW x, sess' = [sess EXCEPT ![s] = x],
             \/ /\ sess[s] \in {"pooled", "borrowed", "attached"}
                /\ x \in {"borrowed", "attached", "ready"}
             \/ sess[s] = "closing" /\ x = "finalizing"
      PROVE  Stages' = Stages
  <2>1. Stages' = [Stages EXCEPT ![s] = Stage(s)'] /\ sess'[s] = x /\ Stages[s] = Stage(s)
    BY <1>2, <1>4 DEF Stages
  <2>2. Stage(s)' = Stage(s)
    BY <1>4, <2>1 DEF Stage
  <2> QED
    BY <2>1, <2>2 DEF Stages
<1>5. ASSUME sess' = sess PROVE Stages' = Stages
  BY <1>5 DEF Stage, Stages
<1>6. ServerInv /\ [Next]_vars => [Life!LifeNext]_Stages
  <2> SUFFICES ASSUME ServerInv, [Next]_vars PROVE [Life!LifeNext]_Stages
    OBVIOUS
  <2>0. TypeOK /\ SetupInStep
    BY DEF ServerInv
  <2>1. ASSUME NEW s \in Sessions, HandlerBorrow(s) PROVE Stages' = Stages
    <3>1. sess[s] = "pooled" /\ sess' = [sess EXCEPT ![s] = "borrowed"]
      BY <2>1 DEF HandlerBorrow
    <3> QED
      BY <1>4, <2>0, <3>1
  <2>2. CASE SetupAttach
    <3>1. cur \in Sessions /\ sess[cur] = "borrowed" /\ sess' = [sess EXCEPT ![cur] = "attached"]
      BY <2>0, <2>2 DEF SetupAttach, SetupInStep
    <3> QED
      BY <1>4, <2>0, <3>1
  <2>3. CASE SetupReset
    <3>1. cur \in Sessions /\ sess[cur] = "attached" /\ sess' = [sess EXCEPT ![cur] = "ready"]
      BY <2>0, <2>3 DEF SetupReset, SetupInStep
    <3> QED
      BY <1>4, <2>0, <3>1
  <2>4. CASE SessionStart
    <3>1. cur \in Sessions /\ sess[cur] = "ready" /\ sess' = [sess EXCEPT ![cur] = "open"]
      BY <2>0, <2>4 DEF SessionStart, SetupInStep
    <3> QED
      BY <1>3, <2>0, <3>1
  <2>5. ASSUME NEW s \in Sessions, SessionClose(s) PROVE Life!LifeNext
    <3>1. sess[s] = "open" /\ sess' = [sess EXCEPT ![s] = "closing"]
      BY <2>5 DEF SessionClose
    <3> QED
      BY <1>3, <2>0, <3>1
  <2>6. ASSUME NEW s \in Sessions, CloseOnce(s) PROVE Stages' = Stages
    <3>1. sess[s] = "closing" /\ sess' = [sess EXCEPT ![s] = "finalizing"]
      BY <2>6 DEF CloseOnce
    <3> QED
      BY <1>4, <2>0, <3>1
  <2>7. ASSUME NEW s \in Sessions, FinalizePutBack(s) PROVE Life!LifeNext
    <3>1. sess[s] = "finalizing" /\ sess' = [sess EXCEPT ![s] = "pooled"]
      BY <2>7 DEF FinalizePutBack
    <3> QED
      BY <1>3, <2>0, <3>1
  <2>8. CASE \/ AcceptCompletes \/ HandlerEnter \/ HandlerRefused \/ HandlerReject
             \/ SessionStartUnhold \/ (\E c \in Contexts : DispatchGetContext(c))
             \/ DispatchRegister \/ HandlerReturn
             \/ (\E s \in Sessions : RunOnceReturns(s))
             \/ ControlRequest \/ (\E c \in Contexts : ControlJoined(c))
             \/ Trigger \/ CloseAcceptor \/ StopAcceptorPool \/ StopWorkers
             \/ UNCHANGED vars
    BY <1>5, <2>8, OtherStepsKeepSessions
  <2> QED
    BY <2>1, <2>2, <2>3, <2>4, <2>5, <2>6, <2>7, <2>8, Zenon DEF Next, HandlerStep
<1> QED
  BY <1>1, <1>6, ServerInvariant, PTL DEF Spec, LifeSpec, Life!LifeSpec
=============================================================================
