------------------------------- MODULE Server -------------------------------
(***************************************************************************)
(* A running server (src/src/server.hpp): the accept loop, the sessions it *)
(* starts on the I/O contexts, the control server that adds and            *)
(* deactivates contexts under load, and the shutdown.                      *)
(*                                                                         *)
(* The accept loop is one chain: dispatch() holds the next context and     *)
(* registers async_accept; its handler borrows a session, sets it up on    *)
(* that context, starts it and calls dispatch() again.  The handler runs   *)
(* on the acceptor's context: a dedicated one, or worker context 0.  A     *)
(* session is closed and finalized by a thread of its own context.  The    *)
(* shutdown guard is the gate TriggerGuard is shown to implement, and the  *)
(* session pool the one of module Pool: borrow() gives a free session.     *)
(***************************************************************************)
EXTENDS ContextPool

CONSTANTS Sessions,        \* the sessions of the pool (max_session_pool_size_)
          NumWorkers,      \* the values of num_workers_
          NumThreads,      \* the values of num_threads_per_worker_
          ControlBudget,   \* bound on the number of control requests
          NoSession        \* the accept handler has no session

ASSUME NumWorkersAssumption == NumWorkers \subseteq 1 .. Capacity
ASSUME NumThreadsAssumption == NumThreads \subseteq 1 .. 64
ASSUME SessionsAssumption == IsFiniteSet(Sessions)
ASSUME ControlBudgetAssumption == ControlBudget \in Nat

VARIABLES
    separate,   \* separate_acceptor_thread_
    inside,     \* the scopes that hold the shutdown guard
    closed,     \* the shutdown guard has been triggered
    accept,     \* async_accept: "none", "pending", "done" or "failed"
    pc,         \* where the accept handler is
    accCtx,     \* the context dispatch() chose for the next connection
    cur,        \* the session the handler sets up
    sess,       \* where each session is in its life
    sctx,       \* lscontext_ of each session
    strand,     \* it has borrowed a strand of its context
    invoked,    \* invoked_ of its close_once_flag_
    flagged,    \* the context whose thread is in run_once() of the flag
    stopPc,     \* where Server::stop() is
    stopAt,     \* the context index it has reached
    requests    \* control requests still to come

srvVars == <<separate, inside, closed, accept, pc, accCtx, cur, sess, sctx,
             strand, invoked, flagged, stopPc, stopAt, requests>>
vars == <<ctxVars, srvVars>>

Gate == INSTANCE ShutdownGate WITH Scopes <- {"handler", "dispatch"}

OnAcceptorContext(c) == ~separate /\ c = 0

(* A session lives on a context from setup() until finalize() derefs it.   *)
Attached(c) == {s \in Sessions :
                  /\ sctx[s] = c
                  /\ sess[s] \in {"attached", "ready", "open", "closing"}}

(* Threads of c that are inside a handler, and whether one is free.        *)
InRunOnce(c) == {s \in Sessions : flagged[s] = c}
Busy(c) == Cardinality(InRunOnce(c))
             + IF OnAcceptorContext(c) /\ pc # "idle" THEN 1 ELSE 0
Free(c) == Busy(c) < live[c]

DrainedIgnoringPosted(c) ==
    \/ live[c] = 0
    \/ /\ \A s \in Sessions : sess[s] = "open" => sctx[s] # c
       /\ Busy(c) = 0
       /\ OnAcceptorContext(c) => accept = "none"

(* run() returns, and join() with it, once the io_context has no handler   *)
(* queued or running and no operation pending; without threads, at once.   *)
Drained(c) ==
    \/ live[c] = 0
    \/ /\ \A s \in Sessions : sess[s] \in {"open", "closing"} => sctx[s] # c
       /\ Busy(c) = 0
       /\ OnAcceptorContext(c) => accept = "none"

(***************************************************************************)
(* The constructor has taken a context for the acceptor, and main has      *)
(* called dispatch() once.  The hold on the acceptor's context is never    *)
(* released; when the acceptor shares worker context 0 that pins it.       *)
(***************************************************************************)
InitUnpinned ==
    /\ separate \in BOOLEAN
    /\ \E n \in NumWorkers, t \in NumThreads :
          /\ PoolInit(n, t)
          /\ accCtx = IF separate THEN 0 ELSE 1 % n
          /\ next = (accCtx + 1) % n
          /\ hold = [c \in Contexts |-> IF c = accCtx THEN 1 ELSE 0]
    /\ inside = {} /\ closed = FALSE
    /\ accept = "pending" /\ pc = "idle" /\ cur = NoSession
    /\ sess = [s \in Sessions |-> "pooled"]
    /\ sctx = [s \in Sessions |-> NoContext]
    /\ strand = [s \in Sessions |-> FALSE]
    /\ invoked \in [Sessions -> BOOLEAN]
    /\ flagged = [s \in Sessions |-> NoContext]
    /\ stopPc = "running" /\ stopAt = 0
    /\ requests = ControlBudget

Init ==
    /\ separate \in BOOLEAN
    /\ \E n \in NumWorkers, t \in NumThreads :
          /\ PoolInit(n, t)
          /\ accCtx = IF separate THEN 0 ELSE 1 % n
          /\ next = (accCtx + 1) % n
          /\ hold = [c \in Contexts |->
                       (IF c = accCtx THEN 1 ELSE 0)
                         + IF OnAcceptorContext(c) THEN 1 ELSE 0]
    /\ inside = {} /\ closed = FALSE
    /\ accept = "pending" /\ pc = "idle" /\ cur = NoSession
    /\ sess = [s \in Sessions |-> "pooled"]
    /\ sctx = [s \in Sessions |-> NoContext]
    /\ strand = [s \in Sessions |-> FALSE]
    /\ invoked \in [Sessions -> BOOLEAN]
    /\ flagged = [s \in Sessions |-> NoContext]
    /\ stopPc = "running" /\ stopAt = 0
    /\ requests = ControlBudget

-----------------------------------------------------------------------------
(* The accept handler and dispatch().                                      *)

(* The network delivers a connection, or async_accept fails.               *)
AcceptCompletes ==
    /\ accept = "pending"
    /\ accept' \in {"done", "failed"}
    /\ UNCHANGED <<ctxVars, separate, inside, closed, pc, accCtx, cur, sess, sctx,
                   strand, invoked, flagged, stopPc, stopAt, requests>>

AcceptorThreadFree == separate \/ Free(0)

HandlerUnguarded ==
    /\ accept \in {"done", "failed"}
    /\ pc = "idle"
    /\ AcceptorThreadFree
    /\ inside' = {}
    /\ pc' = "handler"
    /\ UNCHANGED <<ctxVars, closed, separate, accept, accCtx, cur, sess, sctx,
                   strand, invoked, flagged, stopPc, stopAt, requests>>

(* SCOPED_GUARD_OR_RETURN at the head of the handler: it enters ...        *)
HandlerEnter ==
    /\ accept \in {"done", "failed"}
    /\ pc = "idle"
    /\ AcceptorThreadFree
    /\ Gate!Enter("handler")
    /\ pc' = "handler"
    /\ UNCHANGED <<ctxVars, separate, accept, accCtx, cur, sess, sctx, strand,
                   invoked, flagged, stopPc, stopAt, requests>>

(* ... or returns because the server shuts down: the chain ends, with the  *)
(* chosen context still held.                                              *)
HandlerRefused ==
    /\ accept \in {"done", "failed"}
    /\ pc = "idle"
    /\ AcceptorThreadFree
    /\ closed
    /\ accept' = "none"
    /\ UNCHANGED <<ctxVars, separate, inside, closed, pc, accCtx, cur, sess, sctx,
                   strand, invoked, flagged, stopPc, stopAt, requests>>

HandlerBorrowInUse(s) ==
    /\ pc = "handler"
    /\ accept = "done"
    /\ sess[s] \in {"pooled", "open"}
    /\ sess' = [sess EXCEPT ![s] = "borrowed"]
    /\ cur' = s
    /\ accept' = "none"
    /\ pc' = "attach"
    /\ UNCHANGED <<ctxVars, separate, inside, closed, accCtx, sctx, strand,
                   invoked, flagged, stopPc, stopAt, requests>>

(* pool_.borrow(id).                                                       *)
HandlerBorrow(s) ==
    /\ pc = "handler"
    /\ accept = "done"
    /\ sess[s] = "pooled"
    /\ sess' = [sess EXCEPT ![s] = "borrowed"]
    /\ cur' = s
    /\ accept' = "none"
    /\ pc' = "attach"
    /\ UNCHANGED <<ctxVars, separate, inside, closed, accCtx, sctx, strand,
                   invoked, flagged, stopPc, stopAt, requests>>

(* An accept error, or no session left: unhold the context by hand.        *)
HandlerReject ==
    /\ pc = "handler"
    /\ accept = "failed" \/ \A s \in Sessions : sess[s] # "pooled"
    /\ Unhold(accCtx)
    /\ accept' = "none"
    /\ pc' = "dispatch"
    /\ UNCHANGED <<separate, inside, closed, accCtx, cur, sess, sctx, strand,
                   invoked, flagged, stopPc, stopAt, requests>>

SetupWithoutRef ==
    /\ pc = "attach"
    /\ draining # accCtx
    /\ sctx' = [sctx EXCEPT ![cur] = accCtx]
    /\ strand' = [strand EXCEPT ![cur] = numThreads[accCtx] # 1]
    /\ sess' = [sess EXCEPT ![cur] = "attached"]
    /\ pc' = "reset"
    /\ UNCHANGED <<ctxVars, separate, inside, closed, accept, accCtx, cur,
                   invoked, flagged, stopPc, stopAt, requests>>

(* setup(): ref the context, remember it, borrow a strand unless it is     *)
(* single-threaded, take the socket.                                       *)
SetupAttach ==
    /\ pc = "attach"
    /\ Ref(accCtx)
    /\ sctx' = [sctx EXCEPT ![cur] = accCtx]
    /\ strand' = [strand EXCEPT ![cur] = numThreads[accCtx] # 1]
    /\ sess' = [sess EXCEPT ![cur] = "attached"]
    /\ pc' = "reset"
    /\ UNCHANGED <<separate, inside, closed, accept, accCtx, cur, invoked,
                   flagged, stopPc, stopAt, requests>>

ResetWithoutLock ==
    /\ pc = "reset"
    /\ invoked' = [invoked EXCEPT ![cur] = FALSE]
    /\ sess' = [sess EXCEPT ![cur] = "ready"]
    /\ pc' = "start"
    /\ UNCHANGED <<ctxVars, separate, inside, closed, accept, accCtx, cur, sctx,
                   strand, flagged, stopPc, stopAt, requests>>

(* setup(), last statement: close_once_flag_.reset() waits for the mutex   *)
(* that the run_once() of the session's previous life may still own.       *)
SetupReset ==
    /\ pc = "reset"
    /\ flagged[cur] = NoContext
    /\ invoked' = [invoked EXCEPT ![cur] = FALSE]
    /\ sess' = [sess EXCEPT ![cur] = "ready"]
    /\ pc' = "start"
    /\ UNCHANGED <<ctxVars, separate, inside, closed, accept, accCtx, cur, sctx,
                   strand, flagged, stopPc, stopAt, requests>>

(* session_start(): start() and receive().  From here on the threads of    *)
(* the session's context may run, close and re-pool it.                    *)
SessionStart ==
    /\ pc = "start"
    /\ sess' = [sess EXCEPT ![cur] = "open"]
    /\ pc' = "unhold"
    /\ UNCHANGED <<ctxVars, separate, inside, closed, accept, accCtx, cur, sctx,
                   strand, invoked, flagged, stopPc, stopAt, requests>>

(* session_start(), last statement: lscontext_->unhold(), whatever has     *)
(* become of the session meanwhile.                                        *)
SessionStartUnhold ==
    /\ pc = "unhold"
    /\ Unhold(sctx[cur])
    /\ cur' = NoSession
    /\ pc' = "dispatch"
    /\ UNCHANGED <<separate, inside, closed, accept, accCtx, sess, sctx, strand,
                   invoked, flagged, stopPc, stopAt, requests>>

(* dispatch(): hold the next active context and build the socket on it.    *)
DispatchGetContext(c) ==
    /\ pc = "dispatch"
    /\ GetContextRoundRobin(c)
    /\ accCtx' = c
    /\ pc' = "emplaced"
    /\ UNCHANGED <<separate, inside, closed, accept, cur, sess, sctx, strand,
                   invoked, flagged, stopPc, stopAt, requests>>

(* dispatch(): a second guard, then async_accept() is registered.          *)
DispatchRegister ==
    /\ pc = "emplaced"
    /\ Gate!Enter("dispatch")
    /\ accept' = "pending"
    /\ pc' = "return"
    /\ UNCHANGED <<ctxVars, separate, accCtx, cur, sess, sctx, strand, invoked,
                   flagged, stopPc, stopAt, requests>>

(* dispatch() and the handler return: their guards go out of scope.        *)
HandlerReturn ==
    /\ pc = "return"
    /\ inside' = {}
    /\ pc' = "idle"
    /\ UNCHANGED <<ctxVars, separate, closed, accept, accCtx, cur, sess, sctx,
                   strand, invoked, flagged, stopPc, stopAt, requests>>

HandlerStep ==
    \/ HandlerReject \/ SetupAttach \/ SetupReset
    \/ SessionStart \/ SessionStartUnhold
    \/ (\E s \in Sessions : HandlerBorrow(s))
    \/ (\E c \in Contexts : DispatchGetContext(c))
    \/ DispatchRegister \/ HandlerReturn

-----------------------------------------------------------------------------
(* A session on a thread of its context.                                   *)

(* The client leaves or the protocol is done: async_close() posts          *)
(* close_once() to the session's context.                                  *)
SessionClose(s) ==
    /\ sess[s] = "open"
    /\ sess' = [sess EXCEPT ![s] = "closing"]
    /\ UNCHANGED <<ctxVars, separate, inside, closed, accept, pc, accCtx, cur,
                   sctx, strand, invoked, flagged, stopPc, stopAt, requests>>

(* close_once(): run_once() takes the flag's mutex; finalize() closes the  *)
(* socket, returns the strand and derefs the context.  (With the flag set  *)
(* it would do nothing and lose the session: see OpenSessionCanClose.)     *)
CloseOnce(s) ==
    /\ sess[s] = "closing"
    /\ Free(sctx[s])
    /\ flagged[s] = NoContext
    /\ ~invoked[s]
    /\ Deref(sctx[s])
    /\ strand' = [strand EXCEPT ![s] = FALSE]
    /\ sess' = [sess EXCEPT ![s] = "finalizing"]
    /\ flagged' = [flagged EXCEPT ![s] = sctx[s]]
    /\ UNCHANGED <<separate, inside, closed, accept, pc, accCtx, cur, sctx,
                   invoked, stopPc, stopAt, requests>>

(* finalize(), last statement: finalized_() puts the session back into the *)
(* pool while run_once() still holds the mutex.                            *)
FinalizePutBack(s) ==
    /\ sess[s] = "finalizing"
    /\ sess' = [sess EXCEPT ![s] = "pooled"]
    /\ UNCHANGED <<ctxVars, separate, inside, closed, accept, pc, accCtx, cur,
                   sctx, strand, invoked, flagged, stopPc, stopAt, requests>>

(* run_once(): invoked_ = true and the mutex is released.                  *)
RunOnceReturns(s) ==
    /\ flagged[s] # NoContext
    /\ sess[s] # "finalizing"
    /\ invoked' = [invoked EXCEPT ![s] = TRUE]
    /\ flagged' = [flagged EXCEPT ![s] = NoContext]
    /\ UNCHANGED <<ctxVars, separate, inside, closed, accept, pc, accCtx, cur,
                   sess, sctx, strand, stopPc, stopAt, requests>>

-----------------------------------------------------------------------------
(* The control server, and Server::stop() on the signal thread.            *)

ControlRequest ==
    /\ requests > 0
    /\ requests' = requests - 1
    /\ \/ \E n \in ThreadCounts : AddContext(n)
       \/ \E c \in Contexts : DeactivateContext(c)
       \/ \E i \in 0 .. Capacity : DeactivateRefused(i)
    /\ UNCHANGED <<separate, inside, closed, accept, pc, accCtx, cur, sess, sctx,
                   strand, invoked, flagged, stopPc, stopAt>>

ControlJoined(c) ==
    /\ DeactivateDone(c)
    /\ Drained(c)
    /\ UNCHANGED srvVars

(* shutdown_guard_.trigger().                                              *)
Trigger ==
    /\ stopPc = "running"
    /\ Gate!Close
    /\ stopPc' = "triggered"
    /\ UNCHANGED <<ctxVars, separate, accept, pc, accCtx, cur, sess, sctx, strand,
                   invoked, flagged, stopAt, requests>>

CloseAcceptorLazily ==
    /\ stopPc = "triggered"
    /\ stopPc' = IF separate THEN "acceptor" ELSE "lock"
    /\ UNCHANGED <<ctxVars, separate, inside, closed, accept, pc, accCtx, cur, sess,
                   sctx, strand, invoked, flagged, stopAt, requests>>

(* The acceptor is closed: a pending accept is aborted.                    *)
CloseAcceptor ==
    /\ stopPc = "triggered"
    /\ accept' = IF accept = "pending" THEN "failed" ELSE accept
    /\ stopPc' = IF separate THEN "acceptor" ELSE "lock"
    /\ UNCHANGED <<ctxVars, separate, inside, closed, pc, accCtx, cur, sess, sctx,
                   strand, invoked, flagged, stopAt, requests>>

(* acceptor_pool_.stop() joins the acceptor's thread.                      *)
StopAcceptorPool ==
    /\ stopPc = "acceptor"
    /\ accept = "none" /\ pc = "idle"
    /\ stopPc' = "lock"
    /\ UNCHANGED <<ctxVars, separate, inside, closed, accept, pc, accCtx, cur, sess,
                   sctx, strand, invoked, flagged, stopAt, requests>>

(* workers_pool_.stop().                                                   *)
StopWorkers ==
    /\ \/ /\ stopPc = "lock" /\ StopLock
          /\ stopPc' = "workers" /\ UNCHANGED stopAt
       \/ /\ stopPc = "workers" /\ stopAt < size /\ StopContext(stopAt)
          /\ stopPc' = "join" /\ UNCHANGED stopAt
       \/ /\ stopPc = "join" /\ StopContextDone(stopAt) /\ Drained(stopAt)
          /\ stopPc' = "workers" /\ stopAt' = stopAt + 1
       \/ /\ stopPc = "workers" /\ stopAt = size /\ StopUnlock
          /\ stopPc' = "stopped" /\ UNCHANGED stopAt
    /\ UNCHANGED <<separate, inside, closed, accept, pc, accCtx, cur, sess, sctx,
                   strand, invoked, flagged, requests>>

-----------------------------------------------------------------------------
Next ==
    \/ AcceptCompletes
    \/ HandlerEnter
    \/ HandlerRefused
    \/ HandlerStep
    \/ \E s \in Sessions : \/ SessionClose(s) \/ CloseOnce(s)
                           \/ FinalizePutBack(s) \/ RunOnceReturns(s)
    \/ ControlRequest
    \/ \E c \in Contexts : ControlJoined(c)
    \/ Trigger \/ CloseAcceptor \/ StopAcceptorPool \/ StopWorkers

Spec == Init /\ [][Next]_vars

(***************************************************************************)
(* Threads keep running.  A handler that is queued in an io_context gets a *)
(* thread although others compete for it (the queue is first-in,           *)
(* first-out), hence strong fairness.  Clients go away some day.  Nobody   *)
(* is obliged to connect, to send control requests or to stop the server.  *)
(***************************************************************************)
Fairness ==
    /\ SF_vars(HandlerEnter \/ HandlerRefused)
    /\ WF_vars(HandlerStep)
    /\ \A s \in Sessions : /\ WF_vars(SessionClose(s))
                           /\ SF_vars(CloseOnce(s))
                           /\ WF_vars(FinalizePutBack(s))
                           /\ WF_vars(RunOnceReturns(s))
    /\ \A c \in Contexts : WF_vars(ControlJoined(c))
    /\ WF_vars(CloseAcceptor \/ StopAcceptorPool \/ StopWorkers)

FairSpec == Spec /\ Fairness

-----------------------------------------------------------------------------
TypeOK ==
    /\ CtxTypeOK
    /\ separate \in BOOLEAN
    /\ inside \subseteq {"handler", "dispatch"}
    /\ closed \in BOOLEAN
    /\ accept \in {"none", "pending", "done", "failed"}
    /\ pc \in {"idle", "handler", "attach", "reset", "start", "unhold",
               "dispatch", "emplaced", "return"}
    /\ accCtx \in Contexts
    /\ cur \in Sessions \cup {NoSession}
    /\ sess \in [Sessions -> {"pooled", "borrowed", "attached", "ready", "open",
                              "closing", "finalizing"}]
    /\ sctx \in [Sessions -> Contexts \cup {NoContext}]
    /\ strand \in [Sessions -> BOOLEAN]
    /\ invoked \in [Sessions -> BOOLEAN]
    /\ flagged \in [Sessions -> Contexts \cup {NoContext}]
    /\ stopPc \in {"running", "triggered", "acceptor", "lock", "workers",
                   "join", "stopped"}
    /\ stopAt \in 0 .. Capacity
    /\ requests \in 0 .. ControlBudget

(* ref_cnt_ counts the sessions between setup() and finalize(), hold_cnt_  *)
(* the accept in preparation plus the acceptor's own; so the assertions of *)
(* deref() and unhold() never fail, and unhold() in session_start() hits   *)
(* the context dispatch() held although the session may have been          *)
(* finalized on another thread before.                                     *)
CountersExact ==
    \A c \in Contexts :
        /\ ref[c] = Cardinality(Attached(c))
        /\ hold[c] = (IF pc # "dispatch" /\ accCtx = c THEN 1 ELSE 0)
                       + IF OnAcceptorContext(c) THEN 1 ELSE 0

(* The threads of a context outlive its sessions, whatever the control     *)
(* server and the shutdown do: no strand outlives its pool, no posted      *)
(* handler is dropped, and the lscontext_->stopped() branches of           *)
(* async_receive() and async_close() are dead.  The exception is a context *)
(* that never got a thread: add_context() publishes it although            *)
(* set_num_threads() throws, or reuse(0) starts none, and sessions set up  *)
(* on it are stranded.                                                     *)
SessionsOnLiveContexts ==
    \A c \in Contexts : Attached(c) # {} => live[c] > 0 \/ c \in threadless

(* A context whose stop() has returned has no session.  The comment of     *)
(* reusable() says an inactive context may still be draining, and the      *)
(* source asks "XXX Is ref_cnt_ == 0 constraint necessary?": add_context() *)
(* waits for smtx_ while stop() drains, so the constraint only ever keeps  *)
(* it from a context without threads, whose sessions stop() does not wait  *)
(* for.                                                                    *)
StoppedHasNoRefs ==
    \A c \in Existing :
        ~active[c] /\ draining # c /\ ref[c] > 0 => c \in threadless

(* Until the shutdown reaches the workers, a context is active for         *)
(* get_context_round_robin() to find (it would spin for ever otherwise),   *)
(* and the contexts of the pending accept and of the acceptor are active.  *)
HeldContextsActive ==
    ~closed => /\ ActiveContexts # {}
               /\ \A c \in Contexts :
                     hold[c] > 0 \/ OnAcceptorContext(c) => active[c]

(* While a handler prepares a session, its context is neither drained nor  *)
(* being drained, so borrow_strand() cannot block behind stop(), and the   *)
(* guard of the nested dispatch() is never refused.                        *)
HandlerUndisturbed ==
    pc # "idle" => ~closed /\ (pc # "dispatch" => draining # accCtx)

(* A session that runs can be closed: the late "invoked_ = true" of its    *)
(* previous life never hits the flag after setup() has reset it.           *)
OpenSessionCanClose ==
    \A s \in Sessions : sess[s] \in {"ready", "open", "closing"} =>
                          ~invoked[s] /\ flagged[s] = NoContext

(* What the invariants above rest on.  The session in the hands of the     *)
(* handler goes through the stages of setup() with the handler, on the     *)
(* context dispatch() chose; nobody else has a session in such a stage.    *)
SetupInStep ==
    /\ pc = "attach" => cur \in Sessions /\ sess[cur] = "borrowed"
    /\ pc = "reset" => cur \in Sessions /\ sess[cur] = "attached"
    /\ pc = "start" => cur \in Sessions /\ sess[cur] = "ready"
    /\ pc \in {"reset", "start", "unhold"} =>
          cur \in Sessions /\ sctx[cur] = accCtx
    /\ \A s \in Sessions :
          /\ sess[s] \in {"attached", "ready"} =>
                pc \in {"reset", "start"} /\ cur = s
          /\ sess[s] \in {"attached", "ready", "open", "closing"} =>
                sctx[s] \in Contexts

(* The handler runs inside the guard, and the exclusive lock of the pool   *)
(* is with whoever drains a context: the shutdown only after the guard has *)
(* gone off, the control server only a context that is no longer active.   *)
LocksHeld ==
    /\ pc # "idle" => "handler" \in inside
    /\ closed => inside = {}
    /\ stopPc # "running" => closed
    /\ writer = "stop" <=> stopPc \in {"workers", "join"}
    /\ writer = "none" => draining = NoContext
    /\ draining # NoContext => ~active[draining]
    /\ stopAt <= size
    /\ stopPc = "join" => stopAt < size

ServerInv ==
    /\ TypeOK /\ CountersExact /\ HeldContextsActive /\ OpenSessionCanClose
    /\ SetupInStep /\ LocksHeld

(* A context that is active has threads, and one with sessions is active   *)
(* or still being drained, unless add_context() gave it none.              *)
ThreadsUntilDrained ==
    \A c \in Contexts \ threadless :
        /\ active[c] => live[c] > 0
        /\ Attached(c) # {} => live[c] > 0 /\ (active[c] \/ draining = c)

(* Every session object goes through the life that HttpSession sees from   *)
(* inside: from borrow() to the end of setup() nobody uses it yet, and     *)
(* until finalized_() has put it back its close is under way.  So no       *)
(* session is set up, started or lent while it is in use, and none is      *)
(* finalized twice or without a close.                                     *)
Stage(s) == CASE sess[s] \in {"pooled", "borrowed", "attached", "ready"} -> "idle"
              [] sess[s] \in {"closing", "finalizing"} -> "closing"
              [] OTHER -> "open"
Stages == [s \in Sessions |-> Stage(s)]
Life == INSTANCE SessionLife WITH Objects <- Sessions, stage <- Stages
LifeSpec == Life!LifeSpec

(* Every started session is closed and returns to the pool, unless it was  *)
(* set up on a context without threads.                                    *)
SessionsReturn ==
    \A s \in Sessions : sess[s] = "open" ~>
                           sess[s] = "pooled" \/ sctx[s] \in threadless

(* A deactivation returns once the sessions of its context are gone, and   *)
(* the accept loop, which may wait for it in dispatch(), goes on.          *)
DeactivationReturns == writer = "control" ~> writer # "control"
AcceptLoopGoesOn == pc # "idle" ~> pc = "idle"

(* After trigger() the shutdown runs to its end: no thread waits for       *)
(* another that waits for it.                                              *)
StopReturns == closed ~> stopPc = "stopped"
=============================================================================
