---------------------------- MODULE ContextPool -----------------------------
(***************************************************************************)
(* The I/O contexts of a server: LSContext (src/src/lscontext.hpp) and the *)
(* LSContextPool that owns them (src/src/io_context_pool.hpp and .cpp).    *)
(*                                                                         *)
(* A context is an io_context, the threads that run it and two counters:   *)
(* hold_cnt_ (an accept is being prepared for it, it must not go away) and *)
(* ref_cnt_ (sessions that live on it).  The pool hands contexts out round *)
(* robin under a shared lock of smtx_; adding, deactivating and stopping   *)
(* take smtx_ exclusively, and stop() keeps it, and the context's own      *)
(* mtx_, while it joins the threads, that is until the io_context has run  *)
(* out of work.                                                            *)
(***************************************************************************)
EXTENDS Naturals, FiniteSets

CONSTANTS Capacity,       \* max_num_workers_, reserved in lscontexts_
          ThreadCounts,   \* the num_threads arguments of AddContext
          NoContext       \* no context is being stopped

ASSUME CapacityAssumption == Capacity \in Nat \ {0}
ASSUME ThreadCountsAssumption == ThreadCounts \subseteq Nat
ASSUME NoContextAssumption == NoContext \notin Nat

Contexts == 0 .. Capacity - 1

VARIABLES
    size,       \* lscontexts_.size()
    next,       \* the index next_context_ points at
    writer,     \* who owns smtx_ exclusively: "none", "control", "stop"
    draining,   \* the context whose threads stop() joins, its mtx_ held
    active,     \* active_
    hold,       \* hold_cnt_
    ref,        \* ref_cnt_
    numThreads, \* num_threads_
    live,       \* the number of its threads that run the io_context
    threadless  \* history: contexts the last add_context() gave no thread

ctxVars == <<size, next, writer, draining, active, hold, ref, numThreads, live,
             threadless>>

Existing == 0 .. size - 1
ActiveContexts == {c \in Existing : active[c]}

(* lscontexts_ after the constructor has added n contexts of t threads.    *)
PoolInit(n, t) ==
    /\ size = n
    /\ writer = "none"
    /\ draining = NoContext
    /\ active = [c \in Contexts |-> c < n]
    /\ ref = [c \in Contexts |-> 0]
    /\ numThreads = [c \in Contexts |-> IF c < n THEN t ELSE 0]
    /\ live = [c \in Contexts |-> IF c < n THEN t ELSE 0]
    /\ threadless = {}

-----------------------------------------------------------------------------
(* get_context_round_robin(), under a shared lock: skip inactive contexts, *)
(* hold the first active one and leave next_context_ behind it.            *)

Distance(c) == (c + size - next) % size

IsNextActive(c) ==
    /\ c \in ActiveContexts
    /\ \A d \in ActiveContexts : Distance(c) <= Distance(d)

GetContextRoundRobin(c) ==
    /\ writer = "none"
    /\ IsNextActive(c)
    /\ next' = (c + 1) % size
    /\ hold' = [hold EXCEPT ![c] = @ + 1]
    /\ UNCHANGED <<size, writer, draining, active, ref, numThreads, live,
                   threadless>>

Unhold(c) ==
    /\ hold' = [hold EXCEPT ![c] = @ - 1]
    /\ UNCHANGED <<size, next, writer, draining, active, ref, numThreads,
                   live, threadless>>

(* ref() and borrow_strand(): the latter takes the mtx_ of the context,    *)
(* which a stop() keeps while it drains it.                                *)
Ref(c) ==
    /\ draining # c
    /\ ref' = [ref EXCEPT ![c] = @ + 1]
    /\ UNCHANGED <<size, next, writer, draining, active, hold, numThreads,
                   live, threadless>>

Deref(c) ==
    /\ ref' = [ref EXCEPT ![c] = @ - 1]
    /\ UNCHANGED <<size, next, writer, draining, active, hold, numThreads,
                   live, threadless>>

-----------------------------------------------------------------------------
(* add_context(n): reuse the first reusable context, or append one.        *)

Reusable(c) == ~active[c] /\ ref[c] = 0

IsFirstReusable(c) ==
    /\ c \in Existing
    /\ Reusable(c)
    /\ \A d \in Existing : Reusable(d) => c <= d

(* run_threads() starts n threads for c, or none.                          *)
StartThreads(c, n) ==
    /\ live' = [live EXCEPT ![c] = n]
    /\ threadless' = IF n = 0 THEN threadless \cup {c} ELSE threadless \ {c}

(* reuse() takes any thread count, 0 too.                                  *)
ReuseContext(n, c) ==
    /\ writer = "none"
    /\ IsFirstReusable(c)
    /\ active' = [active EXCEPT ![c] = TRUE]
    /\ numThreads' = [numThreads EXCEPT ![c] = n]
    /\ StartThreads(c, n)
    /\ UNCHANGED <<size, next, writer, draining, hold, ref>>

(* set_num_threads() accepts 1 to 64.  It throws after emplace_back() has  *)
(* appended the (active) context: num_threads_ then was never written, and *)
(* no thread is started.                                                   *)
ValidThreadCount(n) == n \in 1 .. 64

AppendContext(n) ==
    /\ writer = "none"
    /\ \A d \in Existing : ~Reusable(d)
    /\ size < Capacity
    /\ size' = size + 1
    /\ active' = [active EXCEPT ![size] = TRUE]
    /\ \E m \in IF ValidThreadCount(n) THEN {n} ELSE ThreadCounts :
          numThreads' = [numThreads EXCEPT ![size] = m]
    /\ StartThreads(size, IF ValidThreadCount(n) THEN n ELSE 0)
    /\ UNCHANGED <<next, writer, draining, hold, ref>>

(* "Max contexts count will be exceeded."                                  *)
AddContextThrows ==
    /\ writer = "none"
    /\ \A d \in Existing : ~Reusable(d)
    /\ size = Capacity
    /\ UNCHANGED ctxVars

AddContext(n) == (\E c \in Contexts : ReuseContext(n, c)) \/ AppendContext(n)
                    \/ AddContextThrows

-----------------------------------------------------------------------------
(* deactivate_context(i) and LSContext::stop().                            *)

DeactivateHeld(c) ==
    /\ writer = "none"
    /\ c \in ActiveContexts
    /\ Cardinality(ActiveContexts) >= 2
    /\ writer' = "control"
    /\ draining' = c
    /\ active' = [active EXCEPT ![c] = FALSE]
    /\ UNCHANGED <<size, next, hold, ref, numThreads, live, threadless>>

(* The three sanity checks and removable() pass: stop(false) marks the     *)
(* context inactive, drops its work guard and starts to join, smtx_ and    *)
(* mtx_ held.                                                              *)
DeactivateContext(c) ==
    /\ writer = "none"
    /\ c \in ActiveContexts
    /\ Cardinality(ActiveContexts) >= 2
    /\ hold[c] = 0
    /\ writer' = "control"
    /\ draining' = c
    /\ active' = [active EXCEPT ![c] = FALSE]
    /\ UNCHANGED <<size, next, hold, ref, numThreads, live, threadless>>

(* A bad index, an inactive context or the last active one throws; a held  *)
(* context answers EBUSY.                                                  *)
DeactivateRefused(i) ==
    /\ writer = "none"
    /\ \/ i \notin ActiveContexts
       \/ Cardinality(ActiveContexts) < 2
       \/ i \in ActiveContexts /\ hold[i] > 0
    /\ UNCHANGED ctxVars

(* join() has returned: the threads are gone, the io_context and the       *)
(* strand pool are replaced, and the locks are released.                   *)
DeactivateDone(c) ==
    /\ writer = "control"
    /\ draining = c
    /\ draining' = NoContext
    /\ writer' = "none"
    /\ live' = [live EXCEPT ![c] = 0]
    /\ UNCHANGED <<size, next, active, hold, ref, numThreads, threadless>>

(* LSContextPool::stop(): smtx_, then stop(true) of every context in turn, *)
(* whatever it holds.                                                      *)
StopLock ==
    /\ writer = "none"
    /\ writer' = "stop"
    /\ UNCHANGED <<size, next, draining, active, hold, ref, numThreads, live,
                   threadless>>

StopContext(c) ==
    /\ writer = "stop"
    /\ draining = NoContext
    /\ draining' = c
    /\ active' = [active EXCEPT ![c] = FALSE]
    /\ UNCHANGED <<size, next, writer, hold, ref, numThreads, live,
                   threadless>>

StopContextDone(c) ==
    /\ writer = "stop"
    /\ draining = c
    /\ draining' = NoContext
    /\ live' = [live EXCEPT ![c] = 0]
    /\ UNCHANGED <<size, next, writer, active, hold, ref, numThreads,
                   threadless>>

StopUnlock ==
    /\ writer = "stop"
    /\ draining = NoContext
    /\ writer' = "none"
    /\ UNCHANGED <<size, next, draining, active, hold, ref, numThreads, live,
                   threadless>>

CtxTypeOK ==
    /\ size \in 0 .. Capacity
    /\ next \in Contexts
    /\ writer \in {"none", "control", "stop"}
    /\ draining \in Contexts \cup {NoContext}
    /\ active \in [Contexts -> BOOLEAN]
    /\ hold \in [Contexts -> Nat]
    /\ ref \in [Contexts -> Nat]
    /\ numThreads \in [Contexts -> Nat]
    /\ live \in [Contexts -> Nat]
    /\ threadless \subseteq Contexts
=============================================================================
