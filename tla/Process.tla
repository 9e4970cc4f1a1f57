------------------------------ MODULE Process -------------------------------
(***************************************************************************)
(* The server process from main() to its exit (src/src/main.cpp): the      *)
(* ServerManager and its server, the Portal with its thread (a Service),   *)
(* the ControlServer and its calls, and the SignalManager.                 *)
(*                                                                         *)
(* What a server does inside is in modules TriggerGuard and Server; here   *)
(* it is created, stopped and deleted, and its stop() may sleep for ever   *)
(* on a lost wakeup and waits for the clients to leave.  Its sessions      *)
(* count and are polled as in module Statistics, by the thread of the      *)
(* portal and by the threads that execute GetStats.                        *)
(***************************************************************************)
EXTENDS Statistics

CONSTANT Callers        \* the threads of gRPC that execute calls (external)

ASSUME CallersAssumption == "portal" \notin Callers /\ Pollers = Callers \cup {"portal"}

VARIABLES
    main,       \* where main() is
    signal,     \* a signal has arrived and waits for its handler
    handler,    \* the thread of the signal manager
    requested,  \* shutdown_requested_ of the portal
    portal,     \* the thread of the portal
    control,    \* the control server takes calls
    call,       \* the calls of AddContext, DeactivateContext, GetContextsInfo
    server,     \* "none", "running", "closing", "stopped" or "deleted"
    threads,    \* threads run in the worker contexts
    clients     \* connections are open, and keep those threads from ending

procVars == <<main, signal, handler, requested, portal, control, call, server,
              threads, clients>>
vars == <<statVars, procVars>>

Init ==
    /\ StatInit
    /\ main = "init" /\ signal = FALSE
    /\ handler = "none" /\ requested = FALSE
    /\ portal = "none" /\ control = FALSE /\ call = {}
    /\ server = "none" /\ threads = FALSE /\ clients = FALSE

Ended == main \in {"exited", "failed", "killed"}

-----------------------------------------------------------------------------
(* main(), up to the end of the startup sequence.                          *)

Starts(from, to) == main = from /\ main' = to

(* create_server<Http>(config).                                            *)
CreateServer ==
    /\ Starts("init", "created")
    /\ server' = "running" /\ threads' = TRUE
    /\ UNCHANGED <<statVars, signal, handler, requested, portal, control, call,
                   clients>>

(* The constructor of the portal starts the control server.                *)
CreatePortal ==
    /\ Starts("created", "portal")
    /\ control' = TRUE
    /\ UNCHANGED <<statVars, signal, handler, requested, portal, call, server, threads,
                   clients>>

(* Bad arguments, no configuration, an address in use: main() returns an   *)
(* error code, or an exception that nobody catches or the null pointer of  *)
(* BuildAndStart() ends the process.                                       *)
StartFails ==
    /\ main \in {"init", "created"}
    /\ main' = "failed"
    /\ UNCHANGED <<statVars, signal, handler, requested, portal, control, call, server,
                   threads, clients>>

StartPortal ==
    /\ Starts("portal", "started")
    /\ portal' = "loop"
    /\ UNCHANGED <<statVars, signal, handler, requested, control, call, server,
                   threads, clients>>

CreateSignalManager ==
    /\ Starts("started", "running")
    /\ handler' = "armed"
    /\ UNCHANGED <<statVars, signal, requested, portal, control, call, server, threads,
                   clients>>

-----------------------------------------------------------------------------
(* SIGINT or SIGTERM: kept while there is a signal manager, else deadly.   *)
SignalArrives ==
    /\ ~Ended
    /\ IF main \in {"running", "joined"}
       THEN signal' = TRUE /\ UNCHANGED main
       ELSE main' = "killed" /\ UNCHANGED signal
    /\ UNCHANGED <<statVars, handler, requested, portal, control, call, server,
                   threads, clients>>

(* handler(): it does not wait for another signal.                         *)
HandleSignal ==
    /\ handler = "armed" /\ signal
    /\ handler' = "trigger"
    /\ UNCHANGED <<statVars, main, signal, requested, portal, control, call, server,
                   threads, clients>>

(* exit_cb_(): server_manager.stop(), which is Server::stop().  Its        *)
(* trigger() returns behind the guards in scope, and the acceptor is       *)
(* closed.                                                                 *)
TriggerPasses ==
    /\ handler = "trigger"
    /\ handler' = "joining"
    /\ server' = "closing"
    /\ UNCHANGED <<statVars, main, signal, requested, portal, control, call, threads,
                   clients>>

(* The last guard was released between the test of trigger() and its wait, *)
(* as module TriggerGuard shows.                                           *)
TriggerSleeps ==
    /\ handler = "trigger"
    /\ handler' = "asleep"
    /\ UNCHANGED <<statVars, main, signal, requested, portal, control, call, server,
                   threads, clients>>

(* The acceptor is still open: the handler of a new connection releases    *)
(* another guard and notifies.                                             *)
TriggerWakes ==
    /\ handler = "asleep"
    /\ handler' = "trigger"
    /\ clients' \in {clients, TRUE}
    /\ UNCHANGED <<statVars, main, signal, requested, portal, control, call, server,
                   threads>>

(* LSContext::stop() joins the threads of every context.                   *)
StopServers ==
    /\ handler = "joining" /\ ~clients
    /\ handler' = "stopped"
    /\ server' = "stopped" /\ threads' = FALSE
    /\ UNCHANGED <<statVars, main, signal, requested, portal, control, call, clients>>

StopPortalLost ==
    /\ handler = "stopped"
    /\ handler' = "ran"
    /\ UNCHANGED <<statVars, main, signal, requested, portal, control, call, server,
                   threads, clients>>

(* ... and portal.stop().                                                  *)
StopPortal ==
    /\ handler = "stopped"
    /\ handler' = "ran"
    /\ requested' = TRUE
    /\ UNCHANGED <<statVars, main, signal, portal, control, call, server, threads,
                   clients>>

-----------------------------------------------------------------------------
(* The thread of the portal: service_loop().                               *)
PortalLoop ==
    /\ portal = "loop"
    /\ IF requested
       THEN portal' = "ended" /\ UNCHANGED statVars
       ELSE portal' = "polling" /\ PollBegin("portal")
    /\ UNCHANGED <<main, signal, handler, requested, control, call, server, threads,
                   clients>>

(* print_stats(), then a sleep of a second.                                *)
PortalPolls ==
    /\ PollStep("portal")
    /\ portal' = IF poll["portal"] = "read" THEN "asleep" ELSE portal
    /\ UNCHANGED <<main, signal, handler, requested, control, call, server, threads,
                   clients>>

PortalWakes ==
    /\ portal = "asleep"
    /\ portal' = "loop"
    /\ UNCHANGED <<statVars, main, signal, handler, requested, control, call, server,
                   threads, clients>>

-----------------------------------------------------------------------------
(* The calls of the control server.                                        *)

GetStats(c) ==
    /\ control /\ c \notin call
    /\ PollBegin(c)
    /\ UNCHANGED procVars

GetStatsGoesOn(c) == PollStep(c) /\ UNCHANGED procVars

(* AddContext, DeactivateContext or GetContextsInfo.                       *)
ControlCall(c) ==
    /\ control /\ c \notin call /\ poll[c] = "idle"
    /\ call' = call \cup {c}
    /\ UNCHANGED <<statVars, main, signal, handler, requested, portal, control, server,
                   threads, clients>>

(* An AddContext starts threads, in a stopped server too, but it waits for *)
(* a stop() that joins with the mutex of the pool held.  A call for a      *)
(* server that does not exist, or that is refused, changes nothing.        *)
ControlReturns(c) ==
    /\ c \in call
    /\ call' = call \ {c}
    /\ threads' \in IF handler = "joining" THEN {threads} ELSE {threads, TRUE}
    /\ UNCHANGED <<statVars, main, signal, handler, requested, portal, control, server,
                   clients>>

(* Sessions are created for connections and count while these are open.    *)
SessionWorks(s) ==
    /\ \/ server = "running" /\ NewSession(s)
       \/ clients /\ Count(s)
    /\ UNCHANGED procVars

(* A client connects; the last of them has left (external).                *)
ClientsConnect ==
    /\ server = "running" /\ threads
    /\ clients' = TRUE
    /\ UNCHANGED <<statVars, main, signal, handler, requested, portal, control, call,
                   server, threads>>

ClientsLeave ==
    /\ clients
    /\ clients' = FALSE
    /\ UNCHANGED <<statVars, main, signal, handler, requested, portal, control, call,
                   server, threads>>

-----------------------------------------------------------------------------
(* main() again: the end.                                                  *)

(* portal.wait() joins the thread of the portal.                           *)
WaitPortal ==
    /\ Starts("running", "joined")
    /\ portal = "ended"
    /\ UNCHANGED <<statVars, signal, handler, requested, portal, control, call, server,
                   threads, clients>>

(* The handler is inside exit_cb_().                                       *)
Exiting == {"trigger", "asleep", "joining", "stopped"}

(* sigman.wait(): ioc_.stop(), and run() returns behind a handler that is  *)
(* running; then the destructor of the signal manager.                     *)
WaitSignalManager ==
    /\ Starts("joined", "teardown")
    /\ handler \notin Exiting
    /\ handler' = "ended"
    /\ UNCHANGED <<statVars, signal, requested, portal, control, call, server, threads,
                   clients>>

(* ~ControlServer(): Shutdown() takes no more calls ...                    *)
ShutdownControl ==
    /\ Starts("teardown", "shutdown")
    /\ control' = FALSE
    /\ UNCHANGED <<statVars, signal, handler, requested, portal, call, server, threads,
                   clients>>

(* ... and returns when the last of them has.                              *)
ControlJoined ==
    /\ Starts("shutdown", "portalgone")
    /\ call = {} /\ \A c \in Callers : poll[c] = "idle"
    /\ UNCHANGED <<statVars, signal, handler, requested, portal, control, call, server,
                   threads, clients>>

DeleteServersUnjoined ==
    /\ Starts("portalgone", "exited")
    /\ server' = "deleted"
    /\ UNCHANGED <<statVars, signal, handler, requested, portal, control, call,
                   threads, clients>>

(* ~ServerManager(): a server is deleted, and ~LSContext() stops and joins *)
(* once more.                                                              *)
DeleteServers ==
    /\ Starts("portalgone", "exited")
    /\ ~clients
    /\ server' = "deleted" /\ threads' = FALSE
    /\ UNCHANGED <<statVars, signal, handler, requested, portal, control, call,
                   clients>>

-----------------------------------------------------------------------------
MainStep ==
    \/ CreateServer \/ CreatePortal \/ StartPortal \/ CreateSignalManager
    \/ WaitPortal \/ WaitSignalManager \/ ShutdownControl \/ ControlJoined
    \/ DeleteServers

HandlerStep == ~Ended /\ (HandleSignal \/ TriggerPasses \/ StopServers \/ StopPortal)
PortalStep == ~Ended /\ (PortalLoop \/ PortalPolls \/ PortalWakes)
CallStep(c) == ~Ended /\ (GetStatsGoesOn(c) \/ ControlReturns(c))

Environment ==
    /\ ~Ended
    /\ \/ TriggerSleeps \/ TriggerWakes \/ ClientsConnect \/ ClientsLeave
       \/ \E c \in Callers : GetStats(c) \/ ControlCall(c)
       \/ \E s \in Sessions : SessionWorks(s)

Next ==
    \/ MainStep \/ StartFails \/ SignalArrives
    \/ HandlerStep \/ PortalStep
    \/ \E c \in Callers : CallStep(c)
    \/ Environment

Spec == Init /\ [][Next]_vars

(* Threads that can go on do.  Nobody has to call, to connect or to send a *)
(* signal, and no race has to be lost or won.  What the code does not      *)
(* guarantee: the clients leave, those of a context that is deactivated,   *)
(* so that a call of the control server returns (unless it waits for a     *)
(* stop() that joins) and the guards in scope are released, and all of     *)
(* them once the acceptor is closed.  Without it stop() waits for ever,    *)
(* and the process with it.                                                *)
FairSpec ==
    /\ Spec
    /\ WF_vars(MainStep) /\ WF_vars(HandlerStep) /\ WF_vars(PortalStep)
    /\ \A c \in Callers : WF_vars(CallStep(c) /\ handler # "joining")
    /\ WF_vars(~Ended /\ server # "running" /\ ClientsLeave)

-----------------------------------------------------------------------------
(* Nobody uses what main() has destroyed: polls and calls find the server  *)
(* undeleted, the portal and the signal handler end before the objects     *)
(* they use; no connection is open in a stopped server, and no thread that *)
(* a late AddContext has started in it survives it.                        *)
TeardownSafe ==
    /\ \A p \in Pollers : poll[p] # "idle" \/ p \in call =>
            server \in {"running", "closing", "stopped"}
    /\ portal \in {"loop", "polling", "asleep"} =>
            main \in {"started", "running", "killed"}
    /\ handler \in Exiting => main \in {"running", "joined"}
    /\ clients => server \in {"running", "closing"}
    /\ main = "exited" => server = "deleted" /\ ~threads

(* The inductive invariant: the types, what each phase of main() says of   *)
(* the objects it owns, and that a poll which is still alone has found the *)
(* totals as it left them.                                                 *)
TypeOK ==
    /\ items \subseteq Sessions
    /\ pending \in [Sessions -> Nat] /\ counted \in [Sessions -> Nat]
    /\ swept \in [Sessions -> Nat] /\ total \in Nat
    /\ poll \in [Pollers -> {"idle", "sweep", "add", "read"}]
    /\ left \in [Pollers -> SUBSET Sessions]
    /\ carry \in [Pollers -> Nat] /\ gathered \in [Pollers -> Nat]
    /\ alone \in [Pollers -> BOOLEAN]
    /\ call \subseteq Callers /\ clients \in BOOLEAN
    /\ handler \in Exiting \cup {"none", "armed", "ran", "ended"}
    /\ portal \in {"none", "loop", "polling", "asleep", "ended"}
    /\ server \in {"none", "running", "closing", "stopped", "deleted"}

Phases ==
    /\ poll["portal"] # "idle" <=> portal = "polling"
    /\ portal = "none" => main \in {"init", "created", "portal", "failed", "killed"}
    /\ portal \in {"loop", "polling", "asleep"} =>
            main \in {"started", "running", "killed"}
    /\ handler \in Exiting \cup {"armed", "ran"} =>
            main \in {"running", "joined"}
    /\ main \in {"teardown", "shutdown", "portalgone", "exited"} => handler = "ended"
    /\ handler = "ended" =>
            main \in {"teardown", "shutdown", "portalgone", "exited", "killed"}
    /\ server \in {"closing", "stopped", "deleted"} =>
            handler \in {"joining", "stopped", "ran", "ended"}
    /\ clients => server \in {"running", "closing"}
    /\ control => main \in {"portal", "started", "running", "joined", "teardown", "killed"}
    /\ \A c \in Callers : poll[c] # "idle" \/ c \in call =>
            main \in {"portal", "started", "running", "joined", "teardown", "shutdown",
                     "killed"}
    /\ main \in {"created", "portal", "started", "running", "joined", "teardown",
                "shutdown", "portalgone"} => server \in {"running", "closing", "stopped"}
    /\ main = "killed" /\ server = "none" =>
            (control = FALSE /\ call = {} /\ \A p \in Pollers : poll[p] = "idle")
    /\ main = "exited" => server = "deleted" /\ ~threads
    /\ server = "deleted" => main = "exited"

Undisturbed ==
    \A p \in Pollers : alone[p] =>
        /\ total = gathered[p]
        /\ \A q \in Pollers \ {p} : ~Sweeping(q)

ProcessInv == TypeOK /\ Phases /\ Undisturbed /\ DeltasSweptOnce

(* Once a signal has reached the signal manager the process ends, if the   *)
(* clients leave, or its handler is found asleep in trigger() again and    *)
(* again, as after the lost wakeup.  Nothing else holds it up: the portal, *)
(* the handler and main() do not wait for each other, nor for the calls    *)
(* that go on arriving, nor a call that waits for stop() for ever.         *)
SignalEndsProcess == <>signal => <>Ended \/ []<>(handler = "asleep")
=============================================================================
