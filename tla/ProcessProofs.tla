--------------------------- MODULE ProcessProofs ----------------------------
(***************************************************************************)
(* The safety of module Process, for every number of sessions, callers and *)
(* counted units: the deltas are swept once, a poll that no other sweep    *)
(* disturbed reads what it has gathered, and nothing is used after main()  *)
(* has destroyed it.  ProcessInv is inductive; Next is split into the      *)
(* steps of a poll, which do not concern main(), and the others, which do  *)
(* not concern the totals.                                                 *)
(***************************************************************************)
EXTENDS Process, TLAPS

LEMMA InitInv == Init => ProcessInv
<1> SUFFICES ASSUME Init PROVE ProcessInv
  OBVIOUS
<1>1. TypeOK
  BY CallersAssumption DEF Init, StatInit, TypeOK, Exiting
<1>2. Phases
  BY CallersAssumption DEF Init, StatInit, Phases, Exiting
<1>3. Undisturbed /\ DeltasSweptOnce
  BY DEF Init, StatInit, Undisturbed, DeltasSweptOnce, Sweeping
<1> QED
  BY <1>1, <1>2, <1>3 DEF ProcessInv

-----------------------------------------------------------------------------
(* The steps of a poll keep the counters together.                         *)
LEMMA PollBeginInv ==
  ASSUME ProcessInv, NEW p \in Pollers, PollBegin(p), call' \subseteq Callers,
         portal' \in {"none", "loop", "polling", "asleep", "ended"},
         server' = server, handler' = handler, clients' = clients
  PROVE  TypeOK' /\ Undisturbed' /\ DeltasSweptOnce'
<1>1. TypeOK'
  BY DEF ProcessInv, TypeOK, PollBegin, Overlapped
<1>2. Undisturbed'
  <2> SUFFICES ASSUME NEW q \in Pollers, alone'[q]
               PROVE  /\ total' = gathered'[q]
                      /\ \A r \in Pollers \ {q} : ~Sweeping(r)'
    BY DEF Undisturbed
  <2>1. q = p /\ \A r \in Pollers \ {p} : ~Sweeping(r)
    BY DEF PollBegin, Overlapped
  <2> QED
    BY <2>1 DEF ProcessInv, TypeOK, PollBegin, Sweeping
<1>3. DeltasSweptOnce'
  BY DEF ProcessInv, DeltasSweptOnce, PollBegin
<1> QED
  BY <1>1, <1>2, <1>3

LEMMA PollStepInv ==
  ASSUME ProcessInv, NEW p \in Pollers, PollStep(p), call' = call,
         portal' \in {"none", "loop", "polling", "asleep", "ended"},
         server' = server, handler' = handler, clients' = clients
  PROVE  TypeOK' /\ Undisturbed' /\ DeltasSweptOnce'
<1> USE DEF ProcessInv, TypeOK
<1>1. ASSUME NEW s \in Sessions, Exchange(p, s)
      PROVE  TypeOK' /\ Undisturbed' /\ DeltasSweptOnce'
  <2>1. TypeOK'
    BY <1>1 DEF Exchange
  <2>2. Undisturbed'
    BY <1>1 DEF Exchange, Undisturbed, Sweeping
  <2>3. DeltasSweptOnce'
    <3> SUFFICES ASSUME NEW t \in Sessions
                 PROVE  counted'[t] = pending'[t] + swept'[t]
      BY DEF DeltasSweptOnce
    <3>1. counted[t] = pending[t] + swept[t] /\ pending[t] \in Nat /\ swept[t] \in Nat
      BY DEF DeltasSweptOnce
    <3> QED
      BY <1>1, <3>1 DEF Exchange
  <2> QED
    BY <2>1, <2>2, <2>3
<1>2. CASE AddDelta(p)
  <2>1. TypeOK' /\ DeltasSweptOnce'
    BY <1>2 DEF AddDelta, DeltasSweptOnce
  <2>2. Undisturbed'
    <3> SUFFICES ASSUME NEW q \in Pollers, alone'[q]
                 PROVE  /\ total' = gathered'[q]
                        /\ \A r \in Pollers \ {q} : ~Sweeping(r)'
      BY DEF Undisturbed
    <3>1. alone[q] /\ total = gathered[q] /\ \A r \in Pollers \ {q} : ~Sweeping(r)
      BY <1>2 DEF AddDelta, Undisturbed
    <3>2. q = p
      BY <1>2, <3>1 DEF AddDelta, Sweeping
    <3> QED
      BY <1>2, <3>1, <3>2 DEF AddDelta, Sweeping
  <2> QED
    BY <2>1, <2>2
<1>3. CASE SweepDone(p)
  BY <1>3 DEF SweepDone, Undisturbed, Sweeping, DeltasSweptOnce
<1>4. CASE ReadTotals(p)
  BY <1>4 DEF ReadTotals, Undisturbed, Sweeping, DeltasSweptOnce
<1> QED
  BY <1>1, <1>2, <1>3, <1>4 DEF PollStep

(* A step that leaves the statistics alone.                                *)
LEMMA NoPollInv ==
  ASSUME ProcessInv, UNCHANGED statVars, call' \subseteq Callers,
         portal' \in {"none", "loop", "polling", "asleep", "ended"},
         server' \in {"none", "running", "closing", "stopped", "deleted"},
         handler' \in Exiting \cup {"none", "armed", "ran", "ended"},
         clients' \in BOOLEAN
  PROVE  TypeOK' /\ Undisturbed' /\ DeltasSweptOnce'
BY DEF ProcessInv, TypeOK, statVars, Undisturbed, Sweeping, DeltasSweptOnce

-----------------------------------------------------------------------------
LEMMA MainInv == ProcessInv /\ (MainStep \/ StartFails \/ SignalArrives) => ProcessInv'
<1> SUFFICES ASSUME ProcessInv, MainStep \/ StartFails \/ SignalArrives
             PROVE  ProcessInv'
  OBVIOUS
<1> USE CallersAssumption
<1>1. TypeOK' /\ Undisturbed' /\ DeltasSweptOnce'
  BY NoPollInv DEF MainStep, CreateServer, CreatePortal, StartPortal,
     CreateSignalManager, WaitPortal, WaitSignalManager, ShutdownControl,
     ControlJoined, DeleteServers, StartFails, SignalArrives, ProcessInv, TypeOK
<1>2. UNCHANGED poll
  BY DEF MainStep, CreateServer, CreatePortal, StartPortal,
     CreateSignalManager, WaitPortal, WaitSignalManager, ShutdownControl,
     ControlJoined, DeleteServers, StartFails, SignalArrives, statVars
<1>3. Phases'
  <2> USE <1>2 DEF ProcessInv, TypeOK, Phases, Starts, Ended, Exiting
  <2>1. CASE CreateServer \/ CreatePortal \/ StartFails
    BY <2>1 DEF CreateServer, CreatePortal, StartFails
  <2>2. CASE StartPortal \/ CreateSignalManager
    BY <2>2 DEF StartPortal, CreateSignalManager
  <2>3. CASE WaitPortal \/ WaitSignalManager
    BY <2>3 DEF WaitPortal, WaitSignalManager
  <2>4. CASE ShutdownControl \/ ControlJoined
    BY <2>4 DEF ShutdownControl, ControlJoined
  <2>5. CASE DeleteServers
    BY <2>5 DEF DeleteServers
  <2>6. CASE SignalArrives
    BY <2>6 DEF SignalArrives
  <2> QED
    BY <2>1, <2>2, <2>3, <2>4, <2>5, <2>6 DEF MainStep
<1> QED
  BY <1>1, <1>3 DEF ProcessInv

LEMMA HandlerInv == ProcessInv /\ HandlerStep => ProcessInv'
<1> SUFFICES ASSUME ProcessInv, HandlerStep PROVE ProcessInv'
  OBVIOUS
<1>1. TypeOK' /\ Undisturbed' /\ DeltasSweptOnce'
  BY NoPollInv DEF HandlerStep, HandleSignal, TriggerPasses, StopServers, StopPortal,
     Exiting, ProcessInv, TypeOK
<1>2. Phases'
  BY DEF HandlerStep, HandleSignal, TriggerPasses, StopServers, StopPortal, ProcessInv,
     TypeOK, Phases, Ended, Exiting, statVars
<1> QED
  BY <1>1, <1>2 DEF ProcessInv

LEMMA PortalInv == ProcessInv /\ PortalStep => ProcessInv'
<1> SUFFICES ASSUME ProcessInv, PortalStep PROVE ProcessInv'
  OBVIOUS
<1>p. "portal" \in Pollers /\ "portal" \notin Callers /\ Callers \subseteq Pollers
  BY CallersAssumption
<1> USE <1>p DEF PortalStep, ProcessInv, TypeOK, Phases, Ended
<1>1. CASE PortalLoop /\ requested
  <2>1. TypeOK' /\ Undisturbed' /\ DeltasSweptOnce'
    BY <1>1, NoPollInv DEF PortalLoop
  <2>2. Phases'
    BY <1>1 DEF PortalLoop, statVars
  <2> QED
    BY <2>1, <2>2
<1>2. CASE PortalLoop /\ ~requested
  <2>1. PollBegin("portal") /\ portal' = "polling"
    BY <1>2 DEF PortalLoop
  <2>2. TypeOK' /\ Undisturbed' /\ DeltasSweptOnce'
    BY <1>2, <2>1, PollBeginInv DEF PortalLoop
  <2>3. Phases'
    BY <1>2, <2>1 DEF PortalLoop, PollBegin
  <2> QED
    BY <2>2, <2>3
<1>3. CASE PortalPolls
  <2>1. PollStep("portal") /\ portal' = IF poll["portal"] = "read" THEN "asleep" ELSE portal
    BY <1>3 DEF PortalPolls
  <2>2. TypeOK' /\ Undisturbed' /\ DeltasSweptOnce'
    BY <1>3, <2>1, PollStepInv DEF PortalPolls
  <2>3. /\ \A c \in Callers : poll'[c] = poll[c]
        /\ poll'["portal"] = "idle" <=> poll["portal"] = "read"
        /\ portal = "polling"
    BY <2>1 DEF PollStep, Exchange, AddDelta, SweepDone, ReadTotals
  <2>4. Phases'
    BY <1>3, <2>1, <2>3 DEF PortalPolls
  <2> QED
    BY <2>2, <2>4
<1>4. CASE PortalWakes
  <2>1. TypeOK' /\ Undisturbed' /\ DeltasSweptOnce'
    BY <1>4, NoPollInv DEF PortalWakes
  <2>2. Phases'
    BY <1>4 DEF PortalWakes, statVars
  <2> QED
    BY <2>1, <2>2
<1> QED
  BY <1>1, <1>2, <1>3, <1>4

LEMMA CallInv ==
  ASSUME ProcessInv, ~Ended, NEW c \in Callers,
         CallStep(c) \/ GetStats(c) \/ ControlCall(c)
  PROVE  ProcessInv'
<1>p. c \in Pollers /\ c # "portal" /\ Callers \subseteq Pollers /\ "portal" \in Pollers
  BY CallersAssumption
<1> USE <1>p DEF CallStep, ProcessInv, TypeOK, Phases, Ended
<1>1. CASE GetStats(c)
  <2>1. TypeOK' /\ Undisturbed' /\ DeltasSweptOnce'
    BY <1>1, PollBeginInv DEF GetStats, procVars
  <2>2. Phases'
    BY <1>1 DEF GetStats, PollBegin, procVars
  <2> QED
    BY <2>1, <2>2
<1>2. CASE GetStatsGoesOn(c)
  <2>1. TypeOK' /\ Undisturbed' /\ DeltasSweptOnce'
    BY <1>2, PollStepInv DEF GetStatsGoesOn, procVars
  <2>2. poll[c] # "idle" /\ \A d \in Pollers \ {c} : poll'[d] = poll[d]
    BY <1>2 DEF GetStatsGoesOn, PollStep, Exchange, AddDelta, SweepDone, ReadTotals
  <2>3. Phases'
    BY <1>2, <2>2 DEF GetStatsGoesOn, procVars
  <2> QED
    BY <2>1, <2>3
<1>3. CASE ControlCall(c) \/ ControlReturns(c)
  <2>1. TypeOK' /\ Undisturbed' /\ DeltasSweptOnce'
    BY <1>3, NoPollInv DEF ControlCall, ControlReturns
  <2>2. /\ poll' = poll /\ main' = main /\ portal' = portal /\ handler' = handler
        /\ control' = control /\ server' = server /\ clients' = clients
        /\ main # "exited" /\ main # "killed"
    BY <1>3 DEF ControlCall, ControlReturns, statVars
  <2>3. \A d \in Callers : poll[d] # "idle" \/ d \in call' =>
            main \in {"portal", "started", "running", "joined", "teardown", "shutdown",
                     "killed"}
    BY <1>3 DEF ControlCall, ControlReturns
  <2>4. Phases'
    BY <2>2, <2>3
  <2> QED
    BY <2>1, <2>4
<1> QED
  BY <1>1, <1>2, <1>3

(* Clients come and go, and a handler that sleeps wakes up, only while     *)
(* there is a server to connect to.                                        *)
LEMMA ClientsInv ==
  ASSUME ProcessInv, ~Ended,
         TriggerSleeps \/ TriggerWakes \/ ClientsConnect \/ ClientsLeave
  PROVE  ProcessInv'
<1>1. /\ UNCHANGED <<statVars, main, portal, control, call, server, threads>>
      /\ clients' \in BOOLEAN
  BY DEF TriggerSleeps, TriggerWakes, ClientsConnect, ClientsLeave, ProcessInv, TypeOK
<1>2. \/ handler' = handler
      \/ handler \in {"trigger", "asleep"} /\ handler' \in {"trigger", "asleep"}
  BY DEF TriggerSleeps, TriggerWakes, ClientsConnect, ClientsLeave
<1>3. clients' => server \in {"running", "closing"}
  <2>1. CASE TriggerWakes
    <3>1. handler = "asleep"
      BY <2>1 DEF TriggerWakes
    <3>2. main \in {"running", "joined"} /\ server \notin {"closing", "stopped", "deleted"}
      BY <3>1 DEF ProcessInv, Phases, Exiting
    <3> QED
      BY <3>2 DEF ProcessInv, Phases
  <2>2. CASE TriggerSleeps \/ ClientsConnect \/ ClientsLeave
    BY <2>2 DEF TriggerSleeps, ClientsConnect, ClientsLeave, ProcessInv, Phases
  <2> QED
    BY <2>1, <2>2
<1>4. handler' \in Exiting \cup {"none", "armed", "ran", "ended"}
  BY <1>2 DEF ProcessInv, TypeOK, Exiting
<1>5. TypeOK' /\ Undisturbed' /\ DeltasSweptOnce'
  BY <1>1, <1>4, NoPollInv DEF ProcessInv, TypeOK
<1>6. Phases'
  BY <1>1, <1>2, <1>3 DEF ProcessInv, Phases, Exiting, statVars
<1> QED
  BY <1>5, <1>6 DEF ProcessInv

LEMMA SessionInv ==
  ASSUME ProcessInv, ~Ended, NEW s \in Sessions, SessionWorks(s)
  PROVE  ProcessInv'
<1> USE DEF ProcessInv, TypeOK, SessionWorks, procVars
<1>1. TypeOK' /\ Undisturbed'
  BY DEF NewSession, Count, Undisturbed, Sweeping
<1>2. DeltasSweptOnce'
  <2> SUFFICES ASSUME NEW t \in Sessions
               PROVE  counted'[t] = pending'[t] + swept'[t]
    BY DEF DeltasSweptOnce
  <2>1. /\ counted[t] = pending[t] + swept[t]
        /\ counted[t] \in Nat /\ pending[t] \in Nat /\ swept[t] \in Nat
    BY DEF DeltasSweptOnce
  <2> QED
    BY <2>1 DEF NewSession, Count
<1>3. Phases'
  BY DEF NewSession, Count, Phases, Ended
<1> QED
  BY <1>1, <1>2, <1>3

-----------------------------------------------------------------------------
(* In every state of a process, the types, the phases of main() and the    *)
(* bookkeeping of the statistics hold.                                     *)
THEOREM ProcessInvariance == Spec => []ProcessInv
<1>1. ProcessInv /\ [Next]_vars => ProcessInv'
  <2> SUFFICES ASSUME ProcessInv, [Next]_vars PROVE ProcessInv'
    OBVIOUS
  <2>1. CASE UNCHANGED vars
    BY <2>1 DEF vars, statVars, procVars, ProcessInv, TypeOK, Phases, Undisturbed,
       Sweeping, DeltasSweptOnce
  <2>2. CASE \E c \in Callers : CallStep(c)
    BY <2>2, CallInv DEF CallStep
  <2>3. CASE Environment
    BY <2>3, CallInv, ClientsInv, SessionInv DEF Environment
  <2> QED
    BY <2>1, <2>2, <2>3, MainInv, HandlerInv, PortalInv DEF Next
<1> QED
  BY InitInv, <1>1, PTL DEF Spec

(* Nothing a session has counted is swept twice or dropped from its delta. *)
THEOREM SweptOnce == Spec => []DeltasSweptOnce
<1>1. ProcessInv => DeltasSweptOnce
  BY DEF ProcessInv
<1> QED
  BY ProcessInvariance, <1>1, PTL

(* A poll that no other sweep has disturbed reads what it has gathered.    *)
THEOREM LonePollReadsItsSweep == Spec => []LoneSweepExact
<1>1. ProcessInv => LoneSweepExact
  BY DEF ProcessInv, Undisturbed, LoneSweepExact
<1> QED
  BY ProcessInvariance, <1>1, PTL

(* No thread uses the portal, the server or the signal manager after       *)
(* main() has destroyed it, and no thread is left when it returns.         *)
THEOREM TeardownIsSafe == Spec => []TeardownSafe
<1>1. ProcessInv => TeardownSafe
  <2> SUFFICES ASSUME ProcessInv PROVE TeardownSafe
    OBVIOUS
  <2>1. ASSUME NEW p \in Pollers, poll[p] # "idle" \/ p \in call
        PROVE  server \in {"running", "closing", "stopped"}
    BY <2>1, CallersAssumption DEF ProcessInv, TypeOK, Phases
  <2> QED
    BY <2>1 DEF ProcessInv, Phases, Exiting, TeardownSafe
<1> QED
  BY ProcessInvariance, <1>1, PTL
=============================================================================
