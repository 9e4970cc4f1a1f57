--------------------------- MODULE VirtualMachine ---------------------------
(***************************************************************************)
(* The resource locks of the virtual machine that all HTTP sessions share  *)
(* (src/src/lsvm.hpp), and the transactions whose VScripts use them        *)
(* (src/src/program.hpp, src/src/vm_instructions.cpp, src/src/http.hpp).   *)
(*                                                                         *)
(* feed() runs every instruction of a VScript on the I/O thread that       *)
(* called on_data(), so a LOCK that has to wait blocks that thread.  What  *)
(* a VScript has locked and not unlocked is released by the cleanup() of   *)
(* Program::reset(), which runs when the response has been sent or the     *)
(* session is closed, again on a thread of the session's context.          *)
(* Program::stop() has no caller: no transaction is ever cancelled.        *)
(***************************************************************************)
EXTENDS Naturals, Sequences, FiniteSets

CONSTANTS Sessions,     \* the sessions, Program::session_id()
          Resources,    \* the keys of resources_, looked up before
          Contexts,     \* the I/O contexts
          ContextOf,    \* the context each session is attached to
          ThreadsOf,    \* the number of threads of each context
          Scripts,      \* VScripts: sequences of instructions
          Budget,       \* bound on the transactions of one session
          NoSession     \* holder_id of a fresh resource; mtx_ is not owned

ASSUME VMNoSession == NoSession \notin Sessions
ASSUME VMContexts == /\ ContextOf \in [Sessions -> Contexts]
                     /\ ThreadsOf \in [Contexts -> Nat \ {0}]
ASSUME VMScripts ==
    \A p \in Scripts :
        p \in Seq([op : {"LOCK", "UNLOCK"}, num : Resources] \cup [op : {"WORK"}])
ASSUME VMBudget == Budget \in Nat

VARIABLES
    taken,      \* taken of each VMResource
    holderId,   \* its holder_id
    writer,     \* the session whose cleanup() owns mtx_ exclusively
    script,     \* the VScript of each session
    at,         \* the instruction it has reached
    phase,      \* where the session's transaction is
    toVisit,    \* the resources cleanup() has still to look at
    has,        \* the resources LOCK gave the session, not yet given back
    left        \* transactions still to come

vars == <<taken, holderId, writer, script, at, phase, toVisit, has, left>>

(***************************************************************************)
(* "idle": between transactions.  "feed": in Program::feed().  "wait": in  *)
(* lock() behind the lookup, "release": in unlock() behind the lookup.     *)
(* "sending": the response is on its way, no thread is occupied.           *)
(* "cleanup": in LSVirtualMachine::cleanup().                              *)
(***************************************************************************)
Phases == {"idle", "feed", "wait", "release", "sending", "cleanup"}

OnThread(s) == phase[s] \in {"feed", "wait", "release", "cleanup"}
Busy(c) == Cardinality({s \in Sessions : ContextOf[s] = c /\ OnThread(s)})
FreeThread(c) == Busy(c) < ThreadsOf[c]

Instr(s) == script[s][at[s]]
Running(s, op) ==
    /\ phase[s] = "feed"
    /\ at[s] <= Len(script[s])
    /\ Instr(s).op = op

Init ==
    /\ taken = [r \in Resources |-> FALSE]
    /\ holderId = [r \in Resources |-> NoSession]
    /\ writer = NoSession
    /\ script = [s \in Sessions |-> <<>>]
    /\ at = [s \in Sessions |-> 1]
    /\ phase = [s \in Sessions |-> "idle"]
    /\ toVisit = {}
    /\ has = [s \in Sessions |-> {}]
    /\ left = [s \in Sessions |-> Budget]

-----------------------------------------------------------------------------
(* on_data(): a program is parsed from the request, bound to the virtual   *)
(* machine and fed.                                                        *)
StartProgram(s, p) ==
    /\ phase[s] = "idle"
    /\ left[s] > 0
    /\ FreeThread(ContextOf[s])
    /\ left' = [left EXCEPT ![s] = @ - 1]
    /\ script' = [script EXCEPT ![s] = p]
    /\ at' = [at EXCEPT ![s] = 1]
    /\ phase' = [phase EXCEPT ![s] = "feed"]
    /\ UNCHANGED <<taken, holderId, writer, toVisit, has>>

(* DOWNLOAD, SLEEP and LOOP leave the virtual machine alone.               *)
RunOther(s) ==
    /\ Running(s, "WORK")
    /\ at' = [at EXCEPT ![s] = @ + 1]
    /\ UNCHANGED <<taken, holderId, writer, script, phase, toVisit, has, left>>

(* lock(): the resource is looked up under a shared lock of mtx_.          *)
LockLookup(s) ==
    /\ Running(s, "LOCK")
    /\ writer = NoSession
    /\ phase' = [phase EXCEPT ![s] = "wait"]
    /\ UNCHANGED <<taken, holderId, writer, script, at, toVisit, has, left>>

LockWithoutHolder(s) ==
    /\ phase[s] = "wait"
    /\ LET r == Instr(s).num
       IN  /\ ~taken[r]
           /\ taken' = [taken EXCEPT ![r] = TRUE]
           /\ has' = [has EXCEPT ![s] = @ \cup {r}]
    /\ at' = [at EXCEPT ![s] = @ + 1]
    /\ phase' = [phase EXCEPT ![s] = "feed"]
    /\ UNCHANGED <<holderId, writer, script, toVisit, left>>

(* lock(): wait_for() has found the resource free.  A wait that times out  *)
(* changes nothing and starts again.                                       *)
LockTakes(s) ==
    /\ phase[s] = "wait"
    /\ LET r == Instr(s).num
       IN  /\ ~taken[r]
           /\ taken' = [taken EXCEPT ![r] = TRUE]
           /\ holderId' = [holderId EXCEPT ![r] = s]
           /\ has' = [has EXCEPT ![s] = @ \cup {r}]
    /\ at' = [at EXCEPT ![s] = @ + 1]
    /\ phase' = [phase EXCEPT ![s] = "feed"]
    /\ UNCHANGED <<writer, script, toVisit, left>>

(* unlock(): lookup, then the resource is free, whoever holds it.          *)
UnlockLookup(s) ==
    /\ Running(s, "UNLOCK")
    /\ writer = NoSession
    /\ phase' = [phase EXCEPT ![s] = "release"]
    /\ UNCHANGED <<taken, holderId, writer, script, at, toVisit, has, left>>

UnlockReleases(s) ==
    /\ phase[s] = "release"
    /\ LET r == Instr(s).num
       IN  /\ taken' = [taken EXCEPT ![r] = FALSE]
           /\ has' = [has EXCEPT ![s] = @ \ {r}]
    /\ at' = [at EXCEPT ![s] = @ + 1]
    /\ phase' = [phase EXCEPT ![s] = "feed"]
    /\ UNCHANGED <<holderId, writer, script, toVisit, left>>

(* No instruction is left: feed() and on_data() return and the thread is   *)
(* free while the response is sent.                                        *)
FeedReturns(s) ==
    /\ phase[s] = "feed"
    /\ at[s] > Len(script[s])
    /\ phase' = [phase EXCEPT ![s] = "sending"]
    /\ UNCHANGED <<taken, holderId, writer, script, at, toVisit, has, left>>

-----------------------------------------------------------------------------
(* The response is sent (on_sent() resets the program) or the connection   *)
(* fails (on_closed() does): cleanup() takes mtx_ exclusively ...          *)
CleanupBegins(s) ==
    /\ phase[s] = "sending"
    /\ FreeThread(ContextOf[s])
    /\ writer = NoSession
    /\ writer' = s
    /\ toVisit' = Resources
    /\ phase' = [phase EXCEPT ![s] = "cleanup"]
    /\ UNCHANGED <<taken, holderId, script, at, has, left>>

CleanupReleasesAll(s, r) ==
    /\ writer = s
    /\ r \in toVisit
    /\ toVisit' = toVisit \ {r}
    /\ taken' = [taken EXCEPT ![r] = FALSE]
    /\ has' = [has EXCEPT ![s] = @ \ {r}]
    /\ UNCHANGED <<holderId, writer, script, at, phase, left>>

(* ... and visits the resources one by one, each under its own mutex, so   *)
(* waiters that are behind their lookup get in between.                    *)
CleanupVisit(s, r) ==
    /\ writer = s
    /\ r \in toVisit
    /\ toVisit' = toVisit \ {r}
    /\ taken' = [taken EXCEPT ![r] = @ /\ holderId[r] # s]
    /\ has' = [has EXCEPT ![s] = IF holderId[r] = s THEN @ \ {r} ELSE @]
    /\ UNCHANGED <<holderId, writer, script, at, phase, left>>

(* cleanup() returns and the program is emptied.                           *)
CleanupReturns(s) ==
    /\ writer = s
    /\ toVisit = {}
    /\ writer' = NoSession
    /\ script' = [script EXCEPT ![s] = <<>>]
    /\ at' = [at EXCEPT ![s] = 1]
    /\ phase' = [phase EXCEPT ![s] = "idle"]
    /\ UNCHANGED <<taken, holderId, toVisit, has, left>>

-----------------------------------------------------------------------------
Step(s) ==
    \/ RunOther(s) \/ LockLookup(s) \/ LockTakes(s)
    \/ UnlockLookup(s) \/ UnlockReleases(s) \/ FeedReturns(s)
    \/ CleanupBegins(s) \/ CleanupReturns(s)
    \/ \E r \in Resources : CleanupVisit(s, r)

Next == \E s \in Sessions : Step(s) \/ \E p \in Scripts : StartProgram(s, p)

Spec == Init /\ [][Next]_vars

(* Threads keep running and responses are sent or fail.  Nobody is obliged *)
(* to send another request, and no order is promised among the waiters of  *)
(* a resource.                                                             *)
FairSpec == Spec /\ \A s \in Sessions : WF_vars(Step(s))

-----------------------------------------------------------------------------
TypeOK ==
    /\ taken \in [Resources -> BOOLEAN]
    /\ holderId \in [Resources -> Sessions \cup {NoSession}]
    /\ writer \in Sessions \cup {NoSession}
    /\ script \in [Sessions -> Scripts \cup {<<>>}]
    /\ at \in [Sessions -> Nat \ {0}]
    /\ phase \in [Sessions -> Phases]
    /\ toVisit \subseteq Resources
    /\ has \in [Sessions -> SUBSET Resources]
    /\ left \in [Sessions -> 0 .. Budget]

(* The resources a VScript has locked and not unlocked when it reaches its *)
(* k-th instruction.                                                       *)
Held(p, k) ==
    {r \in Resources :
        \E i \in 1 .. k - 1 :
            /\ p[i].op = "LOCK" /\ p[i].num = r
            /\ \A j \in i + 1 .. k - 1 : ~(p[j].op = "UNLOCK" /\ p[j].num = r)}

(* unlock() does not look at holder_id, so the exclusion of the locks      *)
(* rests on the clients: a VScript unlocks only what it has locked.        *)
Disciplined ==
    \A p \in Scripts : \A k \in 1 .. Len(p) :
        p[k].op = "UNLOCK" => p[k].num \in Held(p, k)

(* Exclusive locks: a resource that LOCK gave to one transaction is with   *)
(* no other one until it is unlocked or the transaction is cleaned up, and *)
(* the machine's own record (taken, holder_id, which unlock() leaves       *)
(* stale) agrees with that at every moment.                                *)
LocksExclusive ==
    \A r \in Resources :
        /\ \A s, t \in Sessions : r \in has[s] \cap has[t] => s = t
        /\ \A s \in Sessions : r \in has[s] <=> taken[r] /\ holderId[r] = s

(* Why: what a session has is what its VScript says, up to the instruction *)
(* it has reached; between transactions it has nothing; and its cleanup()  *)
(* has still to visit whatever it has.                                     *)
HasAsScripted ==
    \A s \in Sessions : phase[s] \in {"feed", "wait", "release"} =>
        script[s] \in Scripts /\ has[s] = Held(script[s], at[s])

InsideInstruction ==
    \A s \in Sessions : phase[s] \in {"wait", "release"} =>
        /\ at[s] <= Len(script[s])
        /\ Instr(s).op = IF phase[s] = "wait" THEN "LOCK" ELSE "UNLOCK"

CleanupCovers ==
    \A s \in Sessions :
        /\ writer = s <=> phase[s] = "cleanup"
        /\ writer = s => has[s] \subseteq toVisit
        /\ phase[s] = "idle" => has[s] = {}

VMInv == TypeOK /\ LocksExclusive /\ HasAsScripted /\ InsideInstruction /\ CleanupCovers

(* "... the vm to automatically release all acquired resources": between   *)
(* transactions a session has no lock, in its own eyes or in the table.    *)
NothingLeftBehind ==
    \A s \in Sessions : phase[s] = "idle" =>
        has[s] = {} /\ \A r \in Resources : ~(taken[r] /\ holderId[r] = s)

(* README: other transactions wait for the one that holds the resource "to *)
(* either UNLOCK it, or to finish": it does one or the other.              *)
LocksReleased == \A r \in Resources : taken[r] ~> ~taken[r]
=============================================================================
