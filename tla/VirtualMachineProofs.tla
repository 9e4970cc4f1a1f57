------------------------ MODULE VirtualMachineProofs ------------------------
(* The locks of the virtual machine, for any number of sessions, resources *)
(* and threads and any set of disciplined VScripts.                        *)
EXTENDS VirtualMachine, TLAPS

(* What the type of a VScript says of one of its instructions.             *)
LEMMA InstrType ==
    ASSUME NEW p \in Scripts, NEW k \in 1 .. Len(p)
    PROVE  /\ Len(p) \in Nat
           /\ p[k].op \in {"LOCK", "UNLOCK"} => p[k].num \in Resources
<1> DEFINE I == [op : {"LOCK", "UNLOCK"}, num : Resources] \cup [op : {"WORK"}]
<1>1. p \in Seq(I)
  BY VMScripts
<1>2. Len(p) \in Nat /\ p[k] \in I
  BY <1>1
<1>3. p[k].op \in {"LOCK", "UNLOCK"} => p[k].num \in Resources
  BY <1>2
<1> QED
  BY <1>2, <1>3

(* A VScript has nothing before its first instruction.                     *)
LEMMA HeldAtStart == \A p : Held(p, 1) = {}
BY DEF Held

(* What one instruction does to the resources its VScript has.             *)
LEMMA HeldStep ==
    ASSUME NEW p \in Scripts, NEW k \in 1 .. Len(p)
    PROVE  /\ p[k].op = "LOCK" => Held(p, k + 1) = Held(p, k) \cup {p[k].num}
           /\ p[k].op = "UNLOCK" => Held(p, k + 1) = Held(p, k) \ {p[k].num}
           /\ p[k].op = "WORK" => Held(p, k + 1) = Held(p, k)
<1>0. k \in Nat /\ k + 1 - 1 = k /\ 1 .. k = (1 .. k - 1) \cup {k}
  BY InstrType
<1>1. ASSUME NEW r \in Resources
      PROVE  r \in Held(p, k + 1) <=>
                \/ p[k].op = "LOCK" /\ p[k].num = r
                \/ r \in Held(p, k) /\ ~(p[k].op = "UNLOCK" /\ p[k].num = r)
  <2> DEFINE Open(i, n) == \A j \in i + 1 .. n : ~(p[j].op = "UNLOCK" /\ p[j].num = r)
             Locks(i) == p[i].op = "LOCK" /\ p[i].num = r
  <2>1. r \in Held(p, k + 1) <=> \E i \in 1 .. k : Locks(i) /\ Open(i, k)
    BY <1>0 DEF Held
  <2>2. r \in Held(p, k) <=> \E i \in 1 .. k - 1 : Locks(i) /\ Open(i, k - 1)
    BY DEF Held
  <2>3. Open(k, k)
    BY <1>0
  <2>4. \A i \in 1 .. k - 1 :
           Open(i, k) <=> Open(i, k - 1) /\ ~(p[k].op = "UNLOCK" /\ p[k].num = r)
    <3> TAKE i \in 1 .. k - 1
    <3>1. i + 1 .. k = (i + 1 .. k - 1) \cup {k}
      BY <1>0
    <3> QED
      BY <3>1
  <2> HIDE DEF Open, Locks
  <2>5. (\E i \in 1 .. k : Locks(i) /\ Open(i, k)) <=>
           Locks(k) \/ \E i \in 1 .. k - 1 : Locks(i) /\ Open(i, k)
    BY <1>0, <2>3
  <2>6. (\E i \in 1 .. k - 1 : Locks(i) /\ Open(i, k)) <=>
           /\ \E i \in 1 .. k - 1 : Locks(i) /\ Open(i, k - 1)
           /\ ~(p[k].op = "UNLOCK" /\ p[k].num = r)
    BY <2>4
  <2> QED
    BY <2>1, <2>2, <2>5, <2>6 DEF Locks
<1>2. Held(p, k) \subseteq Resources /\ Held(p, k + 1) \subseteq Resources
  BY DEF Held
<1>3. CASE p[k].op = "LOCK"
  BY <1>1, <1>2, <1>3, InstrType
<1>4. CASE p[k].op = "UNLOCK"
  BY <1>1, <1>2, <1>4
<1>5. CASE p[k].op = "WORK"
  BY <1>1, <1>2, <1>5
<1> QED
  BY <1>3, <1>4, <1>5

-----------------------------------------------------------------------------
LEMMA VMInvInit == Init => VMInv
<1> SUFFICES ASSUME Init PROVE VMInv
  OBVIOUS
<1> USE VMNoSession, VMBudget DEF Init
<1>1. TypeOK
  BY DEF TypeOK, Phases
<1>2. LocksExclusive
  BY DEF LocksExclusive
<1>3. HasAsScripted /\ InsideInstruction /\ CleanupCovers
  BY DEF HasAsScripted, InsideInstruction, CleanupCovers
<1> QED
  BY <1>1, <1>2, <1>3 DEF VMInv

(* An instruction is done: what the session has follows its VScript.       *)
LEMMA HasFollows ==
    ASSUME VMInv, NEW s \in Sessions, phase[s] \in {"feed", "wait", "release"},
           at[s] <= Len(script[s])
    PROVE  /\ script[s] \in Scripts
           /\ at[s] \in 1 .. Len(script[s])
           /\ has[s] = Held(script[s], at[s])
           /\ Instr(s).op \in {"LOCK", "UNLOCK"} => Instr(s).num \in Resources
           /\ Instr(s).op = "LOCK" =>
                Held(script[s], at[s] + 1) = has[s] \cup {Instr(s).num}
           /\ Instr(s).op = "UNLOCK" =>
                Held(script[s], at[s] + 1) = has[s] \ {Instr(s).num}
           /\ Instr(s).op = "WORK" => Held(script[s], at[s] + 1) = has[s]
<1>1. script[s] \in Scripts /\ has[s] = Held(script[s], at[s])
  BY DEF VMInv, HasAsScripted
<1>2. Len(script[s]) \in Nat
  BY <1>1, VMScripts
<1>3. at[s] \in 1 .. Len(script[s])
  BY <1>2 DEF VMInv, TypeOK
<1> QED
  BY <1>1, <1>3, InstrType, HeldStep DEF Instr

(* The two steps of a VScript that change the table: LOCK takes what       *)
(* nobody has, and a disciplined UNLOCK gives back what the session has.   *)
LEMMA LockKeepsInv ==
    ASSUME VMInv, NEW s \in Sessions, LockTakes(s)
    PROVE  VMInv'
<1> DEFINE r == Instr(s).num
<1>1. phase[s] = "wait" /\ at[s] <= Len(script[s]) /\ Instr(s).op = "LOCK"
  BY DEF LockTakes, VMInv, InsideInstruction
<1>2. /\ script[s] \in Scripts /\ r \in Resources
      /\ at[s] \in 1 .. Len(script[s])
      /\ Held(script[s], at[s] + 1) = has[s] \cup {r}
  BY <1>1, HasFollows
<1> HIDE DEF r
<1>3. /\ ~taken[r]
      /\ taken' = [taken EXCEPT ![r] = TRUE]
      /\ holderId' = [holderId EXCEPT ![r] = s]
      /\ has' = [has EXCEPT ![s] = @ \cup {r}]
      /\ at' = [at EXCEPT ![s] = @ + 1]
      /\ phase' = [phase EXCEPT ![s] = "feed"]
      /\ UNCHANGED <<writer, script, toVisit, left>>
  BY DEF LockTakes, r
<1>4. TypeOK /\ TypeOK'
  BY <1>2, <1>3 DEF VMInv, TypeOK, Phases
<1>5. LocksExclusive'
  BY <1>2, <1>3, <1>4 DEF VMInv, LocksExclusive, TypeOK
<1>6. HasAsScripted'
  BY <1>2, <1>3, <1>4 DEF VMInv, HasAsScripted, TypeOK
<1>7. InsideInstruction'
  BY <1>3, <1>4 DEF VMInv, InsideInstruction, TypeOK, Instr
<1>8. CleanupCovers'
  BY <1>1, <1>2, <1>3, <1>4 DEF VMInv, CleanupCovers, TypeOK
<1> QED
  BY <1>4, <1>5, <1>6, <1>7, <1>8 DEF VMInv

LEMMA UnlockKeepsInv ==
    ASSUME Disciplined, VMInv, NEW s \in Sessions, UnlockReleases(s)
    PROVE  VMInv'
<1> DEFINE r == Instr(s).num
<1>1. phase[s] = "release" /\ at[s] <= Len(script[s]) /\ Instr(s).op = "UNLOCK"
  BY DEF UnlockReleases, VMInv, InsideInstruction
<1>2. /\ script[s] \in Scripts /\ r \in Resources
      /\ at[s] \in 1 .. Len(script[s])
      /\ has[s] = Held(script[s], at[s])
      /\ Held(script[s], at[s] + 1) = has[s] \ {r}
  BY <1>1, HasFollows
<1>3. r \in has[s]
  BY <1>1, <1>2 DEF Disciplined, Instr
<1> HIDE DEF r
<1>4. /\ taken' = [taken EXCEPT ![r] = FALSE]
      /\ has' = [has EXCEPT ![s] = @ \ {r}]
      /\ at' = [at EXCEPT ![s] = @ + 1]
      /\ phase' = [phase EXCEPT ![s] = "feed"]
      /\ UNCHANGED <<holderId, writer, script, toVisit, left>>
  BY DEF UnlockReleases, r
<1>5. TypeOK /\ TypeOK'
  BY <1>2, <1>4 DEF VMInv, TypeOK, Phases
<1>6. LocksExclusive'
  BY <1>2, <1>3, <1>4, <1>5 DEF VMInv, LocksExclusive, TypeOK
<1>7. HasAsScripted'
  BY <1>2, <1>4, <1>5 DEF VMInv, HasAsScripted, TypeOK
<1>8. InsideInstruction'
  BY <1>4, <1>5 DEF VMInv, InsideInstruction, TypeOK, Instr
<1>9. CleanupCovers'
  BY <1>1, <1>2, <1>4, <1>5 DEF VMInv, CleanupCovers, TypeOK
<1> QED
  BY <1>5, <1>6, <1>7, <1>8, <1>9 DEF VMInv

(* cleanup() frees what the session has and leaves the other holders alone *)
(* although a waiter may take a resource between two of its visits.        *)
LEMMA CleanupVisitKeepsInv ==
    ASSUME VMInv, NEW s \in Sessions, NEW r \in Resources, CleanupVisit(s, r)
    PROVE  VMInv'
<1> USE DEF CleanupVisit
<1>1. TypeOK /\ TypeOK'
  BY DEF VMInv, TypeOK
<1>2. LocksExclusive'
  <2>1. CASE holderId[r] = s
    <3>1. /\ taken' = [taken EXCEPT ![r] = FALSE]
          /\ has' = [has EXCEPT ![s] = @ \ {r}]
          /\ holderId' = holderId
      BY <1>1, <2>1 DEF TypeOK
    <3> QED
      BY <1>1, <2>1, <3>1 DEF VMInv, LocksExclusive, TypeOK
  <2>2. CASE holderId[r] # s
    <3>1. taken' = taken /\ has' = has /\ holderId' = holderId
      BY <1>1, <2>2 DEF TypeOK
    <3> QED
      BY <3>1 DEF VMInv, LocksExclusive
  <2> QED
    BY <2>1, <2>2
<1>3. HasAsScripted'
  <2>1. \A t \in Sessions : t # s => has'[t] = has[t]
    BY <1>1 DEF TypeOK
  <2>2. phase[s] = "cleanup"
    BY DEF VMInv, CleanupCovers
  <2> QED
    BY <2>1, <2>2 DEF VMInv, HasAsScripted
<1>4. InsideInstruction'
  BY DEF VMInv, InsideInstruction, Instr
<1>5. CleanupCovers'
  BY <1>1, VMNoSession DEF VMInv, CleanupCovers, LocksExclusive, TypeOK
<1> QED
  BY <1>1, <1>2, <1>3, <1>4, <1>5 DEF VMInv

(* The steps that leave the table alone.                                   *)
LEMMA StartKeepsInv ==
    ASSUME VMInv, NEW s \in Sessions, NEW p \in Scripts, StartProgram(s, p)
    PROVE  VMInv'
<1> USE DEF StartProgram
<1>1. TypeOK /\ TypeOK'
  BY VMBudget DEF VMInv, TypeOK, Phases
<1>2. LocksExclusive'
  BY DEF VMInv, LocksExclusive
<1>3. HasAsScripted'
  <2>1. has[s] = {}
    BY DEF VMInv, CleanupCovers
  <2> QED
    BY <1>1, <2>1, HeldAtStart DEF VMInv, HasAsScripted, TypeOK
<1>4. InsideInstruction'
  BY <1>1 DEF VMInv, InsideInstruction, Instr, TypeOK
<1>5. CleanupCovers'
  BY <1>1 DEF VMInv, CleanupCovers, TypeOK
<1> QED
  BY <1>1, <1>2, <1>3, <1>4, <1>5 DEF VMInv

LEMMA OtherStepsKeepInv ==
    ASSUME VMInv, NEW s \in Sessions,
           \/ RunOther(s) \/ LockLookup(s) \/ UnlockLookup(s) \/ FeedReturns(s)
           \/ CleanupBegins(s) \/ CleanupReturns(s)
    PROVE  VMInv'
<1>0. TypeOK
  BY DEF VMInv
<1>1. CASE RunOther(s)
  <2>1. /\ at[s] <= Len(script[s]) /\ Instr(s).op = "WORK" /\ phase[s] = "feed"
        /\ at' = [at EXCEPT ![s] = @ + 1]
        /\ UNCHANGED <<taken, holderId, writer, script, phase, toVisit, has, left>>
    BY <1>1 DEF RunOther, Running
  <2>2. Held(script[s], at[s] + 1) = Held(script[s], at[s])
    BY <2>1, HasFollows
  <2>3. TypeOK'
    BY <1>0, <2>1 DEF TypeOK
  <2>4. LocksExclusive' /\ CleanupCovers'
    BY <2>1 DEF VMInv, LocksExclusive, CleanupCovers
  <2>5. HasAsScripted'
    BY <1>0, <2>1, <2>2 DEF VMInv, HasAsScripted, TypeOK
  <2>6. InsideInstruction'
    BY <1>0, <2>1 DEF VMInv, InsideInstruction, Instr, TypeOK
  <2> QED
    BY <2>3, <2>4, <2>5, <2>6 DEF VMInv
<1>2. CASE LockLookup(s) \/ UnlockLookup(s) \/ FeedReturns(s)
  <2>1. TypeOK'
    BY <1>0, <1>2 DEF LockLookup, UnlockLookup, FeedReturns, TypeOK, Phases
  <2>2. LocksExclusive'
    BY <1>2 DEF LockLookup, UnlockLookup, FeedReturns, VMInv, LocksExclusive
  <2>3. HasAsScripted'
    BY <1>0, <1>2 DEF LockLookup, UnlockLookup, FeedReturns, Running, VMInv,
                      HasAsScripted, TypeOK
  <2>4. InsideInstruction'
    BY <1>0, <1>2 DEF LockLookup, UnlockLookup, FeedReturns, Running, VMInv,
                      InsideInstruction, Instr, TypeOK
  <2>5. CleanupCovers'
    BY <1>0, <1>2 DEF LockLookup, UnlockLookup, FeedReturns, Running, VMInv,
                      CleanupCovers, TypeOK
  <2> QED
    BY <2>1, <2>2, <2>3, <2>4, <2>5 DEF VMInv
<1>3. CASE CleanupBegins(s) \/ CleanupReturns(s)
  <2>1. TypeOK'
    <3>1. CASE CleanupBegins(s)
      BY <1>0, <3>1 DEF CleanupBegins, TypeOK, Phases
    <3>2. CASE CleanupReturns(s)
      <4>1. script' \in [Sessions -> Scripts \cup {<<>>}]
        BY <1>0, <3>2 DEF CleanupReturns, TypeOK
      <4> QED
        BY <1>0, <3>2, <4>1 DEF CleanupReturns, TypeOK, Phases
    <3> QED
      BY <1>3, <3>1, <3>2
  <2>2. LocksExclusive'
    BY <1>3 DEF CleanupBegins, CleanupReturns, VMInv, LocksExclusive
  <2>3. HasAsScripted'
    BY <1>0, <1>3 DEF CleanupBegins, CleanupReturns, VMInv, HasAsScripted, TypeOK
  <2>4. InsideInstruction'
    BY <1>0, <1>3 DEF CleanupBegins, CleanupReturns, VMInv, InsideInstruction,
                      CleanupCovers, Instr, TypeOK
  <2>5. CleanupCovers'
    BY <1>0, <1>3, VMNoSession DEF CleanupBegins, CleanupReturns, VMInv,
                      CleanupCovers, TypeOK
  <2> QED
    BY <2>1, <2>2, <2>3, <2>4, <2>5 DEF VMInv
<1> QED
  BY <1>1, <1>2, <1>3

LEMMA VMInvStep == Disciplined /\ VMInv /\ [Next]_vars => VMInv'
<1> SUFFICES ASSUME Disciplined, VMInv, [Next]_vars PROVE VMInv'
  OBVIOUS
<1>1. CASE UNCHANGED vars
  BY <1>1 DEF vars, VMInv, TypeOK, LocksExclusive, HasAsScripted,
              InsideInstruction, CleanupCovers, Instr
<1>2. ASSUME NEW s \in Sessions, NEW p \in Scripts, StartProgram(s, p)
      PROVE  VMInv'
  BY <1>2, StartKeepsInv
<1>3. ASSUME NEW s \in Sessions, Step(s)
      PROVE  VMInv'
  BY <1>3, LockKeepsInv, UnlockKeepsInv, CleanupVisitKeepsInv, OtherStepsKeepInv
     DEF Step
<1> QED
  BY <1>1, <1>2, <1>3 DEF Next

-----------------------------------------------------------------------------
(* The locks that LSVirtualMachine::lock() hands out are exclusive and its *)
(* table records who has what, whatever the number of sessions and threads *)
(* and whatever the interleaving of cleanup() with the waiters, as long as *)
(* no VScript unlocks what it has not locked.                              *)
THEOREM LocksAreExclusive == Disciplined => (Spec => []LocksExclusive)
<1> SUFFICES ASSUME Disciplined PROVE Spec => []LocksExclusive
  OBVIOUS
<1>1. Init => VMInv
  BY VMInvInit
<1>2. VMInv /\ [Next]_vars => VMInv'
  BY VMInvStep
<1>3. VMInv => LocksExclusive
  BY DEF VMInv
<1> QED
  BY <1>1, <1>2, <1>3, PTL DEF Spec

(* When cleanup() has returned, nothing is left locked for the session:    *)
(* under the same condition, between transactions no session has a lock.   *)
THEOREM CleanupIsComplete == Disciplined => (Spec => []NothingLeftBehind)
<1> SUFFICES ASSUME Disciplined PROVE Spec => []NothingLeftBehind
  OBVIOUS
<1>1. Init => VMInv
  BY VMInvInit
<1>2. VMInv /\ [Next]_vars => VMInv'
  BY VMInvStep
<1>3. VMInv => NothingLeftBehind
  BY DEF VMInv, NothingLeftBehind, CleanupCovers, LocksExclusive
<1> QED
  BY <1>1, <1>2, <1>3, PTL DEF Spec
=============================================================================
