-------------------------- MODULE MCVirtualMachine --------------------------
(* Three sessions, two on a context with two threads and one on a context  *)
(* of its own, so that a waiting LOCK never takes the holder's last        *)
(* thread; two resources that every VScript locks in the same order, and   *)
(* leaves locked or unlocks.                                               *)
EXTENDS VirtualMachine

CONSTANTS s1, s2, s3, a, b, c1, c2

Lock(r)   == [op |-> "LOCK", num |-> r]
Unlock(r) == [op |-> "UNLOCK", num |-> r]
Work      == [op |-> "WORK"]

OrderedScripts == { <<Lock(a), Unlock(a), Work>>,
                    <<Lock(a), Lock(b), Unlock(a)>>,
                    <<Lock(b)>> }

EnoughThreads  == [c \in {c1, c2} |-> IF c = c1 THEN 2 ELSE 1]
TwoAndOne      == [s \in {s1, s2, s3} |-> IF s = s3 THEN c2 ELSE c1]

(* Two sessions on a context with one thread; the VScript leaves its lock  *)
(* to the end of the transaction.                                          *)
OneThread      == [c \in {c1} |-> 1]
Together       == [s \in {s1, s2} |-> c1]
LockScripts    == { <<Lock(a)>> }

(* Both sets of VScripts unlock only what they have locked.                *)
ASSUME MCDisciplined == Disciplined
=============================================================================
