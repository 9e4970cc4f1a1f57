----------------------------- MODULE PoolProofs -----------------------------
(***************************************************************************)
(* The pool's invariant, for every set of items, borrowers and ids and     *)
(* every size limit.                                                       *)
(***************************************************************************)
EXTENDS Pool, FiniteSetTheorems, SequenceTheorems, TLAPS

(* Popping the stack removes its top and nothing else.                     *)
LEMMA PopFacts ==
  ASSUME NEW s \in Seq(Items), s # <<>>, Distinct(s)
  PROVE  LET t == SubSeq(s, 1, Len(s) - 1)
             p == s[Len(s)]
         IN  /\ t \in Seq(Items)
             /\ Len(s) \in Nat \ {0}
             /\ Len(t) = Len(s) - 1
             /\ p \in Items
             /\ p \in OnStack(s)
             /\ Distinct(t)
             /\ OnStack(t) = OnStack(s) \ {p}
<1> DEFINE t == SubSeq(s, 1, Len(s) - 1)
           p == s[Len(s)]
<1>1. Len(s) \in Nat \ {0} /\ (Len(s) = 1 \/ Len(s) > 1)
  <2>1. Len(s) \in Nat /\ Len(s) # 0
    OBVIOUS
  <2>2. \A n \in Nat : n # 0 => n \in Nat \ {0} /\ (n = 1 \/ n > 1)
    OBVIOUS
  <2> QED
    BY <2>1, <2>2, Zenon
<1>2. /\ t \in Seq(Items)
      /\ Len(t) = Len(s) - 1
      /\ \A i \in 1 .. Len(t) : t[i] = s[i]
  <2>1. \A i \in 1 .. Len(s) - 1 : s[i] \in Items
    BY <1>1
  <2>2. /\ t \in Seq(Items)
        /\ Len(t) = IF 1 <= Len(s) - 1 THEN Len(s) - 1 - 1 + 1 ELSE 0
        /\ \A i \in 1 .. Len(s) - 1 - 1 + 1 : t[i] = s[1 + i - 1]
    BY <1>1, <2>1, SubSeqProperties
  <2> HIDE DEF t
  <2>3. Len(t) = Len(s) - 1
    <3>1. Len(t) = IF 1 <= Len(s) - 1 THEN Len(s) - 1 - 1 + 1 ELSE 0
      BY <2>2
    <3>2. CASE Len(s) = 1
      BY <3>1, <3>2
    <3>3. CASE Len(s) > 1
      BY <1>1, <3>1, <3>3
    <3> QED
      BY <1>1, <3>2, <3>3
  <2>4. ASSUME NEW i \in 1 .. Len(t) PROVE t[i] = s[i]
    <3>1. i \in 1 .. Len(s) - 1 - 1 + 1 /\ 1 + i - 1 = i
      BY <1>1, <2>3
    <3> QED
      BY <2>2, <3>1
  <2> QED
    BY <2>2, <2>3, <2>4
<1>3. p \in Items /\ p \in OnStack(s)
  BY <1>1 DEF OnStack
<1>4. Distinct(t)
  BY <1>1, <1>2 DEF Distinct
<1>5. OnStack(t) = OnStack(s) \ {p}
  <2>1. ASSUME NEW x \in OnStack(t) PROVE x \in OnStack(s) \ {p}
    BY <1>1, <1>2, <2>1 DEF OnStack, Distinct
  <2>2. ASSUME NEW x \in OnStack(s) \ {p} PROVE x \in OnStack(t)
    <3>1. PICK i \in 1 .. Len(s) : x = s[i]
      BY DEF OnStack
    <3>2. i \in 1 .. Len(t)
      BY <1>1, <1>2, <2>2, <3>1
    <3> QED
      BY <1>2, <3>1, <3>2 DEF OnStack
  <2> QED
    BY <2>1, <2>2
<1> QED
  BY <1>1, <1>2, <1>3, <1>4, <1>5

(* Pushing an item that is not on the stack adds it and nothing else.      *)
LEMMA PushFacts ==
  ASSUME NEW s \in Seq(Items), NEW p \in Items, Distinct(s), p \notin OnStack(s)
  PROVE  LET t == Append(s, p)
         IN  /\ t \in Seq(Items)
             /\ Len(s) \in Nat
             /\ Len(t) = Len(s) + 1
             /\ Distinct(t)
             /\ OnStack(t) = OnStack(s) \cup {p}
<1> DEFINE t == Append(s, p)
<1>1. /\ t \in Seq(Items)
      /\ Len(s) \in Nat
      /\ Len(t) = Len(s) + 1
      /\ t[Len(s) + 1] = p
      /\ \A i \in 1 .. Len(s) : t[i] = s[i]
  OBVIOUS
<1>2. Distinct(t)
  BY <1>1 DEF Distinct, OnStack
<1>3. OnStack(t) = OnStack(s) \cup {p}
  <2>1. ASSUME NEW x \in OnStack(t) PROVE x \in OnStack(s) \cup {p}
    BY <1>1, <2>1 DEF OnStack
  <2>2. ASSUME NEW x \in OnStack(s) PROVE x \in OnStack(t)
    <3>1. PICK i \in 1 .. Len(s) : x = s[i]
      BY <2>2 DEF OnStack
    <3>2. i \in 1 .. Len(t) /\ t[i] = x
      BY <1>1, <3>1
    <3> QED
      BY <3>2 DEF OnStack
  <2>3. p \in OnStack(t)
    BY <1>1 DEF OnStack
  <2> QED
    BY <2>1, <2>2, <2>3
<1> QED
  BY <1>1, <1>2, <1>3

(* The known items, and those out of the stack, are finitely many.         *)
LEMMA FiniteItems ==
  /\ IsFiniteSet(Subscribed) /\ Cardinality(Subscribed) \in Nat
  /\ IsFiniteSet(Out) /\ Cardinality(Out) \in Nat
<1>1. Subscribed \subseteq Items /\ Out \subseteq Items
  BY DEF Subscribed, Out
<1> QED
  BY <1>1, ItemsAssumption, FS_Subset, FS_CardinalityType

(* A finite set with a member has a positive cardinality.                  *)
LEMMA Inhabited ==
  ASSUME NEW S, IsFiniteSet(S), NEW x \in S
  PROVE  Cardinality(S) > 0
<1>1. Cardinality(S) \in Nat /\ Cardinality(S) # 0
  BY FS_CardinalityType, FS_EmptySet
<1> QED
  BY <1>1

(* The stack a constructor builds has as many items as its length.         *)
LEMMA StackCardinality ==
  ASSUME NEW n \in Nat, NEW s \in [1 .. n -> Items], Distinct(s)
  PROVE  Cardinality(OnStack(s)) = n
<1>1. Len(s) = n /\ s \in Seq(Items)
  OBVIOUS
<1>2. s \in Bijection(1 .. n, OnStack(s))
  BY <1>1 DEF OnStack, Distinct, Bijection, IsInjective, Injection, Surjection
<1>3. IsFiniteSet(1 .. n) /\ Cardinality(1 .. n) = n
  BY FS_Interval
<1> QED
  BY <1>2, <1>3, FS_Bijection DEF ExistsBijection

(* A new pool satisfies the invariant.                                     *)
LEMMA InitPoolInv == Init => PoolInv
<1> SUFFICES ASSUME Init PROVE PoolInv
  OBVIOUS
<1> DEFINE n == IF eagerly THEN maxSize ELSE 0
<1>1. n \in Nat /\ pool \in [1 .. n -> Items] /\ Distinct(pool)
  BY MaxSizesAssumption DEF Init
<1>2. Len(pool) = n /\ pool \in Seq(Items)
  BY <1>1
<1>3. Cardinality(Pooled) = n
  BY <1>1, StackCardinality DEF Pooled
<1>4. Subscribed = Pooled /\ Pooled \subseteq Items
  BY <1>2, IdsAssumption DEF Init, Subscribed, Pooled, OnStack
<1>5. Out = {}
  BY <1>4 DEF Out
<1>6. TypeOK
  <2>1. overlap \subseteq Items /\ doubled \in BOOLEAN /\ todo \subseteq Items
    BY DEF Init
  <2>2. allItems \in [Items -> Ids \cup {PoiInvalid, Unknown}]
    BY DEF Init
  <2>3. engaged \in [Items -> BOOLEAN] /\ holder \in [Items -> SUBSET Users]
    BY DEF Init
  <2>4. /\ maxSize \in MaxSizes /\ eagerly \in BOOLEAN
        /\ inFlight \in Nat /\ total \in Nat /\ waiter \in Users \cup {Nobody}
        /\ returning \subseteq Items /\ recId \in Ids \cup {Nobody}
    BY <1>2 DEF Init
  <2> QED
    BY <1>2, <2>1, <2>2, <2>3, <2>4 DEF TypeOK
<1>7. StackDistinct
  BY <1>1, <1>4 DEF StackDistinct
<1>8. InFlightExact
  BY <1>2, <1>3, <1>4, <1>5, FS_EmptySet DEF InFlightExact, Init
<1>9. Limit
  BY <1>1, <1>3, <1>4, MaxSizesAssumption DEF Limit, Init
<1>10. SingleOwner
  BY <1>5 DEF SingleOwner, Init
<1>11. WaiterNotOvertaken
  BY DEF WaiterNotOvertaken, Init
<1>12. PoolAssertions
  BY <1>4 DEF PoolAssertions, Init
<1>13. RecoverTargetsInFlight
  BY IdsAssumption DEF RecoverTargetsInFlight, Init
<1>14. RecoverRuns
  BY DEF RecoverRuns, Init
<1> QED
  BY <1>6, <1>7, <1>8, <1>9, <1>10, <1>11, <1>12, <1>13, <1>14 DEF PoolInv

(* Borrowing the top of the stack.                                         *)
LEMMA BorrowPooledInv ==
  ASSUME PoolInv, NEW u \in Users, NEW id \in Ids, BorrowPooled(u, id)
  PROVE  PoolInv'
<1> DEFINE p == pool[Len(pool)]
<1> USE DEF PoolInv
<1>1. /\ pool' \in Seq(Items) /\ Len(pool) \in Nat \ {0}
      /\ Len(pool') = Len(pool) - 1
      /\ p \in Items /\ p \in Pooled
      /\ Distinct(pool') /\ Pooled' = Pooled \ {p}
  BY PopFacts DEF BorrowPooled, TypeOK, StackDistinct, Pooled
<1>2. allItems' = [allItems EXCEPT ![p] = id] /\ id # Unknown /\ id # PoiInvalid
  BY IdsAssumption DEF BorrowPooled
<1>3. Subscribed' = Subscribed /\ p \in Subscribed
  BY <1>1, <1>2 DEF Subscribed, TypeOK, StackDistinct
<1>4. Out' = Out \cup {p} /\ p \notin Out
  BY <1>1, <1>3 DEF Out
<1>5. Cardinality(Out') = Cardinality(Out) + 1
  BY <1>4, FiniteItems, FS_AddElement
<1>6. holder[p] = {} /\ p \notin returning
  BY <1>1, <1>4 DEF SingleOwner
<1>7. TypeOK'
  BY <1>1, <1>2 DEF TypeOK, BorrowPooled
<1>8. StackDistinct'
  BY <1>1, <1>3 DEF StackDistinct
<1>9. InFlightExact'
  BY <1>1, <1>3, <1>5, FiniteItems DEF InFlightExact, BorrowPooled, TypeOK
<1>10. Limit'
  BY <1>3 DEF Limit, BorrowPooled
<1>11. holder' = [holder EXCEPT ![p] = {u}]
  BY <1>6 DEF BorrowPooled
<1>12. SingleOwner'
  <2> SUFFICES ASSUME NEW q \in Items
               PROVE  /\ \A v, w \in holder'[q] : v = w
                      /\ q \in returning' => holder'[q] = {}
                      /\ q \in Out' <=> (q \in returning' \/ holder'[q] # {})
    BY DEF SingleOwner
  <2>1. returning' = returning
    BY DEF BorrowPooled
  <2>2. CASE q = p
    BY <1>1, <1>4, <1>6, <1>11, <2>1, <2>2 DEF TypeOK
  <2>3. CASE q # p
    <3>1. holder'[q] = holder[q]
      BY <1>11, <2>3 DEF TypeOK
    <3>2. q \in Out' <=> q \in Out
      BY <1>4, <2>3
    <3> QED
      BY <2>1, <3>1, <3>2 DEF SingleOwner
  <2> QED
    BY <2>2, <2>3
<1>13. waiter = Nobody
  BY DEF WaiterNotOvertaken, BorrowPooled
<1>14. WaiterNotOvertaken'
  BY <1>13 DEF WaiterNotOvertaken, BorrowPooled
<1>15. PoolAssertions'
  BY <1>1, <1>4, <1>6 DEF PoolAssertions, BorrowPooled, TypeOK
<1>16. RecoverTargetsInFlight'
  BY <1>1, <1>2, <1>6, <1>11 DEF RecoverTargetsInFlight, BorrowPooled, TypeOK
<1>17. RecoverRuns'
  BY DEF RecoverRuns, BorrowPooled
<1> QED
  BY <1>7, <1>8, <1>9, <1>10, <1>12, <1>14, <1>15, <1>16, <1>17

(* Borrowing a new item.                                                   *)
LEMMA BorrowCreatedInv ==
  ASSUME PoolInv, NEW u \in Users, NEW id \in Ids, NEW p \in Items,
         BorrowCreated(u, id, p)
  PROVE  PoolInv'
<1> USE DEF PoolInv
<1>1. pool' = pool /\ pool = <<>> /\ Pooled' = Pooled /\ Len(pool) = 0
  BY DEF BorrowCreated, Pooled
<1>2. allItems' = [allItems EXCEPT ![p] = id] /\ id # Unknown /\ id # PoiInvalid
  BY IdsAssumption DEF BorrowCreated
<1>3. p \notin Subscribed /\ p \notin Pooled /\ p \notin Out
  BY DEF BorrowCreated, StackDistinct, Out
<1>4. Subscribed' = Subscribed \cup {p}
  BY <1>2 DEF Subscribed, TypeOK
<1>5. Out' = Out \cup {p}
  BY <1>1, <1>3, <1>4 DEF Out
<1>6. /\ Cardinality(Out') = Cardinality(Out) + 1
      /\ Cardinality(Subscribed') = Cardinality(Subscribed) + 1
  BY <1>3, <1>4, <1>5, FiniteItems, FS_AddElement
<1>7. holder[p] = {} /\ p \notin returning
  BY <1>3 DEF SingleOwner
<1>8. TypeOK'
  BY <1>1, <1>2 DEF TypeOK, BorrowCreated
<1>9. StackDistinct'
  BY <1>1, <1>4 DEF StackDistinct
<1>10. InFlightExact'
  BY <1>1, <1>6, FiniteItems DEF InFlightExact, BorrowCreated, TypeOK
<1>11. Limit'
  BY <1>1, <1>6, FiniteItems, MaxSizesAssumption
     DEF Limit, BorrowCreated, CanCreate, InFlightExact, TypeOK
<1>12. holder' = [holder EXCEPT ![p] = {u}]
  BY <1>7 DEF BorrowCreated
<1>13. SingleOwner'
  BY <1>5, <1>7, <1>12 DEF SingleOwner, BorrowCreated, TypeOK
<1>14. waiter = Nobody
  BY MaxSizesAssumption
     DEF WaiterNotOvertaken, BorrowCreated, CanCreate, TypeOK
<1>15. WaiterNotOvertaken'
  BY <1>14 DEF WaiterNotOvertaken, BorrowCreated
<1>16. PoolAssertions'
  BY <1>1 DEF PoolAssertions, BorrowCreated, TypeOK
<1>17. RecoverTargetsInFlight'
  BY <1>1, <1>2, <1>3, <1>7, <1>12
     DEF RecoverTargetsInFlight, BorrowCreated, TypeOK
<1>18. RecoverRuns'
  BY DEF RecoverRuns, BorrowCreated
<1> QED
  BY <1>8, <1>9, <1>10, <1>11, <1>13, <1>15, <1>16, <1>17, <1>18

(* A step that changes neither the stack nor the item table leaves the     *)
(* sets of known, pooled and borrowed items alone.                         *)
LEMMA SameTables ==
  ASSUME UNCHANGED <<pool, allItems>>
  PROVE  Pooled' = Pooled /\ Subscribed' = Subscribed /\ Out' = Out
BY DEF Pooled, Subscribed, Out

(* A callback that starts to wait.                                         *)
LEMMA BorrowWaitsInv ==
  ASSUME PoolInv, NEW u \in Users, BorrowWaits(u)
  PROVE  PoolInv'
<1> USE DEF PoolInv
<1>1. Pooled' = Pooled /\ Subscribed' = Subscribed /\ Out' = Out
  BY SameTables DEF BorrowWaits
<1>2. TypeOK'
  BY DEF TypeOK, BorrowWaits
<1>3. StackDistinct' /\ InFlightExact' /\ Limit' /\ SingleOwner'
  BY <1>1 DEF StackDistinct, InFlightExact, Limit, SingleOwner, BorrowWaits
<1>4. Len(pool) = 0 /\ maxSize \in Nat /\ maxSize > 0 /\ inFlight >= maxSize
  BY MaxSizesAssumption DEF BorrowWaits, Exhausted, CanCreate, TypeOK
<1>5. inFlight = maxSize
  BY <1>4, FiniteItems DEF Limit, InFlightExact, TypeOK
<1>6. WaiterNotOvertaken'
  BY <1>4, <1>5 DEF WaiterNotOvertaken, BorrowWaits, Exhausted
<1>7. PoolAssertions' /\ RecoverTargetsInFlight' /\ RecoverRuns'
  BY <1>1 DEF PoolAssertions, RecoverTargetsInFlight, RecoverRuns, BorrowWaits
<1> QED
  BY <1>2, <1>3, <1>6, <1>7

(* The first half of put_back(), by a borrower or by recover(): the item   *)
(* leaves its only holder and is on its way.                               *)
LEMMA ReturningInv ==
  ASSUME PoolInv, NEW p \in Items, holder[p] # {},
         holder' = [holder EXCEPT ![p] = {}],
         engaged' = [engaged EXCEPT ![p] = FALSE],
         returning' = returning \cup {p},
         todo' \subseteq todo, overlap \subseteq overlap', overlap' \subseteq Items,
         p \in todo' => p \in overlap',
         UNCHANGED <<tables, recId, doubled>>
  PROVE  PoolInv'
<1> USE DEF PoolInv, tables
<1>1. Pooled' = Pooled /\ Subscribed' = Subscribed /\ Out' = Out
  BY SameTables
<1>2. TypeOK'
  BY DEF TypeOK
<1>3. StackDistinct' /\ InFlightExact' /\ Limit' /\ WaiterNotOvertaken'
  BY <1>1 DEF StackDistinct, InFlightExact, Limit, WaiterNotOvertaken
<1>4. p \in Out /\ p \notin returning
  BY DEF SingleOwner
<1>5. SingleOwner'
  <2> SUFFICES ASSUME NEW q \in Items
               PROVE  /\ \A v, w \in holder'[q] : v = w
                      /\ q \in returning' => holder'[q] = {}
                      /\ q \in Out' <=> (q \in returning' \/ holder'[q] # {})
    BY DEF SingleOwner
  <2>1. CASE q = p
    BY <1>1, <1>4, <2>1 DEF TypeOK
  <2>2. CASE q # p
    <3>1. holder'[q] = holder[q] /\ (q \in returning' <=> q \in returning)
      BY <2>2 DEF TypeOK
    <3> QED
      BY <1>1, <3>1 DEF SingleOwner
  <2> QED
    BY <2>1, <2>2
<1>6. inFlight > 0
  BY DEF PoolAssertions
<1>7. PoolAssertions'
  BY <1>1, <1>6 DEF PoolAssertions, TypeOK
<1>8. RecoverTargetsInFlight'
  <2>1. ASSUME NEW q \in todo' \ overlap' PROVE holder'[q] # {} /\ allItems'[q] = recId'
    BY <2>1 DEF RecoverTargetsInFlight, TypeOK
  <2>2. doubled' => overlap' # {}
    BY DEF RecoverTargetsInFlight
  <2>3. \A q \in Items : allItems'[q] = PoiInvalid <=> q \in Pooled'
    BY <1>1 DEF RecoverTargetsInFlight
  <2> QED
    BY <2>1, <2>2, <2>3 DEF RecoverTargetsInFlight
<1>9. RecoverRuns'
  BY DEF RecoverRuns
<1> QED
  BY <1>2, <1>3, <1>5, <1>7, <1>8, <1>9

(* insert() with nobody waiting.                                           *)
LEMMA InsertPushesInv ==
  ASSUME PoolInv, NEW p \in Items, InsertPushes(p)
  PROVE  PoolInv'
<1> USE DEF PoolInv
<1>1. p \in Out /\ holder[p] = {} /\ p \in Subscribed /\ p \notin Pooled
  BY DEF InsertPushes, SingleOwner, Out
<1>2. /\ pool' \in Seq(Items) /\ Len(pool) \in Nat
      /\ Len(pool') = Len(pool) + 1
      /\ Distinct(pool') /\ Pooled' = Pooled \cup {p}
  BY <1>1, PushFacts DEF InsertPushes, TypeOK, StackDistinct, Pooled
<1>3. allItems' = [allItems EXCEPT ![p] = PoiInvalid] /\ PoiInvalid # Unknown
  BY IdsAssumption DEF InsertPushes
<1>4. Subscribed' = Subscribed
  BY <1>1, <1>3 DEF Subscribed, TypeOK
<1>5. Out' = Out \ {p}
  BY <1>1, <1>2, <1>4 DEF Out
<1>6. Cardinality(Out') = Cardinality(Out) - 1 /\ Cardinality(Out) > 0
  BY <1>1, <1>5, FiniteItems, FS_RemoveElement, Inhabited
<1>7. inFlight' = inFlight - 1 /\ inFlight' \in Nat
  BY <1>6, FiniteItems DEF InFlightExact, InsertPushes
<1>8. TypeOK'
  BY <1>2, <1>3, <1>7 DEF TypeOK, InsertPushes
<1>9. StackDistinct'
  BY <1>1, <1>2, <1>4 DEF StackDistinct
<1>10. InFlightExact'
  BY <1>2, <1>4, <1>6, <1>7, FiniteItems DEF InFlightExact
<1>11. Limit'
  BY <1>4 DEF Limit, InsertPushes
<1>12. SingleOwner'
  <2> SUFFICES ASSUME NEW q \in Items
               PROVE  /\ \A v, w \in holder'[q] : v = w
                      /\ q \in returning' => holder'[q] = {}
                      /\ q \in Out' <=> (q \in returning' \/ holder'[q] # {})
    BY DEF SingleOwner
  <2>1. holder' = holder /\ returning' = returning \ {p}
    BY DEF InsertPushes
  <2>2. CASE q = p
    BY <1>1, <1>5, <2>1, <2>2
  <2>3. CASE q # p
    <3>1. (q \in Out' <=> q \in Out) /\ (q \in returning' <=> q \in returning)
      BY <1>5, <2>1, <2>3
    <3> QED
      BY <2>1, <3>1 DEF SingleOwner
  <2> QED
    BY <2>2, <2>3
<1>13. WaiterNotOvertaken'
  BY DEF WaiterNotOvertaken, InsertPushes
<1>14. PoolAssertions'
  <2>1. \A q \in Items : (q \in returning' \/ holder'[q] # {}) => inFlight' > 0
    <3> SUFFICES ASSUME NEW q \in Items, q \in returning' \/ holder'[q] # {}
                 PROVE  inFlight' > 0
      OBVIOUS
    <3>1. q \in Out'
      BY <1>12 DEF SingleOwner
    <3>2. IsFiniteSet(Out')
      BY <1>5, FiniteItems, FS_RemoveElement
    <3>3. Cardinality(Out') > 0
      BY <3>1, <3>2, Inhabited
    <3> QED
      BY <1>10, <3>3 DEF InFlightExact
  <2>2. \A q \in Pooled' \cup returning' : ~engaged'[q]
    BY <1>2 DEF PoolAssertions, InsertPushes
  <2> QED
    BY <2>1, <2>2 DEF PoolAssertions
<1>15. RecoverTargetsInFlight'
  <2>1. \A q \in todo' \ overlap' : q # p
    BY <1>1 DEF RecoverTargetsInFlight, InsertPushes
  <2>2. ASSUME NEW q \in todo' \ overlap' PROVE holder'[q] # {} /\ allItems'[q] = recId'
    BY <1>3, <2>1 DEF RecoverTargetsInFlight, InsertPushes, TypeOK
  <2>3. \A q \in Items : allItems'[q] = PoiInvalid <=> q \in Pooled'
    BY <1>1, <1>2, <1>3 DEF RecoverTargetsInFlight, TypeOK
  <2>4. doubled' => overlap' # {}
    BY DEF RecoverTargetsInFlight, InsertPushes
  <2> QED
    BY <2>2, <2>3, <2>4 DEF RecoverTargetsInFlight
<1>16. RecoverRuns'
  BY DEF RecoverRuns, InsertPushes
<1> QED
  BY <1>8, <1>9, <1>10, <1>11, <1>12, <1>13, <1>14, <1>15, <1>16

(* insert() that hands the item to the waiting callback.                   *)
LEMMA InsertHandsOverInv ==
  ASSUME PoolInv, NEW p \in Items, InsertHandsOver(p)
  PROVE  PoolInv'
<1> USE DEF PoolInv
<1>1. Pooled' = Pooled /\ Subscribed' = Subscribed /\ Out' = Out
  BY SameTables DEF InsertHandsOver
<1>2. p \in Out /\ holder[p] = {}
  BY DEF InsertHandsOver, SingleOwner
<1>3. holder' = [holder EXCEPT ![p] = {waiter}] /\ waiter \in Users
  BY <1>2 DEF InsertHandsOver, TypeOK
<1>4. TypeOK'
  BY <1>3 DEF TypeOK, InsertHandsOver
<1>5. StackDistinct' /\ InFlightExact' /\ Limit' /\ WaiterNotOvertaken'
  BY <1>1 DEF StackDistinct, InFlightExact, Limit, WaiterNotOvertaken,
              InsertHandsOver
<1>6. SingleOwner'
  <2> SUFFICES ASSUME NEW q \in Items
               PROVE  /\ \A v, w \in holder'[q] : v = w
                      /\ q \in returning' => holder'[q] = {}
                      /\ q \in Out' <=> (q \in returning' \/ holder'[q] # {})
    BY DEF SingleOwner
  <2>1. returning' = returning \ {p}
    BY DEF InsertHandsOver
  <2>2. CASE q = p
    BY <1>1, <1>2, <1>3, <2>1, <2>2 DEF TypeOK
  <2>3. CASE q # p
    <3>1. holder'[q] = holder[q] /\ (q \in returning' <=> q \in returning)
      BY <1>3, <2>1, <2>3 DEF TypeOK
    <3> QED
      BY <1>1, <3>1 DEF SingleOwner
  <2> QED
    BY <2>2, <2>3
<1>7. inFlight > 0
  BY DEF PoolAssertions, InsertHandsOver
<1>8. PoolAssertions'
  BY <1>1, <1>7 DEF PoolAssertions, InsertHandsOver
<1>9. RecoverTargetsInFlight'
  BY <1>1, <1>3 DEF RecoverTargetsInFlight, InsertHandsOver, TypeOK
<1>10. RecoverRuns'
  BY DEF RecoverRuns, InsertHandsOver
<1> QED
  BY <1>4, <1>5, <1>6, <1>8, <1>9, <1>10

(* The steps of recover() that leave every item where it is: it copies the *)
(* table, inserts an item a second time, returns.                          *)
LEMMA RecoverInv ==
  ASSUME PoolInv, ~doubled,
         \/ \E id \in Ids : RecoverCopy(id)
         \/ \E p \in Items : RecoverDoubles(p)
         \/ RecoverReturns
  PROVE  PoolInv'
<1> USE DEF PoolInv, tables
<1>1. UNCHANGED <<maxSize, eagerly, pool, allItems, inFlight, total, waiter,
                  engaged, holder, returning>>
  BY DEF RecoverCopy, RecoverDoubles, RecoverReturns
<1>2. Pooled' = Pooled /\ Subscribed' = Subscribed /\ Out' = Out
  BY <1>1, SameTables
<1> DEFINE Goal == /\ recId' \in Ids \cup {Nobody} /\ todo' \subseteq Items
                   /\ overlap' \subseteq Items /\ doubled' \in BOOLEAN
                   /\ todo' # {} => recId' # Nobody
                   /\ \A p \in todo' \ overlap' : holder[p] # {} /\ allItems[p] = recId'
                   /\ doubled' => overlap' # {}
<1>3. ASSUME NEW id \in Ids, RecoverCopy(id) PROVE Goal
  <2>1. /\ recId' = id /\ id # Nobody /\ overlap' = returning /\ doubled' = FALSE
        /\ todo' = {p \in Subscribed : allItems[p] = id}
    BY <1>3, IdsAssumption DEF RecoverCopy, TypeOK
  <2>2. todo' \subseteq Items
    BY <2>1 DEF Subscribed
  <2>3. ASSUME NEW p \in todo' \ overlap'
        PROVE  holder[p] # {} /\ allItems[p] = recId'
    <3>1. /\ p \in Items /\ p \in Subscribed /\ p \notin returning
          /\ allItems[p] = id /\ id # PoiInvalid
      BY <2>1, <2>2, <2>3, IdsAssumption
    <3>2. p \in Out
      BY <3>1 DEF RecoverTargetsInFlight, Out
    <3> QED
      BY <2>1, <3>1, <3>2 DEF SingleOwner
  <2> QED
    BY <2>1, <2>2, <2>3 DEF TypeOK
<1>4. ASSUME NEW q \in Items, RecoverDoubles(q) PROVE Goal
  <2>1. /\ q \in todo /\ holder[q] = {} /\ todo' = todo \ {q} /\ doubled' = TRUE
        /\ recId' = recId /\ overlap' = overlap
    BY <1>4 DEF RecoverDoubles
  <2>2. q \in overlap
    BY <2>1 DEF RecoverTargetsInFlight
  <2>3. /\ recId' \in Ids \cup {Nobody} /\ todo' \subseteq Items
        /\ overlap' \subseteq Items
        /\ todo' # {} => recId' # Nobody
    BY <2>1 DEF TypeOK, RecoverRuns
  <2>4. \A p \in todo' \ overlap' : holder[p] # {} /\ allItems[p] = recId'
    BY <2>1 DEF RecoverTargetsInFlight
  <2>5. doubled' \in BOOLEAN /\ overlap' # {}
    BY <2>1, <2>2
  <2> QED
    BY <2>3, <2>4, <2>5
<1>5. ASSUME RecoverReturns PROVE Goal
  <2>1. todo' = {} /\ recId' = Nobody /\ overlap' = {} /\ doubled' = FALSE
    BY <1>5 DEF RecoverReturns, TypeOK
  <2> QED
    BY <2>1
<1> HIDE DEF Goal
<1>6. Goal
  BY <1>3, <1>4, <1>5
<1> USE DEF Goal
<1>7. TypeOK' /\ RecoverRuns'
  BY <1>1, <1>6 DEF TypeOK, RecoverRuns
<1>8. RecoverTargetsInFlight'
  BY <1>1, <1>2, <1>6 DEF RecoverTargetsInFlight
<1>9. /\ StackDistinct' /\ InFlightExact' /\ Limit' /\ SingleOwner'
      /\ WaiterNotOvertaken' /\ PoolAssertions'
  BY <1>1, <1>2 DEF StackDistinct, InFlightExact, Limit, SingleOwner,
                    WaiterNotOvertaken, PoolAssertions
<1> QED
  BY <1>7, <1>8, <1>9

(* Every step of the pool preserves the invariant.                         *)
LEMMA NextPoolInv == PoolInv /\ [Next]_vars => PoolInv'
<1> SUFFICES ASSUME PoolInv, [Next]_vars PROVE PoolInv'
  OBVIOUS
<1>1. ASSUME NEW u \in Users, NEW id \in Ids, BorrowPooled(u, id)
      PROVE  PoolInv'
  BY <1>1, BorrowPooledInv
<1>2. ASSUME NEW u \in Users, NEW id \in Ids, NEW p \in Items,
             BorrowCreated(u, id, p)
      PROVE  PoolInv'
  BY <1>2, BorrowCreatedInv
<1>3. ASSUME NEW u \in Users, BorrowWaits(u) PROVE PoolInv'
  BY <1>3, BorrowWaitsInv
<1>4. ASSUME NEW u \in Users, NEW p \in Items, PutBack(u, p) PROVE PoolInv'
  <2>1. holder[p] = {u}
    BY <1>4 DEF PutBack, PoolInv, SingleOwner
  <2>2. holder' = [holder EXCEPT ![p] = {}] /\ todo' = todo
    BY <1>4, <2>1 DEF PutBack
  <2>3. /\ overlap \subseteq overlap' /\ overlap' \subseteq Items
        /\ p \in todo => p \in overlap'
    BY <1>4 DEF PutBack, PoolInv, TypeOK, RecoverRuns
  <2> QED
    BY <1>4, <2>1, <2>2, <2>3, ReturningInv DEF PutBack
<1>5. ASSUME NEW p \in Items, RecoverFinalize(p) PROVE PoolInv'
  <2>1. overlap' = overlap /\ overlap \subseteq Items /\ todo' = todo \ {p}
    BY <1>5 DEF RecoverFinalize, PoolInv, TypeOK
  <2> QED
    BY <1>5, <2>1, ReturningInv DEF RecoverFinalize
<1>6. ASSUME NEW p \in Items, Insert(p) PROVE PoolInv'
  BY <1>6, InsertPushesInv, InsertHandsOverInv DEF Insert
<1>7. ASSUME ~doubled,
             \/ \E id \in Ids : RecoverCopy(id)
             \/ \E p \in Items : RecoverDoubles(p)
             \/ RecoverReturns
      PROVE  PoolInv'
  BY <1>7, RecoverInv
<1>8. CASE UNCHANGED vars
  BY <1>8 DEF vars, tables, PoolInv, RecoverRuns, TypeOK, StackDistinct, InFlightExact, Limit,
     SingleOwner, WaiterNotOvertaken, PoolAssertions, RecoverTargetsInFlight,
     Pooled, Subscribed, Out
<1>9. ASSUME NEW u \in Users, BorrowRefused(u) \/ BorrowWaitThrows(u)
      PROVE  PoolInv'
  BY <1>8, <1>9 DEF BorrowRefused, BorrowWaitThrows
<1> QED
  BY <1>1, <1>2, <1>3, <1>4, <1>5, <1>6, <1>7, <1>8, <1>9
     DEF Next, Operation, Recover

(* The invariant holds for every pool: the counters are exact, the limit   *)
(* is kept, every item has one owner, and the assertions of put_back() and *)
(* try_borrow() never fail.                                                *)
THEOREM PoolInvariance == Spec => []PoolInv
BY InitPoolInv, NextPoolInv, PTL DEF Spec

(* No item is ever with two borrowers, or with one and on the stack.       *)
THEOREM OneOwner == Spec => []SingleOwner
<1>1. PoolInv => SingleOwner
  BY DEF PoolInv
<1> QED
  BY <1>1, PoolInvariance, PTL

(* The pool never owns more items than its limit.                          *)
THEOREM WithinLimit == Spec => []Limit
<1>1. PoolInv => Limit
  BY DEF PoolInv
<1> QED
  BY <1>1, PoolInvariance, PTL

(* num_items_in_flight_ is exactly the number of items that are out.       *)
THEOREM CountIsExact == Spec => []InFlightExact
<1>1. PoolInv => InFlightExact
  BY DEF PoolInv
<1> QED
  BY <1>1, PoolInvariance, PTL

(* While a callback waits no item is free, however many callers borrow.    *)
THEOREM NobodyOvertakes == Spec => []WaiterNotOvertaken
<1>1. PoolInv => WaiterNotOvertaken
  BY DEF PoolInv
<1> QED
  BY <1>1, PoolInvariance, PTL

(* The assertions of put_back() and try_borrow() never fail.               *)
THEOREM AssertionsHold == Spec => []PoolAssertions
<1>1. PoolInv => PoolAssertions
  BY DEF PoolInv
<1> QED
  BY <1>1, PoolInvariance, PTL

(* What recover() has still to finalize is with the borrower who has it    *)
(* under its id, but for the items a put_back() returned meanwhile, and no *)
(* item is inserted twice unless there is such a put_back().               *)
THEOREM RecoverHitsBorrowed == Spec => []RecoverTargetsInFlight
<1>1. PoolInv => RecoverTargetsInFlight
  BY DEF PoolInv
<1> QED
  BY <1>1, PoolInvariance, PTL

-----------------------------------------------------------------------------
(* The pool implements ItemLending.                                        *)

(* The borrower of an item, if the item has one and one only.              *)
LEMMA LentFacts ==
  ASSUME PoolInv
  PROVE  /\ \A p \in Items : holder[p] = {} => LentTo[p] = Nobody
         /\ \A p \in Items : holder[p] # {} => /\ LentTo[p] \in holder[p]
                                              /\ holder[p] = {LentTo[p]}
                                              /\ LentTo[p] \in Users
                                              /\ LentTo[p] # Nobody
<1> USE DEF PoolInv, TypeOK
<1>1. ASSUME NEW p \in Items, holder[p] = {} PROVE LentTo[p] = Nobody
  BY <1>1 DEF LentTo
<1>2. ASSUME NEW p \in Items, holder[p] # {}
      PROVE  /\ LentTo[p] \in holder[p] /\ holder[p] = {LentTo[p]}
             /\ LentTo[p] \in Users /\ LentTo[p] # Nobody
  <2>1. PICK v \in Users : v \in holder[p]
    BY <1>2
  <2>2. LentTo[p] = CHOOSE u \in Users : u \in holder[p]
    BY <1>2 DEF LentTo
  <2>3. LentTo[p] \in Users /\ LentTo[p] \in holder[p]
    BY <2>1, <2>2
  <2>4. \A u, w \in holder[p] : u = w
    BY DEF SingleOwner
  <2>5. holder[p] = {LentTo[p]}
    BY <2>3, <2>4
  <2> QED
    BY <2>3, <2>5, UsersAssumption
<1> QED
  BY <1>1, <1>2

(* What is lent is out of the stack, and counted in flight.                *)
LEMMA LentAreOut ==
  ASSUME PoolInv
  PROVE  /\ Lending!Lent \subseteq Out
         /\ Lending!Lent \cap returning = {}
         /\ IsFiniteSet(Lending!Lent) /\ Cardinality(Lending!Lent) \in Nat
         /\ inFlight = Cardinality(Out) /\ IsFiniteSet(Out)
<1>1. ASSUME NEW p \in Lending!Lent PROVE p \in Items /\ holder[p] # {}
  BY <1>1, LentFacts DEF Lending!Lent
<1>2. ASSUME NEW p \in Lending!Lent PROVE p \in Out /\ p \notin returning
  BY <1>1 DEF PoolInv, SingleOwner
<1>3. Lending!Lent \subseteq Out /\ Lending!Lent \cap returning = {}
  BY <1>2
<1>4. IsFiniteSet(Out)
  BY FiniteItems
<1>5. IsFiniteSet(Lending!Lent) /\ Cardinality(Lending!Lent) \in Nat
  BY <1>3, <1>4, FS_Subset, FS_CardinalityType
<1> QED
  BY <1>3, <1>4, <1>5 DEF PoolInv, InFlightExact

(* Giving p to u, or taking it from whoever has it, is the same in the     *)
(* abstract table.                                                         *)
LEMMA LentAfter ==
  ASSUME PoolInv, NEW p \in Items, NEW S \in SUBSET Users,
         holder' = [holder EXCEPT ![p] = S]
  PROVE  /\ S = {} => LentTo' = [LentTo EXCEPT ![p] = Nobody]
         /\ \A u \in Users : S = {u} => LentTo' = [LentTo EXCEPT ![p] = u]
<1> DEFINE who(T) == IF T = {} THEN Nobody ELSE CHOOSE u \in Users : u \in T
<1>1. LentTo = [q \in Items |-> who(holder[q])]
  BY DEF LentTo
<1>2. LentTo' = [q \in Items |-> who(holder'[q])]
  BY DEF LentTo
<1>3. \A q \in Items : holder'[q] = IF q = p THEN S ELSE holder[q]
  BY DEF PoolInv, TypeOK
<1>4. \A u \in Users : who({u}) = u
  <2>1. ASSUME NEW u \in Users PROVE (CHOOSE v \in Users : v \in {u}) = u
    <3>1. \E v \in Users : v \in {u}
      OBVIOUS
    <3>2. (CHOOSE v \in Users : v \in {u}) \in {u}
      BY <3>1
    <3> QED
      BY <3>2
  <2> QED
    BY <2>1
<1>5. who({}) = Nobody
  OBVIOUS
<1> HIDE DEF who
<1>6. LentTo' = [LentTo EXCEPT ![p] = who(S)]
  BY <1>1, <1>2, <1>3
<1> QED
  BY <1>4, <1>5, <1>6

(* The instance counts what is lent as the pool's module would.            *)
LEMMA SameCardinality ==
  Lending!Cardinality(Lending!Lent) = Cardinality(Lending!Lent)
BY DEF Lending!Cardinality, Cardinality

(* An item on the stack or one that is created leaves the pool below its   *)
(* limit, and nobody waits for it.                                         *)
LEMMA BorrowLends ==
  ASSUME PoolInv, NEW u \in Users, NEW p \in Items,
         holder[p] = {}, waiter = Nobody,
         maxSize = 0 \/ inFlight < maxSize,
         holder' = [holder EXCEPT ![p] = @ \cup {u}],
         waiter' = waiter, maxSize' = maxSize
  PROVE  Lending!Lend(p, u)
<1>1. LentTo[p] = Nobody
  BY LentFacts
<1>2. LentTo' = [LentTo EXCEPT ![p] = u]
  <2>1. PICK S \in SUBSET Users : S = {u}
    OBVIOUS
  <2>2. holder' = [holder EXCEPT ![p] = S]
    BY <2>1
  <2> QED
    BY <2>1, <2>2, LentAfter
<1>3. Cardinality(Lending!Lent) <= inFlight
  BY LentAreOut, FS_Subset
<1>4. Lending!Room
  <2>1. Cardinality(Lending!Lent) \in Nat /\ inFlight \in Nat /\ maxSize \in Nat
    BY LentAreOut, MaxSizesAssumption DEF PoolInv, TypeOK
  <2>2. \A m, n, k \in Nat : m <= n /\ n < k => m < k
    OBVIOUS
  <2>3. maxSize = 0 \/ Cardinality(Lending!Lent) < maxSize
    BY <1>3, <2>1, <2>2, Zenon
  <2> QED
    BY <2>3, SameCardinality DEF Lending!Room
<1> QED
  BY <1>1, <1>2, <1>4 DEF Lending!Lend

LEMMA BorrowPooledLends ==
  ASSUME PoolInv, NEW u \in Users, NEW id \in Ids, BorrowPooled(u, id)
  PROVE  \E p \in Items : Lending!Lend(p, u)
<1> USE DEF PoolInv, TypeOK
<1> DEFINE top == pool[Len(pool)]
<1>1. top \in Items /\ top \in Pooled /\ Len(pool) \in Nat \ {0}
  BY PopFacts DEF BorrowPooled, StackDistinct, Pooled
<1>2. PICK p \in Items : p = top
  BY <1>1
<1> HIDE DEF top
<1>3. holder' = [holder EXCEPT ![p] = @ \cup {u}]
      /\ waiter' = waiter /\ maxSize' = maxSize
  BY <1>2 DEF BorrowPooled, top
<1>4. holder[p] = {}
  BY <1>1, <1>2 DEF SingleOwner, Out
<1>5. waiter = Nobody
  BY DEF BorrowPooled, WaiterNotOvertaken
<1>6. maxSize = 0 \/ inFlight < maxSize
  <2>1. maxSize \in Nat /\ Cardinality(Subscribed) \in Nat
    BY MaxSizesAssumption, FiniteItems
  <2>2. maxSize > 0 => Len(pool) + inFlight <= maxSize
    BY DEF InFlightExact, Limit
  <2> QED
    BY <1>1, <2>1, <2>2
<1>7. PoolInv
  OBVIOUS
<1> QED
  BY <1>3, <1>4, <1>5, <1>6, <1>7, BorrowLends

LEMMA BorrowCreatedLends ==
  ASSUME PoolInv, NEW u \in Users, NEW id \in Ids, NEW p \in Items,
         BorrowCreated(u, id, p)
  PROVE  Lending!Lend(p, u)
<1>1. holder' = [holder EXCEPT ![p] = @ \cup {u}]
      /\ waiter' = waiter /\ maxSize' = maxSize /\ p \notin Subscribed
      /\ (maxSize = 0 \/ inFlight < maxSize)
  BY DEF BorrowCreated, CanCreate
<1>2. holder[p] = {}
  BY <1>1 DEF PoolInv, SingleOwner, Out
<1>3. waiter = Nobody
  <2>1. maxSize \in Nat /\ inFlight \in Nat
    BY MaxSizesAssumption DEF PoolInv, TypeOK
  <2>2. waiter # Nobody => maxSize > 0 /\ inFlight = maxSize
    BY DEF PoolInv, WaiterNotOvertaken
  <2> QED
    BY <1>1, <2>1, <2>2
<1> QED
  BY <1>1, <1>2, <1>3, BorrowLends

(* A put_back() and a finalize() by recover() return the item.             *)
LEMMA ReturnReturns ==
  ASSUME PoolInv, NEW p \in Items, holder[p] # {},
         holder' = [holder EXCEPT ![p] = {}],
         waiter' = waiter, maxSize' = maxSize
  PROVE  Lending!Return(p)
<1>1. LentTo[p] # Nobody
  BY LentFacts
<1>2. LentTo' = [LentTo EXCEPT ![p] = Nobody]
  BY LentAfter
<1> QED
  BY <1>1, <1>2 DEF Lending!Return

(* A hand-over lends the item that is on its way back, which still counts  *)
(* as in flight, to the waiting callback: there is room for it.            *)
LEMMA HandOverServes ==
  ASSUME PoolInv, NEW p \in Items, InsertHandsOver(p)
  PROVE  Lending!ServeWaiting(p)
<1>1. /\ p \in returning /\ waiter # Nobody
      /\ holder' = [holder EXCEPT ![p] = @ \cup {waiter}]
      /\ waiter' = Nobody /\ maxSize' = maxSize
  BY DEF InsertHandsOver
<1>2. holder[p] = {} /\ p \in Out /\ waiter \in Users
  BY <1>1 DEF PoolInv, SingleOwner, TypeOK
<1>3. LentTo[p] = Nobody
  BY <1>2, LentFacts
<1>4. LentTo' = [LentTo EXCEPT ![p] = waiter]
  <2>1. holder' = [holder EXCEPT ![p] = {waiter}]
    BY <1>1, <1>2
  <2> QED
    BY <1>2, <2>1, LentAfter
<1>5. Cardinality(Lending!Lent) < inFlight
  <2>1. Lending!Lent \subseteq Out /\ p \notin Lending!Lent
        /\ IsFiniteSet(Out) /\ inFlight = Cardinality(Out)
    BY <1>1, LentAreOut
  <2>2. Lending!Lent # Out
    BY <1>2, <2>1
  <2>3. /\ Cardinality(Lending!Lent) <= Cardinality(Out)
        /\ Cardinality(Lending!Lent) # Cardinality(Out)
    BY <2>1, <2>2, FS_Subset
  <2>4. Cardinality(Lending!Lent) \in Nat /\ Cardinality(Out) \in Nat
    BY LentAreOut, FS_CardinalityType
  <2>5. \A m, n \in Nat : m <= n /\ m # n => m < n
    OBVIOUS
  <2> QED
    BY <2>1, <2>3, <2>4, <2>5, Zenon
<1>6. inFlight = maxSize
  BY <1>1 DEF PoolInv, WaiterNotOvertaken
<1>7. Lending!Room
  <2>1. Cardinality(Lending!Lent) < maxSize
    BY <1>5, <1>6, Zenon
  <2> QED
    BY <2>1, SameCardinality DEF Lending!Room
<1> QED
  BY <1>1, <1>3, <1>4, <1>7 DEF Lending!ServeWaiting

(* Every step of the pool is a step of the lending or changes nothing of   *)
(* it.                                                                     *)
LEMMA StepLends == PoolInv /\ [Next]_vars => [Lending!LendNext]_(Lending!lendVars)
<1> SUFFICES ASSUME PoolInv, [Next]_vars
             PROVE  Lending!LendNext \/ UNCHANGED Lending!lendVars
  OBVIOUS
<1> USE DEF Lending!LendNext
<1>1. ASSUME UNCHANGED <<holder, waiter, maxSize>>
      PROVE  UNCHANGED Lending!lendVars
  BY <1>1 DEF Lending!lendVars, LentTo
<1>2. ASSUME NEW u \in Users, NEW id \in Ids, BorrowPooled(u, id)
      PROVE  Lending!LendNext
  BY <1>2, BorrowPooledLends
<1>3. ASSUME NEW u \in Users, NEW id \in Ids, NEW p \in Items,
             BorrowCreated(u, id, p)
      PROVE  Lending!LendNext
  BY <1>3, BorrowCreatedLends
<1>4. ASSUME NEW u \in Users, BorrowRefused(u) \/ BorrowWaitThrows(u)
      PROVE  UNCHANGED Lending!lendVars
  BY <1>1, <1>4 DEF BorrowRefused, BorrowWaitThrows, vars, tables
<1>5. ASSUME NEW u \in Users, BorrowWaits(u) PROVE Lending!LendNext
  <2>1. maxSize > 0
    BY <1>5, MaxSizesAssumption DEF BorrowWaits, Exhausted, CanCreate, PoolInv, TypeOK
  <2>2. UNCHANGED LentTo
    BY <1>5 DEF BorrowWaits, LentTo
  <2>3. Lending!Wait(u)
    BY <1>5, <2>1, <2>2 DEF BorrowWaits, Lending!Wait
  <2> QED
    BY <2>3
<1>6. ASSUME NEW u \in Users, NEW p \in Items, PutBack(u, p)
      PROVE  Lending!LendNext
  <2>1. holder[p] = {u}
    BY <1>6 DEF PutBack, PoolInv, SingleOwner
  <2>2. holder' = [holder EXCEPT ![p] = {}] /\ waiter' = waiter /\ maxSize' = maxSize
    BY <1>6, <2>1 DEF PutBack, tables
  <2> QED
    BY <2>1, <2>2, ReturnReturns
<1>7. ASSUME NEW p \in Items, RecoverFinalize(p) PROVE Lending!LendNext
  BY <1>7, ReturnReturns DEF RecoverFinalize, tables
<1>8. ASSUME NEW p \in Items, InsertPushes(p) PROVE UNCHANGED Lending!lendVars
  BY <1>1, <1>8 DEF InsertPushes
<1>9. ASSUME NEW p \in Items, InsertHandsOver(p) PROVE Lending!LendNext
  BY <1>9, HandOverServes
<1>10. ASSUME NEW id \in Ids, RecoverCopy(id) PROVE UNCHANGED Lending!lendVars
  BY <1>1, <1>10 DEF RecoverCopy, tables
<1>11. CASE RecoverReturns \/ \E p \in Items : RecoverDoubles(p)
  BY <1>1, <1>11 DEF RecoverReturns, RecoverDoubles, tables
<1>12. CASE UNCHANGED vars
  BY <1>1, <1>12 DEF vars, tables
<1> HIDE DEF Lending!LendNext
<1> QED
  BY <1>2, <1>3, <1>4, <1>5, <1>6, <1>7, <1>8, <1>9, <1>10, <1>11, <1>12
     DEF Next, Operation, Insert, Recover

(* The pool with its stack, table, counters, mutex and recover() does      *)
(* nothing that the lending of items does not allow: every item has one    *)
(* borrower at a time, the limit holds, a waiting callback comes first.    *)
THEOREM PoolLends == Spec => LendSpec
<1>1. Init => Lending!LendInit
  BY MaxSizesAssumption DEF Init, Lending!LendInit, LentTo
<1> QED
  BY <1>1, PoolInvariance, StepLends, PTL DEF Spec, LendSpec, Lending!LendSpec
=============================================================================
