-------------------------------- MODULE Pool --------------------------------
(***************************************************************************)
(* The object pool of src/src/pool.hpp, the CRTP base of the session,      *)
(* strand, send-buffer and instruction pools.                              *)
(*                                                                         *)
(* A borrower gets the item on top of the stack, or a new one while fewer  *)
(* than max_size_ are in flight; otherwise it gets nullptr or, with a      *)
(* callback, waits for the first item that is put back.  Every public      *)
(* operation is one critical section of mtx_ except put_back(), which      *)
(* checks and marks the item before insert() takes the mutex, and          *)
(* recover(), which works on a copy of the item table.                     *)
(***************************************************************************)
EXTENDS Naturals, Sequences, FiniteSets

CONSTANTS Items,        \* the addresses operator new may return
          Users,        \* the threads that use the pool
          Ids,          \* the POI values borrowers pass
          MaxSizes,     \* the max_size arguments of the constructor
          PoiInvalid,   \* POI_INVALID
          Unknown,      \* not a key of all_items_
          Nobody        \* no borrower waits, no recover() runs

ASSUME ItemsAssumption == IsFiniteSet(Items)
ASSUME IdsAssumption == /\ PoiInvalid \notin Ids /\ Unknown \notin Ids
                        /\ PoiInvalid # Unknown /\ Nobody \notin Ids
ASSUME UsersAssumption == Nobody \notin Users
ASSUME MaxSizesAssumption == MaxSizes \subseteq Nat

VARIABLES
    maxSize,    \* max_size_, 0 is unlimited
    eagerly,    \* the constructor filled the pool
    pool,       \* pool_, the stack of free items, top last
    allItems,   \* all_items_
    inFlight,   \* stats_.num_items_in_flight_
    total,      \* stats_.num_items_total_
    waiter,     \* whose callback_ is active, Nobody if !callback_active_
    engaged,    \* the engaged_ mark of each item (LS_SANITIZE)
    holder,     \* who has been given each item and not put it back
    returning,  \* items in put_back(), before insert() has the mutex
    recId,      \* the argument of the recover() that runs
    todo        \* the items of its copy it has still to finalize

(* History: how put_back() calls cut across the recover() that runs.       *)
VARIABLES
    overlap,    \* items in put_back() when it took its copy, or since
    doubled     \* it finalized an item nobody had, which is inserted twice

tables == <<maxSize, eagerly, pool, allItems, inFlight, total, waiter>>
vars   == <<tables, engaged, holder, returning, recId, todo, overlap, doubled>>

OnStack(s)  == {s[i] : i \in 1 .. Len(s)}
Distinct(s) == \A i, j \in 1 .. Len(s) : s[i] = s[j] => i = j

Pooled     == OnStack(pool)
Subscribed == {p \in Items : allItems[p] # Unknown}
Out        == Subscribed \ Pooled

(***************************************************************************)
(* The constructor: an eager pool add()s max_size items, and add() counts  *)
(* each of them twice in num_items_total_.  An eager unlimited pool throws *)
(* InvalidArgs, so there is no such pool.                                  *)
(***************************************************************************)
Init ==
    /\ maxSize \in MaxSizes
    /\ eagerly \in BOOLEAN
    /\ eagerly => maxSize # 0
    /\ pool \in [1 .. (IF eagerly THEN maxSize ELSE 0) -> Items]
    /\ Distinct(pool)
    /\ allItems = [p \in Items |-> IF p \in Pooled THEN PoiInvalid ELSE Unknown]
    /\ inFlight = 0
    /\ total = 2 * Len(pool)
    /\ waiter = Nobody
    /\ engaged = [p \in Items |-> p \notin Pooled]
    /\ holder = [p \in Items |-> {}]
    /\ returning = {}
    /\ recId = Nobody
    /\ todo = {}
    /\ overlap = {}
    /\ doubled = FALSE

-----------------------------------------------------------------------------
(* try_borrow() and the two borrow() overloads.                            *)

CanCreateOffByOne == maxSize = 0 \/ inFlight <= maxSize

CanCreate == maxSize = 0 \/ inFlight < maxSize

(* The top of the stack goes to u, recorded under id.                      *)
BorrowPooled(u, id) ==
    /\ pool # <<>>
    /\ LET p == pool[Len(pool)]
       IN  /\ engaged' = [engaged EXCEPT ![p] = TRUE]
           /\ allItems' = [allItems EXCEPT ![p] = id]
           /\ holder' = [holder EXCEPT ![p] = @ \cup {u}]
    /\ inFlight' = inFlight + 1
    /\ pool' = SubSeq(pool, 1, Len(pool) - 1)
    /\ UNCHANGED <<maxSize, eagerly, total, waiter, returning, recId, todo,
                   overlap, doubled>>

(* An empty stack: create() and subscribe() a new item for u.  LS_SANITIZE *)
(* items are born engaged.                                                 *)
BorrowCreated(u, id, p) ==
    /\ pool = <<>>
    /\ CanCreate
    /\ p \notin Subscribed
    /\ allItems' = [allItems EXCEPT ![p] = id]
    /\ holder' = [holder EXCEPT ![p] = @ \cup {u}]
    /\ inFlight' = inFlight + 1
    /\ total' = total + 1
    /\ UNCHANGED <<maxSize, eagerly, pool, waiter, engaged, returning, recId,
                   todo, overlap, doubled>>

Exhausted == pool = <<>> /\ ~CanCreate

(* borrow(id) returns nullptr.                                             *)
BorrowRefused(u) ==
    /\ Exhausted
    /\ UNCHANGED vars

(* borrow(callback, id) leaves its callback behind, and forgets id.        *)
BorrowWaits(u) ==
    /\ Exhausted
    /\ waiter = Nobody
    /\ waiter' = u
    /\ UNCHANGED <<maxSize, eagerly, pool, allItems, inFlight, total, engaged,
                   holder, returning, recId, todo, overlap, doubled>>

(* A second callback while one is active: logic_error.                     *)
BorrowWaitThrows(u) ==
    /\ Exhausted
    /\ waiter # Nobody
    /\ UNCHANGED vars

-----------------------------------------------------------------------------
(* put_back() and insert().                                                *)

(* put_back(p) up to the mutex: p is no longer the caller's, and the mark  *)
(* is cleared.  Only who was given an item puts it back; a recover() that  *)
(* runs, and may have p in its copy, is not asked.                         *)
PutBack(u, p) ==
    /\ u \in holder[p]
    /\ holder' = [holder EXCEPT ![p] = @ \ {u}]
    /\ engaged' = [engaged EXCEPT ![p] = FALSE]
    /\ returning' = returning \cup {p}
    /\ overlap' = IF recId = Nobody THEN overlap ELSE overlap \cup {p}
    /\ UNCHANGED <<tables, recId, todo, doubled>>

InsertIgnoringWaiter(p) ==
    /\ p \in returning
    /\ returning' = returning \ {p}
    /\ pool' = Append(pool, p)
    /\ allItems' = [allItems EXCEPT ![p] = PoiInvalid]
    /\ inFlight' = inFlight - 1
    /\ UNCHANGED <<maxSize, eagerly, total, waiter, engaged, holder, recId,
                   todo, overlap, doubled>>

InsertKeepingId(p) ==
    /\ p \in returning
    /\ waiter = Nobody
    /\ returning' = returning \ {p}
    /\ pool' = Append(pool, p)
    /\ inFlight' = inFlight - 1
    /\ UNCHANGED <<maxSize, eagerly, allItems, total, waiter, engaged, holder,
                   recId, todo, overlap, doubled>>

(* insert(p) with nobody waiting: push, forget the id, count.              *)
InsertPushes(p) ==
    /\ p \in returning
    /\ waiter = Nobody
    /\ returning' = returning \ {p}
    /\ pool' = Append(pool, p)
    /\ allItems' = [allItems EXCEPT ![p] = PoiInvalid]
    /\ inFlight' = inFlight - 1
    /\ UNCHANGED <<maxSize, eagerly, total, waiter, engaged, holder, recId,
                   todo, overlap, doubled>>

InsertHandsOverAndPushes(p) ==
    /\ p \in returning
    /\ waiter # Nobody
    /\ returning' = returning \ {p}
    /\ holder' = [holder EXCEPT ![p] = @ \cup {waiter}]
    /\ waiter' = Nobody
    /\ pool' = Append(pool, p)
    /\ allItems' = [allItems EXCEPT ![p] = PoiInvalid]
    /\ inFlight' = inFlight - 1
    /\ UNCHANGED <<maxSize, eagerly, total, engaged, recId, todo, overlap,
                   doubled>>

InsertHandsOverUncounted(p) ==
    /\ p \in returning
    /\ waiter # Nobody
    /\ returning' = returning \ {p}
    /\ holder' = [holder EXCEPT ![p] = @ \cup {waiter}]
    /\ waiter' = Nobody
    /\ inFlight' = inFlight - 1
    /\ UNCHANGED <<maxSize, eagerly, pool, allItems, total, engaged, recId,
                   todo, overlap, doubled>>

InsertDropsWaiter(p) ==
    /\ p \in returning
    /\ waiter # Nobody
    /\ returning' = returning \ {p}
    /\ holder' = [holder EXCEPT ![p] = @ \cup {waiter}]
    /\ UNCHANGED <<maxSize, eagerly, pool, allItems, inFlight, total, waiter,
                   engaged, recId, todo, overlap, doubled>>

(* insert(p) with a callback active: p goes straight to the waiter.  The   *)
(* id, the mark and the count stay what the previous borrower left.        *)
InsertHandsOver(p) ==
    /\ p \in returning
    /\ waiter # Nobody
    /\ returning' = returning \ {p}
    /\ holder' = [holder EXCEPT ![p] = @ \cup {waiter}]
    /\ waiter' = Nobody
    /\ UNCHANGED <<maxSize, eagerly, pool, allItems, inFlight, total, engaged,
                   recId, todo, overlap, doubled>>

-----------------------------------------------------------------------------
(* recover(id): copy all_items_ under the mutex, then finalize() every     *)
(* item of the copy that has the id.  finalize() of a session ends in      *)
(* put_back().  Nothing in the sources calls recover(), and nothing in it  *)
(* keeps other threads from put_back() meanwhile: an item of the copy may  *)
(* have been put back, and borrowed again, when its turn comes.            *)

RecoverCopy(id) ==
    /\ recId = Nobody
    /\ recId' = id
    /\ todo' = {p \in Subscribed : allItems[p] = id}
    /\ overlap' = returning
    /\ UNCHANGED <<tables, engaged, holder, returning, doubled>>

(* An item somebody has, the borrower at the time of the copy or a later   *)
(* one.                                                                    *)
RecoverFinalize(p) ==
    /\ p \in todo
    /\ holder[p] # {}
    /\ todo' = todo \ {p}
    /\ holder' = [holder EXCEPT ![p] = {}]
    /\ engaged' = [engaged EXCEPT ![p] = FALSE]
    /\ returning' = returning \cup {p}
    /\ UNCHANGED <<tables, recId, overlap, doubled>>

(* An item that is back, or on its way: put_back() inserts it once more.   *)
(* insert() then fails assert(p->engaged_) or, without LS_SANITIZE, puts   *)
(* the item on the stack twice; what the pool does from there on is not    *)
(* modelled.                                                               *)
RecoverDoubles(p) ==
    /\ p \in todo
    /\ holder[p] = {}
    /\ todo' = todo \ {p}
    /\ doubled' = TRUE
    /\ UNCHANGED <<tables, engaged, holder, returning, recId, overlap>>

RecoverReturns ==
    /\ recId # Nobody
    /\ todo = {}
    /\ recId' = Nobody
    /\ overlap' = {}
    /\ UNCHANGED <<tables, engaged, holder, returning, todo, doubled>>

-----------------------------------------------------------------------------
Insert(p) == InsertPushes(p) \/ InsertHandsOver(p)

Recover(p) == RecoverFinalize(p) \/ RecoverDoubles(p)

(* One operation of the pool, as long as no item is in it twice.           *)
Operation ==
    \/ \E u \in Users, id \in Ids :
          BorrowPooled(u, id) \/ \E p \in Items : BorrowCreated(u, id, p)
    \/ \E u \in Users : BorrowRefused(u) \/ BorrowWaits(u) \/ BorrowWaitThrows(u)
    \/ \E p \in Items :
          (\E u \in Users : PutBack(u, p)) \/ Insert(p) \/ Recover(p)
    \/ \E id \in Ids : RecoverCopy(id)
    \/ RecoverReturns

Next ==
    \/ ~doubled /\ Operation
    \/ doubled /\ UNCHANGED vars

Spec == Init /\ [][Next]_vars

(* A borrower puts its item back some day, a put_back() or recover() that  *)
(* has begun goes on.  Nobody is obliged to borrow.                        *)
Fairness ==
    /\ \A p \in Items : /\ WF_vars(~doubled /\ \E u \in Users : PutBack(u, p))
                        /\ WF_vars(~doubled /\ Insert(p))
                        /\ WF_vars(~doubled /\ Recover(p))
    /\ WF_vars(~doubled /\ RecoverReturns)

FairSpec == Spec /\ Fairness

-----------------------------------------------------------------------------
TypeOK ==
    /\ maxSize \in MaxSizes
    /\ eagerly \in BOOLEAN
    /\ pool \in Seq(Items)
    /\ allItems \in [Items -> Ids \cup {PoiInvalid, Unknown}]
    /\ inFlight \in Nat
    /\ total \in Nat
    /\ waiter \in Users \cup {Nobody}
    /\ engaged \in [Items -> BOOLEAN]
    /\ holder \in [Items -> SUBSET Users]
    /\ returning \subseteq Items
    /\ recId \in Ids \cup {Nobody}
    /\ todo \subseteq Items
    /\ overlap \subseteq Items
    /\ doubled \in BOOLEAN

(* An item is on the stack at most once, and is known to the pool.         *)
StackDistinct ==
    /\ Distinct(pool)
    /\ Pooled \subseteq Subscribed

(* num_items_in_flight_, updated by borrow, create, push and (not) by a    *)
(* hand-over, counts exactly the known items that are not on the stack,    *)
(* and with the stack it adds up to all_items_.                            *)
InFlightExact ==
    /\ inFlight = Cardinality(Out)
    /\ Len(pool) + inFlight = Cardinality(Subscribed)

(* A limited pool never owns more than max_size_ items, although the test  *)
(* that allows a new one looks only at the number in flight.               *)
Limit == maxSize > 0 => Cardinality(Subscribed) <= maxSize

(* An item has at most one owner: it is on the stack, on its way back, or  *)
(* with exactly one borrower, whether that one got it from borrow() or     *)
(* from a callback.                                                        *)
SingleOwner ==
    \A p \in Items :
        /\ \A u, v \in holder[p] : u = v
        /\ p \in returning => holder[p] = {}
        /\ p \in Out <=> (p \in returning \/ holder[p] # {})

(* While a callback waits the stack is empty: no free item is ever kept    *)
(* from the waiter, and no later borrow() overtakes it.                    *)
WaiterNotOvertaken ==
    waiter # Nobody => pool = <<>> /\ maxSize > 0 /\ inFlight = maxSize

(* The assertions of put_back() and try_borrow(): whoever puts an item     *)
(* back finds num_items_in_flight_ > 0, and an item on the stack is never  *)
(* engaged_.                                                               *)
PoolAssertions ==
    /\ \A p \in Items : (p \in returning \/ holder[p] # {}) => inFlight > 0
    /\ \A p \in Pooled \cup returning : ~engaged[p]

(* POI_INVALID marks exactly the items on the stack, and an item that a    *)
(* recover(id) has still to finalize is with the borrower who took it      *)
(* under that id unless a put_back() of that very item was under way when  *)
(* the table was copied or began since.  So nothing is inserted twice but  *)
(* by a recover() that put_back() calls cut across: recover() is safe when *)
(* nobody else returns an item, which its comment does not ask for.        *)
RecoverTargetsInFlight ==
    /\ \A p \in Items : allItems[p] = PoiInvalid <=> p \in Pooled
    /\ \A p \in todo \ overlap : holder[p] # {} /\ allItems[p] = recId
    /\ doubled => overlap # {}

(* Items are left to finalize only while a recover() runs.                 *)
RecoverRuns == todo # {} => recId # Nobody

(* The inductive invariant: the parts above.                               *)
PoolInv ==
    /\ TypeOK
    /\ StackDistinct
    /\ InFlightExact
    /\ Limit
    /\ SingleOwner
    /\ WaiterNotOvertaken
    /\ PoolAssertions
    /\ RecoverTargetsInFlight
    /\ RecoverRuns

(* The pool lends items: a borrow() that gets one lends it, a put_back()   *)
(* or a finalize() by recover() returns it, a hand-over serves the waiting *)
(* callback; the stack, the table, the counters, the mutex and the copy    *)
(* that recover() works on are invisible.                                  *)
LentTo == [p \in Items |-> IF holder[p] = {} THEN Nobody
                                            ELSE CHOOSE u \in Users : u \in holder[p]]
Lending == INSTANCE ItemLending WITH lentTo <- LentTo, waiting <- waiter,
                                     limit <- maxSize
LendSpec == Lending!LendSpec

(* "... will later call 'callback' with an instance as soon as it becomes  *)
(* available": a waiting callback is called if borrowers return items and  *)
(* no recover() inserts one twice.                                         *)
WaiterServed == (waiter # Nobody) ~> (waiter = Nobody \/ doubled)
=============================================================================
