---------------------------- MODULE LocksProofs ----------------------------
(***************************************************************************)
(* Proofs about the striped key locks, for any number of goroutines, any   *)
(* key set, any table size and any hash.                                   *)
(*                                                                         *)
(* Exclusion is not inductive: it says nothing of a goroutine on its way   *)
(* in or out.  The strengthening, LocksInv, keeps the books of every       *)
(* stripe: which stripes a goroutine has locked follows from its program   *)
(* counter and its remaining indices (Locked), and the mutexes say the     *)
(* same (Ledger).                                                          *)
(***************************************************************************)
EXTENDS Locks, TLAPS

All(t) == toLockIndices(request[t].write, request[t].read)

\* The stripes goroutine t has locked and not yet unlocked.
Locked(t) == IF pc[t] = "unlocking" THEN indices[t] ELSE All(t) \ indices[t]

\* The mutexes agree with what the goroutines believe they hold.
Ledger ==
    \A t \in Thread : \A s \in Stripe :
        /\ writer[s] = t <=> s \in Locked(t) \cap writeIndexSet(t)
        /\ t \in readers[s] <=> s \in Locked(t) \ writeIndexSet(t)

\* A writer is alone, and comes in only after the one before it has left.
Alone ==
    \A s \in Stripe : /\ writer[s] # None => readers[s] = {}
                      /\ pending[s] # None => writer[s] = None

\* The remaining indices are among the command's; an idle goroutine has none.
Remaining ==
    \A t \in Thread :
        /\ indices[t] \subseteq All(t)
        /\ pc[t] \in {"idle", "critical"} => indices[t] = {}
        /\ pc[t] = "idle" => request[t] = [write |-> {}, read |-> {}]

\* A goroutine that waits at a stripe is at its lowest remaining index.
Waiting ==
    \A t \in Thread : \A s \in Stripe :
        /\ pending[s] = t => pc[t] = "locking" /\ s \in Lowest(indices[t])
                             /\ s \in writeIndexSet(t)
        /\ t \in blocked[s] => pc[t] = "locking" /\ s \in Lowest(indices[t])
                               /\ s \notin writeIndexSet(t)

\* Stripes are locked from the lowest up.
Ascending ==
    \A t \in Thread : pc[t] = "locking" =>
        \A s \in Locked(t) : \A i \in indices[t] : s < i

LocksInv == TypeOK /\ Ledger /\ Alone /\ Remaining /\ Waiting /\ Ascending

-----------------------------------------------------------------------------
\* The indices of a command are stripes of the table (spread).
LEMMA IndicesAreStripes ==
    ASSUME NEW w \in SUBSET Key, NEW r \in SUBSET Key
    PROVE  toLockIndices(w, r) \subseteq Stripe /\ Spread(w) \subseteq Stripe
BY SpreadAssumption DEF toLockIndices, Spread

\* The table starts unlocked (Make).
LEMMA InitInv == Init => LocksInv
<1> SUFFICES ASSUME Init PROVE LocksInv
    OBVIOUS
<1>1. TypeOK
    BY DEF Init, TypeOK, Request
<1>2. \A t \in Thread : All(t) = {}
    BY DEF Init, All, toLockIndices, Spread
<1>3. Ledger /\ Alone /\ Remaining /\ Waiting /\ Ascending
    BY <1>2, NoneAssumption
    DEF Init, Ledger, Alone, Remaining, Waiting, Ascending, Locked, Lowest
<1> QED BY <1>1, <1>3 DEF LocksInv

\* Every step of the lock code keeps the books balanced.
LEMMA NextInv == LocksInv /\ [Next]_vars => LocksInv'
<1> SUFFICES ASSUME LocksInv, [Next]_vars PROVE LocksInv'
    OBVIOUS
<1> USE StripeAssumption, NoneAssumption
<1>0. TypeOK /\ Ledger /\ Alone /\ Remaining /\ Waiting /\ Ascending
    BY DEF LocksInv
<1>1. ASSUME NEW t \in Thread, NEW q \in Request, RWLocks(t, q.write, q.read)
      PROVE  LocksInv'
    <2>1. All(t) = {} /\ All(t)' = toLockIndices(q.write, q.read)
          /\ toLockIndices(q.write, q.read) \subseteq Stripe
        BY <1>0, <1>1, IndicesAreStripes
        DEF RWLocks, Remaining, All, toLockIndices, Spread, TypeOK, Request
    <2>2. TypeOK'
        BY <1>0, <1>1, <2>1 DEF RWLocks, TypeOK, Request
    <2>3. \A u \in Thread : Locked(u)' = Locked(u)
        BY <1>0, <1>1, <2>1 DEF RWLocks, TypeOK, Locked, All, Remaining
    <2>4. Locked(t) = {} /\ \A u \in Thread \ {t} :
             writeIndexSet(u)' = writeIndexSet(u) /\ All(u)' = All(u)
        BY <1>0, <1>1, <2>1 DEF RWLocks, TypeOK, Locked, writeIndexSet, All
    <2>5. Ledger'
        BY <1>0, <1>1, <2>3, <2>4 DEF RWLocks, Ledger
    <2>6. Alone' /\ Remaining'
        BY <1>0, <1>1, <2>1, <2>4 DEF RWLocks, Alone, Remaining, TypeOK
    <2>7. Waiting'
        BY <1>0, <1>1, <2>4 DEF RWLocks, Waiting, TypeOK, Lowest
    <2>8. Ascending'
        BY <1>0, <1>1, <2>3, <2>4 DEF RWLocks, Ascending, TypeOK
    <2> QED BY <2>2, <2>5, <2>6, <2>7, <2>8 DEF LocksInv
<1>2. ASSUME NEW t \in Thread, NEW s \in Stripe, LockAnnounce(t, s)
      PROVE  LocksInv'
    <2>1. \A u \in Thread : Locked(u)' = Locked(u) /\ All(u)' = All(u)
                            /\ writeIndexSet(u)' = writeIndexSet(u)
        BY <1>2 DEF LockAnnounce, Locked, All, writeIndexSet
    <2>2. TypeOK' /\ Alone'
        BY <1>0, <1>2 DEF LockAnnounce, TypeOK, Alone
    <2>3. Ledger' /\ Remaining' /\ Ascending'
        BY <1>0, <1>2, <2>1 DEF LockAnnounce, Ledger, Remaining, Ascending
    <2>4. Waiting'
        BY <1>0, <1>2, <2>1 DEF LockAnnounce, Waiting, TypeOK, Turn
    <2> QED BY <2>2, <2>3, <2>4 DEF LocksInv
<1>3. ASSUME NEW t \in Thread, NEW s \in Stripe, LockAcquire(t, s)
      PROVE  LocksInv'
    <2>1. \A u \in Thread : All(u)' = All(u) /\ writeIndexSet(u)' = writeIndexSet(u)
        BY <1>3 DEF LockAcquire, All, writeIndexSet
    <2>2. s \in indices[t] /\ s \in writeIndexSet(t) /\ s \in All(t) /\ pc[t] = "locking"
          /\ writer[s] = None
        BY <1>0, <1>3 DEF LockAcquire, Waiting, Lowest, Remaining, Turn, TypeOK, Alone
    <2>3. Locked(t)' = Locked(t) \cup {s}
          /\ \A u \in Thread \ {t} : Locked(u)' = Locked(u)
        BY <1>0, <1>3, <2>1, <2>2 DEF LockAcquire, Locked, TypeOK
    <2>4. TypeOK' /\ Alone' /\ Remaining'
        BY <1>0, <1>3, <2>1 DEF LockAcquire, TypeOK, Alone, Remaining
    <2>5. Ledger'
        BY <1>0, <1>3, <2>1, <2>2, <2>3 DEF LockAcquire, Ledger, TypeOK
    <2>6. Waiting'
        BY <1>0, <1>3, <2>1, <2>2 DEF LockAcquire, Waiting, TypeOK, Lowest
    <2>7. Ascending'
        BY <1>0, <1>3, <2>3 DEF LockAcquire, Ascending, TypeOK, Turn, Lowest
    <2> QED BY <2>4, <2>5, <2>6, <2>7 DEF LocksInv
<1>4. ASSUME NEW t \in Thread, NEW s \in Stripe, RLock(t, s)
      PROVE  LocksInv'
    <2>1. \A u \in Thread : All(u)' = All(u) /\ writeIndexSet(u)' = writeIndexSet(u)
        BY <1>4 DEF RLock, All, writeIndexSet
    <2>2. s \in indices[t] /\ s \in All(t) \ writeIndexSet(t) /\ pc[t] = "locking"
        BY <1>0, <1>4 DEF RLock, Lowest, Remaining, Turn
    <2>3. CASE writer[s] = None /\ pending[s] = None
        <3>0. /\ indices' = [indices EXCEPT ![t] = @ \ {s}]
              /\ readers' = [readers EXCEPT ![s] = @ \cup {t}]
              /\ UNCHANGED <<pc, request, writer, pending, blocked>>
              /\ s \in Lowest(indices[t]) /\ t \notin blocked[s]
            BY <1>4, <2>3 DEF RLock, Turn
        <3>1. Locked(t)' = Locked(t) \cup {s}
              /\ \A u \in Thread \ {t} : Locked(u)' = Locked(u)
            <4>1. /\ indices'[t] = indices[t] \ {s} /\ pc' = pc
                  /\ \A u \in Thread \ {t} : indices'[u] = indices[u]
                BY <1>0, <3>0 DEF TypeOK
            <4>2. Locked(t)' = Locked(t) \cup {s}
                BY <2>1, <2>2, <4>1 DEF Locked
            <4>3. \A u \in Thread \ {t} : Locked(u)' = Locked(u)
                BY <2>1, <4>1 DEF Locked
            <4> QED BY <4>2, <4>3
        <3>2. TypeOK' /\ Alone' /\ Remaining'
            BY <1>0, <1>4, <2>1, <2>3 DEF RLock, TypeOK, Alone, Remaining
        <3>3. Ledger'
            BY <1>0, <1>4, <2>1, <2>2, <2>3, <3>1 DEF RLock, Ledger, TypeOK
        <3>4. Waiting'
            <4> SUFFICES ASSUME NEW u \in Thread, NEW x \in Stripe,
                                pending[x] = u \/ u \in blocked[x]
                         PROVE  x \in Lowest(indices'[u])
                BY <1>0, <2>1, <3>0 DEF Waiting, Lowest
            <4>1. x \in Lowest(indices[u])
                BY <1>0 DEF Waiting
            <4>2. u = t => x = s
                BY <1>0, <3>0, <4>1 DEF Lowest, TypeOK
            <4>3. u # t
                BY <2>3, <3>0, <4>2
            <4> QED BY <1>0, <3>0, <4>1, <4>3 DEF TypeOK
        <3>5. Ascending'
            BY <1>0, <3>0, <3>1 DEF Ascending, TypeOK, Lowest
        <3> QED BY <3>2, <3>3, <3>4, <3>5 DEF LocksInv
    <2>4. CASE ~(writer[s] = None /\ pending[s] = None)
        <3>1. \A u \in Thread : Locked(u)' = Locked(u)
            BY <1>4, <2>1, <2>4 DEF RLock, Locked
        <3>2. TypeOK' /\ Alone' /\ Remaining'
            BY <1>0, <1>4, <2>1, <2>4 DEF RLock, TypeOK, Alone, Remaining
        <3>3. Ledger' /\ Ascending'
            BY <1>0, <1>4, <2>1, <2>4, <3>1 DEF RLock, Ledger, Ascending
        <3>4. Waiting'
            BY <1>0, <1>4, <2>1, <2>2, <2>4 DEF RLock, Waiting, TypeOK, Turn
        <3> QED BY <3>2, <3>3, <3>4 DEF LocksInv
    <2> QED BY <2>3, <2>4
<1>5. ASSUME NEW t \in Thread, Enter(t)
      PROVE  LocksInv'
    <2>1. \A u \in Thread : /\ All(u)' = All(u) /\ Locked(u)' = Locked(u)
                            /\ writeIndexSet(u)' = writeIndexSet(u)
        BY <1>0, <1>5 DEF Enter, All, Locked, writeIndexSet, TypeOK
    <2>2. TypeOK' /\ Alone' /\ Remaining'
        BY <1>0, <1>5, <2>1 DEF Enter, TypeOK, Alone, Remaining
    <2>3. Ledger' /\ Ascending'
        BY <1>0, <1>5, <2>1 DEF Enter, Ledger, Ascending, TypeOK
    <2>4. Waiting'
        BY <1>0, <1>5, <2>1 DEF Enter, Waiting, TypeOK, Lowest
    <2> QED BY <2>2, <2>3, <2>4 DEF LocksInv
<1>6. ASSUME NEW t \in Thread, RWUnLocks(t)
      PROVE  LocksInv'
    <2>1. /\ All(t) \subseteq Stripe
          /\ \A u \in Thread : /\ All(u)' = All(u) /\ Locked(u)' = Locked(u)
                               /\ writeIndexSet(u)' = writeIndexSet(u)
        BY <1>0, <1>6, IndicesAreStripes
        DEF RWUnLocks, All, Locked, writeIndexSet, TypeOK, Remaining, Request
    <2>2. TypeOK' /\ Alone' /\ Remaining'
        BY <1>0, <1>6, <2>1 DEF RWUnLocks, TypeOK, Alone, Remaining, All
    <2>3. Ledger' /\ Ascending'
        BY <1>0, <1>6, <2>1 DEF RWUnLocks, Ledger, Ascending, TypeOK
    <2>4. Waiting'
        BY <1>0, <1>6, <2>1 DEF RWUnLocks, Waiting, TypeOK, Lowest
    <2> QED BY <2>2, <2>3, <2>4 DEF LocksInv
<1>7. ASSUME NEW t \in Thread, NEW s \in Stripe, Unlock(t, s)
      PROVE  LocksInv'
    <2>1. \A u \in Thread : All(u)' = All(u) /\ writeIndexSet(u)' = writeIndexSet(u)
        BY <1>7 DEF Unlock, All, writeIndexSet
    <2>2. /\ s \in indices[t] /\ pc[t] = "unlocking" /\ t \notin blocked[s]
          /\ writer[s] = t /\ readers[s] = {}
        BY <1>0, <1>7
        DEF Unlock, Highest, Ledger, Locked, Waiting, Alone, TypeOK
    <2>3. \A u \in blocked[s] : /\ u \in Thread /\ pc[u] = "locking"
                               /\ s \in Lowest(indices[u])
                               /\ s \in All(u) \ writeIndexSet(u)
        BY <1>0 DEF Waiting, TypeOK, Lowest, Remaining
    <2>4. \A u \in Thread :
             Locked(u)' = IF u = t THEN Locked(u) \ {s}
                          ELSE IF u \in blocked[s] THEN Locked(u) \cup {s}
                          ELSE Locked(u)
        <3> SUFFICES ASSUME NEW u \in Thread
                     PROVE  Locked(u)' = IF u = t THEN Locked(u) \ {s}
                              ELSE IF u \in blocked[s] THEN Locked(u) \cup {s}
                              ELSE Locked(u)
            OBVIOUS
        <3>1. pc' = pc /\ indices'[u] = IF u = t \/ u \in blocked[s]
                                        THEN indices[u] \ {s} ELSE indices[u]
            BY <1>7 DEF Unlock
        <3>2. CASE u = t
            BY <2>1, <2>2, <3>1, <3>2 DEF Locked
        <3>3. CASE u \in blocked[s]
            <4>1. u # t /\ pc[u] = "locking" /\ s \in All(u)
                BY <2>2, <2>3, <3>3
            <4> QED BY <2>1, <3>1, <3>3, <4>1 DEF Locked
        <3>4. CASE u # t /\ u \notin blocked[s]
            BY <2>1, <3>1, <3>4 DEF Locked
        <3> QED BY <2>2, <3>2, <3>3, <3>4
    <2>5. TypeOK' /\ Alone' /\ Remaining'
        BY <1>0, <1>7, <2>1 DEF Unlock, TypeOK, Alone, Remaining
    <2>6. Ledger'
        <3> SUFFICES ASSUME NEW u \in Thread, NEW x \in Stripe
                     PROVE  /\ (writer'[x] = u) <=> x \in Locked(u)' \cap writeIndexSet(u)
                            /\ (u \in readers'[x]) <=> x \in Locked(u)' \ writeIndexSet(u)
            BY <2>1 DEF Ledger
        <3>1. /\ writer'[x] = IF x = s THEN None ELSE writer[x]
              /\ readers'[x] = IF x = s THEN blocked[s] ELSE readers[x]
            BY <1>0, <1>7, <2>2 DEF Unlock, TypeOK
        <3>2. /\ (writer[x] = u) <=> x \in Locked(u) \cap writeIndexSet(u)
              /\ (u \in readers[x]) <=> x \in Locked(u) \ writeIndexSet(u)
            BY <1>0 DEF Ledger
        <3>3. s \in writeIndexSet(t)
            BY <1>7 DEF Unlock
        <3> QED BY <2>2, <2>3, <2>4, <3>1, <3>2, <3>3
    <2>7. Waiting'
        <3> SUFFICES ASSUME NEW u \in Thread, NEW x \in Stripe
                     PROVE /\ pending'[x] = u => pc'[u] = "locking"
                                  /\ x \in Lowest(indices'[u]) /\ x \in writeIndexSet(u)
                           /\ u \in blocked'[x] => pc'[u] = "locking"
                                  /\ x \in Lowest(indices'[u]) /\ x \notin writeIndexSet(u)
            BY <2>1 DEF Waiting, Lowest, writeIndexSet
        <3>1. pending[x] = u \/ u \in blocked[x] => u # t
            BY <1>0, <2>2 DEF Waiting
        <3>2. pending[x] = u => u \notin blocked[s]
            BY <1>0, <2>3 DEF Waiting, Lowest, TypeOK
        <3>3. x # s /\ u \in blocked[x] => u \notin blocked[s]
            BY <1>0, <2>3 DEF Waiting, Lowest, TypeOK
        <3> QED BY <1>0, <1>7, <3>1, <3>2, <3>3 DEF Unlock, Waiting, TypeOK
    <2>8. Ascending'
        <3> SUFFICES ASSUME NEW u \in Thread, pc'[u] = "locking",
                            NEW x \in Locked(u)', NEW i \in indices'[u]
                     PROVE  x < i
            BY DEF Ascending
        <3>1. pc[u] = "locking" /\ u # t /\ i \in indices[u]
            BY <1>7, <2>2 DEF Unlock
        <3>2. CASE u \in blocked[s]
            <4>1. i # s /\ s \in Lowest(indices[u]) /\ x \in Locked(u) \cup {s}
                BY <1>7, <2>3, <2>4, <3>1, <3>2 DEF Unlock
            <4>2. i \in Nat /\ s \in Nat
                BY <1>0, <3>1 DEF TypeOK
            <4> QED BY <1>0, <3>1, <4>1, <4>2 DEF Ascending, Lowest
        <3>3. CASE u \notin blocked[s]
            BY <1>0, <2>4, <3>1, <3>3 DEF Ascending
        <3> QED BY <3>2, <3>3
    <2> QED BY <2>5, <2>6, <2>7, <2>8 DEF LocksInv
<1>8. ASSUME NEW t \in Thread, NEW s \in Stripe, RUnlock(t, s)
      PROVE  LocksInv'
    <2>1. \A u \in Thread : All(u)' = All(u) /\ writeIndexSet(u)' = writeIndexSet(u)
        BY <1>8 DEF RUnlock, All, writeIndexSet
    <2>2. s \in indices[t] /\ pc[t] = "unlocking" /\ s \notin writeIndexSet(t)
        BY <1>8 DEF RUnlock, Highest
    <2>3. Locked(t)' = Locked(t) \ {s}
          /\ \A u \in Thread \ {t} : Locked(u)' = Locked(u)
        BY <1>0, <1>8, <2>1, <2>2 DEF RUnlock, Locked, TypeOK
    <2>4. TypeOK' /\ Alone' /\ Remaining'
        BY <1>0, <1>8, <2>1 DEF RUnlock, TypeOK, Alone, Remaining
    <2>5. Ledger'
        BY <1>0, <1>8, <2>1, <2>2, <2>3 DEF RUnlock, Ledger, TypeOK
    <2>6. Waiting'
        BY <1>0, <1>8, <2>1, <2>2 DEF RUnlock, Waiting, TypeOK, Lowest
    <2>7. Ascending'
        BY <1>0, <1>8, <2>2, <2>3 DEF RUnlock, Ascending, TypeOK
    <2> QED BY <2>4, <2>5, <2>6, <2>7 DEF LocksInv
<1>9. ASSUME NEW t \in Thread, Leave(t)
      PROVE  LocksInv'
    <2>1. /\ All(t)' = {} /\ Locked(t) = {} /\ Locked(t)' = {}
          /\ \A u \in Thread \ {t} : /\ All(u)' = All(u) /\ Locked(u)' = Locked(u)
                                     /\ writeIndexSet(u)' = writeIndexSet(u)
        BY <1>0, <1>9
        DEF Leave, All, Locked, writeIndexSet, TypeOK, toLockIndices, Spread
    <2>2. TypeOK' /\ Alone' /\ Remaining'
        BY <1>0, <1>9, <2>1 DEF Leave, TypeOK, Alone, Remaining, Request
    <2>3. Ledger' /\ Ascending'
        BY <1>0, <1>9, <2>1 DEF Leave, Ledger, Ascending, TypeOK
    <2>4. Waiting'
        BY <1>0, <1>9, <2>1 DEF Leave, Waiting, TypeOK, Lowest
    <2> QED BY <2>2, <2>3, <2>4 DEF LocksInv
<1>10. CASE UNCHANGED vars
    BY <1>0, <1>10 DEF vars, LocksInv, TypeOK, Ledger, Alone, Remaining, Waiting,
       Ascending, Locked, All, writeIndexSet
<1> QED
    BY <1>1, <1>2, <1>3, <1>4, <1>5, <1>6, <1>7, <1>8, <1>9, <1>10 DEF Next, Step

-----------------------------------------------------------------------------
\* The books are always balanced.
THEOREM LocksInvariant == Spec => []LocksInv
BY InitInv, NextInv, PTL DEF Spec

(***************************************************************************)
(* For every table size, hash and set of goroutines: two commands that run *)
(* at the same time never share a key that one of them writes (RWLocks).   *)
(***************************************************************************)
THEOREM ExclusionHolds == Spec => []Exclusion
<1>1. LocksInv => Exclusion
    <2> SUFFICES ASSUME LocksInv, NEW t \in Thread, NEW u \in Thread, t # u,
                        pc[t] = "critical", pc[u] = "critical",
                        NEW k \in request[t].write,
                        k \in request[u].write \cup request[u].read
                 PROVE  FALSE
        BY DEF Exclusion
    <2>1. k \in Key /\ spread[k] \in Stripe
        BY SpreadAssumption DEF LocksInv, TypeOK, Request
    <2>2. spread[k] \in Locked(t) \cap writeIndexSet(t)
        BY DEF LocksInv, Remaining, Locked, All, toLockIndices, Spread, writeIndexSet
    <2>3. spread[k] \in Locked(u)
        BY DEF LocksInv, Remaining, Locked, All, toLockIndices, Spread
    <2>4. writer[spread[k]] = t
        BY <2>1, <2>2 DEF LocksInv, Ledger
    <2>5. readers[spread[k]] = {}
        BY <2>1, <2>4, NoneAssumption DEF LocksInv, Alone
    <2> QED BY <2>1, <2>3, <2>4, <2>5 DEF LocksInv, Ledger
<1> QED BY <1>1, LocksInvariant, PTL

(***************************************************************************)
(* For every table size, hash and set of goroutines: a stripe is only ever *)
(* waited for with lower stripes in hand (toLockIndices sorts).            *)
(***************************************************************************)
THEOREM OrderHolds == Spec => []OrderedAcquisition
<1>1. LocksInv => OrderedAcquisition
    BY DEF LocksInv, OrderedAcquisition, Ascending, Ledger, Holds
<1> QED BY <1>1, LocksInvariant, PTL

(***************************************************************************)
(* For every table size, hash and set of goroutines: RWUnLocks releases    *)
(* each stripe in the mode in which RWLocks took it, and all of them.      *)
(***************************************************************************)
THEOREM BalanceHolds == Spec => []BalancedUnlock
<1>1. LocksInv => BalancedUnlock
    <2> SUFFICES ASSUME LocksInv, NEW t \in Thread, NEW s \in Stripe
                 PROVE /\ pc[t] = "idle" => ~Holds(t, s) /\ pending[s] # t
                                            /\ t \notin blocked[s]
                       /\ pc[t] = "unlocking" /\ s \in indices[t] =>
                            IF s \in writeIndexSet(t) THEN writer[s] = t
                                                      ELSE t \in readers[s]
        BY DEF BalancedUnlock
    <2>1. pc[t] = "idle" => Locked(t) = {}
        BY DEF LocksInv, Remaining, Locked, All, toLockIndices, Spread
    <2>2. pc[t] = "idle" => ~Holds(t, s)
        BY <2>1 DEF LocksInv, Ledger, Holds
    <2>3. pc[t] = "idle" => pending[s] # t /\ t \notin blocked[s]
        BY DEF LocksInv, Waiting
    <2>4. pc[t] = "unlocking" /\ s \in indices[t] =>
            IF s \in writeIndexSet(t) THEN writer[s] = t ELSE t \in readers[s]
        BY DEF LocksInv, Ledger, Locked
    <2> QED BY <2>2, <2>3, <2>4
<1> QED BY <1>1, LocksInvariant, PTL

(***************************************************************************)
(* For every table size, hash and set of goroutines: the indices RWLocks   *)
(* computes are those of the table, and only goroutines hold a stripe.     *)
(***************************************************************************)
THEOREM LocksTyped == Spec => []TypeOK
<1>1. LocksInv => TypeOK
    BY DEF LocksInv
<1> QED BY <1>1, LocksInvariant, PTL
=============================================================================
