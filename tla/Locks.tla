------------------------------- MODULE Locks -------------------------------
(***************************************************************************)
(* The striped key locks of the embedded database                          *)
(* (src/db/struct/lock/locks.go): a fixed table of sync.RWMutex, a hash    *)
(* that spreads the keys over the table, and RWLocks / RWUnLocks, which    *)
(* lock and unlock the stripes of a whole command at once.  Every command, *)
(* every EXEC and every expiration timer goes through them.                *)
(*                                                                         *)
(* A thread is a goroutine that serves one command after another.  One     *)
(* step acquires, or releases, one stripe, so that the acquisitions of     *)
(* several goroutines interleave.                                          *)
(***************************************************************************)
EXTENDS Integers, FiniteSets

CONSTANTS
    Thread,      \* goroutines that execute commands
    Key,         \* keys of the database
    Stripe,      \* indices of the lock table
    spread,      \* spread[k]: the table index of key k
    None         \* no thread

ASSUME StripeAssumption == Stripe \subseteq Nat /\ IsFiniteSet(Stripe)
ASSUME SpreadAssumption == spread \in [Key -> Stripe]
ASSUME NoneAssumption == None \notin Thread

VARIABLES
    pc,          \* what a goroutine is doing
    request,     \* the write keys and the read keys of its command
    indices,     \* stripes it still has to lock, or to unlock
    writer,      \* the goroutine that holds the mutex of a stripe for writing
    pending,     \* the goroutine whose Lock waits for the readers to leave
    readers,     \* the goroutines that hold it for reading
    blocked      \* the goroutines whose RLock waits for the writer

vars == <<pc, request, indices, writer, pending, readers, blocked>>

-----------------------------------------------------------------------------
(* The table indices of a command.                                         *)

\* Mutated: tableSize instead of tableSize - 1 as the mask of spread.
Spread_OutOfTable(keys) == {spread[k] + 1 : k \in keys}

Spread(keys) == {spread[k] : k \in keys}

\* keys := append(writeKeys, readKeys...): a map, so every index once.
toLockIndices(w, r) == Spread(w) \cup Spread(r)

\* Mutated: the set is made of the read keys.
writeIndexSet_ReadKeys(t) == Spread(request[t].read)

writeIndexSet(t) == Spread(request[t].write)

\* Mutated: the indices are not sorted.
Lowest_Unsorted(S) == S

\* The sorted order: the first index of the ascending, of the descending, list.
Lowest(S)  == {i \in S : \A j \in S : i <= j}
Highest(S) == {i \in S : \A j \in S : i >= j}

Holds(t, s) == writer[s] = t \/ t \in readers[s]

-----------------------------------------------------------------------------
Request == [write : SUBSET Key, read : SUBSET Key]

Init ==
    /\ pc = [t \in Thread |-> "idle"]
    /\ request = [t \in Thread |-> [write |-> {}, read |-> {}]]
    /\ indices = [t \in Thread |-> {}]
    /\ writer = [s \in Stripe |-> None]
    /\ pending = [s \in Stripe |-> None]
    /\ readers = [s \in Stripe |-> {}]
    /\ blocked = [s \in Stripe |-> {}]

\* RWLocks is called: the indices to lock are computed.
RWLocks(t, w, r) ==
    /\ pc[t] = "idle"
    /\ pc' = [pc EXCEPT ![t] = "locking"]
    /\ request' = [request EXCEPT ![t] = [write |-> w, read |-> r]]
    /\ indices' = [indices EXCEPT ![t] = toLockIndices(w, r)]
    /\ UNCHANGED <<writer, pending, readers, blocked>>

\* The index the loop of RWLocks is at.
Turn(t, s) ==
    /\ pc[t] = "locking"
    /\ s \in Lowest(indices[t])

\* mu.Lock(), first half: the writer excludes the other writers and announces
\* itself, which keeps new readers out.
LockAnnounce(t, s) ==
    /\ Turn(t, s)
    /\ s \in writeIndexSet(t)
    /\ writer[s] = None /\ pending[s] = None
    /\ pending' = [pending EXCEPT ![s] = t]
    /\ UNCHANGED <<pc, request, indices, writer, readers, blocked>>

\* mu.Lock(), second half: the readers have left.
LockAcquire(t, s) ==
    /\ Turn(t, s)
    /\ pending[s] = t /\ readers[s] = {}
    /\ pending' = [pending EXCEPT ![s] = None]
    /\ writer' = [writer EXCEPT ![s] = t]
    /\ indices' = [indices EXCEPT ![t] = @ \ {s}]
    /\ UNCHANGED <<pc, request, readers, blocked>>

\* Mutated: a reader overtakes the writer that waits.
RLock_Overtaking(t, s) ==
    /\ Turn(t, s)
    /\ s \notin writeIndexSet(t)
    /\ writer[s] = None
    /\ readers' = [readers EXCEPT ![s] = @ \cup {t}]
    /\ indices' = [indices EXCEPT ![t] = @ \ {s}]
    /\ UNCHANGED <<pc, request, writer, pending, blocked>>

\* mu.RLock(): a reader enters, or queues behind a writer.
RLock(t, s) ==
    /\ Turn(t, s)
    /\ s \notin writeIndexSet(t)
    /\ t \notin blocked[s]
    /\ IF writer[s] = None /\ pending[s] = None
         THEN /\ readers' = [readers EXCEPT ![s] = @ \cup {t}]
              /\ indices' = [indices EXCEPT ![t] = @ \ {s}]
              /\ UNCHANGED blocked
         ELSE /\ blocked' = [blocked EXCEPT ![s] = @ \cup {t}]
              /\ UNCHANGED <<readers, indices>>
    /\ UNCHANGED <<pc, request, writer, pending>>

\* The loop is over: the caller executes its command under the locks.
Enter(t) ==
    /\ pc[t] = "locking"
    /\ indices[t] = {}
    /\ pc' = [pc EXCEPT ![t] = "critical"]
    /\ UNCHANGED <<request, indices, writer, pending, readers, blocked>>

\* Mutated: only the stripes of the written keys are unlocked.
RWUnLocks_WriteKeysOnly(t) ==
    /\ pc[t] = "critical"
    /\ pc' = [pc EXCEPT ![t] = "unlocking"]
    /\ indices' = [indices EXCEPT ![t] = writeIndexSet(t)]
    /\ UNCHANGED <<request, writer, pending, readers, blocked>>

\* RWUnLocks is called: the indices are computed again.
RWUnLocks(t) ==
    /\ pc[t] = "critical"
    /\ pc' = [pc EXCEPT ![t] = "unlocking"]
    /\ indices' = [indices EXCEPT
                     ![t] = toLockIndices(request[t].write, request[t].read)]
    /\ UNCHANGED <<request, writer, pending, readers, blocked>>

\* mu.Unlock(): the readers that queued enter together.
Unlock(t, s) ==
    /\ pc[t] = "unlocking"
    /\ s \in Highest(indices[t])
    /\ s \in writeIndexSet(t)
    /\ writer' = [writer EXCEPT ![s] = None]
    /\ readers' = [readers EXCEPT ![s] = @ \cup blocked[s]]
    /\ blocked' = [blocked EXCEPT ![s] = {}]
    /\ indices' = [u \in Thread |-> IF u = t \/ u \in blocked[s]
                                      THEN indices[u] \ {s} ELSE indices[u]]
    /\ UNCHANGED <<pc, request, pending>>

\* mu.RUnlock().
RUnlock(t, s) ==
    /\ pc[t] = "unlocking"
    /\ s \in Highest(indices[t])
    /\ s \notin writeIndexSet(t)
    /\ readers' = [readers EXCEPT ![s] = @ \ {t}]
    /\ indices' = [indices EXCEPT ![t] = @ \ {s}]
    /\ UNCHANGED <<pc, request, writer, pending, blocked>>

\* RWUnLocks returns.
Leave(t) ==
    /\ pc[t] = "unlocking"
    /\ indices[t] = {}
    /\ pc' = [pc EXCEPT ![t] = "idle"]
    /\ request' = [request EXCEPT ![t] = [write |-> {}, read |-> {}]]
    /\ UNCHANGED <<indices, writer, pending, readers, blocked>>

\* The steps of a command once it has started.
Step(t) ==
    \/ \E s \in Stripe : \/ LockAnnounce(t, s) \/ LockAcquire(t, s)
                         \/ RLock(t, s) \/ Unlock(t, s) \/ RUnlock(t, s)
    \/ Enter(t) \/ RWUnLocks(t) \/ Leave(t)

Next ==
    \E t \in Thread :
        \/ \E q \in Request : RWLocks(t, q.write, q.read)
        \/ Step(t)

(***************************************************************************)
(* Fairness.  The Go scheduler runs every goroutine that can run, and a    *)
(* sync.RWMutex starves nobody: the queue of its writers is a sync.Mutex,  *)
(* handed to the longest waiter after 1ms.  Announcing a Lock is enabled   *)
(* again and again while others hold the stripe, so it needs strong        *)
(* fairness; the other steps of a command stay enabled.                    *)
(***************************************************************************)
Fairness ==
    \A t \in Thread :
        /\ WF_vars(Step(t))
        /\ \A s \in Stripe : SF_vars(LockAnnounce(t, s))

Spec == Init /\ [][Next]_vars /\ Fairness

-----------------------------------------------------------------------------
(* Properties.                                                             *)

\* The type of the state: every index is one of the lock table.
TypeOK ==
    /\ pc \in [Thread -> {"idle", "locking", "critical", "unlocking"}]
    /\ request \in [Thread -> Request]
    /\ indices \in [Thread -> SUBSET Stripe]
    /\ writer \in [Stripe -> Thread \cup {None}]
    /\ pending \in [Stripe -> Thread \cup {None}]
    /\ readers \in [Stripe -> SUBSET Thread]
    /\ blocked \in [Stripe -> SUBSET Thread]

(***************************************************************************)
(* Exclusion: while a command runs under its locks, no other running       *)
(* command reads or writes a key it writes (RWLocks: "Batch lock"), though *)
(* the locks are those of stripes that several keys share, and a key in    *)
(* both lists is locked once.                                              *)
(***************************************************************************)
Exclusion ==
    \A t, u \in Thread :
        t # u /\ pc[t] = "critical" /\ pc[u] = "critical"
        => request[t].write \cap (request[u].write \cup request[u].read) = {}

(***************************************************************************)
(* OrderedAcquisition: a goroutine that waits for a stripe holds only      *)
(* stripes below it (toLockIndices: "sort the locks indices to ensure that *)
(* each coroutine locks in the same order"), so no cycle of goroutines can *)
(* wait for one another, and Lock of a held stripe is never called.        *)
(***************************************************************************)
OrderedAcquisition ==
    \A t \in Thread : pc[t] = "locking" =>
        \A s \in Stripe : Holds(t, s) => \A i \in indices[t] : s < i

(***************************************************************************)
(* BalancedUnlock: RWUnLocks, which computes its indices a second time,    *)
(* releases in the mode in which RWLocks acquired, and leaves nothing      *)
(* locked: what a goroutine holds between commands is nothing.             *)
(***************************************************************************)
BalancedUnlock ==
    \A t \in Thread : \A s \in Stripe :
        /\ pc[t] = "idle" => ~Holds(t, s) /\ pending[s] # t /\ t \notin blocked[s]
        /\ pc[t] = "unlocking" /\ s \in indices[t] =>
             IF s \in writeIndexSet(t) THEN writer[s] = t ELSE t \in readers[s]

\* Every command that asks for its locks gets them (RWLocks returns).
EveryCommandRuns ==
    \A t \in Thread : pc[t] = "locking" ~> pc[t] = "critical"

=============================================================================
