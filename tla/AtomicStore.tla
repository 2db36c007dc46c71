---------------------------- MODULE AtomicStore ----------------------------
(***************************************************************************)
(* What the database promises of commands and transactions ("ExecMulti     *)
(* executes multi commands transaction Atomically and Isolated"): a        *)
(* command, and a transaction all of whose commands succeed, changes the   *)
(* store in one step, and nothing else changes it.  What a command does is *)
(* that of module Commands, whose operators are parameters here.           *)
(***************************************************************************)
EXTENDS Naturals

CONSTANTS
    Plain,               \* the commands sent outside transactions
    Queued,              \* the commands sent inside transactions
    MaxQueue,            \* bound: commands in one transaction
    EmptyStore,          \* the store at the beginning
    execWithLock(_, _),  \* a command on a store
    RunAll(_, _),        \* the store after commands, one after the other
    AllSucceed(_, _)     \* none of them fails

VARIABLE store

Run(c) == store' = execWithLock(store, c).store

Transact(cmds) == AllSucceed(store, cmds) /\ store' = RunAll(store, cmds)

\* Every change of the store is one command, or one transaction.
Next == /\ store' # store
        /\ \/ \E c \in Plain : Run(c)
           \/ \E n \in 1..MaxQueue : \E cmds \in [1..n -> Queued] : Transact(cmds)

Spec == store = EmptyStore /\ [][Next]_store
=============================================================================
