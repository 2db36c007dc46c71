---------------------------- MODULE Transaction ----------------------------
(***************************************************************************)
(* Commands and MULTI / EXEC / WATCH transactions of the embedded database *)
(* (src/db/database: db.go, transaction.go; the state of a connection is   *)
(* that of src/db/redis/connection/connection.go).  The executors and the  *)
(* undo logs are those of module Commands.                                 *)
(*                                                                         *)
(* Every connection is served by a goroutine of its own.  A command first  *)
(* counts up the versions of the keys it writes, one read and one write of *)
(* the version map per key and outside the locks, and then executes under  *)
(* the key locks.  The locks are those of module Locks, whose Exclusion is *)
(* used here: a command alone executes in one step, an EXEC holds its keys *)
(* from ExecMulti's RWLocks to its RWUnLocks, over several steps.  Stripes *)
(* shared by keys only make a goroutine wait longer than here.             *)
(***************************************************************************)
EXTENDS Commands

CONSTANTS
    Conn,        \* connections
    Plain,       \* the commands clients send outside transactions
    Queued,      \* the commands they send inside transactions
    Unknown,     \* the commands they send there that the server refuses
    Watchable,   \* the keys they watch
    VersionMod,  \* versions are counted modulo this (uint32 in the code)
    MaxVersion,  \* bound: no client writes when a version has reached it
    MaxQueue,    \* bound: commands in one transaction
    MaxLen       \* bound: length of a list when a push is sent

ASSUME VersionAssumption == VersionMod \in Nat \ {0}
ASSUME BoundAssumption == MaxQueue \in Nat

\* What the server takes from a client: EnqueueCmd and execNormalCommand refuse
\* the rest.  The arguments are a sequence, those of HMSET fields and values.
ASSUME CommandAssumption ==
    /\ \A q \in Plain \cup Queued : IsCommand(q)
    /\ \A q \in Queued : IF q.op = "hmset" THEN IsFiniteSet(DOMAIN q.args)
                         ELSE q.args \in Seq(ToSet(q.args))
    /\ Watchable \subseteq Key

VARIABLES
    store,       \* data and ttlMap
    version,     \* versionMap
    pc,          \* what the goroutine of a connection is doing
    cmd,         \* the command it serves
    bumps,       \* keys whose version it still has to count up
    seen,        \* the version it has read for the first of them
    multi,       \* multiState
    queue,       \* queued commands
    watching,    \* watched keys and their versions
    txErrors,    \* a queued command was refused
    step,        \* the command of the queue that EXEC is at
    undo,        \* undoCmdLines
    reply,       \* how the last EXEC ended
    before,      \* history: the store when EXEC took its locks
    stale        \* history: watched keys that others see changed since

connection == <<multi, queue, watching, txErrors>>
exec       == <<step, undo, reply, before>>
vars == <<store, version, pc, cmd, bumps, seen, connection, exec, stale>>

NoCommand == [op |-> "none"]
NoVersion == -1   \* the key is not watched, no version is read

-----------------------------------------------------------------------------
(* Locks.  An EXEC holds them from ExecMulti's RWLocks to RWUnLocks.       *)

Executing(c) == pc[c] \in {"exec", "rollback", "commit", "reply"}

writeKeys(c) == FlattenSeq([i \in DOMAIN queue[c] |-> writeKeysOf(queue[c][i])])
readKeys(c) == UNION {readKeysOf(queue[c][i]) : i \in DOMAIN queue[c]}
watchingKeys(c) == {k \in Key : watching[c][k] # NoVersion}

WriteLocks(c) ==
    IF Executing(c) THEN UNION {ToSet(writeKeysOf(queue[c][i])) : i \in DOMAIN queue[c]} ELSE {}
ReadLocks(c) == IF Executing(c) THEN readKeys(c) \cup watchingKeys(c) ELSE {}

\* Mutated: a writer does not wait for readers.
RWLocks_PassReaders(c, w, r) ==
    \A d \in Conn \ {c} : (w \cup r) \cap WriteLocks(d) = {}

\* Goroutine c can have these locks now.
RWLocks(c, w, r) ==
    \A d \in Conn \ {c} : /\ w \cap (WriteLocks(d) \cup ReadLocks(d)) = {}
                          /\ r \cap WriteLocks(d) = {}

\* History: what d watches, of these keys, and no longer finds as it was.
Outdated(d, keys, old, new) ==
    stale[d] \cup {k \in keys \cap watchingKeys(d) : ~Agree(old, new, k)}

\* The bounds: a client sends q only while they allow it.
Room(q) == /\ \A k \in Key : version[k] < MaxVersion
           /\ q.op = "rpush" /\ IsType(store, q.key, "list")
                => ValueOf(store, q.key).size < MaxLen

-----------------------------------------------------------------------------
(* Commands outside a transaction.                                         *)

\* execNormalCommand: the keys are declared, addVersion begins.
execNormalCommand(c, q) ==
    /\ pc[c] = "idle" /\ ~multi[c] /\ Room(q)
    /\ cmd' = [cmd EXCEPT ![c] = q]
    /\ bumps' = [bumps EXCEPT ![c] = writeKeysOf(q)]
    /\ pc' = [pc EXCEPT ![c] = "bump"]
    /\ UNCHANGED <<store, version, seen, connection, exec, stale>>

\* addVersion: versionCode := db.GetVersion(key)
GetVersion(c) ==
    /\ pc[c] \in {"bump", "commit"} /\ bumps[c] # <<>> /\ seen[c] = NoVersion
    /\ seen' = [seen EXCEPT ![c] = version[Head(bumps[c])]]
    /\ UNCHANGED <<store, version, pc, cmd, bumps, connection, exec, stale>>

\* addVersion: db.versionMap.Put(key, versionCode+1)
PutVersion(c) ==
    /\ seen[c] # NoVersion
    /\ version' = [version EXCEPT ![Head(bumps[c])] = (seen[c] + 1) % VersionMod]
    /\ bumps' = [bumps EXCEPT ![c] = Tail(@)]
    /\ seen' = [seen EXCEPT ![c] = NoVersion]
    /\ UNCHANGED <<store, pc, cmd, connection, exec, stale>>

\* RWLocks, the executor, RWUnLocks.
runCommand(c) ==
    /\ pc[c] = "bump" /\ bumps[c] = <<>>
    /\ RWLocks(c, ToSet(writeKeysOf(cmd[c])), readKeysOf(cmd[c]))
    /\ store' = execWithLock(store, cmd[c]).store
    /\ stale' = [d \in Conn |-> Outdated(d, Key, store, store')]
    /\ pc' = [pc EXCEPT ![c] = "idle"]
    /\ cmd' = [cmd EXCEPT ![c] = NoCommand]
    /\ UNCHANGED <<version, bumps, seen, connection, exec>>

-----------------------------------------------------------------------------
(* Transactions.                                                           *)

NothingWatched == [k \in Key |-> NoVersion]

Watch(c, k) ==
    /\ pc[c] = "idle"
    /\ watching' = [watching EXCEPT ![c][k] = version[k]]
    /\ stale' = [stale EXCEPT ![c] = @ \ {k}]
    /\ UNCHANGED <<store, version, pc, cmd, bumps, seen, multi, queue, txErrors, exec>>

StartMulti(c) ==
    /\ pc[c] = "idle" /\ ~multi[c]
    /\ multi' = [multi EXCEPT ![c] = TRUE]
    /\ UNCHANGED <<store, version, pc, cmd, bumps, seen, queue, watching, txErrors,
                   exec, stale>>

EnqueueCmd(c, q) ==
    /\ pc[c] = "idle" /\ multi[c] /\ Len(queue[c]) < MaxQueue /\ Room(q)
    /\ queue' = [queue EXCEPT ![c] = Append(@, q)]
    /\ UNCHANGED <<store, version, pc, cmd, bumps, seen, multi, watching, txErrors,
                   exec, stale>>

\* EnqueueCmd of an unknown command or a wrong number of arguments.
refuseCmd(c, q) ==
    /\ pc[c] = "idle" /\ multi[c] /\ q \in Unknown
    /\ txErrors' = [txErrors EXCEPT ![c] = TRUE]
    /\ UNCHANGED <<store, version, pc, cmd, bumps, seen, multi, queue, watching,
                   exec, stale>>

\* SetMultiState(false): "reset data when cancel multi".
leaveMulti(c) ==
    /\ multi' = [multi EXCEPT ![c] = FALSE]
    /\ queue' = [queue EXCEPT ![c] = <<>>]
    /\ watching' = [watching EXCEPT ![c] = NothingWatched]
    /\ UNCHANGED txErrors

DiscardMulti(c) ==
    /\ pc[c] = "idle" /\ multi[c]
    /\ leaveMulti(c)
    /\ stale' = [stale EXCEPT ![c] = {}]
    /\ UNCHANGED <<store, version, pc, cmd, bumps, seen, exec>>

\* execMulti with an error among the queued commands.
execRefused(c) ==
    /\ pc[c] = "idle" /\ multi[c] /\ txErrors[c]
    /\ leaveMulti(c)
    /\ stale' = [stale EXCEPT ![c] = {}]
    /\ UNCHANGED <<store, version, pc, cmd, bumps, seen, exec>>

isWatchingChanged(c) == \E k \in watchingKeys(c) : watching[c][k] # version[k]

\* ExecMulti: the locks are taken and the watched keys compared.
ExecMulti(c) ==
    /\ pc[c] = "idle" /\ multi[c] /\ ~txErrors[c]
    /\ RWLocks(c, ToSet(writeKeys(c)), readKeys(c) \cup watchingKeys(c))
    /\ before' = [before EXCEPT ![c] = store]
    /\ step' = [step EXCEPT ![c] = 1]
    /\ IF isWatchingChanged(c)
         THEN /\ pc' = [pc EXCEPT ![c] = "reply"]
              /\ reply' = [reply EXCEPT ![c] = "changed"]
         ELSE /\ pc' = [pc EXCEPT ![c] = "exec"]
              /\ UNCHANGED reply
    /\ UNCHANGED <<store, version, cmd, bumps, seen, connection, undo, stale>>

\* Mutated: the undo log of the command that failed is kept.
execQueued_KeepsLog(c) ==
    /\ pc[c] = "exec" /\ step[c] \in DOMAIN queue[c]
    /\ LET q == queue[c][step[c]]
           log == GetUndoLogs(store, q)
           res == execWithLock(store, q)
       IN  /\ store' = res.store
           /\ undo' = [undo EXCEPT ![c] = Append(@, log)]
           /\ pc' = [pc EXCEPT ![c] = IF res.fate # "ok" THEN "rollback" ELSE "exec"]
           /\ step' = [step EXCEPT ![c] = IF res.fate # "ok" THEN @ ELSE @ + 1]
    /\ UNCHANGED <<version, cmd, bumps, seen, connection, reply, before, stale>>

\* One round of the loop: the undo log of the next command, then the command.
execQueued(c) ==
    /\ pc[c] = "exec" /\ step[c] \in DOMAIN queue[c]
    /\ LET q == queue[c][step[c]]
           log == GetUndoLogs(store, q)
           res == execWithLock(store, q)
       IN  \/ /\ log = Panic       \* recovered in DbServer.Exec
              /\ pc' = [pc EXCEPT ![c] = "reply"]
              /\ reply' = [reply EXCEPT ![c] = "panic"]
              /\ UNCHANGED <<store, step, undo>>
           \/ /\ log # Panic /\ res.fate = "panic"
              /\ pc' = [pc EXCEPT ![c] = "reply"]
              /\ reply' = [reply EXCEPT ![c] = "panic"]
              /\ store' = res.store
              /\ UNCHANGED <<step, undo>>
           \/ /\ log # Panic /\ res.fate = "error"
              /\ pc' = [pc EXCEPT ![c] = "rollback"]
              /\ store' = res.store
              /\ UNCHANGED <<step, undo, reply>>
           \/ /\ log # Panic /\ res.fate = "ok"
              /\ store' = res.store
              /\ undo' = [undo EXCEPT ![c] = Append(@, log)]
              /\ step' = [step EXCEPT ![c] = @ + 1]
              /\ UNCHANGED <<pc, reply>>
    /\ UNCHANGED <<version, cmd, bumps, seen, connection, before, stale>>

\* Mutated: the versions are not counted up.
commit_NoVersion(c) ==
    /\ pc[c] = "exec" /\ step[c] > Len(queue[c])
    /\ pc' = [pc EXCEPT ![c] = "commit"]
    /\ stale' = [d \in Conn |-> Outdated(d, WriteLocks(c), before[c], store)]
    /\ UNCHANGED <<store, version, cmd, bumps, seen, connection, exec>>

\* Every command succeeded: the versions are counted up.
commit(c) ==
    /\ pc[c] = "exec" /\ step[c] > Len(queue[c])
    /\ pc' = [pc EXCEPT ![c] = "commit"]
    /\ bumps' = [bumps EXCEPT ![c] = writeKeys(c)]
    /\ stale' = [d \in Conn |-> Outdated(d, WriteLocks(c), before[c], store)]
    /\ UNCHANGED <<store, version, cmd, seen, connection, exec>>

committed(c) ==
    /\ pc[c] = "commit" /\ bumps[c] = <<>>
    /\ pc' = [pc EXCEPT ![c] = "reply"]
    /\ reply' = [reply EXCEPT ![c] = "ok"]
    /\ UNCHANGED <<store, version, cmd, bumps, seen, connection, step, undo, before,
                   stale>>

\* Mutated: the log is undone from its beginning.
rollback_Forward(c) ==
    /\ pc[c] = "rollback" /\ undo[c] # <<>>
    /\ store' = RunAll(store, Head(undo[c]))
    /\ undo' = [undo EXCEPT ![c] = Tail(@)]
    /\ UNCHANGED <<version, pc, cmd, bumps, seen, connection, step, reply, before, stale>>

\* Mutated: only new keys are undone, old values do not come back.
rollback_KeysOnly(c) ==
    /\ pc[c] = "rollback" /\ undo[c] # <<>>
    /\ store' = RunAll(store, SelectSeq(undo[c][Len(undo[c])], LAMBDA q : q.op = "del"))
    /\ undo' = [undo EXCEPT ![c] = Front(@)]
    /\ UNCHANGED <<version, pc, cmd, bumps, seen, connection, step, reply, before, stale>>

\* "undo if aborted": the last log entry that is left.
rollback(c) ==
    /\ pc[c] = "rollback" /\ undo[c] # <<>>
    /\ store' = RunAll(store, undo[c][Len(undo[c])])
    /\ undo' = [undo EXCEPT ![c] = Front(@)]
    /\ UNCHANGED <<version, pc, cmd, bumps, seen, connection, step, reply, before, stale>>

rolledBack(c) ==
    /\ pc[c] = "rollback" /\ undo[c] = <<>>
    /\ pc' = [pc EXCEPT ![c] = "reply"]
    /\ reply' = [reply EXCEPT ![c] = "aborted"]
    /\ UNCHANGED <<store, version, cmd, bumps, seen, connection, step, undo, before,
                   stale>>

\* The deferred RWUnLocks and SetMultiState(false).
return(c) ==
    /\ pc[c] = "reply"
    /\ pc' = [pc EXCEPT ![c] = "idle"]
    /\ leaveMulti(c)
    /\ stale' = [d \in Conn |-> IF d = c THEN {}
                               ELSE IF reply[c] = "ok" THEN stale[d]
                               ELSE Outdated(d, WriteLocks(c), before[c], store)]
    /\ step' = [step EXCEPT ![c] = 1]
    /\ undo' = [undo EXCEPT ![c] = <<>>]
    /\ reply' = [reply EXCEPT ![c] = "none"]
    /\ before' = [before EXCEPT ![c] = EmptyStore]
    /\ UNCHANGED <<store, version, cmd, bumps, seen>>

-----------------------------------------------------------------------------
Init ==
    /\ store = EmptyStore
    /\ version = [k \in Key |-> 0]
    /\ pc = [c \in Conn |-> "idle"]
    /\ cmd = [c \in Conn |-> NoCommand]
    /\ bumps = [c \in Conn |-> <<>>]
    /\ seen = [c \in Conn |-> NoVersion]
    /\ multi = [c \in Conn |-> FALSE]
    /\ queue = [c \in Conn |-> <<>>]
    /\ watching = [c \in Conn |-> NothingWatched]
    /\ txErrors = [c \in Conn |-> FALSE]
    /\ step = [c \in Conn |-> 1]
    /\ undo = [c \in Conn |-> <<>>]
    /\ reply = [c \in Conn |-> "none"]
    /\ before = [c \in Conn |-> EmptyStore]
    /\ stale = [c \in Conn |-> {}]

Serve(c) == \/ GetVersion(c) \/ PutVersion(c) \/ runCommand(c)
            \/ execQueued(c) \/ commit(c) \/ committed(c)
            \/ rollback(c) \/ rolledBack(c) \/ return(c)

Next ==
    \E c \in Conn :
        \/ \E q \in Plain : execNormalCommand(c, q)
        \/ \E k \in Watchable : Watch(c, k)
        \/ \E q \in Queued : EnqueueCmd(c, q)
        \/ \E q \in Unknown : refuseCmd(c, q)
        \/ StartMulti(c) \/ DiscardMulti(c)
        \/ execRefused(c) \/ ExecMulti(c)
        \/ Serve(c)

Spec == Init /\ [][Next]_vars

-----------------------------------------------------------------------------
(* Properties.                                                             *)

\* The type of the state; a version is what a uint32 of the code can hold.
TypeOK ==
    /\ IsStore(store)
    /\ version \in [Key -> 0..VersionMod-1]
    /\ pc \in [Conn -> {"idle", "bump", "exec", "rollback", "commit", "reply"}]
    /\ cmd \in [Conn -> Plain \cup {NoCommand}]
    /\ bumps \in [Conn -> Seq(Key)]
    /\ seen \in [Conn -> {NoVersion} \cup 0..VersionMod-1]
    /\ multi \in [Conn -> BOOLEAN]
    /\ queue \in [Conn -> Seq(Queued)]
    /\ watching \in [Conn -> [Key -> {NoVersion} \cup 0..VersionMod-1]]
    /\ txErrors \in [Conn -> BOOLEAN]
    /\ \A c \in Conn : /\ step[c] \in 1..Len(queue[c])+1
                       /\ Len(undo[c]) < step[c]
    /\ reply \in [Conn -> {"none", "ok", "changed", "aborted", "panic"}]
    /\ \A c \in Conn : IsStore(before[c])
    /\ stale \in [Conn -> SUBSET Key]

Touched(c) == WriteLocks(c) \cup ReadLocks(c)

\* Atomicity of EXEC (transaction.go: "executes multi commands transaction
\* Atomically"): when it answers, still holding its locks, the keys it touches
\* are as the whole queue makes them out of what they were when the locks were
\* taken, if it answers with results, and as they were then, if it does not:
\* the undo logs, written one by one against intermediate stores, lead back.
\* (A panic ends EXEC with neither: GetUndoLogs dereferences a nil list.)
AllOrNothing ==
    \A c \in Conn : pc[c] = "reply" /\ reply[c] # "panic" =>
        LET outcome == IF reply[c] = "ok" THEN RunAll(before[c], queue[c]) ELSE before[c]
        IN  \A k \in Touched(c) : Agree(store, outcome, k)

\* Isolation of EXEC (transaction.go: "and Isolated"): from its RWLocks to its
\* RWUnLocks no step of another goroutine changes a key it reads, writes or
\* watches.
Isolation ==
    [][\A c \in Conn :
          Executing(c) /\ <<pc[c], step[c], undo[c]>>' = <<pc[c], step[c], undo[c]>>
             => \A k \in Touched(c) : Agree(store', store, k)]_vars

\* Optimistic locking (transaction.go: "watching keys changed, abort"): an EXEC
\* that goes on to execute found every watched key unchanged since its WATCH.
WatchHolds == \A c \in Conn : pc[c] = "exec" /\ step[c] = 1 => stale[c] = {}

\* What other connections can see: the keys an unfinished EXEC writes are still
\* as they were when it took its locks.
Unfinished(c) == pc[c] \in {"exec", "rollback"} \/ (pc[c] = "reply" /\ reply[c] # "ok")

Visible ==
    LET writer == [k \in Key |-> {c \in Conn : Unfinished(c) /\ k \in WriteLocks(c)}]
        at == [k \in Key |-> IF writer[k] = {} THEN store
                             ELSE before[CHOOSE c \in writer[k] : TRUE]]
    IN  [data |-> [k \in Key |-> at[k].data[k]], ttl |-> [k \in Key |-> at[k].ttl[k]],
         now |-> store.now]

Atomic == INSTANCE AtomicStore WITH store <- Visible

\* Commands and transactions implement the atomic store: an EXEC over many
\* steps, interleaved with other connections, rolled back or not, is one step
\* of AtomicStore or none.
ImplementsAtomicStore == Atomic!Spec

=============================================================================
