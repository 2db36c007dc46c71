------------------------- MODULE TransactionProofs -------------------------
(***************************************************************************)
(* Commands and transactions, for any connections, keys and commands: the  *)
(* type of the state, and the isolation of EXEC; what optimistic locking   *)
(* rests on; and, for the commands whose undo logs put everything back,    *)
(* that EXEC happens as a whole or not at all, and is one step of          *)
(* AtomicStore.                                                            *)
(***************************************************************************)
EXTENDS Transaction, CommandsProofs

-----------------------------------------------------------------------------
(* The inductive invariant.                                                *)

\* The types that no other variable bears on.
StateTypes ==
    /\ version \in [Key -> 0..VersionMod-1]
    /\ pc \in [Conn -> {"idle", "bump", "exec", "rollback", "commit", "reply"}]
    /\ cmd \in [Conn -> Plain \cup {NoCommand}]
    /\ bumps \in [Conn -> Seq(Key)]
    /\ seen \in [Conn -> {NoVersion} \cup 0..VersionMod-1]
    /\ multi \in [Conn -> BOOLEAN]
    /\ queue \in [Conn -> Seq(Queued)]
    /\ watching \in [Conn -> [Key -> {NoVersion} \cup 0..VersionMod-1]]
    /\ txErrors \in [Conn -> BOOLEAN]
    /\ DOMAIN step = Conn /\ DOMAIN undo = Conn /\ DOMAIN before = Conn
    /\ reply \in [Conn -> {"none", "ok", "changed", "aborted", "panic"}]
    /\ stale \in [Conn -> SUBSET Key]

\* A sequence of undo logs that change no key but those of K.
IsUndo(u, K) == (\E S : u \in Seq(S)) /\ \A i \in 1..Len(u) : IsLog(u[i], K)

\* The keys that the queued commands may change.
MayWrite(c) == UNION {MayChange(queue[c][i]) : i \in DOMAIN queue[c]}

\* The goroutine of a connection: what it serves, the version it has read, and
\* the undo logs of the commands before the one it is at.
Served(c) ==
    /\ pc[c] = "bump" => cmd[c] \in Plain
    /\ seen[c] # NoVersion => bumps[c] # <<>> /\ pc[c] \in {"bump", "commit"}
    /\ step[c] \in 1..Len(queue[c])+1
    /\ ~Executing(c) => step[c] = 1
    /\ IsUndo(undo[c], MayWrite(c)) /\ Len(undo[c]) < step[c]
    /\ IsStore(before[c])

\* Nobody reads or writes what an EXEC writes.
LocksHeld ==
    \A c, d \in Conn : c # d => WriteLocks(c) \cap (WriteLocks(d) \cup ReadLocks(d)) = {}

TxInv == StateTypes /\ IsStore(store) /\ (\A c \in Conn : Served(c)) /\ LocksHeld

-----------------------------------------------------------------------------
(* Sequences of undo logs.                                                 *)

\* A log is added, and the last one is taken away.
LEMMA UndoSequences ==
    ASSUME NEW K
    PROVE  /\ IsUndo(<<>>, K) /\ Len(<<>>) = 0
           /\ \A u : IsUndo(u, K) => Len(u) \in Nat
           /\ \A u, log : IsUndo(u, K) /\ IsLog(log, K) =>
                 IsUndo(Append(u, log), K) /\ Len(Append(u, log)) = Len(u) + 1
           /\ \A u : IsUndo(u, K) /\ u # <<>> =>
                 /\ IsLog(u[Len(u)], K) /\ Len(u) \in Nat \ {0}
                 /\ IsUndo(Front(u), K) /\ Len(Front(u)) = Len(u) - 1
<1>1. IsUndo(<<>>, K) /\ Len(<<>>) = 0
    <2>1. <<>> \in Seq({}) /\ Len(<<>>) = 0
        OBVIOUS
    <2> QED  BY <2>1 DEF IsUndo
<1>2. ASSUME NEW u, IsUndo(u, K) PROVE Len(u) \in Nat
    BY <1>2, LenProperties DEF IsUndo
<1>3. ASSUME NEW u, NEW log, IsUndo(u, K), IsLog(log, K)
      PROVE  IsUndo(Append(u, log), K) /\ Len(Append(u, log)) = Len(u) + 1
    <2>1. PICK S : u \in Seq(S)
        BY <1>3 DEF IsUndo
    <2>2. u \in Seq(S \cup {log}) /\ log \in S \cup {log} /\ Len(u) \in Nat
        BY <2>1
    <2> DEFINE v == Append(u, log)
    <2>3. /\ v \in Seq(S \cup {log}) /\ Len(v) = Len(u) + 1
          /\ \A i \in 1..Len(u) : v[i] = u[i]
          /\ v[Len(u) + 1] = log
        BY <2>2, AppendProperties
    <2> HIDE DEF v
    <2>4. ASSUME NEW i \in 1..Len(v) PROVE IsLog(v[i], K)
        <3>1. i \in 1..Len(u) \/ i = Len(u) + 1
            BY <2>2, <2>3
        <3>2. CASE i \in 1..Len(u)
            BY <1>3, <2>3, <3>2 DEF IsUndo
        <3>3. CASE i = Len(u) + 1
            BY <1>3, <2>3, <3>3
        <3> QED  BY <3>1, <3>2, <3>3
    <2>5. IsUndo(v, K)
        BY <2>3, <2>4 DEF IsUndo
    <2> QED  BY <2>3, <2>5 DEF v
<1>4. ASSUME NEW u, IsUndo(u, K), u # <<>>
      PROVE  /\ IsLog(u[Len(u)], K) /\ Len(u) \in Nat \ {0}
             /\ IsUndo(Front(u), K) /\ Len(Front(u)) = Len(u) - 1
    <2>1. PICK S : u \in Seq(S)
        BY <1>4 DEF IsUndo
    <2>2. Len(u) \in Nat \ {0}
        BY <1>4, <2>1, EmptySeq
    <2>3. Len(u) \in 1..Len(u)
        BY <2>2
    <2>4. IsLog(u[Len(u)], K)
        BY <1>4, <2>3 DEF IsUndo
    <2> DEFINE n == Len(u) - 1
               v == SubSeq(u, 1, n)
    <2>5. n \in Nat /\ \A i \in 1..n : i \in 1..Len(u)
        BY <2>2
    <2>6. v \in Seq(S) /\ Len(v) = n /\ \A i \in 1..n : v[i] = u[i]
        <3>1. \A i \in 1..n : u[i] \in S
            BY <2>1, <2>5, ElementOfSeq
        <3> HIDE DEF n
        <3>2. /\ v \in Seq(S) /\ Len(v) = IF 1 <= n THEN n - 1 + 1 ELSE 0
              /\ \A i \in 1..n-1+1 : v[i] = u[1+i-1]
            BY <2>5, <3>1, SubSeqProperties
        <3> HIDE DEF v
        <3>3. n - 1 + 1 = n /\ \A i \in 1..n : 1+i-1 = i
            BY <2>5
        <3> QED  BY <2>5, <3>2, <3>3
    <2>7. Front(u) = v
        BY DEF Front
    <2> HIDE DEF v, n
    <2>8. \A i \in 1..Len(v) : IsLog(v[i], K)
        BY <1>4, <2>5, <2>6 DEF IsUndo
    <2>9. IsUndo(v, K)
        BY <2>6, <2>8 DEF IsUndo
    <2> QED  BY <2>2, <2>4, <2>6, <2>7, <2>9 DEF n
<1> QED  BY <1>1, <1>2, <1>3, <1>4

-----------------------------------------------------------------------------
(* Declared keys.                                                          *)

\* What ExecMulti locks is what its commands declare.
LEMMA QueueKeys ==
    ASSUME StateTypes, NEW c \in Conn
    PROVE  /\ queue[c] \in Seq(Queued)
           /\ Len(queue[c]) \in Nat /\ DOMAIN queue[c] = 1..Len(queue[c])
           /\ \A i \in DOMAIN queue[c] : queue[c][i] \in Queued /\ IsCommand(queue[c][i])
           /\ writeKeys(c) \in Seq(Key)
           /\ ToSet(writeKeys(c)) = UNION {ToSet(writeKeysOf(queue[c][i])) : i \in DOMAIN queue[c]}
<1>1. queue[c] \in Seq(Queued)
    BY DEF StateTypes
<1>2. Len(queue[c]) \in Nat /\ DOMAIN queue[c] = 1..Len(queue[c])
    BY <1>1, LenProperties
<1>3. \A i \in DOMAIN queue[c] : queue[c][i] \in Queued /\ IsCommand(queue[c][i])
    BY <1>1, <1>2, ElementOfSeq, CommandAssumption
<1> DEFINE n == Len(queue[c])
           keys == [i \in 1..n |-> writeKeysOf(queue[c][i])]
<1>4. \A i \in 1..n : writeKeysOf(queue[c][i]) \in Seq(Key)
    BY <1>2, <1>3, DeclaredKeys
<1> HIDE DEF n
<1>5. keys \in Seq(Seq(Key)) /\ DOMAIN keys = 1..n
    BY <1>2, <1>4 DEF n
<1>6. \A i \in 1..n : keys[i] = writeKeysOf(queue[c][i])
    OBVIOUS
<1>7. writeKeys(c) = FlattenSeq(keys)
    BY <1>2 DEF writeKeys, n
<1> HIDE DEF keys
<1>8. /\ FlattenSeq(keys) \in Seq(Key)
      /\ ToSet(FlattenSeq(keys)) = UNION {ToSet(keys[i]) : i \in DOMAIN keys}
    BY <1>5, FlattenSeqs
<1>9. {ToSet(keys[i]) : i \in 1..n} = {ToSet(writeKeysOf(queue[c][i])) : i \in 1..n}
    BY <1>6
<1> QED  BY <1>1, <1>2, <1>3, <1>5, <1>7, <1>8, <1>9 DEF n

\* The undo log of a queued command changes only what the command may change.
LEMMA QueuedLogs ==
    ASSUME StateTypes, IsStore(store), NEW c \in Conn, NEW i \in DOMAIN queue[c],
           GetUndoLogs(store, queue[c][i]) # Panic
    PROVE  IsLog(GetUndoLogs(store, queue[c][i]), MayWrite(c))
<1> DEFINE q == queue[c][i]
<1>1. q \in Queued /\ IsCommand(q)
    BY QueueKeys
<1>2. LineArgs(q)
    BY <1>1, CommandAssumption DEF LineArgs
<1>3. MayChange(q) \subseteq MayWrite(c)
    BY DEF MayWrite
<1> HIDE DEF q
<1>4. IsLog(GetUndoLogs(store, q), MayChange(q))
    BY <1>1, <1>2, UndoLogs DEF q
<1>5. IsLog(GetUndoLogs(store, q), MayWrite(c))
    BY <1>3, <1>4 DEF IsLog, IsLine
<1> QED  BY <1>5 DEF q

-----------------------------------------------------------------------------
(* Steps of one goroutine.                                                 *)

\* The step is one of goroutine c: the others are where they were.
Alone(c) ==
    \A d \in Conn \ {c} :
        /\ pc'[d] = pc[d] /\ cmd'[d] = cmd[d] /\ bumps'[d] = bumps[d] /\ seen'[d] = seen[d]
        /\ queue'[d] = queue[d] /\ watching'[d] = watching[d]
        /\ step'[d] = step[d] /\ undo'[d] = undo[d] /\ before'[d] = before[d]

\* It takes no lock that is not free.
TakesFree(c) ==
    \/ WriteLocks(c)' = {} /\ ReadLocks(c)' = {}
    \/ WriteLocks(c)' = WriteLocks(c) /\ ReadLocks(c)' = ReadLocks(c)
    \/ RWLocks(c, WriteLocks(c)', ReadLocks(c)')

\* Such a step keeps the invariant of the others, and the locks.
LEMMA AloneKeeps ==
    ASSUME TxInv, NEW c \in Conn, Alone(c), TakesFree(c),
           StateTypes', IsStore(store'), Served(c)'
    PROVE  TxInv'
<1>1. ASSUME NEW d \in Conn, d # c
      PROVE  /\ Served(d)' /\ WriteLocks(d)' = WriteLocks(d) /\ ReadLocks(d)' = ReadLocks(d)
    <2>1. /\ pc'[d] = pc[d] /\ cmd'[d] = cmd[d] /\ bumps'[d] = bumps[d] /\ seen'[d] = seen[d]
          /\ queue'[d] = queue[d] /\ watching'[d] = watching[d]
          /\ step'[d] = step[d] /\ undo'[d] = undo[d] /\ before'[d] = before[d]
        BY <1>1 DEF Alone
    <2>2. Executing(d)' <=> Executing(d)
        BY <2>1 DEF Executing
    <2>3. MayWrite(d)' = MayWrite(d)
        BY <2>1 DEF MayWrite
    <2>4. WriteLocks(d)' = WriteLocks(d)
        BY <2>1, <2>2 DEF WriteLocks
    <2>5. ReadLocks(d)' = ReadLocks(d)
        BY <2>1, <2>2 DEF ReadLocks, readKeys, watchingKeys
    <2>6. Served(d)
        BY DEF TxInv
    <2> QED  BY <2>1, <2>2, <2>3, <2>4, <2>5, <2>6 DEF Served
<1>2. ASSUME NEW d \in Conn, d # c
      PROVE  /\ WriteLocks(c)' \cap (WriteLocks(d) \cup ReadLocks(d)) = {}
             /\ ReadLocks(c)' \cap WriteLocks(d) = {}
    BY <1>2 DEF TakesFree, RWLocks, TxInv, LocksHeld
<1>3. LocksHeld'
    <2> SUFFICES ASSUME NEW d \in Conn, NEW e \in Conn, d # e
                 PROVE  WriteLocks(d)' \cap (WriteLocks(e)' \cup ReadLocks(e)') = {}
        BY DEF LocksHeld
    <2>1. CASE d = c
        BY <1>1, <1>2, <2>1
    <2>2. CASE e = c
        BY <1>1, <1>2, <2>2
    <2>3. CASE d # c /\ e # c
        BY <1>1, <2>3 DEF TxInv, LocksHeld
    <2> QED  BY <2>1, <2>2, <2>3
<1>4. \A d \in Conn : Served(d)'
    BY <1>1
<1> QED  BY <1>3, <1>4 DEF TxInv

\* A goroutine that is not executing holds no lock, before and after.
LEMMA HoldsNothing ==
    ASSUME NEW c \in Conn, ~Executing(c)'
    PROVE  TakesFree(c)
BY DEF TakesFree, WriteLocks, ReadLocks

\* A goroutine that goes on executing keeps its locks.
LEMMA HoldsOn ==
    ASSUME NEW c \in Conn, Executing(c), Executing(c)',
           queue'[c] = queue[c], watching'[c] = watching[c]
    PROVE  TakesFree(c) /\ MayWrite(c)' = MayWrite(c)
BY DEF TakesFree, WriteLocks, ReadLocks, readKeys, watchingKeys, MayWrite

\* Commands outside a transaction.
LEMMA NormalCommandStep ==
    ASSUME TxInv, NEW c \in Conn, NEW q \in Plain, execNormalCommand(c, q)
    PROVE  TxInv'
<1>1. IsStore(store) /\ StateTypes /\ Served(c)
    BY DEF TxInv
<1>2. writeKeysOf(q) \in Seq(Key)
    BY DeclaredKeys, CommandAssumption
<1>3. StateTypes'
    BY <1>1, <1>2 DEF execNormalCommand, StateTypes, connection, exec
<1>4. Served(c)'
    BY <1>1 DEF execNormalCommand, StateTypes, Served, Executing, MayWrite, connection, exec
<1>5. ~Executing(c)'
    BY <1>1 DEF execNormalCommand, StateTypes, Executing
<1>6. Alone(c) /\ IsStore(store')
    BY <1>1 DEF execNormalCommand, StateTypes, Alone, connection, exec
<1> QED  BY <1>3, <1>4, <1>5, <1>6, HoldsNothing, AloneKeeps

LEMMA GetVersionStep ==
    ASSUME TxInv, NEW c \in Conn, GetVersion(c)
    PROVE  TxInv'
<1>1. IsStore(store) /\ StateTypes /\ Served(c)
    BY DEF TxInv
<1>2. Head(bumps[c]) \in Key
    BY <1>1, HeadTailProperties DEF GetVersion, StateTypes
<1>3. StateTypes'
    BY <1>1, <1>2 DEF GetVersion, StateTypes, connection, exec
<1>4. Served(c)'
    BY <1>1 DEF GetVersion, StateTypes, Served, Executing, MayWrite, connection, exec
<1>5. TakesFree(c)
    BY DEF GetVersion, connection, TakesFree, WriteLocks, ReadLocks, readKeys, watchingKeys, Executing
<1>6. Alone(c) /\ IsStore(store')
    BY <1>1 DEF GetVersion, StateTypes, Alone, connection, exec
<1> QED  BY <1>3, <1>4, <1>5, <1>6, AloneKeeps

LEMMA PutVersionStep ==
    ASSUME TxInv, NEW c \in Conn, PutVersion(c)
    PROVE  TxInv'
<1>1. IsStore(store) /\ StateTypes /\ Served(c)
    BY DEF TxInv
<1>2. bumps[c] # <<>> /\ bumps[c] \in Seq(Key)
    BY <1>1 DEF PutVersion, Served, StateTypes
<1>3. Head(bumps[c]) \in Key /\ Tail(bumps[c]) \in Seq(Key)
    BY <1>2, HeadTailProperties
<1>4. (seen[c] + 1) % VersionMod \in 0..VersionMod-1
    <2>1. seen[c] + 1 \in Int
        <3>1. seen[c] \in 0..VersionMod-1
            BY <1>1 DEF PutVersion, StateTypes
        <3> QED  BY <3>1, VersionAssumption
    <2>2. \A m \in Int : m % VersionMod \in 0..VersionMod-1
        BY VersionAssumption
    <2> QED  BY <2>1, <2>2
<1>5. StateTypes'
    BY <1>1, <1>3, <1>4 DEF PutVersion, StateTypes, connection, exec
<1>6. Served(c)'
    BY <1>1 DEF PutVersion, StateTypes, Served, Executing, MayWrite, connection, exec
<1>7. TakesFree(c)
    BY DEF PutVersion, connection, TakesFree, WriteLocks, ReadLocks, readKeys, watchingKeys, Executing
<1>8. Alone(c) /\ IsStore(store')
    BY <1>1 DEF PutVersion, StateTypes, Alone, connection, exec
<1> QED  BY <1>5, <1>6, <1>7, <1>8, AloneKeeps

\* The command of a connection, on the store.
LEMMA CommandWithin ==
    ASSUME TxInv, NEW c \in Conn, runCommand(c)
    PROVE  cmd[c] \in Plain /\ Within(store, store', MayChange(cmd[c]))
<1>1. IsStore(store) /\ cmd[c] \in Plain
    BY DEF TxInv, Served, runCommand
<1>2. IsCommand(cmd[c])
    BY <1>1, CommandAssumption
<1> QED  BY <1>1, <1>2, EveryCommand DEF Ended, runCommand

\* The keys that others find changed are keys.
LEMMA OutdatedKeys ==
    ASSUME StateTypes, NEW d \in Conn, NEW keys, NEW old, NEW new
    PROVE  Outdated(d, keys, old, new) \in SUBSET Key
BY DEF StateTypes, Outdated, watchingKeys

LEMMA RunCommandStep ==
    ASSUME TxInv, NEW c \in Conn, runCommand(c)
    PROVE  TxInv'
<1>1. IsStore(store) /\ StateTypes /\ Served(c)
    BY DEF TxInv
<1>2. IsStore(store')
    BY CommandWithin DEF Within
<1>3. stale' \in [Conn -> SUBSET Key]
    <2>1. \A d \in Conn : Outdated(d, Key, store, store') \in SUBSET Key
        BY <1>1, OutdatedKeys
    <2> QED  BY <2>1 DEF runCommand
<1>4. StateTypes'
    BY <1>1, <1>3 DEF runCommand, StateTypes, connection, exec
<1>5. Served(c)'
    BY <1>1 DEF runCommand, StateTypes, Served, Executing, MayWrite, connection, exec
<1>6. ~Executing(c)'
    BY <1>1 DEF runCommand, StateTypes, Executing
<1>7. Alone(c)
    BY <1>1 DEF runCommand, StateTypes, Alone, connection, exec
<1> QED  BY <1>2, <1>4, <1>5, <1>6, <1>7, HoldsNothing, AloneKeeps

\* Before EXEC: the connection is idle, and stays so.
LEMMA IdleStep ==
    ASSUME TxInv, NEW c \in Conn, pc[c] = "idle", pc' = pc, UNCHANGED <<store, version, cmd, bumps, seen, exec>>,
           StateTypes', Len(queue'[c]) \in Nat,
           \A d \in Conn \ {c} : queue'[d] = queue[d] /\ watching'[d] = watching[d]
    PROVE  TxInv'
<1>1. IsStore(store) /\ StateTypes /\ Served(c)
    BY DEF TxInv
<1>2. ~Executing(c) /\ ~Executing(c)' /\ step[c] = 1
    BY <1>1 DEF Served, Executing
<1>3. undo[c] = <<>>
    <2>1. PICK S : undo[c] \in Seq(S)
        BY <1>1 DEF Served, IsUndo
    <2>2. Len(undo[c]) < 1
        BY <1>1, <1>2 DEF Served
    <2> QED  BY <2>1, <2>2, EmptySeq
<1>4. IsUndo(undo'[c], MayWrite(c)') /\ Len(undo'[c]) < 1
    BY <1>3, UndoSequences DEF exec
<1>5. Served(c)'
    BY <1>1, <1>2, <1>4 DEF Served, exec
<1>6. Alone(c) /\ IsStore(store')
    BY <1>1 DEF Alone, exec
<1> QED  BY <1>2, <1>5, <1>6, HoldsNothing, AloneKeeps

\* SetMultiState(false) resets the connection.
LEMMA LeaveTypes ==
    ASSUME StateTypes, NEW c \in Conn, leaveMulti(c)
    PROVE  /\ multi' \in [Conn -> BOOLEAN] /\ queue' \in [Conn -> Seq(Queued)]
           /\ watching' \in [Conn -> [Key -> {NoVersion} \cup 0..VersionMod-1]]
           /\ txErrors' = txErrors /\ queue'[c] = <<>> /\ Len(queue'[c]) = 0
           /\ \A d \in Conn \ {c} : queue'[d] = queue[d] /\ watching'[d] = watching[d]
<1>1. NothingWatched \in [Key -> {NoVersion} \cup 0..VersionMod-1]
    BY DEF NothingWatched
<1>2. <<>> \in Seq(Queued) /\ Len(<<>>) = 0
    OBVIOUS
<1>3. multi' \in [Conn -> BOOLEAN] /\ queue' \in [Conn -> Seq(Queued)] /\ queue'[c] = <<>>
    BY <1>2 DEF leaveMulti, StateTypes
<1>4. watching' \in [Conn -> [Key -> {NoVersion} \cup 0..VersionMod-1]]
    BY <1>1 DEF leaveMulti, StateTypes
<1>5. \A d \in Conn \ {c} : queue'[d] = queue[d] /\ watching'[d] = watching[d]
    BY DEF leaveMulti, StateTypes
<1> QED  BY <1>2, <1>3, <1>4, <1>5 DEF leaveMulti

\* WATCH, MULTI, a queued or refused command, DISCARD, and EXEC after an error.
LEMMA QueueSteps ==
    ASSUME TxInv, NEW c \in Conn,
           \/ \E k \in Watchable : Watch(c, k)
           \/ \E q \in Queued : EnqueueCmd(c, q)
           \/ \E q \in Unknown : refuseCmd(c, q)
           \/ StartMulti(c) \/ DiscardMulti(c) \/ execRefused(c)
    PROVE  TxInv'
<1>1. StateTypes /\ queue[c] \in Seq(Queued) /\ Len(queue[c]) \in Nat
    BY QueueKeys DEF TxInv
<1>2. CASE \E k \in Watchable : Watch(c, k)
    <2>1. PICK k \in Key : Watch(c, k)
        BY <1>2, CommandAssumption
    <2>2. StateTypes'
        BY <1>1, <2>1 DEF Watch, StateTypes, exec
    <2> QED  BY <1>1, <2>1, <2>2, IdleStep DEF Watch, StateTypes
<1>3. CASE \E q \in Queued : EnqueueCmd(c, q)
    <2>1. PICK q \in Queued : EnqueueCmd(c, q)
        BY <1>3
    <2>2. Append(queue[c], q) \in Seq(Queued) /\ Len(Append(queue[c], q)) = Len(queue[c]) + 1
        BY <1>1, AppendProperties
    <2>3. StateTypes'
        BY <1>1, <2>1, <2>2 DEF EnqueueCmd, StateTypes, exec
    <2>4. Len(queue'[c]) \in Nat /\ \A d \in Conn \ {c} : queue'[d] = queue[d]
        BY <1>1, <2>1, <2>2 DEF EnqueueCmd, StateTypes
    <2> QED  BY <1>1, <2>1, <2>3, <2>4, IdleStep DEF EnqueueCmd
<1>4. CASE (\E q \in Unknown : refuseCmd(c, q)) \/ StartMulti(c)
    <2>1. StateTypes'
        BY <1>1, <1>4 DEF refuseCmd, StartMulti, StateTypes, exec
    <2> QED  BY <1>1, <1>4, <2>1, IdleStep DEF refuseCmd, StartMulti
<1>5. CASE DiscardMulti(c) \/ execRefused(c)
    <2>1. leaveMulti(c) /\ stale' = [stale EXCEPT ![c] = {}]
          /\ UNCHANGED <<store, version, pc, cmd, bumps, seen, exec>> /\ pc[c] = "idle"
        BY <1>5 DEF DiscardMulti, execRefused
    <2>2. StateTypes'
        BY <1>1, <2>1, LeaveTypes DEF StateTypes, exec
    <2> QED  BY <1>1, <2>1, <2>2, LeaveTypes, IdleStep
<1> QED  BY <1>2, <1>3, <1>4, <1>5

\* EXEC takes its locks.
LEMMA ExecMultiStep ==
    ASSUME TxInv, NEW c \in Conn, ExecMulti(c)
    PROVE  TxInv'
<1>1. IsStore(store) /\ StateTypes /\ Served(c)
    BY DEF TxInv
<1>2. Len(queue[c]) \in Nat /\ pc[c] = "idle" /\ queue' = queue /\ watching' = watching /\ undo' = undo
    BY <1>1, QueueKeys DEF ExecMulti, connection
<1>3. StateTypes'
    BY <1>1 DEF ExecMulti, StateTypes, connection
<1>4. Executing(c)' /\ ~Executing(c)
    BY <1>1 DEF ExecMulti, StateTypes, Executing
<1>5. TakesFree(c)
    <2>1. WriteLocks(c)' = ToSet(writeKeys(c))
        BY <1>1, <1>2, <1>4, QueueKeys DEF WriteLocks
    <2>2. ReadLocks(c)' = readKeys(c) \cup watchingKeys(c)
        BY <1>2, <1>4 DEF ReadLocks, readKeys, watchingKeys
    <2> QED  BY <2>1, <2>2 DEF ExecMulti, TakesFree
<1>6. MayWrite(c)' = MayWrite(c)
    BY <1>2 DEF MayWrite
<1>7. step'[c] = 1 /\ step[c] = 1 /\ before'[c] = store /\ pc'[c] \in {"exec", "reply"}
    BY <1>1, <1>4 DEF ExecMulti, StateTypes, Served
<1>8. Served(c)'
    <2>1. seen'[c] = seen[c] /\ seen[c] = NoVersion
        BY <1>1, <1>2 DEF ExecMulti, Served
    <2> QED  BY <1>1, <1>2, <1>4, <1>6, <1>7, <2>1 DEF Served
<1>9. Alone(c) /\ IsStore(store')
    BY <1>1 DEF ExecMulti, StateTypes, Alone, connection
<1> QED  BY <1>3, <1>5, <1>8, <1>9, AloneKeeps

\* The command that EXEC is at, on the store, and its undo log.
LEMMA QueuedWithin ==
    ASSUME TxInv, NEW c \in Conn, execQueued(c)
    PROVE  Within(store, store', MayWrite(c))
<1> DEFINE q == queue[c][step[c]]
<1>1. IsStore(store) /\ StateTypes /\ step[c] \in DOMAIN queue[c]
    BY DEF TxInv, execQueued
<1>2. IsCommand(q) /\ MayChange(q) \subseteq MayWrite(c)
    BY <1>1, QueueKeys DEF MayWrite
<1> HIDE DEF q
<1>3. Within(store, execWithLock(store, q).store, MayChange(q))
    BY <1>1, <1>2, EveryCommand DEF Ended
<1>4. Within(store, execWithLock(store, q).store, MayWrite(c))
    BY <1>2, <1>3 DEF Within
<1>5. store' = store \/ store' = execWithLock(store, q).store
    BY DEF execQueued, q
<1> QED  BY <1>1, <1>4, <1>5, WithinRefl

LEMMA ExecQueuedStep ==
    ASSUME TxInv, NEW c \in Conn, execQueued(c)
    PROVE  TxInv'
<1> DEFINE log == GetUndoLogs(store, queue[c][step[c]])
<1>1. IsStore(store) /\ StateTypes /\ Served(c)
    BY DEF TxInv
<1>2. IsStore(store')
    BY QueuedWithin DEF Within
<1>3. /\ queue' = queue /\ watching' = watching /\ before' = before /\ seen' = seen
      /\ pc[c] = "exec" /\ step[c] \in DOMAIN queue[c]
    BY DEF execQueued, connection
<1>4. /\ step' = step \/ step' = [step EXCEPT ![c] = @ + 1]
      /\ undo' = undo \/ undo' = [undo EXCEPT ![c] = Append(@, log)]
    BY DEF execQueued
<1>5. StateTypes'
    BY <1>1, <1>4 DEF execQueued, StateTypes, connection
<1>6. Executing(c) /\ Executing(c)' /\ pc'[c] # "bump"
    BY <1>1, <1>3 DEF execQueued, StateTypes, Executing
<1>7. TakesFree(c) /\ MayWrite(c)' = MayWrite(c)
    BY <1>3, <1>6, HoldsOn
<1>8. \/ step'[c] = step[c] /\ undo'[c] = undo[c]
      \/ log # Panic /\ step'[c] = step[c] + 1 /\ undo'[c] = Append(undo[c], log)
    BY <1>1 DEF execQueued, StateTypes
<1>9. log # Panic => IsLog(log, MayWrite(c))
    BY <1>1, <1>3, QueuedLogs
<1> HIDE DEF log
<1>10. step'[c] \in 1..Len(queue[c])+1 /\ IsUndo(undo'[c], MayWrite(c)) /\ Len(undo'[c]) < step'[c]
    <2>1. IsUndo(undo[c], MayWrite(c)) /\ Len(undo[c]) < step[c] /\ step[c] \in 1..Len(queue[c])+1
        BY <1>1 DEF Served
    <2>2. Len(undo[c]) \in Nat
        BY <2>1, UndoSequences
    <2>3. step[c] \in 1..Len(queue[c]) /\ Len(queue[c]) \in Nat
        BY <1>1, <1>3, QueueKeys
    <2>4. CASE step'[c] = step[c] /\ undo'[c] = undo[c]
        BY <2>1, <2>4
    <2>5. CASE log # Panic /\ step'[c] = step[c] + 1 /\ undo'[c] = Append(undo[c], log)
        <3>1. IsUndo(undo'[c], MayWrite(c)) /\ Len(undo'[c]) = Len(undo[c]) + 1
            BY <1>9, <2>1, <2>5, UndoSequences
        <3>2. step'[c] = step[c] + 1
            BY <2>5
        <3> QED  BY <2>1, <2>2, <2>3, <3>1, <3>2
    <2> QED  BY <1>8, <2>4, <2>5
<1>11. Served(c)'
    <2>1. seen'[c] = NoVersion
        BY <1>1, <1>3 DEF Served
    <2> QED  BY <1>1, <1>3, <1>6, <1>7, <1>10, <2>1 DEF Served
<1>12. Alone(c)
    <2>1. \A d \in Conn \ {c} : pc'[d] = pc[d] /\ step'[d] = step[d] /\ undo'[d] = undo[d]
        BY <1>1, <1>4 DEF execQueued, StateTypes
    <2> QED  BY <1>3, <2>1 DEF execQueued, Alone
<1> QED  BY <1>2, <1>5, <1>7, <1>11, <1>12, AloneKeeps

\* Every command has succeeded: the versions.
LEMMA CommitSteps ==
    ASSUME TxInv, NEW c \in Conn, commit(c) \/ committed(c) \/ rolledBack(c)
    PROVE  TxInv'
<1>1. IsStore(store) /\ StateTypes /\ Served(c)
    BY DEF TxInv
<1>2. /\ queue' = queue /\ watching' = watching /\ before' = before /\ seen' = seen
      /\ step' = step /\ undo' = undo /\ store' = store /\ cmd' = cmd
      /\ pc[c] \in {"exec", "commit", "rollback"}
    BY DEF commit, committed, rolledBack, connection, exec
<1>3. writeKeys(c) \in Seq(Key)
    BY <1>1, QueueKeys
<1>4. \A d \in Conn : Outdated(d, WriteLocks(c), before[c], store) \in SUBSET Key
    BY <1>1, OutdatedKeys
<1>5. StateTypes'
    <2>1. CASE commit(c)
        <3>1. stale' \in [Conn -> SUBSET Key]
            BY <1>4, <2>1 DEF commit
        <3>2. bumps' \in [Conn -> Seq(Key)] /\ pc' = [pc EXCEPT ![c] = "commit"]
            BY <1>1, <1>3, <2>1 DEF commit, StateTypes
        <3>3. UNCHANGED <<version, cmd, seen, connection, exec>>
            BY <2>1 DEF commit
        <3> QED  BY <1>1, <3>1, <3>2, <3>3 DEF StateTypes, connection, exec
    <2>2. CASE committed(c) \/ rolledBack(c)
        <3>1. pc' = [pc EXCEPT ![c] = "reply"] /\ UNCHANGED <<version, bumps, connection, stale>>
            BY <2>2 DEF committed, rolledBack
        <3>2. reply' \in [Conn -> {"none", "ok", "changed", "aborted", "panic"}]
            BY <1>1, <2>2 DEF committed, rolledBack, StateTypes
        <3> QED  BY <1>1, <1>2, <3>1, <3>2 DEF StateTypes, connection
    <2> QED  BY <2>1, <2>2
<1>6. Executing(c) /\ pc'[c] \in {"commit", "reply"} /\ Executing(c)'
    BY <1>1 DEF commit, committed, rolledBack, StateTypes, Executing
<1>7. TakesFree(c) /\ MayWrite(c)' = MayWrite(c)
    BY <1>2, <1>6, HoldsOn
<1>8. seen[c] = NoVersion
    BY <1>1 DEF commit, committed, rolledBack, Served
<1>9. Served(c)'
    BY <1>1, <1>2, <1>6, <1>7, <1>8 DEF Served
<1>10. Alone(c)
    <2>1. \A d \in Conn \ {c} : pc'[d] = pc[d] /\ bumps'[d] = bumps[d]
        BY <1>1 DEF commit, committed, rolledBack, StateTypes
    <2> QED  BY <1>2, <2>1 DEF Alone
<1> QED  BY <1>1, <1>2, <1>5, <1>7, <1>9, <1>10, AloneKeeps

\* The undo log that is left, run on the store.
LEMMA RollbackWithin ==
    ASSUME TxInv, NEW c \in Conn, rollback(c)
    PROVE  /\ Within(store, store', MayWrite(c))
           /\ undo'[c] = Front(undo[c]) /\ IsUndo(undo'[c], MayWrite(c))
           /\ Len(undo[c]) \in Nat \ {0} /\ Len(undo'[c]) = Len(undo[c]) - 1
<1>1. IsStore(store) /\ DOMAIN undo = Conn /\ IsUndo(undo[c], MayWrite(c)) /\ undo[c] # <<>>
    BY DEF TxInv, StateTypes, Served, rollback
<1>2. IsLog(undo[c][Len(undo[c])], MayWrite(c))
    BY <1>1, UndoSequences
<1>3. Within(store, store', MayWrite(c))
    BY <1>1, <1>2, RunAllWithin DEF rollback
<1>4. undo'[c] = Front(undo[c])
    BY <1>1 DEF rollback
<1> QED  BY <1>1, <1>3, <1>4, UndoSequences

LEMMA RollbackStep ==
    ASSUME TxInv, NEW c \in Conn, rollback(c)
    PROVE  TxInv'
<1>1. IsStore(store) /\ StateTypes /\ Served(c)
    BY DEF TxInv
<1>2. IsStore(store')
    BY RollbackWithin DEF Within
<1>3. /\ queue' = queue /\ watching' = watching /\ before' = before /\ seen' = seen
      /\ step' = step /\ pc' = pc /\ cmd' = cmd /\ bumps' = bumps /\ pc[c] = "rollback"
    BY DEF rollback, connection
<1>4. StateTypes'
    BY <1>1 DEF rollback, StateTypes, connection
<1>5. Executing(c) /\ Executing(c)'
    BY <1>3 DEF Executing
<1>6. TakesFree(c) /\ MayWrite(c)' = MayWrite(c)
    BY <1>3, <1>5, HoldsOn
<1>7. IsUndo(undo'[c], MayWrite(c)) /\ Len(undo'[c]) < step[c]
    <2>1. Len(undo[c]) < step[c] /\ step[c] \in Int
        BY <1>1 DEF Served
    <2> QED  BY <2>1, RollbackWithin
<1>8. Served(c)'
    BY <1>1, <1>3, <1>5, <1>6, <1>7 DEF Served
<1>9. Alone(c)
    <2>1. \A d \in Conn \ {c} : undo'[d] = undo[d]
        BY <1>1 DEF rollback, StateTypes
    <2> QED  BY <1>3, <2>1 DEF Alone
<1> QED  BY <1>2, <1>4, <1>6, <1>8, <1>9, AloneKeeps

\* EXEC returns, and the locks are free.
LEMMA ReturnStep ==
    ASSUME TxInv, NEW c \in Conn, return(c)
    PROVE  TxInv'
<1>1. IsStore(store) /\ StateTypes /\ Served(c)
    BY DEF TxInv
<1>2. /\ queue'[c] = <<>> /\ Len(queue'[c]) = 0
      /\ \A d \in Conn \ {c} : queue'[d] = queue[d] /\ watching'[d] = watching[d]
    BY <1>1, LeaveTypes DEF return
<1>3. \A d \in Conn : Outdated(d, WriteLocks(c), before[c], store) \in SUBSET Key
    BY <1>1, OutdatedKeys
<1>4. stale' \in [Conn -> SUBSET Key]
    BY <1>1, <1>3 DEF return, StateTypes
<1>5. StateTypes'
    BY <1>1, <1>4, LeaveTypes DEF return, StateTypes
<1>6. ~Executing(c)' /\ pc'[c] = "idle"
    BY <1>1 DEF return, StateTypes, Executing
<1>7. step'[c] = 1 /\ undo'[c] = <<>> /\ before'[c] = EmptyStore
    BY <1>1 DEF return, StateTypes
<1>8. seen'[c] = NoVersion
    BY <1>1 DEF return, Served
<1>9. IsUndo(undo'[c], MayWrite(c)') /\ Len(undo'[c]) = 0
    BY <1>7, UndoSequences
<1>10. Served(c)'
    BY <1>2, <1>6, <1>7, <1>8, <1>9, EmptyIsStore DEF Served
<1>11. Alone(c) /\ store' = store
    BY <1>1, <1>2 DEF return, StateTypes, Alone
<1> QED  BY <1>1, <1>5, <1>6, <1>10, <1>11, HoldsNothing, AloneKeeps

\* The step is one of goroutine c.
Single(c) == Alone(c) /\ \A d \in Conn \ {c} : reply'[d] = reply[d]

\* Every step is one of a single goroutine.
LEMMA EveryStepSingle ==
    ASSUME StateTypes, NEW c \in Conn,
           \/ \E q \in Plain : execNormalCommand(c, q)
           \/ \E k \in Watchable : Watch(c, k)
           \/ \E q \in Queued : EnqueueCmd(c, q)
           \/ \E q \in Unknown : refuseCmd(c, q)
           \/ StartMulti(c) \/ DiscardMulti(c)
           \/ execRefused(c) \/ ExecMulti(c)
           \/ Serve(c)
    PROVE  Single(c)
<1>1. CASE \/ \E q \in Plain : execNormalCommand(c, q)
           \/ \E k \in Watchable : Watch(c, k)
           \/ \E q \in Queued : EnqueueCmd(c, q)
           \/ \E q \in Unknown : refuseCmd(c, q)
    BY <1>1 DEF execNormalCommand, Watch, EnqueueCmd, refuseCmd, StateTypes, Single, Alone, connection, exec
<1>2. CASE StartMulti(c) \/ DiscardMulti(c) \/ execRefused(c) \/ ExecMulti(c)
    BY <1>2 DEF StartMulti, DiscardMulti, execRefused, leaveMulti, ExecMulti, StateTypes, Single, Alone,
                connection, exec
<1>3. CASE GetVersion(c) \/ PutVersion(c) \/ runCommand(c)
    BY <1>3 DEF GetVersion, PutVersion, runCommand, StateTypes, Single, Alone, connection, exec
<1>4. CASE execQueued(c)
    <2>1. /\ pc' = pc \/ \E a : pc' = [pc EXCEPT ![c] = a]
          /\ reply' = reply \/ \E a : reply' = [reply EXCEPT ![c] = a]
          /\ step' = step \/ \E a : step' = [step EXCEPT ![c] = a]
          /\ undo' = undo \/ \E a : undo' = [undo EXCEPT ![c] = a]
          /\ UNCHANGED <<cmd, bumps, seen, connection, before>>
        BY <1>4 DEF execQueued
    <2> QED  BY <2>1 DEF StateTypes, Single, Alone, connection
<1>5. CASE commit(c) \/ committed(c) \/ rollback(c) \/ rolledBack(c)
    BY <1>5 DEF commit, committed, rollback, rolledBack, StateTypes, Single, Alone, connection, exec
<1>6. CASE return(c)
    BY <1>6 DEF return, leaveMulti, StateTypes, Single, Alone
<1> QED  BY <1>1, <1>2, <1>3, <1>4, <1>5, <1>6 DEF Serve

-----------------------------------------------------------------------------
(* Theorems.                                                               *)

\* Every step keeps the invariant.
LEMMA TxInvStep ==
    ASSUME TxInv, [Next]_vars
    PROVE  TxInv'
<1>1. CASE UNCHANGED vars
    <2>1. /\ store' = store /\ version' = version /\ pc' = pc /\ cmd' = cmd /\ bumps' = bumps
          /\ seen' = seen /\ multi' = multi /\ queue' = queue /\ watching' = watching
          /\ txErrors' = txErrors /\ step' = step /\ undo' = undo /\ reply' = reply
          /\ before' = before /\ stale' = stale
        BY <1>1 DEF vars, connection, exec
    <2>2. StateTypes' /\ IsStore(store') /\ LocksHeld'
        <3>1. StateTypes' /\ IsStore(store')
            BY <2>1 DEF TxInv, StateTypes
        <3>2. \A c \in Conn : WriteLocks(c)' = WriteLocks(c) /\ ReadLocks(c)' = ReadLocks(c)
            BY <2>1 DEF WriteLocks, ReadLocks, readKeys, watchingKeys, Executing
        <3> QED  BY <3>1, <3>2 DEF TxInv, LocksHeld
    <2>3. ASSUME NEW c \in Conn PROVE Served(c)'
        BY <2>1 DEF TxInv, Served, Executing, MayWrite
    <2> QED  BY <2>2, <2>3 DEF TxInv
<1>2. CASE Next
    <2>1. PICK c \in Conn :
            \/ \E q \in Plain : execNormalCommand(c, q)
            \/ \E k \in Watchable : Watch(c, k)
            \/ \E q \in Queued : EnqueueCmd(c, q)
            \/ \E q \in Unknown : refuseCmd(c, q)
            \/ StartMulti(c) \/ DiscardMulti(c)
            \/ execRefused(c) \/ ExecMulti(c)
            \/ Serve(c)
        BY <1>2 DEF Next
    <2>2. CASE \E q \in Plain : execNormalCommand(c, q)
        BY <2>2, NormalCommandStep
    <2>3. CASE \/ \E k \in Watchable : Watch(c, k)
               \/ \E q \in Queued : EnqueueCmd(c, q)
               \/ \E q \in Unknown : refuseCmd(c, q)
               \/ StartMulti(c) \/ DiscardMulti(c) \/ execRefused(c)
        BY <2>3, QueueSteps
    <2>4. CASE ExecMulti(c)
        BY <2>4, ExecMultiStep
    <2>5. CASE Serve(c)
        BY <2>5, GetVersionStep, PutVersionStep, RunCommandStep, ExecQueuedStep, CommitSteps,
           RollbackStep, ReturnStep DEF Serve
    <2> QED  BY <2>1, <2>2, <2>3, <2>4, <2>5
<1> QED  BY <1>1, <1>2

\* The invariant holds at the beginning.
LEMMA TxInvInit == Init => TxInv
<1> SUFFICES ASSUME Init PROVE TxInv
    OBVIOUS
<1>1. <<>> \in Seq(Key) /\ <<>> \in Seq(Queued) /\ 0 \in 0..VersionMod-1
    BY VersionAssumption
<1>2. StateTypes
    BY <1>1 DEF Init, StateTypes, NothingWatched
<1>3. \A c \in Conn : ~Executing(c)
    BY DEF Init, Executing
<1>4. LocksHeld
    BY <1>3 DEF LocksHeld, WriteLocks, ReadLocks
<1>5. ASSUME NEW c \in Conn PROVE Served(c)
    <2>1. /\ pc[c] = "idle" /\ seen[c] = NoVersion /\ step[c] = 1 /\ queue[c] = <<>>
          /\ undo[c] = <<>> /\ before[c] = EmptyStore
        BY DEF Init
    <2>2. IsUndo(undo[c], MayWrite(c)) /\ Len(undo[c]) = 0 /\ Len(queue[c]) = 0
        BY <2>1, UndoSequences
    <2> QED  BY <1>3, <2>1, <2>2, EmptyIsStore DEF Served
<1>6. IsStore(store)
    BY EmptyIsStore DEF Init
<1> QED  BY <1>2, <1>4, <1>5, <1>6 DEF TxInv

\* The type of the state, whatever commands and transactions the connections
\* interleave, and whichever of them fail, panic or are rolled back.  Versions
\* stay within uint32, and EXEC never has more undo logs than commands behind it.
THEOREM TransactionTypeOK == Spec => []TypeOK
<1>1. TxInv => TypeOK
    <2>1. ASSUME TxInv PROVE TypeOK
        <3>1. StateTypes /\ IsStore(store) /\ \A c \in Conn : Served(c)
            BY <2>1 DEF TxInv
        <3>2. \A c \in Conn : /\ step[c] \in 1..Len(queue[c])+1 /\ Len(undo[c]) < step[c]
                              /\ IsStore(before[c])
            BY <3>1 DEF Served
        <3> QED  BY <3>1, <3>2 DEF StateTypes, TypeOK
    <2> QED  BY <2>1
<1>2. TxInv /\ [Next]_vars => TxInv'
    BY TxInvStep
<1> QED  BY <1>1, <1>2, TxInvInit, PTL DEF Spec

\* Isolation of EXEC, for any connections and commands but RENAME and RENAMENX,
\* whose source is only declared as read: from RWLocks to RWUnLocks no step of
\* another goroutine, be it a command, a queued command or a roll-back, changes
\* a key that the EXEC reads, writes or watches.
THEOREM ExecIsolated ==
    ASSUME \A q \in Plain \cup Queued : q.op \notin RenameOps
    PROVE  Spec => Isolation
<1> DEFINE Undisturbed(c) ==
              Executing(c) /\ <<pc[c], step[c], undo[c]>>' = <<pc[c], step[c], undo[c]>>
                 => \A k \in Touched(c) : Agree(store', store, k)
<1>1. ASSUME TxInv, Next, NEW c \in Conn, Executing(c),
             <<pc[c], step[c], undo[c]>>' = <<pc[c], step[c], undo[c]>>, NEW k \in Touched(c)
      PROVE  Agree(store', store, k)
    <2>1. k \in WriteLocks(c) \/ k \in ReadLocks(c)
        BY DEF Touched
    <2>2. pc'[c] = pc[c] /\ step'[c] = step[c] /\ undo'[c] = undo[c]
        BY <1>1
    <2>3. StateTypes /\ IsStore(store) /\ Served(c)
        BY <1>1 DEF TxInv
    <2>4. store' = store => Agree(store', store, k)
        BY DEF Agree
    <2>5. ASSUME NEW K, Within(store, store', K), k \notin K
          PROVE  Agree(store', store, k)
        <3>1. k \in Key
            <4>1. \A i \in DOMAIN queue[c] : /\ ToSet(writeKeysOf(queue[c][i])) \subseteq Key
                                             /\ readKeysOf(queue[c][i]) \subseteq Key
                <5>1. ASSUME NEW i \in DOMAIN queue[c]
                      PROVE  /\ ToSet(writeKeysOf(queue[c][i])) \subseteq Key
                             /\ readKeysOf(queue[c][i]) \subseteq Key
                    <6> DEFINE w == writeKeysOf(queue[c][i])
                    <6>1. w \in Seq(Key) /\ readKeysOf(queue[c][i]) \subseteq Key
                        BY <2>3, QueueKeys, DeclaredKeys
                    <6> HIDE DEF w
                    <6>2. \A j \in DOMAIN w : w[j] \in Key
                        BY <6>1, LenProperties, ElementOfSeq
                    <6>3. ToSet(w) \subseteq Key
                        BY <6>2 DEF ToSet
                    <6> QED  BY <6>1, <6>3 DEF w
                <5> QED  BY <5>1
            <4> QED  BY <1>1, <2>1, <4>1 DEF WriteLocks, ReadLocks, readKeys, watchingKeys
        <3> QED  BY <2>5, <3>1 DEF Within, Agree, TypeOf, ValueOf
    <2>6. ASSUME NEW d \in Conn, Serve(d)
          PROVE  Agree(store', store, k)
        <3>1. MayWrite(d) = UNION {ToSet(writeKeysOf(queue[d][i])) : i \in DOMAIN queue[d]}
            <4>1. \A i \in DOMAIN queue[d] : MayChange(queue[d][i]) = ToSet(writeKeysOf(queue[d][i]))
                BY <2>3, QueueKeys DEF MayChange
            <4> QED  BY <4>1 DEF MayWrite
        <3>2. CASE GetVersion(d) \/ PutVersion(d) \/ commit(d) \/ committed(d) \/ rolledBack(d) \/ return(d)
            BY <2>4, <3>2 DEF GetVersion, PutVersion, commit, committed, rolledBack, return
        <3>3. CASE runCommand(d)
            <4>1. d # c
                BY <1>1, <3>3 DEF runCommand, Executing
            <4>2. Within(store, store', MayChange(cmd[d])) /\ MayChange(cmd[d]) = ToSet(writeKeysOf(cmd[d]))
                BY <1>1, <3>3, CommandWithin DEF MayChange
            <4>3. k \notin ToSet(writeKeysOf(cmd[d]))
                BY <2>1, <3>3, <4>1 DEF runCommand, RWLocks
            <4> QED  BY <2>5, <4>2, <4>3
        <3>4. ASSUME d # c, Executing(d) PROVE k \notin MayWrite(d)
            <4>1. MayWrite(d) = WriteLocks(d)
                BY <3>1, <3>4 DEF WriteLocks
            <4> QED  BY <1>1, <2>1, <3>4, <4>1 DEF TxInv, LocksHeld
        <3>5. CASE execQueued(d)
            <4>1. Executing(d)
                BY <3>5 DEF execQueued, Executing
            <4>2. CASE d = c
                <5>1. store' = store
                    BY <2>2, <2>3, <3>5, <4>2 DEF execQueued, StateTypes, Served
                <5> QED  BY <2>4, <5>1
            <4>3. CASE d # c
                BY <1>1, <2>5, <3>4, <3>5, <4>1, <4>3, QueuedWithin
            <4> QED  BY <4>2, <4>3
        <3>6. CASE rollback(d)
            <4>1. Executing(d)
                BY <3>6 DEF rollback, Executing
            <4>2. d # c
                <5>1. Len(undo'[d]) # Len(undo[d])
                    BY <1>1, <3>6, RollbackWithin
                <5> QED  BY <2>2, <5>1
            <4> QED  BY <1>1, <2>5, <3>4, <3>6, <4>1, <4>2, RollbackWithin
        <3> QED  BY <2>6, <3>2, <3>3, <3>5, <3>6 DEF Serve
    <2>7. ASSUME NEW d \in Conn, ~Serve(d),
                 \/ \E q \in Plain : execNormalCommand(d, q)
                 \/ \E j \in Watchable : Watch(d, j)
                 \/ \E q \in Queued : EnqueueCmd(d, q)
                 \/ \E q \in Unknown : refuseCmd(d, q)
                 \/ StartMulti(d) \/ DiscardMulti(d)
                 \/ execRefused(d) \/ ExecMulti(d)
          PROVE  Agree(store', store, k)
        BY <2>4, <2>7 DEF execNormalCommand, Watch, EnqueueCmd, refuseCmd, StartMulti, DiscardMulti,
                          execRefused, ExecMulti
    <2> QED  BY <1>1, <2>6, <2>7 DEF Next
<1>2. TxInv /\ [Next]_vars => [\A c \in Conn : Undisturbed(c)]_vars
    BY <1>1
<1>3. TxInv /\ [Next]_vars => TxInv'
    BY TxInvStep
<1> QED  BY <1>2, <1>3, TxInvInit, PTL DEF Spec, Isolation

-----------------------------------------------------------------------------
(* Optimistic locking.                                                     *)

\* The versions of watched keys have not come round (uint32 in the code).
VersionsLast == \A k \in Watchable : version[k] < VersionMod - 1

\* No EXEC ends in a panic, which would leave changes that no version shows.
NoPanic == \A c \in Conn : pc[c] = "reply" => reply[c] # "panic"

\* Watched keys are written by transactions only: a command alone counts up the
\* versions before it has its locks, and others can watch in between.
WrittenByExec == \A q \in Plain : MayChange(q) \cap Watchable = {}

\* The versions that c has still to count up: of the keys that others watch, only
\* those it has locked, and it knows the version of the first.
Counting(c) ==
    /\ \A k \in ToSet(bumps[c]) \cap Watchable : pc[c] = "commit" /\ k \in WriteLocks(c)
    /\ seen[c] # NoVersion /\ Head(bumps[c]) \in Watchable => seen[c] = version[Head(bumps[c])]

\* c has committed, and is going to count up the version of k.
Counts(c, k) == pc[c] = "commit" /\ k \in ToSet(bumps[c])

\* What c watches: a key that others have changed since shows it, or will show it
\* before their locks are free.
Watches(c) ==
    /\ \A k \in watchingKeys(c) : k \in Watchable /\ watching[c][k] <= version[k]
    /\ stale[c] \subseteq watchingKeys(c)
    /\ pc[c] \notin {"commit", "reply"} =>
          \A k \in stale[c] : watching[c][k] < version[k] \/ \E d \in Conn \ {c} : Counts(d, k)
    /\ pc[c] = "exec" => stale[c] = {}

WatchInv == \A c \in Conn : Counting(c) /\ Watches(c)

LEMMA FirstOfKeys ==
    ASSUME NEW s \in Seq(Key), s # <<>>
    PROVE  Head(s) \in Key /\ Tail(s) \in Seq(Key) /\ ToSet(s) = {Head(s)} \cup ToSet(Tail(s))
<1>1. Head(s) \in Key /\ Tail(s) \in Seq(Key)
    BY HeadTailProperties
<1>2. /\ Len(s) \in Nat \ {0} /\ DOMAIN s = 1..Len(s) /\ DOMAIN Tail(s) = 1..Len(s)-1
      /\ Head(s) = s[1] /\ \A i \in 1..Len(s)-1 : Tail(s)[i] = s[i+1]
    BY LenProperties, HeadTailProperties, EmptySeq
<1>3. ASSUME NEW k \in ToSet(s) PROVE k \in {Head(s)} \cup ToSet(Tail(s))
    <2>1. PICK i \in 1..Len(s) : k = s[i]
        BY <1>2, <1>3 DEF ToSet
    <2>2. CASE i = 1
        BY <1>2, <2>1, <2>2
    <2>3. CASE i # 1
        <3>1. i - 1 \in 1..Len(s)-1 /\ k = Tail(s)[i-1]
            BY <1>2, <2>1, <2>3
        <3> QED  BY <1>2, <3>1 DEF ToSet
    <2> QED  BY <2>2, <2>3
<1>4. ASSUME NEW k \in {Head(s)} \cup ToSet(Tail(s)) PROVE k \in ToSet(s)
    <2>1. CASE k = Head(s)
        BY <1>2, <2>1 DEF ToSet
    <2>2. CASE k \in ToSet(Tail(s))
        <3>1. PICK i \in 1..Len(s)-1 : k = s[i+1]
            BY <1>2, <2>2 DEF ToSet
        <3>2. i + 1 \in 1..Len(s)
            BY <1>2, <3>1
        <3> QED  BY <1>2, <3>1, <3>2 DEF ToSet
    <2> QED  BY <1>4, <2>1, <2>2
<1> QED  BY <1>1, <1>3, <1>4

\* A step that counts nothing, of a goroutine that is not about to.
LEMMA CountingOn ==
    ASSUME WatchInv, NEW c \in Conn, Alone(c), UNCHANGED <<bumps, seen, version>>,
           pc[c] = "commit" /\ pc'[c] # "commit" => ToSet(bumps[c]) = {},
           pc[c] = "commit" => queue'[c] = queue[c]
    PROVE  \A d \in Conn : Counting(d)'
<1> SUFFICES ASSUME NEW d \in Conn PROVE Counting(d)'
    OBVIOUS
<1>1. Counting(d)
    BY DEF WatchInv
<1>2. ASSUME NEW k \in ToSet(bumps[d]) \cap Watchable
      PROVE  pc'[d] = "commit" /\ k \in WriteLocks(d)'
    <2>1. pc[d] = "commit" /\ k \in WriteLocks(d)
        BY <1>1, <1>2 DEF Counting
    <2>2. pc'[d] = "commit" /\ queue'[d] = queue[d]
        BY <1>2, <2>1 DEF Alone
    <2> QED  BY <2>1, <2>2 DEF WriteLocks, Executing
<1> QED  BY <1>1, <1>2 DEF Counting

\* A goroutine counts up the versions one by one, and nobody else those.
LEMMA CountingSteps ==
    ASSUME TxInv, WatchInv, VersionsLast, WrittenByExec, NEW c \in Conn, Alone(c),
           \/ \E q \in Plain : execNormalCommand(c, q)
           \/ GetVersion(c) \/ PutVersion(c) \/ commit(c)
    PROVE  \A d \in Conn : Counting(d)'
<1> SUFFICES ASSUME NEW d \in Conn PROVE Counting(d)'
    OBVIOUS
<1>1. StateTypes /\ Served(c) /\ Counting(c) /\ Counting(d) /\ Served(d)
    BY DEF TxInv, WatchInv
<1>2. CASE version' = version /\ d # c
    <2>1. /\ pc'[d] = pc[d] /\ bumps'[d] = bumps[d] /\ seen'[d] = seen[d] /\ queue'[d] = queue[d]
        BY <1>2 DEF Alone
    <2> QED  BY <1>1, <1>2, <2>1 DEF Counting, WriteLocks, Executing
<1>3. CASE d = c /\ \E q \in Plain : execNormalCommand(c, q)
    <2>1. PICK q \in Plain : execNormalCommand(c, q)
        BY <1>3
    <2>2. bumps'[c] = writeKeysOf(q) /\ seen'[c] = NoVersion
        BY <1>1, <2>1 DEF execNormalCommand, StateTypes, Served
    <2>3. ToSet(writeKeysOf(q)) \cap Watchable = {}
        BY DEF WrittenByExec, MayChange
    <2> QED  BY <1>3, <2>2, <2>3 DEF Counting
<1>4. CASE d = c /\ GetVersion(c)
    <2>1. /\ bumps' = bumps /\ seen'[c] = version[Head(bumps[c])] /\ version' = version
          /\ pc' = pc /\ queue' = queue
        BY <1>1, <1>4 DEF GetVersion, StateTypes, connection
    <2> QED  BY <1>1, <1>4, <2>1 DEF Counting, WriteLocks, Executing
<1>5. CASE d = c /\ commit(c)
    <2>1. bumps'[c] = writeKeys(c) /\ pc'[c] = "commit" /\ queue' = queue /\ seen'[c] = NoVersion
        BY <1>1, <1>5 DEF commit, StateTypes, Served, connection
    <2>2. WriteLocks(c)' = ToSet(writeKeys(c))
        BY <1>1, <2>1, QueueKeys DEF WriteLocks, Executing
    <2> QED  BY <1>5, <2>1, <2>2 DEF Counting
<1>6. CASE PutVersion(c)
    <2>1. bumps[c] \in Seq(Key) /\ bumps[c] # <<>> /\ seen[c] # NoVersion
        BY <1>1, <1>6 DEF PutVersion, StateTypes, Served
    <2>2. /\ bumps'[c] = Tail(bumps[c]) /\ seen'[c] = NoVersion /\ pc' = pc /\ queue' = queue
          /\ \A k \in Key \ {Head(bumps[c])} : version'[k] = version[k]
        BY <1>1, <1>6 DEF PutVersion, StateTypes, connection
    <2>3. ToSet(bumps[c]) = {Head(bumps[c])} \cup ToSet(Tail(bumps[c]))
        BY <2>1, FirstOfKeys
    <2>4. CASE d = c
        <3>1. \A k \in ToSet(bumps'[c]) \cap Watchable : pc'[c] = "commit" /\ k \in WriteLocks(c)'
            BY <1>1, <2>2, <2>3 DEF Counting, WriteLocks, Executing
        <3> QED  BY <2>2, <2>4, <3>1 DEF Counting
    <2>5. CASE d # c
        <3>1. bumps'[d] = bumps[d] /\ seen'[d] = seen[d]
            BY <2>5 DEF Alone
        <3>2. \A k \in ToSet(bumps'[d]) \cap Watchable : pc'[d] = "commit" /\ k \in WriteLocks(d)'
            BY <1>1, <2>2, <3>1 DEF Counting, WriteLocks, Executing
        <3>3. ASSUME seen[d] # NoVersion, Head(bumps[d]) \in Watchable
              PROVE  seen[d] = version'[Head(bumps[d])]
            <4>1. bumps[d] \in Seq(Key) /\ bumps[d] # <<>>
                BY <1>1, <3>3 DEF StateTypes, Served
            <4>2. Head(bumps[d]) \in ToSet(bumps[d]) /\ Head(bumps[d]) \in Key
                BY <4>1, FirstOfKeys
            <4>3. Head(bumps[d]) \in WriteLocks(d)
                BY <1>1, <3>3, <4>2 DEF Counting
            <4>4. Head(bumps[c]) \in Watchable => Head(bumps[c]) \in WriteLocks(c)
                BY <1>1, <2>3 DEF Counting
            <4>5. Head(bumps[d]) # Head(bumps[c])
                BY <2>5, <3>3, <4>3, <4>4 DEF TxInv, LocksHeld
            <4> QED  BY <1>1, <2>2, <3>3, <4>2, <4>5 DEF Counting
        <3> QED  BY <3>1, <3>2, <3>3 DEF Counting
    <2> QED  BY <2>4, <2>5
<1> QED  BY <1>2, <1>3, <1>4, <1>5, <1>6 DEF execNormalCommand, GetVersion, commit

\* No version of a watched key goes back, and none is forgotten.
KeepsCounts(c) ==
    \A k \in Watchable : /\ version[k] <= version'[k]
                         /\ Counts(c, k) => Counts(c, k)' \/ version[k] < version'[k]

\* What the others watch, when they see nothing new.
LEMMA WatchesOthers ==
    ASSUME TxInv, WatchInv, StateTypes', NEW c \in Conn, Alone(c), KeepsCounts(c),
           NEW d \in Conn \ {c}, stale'[d] = stale[d]
    PROVE  Watches(d)'
<1>1. StateTypes /\ Watches(d)
    BY DEF TxInv, WatchInv
<1>2. pc'[d] = pc[d] /\ watching'[d] = watching[d] /\ watchingKeys(d)' = watchingKeys(d)
    BY DEF Alone, watchingKeys
<1>3. \A k \in watchingKeys(d) : /\ k \in Watchable /\ k \in Key /\ watching[d][k] <= version[k]
                                 /\ version[k] <= version'[k]
                                 /\ watching[d][k] \in Int /\ version[k] \in Int /\ version'[k] \in Int
    BY <1>1, VersionAssumption DEF Watches, KeepsCounts, watchingKeys, StateTypes, NoVersion
<1>4. \A k \in watchingKeys(d) : k \in Watchable /\ watching'[d][k] <= version'[k]
    BY <1>2, <1>3
<1>5. ASSUME pc[d] \notin {"commit", "reply"}, NEW k \in stale[d]
      PROVE  watching'[d][k] < version'[k] \/ \E e \in Conn \ {d} : Counts(e, k)'
    <2>1. k \in watchingKeys(d)
        BY <1>1, <1>5 DEF Watches
    <2>2. CASE watching[d][k] < version[k]
        BY <1>2, <1>3, <2>1, <2>2
    <2>3. CASE Counts(c, k)
        BY <1>2, <1>3, <2>1, <2>3 DEF KeepsCounts
    <2>4. CASE \E e \in Conn \ {c, d} : Counts(e, k)
        BY <2>4 DEF Alone, Counts
    <2> QED  BY <1>1, <1>5, <2>2, <2>3, <2>4 DEF Watches
<1> QED  BY <1>1, <1>2, <1>4, <1>5 DEF Watches

\* What the goroutine itself watches, when nothing new is seen.
LEMMA WatchesOwn ==
    ASSUME TxInv, WatchInv, StateTypes', NEW c \in Conn, Alone(c), KeepsCounts(c),
           stale'[c] = stale[c], watching'[c] = watching[c],
           pc'[c] \notin {"commit", "reply"} => pc[c] \notin {"commit", "reply"},
           pc'[c] = "exec" => pc[c] = "exec"
    PROVE  Watches(c)'
<1>1. StateTypes /\ Watches(c)
    BY DEF TxInv, WatchInv
<1>2. watchingKeys(c)' = watchingKeys(c)
    BY DEF watchingKeys
<1>3. \A k \in watchingKeys(c) : /\ k \in Watchable /\ k \in Key /\ watching[c][k] <= version[k]
                                 /\ version[k] <= version'[k]
                                 /\ watching[c][k] \in Int /\ version[k] \in Int /\ version'[k] \in Int
    BY <1>1, VersionAssumption DEF Watches, KeepsCounts, watchingKeys, StateTypes, NoVersion
<1>4. \A k \in watchingKeys(c) : k \in Watchable /\ watching'[c][k] <= version'[k]
    BY <1>3
<1>5. ASSUME pc[c] \notin {"commit", "reply"}, NEW k \in stale[c]
      PROVE  watching'[c][k] < version'[k] \/ \E e \in Conn \ {c} : Counts(e, k)'
    <2>1. k \in watchingKeys(c)
        BY <1>1, <1>5 DEF Watches
    <2>2. CASE watching[c][k] < version[k]
        BY <1>3, <2>1, <2>2
    <2>3. CASE \E e \in Conn \ {c} : Counts(e, k)
        BY <2>3 DEF Alone, Counts
    <2> QED  BY <1>1, <1>5, <2>2, <2>3 DEF Watches
<1> QED  BY <1>1, <1>2, <1>4, <1>5 DEF Watches

\* Counting up a version.
LEMMA PutKeepsCounts ==
    ASSUME TxInv, WatchInv, VersionsLast, NEW c \in Conn, PutVersion(c)
    PROVE  KeepsCounts(c)
<1>1. StateTypes /\ Served(c) /\ Counting(c)
    BY DEF TxInv, WatchInv
<1> DEFINE h == Head(bumps[c])
<1>2. bumps[c] \in Seq(Key) /\ bumps[c] # <<>> /\ seen[c] # NoVersion
    BY <1>1 DEF PutVersion, StateTypes, Served
<1>3. h \in Key /\ ToSet(bumps[c]) = {h} \cup ToSet(Tail(bumps[c]))
    BY <1>2, FirstOfKeys
<1>4. /\ bumps'[c] = Tail(bumps[c]) /\ pc' = pc /\ version'[h] = (seen[c] + 1) % VersionMod
      /\ \A k \in Key \ {h} : version'[k] = version[k]
    BY <1>1, <1>3 DEF PutVersion, StateTypes
<1> HIDE DEF h
<1>5. \A k \in Key : version[k] \in 0..VersionMod-1
    BY <1>1 DEF StateTypes
<1>6. ASSUME h \in Watchable PROVE version'[h] = version[h] + 1
    <2>1. seen[c] = version[h]
        BY <1>1, <1>2, <1>6 DEF Counting, h
    <2>2. version[h] + 1 \in 0..VersionMod-1
        BY <1>3, <1>5, <1>6, VersionAssumption DEF VersionsLast
    <2>3. \A m \in 0..VersionMod-1 : m % VersionMod = m
        BY VersionAssumption
    <2> QED  BY <1>4, <2>1, <2>2, <2>3
<1>7. ASSUME NEW k \in Watchable
      PROVE  /\ version[k] <= version'[k]
             /\ Counts(c, k) => Counts(c, k)' \/ version[k] < version'[k]
    <2>1. k \in Key
        BY CommandAssumption
    <2>2. version[k] \in Int
        BY <1>5, <2>1, VersionAssumption
    <2>3. CASE k = h
        BY <1>6, <2>2, <2>3
    <2>4. CASE k # h
        BY <1>3, <1>4, <2>1, <2>2, <2>4 DEF Counts
    <2> QED  BY <2>3, <2>4
<1> QED  BY <1>7 DEF KeepsCounts

\* Steps that leave the versions as they are, and what is to be counted.
LEMMA SameKeepsCounts ==
    ASSUME TxInv, NEW c \in Conn, version' = version,
           \A k : Counts(c, k) => Counts(c, k)'
    PROVE  KeepsCounts(c)
<1>1. \A k \in Watchable : version[k] \in Int
    BY CommandAssumption, VersionAssumption DEF TxInv, StateTypes
<1> QED  BY <1>1 DEF KeepsCounts

\* Nothing that the others watch is found changed.
LEMMA NothingOutdated ==
    ASSUME StateTypes, NEW c \in Conn, NEW d \in Conn, NEW keys, NEW old, NEW new,
           \A k \in keys \cap watchingKeys(d) : Agree(old, new, k)
    PROVE  Outdated(d, keys, old, new) = stale[d]
BY DEF Outdated

\* A command alone writes no watched key.
LEMMA CommandUnwatched ==
    ASSUME TxInv, WatchInv, WrittenByExec, NEW c \in Conn, runCommand(c)
    PROVE  \A d \in Conn : stale'[d] = stale[d]
<1> SUFFICES ASSUME NEW d \in Conn PROVE stale'[d] = stale[d]
    OBVIOUS
<1>1. StateTypes /\ Watches(d)
    BY DEF TxInv, WatchInv
<1>2. Within(store, store', MayChange(cmd[c])) /\ MayChange(cmd[c]) \cap Watchable = {}
    BY CommandWithin DEF WrittenByExec
<1>3. ASSUME NEW k \in watchingKeys(d) PROVE Agree(store, store', k)
    <2>1. k \in Key /\ k \notin MayChange(cmd[c])
        BY <1>1, <1>2 DEF Watches, watchingKeys
    <2> QED  BY <1>2, <2>1 DEF Within, Agree, TypeOf, ValueOf
<1>4. Outdated(d, Key, store, store') = stale[d]
    BY <1>1, <1>3, NothingOutdated
<1> QED  BY <1>4 DEF runCommand

\* An EXEC that does not commit leaves the keys it locked as it found them.
LEMMA ReturnUnwatched ==
    ASSUME TxInv, AllOrNothing, NoPanic, NEW c \in Conn, return(c)
    PROVE  /\ stale'[c] = {} /\ \A d \in Conn \ {c} : stale'[d] = stale[d]
<1>1. StateTypes /\ pc[c] = "reply" /\ reply[c] # "panic"
    BY DEF TxInv, return, NoPanic
<1>2. stale'[c] = {}
    BY <1>1 DEF return
<1>3. ASSUME NEW d \in Conn \ {c} PROVE stale'[d] = stale[d]
    <2>1. CASE reply[c] = "ok"
        BY <1>3, <2>1 DEF return
    <2>2. CASE reply[c] # "ok"
        <3>1. \A k \in WriteLocks(c) : Agree(before[c], store, k)
            BY <1>1, <2>2 DEF AllOrNothing, Touched, Agree
        <3>2. Outdated(d, WriteLocks(c), before[c], store) = stale[d]
            BY <1>1, <3>1, NothingOutdated
        <3> QED  BY <1>3, <2>2, <3>2 DEF return
    <2> QED  BY <2>1, <2>2
<1> QED  BY <1>2, <1>3

\* Steps after which everybody watches what he watched.
LEMMA QuietSteps ==
    ASSUME TxInv, TxInv', WatchInv, VersionsLast, WrittenByExec, NEW c \in Conn, Alone(c),
           \/ \E q \in Plain : execNormalCommand(c, q)
           \/ \E q \in Queued : EnqueueCmd(c, q)
           \/ \E q \in Unknown : refuseCmd(c, q)
           \/ StartMulti(c) \/ GetVersion(c) \/ PutVersion(c) \/ runCommand(c) \/ execQueued(c)
           \/ committed(c) \/ rollback(c) \/ rolledBack(c)
    PROVE  WatchInv'
<1>1. StateTypes /\ StateTypes' /\ Served(c)
    BY DEF TxInv
<1>2. ToSet(<<>>) = {}
    BY DEF ToSet
<1>3. \A d \in Conn : stale'[d] = stale[d]
    BY CommandUnwatched DEF execNormalCommand, EnqueueCmd, refuseCmd, StartMulti, GetVersion, PutVersion,
       execQueued, committed, rollback, rolledBack
<1>4. watching' = watching
    BY DEF execNormalCommand, EnqueueCmd, refuseCmd, StartMulti, GetVersion, PutVersion, runCommand,
           execQueued, committed, rollback, rolledBack, connection
<1>5. /\ pc'[c] \notin {"commit", "reply"} => pc[c] \notin {"commit", "reply"}
      /\ pc'[c] = "exec" => pc[c] = "exec"
    BY <1>1 DEF execNormalCommand, EnqueueCmd, refuseCmd, StartMulti, GetVersion, PutVersion, runCommand,
                execQueued, committed, rollback, rolledBack, StateTypes
<1>6. CASE PutVersion(c)
    <2>1. KeepsCounts(c) /\ \A d \in Conn : Counting(d)'
        BY <1>6, PutKeepsCounts, CountingSteps
    <2> QED  BY <1>1, <1>3, <1>4, <1>5, <2>1, WatchesOthers, WatchesOwn DEF WatchInv
<1>7. CASE ~PutVersion(c)
    <2>1. version' = version
        BY <1>7 DEF execNormalCommand, EnqueueCmd, refuseCmd, StartMulti, GetVersion, runCommand,
                    execQueued, committed, rollback, rolledBack
    <2>2. /\ pc[c] = "commit" => ToSet(bumps[c]) = {} \/ (pc'[c] = "commit" /\ bumps' = bumps)
          /\ pc[c] = "commit" => queue' = queue
        BY <1>1, <1>2, <1>7 DEF execNormalCommand, EnqueueCmd, refuseCmd, StartMulti, GetVersion, runCommand,
                    execQueued, committed, rollback, rolledBack, connection
    <2>3. KeepsCounts(c)
        BY <2>1, <2>2, SameKeepsCounts DEF Counts
    <2>4. \A d \in Conn : Counting(d)'
        <3>1. CASE GetVersion(c) \/ \E q \in Plain : execNormalCommand(c, q)
            BY <3>1, CountingSteps
        <3>2. CASE ~(GetVersion(c) \/ \E q \in Plain : execNormalCommand(c, q))
            <4>1. UNCHANGED <<bumps, seen, version>>
                BY <1>7, <3>2 DEF EnqueueCmd, refuseCmd, StartMulti, runCommand, execQueued, committed,
                                  rollback, rolledBack
            <4> QED  BY <2>2, <4>1, CountingOn
        <3> QED  BY <3>1, <3>2
    <2> QED  BY <1>1, <1>3, <1>4, <1>5, <2>3, <2>4, WatchesOthers, WatchesOwn DEF WatchInv
<1> QED  BY <1>6, <1>7

\* A connection begins to watch a key, or stops watching.
LEMMA WatchingSteps ==
    ASSUME TxInv, TxInv', WatchInv, AllOrNothing, NoPanic, NEW c \in Conn, Alone(c),
           \/ \E k \in Watchable : Watch(c, k)
           \/ DiscardMulti(c) \/ execRefused(c) \/ return(c)
    PROVE  WatchInv'
<1>1. StateTypes /\ StateTypes' /\ Served(c) /\ Watches(c)
    BY DEF TxInv, WatchInv
<1>2. /\ UNCHANGED <<version, bumps, seen>> /\ pc[c] # "commit" /\ pc'[c] = "idle"
    BY <1>1 DEF Watch, DiscardMulti, execRefused, return, StateTypes
<1>3. \A d \in Conn \ {c} : stale'[d] = stale[d]
    BY <1>1, ReturnUnwatched DEF Watch, DiscardMulti, execRefused, StateTypes
<1>4. KeepsCounts(c) /\ \A d \in Conn : Counting(d)'
    BY <1>2, SameKeepsCounts, CountingOn DEF Counts
<1>5. Watches(c)'
    <2>1. CASE DiscardMulti(c) \/ execRefused(c) \/ return(c)
        <3>1. stale'[c] = {}
            BY <1>1, <2>1, ReturnUnwatched DEF DiscardMulti, execRefused, StateTypes
        <3>2. watching'[c] = NothingWatched
            BY <1>1, <2>1 DEF DiscardMulti, execRefused, return, leaveMulti, StateTypes
        <3>3. watchingKeys(c)' = {}
            BY <3>2 DEF watchingKeys, NothingWatched
        <3> QED  BY <1>2, <3>1, <3>3 DEF Watches
    <2>2. ASSUME NEW k \in Watchable, Watch(c, k) PROVE Watches(c)'
        <3>1. k \in Key /\ version[k] \in Int /\ version[k] # NoVersion
            BY <1>1, CommandAssumption, VersionAssumption DEF StateTypes, NoVersion
        <3>2. /\ stale'[c] = stale[c] \ {k} /\ pc[c] = "idle"
              /\ watching'[c][k] = version[k] /\ \A j \in Key \ {k} : watching'[c][j] = watching[c][j]
            BY <1>1, <2>2, <3>1 DEF Watch, StateTypes
        <3>3. watchingKeys(c)' = watchingKeys(c) \cup {k}
            BY <3>1, <3>2 DEF watchingKeys
        <3>4. \A j \in watchingKeys(c)' : j \in Watchable /\ watching'[c][j] <= version'[j]
            BY <1>1, <1>2, <3>1, <3>2, <3>3 DEF Watches, watchingKeys
        <3>5. ASSUME NEW j \in stale'[c]
              PROVE  watching'[c][j] < version'[j] \/ \E d \in Conn \ {c} : Counts(d, j)'
            <4>1. j \in stale[c] /\ j # k /\ j \in watchingKeys(c) /\ j \in Key
                BY <1>1, <3>2, <3>5 DEF Watches, watchingKeys
            <4>2. watching[c][j] < version[j] \/ \E d \in Conn \ {c} : Counts(d, j)
                BY <1>1, <3>2, <4>1 DEF Watches
            <4>3. \A d \in Conn \ {c} : Counts(d, j) => Counts(d, j)'
                BY DEF Alone, Counts
            <4> QED  BY <1>2, <3>2, <4>1, <4>2, <4>3
        <3>6. stale'[c] \subseteq watchingKeys(c)'
            BY <1>1, <3>2, <3>3 DEF Watches
        <3> QED  BY <1>2, <3>4, <3>5, <3>6 DEF Watches
    <2> QED  BY <2>1, <2>2
<1> QED  BY <1>1, <1>3, <1>4, <1>5, WatchesOthers DEF WatchInv

\* EXEC takes its locks: whoever is still counting holds a lock that it waits for.
LEMMA ExecMultiWatches ==
    ASSUME TxInv, TxInv', WatchInv, NEW c \in Conn, Alone(c), ExecMulti(c)
    PROVE  WatchInv'
<1>1. StateTypes /\ StateTypes' /\ Watches(c)
    BY DEF TxInv, WatchInv
<1>2. /\ UNCHANGED <<version, bumps, seen, watching, queue, stale>> /\ pc[c] = "idle"
      /\ pc'[c] \in {"exec", "reply"}
    BY <1>1 DEF ExecMulti, StateTypes, connection
<1>3. KeepsCounts(c) /\ \A d \in Conn : Counting(d)'
    BY <1>2, SameKeepsCounts, CountingOn DEF Counts
<1>4. \A d \in Conn \ {c} : Watches(d)'
    BY <1>1, <1>2, <1>3, WatchesOthers
<1>5. ASSUME pc'[c] = "exec", NEW k \in stale[c] PROVE FALSE
    <2>1. k \in watchingKeys(c) /\ k \in Watchable /\ k \in Key
        BY <1>1, <1>5 DEF Watches, watchingKeys
    <2>2. watching[c][k] = version[k] /\ version[k] \in Int
        BY <1>1, <1>5, <2>1, VersionAssumption DEF ExecMulti, isWatchingChanged, StateTypes
    <2>3. PICK d \in Conn \ {c} : Counts(d, k)
        BY <1>1, <1>2, <1>5, <2>2 DEF Watches
    <2>4. k \in WriteLocks(d)
        BY <2>1, <2>3 DEF WatchInv, Counting, Counts
    <2> QED  BY <2>1, <2>3, <2>4 DEF ExecMulti, RWLocks
<1>6. Watches(c)'
    BY <1>1, <1>2, <1>5 DEF Watches, watchingKeys
<1> QED  BY <1>3, <1>4, <1>6 DEF WatchInv

\* EXEC commits: what others watch of it, it is going to count up, and those that
\* execute watch none of it.
LEMMA CommitWatches ==
    ASSUME TxInv, TxInv', WatchInv, VersionsLast, WrittenByExec, NEW c \in Conn, Alone(c), commit(c)
    PROVE  WatchInv'
<1>1. StateTypes /\ StateTypes' /\ Watches(c)
    BY DEF TxInv, WatchInv
<1>2. /\ UNCHANGED <<version, watching, queue>> /\ pc[c] = "exec" /\ pc'[c] = "commit"
      /\ \A d \in Conn : stale'[d] = Outdated(d, WriteLocks(c), before[c], store)
    BY <1>1 DEF commit, StateTypes, connection
<1>3. \A d \in Conn : Counting(d)'
    BY CountingSteps
<1>4. \A k \in WriteLocks(c) : Counts(c, k)'
    <2>1. bumps'[c] = writeKeys(c)
        BY <1>1 DEF commit, StateTypes
    <2>2. WriteLocks(c) = ToSet(writeKeys(c))
        BY <1>1, <1>2, QueueKeys DEF WriteLocks, Executing
    <2> QED  BY <1>2, <2>1, <2>2 DEF Counts
<1>5. ASSUME NEW d \in Conn PROVE stale[d] \subseteq stale'[d] /\ stale'[d] \subseteq watchingKeys(d)
    BY <1>2 DEF Outdated, WatchInv, Watches
<1>6. \A d \in Conn : watchingKeys(d)' = watchingKeys(d)
    BY <1>2 DEF watchingKeys
<1>7. Watches(c)'
    BY <1>1, <1>2, <1>5, <1>6 DEF Watches
<1>8. ASSUME NEW d \in Conn \ {c} PROVE Watches(d)'
    <2>1. Watches(d) /\ pc'[d] = pc[d]
        BY DEF WatchInv, Alone
    <2>2. ASSUME pc[d] \notin {"commit", "reply"}, NEW k \in stale'[d]
          PROVE  watching'[d][k] < version'[k] \/ \E e \in Conn \ {d} : Counts(e, k)'
        <3>1. CASE k \in stale[d]
            <4>1. watching[d][k] < version[k] \/ \E e \in Conn \ {d} : Counts(e, k)
                BY <2>1, <2>2, <3>1 DEF Watches
            <4>2. \A e \in Conn : Counts(e, k) => Counts(e, k)'
                BY <1>2 DEF Alone, Counts
            <4> QED  BY <1>2, <4>1, <4>2
        <3>2. CASE k \notin stale[d]
            <4>1. k \in WriteLocks(c)
                BY <1>2, <2>2, <3>2 DEF Outdated
            <4> QED  BY <1>4, <4>1
        <3> QED  BY <3>1, <3>2
    <2>3. ASSUME pc[d] = "exec" PROVE stale'[d] = {}
        <3>1. watchingKeys(d) \subseteq ReadLocks(d)
            BY <2>3 DEF ReadLocks, Executing
        <3>2. WriteLocks(c) \cap watchingKeys(d) = {}
            BY <3>1 DEF TxInv, LocksHeld
        <3> QED  BY <1>2, <2>1, <2>3, <3>2 DEF Outdated, Watches
    <2> QED  BY <1>2, <1>5, <1>6, <2>1, <2>2, <2>3 DEF Watches
<1> QED  BY <1>3, <1>7, <1>8 DEF WatchInv

LEMMA WatchInvStep ==
    ASSUME TxInv, WatchInv, VersionsLast, WrittenByExec, AllOrNothing, NoPanic, [Next]_vars
    PROVE  WatchInv'
<1>1. TxInv' /\ StateTypes
    BY TxInvStep DEF TxInv
<1>2. CASE UNCHANGED vars
    <2>1. /\ version' = version /\ pc' = pc /\ bumps' = bumps /\ seen' = seen /\ queue' = queue
          /\ watching' = watching /\ stale' = stale
        BY <1>2 DEF vars, connection
    <2>2. ASSUME NEW d \in Conn PROVE Counting(d)' /\ Watches(d)'
        <3>1. Counting(d) /\ Watches(d)
            BY DEF WatchInv
        <3>2. \A e, k : Counts(e, k)' <=> Counts(e, k)
            BY <2>1 DEF Counts
        <3>3. watchingKeys(d)' = watchingKeys(d) /\ WriteLocks(d)' = WriteLocks(d)
            BY <2>1 DEF watchingKeys, WriteLocks, Executing
        <3> QED  BY <2>1, <3>1, <3>2, <3>3 DEF Counting, Watches
    <2> QED  BY <2>2 DEF WatchInv
<1>3. CASE Next
    <2>1. PICK c \in Conn :
            \/ \E q \in Plain : execNormalCommand(c, q)
            \/ \E k \in Watchable : Watch(c, k)
            \/ \E q \in Queued : EnqueueCmd(c, q)
            \/ \E q \in Unknown : refuseCmd(c, q)
            \/ StartMulti(c) \/ DiscardMulti(c)
            \/ execRefused(c) \/ ExecMulti(c)
            \/ Serve(c)
        BY <1>3 DEF Next
    <2>2. Alone(c)
        BY <1>1, <2>1, EveryStepSingle DEF Single
    <2> QED  BY <1>1, <2>1, <2>2, QuietSteps, WatchingSteps, ExecMultiWatches, CommitWatches DEF Serve
<1> QED  BY <1>2, <1>3

LEMMA WatchInvInit == Init => WatchInv
<1> SUFFICES ASSUME Init PROVE WatchInv
    OBVIOUS
<1>1. ASSUME NEW c \in Conn PROVE Counting(c) /\ Watches(c)
    <2>1. /\ bumps[c] = <<>> /\ seen[c] = NoVersion /\ stale[c] = {} /\ pc[c] = "idle"
          /\ watching[c] = NothingWatched
        BY DEF Init
    <2>2. watchingKeys(c) = {} /\ ToSet(<<>>) = {}
        BY <2>1 DEF watchingKeys, NothingWatched, ToSet
    <2> QED  BY <2>1, <2>2 DEF Counting, Watches
<1> QED  BY <1>1 DEF WatchInv

\* Optimistic locking rests on the rest: where an EXEC that fails leaves its keys
\* as it found them, watched keys are written by transactions only, and their
\* versions do not come round, no EXEC goes on to execute after others changed
\* a key that it watches, whatever the interleaving of the counting of versions,
\* WATCH and EXEC.  A key changed since its WATCH shows another version, or
\* belongs to an EXEC that still holds its lock.
THEOREM WatchRestsOnAtomicity ==
    ASSUME \A q \in Plain : MayChange(q) \cap Watchable = {}
    PROVE  Spec /\ []AllOrNothing /\ []NoPanic /\ []VersionsLast => []WatchHolds
<1>1. WrittenByExec
    BY DEF WrittenByExec
<1>2. WatchInv => WatchHolds
    BY DEF WatchInv, Watches, WatchHolds
<1>3. TxInv /\ WatchInv /\ AllOrNothing /\ NoPanic /\ VersionsLast /\ [Next]_vars => TxInv' /\ WatchInv'
    BY <1>1, TxInvStep, WatchInvStep
<1> QED  BY <1>2, <1>3, TxInvInit, WatchInvInit, PTL DEF Spec

-----------------------------------------------------------------------------
(* Stores of strings, for the atomicity of EXEC.                           *)

\* The commands on strings, expiries and whole keys whose undo logs put
\* everything back.  The log of SETRANGE holds the array that SETRANGE writes
\* into, and GETEX PERSIST with a bad time changes the store before it fails.
Undoable(c) ==
    /\ c.op \in (StringOps \ {"setrange"}) \cup ExpireOps \cup {"persist", "del"}
    /\ c.op = "getex" /\ c.n < 0 => c.flag # "PERSIST"

\* A store of strings has of every key nothing or a string.
StringSlot(s, k) == Slot(s, k) = <<Absent, NoTTL>> \/ s.data[k][1] = "string"
OfStrings(s) == IsStore(s) /\ \A k \in Key : StringSlot(s, k)

\* Two stores that have the same of the keys of K, and the same clock.
Like(s, t, K) == s.now = t.now /\ \A k \in K \cap Key : Slot(s, k) = Slot(t, k)

\* Undo logs can put back every key of such a store.
LEMMA StringsTidy ==
    ASSUME NEW s, OfStrings(s)
    PROVE  Tidy(s) /\ \A k \in Key : CanLog(s, k)
<1>1. IsStore(s)
    BY DEF OfStrings
<1>2. ASSUME NEW k \in Key
      PROVE  /\ ~Exists(s, k) => Slot(s, k) = <<Absent, NoTTL>>
             /\ CanLog(s, k)
    BY DEF OfStrings, StringSlot, Slot, CanLog, Exists, TypeOf, Absent
<1> QED  BY <1>1, <1>2 DEF Tidy

\* Stores that have the same of every key are the same.
LEMMA SameStore ==
    ASSUME NEW s, IsStore(s), NEW t, IsStore(t), Like(s, t, Key)
    PROVE  s = t
<1>1. s.now = t.now /\ \A k \in Key : s.data[k] = t.data[k] /\ s.ttl[k] = t.ttl[k]
    BY DEF Like, Slot
<1>2. ASSUME NEW u, IsStore(u)
      PROVE  /\ u = [data |-> u.data, ttl |-> u.ttl, now |-> u.now]
             /\ u.data = [k \in Key |-> <<u.data[k][1], u.data[k][2]>>]
             /\ u.ttl = [k \in Key |-> u.ttl[k]]
    <2>1. u.ttl \in [Key -> Nat]
        BY <1>2, PartsOfStore
    <2>2. u.ttl = [k \in Key |-> u.ttl[k]]
        BY <2>1
    <2>3. /\ u = [data |-> u.data, ttl |-> u.ttl, now |-> u.now]
          /\ u.data = [k \in Key |-> <<u.data[k][1], u.data[k][2]>>]
        BY <1>2, PartsOfStore
    <2> QED  BY <2>2, <2>3, Zenon
<1>3. IsStore(s) /\ IsStore(t)
    OBVIOUS
<1>4. s.ttl = t.ttl
    <2>1. [k \in Key |-> s.ttl[k]] = [k \in Key |-> t.ttl[k]]
        BY <1>1
    <2> QED  BY <1>2, <1>3, <2>1, Zenon
<1>5. s.data = t.data
    <2>1. PICK a : a = [k \in Key |-> <<s.data[k][1], s.data[k][2]>>]
        OBVIOUS
    <2>2. a = [k \in Key |-> <<t.data[k][1], t.data[k][2]>>]
        BY <1>1, <2>1
    <2>3. s.data = a
        BY <1>2, <1>3, <2>1
    <2>4. t.data = a
        BY <1>2, <1>3, <2>2
    <2> QED  BY <2>3, <2>4
<1>6. PICK r : r = [data |-> s.data, ttl |-> s.ttl, now |-> s.now]
    OBVIOUS
<1>7. r = [data |-> t.data, ttl |-> t.ttl, now |-> t.now]
    BY <1>1, <1>4, <1>5, <1>6
<1>8. s = r
    BY <1>2, <1>3, <1>6
<1>9. t = r
    BY <1>2, <1>3, <1>7
<1> QED  BY <1>8, <1>9

\* A result on a store of strings: it is one again, and an error has changed
\* nothing.
Proper(s, r) == /\ r.fate \in {"ok", "error"} /\ OfStrings(r.store)
                /\ r.fate = "error" => r.store = s

\* What executors put together from stores of strings.
LEMMA StringResults ==
    ASSUME NEW s, OfStrings(s), NEW k \in Key
    PROVE  /\ OfStrings(s) /\ OfStrings(Persist(s, k)) /\ OfStrings(RemoveKey(s, k))
           /\ Exists(s, k) => \A n \in Nat : OfStrings(Expire(s, k, n))
           /\ \A v : OfStrings(PutEntity(s, k, String(v)))
           /\ \A v : OfStrings(Persist(PutEntity(s, k, String(v)), k))
           /\ \A v : \A n \in Nat : OfStrings(Expire(PutEntity(s, k, String(v)), k, n))
<1>1. IsStore(s)
    BY DEF OfStrings
<1>2. ASSUME NEW p, Within(s, p, {k}), StringSlot(p, k)
      PROVE  OfStrings(p)
    <2>1. ASSUME NEW j \in Key PROVE StringSlot(p, j)
        <3>1. CASE j = k
            BY <1>2, <3>1
        <3>2. CASE j # k
            <4>1. p.data[j] = s.data[j] /\ p.ttl[j] = s.ttl[j]
                BY <1>2, <3>2 DEF Within
            <4>2. StringSlot(s, j)
                BY DEF OfStrings
            <4> QED  BY <4>1, <4>2 DEF StringSlot, Slot
        <3> QED  BY <3>1, <3>2
    <2> QED  BY <1>2, <2>1 DEF OfStrings, Within
<1>3. \A v : String(v)[1] = "string"
    BY DEF String
<1>4. ASSUME NEW p, NEW e, NEW n, Slot(p, k) = <<e, n>>, e[1] = "string" \/ <<e, n>> = <<Absent, NoTTL>>
      PROVE  StringSlot(p, k)
    BY <1>4 DEF StringSlot, Slot
<1>5. StringSlot(s, k)
    BY DEF OfStrings
<1>6. OfStrings(Persist(s, k))
    <2>1. s.data[k][1] = "string" \/ s.data[k] = Absent
        BY <1>5 DEF StringSlot, Slot
    <2>2. StringSlot(Persist(s, k), k)
        BY <1>1, <1>4, <2>1, SlotsOneKey
    <2> QED  BY <1>1, <1>2, <2>2, WithinOneKey
<1>7. OfStrings(RemoveKey(s, k))
    <2>1. StringSlot(RemoveKey(s, k), k)
        BY <1>1, <1>4, SlotsOneKey
    <2> QED  BY <1>1, <1>2, <2>1, WithinOneKey
<1>8. ASSUME Exists(s, k), NEW n \in Nat
      PROVE  OfStrings(Expire(s, k, n))
    <2>1. s.data[k][1] = "string"
        BY <1>5, <1>8 DEF StringSlot, Slot, Exists, TypeOf, Absent
    <2>2. StringSlot(Expire(s, k, n), k)
        BY <1>1, <1>4, <2>1, SlotsOneKey
    <2> QED  BY <1>1, <1>2, <2>2, WithinOneKey
<1>9. ASSUME NEW v
      PROVE  /\ OfStrings(PutEntity(s, k, String(v)))
             /\ OfStrings(Persist(PutEntity(s, k, String(v)), k))
             /\ \A n \in Nat : OfStrings(Expire(PutEntity(s, k, String(v)), k, n))
    <2>1. /\ StringSlot(PutEntity(s, k, String(v)), k)
          /\ StringSlot(Persist(PutEntity(s, k, String(v)), k), k)
          /\ \A n \in Nat : StringSlot(Expire(PutEntity(s, k, String(v)), k, n), k)
        BY <1>1, <1>3, <1>4, SlotsOneKey
    <2> QED  BY <1>1, <1>2, <2>1, WithinOneKey
<1> QED  BY <1>6, <1>7, <1>8, <1>9

\* Most of the commands are on one key.
OneKeyOps == (StringOps \ {"get", "mset", "msetnx", "setrange"}) \cup ExpireOps \cup {"persist"}

LEMMA ProperOneKey ==
    ASSUME NEW s, OfStrings(s), NEW c, IsCommand(c), Undoable(c), c.op \in OneKeyOps
    PROVE  Proper(s, execWithLock(s, c))
<1> DEFINE k == c.key
<1>1. IsStore(s) /\ k \in Key /\ c.n \in Int /\ s.now \in Nat
    <2>1. IsStore(s)
        BY DEF OfStrings
    <2> QED  BY <2>1, PartsOfStore DEF IsCommand
<1>2. /\ c.n >= 0 => s.now + c.n \in Nat /\ s.now + c.n * Second \in Nat /\ c.n * Second \in Nat
      /\ c.n >= 0 => c.n \in Nat
      /\ c.op \in ExpireOps => c.n >= 0
    BY <1>1 DEF Second, IsCommand
<1>3. /\ OfStrings(Persist(s, k)) /\ OfStrings(RemoveKey(s, k))
      /\ Exists(s, k) => \A n \in Nat : OfStrings(Expire(s, k, n))
      /\ \A v : OfStrings(PutEntity(s, k, String(v)))
      /\ \A v : OfStrings(Persist(PutEntity(s, k, String(v)), k))
      /\ \A v : \A n \in Nat : OfStrings(Expire(PutEntity(s, k, String(v)), k, n))
    BY <1>1, StringResults
<1>4. /\ Proper(s, Error(s)) /\ Proper(s, Done(s))
      /\ \A p, l : OfStrings(p) => Proper(s, Logged(p, l))
    BY DEF Proper, Error, Done, Logged
<1>d. Dispatched(s, c)
    BY Dispatch
<1> HIDE DEF k
<1>5. CASE c.op = "set"
    BY <1>1, <1>2, <1>3, <1>4, <1>5, <1>d DEF Dispatched, execSet, NoTTL, k
<1>6. CASE c.op \in {"setnx", "getset", "getdel"}
    BY <1>1, <1>2, <1>3, <1>4, <1>6, <1>d DEF Dispatched, execSetNX, execGetSet, execGetDel, k
<1>7. CASE c.op \in {"setex", "psetex"}
    BY <1>1, <1>2, <1>3, <1>4, <1>7, <1>d DEF Dispatched, execSetEX, execPSetEX, k
<1>8. CASE c.op \in {"incr", "incrby", "incrbyfloat", "decr", "decrby"}
    BY <1>1, <1>3, <1>4, <1>8, <1>d
    DEF Dispatched, execIncr, execIncrBy, execIncrByFloat, execDecr, execDecrBy, countBy, k
<1>9. CASE c.op = "append"
    BY <1>1, <1>3, <1>4, <1>9, <1>d DEF Dispatched, execAppend, k
<1>10. CASE c.op = "getex"
    BY <1>1, <1>2, <1>3, <1>4, <1>10, <1>d DEF Dispatched, execGetEX, Undoable, k, NoTTL
<1>11. CASE c.op = "persist"
    BY <1>1, <1>3, <1>4, <1>11, <1>d DEF Dispatched, execPersist, k
<1>12. CASE c.op \in ExpireOps
    BY <1>1, <1>2, <1>3, <1>4, <1>12, <1>d
    DEF Dispatched, execExpire, execExpireAt, execPExpire, execPExpireAt, expireAt, ExpireOps, k
<1> QED  BY <1>5, <1>6, <1>7, <1>8, <1>9, <1>10, <1>11, <1>12 DEF OneKeyOps, StringOps

\* They depend on nothing but this key.
LEMMA LocalOneKey ==
    ASSUME NEW s, OfStrings(s), NEW t, OfStrings(t), NEW c, IsCommand(c), Undoable(c),
           c.op \in OneKeyOps, Like(s, t, {c.key})
    PROVE  /\ execWithLock(s, c).fate = execWithLock(t, c).fate
           /\ Like(execWithLock(s, c).store, execWithLock(t, c).store, {c.key})
<1> DEFINE k == c.key
           Alike(q, r) == q.fate = r.fate /\ Slot(q.store, k) = Slot(r.store, k)
<1>1. IsStore(s) /\ IsStore(t) /\ k \in Key /\ c.n \in Int /\ s.now \in Nat
    <2>1. IsStore(s) /\ IsStore(t)
        BY DEF OfStrings
    <2> QED  BY <2>1, PartsOfStore DEF IsCommand
<1>2. s.now = t.now /\ s.data[k] = t.data[k] /\ s.ttl[k] = t.ttl[k] /\ Slot(s, k) = Slot(t, k)
    BY <1>1 DEF Like, Slot
<1>3. TypeOf(s, k) = TypeOf(t, k) /\ ValueOf(s, k) = ValueOf(t, k) /\ (Exists(s, k) <=> Exists(t, k))
    BY <1>2 DEF TypeOf, ValueOf, Exists
<1>4. /\ WrongType(s, k, "string") <=> WrongType(t, k, "string")
      /\ c.n >= 0 => s.now + c.n \in Nat /\ s.now + c.n * Second \in Nat /\ c.n * Second \in Nat
      /\ c.n >= 0 => c.n \in Nat
      /\ c.op \in ExpireOps => c.n >= 0
    BY <1>1, <1>3 DEF Second, IsCommand, WrongType
<1>5. /\ Alike(Error(s), Error(t)) /\ Alike(Done(s), Done(t))
      /\ \A l, m : Alike(Logged(s, l), Logged(t, m))
      /\ \A l, m : Alike(Logged(Persist(s, k), l), Logged(Persist(t, k), m))
      /\ \A l, m : Alike(Logged(RemoveKey(s, k), l), Logged(RemoveKey(t, k), m))
      /\ \A n \in Nat : \A l, m : Alike(Logged(Expire(s, k, n), l), Logged(Expire(t, k, n), m))
      /\ \A v, l, m : Alike(Logged(PutEntity(s, k, String(v)), l), Logged(PutEntity(t, k, String(v)), m))
      /\ \A v, l, m : Alike(Logged(Persist(PutEntity(s, k, String(v)), k), l),
                            Logged(Persist(PutEntity(t, k, String(v)), k), m))
      /\ \A v, l, m : \A n \in Nat : Alike(Logged(Expire(PutEntity(s, k, String(v)), k, n), l),
                                           Logged(Expire(PutEntity(t, k, String(v)), k, n), m))
    BY <1>1, <1>2, SlotsOneKey DEF Error, Done, Logged
<1>d. Dispatched(s, c) /\ Dispatched(t, c)
    BY Dispatch
<1> HIDE DEF k, Alike
<1>6. Alike(execWithLock(s, c), execWithLock(t, c))
    <2>1. CASE c.op = "set"
        BY <1>1, <1>2, <1>3, <1>4, <1>5, <2>1, <1>d DEF Dispatched, execSet, NoTTL, k
    <2>2. CASE c.op \in {"setnx", "getset", "getdel"}
        BY <1>1, <1>2, <1>3, <1>4, <1>5, <2>2, <1>d DEF Dispatched, execSetNX, execGetSet, execGetDel, k
    <2>3. CASE c.op \in {"setex", "psetex"}
        BY <1>1, <1>2, <1>3, <1>4, <1>5, <2>3, <1>d DEF Dispatched, execSetEX, execPSetEX, k
    <2>4. CASE c.op \in {"incr", "incrby", "incrbyfloat", "decr", "decrby"}
        BY <1>1, <1>2, <1>3, <1>4, <1>5, <2>4, <1>d
        DEF Dispatched, execIncr, execIncrBy, execIncrByFloat, execDecr, execDecrBy, countBy, k
    <2>5. CASE c.op = "append"
        BY <1>1, <1>2, <1>3, <1>4, <1>5, <2>5, <1>d DEF Dispatched, execAppend, k
    <2>6. CASE c.op = "getex"
        BY <1>1, <1>2, <1>3, <1>4, <1>5, <2>6, <1>d DEF Dispatched, execGetEX, Undoable, k, NoTTL
    <2>7. CASE c.op = "persist"
        BY <1>1, <1>2, <1>3, <1>4, <1>5, <2>7, <1>d DEF Dispatched, execPersist, k
    <2>8. CASE c.op \in ExpireOps
        BY <1>1, <1>2, <1>3, <1>4, <1>5, <2>8, <1>d
        DEF Dispatched, execExpire, execExpireAt, execPExpire, execPExpireAt, expireAt, ExpireOps, k
    <2> QED  BY <2>1, <2>2, <2>3, <2>4, <2>5, <2>6, <2>7, <2>8 DEF OneKeyOps, StringOps
<1>7. execWithLock(s, c).store.now = s.now /\ execWithLock(t, c).store.now = t.now
    BY <1>1, EveryCommand DEF Ended, Within
<1> QED  BY <1>2, <1>6, <1>7 DEF Like, Alike, k

\* MSET, MSETNX and DEL go by their keys alone.
LEMMA PairsSlots ==
    ASSUME NEW s, OfStrings(s), NEW c, IsCommand(c), c.op \in {"mset", "msetnx"}
    PROVE  /\ OfStrings(putPairs(s, c))
           /\ \A t : \A k \in Key : Slot(s, k) = Slot(t, k) =>
                 Slot(putPairs(s, c), k) = Slot(putPairs(t, c), k)
<1> DEFINE at(k) == {i \in DOMAIN prepareMSet(c) : prepareMSet(c)[i] = k}
           e(k) == String(<<c.args[2 * Max(at(k))]>>)
           p == putPairs(s, c)
<1>1. ASSUME NEW u, NEW k \in Key
      PROVE  Slot(putPairs(u, c), k) = <<IF at(k) = {} THEN u.data[k] ELSE e(k), u.ttl[k]>>
    BY DEF putPairs, Slot
<1>2. \A k : e(k)[1] = "string"
    BY DEF String
<1>3. IsStore(s)
    BY DEF OfStrings
<1>4. IsStore(p)
    <2>1. Within(s, p, MayChange(c)) \/ p = s
        <3> DEFINE d == [k \in Key |-> IF at(k) = {} THEN s.data[k] ELSE e(k)]
        <3>1. p = [data |-> d, ttl |-> s.ttl, now |-> s.now]
            BY DEF putPairs
        <3>2. d = [k \in Key |-> d[k]]
            OBVIOUS
        <3>3. \A k \in Key : d[k] = s.data[k] \/ \E v : d[k] = <<"string", v>>
            BY DEF String
        <3>4. \A k \in Key : s.data[k] = <<s.data[k][1], s.data[k][2]>> /\ s.data[k][1] \in Types
            BY <1>3, EntityOfStore
        <3>5. s.ttl \in [Key -> Nat] /\ s.now \in Nat
            BY <1>3, PartsOfStore
        <3> HIDE DEF d, p
        <3>6. \A k \in Key : d[k] = <<d[k][1], d[k][2]>> /\ d[k][1] \in Types
            <4>1. ASSUME NEW k \in Key PROVE d[k] = <<d[k][1], d[k][2]>> /\ d[k][1] \in Types
                <5>1. CASE d[k] = s.data[k]
                    BY <3>4, <5>1
                <5>2. ASSUME NEW v, d[k] = <<"string", v>>
                      PROVE  d[k] = <<d[k][1], d[k][2]>> /\ d[k][1] \in Types
                    BY <5>2 DEF Types
                <5> QED  BY <3>3, <5>1, <5>2
            <4> QED  BY <4>1
        <3>7. IsStore(p)
            <4>1. IsData(d)
                BY <3>2, <3>6 DEF IsData
            <4> QED  BY <3>1, <3>5, <4>1, DataStore
        <3>8. \A k \in Key \ MayChange(c) : d[k] = s.data[k]
            <4>1. MayChange(c) = ToSet(prepareMSet(c))
                BY DEF MayChange, writeKeysOf, RenameOps
            <4> QED  BY <4>1 DEF d, ToSet
        <3> QED  BY <3>1, <3>7, <3>8 DEF Within
    <2> QED  BY <1>3, <2>1 DEF Within
<1> HIDE DEF at, e, p
<1>5. ASSUME NEW k \in Key PROVE StringSlot(p, k)
    <2>1. StringSlot(s, k)
        BY DEF OfStrings
    <2>2. Slot(p, k) = Slot(s, k) \/ p.data[k] = e(k)
        BY <1>1 DEF p, Slot
    <2> QED  BY <1>2, <2>1, <2>2 DEF StringSlot, Slot
<1>6. OfStrings(putPairs(s, c))
    BY <1>4, <1>5 DEF OfStrings, p
<1>7. ASSUME NEW t, NEW k \in Key, Slot(s, k) = Slot(t, k)
      PROVE  Slot(putPairs(s, c), k) = Slot(putPairs(t, c), k)
    <2>1. s.data[k] = t.data[k] /\ s.ttl[k] = t.ttl[k]
        BY <1>7 DEF Slot
    <2> QED  BY <1>1, <2>1
<1> QED  BY <1>6, <1>7

\* The keys that a command reads or may change.
Uses(c) == MayChange(c) \cup readKeysOf(c)

\* Every one of these commands keeps stores of strings, and what it does to the
\* keys it declares depends on these keys alone.
LEMMA ProperCommand ==
    ASSUME NEW s, OfStrings(s), NEW c, IsCommand(c), Undoable(c)
    PROVE  Proper(s, execWithLock(s, c))
<1>1. /\ Proper(s, Error(s)) /\ Proper(s, Done(s))
      /\ \A p, l : OfStrings(p) => Proper(s, Logged(p, l)) /\ Proper(s, [Done(p) EXCEPT !.aof = l])
    BY DEF Proper, Error, Done, Logged
<1>d. Dispatched(s, c)
    BY Dispatch
<1>2. CASE c.op = "get"
    BY <1>1, <1>2, <1>d DEF Dispatched, execGet
<1>3. CASE c.op \in {"mset", "msetnx"}
    <2>1. OfStrings(putPairs(s, c))
        BY <1>3, PairsSlots
    <2>2. \/ execWithLock(s, c) \in {Error(s), Done(s)}
          \/ \E l : execWithLock(s, c) = Logged(putPairs(s, c), l)
        BY <1>3, <1>d DEF Dispatched, execMSet, execMSetNX
    <2> QED  BY <1>1, <2>1, <2>2
<1>4. CASE c.op = "del"
    <2>1. OfStrings(Removes(s, c.args))
        <3> DEFINE p == Removes(s, c.args)
        <3>1. /\ Tidy(p)
              /\ \A k \in Key : Slot(p, k) = <<Absent, NoTTL>> \/ Slot(p, k) = Slot(s, k)
            BY StringsTidy, RemovesSlots
        <3> HIDE DEF p
        <3>2. ASSUME NEW k \in Key PROVE StringSlot(p, k)
            BY <3>1 DEF OfStrings, StringSlot, Slot
        <3>3. OfStrings(p)
            BY <3>1, <3>2 DEF OfStrings, Tidy
        <3> QED  BY <3>3 DEF p
    <2> QED  BY <1>1, <1>4, <2>1, <1>d DEF Dispatched, execDel
<1> QED  BY <1>2, <1>3, <1>4, ProperOneKey DEF Undoable, OneKeyOps, StringOps

LEMMA LocalCommand ==
    ASSUME NEW s, OfStrings(s), NEW t, OfStrings(t), NEW c, IsCommand(c), Undoable(c),
           NEW K, Uses(c) \subseteq K, Like(s, t, K)
    PROVE  /\ execWithLock(s, c).fate = execWithLock(t, c).fate
           /\ Like(execWithLock(s, c).store, execWithLock(t, c).store, K)
<1> DEFINE q == execWithLock(s, c)
           r == execWithLock(t, c)
<1>1. Within(s, q.store, MayChange(c)) /\ Within(t, r.store, MayChange(c))
    BY EveryCommand DEF OfStrings, Ended
<1>2. s.now = t.now /\ \A k \in K \cap Key : Slot(s, k) = Slot(t, k)
    BY DEF Like
<1>3. ASSUME q.fate = r.fate, \A k \in K \cap Key \cap MayChange(c) : Slot(q.store, k) = Slot(r.store, k)
      PROVE  q.fate = r.fate /\ Like(q.store, r.store, K)
    <2>1. ASSUME NEW k \in K \cap Key PROVE Slot(q.store, k) = Slot(r.store, k)
        <3>1. CASE k \in MayChange(c)
            BY <1>3, <3>1
        <3>2. CASE k \notin MayChange(c)
            BY <1>1, <1>2, <3>2 DEF Within, Slot
        <3> QED  BY <3>1, <3>2
    <2> HIDE DEF q, r
    <2>2. q.store.now = r.store.now
        BY <1>1, <1>2 DEF Within
    <2> QED  BY <1>3, <2>1, <2>2 DEF Like
<1>d. Dispatched(s, c) /\ Dispatched(t, c)
    BY Dispatch
<1>4. CASE c.op \in OneKeyOps
    <2>1. c.key \in MayChange(c) /\ c.key \in K /\ c.key \in Key
        BY <1>4, FirstKey DEF OneKeyOps, StringOps, ExpireOps, RenameOps, Uses, IsCommand
    <2>2. Like(s, t, {c.key})
        BY <1>2, <2>1 DEF Like
    <2>3. q.fate = r.fate /\ Like(q.store, r.store, {c.key})
        BY <1>4, <2>2, LocalOneKey
    <2>4. MayChange(c) = {c.key}
        BY <1>4, FirstKey DEF OneKeyOps, StringOps, ExpireOps, RenameOps
    <2> QED  BY <1>3, <2>1, <2>3, <2>4 DEF Like
<1>5. CASE c.op = "get"
    <2>1. c.key \in Key
        BY DEF IsCommand
    <2>2. readKeysOf(c) = {c.key}
        BY <1>5 DEF readKeysOf, StoreOps
    <2>3. c.key \in K
        BY <2>2 DEF Uses
    <2>4. WrongType(s, c.key, "string") <=> WrongType(t, c.key, "string")
        BY <1>2, <2>1, <2>3 DEF WrongType, TypeOf, Slot
    <2>5. q.fate = r.fate
        BY <1>5, <2>4, <1>d DEF Dispatched, execGet, Error, Done
    <2>6. MayChange(c) = {}
        BY <1>5 DEF MayChange, writeKeysOf, RenameOps, ToSet
    <2> QED  BY <1>3, <2>5, <2>6
<1>6. CASE c.op \in {"mset", "msetnx"}
    <2>1. MayChange(c) = ToSet(prepareMSet(c))
        BY <1>6 DEF MayChange, writeKeysOf, RenameOps
    <2>2. \A i \in DOMAIN prepareMSet(c) : prepareMSet(c)[i] \in Key /\ prepareMSet(c)[i] \in K
        BY <1>6, <2>1 DEF Uses, ToSet, IsCommand
    <2>3. \A i \in DOMAIN prepareMSet(c) : Exists(s, prepareMSet(c)[i]) <=> Exists(t, prepareMSet(c)[i])
        BY <1>2, <2>2 DEF Exists, TypeOf, Slot
    <2>4. \A k \in K \cap Key : Slot(putPairs(s, c), k) = Slot(putPairs(t, c), k)
        BY <1>2, <1>6, PairsSlots
    <2>5. CASE c.op = "mset"
        <3>1. \/ q = Error(s) /\ r = Error(t)
              \/ \E l : q = Logged(putPairs(s, c), l) /\ r = Logged(putPairs(t, c), l)
            BY <2>5, <1>d DEF Dispatched, execMSet
        <3> HIDE DEF q, r
        <3>2. q.fate = r.fate /\ \A k \in K \cap Key : Slot(q.store, k) = Slot(r.store, k)
            BY <1>2, <2>4, <3>1 DEF Error, Logged
        <3> QED  BY <1>3, <3>2 DEF q, r
    <2>6. CASE c.op = "msetnx"
        <3>1. \/ q = Error(s) /\ r = Error(t)
              \/ q = Done(s) /\ r = Done(t)
              \/ \E l : q = Logged(putPairs(s, c), l) /\ r = Logged(putPairs(t, c), l)
            BY <2>3, <2>6, <1>d DEF Dispatched, execMSetNX
        <3> HIDE DEF q, r
        <3>2. q.fate = r.fate /\ \A k \in K \cap Key : Slot(q.store, k) = Slot(r.store, k)
            BY <1>2, <2>4, <3>1 DEF Error, Done, Logged
        <3> QED  BY <1>3, <3>2 DEF q, r
    <2> QED  BY <1>6, <2>5, <2>6
<1>7. CASE c.op = "del"
    <2>1. q.store = Removes(s, c.args) /\ r.store = Removes(t, c.args) /\ q.fate = r.fate
        BY <1>7, <1>d DEF Dispatched, execDel, Done
    <2> HIDE DEF q, r
    <2>2. ASSUME NEW k \in K \cap Key PROVE Slot(q.store, k) = Slot(r.store, k)
        <3>1. /\ Slot(q.store, k) = IF k \in ToSet(c.args) THEN <<Absent, NoTTL>> ELSE Slot(s, k)
              /\ Slot(r.store, k) = IF k \in ToSet(c.args) THEN <<Absent, NoTTL>> ELSE Slot(t, k)
            BY <2>1, RemovesSlots, StringsTidy
        <3> QED  BY <1>2, <3>1
    <2> QED  BY <1>3, <2>1, <2>2 DEF q, r
<1> QED  BY <1>4, <1>5, <1>6, <1>7 DEF Undoable, OneKeyOps, StringOps

\* Putting the undo log of such a command together never panics, and gives
\* commands that change no key but those of the command.
LEMMA StringLogs ==
    ASSUME NEW s, OfStrings(s), NEW c, IsCommand(c), Undoable(c)
    PROVE  GetUndoLogs(s, c) # Panic /\ IsLog(GetUndoLogs(s, c), MayChange(c))
<1>1. ASSUME IsLog(Panic, MayChange(c)) PROVE FALSE
    <2>1. Len(Panic) = 1 /\ Panic[1] = On("panic", NUL) /\ On("panic", NUL).op = "panic"
        BY DEF Panic, On, Command
    <2>2. IsCommand(On("panic", NUL))
        BY <1>1, <2>1 DEF IsLog, IsLine
    <2> QED  BY <2>1, <2>2 DEF IsCommand, StringOps, ListOps, PushOps, KeyOps, ExpireOps, RenameOps, HashOps,
                               SetOps, StoreOps, SortedSetOps
<1>2. IsStore(s)
    BY DEF OfStrings
<1>3. ASSUME NEW keys \in Seq(Key), ToSet(keys) \subseteq MayChange(c)
      PROVE  IsLog(rollbackGivenKeys(s, keys), MayChange(c))
    <2>1. \A i \in DOMAIN keys : keys[i] \in Key
        BY LenProperties, ElementOfSeq
    <2>2. ASSUME NEW i \in DOMAIN keys PROVE TypeOf(s, keys[i]) \notin {"list", "set", "zset"}
        <3>1. StringSlot(s, keys[i])
            BY <2>1 DEF OfStrings
        <3> QED  BY <3>1 DEF StringSlot, Slot, TypeOf, Absent
    <2>3. rollbackGivenKeys(s, keys) = FlattenSeq(LogsOfKeys(s, keys))
        BY <2>2 DEF rollbackGivenKeys, LogsOfKeys, LogOfKey
    <2> QED  BY <1>2, <1>3, <2>3, KeyLogs
<1>4. CASE c.op \in StringOps
    <2>1. CASE GetUndoLogs(s, c) # Panic
        BY <1>2, <1>4, <2>1, UndoStringLogs
    <2>2. CASE GetUndoLogs(s, c) = Panic
        <3>1. c.op # "get"
            <4>1. c.op = "get" => GetUndoLogs(s, c) = <<>>
                BY DEF GetUndoLogs, RenameOps, ExpireOps
            <4>2. <<>> # Panic
                BY DEF Panic
            <4> QED  BY <2>2, <4>1, <4>2
        <3>2. PICK keys \in Seq(Key) : ToSet(keys) \subseteq MayChange(c) /\ GetUndoLogs(s, c) = rollbackGivenKeys(s, keys)
            <4>1. CASE c.op \in {"mset", "msetnx"}
                <5>1. MayChange(c) = ToSet(prepareMSet(c)) /\ prepareMSet(c) \in Seq(Key)
                    BY <4>1, MSetKeys DEF MayChange, writeKeysOf, RenameOps
                <5>2. GetUndoLogs(s, c) = rollbackGivenKeys(s, prepareMSet(c))
                    BY <4>1 DEF GetUndoLogs, undoMSet, RenameOps, ExpireOps
                <5> QED  BY <5>1, <5>2
            <4>2. CASE c.op \notin {"mset", "msetnx"}
                <5>1. c.key \in Key /\ c.key \in MayChange(c)
                    BY <1>4, <3>1, <4>2, FirstKey DEF StringOps, RenameOps, IsCommand
                <5>2. <<c.key>> \in Seq(Key) /\ ToSet(<<c.key>>) \subseteq MayChange(c)
                    BY <5>1 DEF ToSet
                <5>3. GetUndoLogs(s, c) = rollbackFirstKey(s, c)
                    BY <1>4, <3>1, <4>2 DEF GetUndoLogs, Undoable, StringOps, RenameOps, ExpireOps
                <5> QED  BY <5>2, <5>3 DEF rollbackFirstKey
            <4> QED  BY <4>1, <4>2
        <3> QED  BY <1>1, <1>3, <2>2, <3>2
    <2> QED  BY <2>1, <2>2
<1>5. CASE c.op \in KeyOps
    <2>1. CASE GetUndoLogs(s, c) # Panic
        BY <1>2, <1>5, <2>1, UndoKeyLogs
    <2>2. CASE GetUndoLogs(s, c) = Panic
        <3>1. CASE c.op = "del"
            <4>1. MayChange(c) = ToSet(c.args) /\ c.args \in Seq(Key)
                BY <3>1 DEF MayChange, writeKeysOf, RenameOps, IsCommand
            <4>2. GetUndoLogs(s, c) = rollbackGivenKeys(s, c.args)
                BY <3>1 DEF GetUndoLogs, undoDel, RenameOps, ExpireOps
            <4> QED  BY <1>1, <1>3, <2>2, <4>1, <4>2
        <3>2. CASE c.op \in ExpireOps \cup {"persist"}
            <4>1. GetUndoLogs(s, c) = <<toTTLCmd(s, c.key)>>
                BY <3>2 DEF GetUndoLogs, undoExpire, ExpireOps, RenameOps
            <4>2. toTTLCmd(s, c.key).op \in {"persist", "pexpireat"}
                BY DEF toTTLCmd, On, PExpireAt, Command
            <4>3. Panic[1].op = "panic"
                BY DEF Panic, On, Command
            <4> QED  BY <2>2, <4>1, <4>2, <4>3
        <3> QED  BY <1>5, <3>1, <3>2 DEF Undoable, KeyOps, RenameOps, StringOps
    <2> QED  BY <2>1, <2>2
<1> QED  BY <1>4, <1>5 DEF Undoable, KeyOps

\* The undo log of a command, run on any store that has the keys of the command
\* as the command left them, brings them back to what they were before it.
LEMMA CommandUndone ==
    ASSUME NEW s, OfStrings(s), NEW c, IsCommand(c), Undoable(c), execWithLock(s, c).fate = "ok",
           NEW K, MayChange(c) \subseteq K,
           NEW u, OfStrings(u), Like(u, execWithLock(s, c).store, K)
    PROVE  LET v == RunAll(u, GetUndoLogs(s, c))
           IN  OfStrings(v) /\ Like(v, s, K)
<1> DEFINE r == execWithLock(s, c).store
           log == GetUndoLogs(s, c)
           v == RunAll(u, log)
           W == MayChange(c)
<1>1. IsStore(s) /\ IsStore(u) /\ OfStrings(r) /\ Within(s, r, W)
    <2>1. IsStore(s) /\ IsStore(u)
        BY DEF OfStrings
    <2> QED  BY <2>1, ProperCommand, EveryCommand DEF Proper, Ended
<1>2. Within(u, v, W)
    BY <1>1, StringLogs, RunAllWithin
<1>3. v.now = s.now
    <2>1. u.now = r.now
        BY DEF Like
    <2> HIDE DEF v, r
    <2> QED  BY <1>1, <1>2, <2>1 DEF Within
<1>4. \A k \in K \cap Key : Slot(u, k) = Slot(r, k)
    BY DEF Like
<1>5. ASSUME OfStrings(v), \A k \in W \cap Key : Slot(v, k) = Slot(s, k)
      PROVE  OfStrings(v) /\ Like(v, s, K)
    <2> HIDE DEF v, r
    <2>1. ASSUME NEW k \in K \cap Key PROVE Slot(v, k) = Slot(s, k)
        <3>1. CASE k \in W
            BY <1>5, <3>1
        <3>2. CASE k \notin W
            <4>1. Slot(v, k) = Slot(u, k) /\ Slot(r, k) = Slot(s, k)
                BY <1>1, <1>2, <3>2 DEF Within, Slot
            <4> QED  BY <1>4, <4>1
        <3> QED  BY <3>1, <3>2
    <2> QED  BY <1>3, <1>5, <2>1 DEF Like
<1>6. ASSUME NEW keys \in Seq(Key), W = ToSet(keys), log = rollbackGivenKeys(s, keys)
      PROVE  OfStrings(v) /\ Like(v, s, K)
    <2>1. /\ Tidy(v) /\ \A k \in ToSet(keys) : Slot(v, k) = Slot(s, k)
          /\ \A k \in Key \ ToSet(keys) : Slot(v, k) = Slot(u, k)
        <3>1. \A k \in ToSet(keys) : CanLog(s, k)
            <4>1. ToSet(keys) \subseteq Key
                BY <1>6, LenProperties, ElementOfSeq DEF ToSet
            <4> QED  BY <4>1, StringsTidy
        <3> QED  BY <1>6, <3>1, StringsTidy, KeysUndone
    <2> HIDE DEF v
    <2>2. ASSUME NEW k \in Key PROVE StringSlot(v, k)
        <3>1. Slot(v, k) = Slot(s, k) \/ Slot(v, k) = Slot(u, k)
            BY <2>1
        <3>2. StringSlot(s, k) /\ StringSlot(u, k)
            BY DEF OfStrings
        <3> QED  BY <3>1, <3>2 DEF StringSlot, Slot
    <2>3. OfStrings(v)
        BY <2>1, <2>2 DEF OfStrings, Tidy
    <2> QED  BY <1>5, <1>6, <2>1, <2>3 DEF v
<1>7. CASE c.op = "get"
    <2>1. log = <<>>
        BY <1>7 DEF GetUndoLogs, RenameOps, ExpireOps
    <2>2. v = u
        BY <2>1, RunLines
    <2>3. W = {}
        BY <1>7 DEF MayChange, writeKeysOf, RenameOps, ToSet
    <2> QED  BY <1>5, <2>2, <2>3
<1>8. CASE c.op \in {"mset", "msetnx"}
    <2>1. W = ToSet(prepareMSet(c)) /\ prepareMSet(c) \in Seq(Key)
        BY <1>8, MSetKeys DEF MayChange, writeKeysOf, RenameOps
    <2>2. log = rollbackGivenKeys(s, prepareMSet(c))
        BY <1>8 DEF GetUndoLogs, undoMSet, RenameOps, ExpireOps
    <2> QED  BY <1>6, <2>1, <2>2
<1>9. CASE c.op = "del"
    <2>1. W = ToSet(c.args) /\ c.args \in Seq(Key)
        BY <1>9 DEF MayChange, writeKeysOf, RenameOps, IsCommand
    <2>2. log = rollbackGivenKeys(s, c.args)
        BY <1>9 DEF GetUndoLogs, undoDel, RenameOps, ExpireOps
    <2> QED  BY <1>6, <2>1, <2>2
<1>10. CASE c.op \in StringOps \ {"get", "mset", "msetnx"}
    <2>1. c.key \in Key /\ W = {c.key}
        BY <1>10, FirstKey DEF StringOps, RenameOps, IsCommand
    <2> DEFINE keys == <<c.key>>
    <2>2. keys \in Seq(Key) /\ ToSet(keys) = {c.key}
        BY <2>1 DEF ToSet
    <2>3. log = rollbackGivenKeys(s, keys)
        BY <1>10 DEF GetUndoLogs, rollbackFirstKey, Undoable, StringOps, RenameOps, ExpireOps
    <2> HIDE DEF keys
    <2> QED  BY <1>6, <2>1, <2>2, <2>3
<1>11. CASE c.op \in ExpireOps \cup {"persist"}
    <2> DEFINE k == c.key
    <2>1. k \in Key /\ W = {k}
        BY <1>11, FirstKey DEF ExpireOps, RenameOps, IsCommand
    <2>2. v = execWithLock(u, toTTLCmd(s, k)).store
        <3>1. log = <<toTTLCmd(s, k)>>
            BY <1>11 DEF GetUndoLogs, undoExpire, ExpireOps, RenameOps
        <3> QED  BY <3>1, RunLines
    <2>3. r.data = s.data
        <3>1. c.n \in Int /\ s.now \in Nat /\ (c.op \in ExpireOps => c.n >= 0)
            BY <1>1, PartsOfStore DEF IsCommand
        <3>2. c.op \in ExpireOps => /\ c.n * Second \in Nat /\ s.now + c.n * Second \in Nat
                                    /\ c.n \in Nat /\ s.now + c.n \in Nat
            BY <3>1 DEF Second
        <3>3. Persist(s, k).data = s.data /\ \A n \in Nat : Expire(s, k, n).data = s.data
            BY <1>1, <2>1, ExpireStore, PersistStore
        <3>4. CASE c.op = "persist"
            <4>1. execWithLock(s, c) = execPersist(s, c)
                BY <3>4, Dispatch DEF Dispatched
            <4>2. r = s \/ r = Persist(s, k)
                BY <4>1 DEF execPersist, Done, Logged
            <4> HIDE DEF r, k
            <4> QED  BY <3>3, <4>2
        <3>5. CASE c.op \in ExpireOps
            <4>1. PICK n \in Nat : execWithLock(s, c) = expireAt(s, c, n)
                <5>1. execWithLock(s, c) \in {execExpire(s, c), execExpireAt(s, c), execPExpire(s, c),
                                              execPExpireAt(s, c)}
                    BY <3>5, Dispatch DEF Dispatched, ExpireOps
                <5> QED  BY <3>2, <3>5, <5>1 DEF execExpire, execExpireAt, execPExpire, execPExpireAt
            <4>2. r = s \/ r = Expire(s, k, n)
                BY <4>1 DEF expireAt, Done, Logged
            <4> HIDE DEF r, k
            <4> QED  BY <3>3, <4>2
        <3> QED  BY <1>11, <3>4, <3>5
    <2>4. u.data[k] = s.data[k]
        <3>1. Slot(u, k) = Slot(r, k)
            BY <1>4, <2>1
        <3> HIDE DEF r
        <3> QED  BY <2>3, <3>1 DEF Slot
    <2>5. StringSlot(u, k) /\ StringSlot(s, k)
        BY <2>1 DEF OfStrings
    <2>6. s.ttl[k] \in Nat
        <3>1. s.ttl \in [Key -> Nat]
            BY <1>1, PartsOfStore
        <3> QED  BY <2>1, <3>1
    <2> HIDE DEF k, v, r
    <2>7. CASE s.ttl[k] = NoTTL
        <3>1. v = IF ~Exists(u, k) \/ u.ttl[k] = NoTTL THEN u ELSE Persist(u, k)
            BY <1>1, <2>1, <2>2, <2>7, LoggedLines DEF toTTLCmd
        <3>2. OfStrings(v)
            BY <2>1, <3>1, StringResults
        <3>3. ~Exists(u, k) => u.ttl[k] = NoTTL
            BY <2>5 DEF StringSlot, Slot, Exists, TypeOf
        <3>4. Slot(Persist(u, k), k) = <<u.data[k], NoTTL>>
            BY <1>1, <2>1, SlotsOneKey
        <3>5. Slot(v, k) = <<u.data[k], NoTTL>>
            <4>1. CASE v = u /\ u.ttl[k] = NoTTL
                BY <4>1 DEF Slot
            <4>2. CASE v = Persist(u, k)
                BY <3>4, <4>2
            <4> QED  BY <3>1, <3>3, <4>1, <4>2
        <3>6. Slot(v, k) = Slot(s, k)
            BY <2>4, <2>7, <3>5 DEF Slot
        <3> QED  BY <1>5, <2>1, <3>2, <3>6 DEF v
    <2>8. CASE s.ttl[k] # NoTTL
        <3>1. Exists(u, k)
            BY <2>4, <2>5, <2>8 DEF StringSlot, Slot, Exists, TypeOf
        <3>2. v = Expire(u, k, s.ttl[k])
            <4>1. toTTLCmd(s, k) = PExpireAt(k, s.ttl[k])
                BY <2>8 DEF toTTLCmd
            <4>2. \A n : execWithLock(u, PExpireAt(k, n)).store = Expire(u, k, n)
                BY <1>1, <2>1, <3>1, LoggedLines
            <4> QED  BY <2>2, <4>1, <4>2
        <3>3. OfStrings(v)
            BY <2>1, <2>6, <3>1, <3>2, StringResults
        <3>4. Slot(v, k) = <<u.data[k], s.ttl[k]>>
            BY <1>1, <2>1, <2>6, <3>2, SlotsOneKey
        <3>5. Slot(v, k) = Slot(s, k)
            BY <2>4, <3>4 DEF Slot
        <3> QED  BY <1>5, <2>1, <3>3, <3>5 DEF v
    <2> QED  BY <2>7, <2>8
<1> QED  BY <1>7, <1>8, <1>9, <1>10, <1>11 DEF Undoable
-----------------------------------------------------------------------------
(* EXEC on stores of strings: what happens in between.                     *)

\* Sequences of commands whose undo logs put everything back.
StringQueue(cmds) ==
    /\ \E S : cmds \in Seq(S)
    /\ \A i \in 1..Len(cmds) : IsCommand(cmds[i]) /\ Undoable(cmds[i])

LEMMA AfterSteps ==
    ASSUME NEW s, NEW cmds, StringQueue(cmds)
    PROVE  /\ Len(cmds) \in Nat /\ OneByOne(s, cmds)
           /\ After(s, cmds, 0) = s /\ After(s, cmds, Len(cmds)) = RunAll(s, cmds)
<1>1. PICK S : cmds \in Seq(S)
    BY DEF StringQueue
<1> QED  BY <1>1, LenProperties, RunNext

\* Stores of strings stay stores of strings.
LEMMA AfterStrings ==
    ASSUME NEW s, OfStrings(s), NEW cmds, StringQueue(cmds), NEW i \in 0..Len(cmds)
    PROVE  OfStrings(After(s, cmds, i))
<1> DEFINE T == {j \in Nat : j \in 0..Len(cmds) => OfStrings(After(s, cmds, j))}
<1>1. Len(cmds) \in Nat
    BY AfterSteps
<1>2. 0 \in T
    BY AfterSteps
<1>3. ASSUME NEW j \in T PROVE j + 1 \in T
    <2>1. SUFFICES ASSUME j + 1 \in 1..Len(cmds) PROVE OfStrings(After(s, cmds, j + 1))
        BY <1>1
    <2>2. OfStrings(After(s, cmds, j))
        BY <1>1, <2>1
    <2>3. IsCommand(cmds[j+1]) /\ Undoable(cmds[j+1])
        BY <2>1 DEF StringQueue
    <2>4. After(s, cmds, j + 1) = execWithLock(After(s, cmds, j), cmds[j+1]).store
        <3>1. OneByOne(s, cmds)
            BY AfterSteps
        <3>2. After(s, cmds, j + 1) = execWithLock(After(s, cmds, (j + 1) - 1), cmds[j+1]).store
            BY <2>1, <3>1 DEF OneByOne
        <3>3. (j + 1) - 1 = j
            OBVIOUS
        <3> QED  BY <3>2, <3>3
    <2> QED  BY <2>2, <2>3, <2>4, ProperCommand DEF Proper
<1>4. T = Nat
    <2>1. T \in SUBSET Nat
        OBVIOUS
    <2> HIDE DEF T
    <2> QED  BY <1>2, <1>3, <2>1, NatSet
<1> QED  BY <1>1, <1>4

\* What the commands do to the keys they use depends on these keys alone.
LEMMA AfterLike ==
    ASSUME NEW s, OfStrings(s), NEW t, OfStrings(t), NEW cmds, StringQueue(cmds),
           NEW K, \A i \in 1..Len(cmds) : Uses(cmds[i]) \subseteq K, Like(s, t, K)
    PROVE  /\ \A i \in 0..Len(cmds) : Like(After(s, cmds, i), After(t, cmds, i), K)
           /\ \A i \in 1..Len(cmds) : Fails(After(s, cmds, i - 1), cmds[i]) <=> Fails(After(t, cmds, i - 1), cmds[i])
<1> DEFINE T == {j \in Nat : j \in 0..Len(cmds) => Like(After(s, cmds, j), After(t, cmds, j), K)}
<1>1. Len(cmds) \in Nat
    BY AfterSteps
<1>2. ASSUME NEW i \in 1..Len(cmds), Like(After(s, cmds, i - 1), After(t, cmds, i - 1), K)
      PROVE  /\ Like(After(s, cmds, i), After(t, cmds, i), K)
             /\ Fails(After(s, cmds, i - 1), cmds[i]) <=> Fails(After(t, cmds, i - 1), cmds[i])
    <2>1. i - 1 \in 0..Len(cmds)
        BY <1>1
    <2>2. OfStrings(After(s, cmds, i - 1)) /\ OfStrings(After(t, cmds, i - 1))
        BY <2>1, AfterStrings
    <2>3. IsCommand(cmds[i]) /\ Undoable(cmds[i]) /\ Uses(cmds[i]) \subseteq K
        BY DEF StringQueue
    <2>4. OneByOne(s, cmds) /\ OneByOne(t, cmds)
        BY AfterSteps
    <2>5. /\ After(s, cmds, i) = execWithLock(After(s, cmds, i - 1), cmds[i]).store
          /\ After(t, cmds, i) = execWithLock(After(t, cmds, i - 1), cmds[i]).store
        BY <2>4 DEF OneByOne
    <2> QED  BY <1>2, <2>2, <2>3, <2>5, LocalCommand DEF Fails
<1>3. 0 \in T
    BY AfterSteps
<1>4. ASSUME NEW j \in T PROVE j + 1 \in T
    <2>1. SUFFICES ASSUME j + 1 \in 1..Len(cmds)
                   PROVE  Like(After(s, cmds, j + 1), After(t, cmds, j + 1), K)
        BY <1>1
    <2>2. Like(After(s, cmds, j), After(t, cmds, j), K) /\ (j + 1) - 1 = j
        BY <1>1, <2>1
    <2> QED  BY <1>2, <2>1, <2>2
<1>5. T = Nat
    <2>1. T \in SUBSET Nat
        OBVIOUS
    <2> HIDE DEF T
    <2> QED  BY <1>3, <1>4, <2>1, NatSet
<1>6. \A i \in 0..Len(cmds) : Like(After(s, cmds, i), After(t, cmds, i), K)
    BY <1>1, <1>5
<1>7. ASSUME NEW i \in 1..Len(cmds)
      PROVE  Fails(After(s, cmds, i - 1), cmds[i]) <=> Fails(After(t, cmds, i - 1), cmds[i])
    <2>1. i - 1 \in 0..Len(cmds)
        BY <1>1
    <2> QED  BY <1>2, <1>6, <2>1
<1> QED  BY <1>6, <1>7

\* They change no other key than those they may change.
LEMMA AfterWithin ==
    ASSUME NEW s, OfStrings(s), NEW cmds, StringQueue(cmds),
           NEW K, \A i \in 1..Len(cmds) : MayChange(cmds[i]) \subseteq K
    PROVE  Within(s, RunAll(s, cmds), K)
<1>1. IsStore(s) /\ IsLog(cmds, K)
    BY AfterSteps DEF OfStrings, StringQueue, IsLog, IsLine
<1> QED  BY <1>1, RunAllWithin

-----------------------------------------------------------------------------
(* How far an EXEC is.                                                     *)

\* A log leads from stores that have the keys of K as s has them to stores that
\* have them as t has them, whatever has become of the others.
LeadsBack(log, s, t, K) ==
    \A u : OfStrings(u) /\ Like(u, s, K) => OfStrings(RunAll(u, log)) /\ Like(RunAll(u, log), t, K)

\* The first n commands succeeded, and their logs lead back one by one.
Undoes(cmds, logs, s, K, n) ==
    \A i \in 1..n : /\ ~Fails(After(s, cmds, i - 1), cmds[i])
                    /\ LeadsBack(logs[i], After(s, cmds, i), After(s, cmds, i - 1), K)

\* The keys of EXEC c in the store: as its first n commands made them out of
\* what they were when it took its locks.
Reached(c, n) == Like(store, After(before[c], queue[c], n), Touched(c))

\* While c executes: the commands before the one it is at, the undo logs that
\* are left, and the outcome that it answers.
Progress(c) ==
    /\ OfStrings(before[c]) /\ before[c].now = store.now
    /\ pc[c] = "exec" => Len(undo[c]) = step[c] - 1
    /\ pc[c] \in {"exec", "rollback"} =>
          /\ Len(undo[c]) \in 0..Len(queue[c]) /\ Reached(c, Len(undo[c]))
          /\ Undoes(queue[c], undo[c], before[c], Touched(c), Len(undo[c]))
    /\ pc[c] = "commit" \/ (pc[c] = "reply" /\ reply[c] = "ok") => Reached(c, Len(queue[c]))
    /\ pc[c] = "reply" => reply[c] \in {"ok", "changed", "aborted"}
    /\ pc[c] = "reply" /\ reply[c] # "ok" => Reached(c, 0)

AtomicInv ==
    /\ TxInv /\ OfStrings(store)
    /\ \A c \in Conn : /\ Len(queue[c]) <= MaxQueue
                       /\ Executing(c) => Progress(c)

\* The hypothesis of what follows.
AllUndoable == \A q \in Plain \cup Queued : Undoable(q)

LEMMA QueueStrings ==
    ASSUME AllUndoable, StateTypes, NEW c \in Conn
    PROVE  StringQueue(queue[c])
<1>1. /\ queue[c] \in Seq(Queued) /\ DOMAIN queue[c] = 1..Len(queue[c])
      /\ \A i \in DOMAIN queue[c] : queue[c][i] \in Queued /\ IsCommand(queue[c][i])
    BY QueueKeys
<1> QED  BY <1>1 DEF StringQueue, AllUndoable

\* What an EXEC touches is what its commands use, and what it watches.
LEMMA TouchedKeys ==
    ASSUME AllUndoable, StateTypes, NEW c \in Conn, Executing(c)
    PROVE  /\ StringQueue(queue[c]) /\ Touched(c) \subseteq Key
           /\ WriteLocks(c) = MayWrite(c) /\ MayWrite(c) \subseteq Touched(c)
           /\ \A i \in 1..Len(queue[c]) : /\ MayChange(queue[c][i]) \subseteq MayWrite(c)
                                          /\ Uses(queue[c][i]) \subseteq Touched(c)
<1>1. /\ queue[c] \in Seq(Queued) /\ DOMAIN queue[c] = 1..Len(queue[c])
      /\ \A i \in DOMAIN queue[c] : queue[c][i] \in Queued /\ IsCommand(queue[c][i])
    BY QueueKeys
<1>2. \A i \in DOMAIN queue[c] : Undoable(queue[c][i])
    BY <1>1 DEF AllUndoable
<1>3. StringQueue(queue[c])
    BY QueueStrings
<1>4. ASSUME NEW i \in DOMAIN queue[c]
      PROVE  /\ MayChange(queue[c][i]) = ToSet(writeKeysOf(queue[c][i]))
             /\ ToSet(writeKeysOf(queue[c][i])) \subseteq Key /\ readKeysOf(queue[c][i]) \subseteq Key
    <2> DEFINE q == queue[c][i]
               w == writeKeysOf(q)
    <2>1. IsCommand(q) /\ Undoable(q)
        BY <1>1, <1>2
    <2> HIDE DEF q
    <2>2. q.op \notin RenameOps
        BY <2>1 DEF Undoable, StringOps, ExpireOps, RenameOps
    <2>3. w \in Seq(Key) /\ readKeysOf(q) \subseteq Key
        BY <2>1, DeclaredKeys
    <2>4. MayChange(q) = ToSet(w)
        BY <2>2 DEF MayChange
    <2> HIDE DEF w
    <2>5. \A j \in DOMAIN w : w[j] \in Key
        BY <2>3, LenProperties, ElementOfSeq
    <2>6. ToSet(w) \subseteq Key
        BY <2>5 DEF ToSet
    <2> QED  BY <2>3, <2>4, <2>6 DEF w, q
<1>5. WriteLocks(c) = MayWrite(c)
    <2>1. WriteLocks(c) = UNION {ToSet(writeKeysOf(queue[c][i])) : i \in DOMAIN queue[c]}
        BY DEF WriteLocks
    <2>2. {ToSet(writeKeysOf(queue[c][i])) : i \in DOMAIN queue[c]} =
          {MayChange(queue[c][i]) : i \in DOMAIN queue[c]}
        BY <1>4
    <2> QED  BY <2>1, <2>2 DEF MayWrite
<1>6. ReadLocks(c) = readKeys(c) \cup watchingKeys(c)
    BY DEF ReadLocks
<1>7. Touched(c) \subseteq Key
    <2>1. MayWrite(c) \subseteq Key
        BY <1>4 DEF MayWrite
    <2>2. readKeys(c) \subseteq Key
        BY <1>4 DEF readKeys
    <2>3. watchingKeys(c) \subseteq Key
        BY DEF watchingKeys
    <2> QED  BY <1>5, <1>6, <2>1, <2>2, <2>3 DEF Touched
<1>8. ASSUME NEW i \in 1..Len(queue[c])
      PROVE  MayChange(queue[c][i]) \subseteq MayWrite(c) /\ Uses(queue[c][i]) \subseteq Touched(c)
    <2>1. i \in DOMAIN queue[c]
        BY <1>1
    <2>2. MayChange(queue[c][i]) \subseteq MayWrite(c)
        BY <2>1 DEF MayWrite
    <2>3. readKeysOf(queue[c][i]) \subseteq readKeys(c)
        BY <2>1 DEF readKeys
    <2> QED  BY <1>5, <1>6, <2>2, <2>3 DEF Uses, Touched
<1> QED  BY <1>3, <1>5, <1>7, <1>8 DEF Touched

-----------------------------------------------------------------------------
(* Steps of others.                                                        *)

\* What a goroutine changes of the store, and that nobody executing touches it.
LEMMA OwnKeys ==
    ASSUME AtomicInv, AllUndoable, NEW d \in Conn, runCommand(d) \/ execQueued(d) \/ rollback(d)
    PROVE  \A c \in Conn \ {d} : Executing(c) => Like(store', store, Touched(c))
<1>1. TxInv /\ StateTypes /\ IsStore(store) /\ Served(d)
    BY DEF AtomicInv, TxInv
<1>2. ASSUME NEW K, Within(store, store', K), NEW c \in Conn, K \cap Touched(c) = {}
      PROVE  Like(store', store, Touched(c))
    BY <1>2 DEF Within, Like, Slot
<1>3. CASE runCommand(d)
    <2>1. cmd[d] \in Plain /\ Within(store, store', MayChange(cmd[d]))
        BY <1>1, <1>3, CommandWithin
    <2>2. cmd[d].op \notin RenameOps
        BY <2>1 DEF AllUndoable, Undoable, StringOps, ExpireOps, RenameOps
    <2>3. MayChange(cmd[d]) = ToSet(writeKeysOf(cmd[d]))
        BY <2>2 DEF MayChange
    <2>4. \A c \in Conn \ {d} : MayChange(cmd[d]) \cap Touched(c) = {}
        BY <1>3, <2>3 DEF runCommand, RWLocks, Touched
    <2> QED  BY <1>2, <2>1, <2>4
<1>4. CASE execQueued(d) \/ rollback(d)
    <2>1. Executing(d)
        BY <1>4 DEF execQueued, rollback, Executing
    <2>2. Within(store, store', MayWrite(d))
        BY <1>1, <1>4, QueuedWithin, RollbackWithin
    <2>3. MayWrite(d) = WriteLocks(d)
        BY <1>1, <2>1, TouchedKeys
    <2>4. \A c \in Conn \ {d} : MayWrite(d) \cap Touched(c) = {}
        BY <1>1, <2>3 DEF TxInv, LocksHeld, Touched
    <2> QED  BY <1>2, <2>2, <2>4
<1> QED  BY <1>3, <1>4

\* An EXEC whose keys are left alone is where it was.
LEMMA ProgressStays ==
    ASSUME NEW c, Progress(c), Like(store', store, Touched(c)),
           pc'[c] = pc[c], queue'[c] = queue[c], watching'[c] = watching[c], step'[c] = step[c],
           undo'[c] = undo[c], reply'[c] = reply[c], before'[c] = before[c]
    PROVE  Progress(c)'
<1>1. Touched(c)' = Touched(c)
    BY DEF Touched, WriteLocks, ReadLocks, Executing, readKeys, watchingKeys
<1>2. store'.now = store.now
    BY DEF Like
<1>3. ASSUME NEW n, Reached(c, n) PROVE Reached(c, n)'
    BY <1>1, <1>3 DEF Reached, Like
<1> QED  BY <1>1, <1>2, <1>3 DEF Progress

LEMMA SingleKeeps ==
    ASSUME AtomicInv, TxInv', NEW c \in Conn, Single(c), OfStrings(store'),
           \A d \in Conn \ {c} : Executing(d) => Like(store', store, Touched(d)),
           Len(queue'[c]) <= MaxQueue, Executing(c)' => Progress(c)'
    PROVE  AtomicInv'
<1>1. ASSUME NEW d \in Conn \ {c}
      PROVE  Len(queue'[d]) <= MaxQueue /\ (Executing(d)' => Progress(d)')
    <2>1. /\ pc'[d] = pc[d] /\ queue'[d] = queue[d] /\ watching'[d] = watching[d] /\ step'[d] = step[d]
          /\ undo'[d] = undo[d] /\ before'[d] = before[d] /\ reply'[d] = reply[d]
        BY DEF Single, Alone
    <2>2. Executing(d)' <=> Executing(d)
        BY <2>1 DEF Executing
    <2>3. Executing(d) => Progress(d) /\ Like(store', store, Touched(d))
        BY DEF AtomicInv
    <2>4. Executing(d) => Progress(d)'
        BY <2>1, <2>3, ProgressStays
    <2> QED  BY <2>1, <2>2, <2>4 DEF AtomicInv
<1> QED  BY <1>1 DEF AtomicInv

\* The store stays as it is.
LEMMA SameIsLike ==
    ASSUME AtomicInv, store' = store
    PROVE  OfStrings(store') /\ \A d \in Conn : Like(store', store, Touched(d))
BY DEF AtomicInv, Like

-----------------------------------------------------------------------------
(* Steps of an EXEC.                                                       *)

\* Before EXEC, and a command alone.
LEMMA OutsideExec ==
    ASSUME AtomicInv, TxInv', AllUndoable, NEW c \in Conn,
           \/ \E q \in Plain : execNormalCommand(c, q)
           \/ \E k \in Watchable : Watch(c, k)
           \/ \E q \in Queued : EnqueueCmd(c, q)
           \/ \E q \in Unknown : refuseCmd(c, q)
           \/ StartMulti(c) \/ DiscardMulti(c) \/ execRefused(c) \/ return(c)
    PROVE  AtomicInv'
<1>1. StateTypes /\ Single(c)
    BY EveryStepSingle DEF AtomicInv, TxInv, Serve
<1>2. store' = store /\ ~Executing(c)'
    BY <1>1 DEF execNormalCommand, Watch, EnqueueCmd, refuseCmd, StartMulti, DiscardMulti, execRefused,
                return, StateTypes, Executing
<1>3. Len(queue'[c]) <= MaxQueue
    <2>1. Len(queue[c]) <= MaxQueue /\ Len(queue[c]) \in Nat /\ queue[c] \in Seq(Queued)
        BY <1>1, QueueKeys DEF AtomicInv
    <2>2. CASE \E q \in Queued : EnqueueCmd(c, q)
        <3>1. PICK q \in Queued : EnqueueCmd(c, q)
            BY <2>2
        <3>2. Len(Append(queue[c], q)) = Len(queue[c]) + 1
            BY <2>1, AppendProperties
        <3>3. queue'[c] = Append(queue[c], q) /\ Len(queue[c]) < MaxQueue
            BY <1>1, <3>1 DEF EnqueueCmd, StateTypes
        <3> QED  BY <2>1, <3>2, <3>3, BoundAssumption
    <2>3. CASE DiscardMulti(c) \/ execRefused(c) \/ return(c)
        <3>1. leaveMulti(c)
            BY <2>3 DEF DiscardMulti, execRefused, return
        <3>2. Len(queue'[c]) = 0
            BY <1>1, <3>1, LeaveTypes
        <3> QED  BY <3>2, BoundAssumption
    <2>4. CASE queue' = queue
        BY <2>1, <2>4
    <2> QED  BY <2>2, <2>3, <2>4
             DEF execNormalCommand, Watch, refuseCmd, StartMulti, connection
<1> QED  BY <1>1, <1>2, <1>3, SameIsLike, SingleKeeps

LEMMA CommandStep ==
    ASSUME AtomicInv, TxInv', AllUndoable, NEW c \in Conn, runCommand(c)
    PROVE  AtomicInv'
<1>1. TxInv /\ StateTypes /\ Single(c) /\ OfStrings(store)
    BY EveryStepSingle DEF AtomicInv, TxInv, Serve
<1>2. cmd[c] \in Plain
    BY <1>1, CommandWithin
<1>3. IsCommand(cmd[c]) /\ Undoable(cmd[c])
    BY <1>2, CommandAssumption DEF AllUndoable
<1>4. OfStrings(store')
    BY <1>1, <1>3, ProperCommand DEF Proper, runCommand
<1>5. ~Executing(c)' /\ Len(queue'[c]) <= MaxQueue
    BY <1>1 DEF runCommand, StateTypes, Executing, AtomicInv, connection
<1> QED  BY <1>1, <1>4, <1>5, OwnKeys, SingleKeeps

\* The versions are counted up, before a command or after a commit.
LEMMA VersionStep ==
    ASSUME AtomicInv, TxInv', NEW c \in Conn, GetVersion(c) \/ PutVersion(c)
    PROVE  AtomicInv'
<1>1. StateTypes /\ Single(c)
    BY EveryStepSingle DEF AtomicInv, TxInv, Serve
<1>2. /\ store' = store /\ pc' = pc /\ queue' = queue /\ watching' = watching /\ step' = step
      /\ undo' = undo /\ reply' = reply /\ before' = before
    BY DEF GetVersion, PutVersion, connection, exec
<1>3. Executing(c)' => Progress(c)'
    <2>1. Executing(c)' => Progress(c)
        BY <1>2 DEF AtomicInv, Executing
    <2>2. Like(store', store, Touched(c))
        BY <1>2, SameIsLike
    <2> QED  BY <1>2, <2>1, <2>2, ProgressStays
<1>4. Len(queue'[c]) <= MaxQueue
    BY <1>2 DEF AtomicInv
<1> QED  BY <1>1, <1>2, <1>3, <1>4, SameIsLike, SingleKeeps

\* EXEC takes its locks.
LEMMA TakeLocksStep ==
    ASSUME AtomicInv, TxInv', AllUndoable, NEW c \in Conn, ExecMulti(c)
    PROVE  AtomicInv'
<1>1. TxInv /\ StateTypes /\ Single(c) /\ OfStrings(store) /\ Served(c)
    BY EveryStepSingle DEF AtomicInv, TxInv
<1>2. /\ store' = store /\ before'[c] = store /\ step'[c] = 1 /\ undo' = undo /\ queue' = queue
      /\ pc'[c] = "exec" \/ (pc'[c] = "reply" /\ reply'[c] = "changed")
      /\ pc[c] = "idle"
    BY <1>1 DEF ExecMulti, StateTypes, Served, connection
<1>3. Len(undo[c]) = 0
    <2>1. ~Executing(c)
        BY <1>2 DEF Executing
    <2>2. Len(undo[c]) < 1 /\ Len(undo[c]) \in Nat
        BY <1>1, <2>1, UndoSequences DEF Served
    <2> QED  BY <2>2
<1>4. StringQueue(queue'[c])
    BY <1>1, <1>2, QueueStrings
<1>5. Reached(c, 0)'
    BY <1>2, <1>4, AfterSteps DEF Reached, Like
<1>6. Len(queue'[c]) \in Nat
    BY <1>4, AfterSteps
<1>7. Undoes(queue'[c], undo'[c], before'[c], Touched(c)', 0)
    BY DEF Undoes
<1>8. Progress(c)'
    BY <1>1, <1>2, <1>3, <1>5, <1>6, <1>7 DEF Progress
<1>9. Len(queue'[c]) <= MaxQueue
    BY <1>2 DEF AtomicInv
<1> QED  BY <1>1, <1>2, <1>8, <1>9, SameIsLike, SingleKeeps

\* Likeness is an equivalence.
LEMMA LikeEquivalence ==
    ASSUME NEW K
    PROVE  /\ \A s : Like(s, s, K)
           /\ \A s, t : Like(s, t, K) => Like(t, s, K)
           /\ \A s, t, u : Like(s, t, K) /\ Like(t, u, K) => Like(s, u, K)
BY DEF Like

\* An EXEC goes on.
LEMMA LocksStay ==
    ASSUME NEW c, Executing(c), Executing(c)', queue'[c] = queue[c], watching'[c] = watching[c]
    PROVE  Touched(c)' = Touched(c)
BY DEF Touched, WriteLocks, ReadLocks, readKeys, watchingKeys

\* The command that an EXEC is at succeeds, and its log leads back, or it fails
\* and changes nothing.  Putting the log together does not panic.
LEMMA QueuedStep ==
    ASSUME AtomicInv, TxInv', AllUndoable, NEW c \in Conn, execQueued(c)
    PROVE  AtomicInv'
<1> DEFINE q == queue[c][step[c]]
           log == GetUndoLogs(store, q)
           res == execWithLock(store, q)
           K == Touched(c)
           n == Len(undo[c])
           pre == After(before[c], queue[c], n)
           post == After(before[c], queue[c], n + 1)
<1>1. TxInv /\ StateTypes /\ Single(c) /\ OfStrings(store) /\ Served(c)
    BY EveryStepSingle DEF AtomicInv, TxInv, Serve
<1>2. /\ queue' = queue /\ watching' = watching /\ before' = before /\ pc[c] = "exec" /\ Executing(c)
      /\ step[c] \in DOMAIN queue[c]
    BY DEF execQueued, connection, Executing
<1>3. Progress(c) /\ Len(queue[c]) <= MaxQueue
    BY <1>2 DEF AtomicInv
<1>4. StringQueue(queue[c]) /\ MayChange(q) \subseteq K /\ Uses(q) \subseteq K /\ IsCommand(q) /\ Undoable(q)
    <2>1. step[c] \in 1..Len(queue[c])
        BY <1>1, <1>2, QueueKeys
    <2>2. StringQueue(queue[c]) /\ MayWrite(c) \subseteq K
        BY <1>1, <1>2, TouchedKeys
    <2>3. MayChange(q) \subseteq MayWrite(c) /\ Uses(q) \subseteq K
        BY <1>1, <1>2, <2>1, TouchedKeys
    <2> QED  BY <2>1, <2>2, <2>3 DEF StringQueue
<1>5. /\ OfStrings(before[c]) /\ n = step[c] - 1 /\ n \in 0..Len(queue[c]) /\ Like(store, pre, K)
      /\ Undoes(queue[c], undo[c], before[c], K, n) /\ before[c].now = store.now
    BY <1>2, <1>3 DEF Progress, Reached
<1>6. n \in Nat /\ n + 1 \in 1..Len(queue[c]) /\ n + 1 = step[c] /\ (n + 1) - 1 = n /\ Len(queue[c]) \in Nat
    BY <1>1, <1>2, <1>5, QueueKeys
<1>7. OfStrings(pre)
    BY <1>4, <1>5, AfterStrings
<1>8. post = execWithLock(pre, q).store
    <2>1. OneByOne(before[c], queue[c])
        BY <1>4, AfterSteps
    <2>2. post = execWithLock(After(before[c], queue[c], (n + 1) - 1), queue[c][n + 1]).store
        BY <1>6, <2>1 DEF OneByOne
    <2> QED  BY <1>6, <2>2
<1>9. log # Panic /\ IsLog(log, MayChange(q)) /\ Proper(store, res)
    BY <1>1, <1>4, StringLogs, ProperCommand
<1>10. res.fate = execWithLock(pre, q).fate /\ Like(res.store, post, K)
    BY <1>1, <1>4, <1>5, <1>7, <1>8, LocalCommand
<1>11. \/ /\ res.fate = "error" /\ pc'[c] = "rollback" /\ store' = store /\ UNCHANGED <<step, undo, reply>>
       \/ /\ res.fate = "ok" /\ store' = res.store /\ undo'[c] = Append(undo[c], log)
          /\ step'[c] = step[c] + 1 /\ UNCHANGED <<pc, reply>>
    BY <1>1, <1>9 DEF execQueued, Proper, StateTypes
<1> HIDE DEF q, log, res, pre, post
<1>12. OfStrings(store')
    BY <1>1, <1>9, <1>11 DEF Proper
<1>13. Executing(c)' /\ Touched(c)' = K
    BY <1>2, <1>11, LocksStay DEF Executing
<1>14. CASE res.fate = "error"
    <2>1. pc'[c] = "rollback" /\ store' = store /\ undo' = undo
        BY <1>11, <1>14
    <2>2. Like(store', After(before'[c], queue'[c], n), Touched(c)')
        BY <1>2, <1>5, <1>13, <2>1 DEF pre
    <2>3. Progress(c)'
        <3>1. Len(undo'[c]) = n /\ before'[c].now = store'.now
            BY <1>2, <1>5, <2>1
        <3>2. Undoes(queue'[c], undo'[c], before'[c], Touched(c)', n)
            BY <1>2, <1>5, <1>13, <2>1
        <3> HIDE DEF n, K
        <3>3. before'[c] = before[c] /\ queue'[c] = queue[c]
            BY <1>2
        <3> QED  BY <1>5, <2>1, <2>2, <3>1, <3>2, <3>3 DEF Progress, Reached
    <2> QED  BY <1>1, <1>2, <1>3, <1>12, <2>3, OwnKeys, SingleKeeps DEF Serve
<1>15. CASE res.fate = "ok"
    <2>1. pc'[c] = "exec" /\ store' = res.store /\ undo'[c] = Append(undo[c], log) /\ step'[c] = step[c] + 1
        BY <1>2, <1>11, <1>15
    <2>2. PICK S : undo[c] \in Seq(S)
        BY <1>1 DEF Served, IsUndo
    <2>3. /\ Len(undo'[c]) = n + 1 /\ undo'[c][n + 1] = log
          /\ \A i \in 1..n : undo'[c][i] = undo[c][i]
        <3>1. undo[c] \in Seq(S \cup {log}) /\ log \in S \cup {log}
            BY <2>2
        <3> QED  BY <2>1, <3>1, AppendProperties
    <2>4. store'.now = before[c].now
        <3>1. Within(store, res.store, MayChange(q))
            BY <1>1, <1>4, EveryCommand DEF Ended, OfStrings, res
        <3> QED  BY <1>5, <2>1, <3>1 DEF Within
    <2>5. Like(store', After(before'[c], queue'[c], n + 1), Touched(c)')
        BY <1>2, <1>10, <1>13, <2>1 DEF post
    <2>6. LeadsBack(log, post, pre, K)
        <3>1. SUFFICES ASSUME NEW u, OfStrings(u), Like(u, post, K)
                       PROVE  OfStrings(RunAll(u, log)) /\ Like(RunAll(u, log), pre, K)
            BY DEF LeadsBack
        <3>2. Like(u, res.store, K)
            BY <1>10, <3>1, LikeEquivalence
        <3>3. OfStrings(RunAll(u, log)) /\ Like(RunAll(u, log), store, K)
            BY <1>1, <1>4, <1>15, <3>1, <3>2, CommandUndone DEF log, res
        <3> QED  BY <1>5, <3>3, LikeEquivalence
    <2>7. Undoes(queue[c], undo'[c], before[c], K, n + 1)
        <3>1. ASSUME NEW i \in 1..n+1
              PROVE  /\ ~Fails(After(before[c], queue[c], i - 1), queue[c][i])
                     /\ LeadsBack(undo'[c][i], After(before[c], queue[c], i), After(before[c], queue[c], i - 1), K)
            <4>1. CASE i \in 1..n
                BY <1>5, <2>3, <4>1 DEF Undoes
            <4>2. CASE i = n + 1
                <5>1. ~Fails(pre, q)
                    BY <1>10, <1>15 DEF Fails
                <5>2. queue[c][i] = q /\ undo'[c][i] = log
                    BY <1>6, <2>3, <4>2 DEF q
                <5>3. After(before[c], queue[c], i) = post /\ After(before[c], queue[c], i - 1) = pre
                    BY <1>6, <4>2 DEF pre, post
                <5> QED  BY <2>6, <5>1, <5>2, <5>3
            <4> QED  BY <1>6, <4>1, <4>2
        <3> QED  BY <3>1 DEF Undoes
    <2>8. Progress(c)'
        <3>1. Len(undo'[c]) = step'[c] - 1 /\ n + 1 \in 0..Len(queue'[c]) /\ Len(undo'[c]) = n + 1
            BY <1>1, <1>2, <1>6, <2>1, <2>3
        <3>2. Undoes(queue'[c], undo'[c], before'[c], Touched(c)', n + 1)
            BY <1>2, <1>13, <2>7
        <3> HIDE DEF n, K
        <3>3. before'[c] = before[c] /\ queue'[c] = queue[c]
            BY <1>2
        <3> QED  BY <1>5, <2>1, <2>4, <2>5, <3>1, <3>2, <3>3 DEF Progress, Reached
    <2> QED  BY <1>1, <1>2, <1>3, <1>12, <2>8, OwnKeys, SingleKeeps DEF Serve
<1> QED  BY <1>9, <1>14, <1>15 DEF Proper

\* The last log that is left leads back to the store before its command.
LEMMA UndoStep ==
    ASSUME AtomicInv, TxInv', AllUndoable, NEW c \in Conn, rollback(c)
    PROVE  AtomicInv'
<1> DEFINE K == Touched(c)
           cmds == queue[c]
           s == before[c]
           n == Len(undo[c])
<1>1. TxInv /\ StateTypes /\ Single(c) /\ OfStrings(store) /\ Served(c)
    BY EveryStepSingle DEF AtomicInv, TxInv, Serve
<1>2. /\ queue' = queue /\ watching' = watching /\ before' = before /\ pc' = pc /\ reply' = reply
      /\ step' = step /\ pc[c] = "rollback" /\ Executing(c) /\ Executing(c)' /\ undo[c] # <<>>
    BY DEF rollback, connection, Executing
<1>3. Progress(c) /\ Len(queue[c]) <= MaxQueue
    BY <1>2 DEF AtomicInv
<1>4. /\ OfStrings(s) /\ s.now = store.now /\ n \in 0..Len(cmds)
      /\ Like(store, After(s, cmds, n), K) /\ Undoes(cmds, undo[c], s, K, n)
    BY <1>2, <1>3 DEF Progress, Reached
<1>5. store' = RunAll(store, undo[c][n])
    BY DEF rollback
<1>6. n \in Nat \ {0} /\ Len(undo'[c]) = n - 1 /\ undo'[c] = Front(undo[c]) /\ Within(store, store', MayWrite(c))
    BY <1>1, RollbackWithin
<1>7. n \in 1..n /\ n - 1 \in 0..Len(cmds) /\ Len(cmds) \in Nat
    BY <1>1, <1>4, <1>6, QueueKeys
<1>8. \A i \in 1..n-1 : undo'[c][i] = undo[c][i] /\ i \in 1..n
    <2>1. PICK S : undo[c] \in Seq(S)
        BY <1>1 DEF Served, IsUndo
    <2>2. undo'[c] = SubSeq(undo[c], 1, n - 1) /\ \A i \in 1..n : undo[c][i] \in S
        BY <1>6, <2>1, ElementOfSeq DEF Front
    <2> HIDE DEF n
    <2>3. PICK m \in Nat : m = n - 1
        BY <1>6
    <2>4. \A i \in 1..m : i \in 1..n /\ 1 + i - 1 = i
        BY <1>6, <2>3
    <2>5. m - 1 + 1 = m
        BY <2>3
    <2>6. \A i \in 1..m-1+1 : SubSeq(undo[c], 1, m)[i] = undo[c][1+i-1]
        BY <2>1, <2>2, <2>4, SubSeqProperties
    <2> QED  BY <2>2, <2>3, <2>4, <2>5, <2>6
<1>9. Touched(c)' = K
    BY <1>2, LocksStay
<1> HIDE DEF n, K
<1>10. OfStrings(store') /\ Like(store', After(s, cmds, n - 1), K)
    BY <1>1, <1>4, <1>5, <1>7 DEF Undoes, LeadsBack
<1>11. Undoes(cmds, undo'[c], s, K, n - 1)
    BY <1>4, <1>8 DEF Undoes
<1>12. store'.now = s.now
    BY <1>4, <1>6 DEF Within
<1>13. Progress(c)'
    <2>1. before'[c] = s /\ queue'[c] = cmds /\ pc'[c] = "rollback"
        BY <1>2
    <2> HIDE DEF s, cmds
    <2> QED  BY <1>4, <1>6, <1>7, <1>9, <1>10, <1>11, <1>12, <2>1 DEF Progress, Reached
<1> QED  BY <1>1, <1>2, <1>3, <1>10, <1>13, OwnKeys, SingleKeeps DEF Serve

\* EXEC answers with what it has reached.
LEMMA AnswerStep ==
    ASSUME AtomicInv, TxInv', NEW c \in Conn, commit(c) \/ committed(c) \/ rolledBack(c)
    PROVE  AtomicInv'
<1>1. StateTypes /\ Single(c) /\ Served(c) /\ Len(queue[c]) \in Nat /\ DOMAIN queue[c] = 1..Len(queue[c])
    BY EveryStepSingle, QueueKeys DEF AtomicInv, TxInv, Serve
<1>2. /\ queue' = queue /\ watching' = watching /\ before' = before /\ store' = store
      /\ step' = step /\ undo' = undo
    BY DEF commit, committed, rolledBack, connection, exec
<1>3. /\ commit(c) /\ pc[c] = "exec" /\ pc'[c] = "commit" /\ step[c] > Len(queue[c])
      \/ /\ committed(c) /\ pc[c] = "commit" /\ pc'[c] = "reply" /\ reply'[c] = "ok"
      \/ /\ rolledBack(c) /\ pc[c] = "rollback" /\ pc'[c] = "reply" /\ reply'[c] = "aborted" /\ undo[c] = <<>>
    BY <1>1 DEF commit, committed, rolledBack, StateTypes
<1>4. Executing(c) /\ Executing(c)'
    BY <1>3 DEF Executing
<1>5. Touched(c)' = Touched(c)
    BY <1>2, <1>4, LocksStay
<1>6. Progress(c) /\ Len(queue[c]) <= MaxQueue
    BY <1>4 DEF AtomicInv
<1>7. \A n : Reached(c, n) => Like(store', After(before'[c], queue'[c], n), Touched(c)')
    BY <1>2, <1>5 DEF Reached
<1>8. Progress(c)'
    <2>1. CASE commit(c)
        <3>1. Len(undo[c]) = Len(queue[c])
            <4>1. Len(undo[c]) = step[c] - 1 /\ step[c] \in 1..Len(queue[c])+1 /\ step[c] > Len(queue[c])
                BY <1>1, <1>6, <2>1 DEF Progress, Served, commit
            <4> QED  BY <1>1, <4>1
        <3>2. pc'[c] = "commit"
            BY <1>1, <2>1 DEF commit, StateTypes
        <3>3. Reached(c, Len(queue[c]))
            BY <1>6, <2>1, <3>1 DEF Progress, commit
        <3>4. Like(store', After(before'[c], queue'[c], Len(queue'[c])), Touched(c)')
            BY <1>2, <1>7, <3>3
        <3> QED  BY <1>2, <1>6, <3>2, <3>4 DEF Progress, Reached
    <2>2. CASE committed(c)
        <3>1. pc'[c] = "reply" /\ reply'[c] = "ok"
            BY <1>1, <2>2 DEF committed, StateTypes
        <3>2. Reached(c, Len(queue[c]))
            BY <1>6, <2>2 DEF Progress, committed
        <3>3. Like(store', After(before'[c], queue'[c], Len(queue'[c])), Touched(c)')
            BY <1>2, <1>7, <3>2
        <3> QED  BY <1>2, <1>6, <3>1, <3>3 DEF Progress, Reached
    <2>3. CASE rolledBack(c)
        <3>1. pc'[c] = "reply" /\ reply'[c] = "aborted"
            BY <1>1, <2>3 DEF rolledBack, StateTypes
        <3>2. Reached(c, 0)
            BY <1>6, <2>3 DEF Progress, rolledBack
        <3>3. Like(store', After(before'[c], queue'[c], 0), Touched(c)')
            BY <1>7, <3>2
        <3> QED  BY <1>2, <1>6, <3>1, <3>3 DEF Progress, Reached
    <2> QED  BY <2>1, <2>2, <2>3
<1> QED  BY <1>1, <1>2, <1>6, <1>8, SameIsLike, SingleKeeps

\* Every step keeps the invariant.
LEMMA AtomicInvStep ==
    ASSUME AtomicInv, AllUndoable, [Next]_vars
    PROVE  AtomicInv'
<1>1. TxInv'
    BY TxInvStep DEF AtomicInv
<1>2. CASE UNCHANGED vars
    <2>1. /\ store' = store /\ pc' = pc /\ queue' = queue /\ watching' = watching
          /\ step' = step /\ undo' = undo /\ reply' = reply /\ before' = before
        BY <1>2 DEF vars, connection, exec
    <2>2. ASSUME NEW c \in Conn
          PROVE  Len(queue'[c]) <= MaxQueue /\ (Executing(c)' => Progress(c)')
        <3>1. Like(store', store, Touched(c))
            BY <2>1, SameIsLike
        <3>2. Executing(c)' => Progress(c)
            BY <2>1 DEF AtomicInv, Executing
        <3> QED  BY <2>1, <3>1, <3>2, ProgressStays DEF AtomicInv
    <2> QED  BY <1>1, <2>1, <2>2 DEF AtomicInv
<1>3. CASE Next
    <2>1. PICK c \in Conn :
            \/ \E q \in Plain : execNormalCommand(c, q)
            \/ \E k \in Watchable : Watch(c, k)
            \/ \E q \in Queued : EnqueueCmd(c, q)
            \/ \E q \in Unknown : refuseCmd(c, q)
            \/ StartMulti(c) \/ DiscardMulti(c)
            \/ execRefused(c) \/ ExecMulti(c)
            \/ Serve(c)
        BY <1>3 DEF Next
    <2> QED  BY <1>1, <2>1, OutsideExec, TakeLocksStep, VersionStep, CommandStep, QueuedStep, AnswerStep,
                UndoStep DEF Serve
<1> QED  BY <1>2, <1>3

\* The empty store is one of strings.
LEMMA EmptyOfStrings == OfStrings(EmptyStore)
<1>1. \A k \in Key : Slot(EmptyStore, k) = <<Absent, NoTTL>>
    BY DEF EmptyStore, Slot
<1> QED  BY <1>1, EmptyIsStore DEF OfStrings, StringSlot

LEMMA AtomicInvInit == Init => AtomicInv
<1> SUFFICES ASSUME Init PROVE AtomicInv
    OBVIOUS
<1>1. \A c \in Conn : queue[c] = <<>> /\ ~Executing(c)
    BY DEF Init, Executing
<1>2. \A c \in Conn : Len(queue[c]) = 0
    BY <1>1
<1> QED  BY <1>1, <1>2, TxInvInit, EmptyOfStrings, BoundAssumption DEF AtomicInv, Init

\* All or nothing: when EXEC answers with results, the keys it touches are as its
\* whole queue makes them, and when it was rolled back, or found a watched key
\* changed, they are as it found them.  This holds for any connections, keys and
\* transactions of commands on strings, expiries and whole keys (Undoable); of
\* these none panics, see Progress.
THEOREM ExecAllOrNothing ==
    ASSUME \A q \in Plain \cup Queued : Undoable(q)
    PROVE  Spec => []AllOrNothing
<1>1. AllUndoable
    BY DEF AllUndoable
<1>2. AtomicInv => AllOrNothing
    <2>1. SUFFICES ASSUME AtomicInv, NEW c \in Conn, pc[c] = "reply", reply[c] # "panic"
                   PROVE  LET outcome == IF reply[c] = "ok" THEN RunAll(before[c], queue[c]) ELSE before[c]
                          IN  \A k \in Touched(c) : Agree(store, outcome, k)
        BY DEF AllOrNothing
    <2> DEFINE outcome == IF reply[c] = "ok" THEN RunAll(before[c], queue[c]) ELSE before[c]
    <2>2. StateTypes /\ Executing(c) /\ Progress(c) /\ IsStore(store)
        BY <2>1 DEF AtomicInv, TxInv, Executing
    <2>3. StringQueue(queue[c]) /\ Touched(c) \subseteq Key
        BY <1>1, <2>2, TouchedKeys
    <2>4. OfStrings(outcome) /\ Like(store, outcome, Touched(c))
        <3>1. /\ After(before[c], queue[c], 0) = before[c] /\ Len(queue[c]) \in Nat
              /\ After(before[c], queue[c], Len(queue[c])) = RunAll(before[c], queue[c])
            BY <2>3, AfterSteps
        <3>2. OfStrings(before[c])
            BY <2>2 DEF Progress
        <3>3. CASE reply[c] = "ok"
            <4>1. OfStrings(After(before[c], queue[c], Len(queue[c])))
                BY <2>3, <3>1, <3>2, AfterStrings
            <4> QED  BY <2>1, <2>2, <3>1, <3>3, <4>1 DEF Progress, Reached
        <3>4. CASE reply[c] # "ok"
            BY <2>1, <2>2, <3>1, <3>2, <3>4 DEF Progress, Reached
        <3> QED  BY <3>3, <3>4
    <2> HIDE DEF outcome
    <2>5. ASSUME NEW k \in Touched(c) PROVE Agree(store, outcome, k)
        <3>1. k \in Key /\ Slot(store, k) = Slot(outcome, k) /\ IsStore(outcome)
            BY <2>3, <2>4 DEF Like, OfStrings
        <3> QED  BY <2>2, <3>1, SlotsAgree
    <2> QED  BY <2>5 DEF outcome
<1>3. AtomicInv /\ [Next]_vars => AtomicInv'
    BY <1>1, AtomicInvStep
<1> QED  BY <1>2, <1>3, AtomicInvInit, PTL DEF Spec

\* Optimistic locking for transactions of such commands: an EXEC that goes on to
\* execute found every watched key as it was at its WATCH, if commands alone write
\* none of these keys and no version of theirs comes round to 2^32 - 1.
THEOREM WatchedUnchanged ==
    ASSUME \A q \in Plain \cup Queued : Undoable(q),
           \A q \in Plain : MayChange(q) \cap Watchable = {}
    PROVE  Spec /\ []VersionsLast => []WatchHolds
<1>1. AllUndoable
    BY DEF AllUndoable
<1>2. AtomicInv => NoPanic
    BY DEF AtomicInv, Progress, NoPanic, Executing
<1>3. AtomicInv /\ [Next]_vars => AtomicInv'
    BY <1>1, AtomicInvStep
<1>4. Spec => []NoPanic
    BY <1>2, <1>3, AtomicInvInit, PTL DEF Spec
<1> QED  BY <1>4, ExecAllOrNothing, WatchRestsOnAtomicity, PTL

-----------------------------------------------------------------------------
(* What other connections see.                                             *)

\* The slot of a key as c leaves others to see it.
Shown(c, k) == IF Unfinished(c) /\ k \in WriteLocks(c) THEN Slot(before[c], k) ELSE Slot(store, k)

\* Somebody else has it under way.
Hidden(c, k) == \E d \in Conn \ {c} : Unfinished(d) /\ k \in WriteLocks(d)

\* A key is seen as its one writer found it, or as it is.
LEMMA VisibleSlots ==
    ASSUME AtomicInv, NEW k \in Key
    PROVE  /\ \A c \in Conn : Unfinished(c) /\ k \in WriteLocks(c) => Slot(Visible, k) = Slot(before[c], k)
           /\ (\A c \in Conn : Unfinished(c) => k \notin WriteLocks(c)) => Slot(Visible, k) = Slot(store, k)
           /\ Visible.now = store.now
<1> DEFINE writer(j) == {c \in Conn : Unfinished(c) /\ j \in WriteLocks(c)}
           at(j) == IF writer(j) = {} THEN store ELSE before[CHOOSE c \in writer(j) : TRUE]
<1>1. /\ Visible = [data |-> [j \in Key |-> at(j).data[j]], ttl |-> [j \in Key |-> at(j).ttl[j]],
                    now |-> store.now]
    BY DEF Visible
<1>2. Slot(Visible, k) = Slot(at(k), k)
    <2> HIDE DEF at
    <2> QED  BY <1>1 DEF Slot
<1>3. Visible.now = store.now
    <2> HIDE DEF at
    <2> QED  BY <1>1
<1>4. ASSUME NEW c \in Conn, Unfinished(c), k \in WriteLocks(c) PROVE at(k) = before[c]
    <2>1. c \in writer(k)
        BY <1>4
    <2>2. \A d \in writer(k) : d = c
        BY <1>4 DEF AtomicInv, TxInv, LocksHeld
    <2> HIDE DEF writer
    <2> QED  BY <2>1, <2>2
<1>5. ASSUME \A c \in Conn : Unfinished(c) => k \notin WriteLocks(c) PROVE at(k) = store
    BY <1>5
<1> HIDE DEF at
<1> QED  BY <1>2, <1>3, <1>4, <1>5

\* It is a store of strings.
LEMMA VisibleStrings ==
    ASSUME AtomicInv
    PROVE  OfStrings(Visible)
<1>1. ASSUME NEW k \in Key PROVE \E t : OfStrings(t) /\ Slot(Visible, k) = Slot(t, k)
    <2>1. CASE \A c \in Conn : Unfinished(c) => k \notin WriteLocks(c)
        BY <2>1, VisibleSlots DEF AtomicInv
    <2>2. ASSUME NEW c \in Conn, Unfinished(c), k \in WriteLocks(c)
          PROVE  \E t : OfStrings(t) /\ Slot(Visible, k) = Slot(t, k)
        <3>1. Executing(c)
            BY <2>2 DEF WriteLocks
        <3>2. OfStrings(before[c])
            BY <3>1 DEF AtomicInv, Progress
        <3> QED  BY <2>2, <3>2, VisibleSlots
    <2> QED  BY <2>1, <2>2
<1> DEFINE d == Visible.data
           x == Visible.ttl
<1>2. Visible = [data |-> d, ttl |-> x, now |-> Visible.now]
    BY DEF Visible
<1>3. DOMAIN d = Key /\ DOMAIN x = Key /\ d = [k \in Key |-> d[k]] /\ x = [k \in Key |-> x[k]]
    BY DEF Visible
<1>4. ASSUME NEW k \in Key
      PROVE  /\ d[k] = <<d[k][1], d[k][2]>> /\ d[k][1] \in Types /\ x[k] \in Nat /\ StringSlot(Visible, k)
    <2>1. PICK t : OfStrings(t) /\ Slot(Visible, k) = Slot(t, k)
        BY <1>1
    <2>2. d[k] = t.data[k] /\ x[k] = t.ttl[k]
        BY <2>1 DEF Slot
    <2>3. t.data[k] = <<t.data[k][1], t.data[k][2]>> /\ t.data[k][1] \in Types
        BY <2>1, EntityOfStore, PartsOfStore DEF OfStrings
    <2>4. t.ttl[k] \in Nat
        <3>1. t.ttl \in [Key -> Nat]
            BY <2>1, PartsOfStore DEF OfStrings
        <3> QED  BY <3>1
    <2>5. StringSlot(Visible, k)
        <3>1. StringSlot(t, k)
            BY <2>1 DEF OfStrings
        <3> QED  BY <2>1, <2>2, <3>1 DEF StringSlot
    <2> HIDE DEF d, x
    <2>6. d[k] = <<d[k][1], d[k][2]>>
        BY <2>2, <2>3, Zenon
    <2> QED  BY <2>2, <2>3, <2>4, <2>5, <2>6 DEF x
<1>5. PICK D, X, n : D = d /\ X = x /\ n = Visible.now
    OBVIOUS
<1>6. IsStore([data |-> D, ttl |-> X, now |-> n])
    <2>1. D = [k \in Key |-> d[k]] /\ \A k \in Key : d[k] = <<D[k][1], D[k][2]>>
        BY <1>3, <1>4, <1>5
    <2> HIDE DEF d, x
    <2>2. D = [k \in Key |-> <<D[k][1], D[k][2]>>]
        BY <2>1
    <2>3. (\A k \in Key : D[k][1] \in Types) /\ X \in [Key -> Nat]
        BY <1>3, <1>4, <1>5
    <2>4. n \in Nat
        <3>1. IsStore(store) /\ Visible.now = store.now
            <4>1. IsStore(store)
                BY DEF AtomicInv, TxInv
            <4>2. Visible.now = store.now
                BY DEF Visible
            <4> QED  BY <4>1, <4>2
        <3>2. store.now \in Nat
            BY <3>1, PartsOfStore
        <3> QED  BY <1>5, <3>1, <3>2
    <2> QED  BY <2>2, <2>3, <2>4, StoreOfParts
<1>7. IsStore(Visible)
    BY <1>2, <1>5, <1>6
<1> HIDE DEF d, x
<1> QED  BY <1>4, <1>7 DEF OfStrings

\* What is visible, in this state and, of a step, in the next one.
VisibleSound ==
    /\ OfStrings(Visible) /\ Visible.now = store.now
    /\ \A c \in Conn, k \in Key :
          /\ Unfinished(c) /\ k \in WriteLocks(c) => Slot(Visible, k) = Slot(before[c], k)
          /\ ~Hidden(c, k) => Slot(Visible, k) = Shown(c, k)

LEMMA VisibleIs == AtomicInv => VisibleSound
<1> SUFFICES ASSUME AtomicInv PROVE VisibleSound
    OBVIOUS
<1>1. Visible.now = store.now
    BY DEF Visible
<1>2. ASSUME NEW c \in Conn, NEW k \in Key, ~Hidden(c, k)
      PROVE  Slot(Visible, k) = Shown(c, k)
    <2>1. CASE Unfinished(c) /\ k \in WriteLocks(c)
        BY <2>1, VisibleSlots DEF Shown
    <2>2. CASE ~(Unfinished(c) /\ k \in WriteLocks(c))
        <3>1. \A d \in Conn : Unfinished(d) => k \notin WriteLocks(d)
            BY <1>2, <2>2 DEF Hidden
        <3> QED  BY <2>2, <3>1, VisibleSlots DEF Shown
    <2> QED  BY <2>1, <2>2
<1> QED  BY <1>1, <1>2, VisibleStrings, VisibleSlots DEF VisibleSound

LEMMA VisibleNext == AtomicInv' => VisibleSound'
BY VisibleIs, PTL

\* A step of c makes V visible, if it leaves what it shows of the keys outside
\* W as it is, and shows those of W as V has them.
LEMMA VisibleStep ==
    ASSUME AtomicInv, AtomicInv', NEW c \in Conn, Single(c),
           NEW V, IsStore(V), V.now = store'.now,
           NEW W, \A k \in Key \ W : Slot(V, k) = Slot(Visible, k) /\ Shown(c, k)' = Shown(c, k),
           \A k \in Key \cap W : Slot(V, k) = Shown(c, k)' /\ ~Hidden(c, k)
    PROVE  Visible' = V
<1>1. VisibleSound /\ VisibleSound'
    BY VisibleIs, VisibleNext
<1>2. ASSUME NEW d \in Conn \ {c}
      PROVE  /\ Unfinished(d)' <=> Unfinished(d)
             /\ WriteLocks(d)' = WriteLocks(d) /\ before'[d] = before[d]
    BY DEF Single, Alone, Unfinished, WriteLocks, Executing
<1>3. ASSUME NEW k \in Key PROVE Slot(Visible', k) = Slot(V, k)
    <2>1. CASE Hidden(c, k)
        <3>1. PICK d \in Conn \ {c} : Unfinished(d) /\ k \in WriteLocks(d)
            BY <2>1 DEF Hidden
        <3>2. Slot(Visible, k) = Slot(before[d], k)
            BY <1>1, <3>1 DEF VisibleSound
        <3>3. Slot(Visible', k) = Slot(before'[d], k)
            BY <1>1, <1>2, <3>1 DEF VisibleSound
        <3>4. Slot(V, k) = Slot(Visible, k)
            BY <2>1
        <3> QED  BY <1>2, <3>2, <3>3, <3>4
    <2>2. CASE ~Hidden(c, k)
        <3>1. ~Hidden(c, k)'
            BY <1>2, <2>2 DEF Hidden
        <3>2. Slot(Visible, k) = Shown(c, k) /\ Slot(Visible', k) = Shown(c, k)'
            BY <1>1, <2>2, <3>1 DEF VisibleSound
        <3> QED  BY <3>2
    <2> QED  BY <2>1, <2>2
<1>4. IsStore(Visible') /\ Visible'.now = V.now
    BY <1>1 DEF VisibleSound, OfStrings
<1>5. Like(Visible', V, Key)
    BY <1>3, <1>4 DEF Like
<1> QED  BY <1>4, <1>5, SameStore

\* A step that shows every key as before leaves what is visible.
LEMMA VisibleSame ==
    ASSUME AtomicInv, AtomicInv', NEW c \in Conn, Single(c), store'.now = store.now,
           \A k \in Key : Shown(c, k)' = Shown(c, k)
    PROVE  Visible' = Visible
<1>1. IsStore(Visible) /\ Visible.now = store.now
    BY VisibleIs DEF VisibleSound, OfStrings
<1>2. PICK V, W : V = Visible /\ W = {}
    OBVIOUS
<1>3. \A k \in Key \ W : Slot(V, k) = Slot(Visible, k) /\ Shown(c, k)' = Shown(c, k)
    BY <1>2
<1>4. \A k \in Key \cap W : Slot(V, k) = Shown(c, k)' /\ ~Hidden(c, k)
    BY <1>2
<1>5. IsStore(V) /\ V.now = store'.now
    BY <1>1, <1>2
<1>6. Visible' = V
    BY <1>3, <1>4, <1>5, VisibleStep
<1> QED  BY <1>2, <1>6

\* Until it commits, an EXEC shows nothing of what it does, and when it has been
\* rolled back there is nothing to show.
LEMMA HiddenSteps ==
    ASSUME AtomicInv, AtomicInv', AllUndoable, NEW c \in Conn,
           \/ \E q \in Plain : execNormalCommand(c, q)
           \/ \E k \in Watchable : Watch(c, k)
           \/ \E q \in Queued : EnqueueCmd(c, q)
           \/ \E q \in Unknown : refuseCmd(c, q)
           \/ StartMulti(c) \/ DiscardMulti(c) \/ execRefused(c) \/ ExecMulti(c)
           \/ GetVersion(c) \/ PutVersion(c) \/ execQueued(c) \/ committed(c)
           \/ rollback(c) \/ rolledBack(c) \/ return(c)
    PROVE  Visible' = Visible
<1>1. TxInv /\ StateTypes /\ Single(c) /\ IsStore(store)
    BY EveryStepSingle DEF AtomicInv, TxInv, Serve
<1>2. ASSUME store'.now = store.now, \A k \in Key : Shown(c, k)' = Shown(c, k)
      PROVE  Visible' = Visible
    BY <1>1, <1>2, VisibleSame
<1>3. ASSUME store' = store, ~Unfinished(c), ~Unfinished(c)' PROVE Visible' = Visible
    BY <1>2, <1>3 DEF Shown
<1>4. CASE \/ \E q \in Plain : execNormalCommand(c, q)
           \/ \E k \in Watchable : Watch(c, k)
           \/ \E q \in Queued : EnqueueCmd(c, q)
           \/ \E q \in Unknown : refuseCmd(c, q)
           \/ StartMulti(c) \/ DiscardMulti(c) \/ execRefused(c)
    <2>1. store' = store /\ pc[c] = "idle" /\ pc'[c] \in {"idle", "bump"}
        BY <1>1, <1>4 DEF execNormalCommand, Watch, EnqueueCmd, refuseCmd, StartMulti, DiscardMulti,
                          execRefused, StateTypes
    <2> QED  BY <1>3, <2>1 DEF Unfinished
<1>5. CASE ExecMulti(c)
    <2>1. store' = store /\ before'[c] = store /\ pc[c] = "idle"
        BY <1>1, <1>5 DEF ExecMulti, TxInv, StateTypes
    <2>2. DOMAIN before = Conn
        BY <1>1 DEF StateTypes
    <2>3. \A k \in Key : Shown(c, k)' = Slot(store, k) /\ Shown(c, k) = Slot(store, k)
        BY <2>1 DEF Shown, Unfinished
    <2> QED  BY <1>2, <2>1, <2>3
<1>6. CASE GetVersion(c) \/ PutVersion(c)
    <2>1. store' = store /\ pc' = pc /\ queue' = queue /\ reply' = reply /\ before' = before
        BY <1>6 DEF GetVersion, PutVersion, connection, exec
    <2>2. \A k \in Key : Shown(c, k)' = Shown(c, k)
        BY <2>1 DEF Shown, Unfinished, WriteLocks, Executing
    <2> QED  BY <1>2, <2>1, <2>2
<1>7. CASE committed(c)
    <2>1. store' = store /\ pc[c] = "commit" /\ pc'[c] = "reply" /\ reply'[c] = "ok"
        BY <1>1, <1>7 DEF committed, StateTypes
    <2> QED  BY <1>3, <2>1 DEF Unfinished
<1>8. CASE execQueued(c) \/ rollback(c) \/ rolledBack(c)
    <2>1. queue' = queue /\ before' = before /\ Unfinished(c) /\ Executing(c)
        BY <1>8 DEF execQueued, rollback, rolledBack, connection, exec, Unfinished, Executing
    <2>2. pc'[c] \in {"exec", "rollback"} \/ (pc'[c] = "reply" /\ reply'[c] # "ok")
        <3>1. CASE execQueued(c)
            BY <1>1, <3>1 DEF execQueued, StateTypes
        <3>2. CASE rollback(c) \/ rolledBack(c)
            BY <1>1, <3>2 DEF rollback, rolledBack, StateTypes
        <3> QED  BY <1>8, <3>1, <3>2
    <2>3. Unfinished(c)' /\ WriteLocks(c)' = WriteLocks(c)
        BY <2>1, <2>2 DEF Unfinished, WriteLocks, Executing
    <2>4. Within(store, store', WriteLocks(c))
        <3>1. WriteLocks(c) = MayWrite(c)
            BY <1>1, <2>1, TouchedKeys
        <3>2. rolledBack(c) => store' = store
            BY DEF rolledBack
        <3> QED  BY <1>1, <1>8, <3>1, <3>2, QueuedWithin, RollbackWithin, WithinRefl
    <2>5. \A k \in Key : Shown(c, k)' = Shown(c, k)
        BY <2>1, <2>3, <2>4 DEF Shown, Within, Slot
    <2> QED  BY <1>2, <2>4, <2>5 DEF Within
<1>9. CASE return(c)
    <2>1. store' = store /\ pc[c] = "reply" /\ pc'[c] = "idle" /\ Executing(c)
        BY <1>1, <1>9 DEF return, StateTypes, Executing
    <2>2. ~Unfinished(c)'
        BY <2>1 DEF Unfinished
    <2>3. ASSUME NEW k \in Key PROVE Shown(c, k) = Slot(store, k)
        <3>1. CASE Unfinished(c) /\ k \in WriteLocks(c)
            <4>1. Reached(c, 0)
                BY <2>1, <3>1 DEF AtomicInv, Progress, Unfinished
            <4>2. After(before[c], queue[c], 0) = before[c]
                BY <1>1, <2>1, TouchedKeys, AfterSteps
            <4>3. k \in Touched(c)
                BY <3>1 DEF Touched
            <4> QED  BY <3>1, <4>1, <4>2, <4>3 DEF Reached, Like, Shown
        <3> QED  BY <3>1 DEF Shown
    <2>4. \A k \in Key : Shown(c, k)' = Slot(store, k)
        BY <2>1, <2>2 DEF Shown
    <2> QED  BY <1>2, <2>1, <2>3, <2>4
<1> QED  BY <1>4, <1>5, <1>6, <1>7, <1>8, <1>9

\* A command outside a transaction does to what is visible what it does to the
\* store: nobody has the keys it uses under way.
LEMMA CommandShown ==
    ASSUME AtomicInv, AtomicInv', AllUndoable, NEW c \in Conn, runCommand(c)
    PROVE  cmd[c] \in Plain /\ Visible' = execWithLock(Visible, cmd[c]).store
<1> DEFINE q == cmd[c]
<1>1. TxInv /\ StateTypes /\ Single(c) /\ OfStrings(store) /\ IsStore(store)
    BY EveryStepSingle DEF AtomicInv, TxInv, Serve
<1>2. cmd[c] \in Plain /\ Within(store, store', MayChange(q)) /\ IsCommand(q) /\ Undoable(q)
    BY <1>1, CommandWithin, CommandAssumption DEF AllUndoable
<1>3. pc[c] = "bump" /\ pc'[c] = "idle" /\ store' = execWithLock(store, q).store
    BY <1>1 DEF runCommand, StateTypes
<1>4. \A d \in Conn \ {c} : Uses(q) \cap WriteLocks(d) = {}
    <2>1. q.op \notin RenameOps
        BY <1>2 DEF Undoable, StringOps, ExpireOps, RenameOps
    <2>2. MayChange(q) = ToSet(writeKeysOf(q))
        BY <2>1 DEF MayChange
    <2> QED  BY <2>2 DEF runCommand, RWLocks, Uses
<1>5. \A k \in Key : Shown(c, k) = Slot(store, k) /\ Shown(c, k)' = Slot(store', k)
    BY <1>3 DEF Shown, Unfinished
<1>6. VisibleSound
    BY VisibleIs
<1>7. PICK v : v = Visible
    OBVIOUS
<1>8. PICK V : V = execWithLock(v, q).store
    OBVIOUS
<1>9. OfStrings(v) /\ v.now = store.now
    BY <1>6, <1>7 DEF VisibleSound
<1>10. ASSUME NEW k \in Key \cap Uses(q) PROVE ~Hidden(c, k) /\ Slot(v, k) = Slot(store, k)
    <2>1. ~Hidden(c, k)
        BY <1>4 DEF Hidden
    <2> QED  BY <1>5, <1>6, <1>7, <2>1 DEF VisibleSound
<1>11. Like(v, store, Uses(q))
    BY <1>9, <1>10 DEF Like
<1> HIDE DEF q
<1>12. Like(V, store', Uses(q))
    BY <1>1, <1>2, <1>3, <1>8, <1>9, <1>11, LocalCommand
<1>13. Within(v, V, MayChange(q))
    BY <1>2, <1>8, <1>9, EveryCommand DEF Ended, OfStrings
<1>14. IsStore(V) /\ V.now = store'.now
    BY <1>12, <1>13 DEF Within, Like
<1>15. \A k \in Key \ MayChange(q) : Slot(V, k) = Slot(Visible, k) /\ Shown(c, k)' = Shown(c, k)
    BY <1>2, <1>5, <1>7, <1>13 DEF Within, Slot
<1>16. ASSUME NEW k \in Key \cap MayChange(q) PROVE Slot(V, k) = Shown(c, k)' /\ ~Hidden(c, k)
    <2>1. k \in Key \cap Uses(q)
        BY DEF Uses
    <2> QED  BY <1>5, <1>10, <1>12, <2>1 DEF Like
<1>17. Visible' = V
    BY <1>1, <1>14, <1>15, <1>16, VisibleStep
<1> QED  BY <1>2, <1>7, <1>8, <1>17 DEF q

\* When EXEC commits, its queue runs as a whole on what is visible.
LEMMA TransactionShown ==
    ASSUME AtomicInv, AtomicInv', AllUndoable, NEW c \in Conn, commit(c)
    PROVE  /\ Visible' = RunAll(Visible, queue[c]) /\ AllSucceed(Visible, queue[c])
           /\ Len(queue[c]) \in 0..MaxQueue /\ queue[c] \in [1..Len(queue[c]) -> Queued]
<1> DEFINE K == Touched(c)
           cmds == queue[c]
           n == Len(cmds)
           s == before[c]
<1>1. TxInv /\ StateTypes /\ Single(c) /\ IsStore(store) /\ Served(c)
    BY EveryStepSingle DEF AtomicInv, TxInv, Serve
<1>2. pc[c] = "exec" /\ pc'[c] = "commit" /\ store' = store /\ step[c] > n /\ Executing(c) /\ Unfinished(c)
    BY <1>1 DEF commit, StateTypes, Executing, Unfinished
<1>3. Progress(c) /\ n <= MaxQueue
    BY <1>2 DEF AtomicInv
<1>4. /\ StringQueue(cmds) /\ K \subseteq Key /\ WriteLocks(c) = MayWrite(c) /\ MayWrite(c) \subseteq K
      /\ \A i \in 1..n : MayChange(cmds[i]) \subseteq MayWrite(c) /\ Uses(cmds[i]) \subseteq K
    BY <1>1, <1>2, TouchedKeys
<1>5. n \in Nat /\ cmds \in Seq(Queued) /\ DOMAIN cmds = 1..n
    BY <1>1, QueueKeys
<1>6. Len(undo[c]) = n
    <2>1. Len(undo[c]) = step[c] - 1 /\ step[c] \in 1..n+1
        BY <1>1, <1>2, <1>3 DEF Progress, Served
    <2> QED  BY <1>2, <1>5, <2>1
<1>7. /\ OfStrings(s) /\ s.now = store.now /\ Like(store, RunAll(s, cmds), K)
      /\ \A i \in 1..n : ~Fails(After(s, cmds, i - 1), cmds[i])
    <2>1. After(s, cmds, n) = RunAll(s, cmds)
        BY <1>4, AfterSteps
    <2>2. Reached(c, n) /\ Undoes(cmds, undo[c], s, K, n)
        BY <1>2, <1>3, <1>6 DEF Progress
    <2>3. OfStrings(s) /\ s.now = store.now
        BY <1>3 DEF Progress
    <2> QED  BY <2>1, <2>2, <2>3 DEF Reached, Undoes
<1>8. Within(s, RunAll(s, cmds), MayWrite(c))
    BY <1>4, <1>7, AfterWithin
<1>9. VisibleSound
    BY VisibleIs
<1>10. PICK v : v = Visible
    OBVIOUS
<1>11. PICK V : V = RunAll(v, cmds)
    OBVIOUS
<1>12. OfStrings(v) /\ v.now = store.now
    BY <1>9, <1>10 DEF VisibleSound
<1>13. \A k \in WriteLocks(c) : ~Hidden(c, k)
    BY <1>1 DEF Hidden, TxInv, LocksHeld
<1>14. Like(v, s, K)
    <2>1. ASSUME NEW k \in K \cap Key PROVE Slot(v, k) = Slot(s, k)
        <3>1. CASE k \in WriteLocks(c)
            BY <1>2, <1>9, <1>10, <3>1 DEF VisibleSound
        <3>2. CASE k \notin WriteLocks(c)
            <4>1. ~Hidden(c, k)
                BY <1>1, <3>2 DEF Hidden, TxInv, LocksHeld, Touched
            <4>2. Slot(v, k) = Slot(store, k)
                BY <1>9, <1>10, <3>2, <4>1 DEF VisibleSound, Shown
            <4>3. Slot(RunAll(s, cmds), k) = Slot(s, k)
                BY <1>4, <1>8, <3>2 DEF Within, Slot
            <4>4. Slot(store, k) = Slot(RunAll(s, cmds), k)
                BY <1>7 DEF Like
            <4> QED  BY <4>2, <4>3, <4>4
        <3> QED  BY <3>1, <3>2
    <2> QED  BY <1>7, <1>12, <2>1 DEF Like
<1> HIDE DEF n, s, K, cmds
<1>15. /\ After(v, cmds, n) = RunAll(v, cmds) /\ After(s, cmds, n) = RunAll(s, cmds)
    BY <1>4, AfterSteps DEF n
<1>16. /\ Like(V, RunAll(s, cmds), K)
       /\ \A i \in 1..n : ~Fails(After(v, cmds, i - 1), cmds[i])
    <2>1. n \in 0..n
        BY <1>5
    <2>2. /\ \A i \in 0..n : Like(After(v, cmds, i), After(s, cmds, i), K)
          /\ \A i \in 1..n : Fails(After(v, cmds, i - 1), cmds[i]) <=> Fails(After(s, cmds, i - 1), cmds[i])
        BY <1>4, <1>7, <1>12, <1>14, AfterLike DEF n
    <2> QED  BY <1>7, <1>11, <1>15, <2>1, <2>2
<1>17. AllSucceed(v, cmds)
    BY <1>5, <1>16 DEF AllSucceed, After
<1>18. Within(v, V, MayWrite(c))
    BY <1>4, <1>11, <1>12, AfterWithin DEF n
<1>19. WriteLocks(c)' = WriteLocks(c) /\ ~Unfinished(c)'
    BY <1>2 DEF commit, connection, WriteLocks, Executing, Unfinished
<1>20. \A k \in Key : Shown(c, k)' = Slot(store, k)
    BY <1>2, <1>19 DEF Shown
<1>21. \A k \in Key \ MayWrite(c) : Slot(V, k) = Slot(Visible, k) /\ Shown(c, k)' = Shown(c, k)
    BY <1>4, <1>10, <1>18, <1>20 DEF Within, Slot, Shown
<1>22. \A k \in Key \cap MayWrite(c) : Slot(V, k) = Shown(c, k)' /\ ~Hidden(c, k)
    BY <1>4, <1>7, <1>13, <1>16, <1>20 DEF Like
<1>23. Visible' = V
    <2>1. IsStore(V) /\ V.now = store'.now
        BY <1>2, <1>12, <1>18 DEF Within
    <2> QED  BY <1>1, <1>21, <1>22, <2>1, VisibleStep
<1>24. n \in 0..MaxQueue /\ cmds \in [1..n -> Queued]
    BY <1>3, <1>5, BoundAssumption, ElementOfSeq
<1> QED  BY <1>10, <1>11, <1>17, <1>23, <1>24 DEF n, cmds

\* Atomicity: whatever the connections interleave, each step of the server is,
\* in what is visible, one command, one whole transaction, or nothing.
THEOREM ExecIsAtomic ==
    ASSUME \A q \in Plain \cup Queued : Undoable(q)
    PROVE  Spec => ImplementsAtomicStore
<1>1. AllUndoable
    BY DEF AllUndoable
<1>2. Init => Visible = EmptyStore
    <2>1. SUFFICES ASSUME Init PROVE Visible = EmptyStore
        OBVIOUS
    <2>2. AtomicInv /\ store = EmptyStore
        BY <2>1, AtomicInvInit DEF Init
    <2>3. \A c \in Conn : ~Unfinished(c)
        BY <2>1 DEF Init, Unfinished
    <2>4. \A k \in Key : Slot(Visible, k) = Slot(store, k)
        BY <2>2, <2>3, VisibleSlots
    <2>5. Visible.now = store.now /\ IsStore(Visible) /\ IsStore(store)
        <3>1. Visible.now = store.now
            BY DEF Visible
        <3> QED  BY <2>2, <3>1, VisibleStrings, EmptyIsStore DEF OfStrings
    <2>6. Visible = store
        BY <2>4, <2>5, SameStore DEF Like
    <2> QED  BY <2>2, <2>6
<1>3. AtomicInv /\ AtomicInv' /\ [Next]_vars => [Atomic!Next]_Visible
    <2>1. SUFFICES ASSUME AtomicInv, AtomicInv', [Next]_vars, Visible' # Visible
                   PROVE  Atomic!Next
        OBVIOUS
    <2>2. Next
        <3>1. CASE UNCHANGED vars
            BY <2>1, <3>1 DEF vars, connection, exec, Visible, Unfinished, WriteLocks, Executing
        <3> QED  BY <2>1, <3>1
    <2>3. PICK c \in Conn :
            \/ \E q \in Plain : execNormalCommand(c, q)
            \/ \E k \in Watchable : Watch(c, k)
            \/ \E q \in Queued : EnqueueCmd(c, q)
            \/ \E q \in Unknown : refuseCmd(c, q)
            \/ StartMulti(c) \/ DiscardMulti(c)
            \/ execRefused(c) \/ ExecMulti(c)
            \/ Serve(c)
        BY <2>2 DEF Next
    <2>4. runCommand(c) \/ commit(c)
        <3>1. ASSUME ~runCommand(c), ~commit(c)
              PROVE  \/ \E q \in Plain : execNormalCommand(c, q)
                     \/ \E k \in Watchable : Watch(c, k)
                     \/ \E q \in Queued : EnqueueCmd(c, q)
                     \/ \E q \in Unknown : refuseCmd(c, q)
                     \/ StartMulti(c) \/ DiscardMulti(c) \/ execRefused(c) \/ ExecMulti(c)
                     \/ GetVersion(c) \/ PutVersion(c) \/ execQueued(c) \/ committed(c)
                     \/ rollback(c) \/ rolledBack(c) \/ return(c)
            BY <2>3, <3>1 DEF Serve
        <3> QED  BY <1>1, <2>1, <3>1, HiddenSteps
    <2>5. CASE runCommand(c)
        <3>1. cmd[c] \in Plain /\ Visible' = execWithLock(Visible, cmd[c]).store
            BY <1>1, <2>1, <2>5, CommandShown
        <3> QED  BY <2>1, <3>1 DEF Atomic!Next, Atomic!Run
    <2>6. CASE commit(c)
        <3>1. /\ Visible' = RunAll(Visible, queue[c]) /\ AllSucceed(Visible, queue[c])
              /\ Len(queue[c]) \in 0..MaxQueue /\ queue[c] \in [1..Len(queue[c]) -> Queued]
            BY <1>1, <2>1, <2>6, TransactionShown
        <3>2. CASE Len(queue[c]) = 0
            <4>1. queue[c] \in Seq(Queued)
                BY QueueKeys, <2>1 DEF AtomicInv, TxInv
            <4>2. queue[c] = <<>>
                BY <3>2, <4>1, EmptySeq
            <4>3. Visible' = Visible
                BY <3>1, <4>2, RunLines
            <4> QED  BY <2>1, <4>3
        <3>3. CASE Len(queue[c]) # 0
            <4>1. Len(queue[c]) \in 1..MaxQueue
                BY <3>1, <3>3, BoundAssumption
            <4> QED  BY <2>1, <3>1, <4>1 DEF Atomic!Next, Atomic!Transact
        <3> QED  BY <3>2, <3>3
    <2> QED  BY <2>4, <2>5, <2>6
<1>4. AtomicInv /\ [Next]_vars => AtomicInv'
    BY <1>1, AtomicInvStep
<1> QED  BY <1>2, <1>3, <1>4, AtomicInvInit, PTL DEF Spec, ImplementsAtomicStore, Atomic!Spec
=============================================================================
