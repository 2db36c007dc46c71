------------------------------- MODULE Keys --------------------------------
(***************************************************************************)
(* The executors of key commands that change the store, and their undo     *)
(* logs (src/db/database/keys.go).                                         *)
(***************************************************************************)
EXTENDS Database

\* Removes: the keys that are there.
Removes(s, keys) ==
    LET gone == {k \in ToSet(keys) : Exists(s, k)}
    IN  [data |-> [k \in Key |-> IF k \in gone THEN Absent ELSE s.data[k]],
         ttl |-> [k \in Key |-> IF k \in gone THEN NoTTL ELSE s.ttl[k]],
         now |-> s.now]

execDel(s, c) ==
    [Done(Removes(s, c.args)) EXCEPT
        !.aof = IF \E i \in DOMAIN c.args : Exists(s, c.args[i]) THEN <<c>> ELSE <<>>]

undoDel(s, c) == rollbackGivenKeys(s, c.args)

\* The expiry of the source goes with the entity; without one, the destination
\* keeps its own.
moveTTL(s, t, src, dest) ==
    IF s.ttl[src] = NoTTL THEN t ELSE Expire(Persist(t, src), dest, s.ttl[src])

\* RENAME source destination
execRename(s, c) ==
    LET dest == c.args[1]
        moved == RemoveKey(PutEntity(s, dest, s.data[c.key]), c.key)
    IN  IF ~Exists(s, c.key) THEN Error(s)
        ELSE Logged(moveTTL(s, moved, c.key, dest), <<c>>)

execRenameNx(s, c) ==
    LET dest == c.args[1]
        moved == PutEntity(Removes(s, <<c.key, dest>>), dest, s.data[c.key])
    IN  IF Exists(s, dest) THEN Done(s)
        ELSE IF ~Exists(s, c.key) THEN Error(s)
        ELSE Logged(moveTTL(s, moved, c.key, dest), <<c>>)

undoRename(s, c) == rollbackGivenKeys(s, <<c.key, c.args[1]>>)

-----------------------------------------------------------------------------
(* Expiries.  Whatever the command says, the log has the absolute time.    *)

expireAt(s, c, time) ==
    IF ~Exists(s, c.key) THEN Done(s)
    ELSE Logged(Expire(s, c.key, time), <<PExpireAt(c.key, time)>>)

execExpire(s, c) == expireAt(s, c, s.now + c.n * Second)
execExpireAt(s, c) == expireAt(s, c, c.n * Second)
execPExpire(s, c) == expireAt(s, c, s.now + c.n)
execPExpireAt(s, c) == expireAt(s, c, c.n)

execPersist(s, c) ==
    IF ~Exists(s, c.key) \/ s.ttl[c.key] = NoTTL THEN Done(s)
    ELSE Logged(Persist(s, c.key), <<c>>)

undoExpire(s, c) == <<toTTLCmd(s, c.key)>>
=============================================================================
