------------------------------- MODULE Hashes ------------------------------
(***************************************************************************)
(* The executors of hash commands that change the store, and their undo    *)
(* logs (src/db/database/hash.go, undo.go).  HSET stores a Go string where *)
(* every other command stores, and expects, a []byte.                      *)
(***************************************************************************)
EXTENDS Database

\* getOrInitDict, for a key without data of another type.
dictOf(s, k) == IF Exists(s, k) THEN ValueOf(s, k) ELSE <<>>

\* d.Put for every field of new.
putAll(s, k, new) ==
    LET d == dictOf(s, k) IN
    PutEntity(s, k, Hash([f \in DOMAIN d \cup DOMAIN new |->
                             IF f \in DOMAIN new THEN new[f] ELSE d[f]]))

put(s, k, f, cell) == putAll(s, k, [g \in {f} |-> cell])

\* HSET key field value
execHSet(s, c) ==
    IF WrongType(s, c.key, "hash") THEN Error(s)
    ELSE Logged(put(s, c.key, c.args[1], Text(Tail(c.args))), <<c>>)

execHSetNX(s, c) ==
    IF WrongType(s, c.key, "hash") THEN Error(s)
    ELSE IF c.args[1] \in DOMAIN dictOf(s, c.key) THEN Done(s)
    ELSE Logged(put(s, c.key, c.args[1], Bytes(Tail(c.args))), <<c>>)

\* HMSET: the arguments are a function from fields to values.
execHMSet(s, c) ==
    IF WrongType(s, c.key, "hash") THEN Error(s)
    ELSE Logged(putAll(s, c.key, [f \in DOMAIN c.args |-> Bytes(c.args[f])]), <<c>>)

\* HDEL key fields; the last field takes the key, and its expiry, with it.
execHDel(s, c) ==
    LET d == dictOf(s, c.key)
        left == DOMAIN d \ ToSet(c.args)
    IN  IF WrongType(s, c.key, "hash") THEN Error(s)
        ELSE IF ~Exists(s, c.key) THEN Done(s)
        ELSE [Done(IF left = {} THEN RemoveKey(s, c.key)
                   ELSE PutEntity(s, c.key, Hash([f \in left |-> d[f]]))) EXCEPT
                !.aof = IF left = DOMAIN d THEN <<>> ELSE <<c>>]

\* HINCRBY and HINCRBYFLOAT (of whole numbers) key field increment.  The type
\* assertion panics on what HSET has stored.
countField(s, c, whenNew) ==
    LET f == c.args[1]
        cell == dictOf(s, c.key)[f]
    IN  IF WrongType(s, c.key, "hash") THEN Error(s)
        ELSE IF f \notin DOMAIN dictOf(s, c.key)
          THEN Logged(put(s, c.key, f, Bytes(<<c.n>>)), whenNew)
        ELSE IF cell.go = "string" THEN Panicked(s)
        ELSE IF ~(Len(cell.val) = 1 /\ cell.val[1] \in Int) THEN Error(s)
        ELSE Logged(put(s, c.key, f, Bytes(<<cell.val[1] + c.n>>)), <<c>>)

execHIncrBy(s, c) == countField(s, c, <<c>>)
execHIncrByFloat(s, c) == countField(s, c, <<>>)   \* a new field is not logged

-----------------------------------------------------------------------------
(* Undo logs.  A field is put back by HSET, with the bytes of its cell.    *)

\* HSET k f v, where v is any string.
HSetCmd(k, f, v) == Command("hset", k, 0, <<f>> \o v)

rollbackHashFields(s, k, fields) ==
    LET d == dictOf(s, k) IN
    IF WrongType(s, k, "hash") THEN <<>>
    ELSE IF ~Exists(s, k) THEN <<Del(k)>>
    ELSE [i \in DOMAIN fields |-> IF fields[i] \in DOMAIN d
                                    THEN HSetCmd(k, fields[i], AsBytes(d[fields[i]]))
                                    ELSE Command("hdel", k, 0, <<fields[i]>>)]

undoHSet(s, c) == rollbackHashFields(s, c.key, <<c.args[1]>>)
undoHDel(s, c) == rollbackHashFields(s, c.key, c.args)
undoHMSet(s, c) == rollbackHashFields(s, c.key, SetToSeq(DOMAIN c.args))
undoHIncr(s, c) == rollbackHashFields(s, c.key, <<c.args[1]>>)
=============================================================================
