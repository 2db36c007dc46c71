------------------------------ MODULE Database ------------------------------
(***************************************************************************)
(* What the executors of the embedded database are made of                 *)
(* (src/db/database: db.go, ttl.go, undo.go, exec_util.go;                 *)
(* src/db/aof/marshal.go): the operations on the data map and the expiry   *)
(* map, command lines, and the undo logs that put whole keys back.         *)
(*                                                                         *)
(* A store is the data map, the expiry map and the clock.  An entity is    *)
(* the Go type of its data with the value:                                 *)
(*   string   a sequence of pieces; a number is a piece of its own         *)
(*   list     a page of module QuickList                                   *)
(*   hash     a function from fields to cells                              *)
(*   set      a set of members                                             *)
(*   zset     a function from members to scores                            *)
(* A time is a number of milliseconds, and no time is 0.  No module that   *)
(* uses this one lets a key expire.                                        *)
(*                                                                         *)
(* A command line is an operation, its first key, a number (an expiry, a   *)
(* count, an index, an increment), a flag and its other arguments.         *)
(***************************************************************************)
EXTENDS Integers, SequencesExt

CONSTANTS Key, NUL   \* NUL: the byte a string is padded with

NoTTL == 0
Second == 1000

Absent == <<"none", <<>>>>
String(v) == <<"string", v>>
List(v) == <<"list", v>>
Hash(v) == <<"hash", v>>
HashSet(v) == <<"set", v>>
SortedSet(v) == <<"zset", v>>

EmptyStore == [data |-> [k \in Key |-> Absent], ttl |-> [k \in Key |-> NoTTL], now |-> 0]

-----------------------------------------------------------------------------
(* Entities and expiries.                                                  *)

TypeOf(s, k) == s.data[k][1]
ValueOf(s, k) == s.data[k][2]

Types == {"none", "string", "list", "hash", "set", "zset"}

IsStore(s) ==
    /\ s = [data |-> [k \in Key |-> <<TypeOf(s, k), ValueOf(s, k)>>], ttl |-> s.ttl, now |-> s.now]
    /\ \A k \in Key : TypeOf(s, k) \in Types
    /\ s.ttl \in [Key -> Nat] /\ s.now \in Nat

Exists(s, k) == TypeOf(s, k) # "none"
IsType(s, k, t) == TypeOf(s, k) = t

\* getAsString, getAsList, ...: the key holds data of another Go type.
WrongType(s, k, t) == TypeOf(s, k) \notin {t, "none"}

PutEntity(s, k, e) == [s EXCEPT !.data[k] = e]
Expire(s, k, time) == [s EXCEPT !.ttl[k] = time]
Persist(s, k) == [s EXCEPT !.ttl[k] = NoTTL]

RemoveKey(s, k) == Persist(PutEntity(s, k, Absent), k)

\* Two keys are the same in two stores.
Agree(s, t, k) ==
    TypeOf(s, k) = TypeOf(t, k) /\ ValueOf(s, k) = ValueOf(t, k) /\ s.ttl[k] = t.ttl[k]

-----------------------------------------------------------------------------
(* Command lines, and what an executor leaves behind: the store, how it    *)
(* ended, and the command lines it passed to addAof.  A panic is recovered *)
(* in DbServer.Exec.                                                       *)

Command(op, k, n, args) == [op |-> op, key |-> k, n |-> n, flag |-> "none", args |-> args]
On(op, k) == Command(op, k, 0, <<>>)
Set(k, v) == Command("set", k, 0, v)
Del(k) == Command("del", k, 0, <<k>>)
PExpireAt(k, time) == Command("pexpireat", k, time, <<>>)

Done(s) == [store |-> s, fate |-> "ok", aof |-> <<>>]
Error(s) == [store |-> s, fate |-> "error", aof |-> <<>>]
Panicked(s) == [store |-> s, fate |-> "panic", aof |-> <<>>]
Logged(s, lines) == [store |-> s, fate |-> "ok", aof |-> lines]

-----------------------------------------------------------------------------
(* Undo logs, computed from the store before the command.                  *)

Panic == <<On("panic", NUL)>>   \* a nil dereference while the log is put together

\* A hash cell holds a []byte or, after HSET, a string, which the type
\* assertion of every reader turns into the nil slice.
Bytes(v) == [go |-> "bytes", val |-> v]
Text(v) == [go |-> "string", val |-> v]
AsBytes(cell) == IF cell.go = "bytes" THEN cell.val ELSE <<>>

\* A hash is put back by one HMSET of all its fields.
hashToCmd(k, h) == Command("hmset", k, 0, [f \in DOMAIN h |-> AsBytes(h[f])])

\* EntityToCmd knows strings and hashes; for anything else it returns nil.
EntityToCmd(k, e) == IF e[1] = "string" THEN Set(k, e[2]) ELSE hashToCmd(k, e[2])

toTTLCmd(s, k) == IF s.ttl[k] = NoTTL THEN On("persist", k) ELSE PExpireAt(k, s.ttl[k])

\* Mutated: the expiry is not put back.
rollbackGivenKeys_NoTTL(s, keys) ==
    LET log(k) == IF ~Exists(s, k) THEN <<Del(k)>>
                  ELSE <<Del(k), EntityToCmd(k, s.data[k])>>
    IN  IF \E i \in DOMAIN keys : TypeOf(s, keys[i]) \in {"list", "set", "zset"} THEN Panic
        ELSE FlattenSeq([i \in DOMAIN keys |-> log(keys[i])])

rollbackGivenKeys(s, keys) ==
    LET log(k) == IF ~Exists(s, k) THEN <<Del(k)>>
                  ELSE <<Del(k), EntityToCmd(k, s.data[k]), toTTLCmd(s, k)>>
    IN  IF \E i \in DOMAIN keys : TypeOf(s, keys[i]) \in {"list", "set", "zset"} THEN Panic
        ELSE FlattenSeq([i \in DOMAIN keys |-> log(keys[i])])

rollbackFirstKey(s, c) == rollbackGivenKeys(s, <<c.key>>)
=============================================================================
