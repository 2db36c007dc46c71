------------------------------ MODULE Commands ------------------------------
(***************************************************************************)
(* The command table of the embedded database (src/db/database: the init   *)
(* functions and db.go's execWithLock, transaction.go's GetUndoLogs): the  *)
(* executor of a command, the keys it declares to the locks, and its undo  *)
(* log.                                                                    *)
(***************************************************************************)
EXTENDS Strings, Lists, Keys, Hashes, Sets, SortedSets

StringOps == {"get", "set", "setnx", "setex", "psetex", "getex", "mset", "msetnx", "getset",
              "getdel", "incr", "incrby", "incrbyfloat", "decr", "decrby", "append", "setrange"}
PushOps == {"lpush", "rpush", "lpushx", "rpushx"}
ListOps == PushOps \cup {"lpop", "rpop", "lset", "lrem", "rpoplpush"}
ExpireOps == {"expire", "expireat", "pexpire", "pexpireat"}
RenameOps == {"rename", "renamenx"}
KeyOps == ExpireOps \cup RenameOps \cup {"del", "persist"}
HashOps == {"hset", "hsetnx", "hmset", "hdel", "hincrby", "hincrbyfloat"}
StoreOps == {"sinterstore", "sunionstore", "sdiffstore"}
SetOps == StoreOps \cup {"sadd", "srem", "spop"}
SortedSetOps == {"zadd", "zincrby", "zrem", "zpopmin", "zremrangebyscore", "zremrangebyrank"}

\* The command lines of which execWithLock finds the command in the table and
\* validateArity says yes: where a command names keys there are keys.  Times
\* before the first instant of the model are left out.
IsCommand(c) ==
    /\ c.op \in StringOps \cup ListOps \cup KeyOps \cup HashOps \cup SetOps \cup SortedSetOps
    /\ c.key \in Key /\ c.n \in Int
    /\ c.op \in ExpireOps => c.n >= 0
    /\ c.op \in RenameOps \cup StoreOps \cup {"del", "rpoplpush"} =>
          c.args \in Seq(Key) /\ c.args # <<>>
    /\ c.op \in RenameOps \cup {"rpoplpush"} => Len(c.args) = 1
    /\ c.op \in {"mset", "msetnx"} =>
          Len(c.args) \in Nat /\ ToSet(prepareMSet(c)) \subseteq Key

execWithLock(s, c) ==
    CASE c.op = "get"         -> execGet(s, c)
      [] c.op = "set"         -> execSet(s, c)
      [] c.op = "setnx"       -> execSetNX(s, c)
      [] c.op = "setex"       -> execSetEX(s, c)
      [] c.op = "psetex"      -> execPSetEX(s, c)
      [] c.op = "getex"       -> execGetEX(s, c)
      [] c.op = "mset"        -> execMSet(s, c)
      [] c.op = "msetnx"      -> execMSetNX(s, c)
      [] c.op = "getset"      -> execGetSet(s, c)
      [] c.op = "getdel"      -> execGetDel(s, c)
      [] c.op = "incr"        -> execIncr(s, c)
      [] c.op = "incrby"      -> execIncrBy(s, c)
      [] c.op = "incrbyfloat" -> execIncrByFloat(s, c)
      [] c.op = "decr"        -> execDecr(s, c)
      [] c.op = "decrby"      -> execDecrBy(s, c)
      [] c.op = "append"      -> execAppend(s, c)
      [] c.op = "setrange"    -> execSetRange(s, c)
      [] c.op = "lpush"       -> execLPush(s, c)
      [] c.op = "rpush"       -> execRPush(s, c)
      [] c.op = "lpushx"      -> execLPushX(s, c)
      [] c.op = "rpushx"      -> execRPushX(s, c)
      [] c.op = "lpop"        -> execLPop(s, c)
      [] c.op = "rpop"        -> execRPop(s, c)
      [] c.op = "lset"        -> execLSet(s, c)
      [] c.op = "lrem"        -> execLRem(s, c)
      [] c.op = "rpoplpush"   -> execRPopLPush(s, c)
      [] c.op = "del"         -> execDel(s, c)
      [] c.op = "rename"      -> execRename(s, c)
      [] c.op = "renamenx"    -> execRenameNx(s, c)
      [] c.op = "expire"      -> execExpire(s, c)
      [] c.op = "expireat"    -> execExpireAt(s, c)
      [] c.op = "pexpire"     -> execPExpire(s, c)
      [] c.op = "pexpireat"   -> execPExpireAt(s, c)
      [] c.op = "persist"     -> execPersist(s, c)
      [] c.op = "hset"        -> execHSet(s, c)
      [] c.op = "hsetnx"      -> execHSetNX(s, c)
      [] c.op = "hmset"       -> execHMSet(s, c)
      [] c.op = "hdel"        -> execHDel(s, c)
      [] c.op = "hincrby"     -> execHIncrBy(s, c)
      [] c.op = "hincrbyfloat" -> execHIncrByFloat(s, c)
      [] c.op = "sadd"        -> execSAdd(s, c)
      [] c.op = "srem"        -> execSRem(s, c)
      [] c.op = "spop"        -> execSPop(s, c)
      [] c.op = "sinterstore" -> execSInterStore(s, c)
      [] c.op = "sunionstore" -> execSUnionStore(s, c)
      [] c.op = "sdiffstore"  -> execSDiffStore(s, c)
      [] c.op = "zadd"        -> execZAdd(s, c)
      [] c.op = "zincrby"     -> execZIncrBy(s, c)
      [] c.op = "zrem"        -> execZRem(s, c)
      [] c.op = "zpopmin"     -> execZPopMin(s, c)
      [] c.op = "zremrangebyscore" -> execZRemRangeByScore(s, c)
      [] c.op = "zremrangebyrank"  -> execZRemRangeByRank(s, c)

\* The store after a sequence of commands.
RunAll(s, cmds) ==
    LET run[i \in 0..Len(cmds)] == IF i = 0 THEN s ELSE execWithLock(run[i-1], cmds[i]).store
    IN  run[Len(cmds)]

Fails(s, c) == execWithLock(s, c).fate # "ok"

\* Every command of the sequence succeeds.
AllSucceed(s, cmds) ==
    \A i \in DOMAIN cmds : ~Fails(RunAll(s, SubSeq(cmds, 1, i - 1)), cmds[i])

-----------------------------------------------------------------------------
(* prepare: the keys a command declares as written and as read.            *)

\* Mutated: the destination of a pop and push is not declared.
writeKeysOf_SourceOnly(c) ==
    CASE c.op = "get" -> <<>>
      [] c.op = "del" -> c.args
      [] c.op \in RenameOps -> c.args
      [] c.op \in {"mset", "msetnx"} -> prepareMSet(c)
      [] OTHER -> <<c.key>>

writeKeysOf(c) ==
    CASE c.op = "get" -> <<>>
      [] c.op = "del" -> c.args
      [] c.op \in RenameOps -> c.args
      [] c.op = "rpoplpush" -> <<c.key>> \o c.args
      [] c.op \in {"mset", "msetnx"} -> prepareMSet(c)
      [] OTHER -> <<c.key>>

readKeysOf(c) ==
    CASE c.op \in {"get", "rename", "renamenx"} -> {c.key}
      [] c.op \in StoreOps -> ToSet(c.args)
      [] OTHER -> {}

-----------------------------------------------------------------------------
(* The undo log of a command, computed from the store before it.           *)

GetUndoLogs(s, c) ==
    CASE c.op = "get" -> <<>>
      [] c.op \in {"mset", "msetnx"} -> undoMSet(s, c)
      [] c.op = "setrange" -> undoSetRange(s, c)
      [] c.op \in {"lpush", "lpushx"} -> undoLPush(c)
      [] c.op \in {"rpush", "rpushx"} -> undoRPush(c)
      [] c.op = "lpop" -> undoLPop(s, c)
      [] c.op = "rpop" -> undoRPop(s, c)
      [] c.op = "lset" -> undoLSet(s, c)
      [] c.op = "rpoplpush" -> undoRPopLPush(s, c)
      [] c.op = "del" -> undoDel(s, c)
      [] c.op \in RenameOps -> undoRename(s, c)
      [] c.op \in ExpireOps \cup {"persist"} -> undoExpire(s, c)
      [] c.op \in {"hset", "hsetnx"} -> undoHSet(s, c)
      [] c.op = "hmset" -> undoHMSet(s, c)
      [] c.op = "hdel" -> undoHDel(s, c)
      [] c.op \in {"hincrby", "hincrbyfloat"} -> undoHIncr(s, c)
      [] c.op \in {"sadd", "srem", "spop"} -> undoSetChange(s, c)
      [] c.op = "zadd" -> undoZAdd(s, c)
      [] c.op = "zrem" -> undoZRem(s, c)
      [] c.op = "zincrby" -> undoZIncr(s, c)
      [] OTHER -> rollbackFirstKey(s, c)
=============================================================================
