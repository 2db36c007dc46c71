----------------------------- MODULE Executors -----------------------------
(***************************************************************************)
(* The store of the embedded database under any sequence of commands: what *)
(* transactions, the locks and the append-only file rely on in every       *)
(* executor of module Commands.  ExecMulti relies on the undo logs, and on *)
(* a failed command having done nothing; the locks on the declared keys;   *)
(* the file on the logged lines to say, whenever they are replayed, what   *)
(* the command did.                                                        *)
(***************************************************************************)
EXTENDS Commands

CONSTANTS
    Client,      \* the commands clients send
    MaxLen,      \* bound: length of a string, size of a list
    MaxNumber,   \* bound: numbers and scores
    Later        \* when the append-only file is replayed

ASSUME LaterAssumption == Later \in Nat \ {0}

\* Arguments are sequences, those of HMSET fields with values.  Clients push and
\* put something, and give times to come.
ASSUME ClientAssumption ==
    \A c \in Client : /\ IsCommand(c)
                      /\ IF c.op = "hmset" THEN DOMAIN c.args # {} /\ IsFiniteSet(DOMAIN c.args)
                         ELSE c.args \in Seq(ToSet(c.args))
                      /\ c.op \in PushOps => c.args # <<>>
                      /\ c.op \in ExpireOps => c.n > 0

VARIABLE store

-----------------------------------------------------------------------------
\* The bounds: values stay small, and no list is pushed to or popped from its
\* tail when its size is below zero.
Small(n) == -MaxNumber <= n /\ n <= MaxNumber
SmallPieces(v) == \A i \in DOMAIN v : v[i] \in Int => Small(v[i])
SmallEntity(s, k) ==
    LET val == ValueOf(s, k) IN
    /\ IsType(s, k, "string") => Len(val) <= MaxLen /\ SmallPieces(val)
    /\ IsType(s, k, "list") => val.size <= MaxLen
    /\ IsType(s, k, "hash") => \A f \in DOMAIN val : SmallPieces(val[f].val)
    /\ IsType(s, k, "zset") => \A m \in DOMAIN val : Small(val[m])

BrokenList(s, k) == IsType(s, k, "list") /\ Broken(ValueOf(s, k))

Room(c) ==
    /\ c.op \in {"rpush", "rpushx", "rpop"} => ~BrokenList(store, c.key)
    /\ c.op = "rpoplpush" => ~BrokenList(store, c.key) /\ ~BrokenList(store, c.args[1])
    /\ \A k \in Key : SmallEntity(execWithLock(store, c).store, k)

Sent == {c \in Client : Room(c)}

Init == store = EmptyStore

Next == \E c \in Client : Room(c) /\ store' = execWithLock(store, c).store

Spec == Init /\ [][Next]_store

-----------------------------------------------------------------------------
(* Properties.                                                             *)

\* The types of data and expiries; an expiry is a time to come.
TypeOK ==
    /\ IsStore(store)
    /\ \A k \in Key : store.ttl[k] = NoTTL \/ store.ttl[k] > store.now

\* An expiry belongs to a key, and a list or a hash goes when its last element
\* does (list.go:59, "assert: size > 0"), whichever of LPOP, RPOP, RPOPLPUSH,
\* LREM and HDEL takes it.  Sets and sorted sets may be left empty: SPOP, the set
\* operations and every command on sorted sets keep them.
NothingEmpty ==
    \A k \in Key : /\ ~Exists(store, k) => store.ttl[k] = NoTTL
                   /\ IsType(store, k, "list") => ValueOf(store, k).size # 0
                   /\ IsType(store, k, "hash") => DOMAIN ValueOf(store, k) # {}

\* A command changes no key but those it declares as written (db.go:113: the
\* locks are taken on what prepare returns), and the source of a RENAME, which
\* prepareRename declares as read.
WritesDeclared ==
    \A c \in Sent : \A k \in Key :
        \/ Agree(execWithLock(store, c).store, store, k)
        \/ k \in ToSet(writeKeysOf(c))
        \/ c.op \in RenameOps /\ k = c.key

\* ExecMulti drops the undo log of the command that fails (transaction.go: "do
\* not do rollback for failed commands"): a command that answers with an error
\* has changed nothing.  GETEX with PERSIST and a bad time is the exception.
FailedChangesNothing ==
    \A c \in Sent : LET r == execWithLock(store, c) IN
        r.fate = "error" /\ c.op # "getex" => /\ \A k \in Key : Agree(r.store, store, k)
                                              /\ r.aof = <<>>

\* What is not logged: ZADD, a new field of HINCRBYFLOAT, the removal of the
\* destination of a set operation and of an empty set by SREM, and which members
\* a SPOP took.
Unlogged(c, r) == \/ c.op \in {"zadd", "spop"}
                  \/ c.op \in StoreOps \cup {"hincrbyfloat", "srem"} /\ r.aof = <<>>

\* The lines a command passes to addAof do to the store before it, at any later
\* time, what the command did.
AofReplays ==
    \A c \in Sent : LET r == execWithLock(store, c) IN
        r.fate = "ok" /\ ~Unlogged(c, r) =>
            \A k \in Key : Agree(RunAll([store EXCEPT !.now = Later], r.aof), r.store, k)

FieldsOf(c) == IF c.op = "hmset" THEN DOMAIN c.args
               ELSE IF c.op = "hdel" THEN ToSet(c.args) ELSE {c.args[1]}
SizeAtMost(s, k, n) == IsType(s, k, "list") /\ ValueOf(s, k).size <= n
HasText(s, k) == /\ IsType(s, k, "hash")
                 /\ \E f \in DOMAIN ValueOf(s, k) : ValueOf(s, k)[f].go = "string"

\* What no undo log puts back:
NotUndone(s, c) ==
    \/ c.op = "spop"   \* the count is taken for the member
    \* the log holds the array that is overwritten
    \/ c.op = "setrange" /\ IsType(s, c.key, "string") /\ c.n < Len(ValueOf(s, c.key))
    \* HSET puts a field back as a string; HMSET puts strings back as nil
    \/ c.op \in HashOps /\ IsType(s, c.key, "hash") /\ FieldsOf(c) \cap DOMAIN ValueOf(s, c.key) # {}
    \/ \E k \in Key : HasText(s, k) /\ c.op \notin HashOps
    \* the element that is in the page twice
    \/ c.op \in {"lpush", "lpushx"} /\ SizeAtMost(s, c.key, 1)
    \/ c.op = "lpop" /\ SizeAtMost(s, c.key, 2)
    \/ c.op = "rpop" /\ SizeAtMost(s, c.key, 1)
    \/ c.op = "rpoplpush" /\ (SizeAtMost(s, c.key, 2) \/ SizeAtMost(s, c.args[1], 1))
    \* the last member takes the expiry with it, and a set may be empty
    \/ c.op \in {"sadd", "srem"} /\ IsType(s, c.key, "set")
         /\ ValueOf(s, c.key) \subseteq ToSet(c.args)

\* Run after the command, its undo log brings the store back (db.go: "returns
\* undo logs for the given command line"), but for what NotUndone names.
UndoRestores ==
    \A c \in Sent : LET r == execWithLock(store, c)
                        log == GetUndoLogs(store, c)
                    IN  r.fate = "ok" /\ log # Panic /\ ~NotUndone(store, c) =>
                            \A k \in Key : Agree(RunAll(r.store, log), store, k)
=============================================================================
