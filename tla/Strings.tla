------------------------------ MODULE Strings ------------------------------
(***************************************************************************)
(* The executors of string commands that change the store, and GET         *)
(* (src/db/database/string.go).  Replies are left out; the bit commands    *)
(* are not modelled.                                                       *)
(***************************************************************************)
EXTENDS Database

\* strconv.ParseInt: a number is a piece of its own.
IsInteger(v) == Len(v) = 1 /\ v[1] \in Int

execGet(s, c) == IF WrongType(s, c.key, "string") THEN Error(s) ELSE Done(s)

\* SET key value [NX | XX] [EX | PX]: c.flag is the policy, c.n the time to
\* live in milliseconds.
execSet(s, c) ==
    LET put == PutEntity(s, c.key, String(c.args))
        time == s.now + c.n
    IN  IF c.flag \notin {"none", "NX", "XX"} \/ c.n < 0 THEN Error(s)
        ELSE IF c.flag = (IF Exists(s, c.key) THEN "NX" ELSE "XX") THEN Done(s)
        ELSE IF c.n = NoTTL THEN Logged(Persist(put, c.key), <<c>>)
        ELSE Logged(Expire(put, c.key, time), <<Set(c.key, c.args), PExpireAt(c.key, time)>>)

\* Logged also when it does nothing.
execSetNX(s, c) ==
    Logged(IF Exists(s, c.key) THEN s ELSE PutEntity(s, c.key, String(c.args)), <<c>>)

\* Mutated: the time to live is not checked.
execSetEX_NoCheck(s, c) ==
    LET time == s.now + c.n * Second IN
    Logged(Expire(PutEntity(s, c.key, String(c.args)), c.key, time), <<c, PExpireAt(c.key, time)>>)

\* The time to live is in seconds.
execSetEX(s, c) ==
    LET time == s.now + c.n * Second IN
    IF c.n <= 0 THEN Error(s)
    ELSE Logged(Expire(PutEntity(s, c.key, String(c.args)), c.key, time),
                <<c, PExpireAt(c.key, time)>>)

\* Mutated: the log relies on the "setex" line alone.
execPSetEX_NoDeadline(s, c) ==
    LET time == s.now + c.n IN
    IF c.n <= 0 THEN Error(s)
    ELSE Logged(Expire(PutEntity(s, c.key, String(c.args)), c.key, time),
                <<Command("setex", c.key, c.n, c.args)>>)

\* In milliseconds, but logged as a "setex", whose unit is the second: the
\* PEXPIREAT line after it puts the time right.
execPSetEX(s, c) ==
    LET time == s.now + c.n IN
    IF c.n <= 0 THEN Error(s)
    ELSE Logged(Expire(PutEntity(s, c.key, String(c.args)), c.key, time),
                <<Command("setex", c.key, c.n, c.args), PExpireAt(c.key, time)>>)

\* GETEX key [PERSIST] [EX | PX]: the value is kept.  PERSIST takes effect before
\* the options after it are parsed.
execGetEX(s, c) ==
    LET time == s.now + c.n IN
    IF WrongType(s, c.key, "string") THEN Error(s)
    ELSE IF ~Exists(s, c.key) \/ (c.flag = "none" /\ c.n = NoTTL) THEN Done(s)
    ELSE IF c.n < 0 THEN Error(IF c.flag = "PERSIST" THEN Persist(s, c.key) ELSE s)
    ELSE IF c.n # NoTTL THEN Logged(Expire(s, c.key, time), <<PExpireAt(c.key, time)>>)
    ELSE Logged(Persist(s, c.key), <<On("persist", c.key)>>)

-----------------------------------------------------------------------------
(* MSET and MSETNX: the arguments alternate keys and values.               *)

prepareMSet(c) == [i \in 1..Len(c.args) \div 2 |-> c.args[2*i - 1]]

\* The last of two values for one key stays; expiries are kept.
putPairs(s, c) ==
    LET at(k) == {i \in DOMAIN prepareMSet(c) : prepareMSet(c)[i] = k}
    IN  [data |-> [k \in Key |-> IF at(k) = {} THEN s.data[k]
                                 ELSE String(<<c.args[2 * Max(at(k))]>>)],
         ttl |-> s.ttl, now |-> s.now]

execMSet(s, c) == IF Len(c.args) % 2 # 0 THEN Error(s) ELSE Logged(putPairs(s, c), <<c>>)

execMSetNX(s, c) ==
    IF Len(c.args) % 2 # 0 THEN Error(s)
    ELSE IF \E i \in DOMAIN prepareMSet(c) : Exists(s, prepareMSet(c)[i]) THEN Done(s)
    ELSE Logged(putPairs(s, c), <<c>>)

undoMSet(s, c) == rollbackGivenKeys(s, prepareMSet(c))

-----------------------------------------------------------------------------
execGetSet(s, c) ==
    IF WrongType(s, c.key, "string") THEN Error(s)
    ELSE Logged(Persist(PutEntity(s, c.key, String(c.args)), c.key), <<Set(c.key, c.args)>>)

execGetDel(s, c) ==
    IF WrongType(s, c.key, "string") THEN Error(s)
    ELSE IF ~Exists(s, c.key) THEN Done(s)
    ELSE Logged(RemoveKey(s, c.key), <<Del(c.key)>>)

\* The value of the key counted on by delta; the expiry is kept.
countBy(s, c, delta) ==
    LET old == ValueOf(s, c.key) IN
    IF WrongType(s, c.key, "string") THEN Error(s)
    ELSE IF ~Exists(s, c.key) THEN Logged(PutEntity(s, c.key, String(<<delta>>)), <<c>>)
    ELSE IF ~IsInteger(old) THEN Error(s)
    ELSE Logged(PutEntity(s, c.key, String(<<old[1] + delta>>)), <<c>>)

execIncr(s, c) == countBy(s, c, 1)
execIncrBy(s, c) == countBy(s, c, c.n)
execIncrByFloat(s, c) == countBy(s, c, c.n)   \* of whole numbers
execDecr(s, c) == countBy(s, c, -1)
execDecrBy(s, c) == countBy(s, c, -c.n)

\* A piece appended to a number, or a number to a piece, is not a number.
execAppend(s, c) ==
    IF WrongType(s, c.key, "string") THEN Error(s)
    ELSE Logged(PutEntity(s, c.key, String(ValueOf(s, c.key) \o c.args)), <<c>>)

\* The string with value written over it from the offset on, padded with zeros.
overwrite(old, offset, value) ==
    [i \in 1..(IF offset + Len(value) > Len(old) THEN offset + Len(value) ELSE Len(old)) |->
        IF i \in offset+1..offset+Len(value) THEN value[i - offset]
        ELSE IF i <= Len(old) THEN old[i] ELSE NUL]

\* A negative offset is an index out of range.
execSetRange(s, c) ==
    IF WrongType(s, c.key, "string") THEN Error(s)
    ELSE IF c.n < 0 THEN Panicked(s)
    ELSE Logged(PutEntity(s, c.key, String(overwrite(ValueOf(s, c.key), c.n, c.args))), <<c>>)

\* rollbackFirstKey keeps the array of the string in its SET line, and SETRANGE
\* then writes into that array: the line holds the new bytes.
undoSetRange(s, c) ==
    LET old == ValueOf(s, c.key) IN
    IF IsType(s, c.key, "string") /\ c.n >= 0
      THEN <<Del(c.key), Set(c.key, SubSeq(overwrite(old, c.n, c.args), 1, Len(old))),
             toTTLCmd(s, c.key)>>
      ELSE rollbackFirstKey(s, c)
=============================================================================
