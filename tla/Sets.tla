-------------------------------- MODULE Sets -------------------------------
(***************************************************************************)
(* The executors of set commands that change the store, and their undo     *)
(* logs (src/db/database/set.go, undo.go; src/db/struct/set/set.go).       *)
(***************************************************************************)
EXTENDS Database, FiniteSets

\* Make ignores the members it is given.
Make(members) == {}

\* getOrInitSet, for a key without data of another type.
setOf(s, k) == IF Exists(s, k) THEN ValueOf(s, k) ELSE {}

execSAdd(s, c) ==
    IF WrongType(s, c.key, "set") THEN Error(s)
    ELSE Logged(PutEntity(s, c.key, HashSet(setOf(s, c.key) \cup ToSet(c.args))), <<c>>)

execSRem(s, c) ==
    LET old == setOf(s, c.key)
        left == old \ ToSet(c.args)
    IN  IF WrongType(s, c.key, "set") THEN Error(s)
        ELSE IF ~Exists(s, c.key) THEN Done(s)
        ELSE [Done(IF left = {} THEN RemoveKey(s, c.key)
                   ELSE PutEntity(s, c.key, HashSet(left))) EXCEPT
                !.aof = IF left = old THEN <<>> ELSE <<c>>]

\* SPOP key count: c.args is the order in which the iteration over the map
\* meets the members.  A set that is emptied stays.
execSPop(s, c) ==
    LET old == setOf(s, c.key)
        met == SelectSeq(c.args, LAMBDA m : m \in old)
        count == IF c.n > Cardinality(old) THEN Cardinality(old) ELSE c.n
    IN  IF WrongType(s, c.key, "set") THEN Error(s)
        ELSE IF ~Exists(s, c.key) THEN Done(s)
        ELSE IF c.n <= 0 THEN Error(s)
        ELSE [Done(PutEntity(s, c.key, HashSet(old \ ToSet(SubSeq(met, 1, count))))) EXCEPT
                !.aof = IF count > 0 THEN <<c>> ELSE <<>>]

-----------------------------------------------------------------------------
(* SINTERSTORE, SUNIONSTORE, SDIFFSTORE dest keys.  The result starts as   *)
(* Make of the first set and is then joined with the others.               *)

\* A set that is missing, or a result that is empty after the second set, ends
\* the loop: dest is removed and nothing is logged.  Only the keys before that
\* are looked at for their type.
execSInterStore(s, c) ==
    LET first == c.args[1]
        missing(i) == ~Exists(s, c.args[i])
        inter(i) == {m \in Make(setOf(s, first)) : \A j \in 2..i : m \in setOf(s, c.args[j])}
        ends == {i \in DOMAIN c.args : WrongType(s, c.args[i], "set") \/ missing(i)
                                       \/ (i > 1 /\ inter(i) = {})}
        at == CHOOSE i \in ends : \A j \in ends : i <= j
    IN  IF ends = {}
          THEN Logged(PutEntity(s, c.key, HashSet(Make(inter(Len(c.args))))), <<c>>)
        ELSE IF WrongType(s, c.args[at], "set") THEN Error(s)
        ELSE Done(RemoveKey(s, c.key))

execSUnionStore(s, c) ==
    LET present == {i \in DOMAIN c.args : Exists(s, c.args[i])}
        others == {i \in present : \E j \in present : j < i}   \* all but the first
    IN  IF \E i \in DOMAIN c.args : WrongType(s, c.args[i], "set") THEN Error(s)
        ELSE IF present = {} THEN Done(RemoveKey(s, c.key))
        ELSE Logged(PutEntity(RemoveKey(s, c.key), c.key,
                              HashSet(Make(UNION {setOf(s, c.args[i]) : i \in others}))),
                    <<c>>)

\* As SINTERSTORE, but only the first set has to be there.
execSDiffStore(s, c) ==
    LET first == c.args[1]
        diff(i) == {m \in Make(setOf(s, first)) : \A j \in 2..i : m \notin setOf(s, c.args[j])}
        ends == {i \in DOMAIN c.args : \/ WrongType(s, c.args[i], "set")
                                       \/ i = 1 /\ ~Exists(s, first)
                                       \/ i > 1 /\ Exists(s, c.args[i]) /\ diff(i) = {}}
        at == CHOOSE i \in ends : \A j \in ends : i <= j
    IN  IF ends = {}
          THEN Logged(PutEntity(s, c.key, HashSet(Make(diff(Len(c.args))))), <<c>>)
        ELSE IF WrongType(s, c.args[at], "set") THEN Error(s)
        ELSE Done(RemoveKey(s, c.key))

-----------------------------------------------------------------------------
rollbackSetMembers(s, k, members) ==
    IF WrongType(s, k, "set") THEN <<>>
    ELSE IF ~Exists(s, k) THEN <<Del(k)>>
    ELSE [i \in DOMAIN members |->
             Command(IF members[i] \in setOf(s, k) THEN "sadd" ELSE "srem", k, 0, <<members[i]>>)]

\* For SPOP the arguments are the count: it is taken for a member.
undoSetChange(s, c) ==
    rollbackSetMembers(s, c.key, IF c.op = "spop" THEN <<c.n>> ELSE c.args)
=============================================================================
