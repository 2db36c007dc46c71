------------------------------- MODULE Lists -------------------------------
(***************************************************************************)
(* The executors of list commands that change the store, and their undo    *)
(* logs (src/db/database/list.go).  The list that loses its last element   *)
(* takes the key, and its expiry, with it.                                 *)
(***************************************************************************)
EXTENDS Database, QuickList

\* getOrInitList, for a key without data of another type.
listOf(s, k) == IF Exists(s, k) THEN ValueOf(s, k) ELSE NewQuickList

PutOrRemove(s, k, l) == IF l.size = 0 THEN RemoveKey(s, k) ELSE PutEntity(s, k, List(l))

\* The values one after the other, each before the one before it.
pushHead(l, values) ==
    LET pushed[i \in 0..Len(values)] == IF i = 0 THEN l ELSE InsertFront(pushed[i-1], values[i])
    IN  pushed[Len(values)]

\* Add of every value; there is at least one.
pushTail(l, values) ==
    [page |-> (IF l.page = <<>> THEN <<values[1]>> ELSE l.page) \o values,
     size |-> l.size + Len(values)]

\* An index below the head, counted from the tail.
fromHead(l, n) == IF n < 0 THEN l.size + n ELSE n

-----------------------------------------------------------------------------
\* Mutated: the emptied list stays.
execLPop_KeepsEmpty(s, c) ==
    IF WrongType(s, c.key, "list") THEN Error(s)
    ELSE IF ~Exists(s, c.key) THEN Done(s)
    ELSE IF Broken(listOf(s, c.key)) THEN Panicked(s)
    ELSE Logged(PutEntity(s, c.key, List(RemoveHead(listOf(s, c.key)))), <<c>>)

execLPop(s, c) ==
    IF WrongType(s, c.key, "list") THEN Error(s)
    ELSE IF ~Exists(s, c.key) THEN Done(s)
    ELSE IF Broken(listOf(s, c.key)) THEN Panicked(s)
    ELSE Logged(PutOrRemove(s, c.key, RemoveHead(listOf(s, c.key))), <<c>>)

execRPop(s, c) ==
    IF WrongType(s, c.key, "list") THEN Error(s)
    ELSE IF ~Exists(s, c.key) THEN Done(s)
    ELSE IF Broken(listOf(s, c.key)) THEN
      Panicked(PutEntity(s, c.key, List([listOf(s, c.key) EXCEPT !.size = @ - 1])))
    ELSE Logged(PutOrRemove(s, c.key, RemoveLast(listOf(s, c.key))), <<c>>)

execLPush(s, c) ==
    IF WrongType(s, c.key, "list") THEN Error(s)
    ELSE IF Broken(listOf(s, c.key)) THEN Panicked(s)
    ELSE Logged(PutEntity(s, c.key, List(pushHead(listOf(s, c.key), c.args))), <<c>>)

execRPush(s, c) ==
    IF WrongType(s, c.key, "list") THEN Error(s)
    ELSE Logged(PutEntity(s, c.key, List(pushTail(listOf(s, c.key), c.args))), <<c>>)

\* LPUSHX and RPUSHX only push to a list that exists.
execLPushX(s, c) == IF ~Exists(s, c.key) THEN Done(s) ELSE execLPush(s, c)
execRPushX(s, c) == IF ~Exists(s, c.key) THEN Done(s) ELSE execRPush(s, c)

\* LREM key count value
execLRem(s, c) ==
    LET l == listOf(s, c.key)
        gone == placesOf(l, c.n, c.args[1])
    IN  IF WrongType(s, c.key, "list") THEN Error(s)
        ELSE IF ~Exists(s, c.key) THEN Done(s)
        ELSE IF Broken(l) THEN Panicked(s)
        ELSE [Done(PutOrRemove(s, c.key, Without(l, gone))) EXCEPT
                !.aof = IF gone = {} THEN <<>> ELSE <<c>>]

\* LSET key index value
execLSet(s, c) ==
    LET l == listOf(s, c.key)
        i == fromHead(l, c.n)
    IN  IF ~IsType(s, c.key, "list") \/ ~InRange(l, i) THEN Error(s)
        ELSE Logged(PutEntity(s, c.key, List(SetAt(l, i, c.args[1]))), <<c>>)

\* Mutated: the element is taken before the destination is looked at.
execRPopLPush_PopsFirst(s, c) ==
    LET dest == c.args[1]
        popped == PutEntity(s, c.key, List(RemoveLast(listOf(s, c.key))))
        pushed == PutEntity(popped, dest, List(InsertFront(listOf(popped, dest),
                                                  Last(listOf(s, c.key).page))))
    IN  IF WrongType(s, c.key, "list") THEN Error(s)
        ELSE IF ~Exists(s, c.key) THEN Done(s)
        ELSE IF WrongType(s, dest, "list") THEN Error(popped)
        ELSE Logged(PutOrRemove(pushed, c.key, listOf(pushed, c.key)), <<c>>)

\* RPOPLPUSH source dest; the two may be the same list.
execRPopLPush(s, c) ==
    LET dest == c.args[1]
        popped == PutEntity(s, c.key, List(RemoveLast(listOf(s, c.key))))
        pushed == PutEntity(popped, dest, List(InsertFront(listOf(popped, dest),
                                                  Last(listOf(s, c.key).page))))
    IN  IF WrongType(s, c.key, "list") THEN Error(s)
        ELSE IF ~Exists(s, c.key) THEN Done(s)
        ELSE IF WrongType(s, dest, "list") THEN Error(s)
        ELSE Logged(PutOrRemove(pushed, c.key, listOf(pushed, c.key)), <<c>>)

-----------------------------------------------------------------------------
(* Undo logs.                                                              *)

undoLPush(c) == [i \in DOMAIN c.args |-> On("lpop", c.key)]
undoRPush(c) == [i \in DOMAIN c.args |-> On("rpop", c.key)]

undoLPop(s, c) ==
    LET l == listOf(s, c.key) IN
    IF ~IsType(s, c.key, "list") THEN <<>>
    ELSE IF Broken(l) THEN Panic
    ELSE <<Command("lpush", c.key, 0, <<GetAt(l, 0)>>)>>

undoRPop(s, c) ==
    LET l == listOf(s, c.key) IN
    IF ~IsType(s, c.key, "list") THEN <<>>
    ELSE IF Broken(l) THEN Panic
    ELSE <<Command("rpush", c.key, 0, <<GetAt(l, l.size - 1)>>)>>

undoLSet(s, c) ==
    LET l == listOf(s, c.key)
        i == fromHead(l, c.n)
    IN  IF ~IsType(s, c.key, "list") \/ ~InRange(l, i) THEN <<>>
        ELSE <<Command("lset", c.key, c.n, <<GetAt(l, i)>>)>>

undoRPopLPush(s, c) ==
    LET pop == undoRPop(s, c) IN
    IF pop \in {<<>>, Panic} THEN pop ELSE pop \o <<On("lpop", c.args[1])>>
=============================================================================
