---------------------------- MODULE SortedSets -----------------------------
(***************************************************************************)
(* The executors of sorted set commands that change the store, and their   *)
(* undo logs (src/db/database/zset.go, undo.go;                            *)
(* src/db/struct/sortedset/sortedset.go).  Members and scores are whole    *)
(* numbers.  No command removes a sorted set that it empties.              *)
(***************************************************************************)
EXTENDS Database, FiniteSets

\* getOrInitSortedSet, for a key without data of another type.
zsetOf(s, k) == IF Exists(s, k) THEN ValueOf(s, k) ELSE <<>>

\* The order of the skip list: by score, and by member for the same score.
Before(z, m, n) == z[m] < z[n] \/ (z[m] = z[n] /\ m < n)
RankOf(z, m) == Cardinality({n \in DOMAIN z : Before(z, n, m)})

add(z, m, score) == [n \in DOMAIN z \cup {m} |-> IF n = m THEN score ELSE z[n]]
only(z, members) == [m \in members |-> z[m]]

\* ZADD key score member (score member ...), not logged.  The last of two scores
\* for one member stays.
execZAdd(s, c) ==
    LET z == zsetOf(s, c.key)
        at(m) == {i \in 1..Len(c.args) \div 2 : c.args[2*i] = m}
        new == {c.args[2*i] : i \in 1..Len(c.args) \div 2}
    IN  IF Len(c.args) % 2 # 0 \/ WrongType(s, c.key, "zset") THEN Error(s)
        ELSE Done(PutEntity(s, c.key, SortedSet(
                [m \in DOMAIN z \cup new |-> IF m \in new THEN c.args[2 * Max(at(m)) - 1]
                                             ELSE z[m]])))

\* ZINCRBY key increment member: SortedSet.Get says of every member that it is
\* there; of one that is not, the nil element is dereferenced, when the sorted
\* set has been created.
execZIncrBy(s, c) ==
    LET z == zsetOf(s, c.key)
        m == c.args[1]
    IN  IF WrongType(s, c.key, "zset") THEN Error(s)
        ELSE IF m \notin DOMAIN z THEN Panicked(PutEntity(s, c.key, SortedSet(z)))
        ELSE Logged(PutEntity(s, c.key, SortedSet(add(z, m, z[m] + c.n))), <<c>>)

\* The members of gone leave the sorted set.
removeMembers(s, c, gone) ==
    LET z == zsetOf(s, c.key) IN
    [Done(PutEntity(s, c.key, SortedSet(only(z, DOMAIN z \ gone)))) EXCEPT
        !.aof = IF gone \cap DOMAIN z = {} THEN <<>> ELSE <<c>>]

execZRem(s, c) ==
    IF WrongType(s, c.key, "zset") THEN Error(s)
    ELSE IF ~Exists(s, c.key) THEN Done(s)
    ELSE removeMembers(s, c, ToSet(c.args))

\* ZPOPMIN key count; a count below one takes all.
execZPopMin(s, c) ==
    LET z == zsetOf(s, c.key) IN
    IF WrongType(s, c.key, "zset") THEN Error(s)
    ELSE IF ~Exists(s, c.key) THEN Done(s)
    ELSE removeMembers(s, c, {m \in DOMAIN z : c.n <= 0 \/ RankOf(z, m) < c.n})

\* ZREMRANGEBYSCORE key min max
execZRemRangeByScore(s, c) ==
    LET z == zsetOf(s, c.key) IN
    IF WrongType(s, c.key, "zset") THEN Error(s)
    ELSE IF ~Exists(s, c.key) THEN Done(s)
    ELSE removeMembers(s, c, {m \in DOMAIN z : c.args[1] <= z[m] /\ z[m] <= c.args[2]})

\* The ranks from start up to, and not including, stop; indices below zero
\* count from the end.
ranks(size, start, stop) ==
    LET beg == IF start < -size THEN 0 ELSE IF start < 0 THEN size + start ELSE start
        end == IF stop < -size THEN 0 ELSE IF stop < 0 THEN size + stop + 1
               ELSE IF stop < size THEN stop + 1 ELSE size
    IN  beg .. end - 1

\* ZREMRANGEBYRANK key start stop
execZRemRangeByRank(s, c) ==
    LET z == zsetOf(s, c.key)
        size == Cardinality(DOMAIN z)
    IN  IF WrongType(s, c.key, "zset") THEN Error(s)
        ELSE IF ~Exists(s, c.key) \/ c.args[1] >= size THEN Done(s)
        ELSE removeMembers(s, c, {m \in DOMAIN z : RankOf(z, m) \in
                                                   ranks(size, c.args[1], c.args[2])})

-----------------------------------------------------------------------------
\* Get never says that a field is missing: its nil element is dereferenced.
rollbackZSetFields(s, k, fields) ==
    LET z == zsetOf(s, k) IN
    IF WrongType(s, k, "zset") THEN <<>>
    ELSE IF ~Exists(s, k) THEN <<Del(k)>>
    ELSE IF \E i \in DOMAIN fields : fields[i] \notin DOMAIN z THEN Panic
    ELSE [i \in DOMAIN fields |-> Command("zadd", k, 0, <<z[fields[i]], fields[i]>>)]

undoZAdd(s, c) == rollbackZSetFields(s, c.key, [i \in 1..Len(c.args) \div 2 |-> c.args[2*i]])
undoZRem(s, c) == rollbackZSetFields(s, c.key, c.args)
undoZIncr(s, c) == rollbackZSetFields(s, c.key, <<c.args[1]>>)
=============================================================================
