-------------------------- MODULE ExecutorsProofs --------------------------
(***************************************************************************)
(* The store under any sequence of commands, for any set of keys and any   *)
(* commands of clients: the theorems about module Executors.               *)
(***************************************************************************)
EXTENDS Executors, CommandsProofs

-----------------------------------------------------------------------------
(* The type of the store, the declared keys, and commands that fail.       *)

\* The store is one, and no time passes.
StoreInv == IsStore(store) /\ store.now = 0

\* Every command keeps it.
LEMMA StoreInvInductive == Spec => []StoreInv
<1>1. Init => StoreInv
    BY EmptyIsStore DEF Init, StoreInv, EmptyStore
<1>2. StoreInv /\ [Next]_store => StoreInv'
    <2>1. ASSUME StoreInv, NEW c \in Client, store' = execWithLock(store, c).store
          PROVE  StoreInv'
        <3>1. IsCommand(c)
            BY ClientAssumption
        <3>2. Within(store, execWithLock(store, c).store, MayChange(c))
            BY <2>1, <3>1, EveryCommand DEF Ended, StoreInv
        <3> QED  BY <2>1, <3>2 DEF Within, StoreInv
    <2> QED  BY <2>1 DEF Next, StoreInv
<1> QED  BY <1>1, <1>2, PTL DEF Spec

\* The types of data and expiries after any sequence of commands, whichever of
\* them fail or panic: no executor stores anything but an entity, and no expiry
\* in the past.
THEOREM StoreTypeOK == Spec => []TypeOK
<1>1. StoreInv => TypeOK
    <2>1. ASSUME StoreInv, NEW k \in Key
          PROVE  store.ttl[k] = NoTTL \/ store.ttl[k] > store.now
        <3>1. PICK time \in Nat : time = store.ttl[k]
            BY <2>1, PartsOfStore DEF StoreInv
        <3>2. time = 0 \/ time > 0
            OBVIOUS
        <3>3. store.now = 0
            BY <2>1 DEF StoreInv
        <3> QED  BY <3>1, <3>2, <3>3 DEF NoTTL
    <2> QED  BY <2>1 DEF StoreInv, TypeOK
<1> QED  BY <1>1, StoreInvInductive, PTL

\* No command changes a key that its prepare function does not declare as
\* written, but for the source of a RENAME, whatever the store holds: the locks
\* db.go takes cover every write.
THEOREM WritesAlwaysDeclared == Spec => []WritesDeclared
<1>1. StoreInv => WritesDeclared
    <2>1. ASSUME StoreInv, NEW c \in Sent, NEW k \in Key
          PROVE  \/ Agree(execWithLock(store, c).store, store, k)
                 \/ k \in ToSet(writeKeysOf(c))
                 \/ c.op \in RenameOps /\ k = c.key
        <3>1. IsCommand(c)
            BY ClientAssumption DEF Sent
        <3>2. Within(store, execWithLock(store, c).store, MayChange(c))
            BY <2>1, <3>1, EveryCommand DEF Ended, StoreInv
        <3>3. CASE k \in MayChange(c)
            BY <3>3 DEF MayChange
        <3>4. CASE k \notin MayChange(c)
            BY <3>2, <3>4 DEF Within, Agree, TypeOf, ValueOf
        <3> QED  BY <3>3, <3>4
    <2> QED  BY <2>1 DEF WritesDeclared
<1> QED  BY <1>1, StoreInvInductive, PTL

\* A command that answers with an error has changed nothing and logged nothing,
\* but for GETEX: ExecMulti may drop the undo log of the command that fails.
THEOREM FailedAlwaysChangesNothing == Spec => []FailedChangesNothing
<1>1. StoreInv => FailedChangesNothing
    <2>1. ASSUME StoreInv, NEW c \in Sent,
                 execWithLock(store, c).fate = "error", c.op # "getex"
          PROVE  /\ \A k \in Key : Agree(execWithLock(store, c).store, store, k)
                 /\ execWithLock(store, c).aof = <<>>
        <3>1. IsCommand(c)
            BY ClientAssumption DEF Sent
        <3>2. execWithLock(store, c).store = store /\ execWithLock(store, c).aof = <<>>
            BY <2>1, <3>1, EveryCommand DEF Ended, StoreInv
        <3> QED  BY <3>2 DEF Agree
    <2> QED  BY <2>1 DEF FailedChangesNothing
<1> QED  BY <1>1, StoreInvInductive, PTL

-----------------------------------------------------------------------------
(* The pages of lists.                                                     *)

\* A page of elements of S is one element longer than the size of its list.
PageOf(S, l) == l \in [page : Seq(S), size : Int] /\ Len(l.page) = l.size + 1

\* A list that elements can be put into: a new one, or one that is not broken.
Open(S, l) == l = NewQuickList \/ (PageOf(S, l) /\ l.size >= 0)

\* A set of places is taken out of another.
LEMMA CardinalityLeft ==
    ASSUME NEW D, IsFiniteSet(D), NEW G \in SUBSET D
    PROVE  /\ Cardinality(D \ G) \in Nat /\ Cardinality(G) \in Nat
           /\ Cardinality(D \ G) = Cardinality(D) - Cardinality(G)
<1>1. IsFiniteSet(D \ G) /\ Cardinality(D \ G) = Cardinality(D) - Cardinality(D \cap G)
    BY FS_Difference
<1>2. D \cap G = G
    OBVIOUS
<1>3. IsFiniteSet(G)
    BY FS_Subset
<1>4. Cardinality(D \ G) \in Nat /\ Cardinality(G) \in Nat
    BY <1>1, <1>3, FS_CardinalityType
<1> QED  BY <1>1, <1>2, <1>4

LEMMA InsertFrontPage ==
    ASSUME NEW S, NEW l, Open(S, l), NEW v \in S
    PROVE  PageOf(S, InsertFront(l, v)) /\ InsertFront(l, v).size = l.size + 1
<1>1. CASE l = NewQuickList
    BY <1>1 DEF NewQuickList, InsertFront, Add, PageOf
<1>2. CASE PageOf(S, l) /\ l.size = 0
    <2>1. PICK p \in Seq(S) : p = l.page /\ Len(p) = 1
        BY <1>2 DEF PageOf
    <2>2. Append(p, v) \in Seq(S) /\ Len(Append(p, v)) = Len(p) + 1
        BY AppendProperties
    <2>4. p # <<>>
        BY <2>1
    <2>3. InsertFront(l, v) = [page |-> Append(p, v), size |-> 1]
        BY <1>2, <2>1, <2>4 DEF InsertFront, Add
    <2> QED  BY <1>2, <2>1, <2>2, <2>3 DEF PageOf
<1>3. CASE PageOf(S, l) /\ l.size > 0
    <2> DEFINE p == l.page
               i == find(l, 0)
    <2>1. p \in Seq(S) /\ l.size \in Int /\ Len(p) = l.size + 1
        BY <1>3 DEF PageOf
    <2>2. i \in 1..2 /\ Len(p) >= 2
        BY <1>3, <2>1 DEF find
    <2> HIDE DEF p, i
    <2>3. SubSeq(p, 1, i-1) \in Seq(S) /\ Len(SubSeq(p, 1, i-1)) = i - 1
        BY <2>1, <2>2
    <2>4. SubSeq(p, i, Len(p)) \in Seq(S) /\ Len(SubSeq(p, i, Len(p))) = Len(p) - i + 1
        BY <2>1, <2>2
    <2>5. <<v>> \in Seq(S) /\ Len(<<v>>) = 1
        OBVIOUS
    <2>6. InsertAt(p, i, v) \in Seq(S) /\ Len(InsertAt(p, i, v)) = Len(p) + 1
        BY <2>1, <2>2, <2>3, <2>4, <2>5, ConcatProperties DEF InsertAt
    <2>7. InsertFront(l, v) = [page |-> InsertAt(p, i, v), size |-> l.size + 1]
        BY <1>3 DEF InsertFront, p, i
    <2> QED  BY <2>1, <2>6, <2>7 DEF PageOf
<1> QED  BY <1>1, <1>2, <1>3 DEF Open, PageOf

LEMMA RemoveHeadPage ==
    ASSUME NEW S, NEW l, PageOf(S, l), l.size > 0
    PROVE  PageOf(S, RemoveHead(l)) /\ RemoveHead(l).size = l.size - 1
<1> DEFINE p == l.page
           i == find(l, 0)
<1>1. p \in Seq(S) /\ l.size \in Int /\ Len(p) = l.size + 1
    BY DEF PageOf
<1>2. i \in 1..2 /\ Len(p) >= 2
    BY <1>1 DEF find
<1> HIDE DEF p, i
<1>3. SubSeq(p, 1, i-1) \in Seq(S) /\ Len(SubSeq(p, 1, i-1)) = i - 1
    BY <1>1, <1>2
<1>4. SubSeq(p, i+1, Len(p)) \in Seq(S) /\ Len(SubSeq(p, i+1, Len(p))) = Len(p) - i
    BY <1>1, <1>2
<1>5. RemoveAt(p, i) \in Seq(S) /\ Len(RemoveAt(p, i)) = Len(p) - 1
    BY <1>1, <1>2, <1>3, <1>4, ConcatProperties DEF RemoveAt
<1>6. RemoveHead(l) = [page |-> RemoveAt(p, i), size |-> l.size - 1]
    BY DEF RemoveHead, p, i
<1> QED  BY <1>1, <1>5, <1>6 DEF PageOf

LEMMA RemoveLastPage ==
    ASSUME NEW S, NEW l, PageOf(S, l), l.size >= 0
    PROVE  PageOf(S, RemoveLast(l)) /\ RemoveLast(l).size = l.size - 1
<1>1. l.page \in Seq(S) /\ l.size \in Int /\ Len(l.page) = l.size + 1
    BY DEF PageOf
<1>2. Front(l.page) \in Seq(S) /\ Len(Front(l.page)) = Len(l.page) - 1
    BY <1>1 DEF Front
<1> QED  BY <1>1, <1>2 DEF RemoveLast, PageOf

LEMMA PushTailPage ==
    ASSUME NEW S, NEW l, Open(S, l), NEW values \in Seq(S), values # <<>>
    PROVE  PageOf(S, pushTail(l, values)) /\ pushTail(l, values).size = l.size + Len(values)
<1>1. Len(values) \in Nat \ {0} /\ values[1] \in S
    OBVIOUS
<1>2. CASE l = NewQuickList
    <2> DEFINE p == <<values[1]>> \o values
    <2>1. pushTail(l, values) = [page |-> p, size |-> Len(values)] /\ l.size = 0
        BY <1>1, <1>2 DEF pushTail, NewQuickList
    <2>2. <<values[1]>> \in Seq(S) /\ Len(<<values[1]>>) = 1
        BY <1>1
    <2>3. p \in Seq(S) /\ Len(p) = 1 + Len(values)
        BY <2>2, ConcatProperties
    <2> HIDE DEF p
    <2> QED  BY <1>1, <2>1, <2>3 DEF PageOf
<1>3. CASE PageOf(S, l) /\ l.size >= 0
    <2>1. l.page \in Seq(S) /\ l.size \in Int /\ Len(l.page) = l.size + 1 /\ l.page # <<>>
        BY <1>3 DEF PageOf
    <2>2. pushTail(l, values) = [page |-> l.page \o values, size |-> l.size + Len(values)]
        BY <2>1 DEF pushTail
    <2>3. l.page \o values \in Seq(S) /\ Len(l.page \o values) = Len(l.page) + Len(values)
        BY <2>1, ConcatProperties
    <2> QED  BY <1>1, <2>1, <2>2, <2>3 DEF PageOf
<1> QED  BY <1>2, <1>3 DEF Open

LEMMA SetAtPage ==
    ASSUME NEW S, NEW l, PageOf(S, l), NEW i \in Int, InRange(l, i), NEW v \in S
    PROVE  PageOf(S, SetAt(l, i, v)) /\ SetAt(l, i, v).size = l.size
<1> DEFINE j == find(l, i)
<1>1. l.page \in Seq(S) /\ l.size \in Int /\ Len(l.page) = l.size + 1
    BY DEF PageOf
<1>2. j \in 1..Len(l.page)
    BY <1>1 DEF find, InRange
<1> HIDE DEF j
<1> DEFINE p == [l.page EXCEPT ![j] = v]
<1>3. p \in Seq(S) /\ Len(p) = Len(l.page)
    BY <1>1, <1>2, ExceptSeq
<1>4. SetAt(l, i, v) = [page |-> p, size |-> l.size]
    <2>1. PICK a, n : l = [page |-> a, size |-> n]
        BY DEF PageOf
    <2> QED  BY <2>1 DEF SetAt, j
<1> HIDE DEF p
<1> QED  BY <1>1, <1>3, <1>4 DEF PageOf

LEMMA WithoutPage ==
    ASSUME NEW S, NEW l, PageOf(S, l), NEW gone \in SUBSET DOMAIN l.page
    PROVE  \E T : PageOf(T, Without(l, gone))
<1> DEFINE kept == DOMAIN l.page \ gone
           n == Cardinality(kept)
           p == [i \in 1..n |-> l.page[CHOOSE q \in kept : upTo(kept, q) = i]]
           T == {p[i] : i \in 1..n}
<1>1. l.page \in Seq(S) /\ l.size \in Int /\ Len(l.page) = l.size + 1 /\ Len(l.page) \in Nat
    BY DEF PageOf
<1>2. DOMAIN l.page = 1..Len(l.page)
    BY <1>1
<1>3. IsFiniteSet(DOMAIN l.page) /\ Cardinality(DOMAIN l.page) = Len(l.page)
    BY <1>1, <1>2, FS_Interval
<1>4. /\ n \in Nat /\ Cardinality(gone) \in Nat
      /\ n = Len(l.page) - Cardinality(gone)
    <2>1. PICK D : D = DOMAIN l.page
        OBVIOUS
    <2>2. IsFiniteSet(D) /\ gone \in SUBSET D /\ kept = D \ gone
        BY <1>3, <2>1
    <2>3. /\ Cardinality(D \ gone) \in Nat /\ Cardinality(gone) \in Nat
          /\ Cardinality(D \ gone) = Cardinality(D) - Cardinality(gone)
        BY <2>2, CardinalityLeft
    <2> QED  BY <1>3, <2>1, <2>2, <2>3
<1>5. Without(l, gone) = [page |-> p, size |-> l.size - Cardinality(gone)]
    BY DEF Without
<1> HIDE DEF n
<1>6. p \in Seq(T) /\ Len(p) = n
    <2>1. p \in [1..n -> T]
        OBVIOUS
    <2> HIDE DEF p, T
    <2>2. p \in Seq(T)
        BY <1>4, <2>1, SeqDef
    <2> QED  BY <1>4, <2>1, <2>2, LenProperties
<1> HIDE DEF p, T
<1>7. PageOf(T, Without(l, gone))
    BY <1>1, <1>4, <1>5, <1>6 DEF PageOf
<1> QED  BY <1>7

\* g is the function that pushHead reads its result from, as far as m.
Pushes(l, values, m, g) ==
    g = [i \in 0..m |-> IF i = 0 THEN l ELSE InsertFront(g[i-1], values[i])]

LEMMA PushHeadSteps ==
    ASSUME NEW l, NEW values, NEW n \in Nat
    PROVE  \E g : Pushes(l, values, n, g)
<1> DEFINE T == {m \in Nat : \E g : Pushes(l, values, m, g)}
<1>1. 0 \in T
    <2>1. Pushes(l, values, 0, [i \in 0..0 |-> l])
        BY SMT DEF Pushes
    <2> QED  BY <2>1
<1>2. ASSUME NEW m \in T PROVE m + 1 \in T
    <2>1. PICK g : Pushes(l, values, m, g)
        OBVIOUS
    <2>2. m \in Nat
        OBVIOUS
    <2> DEFINE h == [i \in 0..m+1 |-> IF i \in 0..m THEN g[i] ELSE InsertFront(g[m], values[m+1])]
    <2>3. \A i \in 0..m : g[i] = IF i = 0 THEN l ELSE InsertFront(g[i-1], values[i])
        BY <2>1, <2>2 DEF Pushes
    <2>4. ASSUME NEW i \in 0..m+1
          PROVE  h[i] = IF i = 0 THEN l ELSE InsertFront(h[i-1], values[i])
        <3>1. CASE i = 0
            BY <2>2, <2>3, <3>1
        <3>2. CASE i \in 1..m
            <4>1. i \in 0..m /\ i - 1 \in 0..m /\ i - 1 \in 0..m+1 /\ i # 0
                BY <2>2, <3>2
            <4>2. h[i] = g[i] /\ h[i-1] = g[i-1]
                BY <4>1
            <4> QED  BY <2>3, <4>1, <4>2
        <3>3. CASE i = m + 1
            <4>1. i \notin 0..m /\ i - 1 = m /\ m \in 0..m /\ m \in 0..m+1 /\ i # 0
                BY <2>2, <3>3
            <4>2. h[i] = InsertFront(g[m], values[m+1]) /\ h[i-1] = g[m]
                BY <4>1
            <4> QED  BY <3>3, <4>1, <4>2
        <3> QED  BY <2>2, <3>1, <3>2, <3>3
    <2>5. Pushes(l, values, m + 1, h)
        BY <2>4 DEF Pushes
    <2> HIDE DEF h
    <2> QED  BY <2>2, <2>5
<1>3. T = Nat
    <2>1. T \in SUBSET Nat
        OBVIOUS
    <2> HIDE DEF T
    <2> QED  BY <1>1, <1>2, <2>1, NatSet
<1> QED  BY <1>3

LEMMA PushHeadPage ==
    ASSUME NEW S, NEW l, Open(S, l), NEW values \in Seq(S), values # <<>>
    PROVE  PageOf(S, pushHead(l, values)) /\ pushHead(l, values).size = l.size + Len(values)
<1> DEFINE n == Len(values)
           g == CHOOSE f : Pushes(l, values, n, f)
<1>1. n \in Nat \ {0} /\ \A i \in 1..n : values[i] \in S
    OBVIOUS
<1>2. pushHead(l, values) = g[n]
    BY DEF pushHead, Pushes
<1> HIDE DEF n
<1>3. \E f : Pushes(l, values, n, f)
    BY <1>1, PushHeadSteps
<1> HIDE DEF g
<1>4. Pushes(l, values, n, g)
    BY <1>3 DEF g
<1>5. g[0] = l /\ \A i \in 1..n : g[i] = InsertFront(g[i-1], values[i])
    BY <1>1, <1>4 DEF Pushes
<1> DEFINE T == {i \in Nat : i \in 1..n => PageOf(S, g[i]) /\ g[i].size = l.size + i}
<1>6. l.size \in Int /\ l.size >= 0
    BY DEF Open, PageOf, NewQuickList
<1>7. 0 \in T
    OBVIOUS
<1>8. ASSUME NEW i \in T PROVE i + 1 \in T
    <2>1. i \in Nat
        OBVIOUS
    <2>2. SUFFICES ASSUME i + 1 \in 1..n
                   PROVE  PageOf(S, g[i+1]) /\ g[i+1].size = l.size + (i + 1)
        BY <2>1
    <2>3. g[i+1] = InsertFront(g[i], values[i+1]) /\ values[i+1] \in S
        <3>1. g[i+1] = InsertFront(g[(i+1)-1], values[i+1]) /\ values[i+1] \in S
            BY <1>1, <1>5, <2>2
        <3>2. (i+1)-1 = i
            BY <2>1
        <3> QED  BY <3>1, <3>2
    <2>4. Open(S, g[i]) /\ g[i].size = l.size + i
        <3>1. CASE i = 0
            BY <1>5, <1>6, <3>1
        <3>2. CASE i # 0
            <4>1. PageOf(S, g[i]) /\ g[i].size = l.size + i
                BY <1>1, <2>1, <2>2, <3>2
            <4> QED  BY <1>6, <2>1, <4>1 DEF Open
        <3> QED  BY <3>1, <3>2
    <2>5. PageOf(S, g[i+1]) /\ g[i+1].size = g[i].size + 1
        BY <2>3, <2>4, InsertFrontPage
    <2> QED  BY <1>6, <2>1, <2>4, <2>5
<1>9. T = Nat
    <2>1. T \in SUBSET Nat
        OBVIOUS
    <2> HIDE DEF T
    <2> QED  BY <1>7, <1>8, <2>1, NatSet
<1>10. n \in T /\ n \in 1..n
    BY <1>1, <1>9
<1> QED  BY <1>2, <1>10 DEF n

-----------------------------------------------------------------------------
(* Nothing empty is kept.                                                  *)

GoodList(l) == l.size # 0 /\ \E S : PageOf(S, l)

\* Strings are sequences, hashes and sorted sets functions.
IsString(v) == \E S : v \in Seq(S)
IsFcn(f) == f = [x \in DOMAIN f |-> f[x]]
IsCell(x) == x = Bytes(x.val) \/ x = Text(x.val)
GoodHash(h) == IsFcn(h) /\ DOMAIN h # {} /\ \A f \in DOMAIN h : IsCell(h[f])

\* RENAME of a key to itself (keys.go:89-111) drops the key and keeps its expiry.
SelfRenamed == \E c \in Client : c.op = "rename" /\ c.args[1] = c.key

\* An entity and its expiry.
WholeEntity(e, time) ==
    /\ e[1] = "none" => e = Absent /\ (time = NoTTL \/ SelfRenamed)
    /\ e[1] = "string" => IsString(e[2])
    /\ e[1] = "list" => GoodList(e[2])
    /\ e[1] = "hash" => GoodHash(e[2])
    /\ e[1] = "zset" => IsFcn(e[2])

\* The inductive invariant: NothingEmpty, with what the values are.
Whole(s) == \A k \in Key : WholeEntity(s.data[k], s.ttl[k])

\* What an executor leaves is whole.
Kept(r) == Whole(r.store)

LEMMA WholePut ==
    ASSUME NEW s, IsStore(s), Whole(s), NEW k \in Key, NEW t \in Types, NEW v, t # "none",
           t = "string" => IsString(v),
           t = "list" => GoodList(v), t = "hash" => GoodHash(v), t = "zset" => IsFcn(v)
    PROVE  Whole(PutEntity(s, k, <<t, v>>))
<1> DEFINE p == PutEntity(s, k, <<t, v>>)
<1>1. p.ttl = s.ttl /\ p.data[k] = <<t, v>> /\ \A j \in Key \ {k} : p.data[j] = s.data[j]
    BY PutEntityStore
<1> HIDE DEF p
<1>2. ASSUME NEW j \in Key PROVE WholeEntity(p.data[j], p.ttl[j])
    <2>1. CASE j = k
        BY <1>1, <2>1 DEF WholeEntity
    <2>2. CASE j # k
        <3>1. p.data[j] = s.data[j] /\ p.ttl[j] = s.ttl[j]
            BY <1>1, <2>2
        <3> QED  BY <3>1 DEF Whole
    <2> QED  BY <2>1, <2>2
<1> QED  BY <1>2 DEF Whole, p

\* The expiry of a key that is there is free, and no expiry is always right.
LEMMA WholeExpire ==
    ASSUME NEW s, IsStore(s), Whole(s), NEW k \in Key, NEW n \in Nat,
           Exists(s, k) \/ n = NoTTL \/ SelfRenamed
    PROVE  Whole(Expire(s, k, n))
<1> DEFINE p == Expire(s, k, n)
<1>1. p.data = s.data /\ p.ttl = [s.ttl EXCEPT ![k] = n]
    BY ExpireStore
<1>2. s.ttl \in [Key -> Nat]
    BY PartsOfStore
<1> HIDE DEF p
<1>3. ASSUME NEW j \in Key PROVE WholeEntity(p.data[j], p.ttl[j])
    <2>1. WholeEntity(s.data[j], s.ttl[j])
        BY DEF Whole
    <2>2. CASE j = k
        <3>1. p.data[j] = s.data[j] /\ p.ttl[j] = n
            BY <1>1, <1>2, <2>2
        <3> QED  BY <2>1, <2>2, <3>1 DEF WholeEntity, Exists, TypeOf
    <2>3. CASE j # k
        <3>1. p.data[j] = s.data[j] /\ p.ttl[j] = s.ttl[j]
            BY <1>1, <1>2, <2>3
        <3> QED  BY <2>1, <3>1
    <2> QED  BY <2>2, <2>3
<1> QED  BY <1>3 DEF Whole, p

LEMMA WholePersist ==
    ASSUME NEW s, IsStore(s), Whole(s), NEW k \in Key
    PROVE  Whole(Persist(s, k))
<1>1. NoTTL \in Nat /\ Persist(s, k) = Expire(s, k, NoTTL)
    BY DEF NoTTL, Persist, Expire
<1> QED  BY <1>1, WholeExpire

LEMMA WholeRemove ==
    ASSUME NEW s, IsStore(s), Whole(s), NEW k \in Key
    PROVE  Whole(RemoveKey(s, k))
<1> DEFINE p == RemoveKey(s, k)
<1>1. /\ p.data[k] = Absent /\ p.ttl = [s.ttl EXCEPT ![k] = NoTTL]
      /\ \A j \in Key \ {k} : p.data[j] = s.data[j]
    BY RemoveStore
<1>2. s.ttl \in [Key -> Nat]
    BY PartsOfStore
<1> HIDE DEF p
<1>3. ASSUME NEW j \in Key PROVE WholeEntity(p.data[j], p.ttl[j])
    <2>1. CASE j = k
        <3>1. p.data[j] = Absent /\ p.ttl[j] = NoTTL
            BY <1>1, <1>2, <2>1
        <3> QED  BY <3>1 DEF WholeEntity, Absent
    <2>2. CASE j # k
        <3>1. p.data[j] = s.data[j] /\ p.ttl[j] = s.ttl[j]
            BY <1>1, <1>2, <2>2
        <3> QED  BY <3>1 DEF Whole
    <2> QED  BY <2>1, <2>2
<1> QED  BY <1>3 DEF Whole, p

LEMMA KeptResults ==
    ASSUME NEW p, Whole(p)
    PROVE  /\ Kept(Done(p)) /\ Kept(Error(p)) /\ Kept(Panicked(p))
           /\ \A l : Kept(Logged(p, l))
           /\ \A l : Kept([Done(p) EXCEPT !.aof = l])
BY DEF Kept, Done, Error, Panicked, Logged

\* The results of the executors of commands on one key.
LEMMA WholeOneKey ==
    ASSUME NEW s, IsStore(s), Whole(s), NEW k \in Key
    PROVE  /\ Kept(Done(s)) /\ Kept(Error(s)) /\ Kept(Panicked(s))
           /\ \A l : Kept(Logged(s, l)) /\ Kept([Done(s) EXCEPT !.aof = l])
           /\ Kept(Error(Persist(s, k)))
           /\ \A l : Kept(Logged(Persist(s, k), l))
           /\ Exists(s, k) => \A n \in Nat : \A l : Kept(Logged(Expire(s, k, n), l))
           /\ Kept(Done(RemoveKey(s, k)))
           /\ \A l : Kept(Logged(RemoveKey(s, k), l)) /\ Kept([Done(RemoveKey(s, k)) EXCEPT !.aof = l])
           /\ \A v, l : IsString(v) => /\ Kept(Logged(PutEntity(s, k, String(v)), l))
                                       /\ Kept(Logged(Persist(PutEntity(s, k, String(v)), k), l))
           /\ \A v, l : IsString(v) =>
                 \A n \in Nat : Kept(Logged(Expire(PutEntity(s, k, String(v)), k, n), l))
           /\ \A v, l : GoodList(v) => Kept(Logged(PutEntity(s, k, List(v)), l))
           /\ \A v, l : GoodHash(v) => /\ Kept(Logged(PutEntity(s, k, Hash(v)), l))
                                       /\ Kept([Done(PutEntity(s, k, Hash(v))) EXCEPT !.aof = l])
           /\ \A v, l : /\ Kept(Logged(PutEntity(s, k, HashSet(v)), l))
                        /\ Kept([Done(PutEntity(s, k, HashSet(v))) EXCEPT !.aof = l])
                        /\ Kept(Logged(PutEntity(RemoveKey(s, k), k, HashSet(v)), l))
           /\ \A v, l : IsFcn(v) => /\ Kept(Logged(PutEntity(s, k, SortedSet(v)), l))
                                    /\ Kept(Done(PutEntity(s, k, SortedSet(v))))
                                    /\ Kept([Done(PutEntity(s, k, SortedSet(v))) EXCEPT !.aof = l])
                                    /\ Kept(Panicked(PutEntity(s, k, SortedSet(v))))
           /\ \A v, l : (\E S : PageOf(S, v)) =>
                           /\ Kept(Logged(PutOrRemove(s, k, v), l))
                           /\ Kept([Done(PutOrRemove(s, k, v)) EXCEPT !.aof = l])
<1>1. /\ Whole(Persist(s, k)) /\ Whole(RemoveKey(s, k))
      /\ Exists(s, k) => \A n \in Nat : Whole(Expire(s, k, n))
    BY WholePersist, WholeRemove, WholeExpire
<1>2. /\ \A v : IsString(v) => Whole(PutEntity(s, k, String(v)))
      /\ \A v : GoodList(v) => Whole(PutEntity(s, k, List(v)))
      /\ \A v : GoodHash(v) => Whole(PutEntity(s, k, Hash(v)))
      /\ \A v : Whole(PutEntity(s, k, HashSet(v)))
      /\ \A v : IsFcn(v) => Whole(PutEntity(s, k, SortedSet(v)))
    BY WholePut DEF String, List, Hash, HashSet, SortedSet, Types
<1>3. ASSUME NEW v, IsString(v)
      PROVE  /\ Whole(Persist(PutEntity(s, k, String(v)), k))
             /\ \A n \in Nat : Whole(Expire(PutEntity(s, k, String(v)), k, n))
    <2> DEFINE p == PutEntity(s, k, String(v))
    <2>1. IsStore(p) /\ p.data[k] = String(v)
        BY PutEntityStore DEF String, Types
    <2>2. Whole(p)
        BY <1>2, <1>3
    <2> HIDE DEF p
    <2>3. Exists(p, k)
        BY <2>1 DEF Exists, TypeOf, String
    <2>4. Whole(Persist(p, k)) /\ \A n \in Nat : Whole(Expire(p, k, n))
        BY <2>1, <2>2, <2>3, WholePersist, WholeExpire
    <2> QED  BY <2>4 DEF p
<1>4. ASSUME NEW v
      PROVE  Whole(PutEntity(RemoveKey(s, k), k, HashSet(v)))
    <2> DEFINE p == RemoveKey(s, k)
    <2>1. IsStore(p) /\ Whole(p)
        BY RemoveStore, WholeRemove
    <2> HIDE DEF p
    <2>2. Whole(PutEntity(p, k, HashSet(v)))
        BY <2>1, WholePut DEF HashSet, Types
    <2> QED  BY <2>2 DEF p
<1>5. \A v : (\E S : PageOf(S, v)) => Whole(PutOrRemove(s, k, v))
    BY <1>1, <1>2 DEF PutOrRemove, GoodList
<1>6. \A p : Whole(p) => /\ Kept(Done(p)) /\ Kept(Error(p)) /\ Kept(Panicked(p))
                         /\ \A l : Kept(Logged(p, l))
    BY KeptResults
<1>7. ASSUME NEW p, Whole(p) PROVE \A l : Kept([Done(p) EXCEPT !.aof = l])
    BY <1>7, KeptResults
<1>8. /\ \A l : Kept([Done(s) EXCEPT !.aof = l])
      /\ \A l : Kept([Done(RemoveKey(s, k)) EXCEPT !.aof = l])
      /\ \A v, l : GoodHash(v) => Kept([Done(PutEntity(s, k, Hash(v))) EXCEPT !.aof = l])
      /\ \A v, l : Kept([Done(PutEntity(s, k, HashSet(v))) EXCEPT !.aof = l])
      /\ \A v, l : IsFcn(v) => Kept([Done(PutEntity(s, k, SortedSet(v))) EXCEPT !.aof = l])
      /\ \A v, l : (\E S : PageOf(S, v)) => Kept([Done(PutOrRemove(s, k, v)) EXCEPT !.aof = l])
    BY <1>1, <1>2, <1>5, <1>7, Zenon
<1>9. /\ Kept(Done(s)) /\ Kept(Error(s)) /\ Kept(Panicked(s))
      /\ \A l : Kept(Logged(s, l))
      /\ Kept(Error(Persist(s, k)))
      /\ \A l : Kept(Logged(Persist(s, k), l))
      /\ Exists(s, k) => \A n \in Nat : \A l : Kept(Logged(Expire(s, k, n), l))
      /\ Kept(Done(RemoveKey(s, k)))
      /\ \A l : Kept(Logged(RemoveKey(s, k), l))
    BY <1>1, <1>6, Zenon
<1>10. /\ \A v, l : IsString(v) => /\ Kept(Logged(PutEntity(s, k, String(v)), l))
                                   /\ Kept(Logged(Persist(PutEntity(s, k, String(v)), k), l))
       /\ \A v, l : IsString(v) =>
             \A n \in Nat : Kept(Logged(Expire(PutEntity(s, k, String(v)), k, n), l))
       /\ \A v, l : GoodList(v) => Kept(Logged(PutEntity(s, k, List(v)), l))
       /\ \A v, l : GoodHash(v) => Kept(Logged(PutEntity(s, k, Hash(v)), l))
       /\ \A v, l : /\ Kept(Logged(PutEntity(s, k, HashSet(v)), l))
                    /\ Kept(Logged(PutEntity(RemoveKey(s, k), k, HashSet(v)), l))
       /\ \A v, l : IsFcn(v) => /\ Kept(Logged(PutEntity(s, k, SortedSet(v)), l))
                                /\ Kept(Done(PutEntity(s, k, SortedSet(v))))
                                /\ Kept(Panicked(PutEntity(s, k, SortedSet(v))))
       /\ \A v, l : (\E S : PageOf(S, v)) => Kept(Logged(PutOrRemove(s, k, v), l))
    BY <1>2, <1>3, <1>4, <1>5, <1>6, Zenon
<1> QED  BY <1>8, <1>9, <1>10, Zenon

\* A list is pushed to or popped from its tail only when it is not broken.
Usable(s, c) ==
    /\ c.op \in {"rpush", "rpushx", "rpop"} => ~BrokenList(s, c.key)
    /\ c.op = "rpoplpush" => ~BrokenList(s, c.key) /\ ~BrokenList(s, c.args[1])

\* The strings that APPEND and SETRANGE put together.
LEMMA LongerStrings ==
    ASSUME NEW s, IsStore(s), Whole(s), NEW k \in Key, ~WrongType(s, k, "string"),
           NEW v, IsString(v)
    PROVE  /\ IsString(ValueOf(s, k)) /\ IsString(ValueOf(s, k) \o v)
           /\ \A n \in Nat : IsString(overwrite(ValueOf(s, k), n, v))
<1> DEFINE a == ValueOf(s, k)
<1>1. IsString(a)
    <2>1. WholeEntity(s.data[k], s.ttl[k]) /\ s.data[k][1] \in {"none", "string"}
        BY DEF Whole, WrongType, TypeOf
    <2>2. s.data[k] = Absent => a = <<>>
        BY DEF Absent, ValueOf
    <2>3. IsString(<<>>)
        BY DEF IsString
    <2> QED  BY <2>1, <2>2, <2>3 DEF WholeEntity, ValueOf
<1> HIDE DEF a
<1>2. PICK S, T : a \in Seq(S) /\ v \in Seq(T)
    BY <1>1 DEF IsString
<1>3. IsString(a \o v)
    <2>1. a \in Seq(S \cup T) /\ v \in Seq(S \cup T)
        BY <1>2, SeqMonotonic
    <2>2. a \o v \in Seq(S \cup T)
        BY <2>1, ConcatProperties
    <2> QED  BY <2>2 DEF IsString
<1>4. ASSUME NEW n \in Nat PROVE IsString(overwrite(a, n, v))
    <2> DEFINE m == IF n + Len(v) > Len(a) THEN n + Len(v) ELSE Len(a)
               p == [i \in 1..m |-> IF i \in n+1..n+Len(v) THEN v[i - n]
                                    ELSE IF i <= Len(a) THEN a[i] ELSE NUL]
    <2>1. Len(a) \in Nat /\ Len(v) \in Nat
        BY <1>2, LenProperties
    <2>2. m \in Nat
        BY <2>1
    <2>3. overwrite(a, n, v) = p
        BY DEF overwrite
    <2> HIDE DEF m
    <2> DEFINE R == {p[i] : i \in 1..m}
    <2>4. p \in [1..m -> R]
        OBVIOUS
    <2> HIDE DEF p, R
    <2>5. p \in Seq(R)
        BY <2>2, <2>4, SeqDef
    <2> QED  BY <2>3, <2>5 DEF IsString
<1> QED  BY <1>1, <1>3, <1>4 DEF a

LEMMA WholeStrings ==
    ASSUME NEW s, IsStore(s), Whole(s), NEW c, IsCommand(c), IsString(c.args),
           c.op \in StringOps \ {"mset", "msetnx"}
    PROVE  Kept(execWithLock(s, c))
<1>1. c.key \in Key /\ c.n \in Int /\ s.now \in Nat
    BY PartsOfStore DEF IsCommand
<1>2. c.n >= 0 => s.now + c.n \in Nat /\ s.now + c.n * Second \in Nat
    BY <1>1 DEF Second
<1>3. CASE c.op \in {"get", "set"}
    BY <1>1, <1>2, <1>3, WholeOneKey DEF execWithLock, execGet, execSet, NoTTL
<1>4. CASE c.op \in {"setnx", "getset", "getdel"}
    BY <1>1, <1>2, <1>4, WholeOneKey DEF execWithLock, execSetNX, execGetSet, execGetDel
<1>5. CASE c.op \in {"setex", "psetex"}
    BY <1>1, <1>2, <1>5, WholeOneKey DEF execWithLock, execSetEX, execPSetEX
<1>6. CASE c.op \in {"incr", "incrby", "incrbyfloat", "decr", "decrby"}
    <2>1. \A x : IsString(<<x>>)
        <3>1. ASSUME NEW x PROVE IsString(<<x>>)
            <4>1. <<x>> \in Seq({x})
                OBVIOUS
            <4> QED  BY <4>1 DEF IsString
        <3> QED  BY <3>1
    <2> QED  BY <1>1, <1>6, <2>1, WholeOneKey
             DEF execWithLock, execIncr, execIncrBy, execIncrByFloat, execDecr, execDecrBy, countBy
<1>7. CASE c.op \in {"append", "setrange"}
    <2>1. ~WrongType(s, c.key, "string") =>
             /\ IsString(ValueOf(s, c.key) \o c.args)
             /\ \A n \in Nat : IsString(overwrite(ValueOf(s, c.key), n, c.args))
        BY <1>1, LongerStrings
    <2>2. c.n >= 0 => c.n \in Nat
        BY <1>1
    <2> QED  BY <1>1, <1>7, <2>1, <2>2, WholeOneKey DEF execWithLock, execAppend, execSetRange
<1>8. CASE c.op = "getex"
    BY <1>1, <1>2, <1>8, WholeOneKey DEF execWithLock, execGetEX, NoTTL
<1> QED  BY <1>3, <1>4, <1>5, <1>6, <1>7, <1>8 DEF StringOps

LEMMA WholeMSet ==
    ASSUME NEW s, IsStore(s), Whole(s), NEW c, IsCommand(c), c.op \in {"mset", "msetnx"}
    PROVE  Kept(execWithLock(s, c))
<1> DEFINE p == putPairs(s, c)
<1>1. ASSUME NEW k \in Key PROVE WholeEntity(p.data[k], p.ttl[k])
    <2>1. p.ttl[k] = s.ttl[k] /\ (p.data[k] = s.data[k] \/ \E v : p.data[k] = <<"string", <<v>>>>)
        BY DEF putPairs, String
    <2> HIDE DEF p
    <2>2. CASE p.data[k] = s.data[k]
        BY <2>1, <2>2 DEF Whole
    <2>3. CASE \E v : p.data[k] = <<"string", <<v>>>>
        <3>1. PICK v : p.data[k] = <<"string", <<v>>>>
            BY <2>3
        <3>2. <<v>> \in Seq({v})
            OBVIOUS
        <3>3. IsString(<<v>>)
            BY <3>2 DEF IsString
        <3> QED  BY <3>1, <3>3 DEF WholeEntity
    <2> QED  BY <2>1, <2>2, <2>3
<1> HIDE DEF p
<1>2. Whole(p)
    BY <1>1 DEF Whole
<1>3. Kept(Error(s)) /\ Kept(Done(s)) /\ \A l : Kept(Logged(p, l))
    BY <1>2, KeptResults
<1> QED  BY <1>3 DEF execWithLock, execMSet, execMSetNX, p

LEMMA WholeHashes ==
    ASSUME NEW s, IsStore(s), Whole(s), NEW c, IsCommand(c), c.op \in HashOps,
           c.op = "hmset" => DOMAIN c.args # {}
    PROVE  Kept(execWithLock(s, c))
<1> DEFINE d == dictOf(s, c.key)
           Fits == ~WrongType(s, c.key, "hash")
<1>1. c.key \in Key
    BY DEF IsCommand
<1>c. \A v : IsCell(Bytes(v)) /\ IsCell(Text(v))
    BY DEF IsCell, Bytes, Text
<1>d. Fits => \A f \in DOMAIN d : IsCell(d[f])
    <2>1. WholeEntity(s.data[c.key], s.ttl[c.key])
        BY <1>1 DEF Whole
    <2>2. ~Exists(s, c.key) => DOMAIN d = {}
        BY DEF dictOf
    <2>3. Fits /\ Exists(s, c.key) => GoodHash(d)
        BY <2>1 DEF dictOf, WrongType, Exists, TypeOf, ValueOf, WholeEntity
    <2> QED  BY <2>2, <2>3 DEF GoodHash
<1> HIDE DEF Fits
<1>2. ASSUME Fits, NEW new, DOMAIN new # {}, \A f \in DOMAIN new : IsCell(new[f])
      PROVE  \A l : Kept(Logged(putAll(s, c.key, new), l))
    <2> DEFINE h == [f \in DOMAIN d \cup DOMAIN new |-> IF f \in DOMAIN new THEN new[f] ELSE d[f]]
    <2>1. GoodHash(h)
        BY <1>2, <1>d DEF GoodHash, IsFcn
    <2>2. putAll(s, c.key, new) = PutEntity(s, c.key, Hash(h))
        BY DEF putAll
    <2> HIDE DEF h
    <2> QED  BY <1>1, <2>1, <2>2, WholeOneKey
<1>3. ASSUME Fits, NEW f, NEW cell, IsCell(cell)
      PROVE  \A l : Kept(Logged(put(s, c.key, f, cell), l))
    <2> DEFINE new == [g \in {f} |-> cell]
    <2>1. DOMAIN new # {} /\ \A g \in DOMAIN new : IsCell(new[g])
        BY <1>3
    <2> HIDE DEF new
    <2>2. \A l : Kept(Logged(putAll(s, c.key, new), l))
        BY <1>2, <1>3, <2>1
    <2> QED  BY <2>2 DEF put, new
<1> HIDE DEF d
<1>4. CASE c.op \in {"hset", "hsetnx"}
    BY <1>1, <1>3, <1>4, <1>c, WholeOneKey DEF execWithLock, execHSet, execHSetNX, Fits
<1>5. CASE c.op = "hmset"
    <2> DEFINE new == [f \in DOMAIN c.args |-> Bytes(c.args[f])]
    <2>1. DOMAIN new # {} /\ \A f \in DOMAIN new : IsCell(new[f])
        BY <1>5, <1>c
    <2> HIDE DEF new
    <2>2. Fits => \A l : Kept(Logged(putAll(s, c.key, new), l))
        BY <1>2, <2>1
    <2>3. Kept(Error(s))
        BY <1>1, WholeOneKey
    <2> QED  BY <1>5, <2>2, <2>3 DEF execWithLock, execHMSet, new, Fits
<1>6. CASE c.op = "hdel"
    <2> DEFINE left == DOMAIN d \ ToSet(c.args)
               h == [f \in left |-> d[f]]
    <2>1. Fits /\ left # {} => GoodHash(h)
        BY <1>d DEF GoodHash, IsFcn
    <2> HIDE DEF h
    <2>2. Fits /\ left # {} => \A l : Kept([Done(PutEntity(s, c.key, Hash(h))) EXCEPT !.aof = l])
        BY <1>1, <2>1, WholeOneKey
    <2>3. /\ Kept(Error(s)) /\ Kept(Done(s))
          /\ \A l : Kept([Done(RemoveKey(s, c.key)) EXCEPT !.aof = l])
        BY <1>1, WholeOneKey
    <2> QED  BY <1>6, <2>2, <2>3 DEF execWithLock, execHDel, h, d, Fits
<1>7. CASE c.op \in {"hincrby", "hincrbyfloat"}
    <2>1. execWithLock(s, c) = countField(s, c, <<c>>) \/ execWithLock(s, c) = countField(s, c, <<>>)
        BY <1>7 DEF execWithLock, execHIncrBy, execHIncrByFloat
    <2>2. \A l : Kept(countField(s, c, l))
        BY <1>1, <1>3, <1>c, WholeOneKey DEF countField, Fits
    <2> QED  BY <2>1, <2>2
<1> QED  BY <1>4, <1>5, <1>6, <1>7 DEF HashOps

LEMMA WholeSets ==
    ASSUME NEW s, IsStore(s), Whole(s), NEW c, IsCommand(c), c.op \in SetOps
    PROVE  Kept(execWithLock(s, c))
<1>1. c.key \in Key
    BY DEF IsCommand
<1>2. CASE c.op \in {"sadd", "srem", "spop"}
    BY <1>1, <1>2, WholeOneKey DEF execWithLock, execSAdd, execSRem, execSPop
<1>3. CASE c.op = "sinterstore"
    BY <1>1, <1>3, WholeOneKey DEF execWithLock, execSInterStore
<1>4. CASE c.op = "sunionstore"
    BY <1>1, <1>4, WholeOneKey DEF execWithLock, execSUnionStore
<1>5. CASE c.op = "sdiffstore"
    BY <1>1, <1>5, WholeOneKey DEF execWithLock, execSDiffStore
<1> QED  BY <1>2, <1>3, <1>4, <1>5 DEF SetOps, StoreOps

LEMMA WholeSortedSets ==
    ASSUME NEW s, IsStore(s), Whole(s), NEW c, IsCommand(c), c.op \in SortedSetOps
    PROVE  Kept(execWithLock(s, c))
<1>1. c.key \in Key
    BY DEF IsCommand
<1> DEFINE z == zsetOf(s, c.key)
<1>2. ~WrongType(s, c.key, "zset") => IsFcn(z)
    <2>1. WholeEntity(s.data[c.key], s.ttl[c.key])
        BY <1>1 DEF Whole
    <2>2. IsFcn(<<>>)
        BY DEF IsFcn
    <2> QED  BY <2>1, <2>2 DEF zsetOf, WrongType, Exists, TypeOf, ValueOf, WholeEntity
<1>3. /\ \A m, score : IsFcn(add(z, m, score))
      /\ \A members : IsFcn(only(z, members))
    BY DEF IsFcn, add, only
<1> HIDE DEF z
<1>4. CASE c.op = "zadd"
    <2> DEFINE at(m) == {i \in 1..Len(c.args) \div 2 : c.args[2*i] = m}
               new == {c.args[2*i] : i \in 1..Len(c.args) \div 2}
               v == [m \in DOMAIN z \cup new |-> IF m \in new THEN c.args[2 * Max(at(m)) - 1]
                                                 ELSE z[m]]
    <2>1. IsFcn(v)
        BY DEF IsFcn
    <2>2. Kept(Error(s)) /\ Kept(Done(PutEntity(s, c.key, SortedSet(v))))
        <3> HIDE DEF v
        <3> QED  BY <1>1, <2>1, WholeOneKey
    <2>3. execWithLock(s, c) = IF Len(c.args) % 2 # 0 \/ WrongType(s, c.key, "zset") THEN Error(s)
                               ELSE Done(PutEntity(s, c.key, SortedSet(v)))
        BY <1>4 DEF execWithLock, execZAdd, z
    <2> HIDE DEF v
    <2> QED  BY <2>2, <2>3
<1>5. CASE c.op = "zincrby"
    BY <1>1, <1>2, <1>3, <1>5, WholeOneKey DEF execWithLock, execZIncrBy, z
<1>6. CASE c.op \in {"zrem", "zpopmin", "zremrangebyscore", "zremrangebyrank"}
    BY <1>1, <1>3, <1>6, WholeOneKey
    DEF execWithLock, execZRem, execZPopMin, execZRemRangeByScore, execZRemRangeByRank,
        removeMembers, z
<1> QED  BY <1>4, <1>5, <1>6 DEF SortedSetOps

LEMMA WholeExpiries ==
    ASSUME NEW s, IsStore(s), Whole(s), NEW c, IsCommand(c), c.op \in ExpireOps \cup {"persist"}
    PROVE  Kept(execWithLock(s, c))
<1>1. c.key \in Key /\ c.n \in Int /\ s.now \in Nat
    BY PartsOfStore DEF IsCommand
<1>2. c.op # "persist" => /\ c.n * Second \in Nat /\ s.now + c.n * Second \in Nat
                          /\ c.n \in Nat /\ s.now + c.n \in Nat
    BY <1>1 DEF IsCommand, ExpireOps, Second
<1>3. CASE c.op = "persist"
    BY <1>1, <1>3, WholeOneKey DEF execWithLock, execPersist
<1>4. CASE c.op \in ExpireOps
    BY <1>1, <1>2, <1>4, WholeOneKey
    DEF execWithLock, execExpire, execExpireAt, execPExpire, execPExpireAt, expireAt, ExpireOps
<1> QED  BY <1>3, <1>4

LEMMA WholeRemoves ==
    ASSUME NEW s, IsStore(s), Whole(s), NEW keys
    PROVE  Whole(Removes(s, keys))
<1> DEFINE p == Removes(s, keys)
<1>1. ASSUME NEW k \in Key PROVE WholeEntity(p.data[k], p.ttl[k])
    <2>1. \/ p.data[k] = s.data[k] /\ p.ttl[k] = s.ttl[k]
          \/ p.data[k] = Absent /\ p.ttl[k] = NoTTL
        BY DEF Removes
    <2> HIDE DEF p
    <2>2. CASE p.data[k] = s.data[k] /\ p.ttl[k] = s.ttl[k]
        BY <2>2 DEF Whole
    <2>3. CASE p.data[k] = Absent /\ p.ttl[k] = NoTTL
        BY <2>3 DEF WholeEntity, Absent
    <2> QED  BY <2>1, <2>2, <2>3
<1> QED  BY <1>1 DEF Whole, p

LEMMA WholeDel ==
    ASSUME NEW s, IsStore(s), Whole(s), NEW c, IsCommand(c), c.op = "del"
    PROVE  Kept(execWithLock(s, c))
<1>1. \A l : Kept([Done(Removes(s, c.args)) EXCEPT !.aof = l])
    BY WholeRemoves, KeptResults
<1> QED  BY <1>1 DEF execWithLock, execDel

\* The expiry moves to a destination that is there.
LEMMA WholeMoveTTL ==
    ASSUME NEW s, IsStore(s), NEW t, IsStore(t), Whole(t), NEW src \in Key, NEW dest \in Key,
           Exists(t, dest) \/ SelfRenamed
    PROVE  Whole(moveTTL(s, t, src, dest))
<1>1. s.ttl[src] \in Nat
    BY PartsOfStore
<1> DEFINE u == Persist(t, src)
<1>2. IsStore(u) /\ u.data = t.data /\ Whole(u)
    BY PersistStore, WholePersist
<1> HIDE DEF u
<1>3. Exists(u, dest) \/ SelfRenamed
    BY <1>2 DEF Exists, TypeOf
<1>4. Whole(Expire(u, dest, s.ttl[src]))
    BY <1>1, <1>2, <1>3, WholeExpire
<1> QED  BY <1>4 DEF moveTTL, u

\* Of a key and itself RENAME leaves the expiry alone, without the key.
LEMMA WholeRename ==
    ASSUME NEW s, IsStore(s), Whole(s), NEW c, IsCommand(c), c.op \in RenameOps,
           c.op = "rename" => c.args[1] # c.key \/ SelfRenamed
    PROVE  Kept(execWithLock(s, c))
<1> DEFINE src == c.key
           dest == c.args[1]
<1>1. src \in Key /\ dest \in Key
    <2>1. c.args \in Seq(Key) /\ c.args # <<>> /\ c.key \in Key
        BY DEF IsCommand
    <2> QED  BY <2>1
<1> HIDE DEF dest
<1>2. PICK t, v : t \in Types /\ s.data[src] = <<t, v>>
    BY <1>1, EntityOfStore
<1>3. Exists(s, src) => /\ t # "none" /\ (t = "string" => IsString(v)) /\ (t = "list" => GoodList(v))
                        /\ (t = "hash" => GoodHash(v)) /\ (t = "zset" => IsFcn(v))
    <2>1. WholeEntity(s.data[src], s.ttl[src])
        BY <1>1 DEF Whole
    <2> QED  BY <1>2, <2>1 DEF WholeEntity, Exists, TypeOf
<1>4. /\ Kept(Error(s)) /\ Kept(Done(s))
      /\ \A p : Whole(p) => \A l : Kept(Logged(p, l))
    BY KeptResults
<1>5. CASE c.op = "rename"
    <2> DEFINE p == PutEntity(s, dest, s.data[src])
               q == RemoveKey(p, src)
    <2>1. IsStore(p) /\ p.data[dest] = s.data[src]
        BY <1>1, <1>2, PutEntityStore
    <2>2. Exists(s, src) => Whole(p)
        BY <1>1, <1>2, <1>3, WholePut
    <2>3. dest # src \/ SelfRenamed
        BY <1>5 DEF dest
    <2> HIDE DEF p
    <2>4. IsStore(q) /\ (q.data[dest] = s.data[src] \/ SelfRenamed)
        <3>1. IsStore(q) /\ \A j \in Key \ {src} : q.data[j] = p.data[j]
            <4>1. IsStore(p) /\ src \in Key
                BY <1>1, <2>1
            <4> HIDE DEF src
            <4> QED  BY <4>1, RemoveStore
        <3>2. dest \in Key \ {src} \/ SelfRenamed
            BY <1>1, <2>3
        <3> HIDE DEF q
        <3> QED  BY <2>1, <3>1, <3>2
    <2>5. Exists(s, src) => Whole(q)
        BY <1>1, <2>1, <2>2, WholeRemove
    <2> HIDE DEF q
    <2>6. Exists(s, src) => Exists(q, dest) \/ SelfRenamed
        BY <2>4 DEF Exists, TypeOf
    <2>7. Exists(s, src) => Whole(moveTTL(s, q, src, dest))
        BY <1>1, <2>4, <2>5, <2>6, WholeMoveTTL
    <2> QED  BY <1>4, <1>5, <2>7 DEF execWithLock, execRename, p, q, dest
<1>6. CASE c.op = "renamenx"
    <2> DEFINE p == Removes(s, <<src, dest>>)
               q == PutEntity(p, dest, s.data[src])
    <2>1. IsStore(p) /\ Whole(p)
        BY WholeRemoves, WithinRemoves DEF Within
    <2> HIDE DEF p
    <2>2. IsStore(q) /\ q.data[dest] = s.data[src]
        BY <1>1, <1>2, <2>1, PutEntityStore
    <2>3. Exists(s, src) => Whole(q)
        BY <1>1, <1>2, <1>3, <2>1, WholePut
    <2> HIDE DEF q
    <2>4. Exists(s, src) => Exists(q, dest)
        BY <2>2 DEF Exists, TypeOf
    <2>5. Exists(s, src) => Whole(moveTTL(s, q, src, dest))
        BY <1>1, <2>2, <2>3, <2>4, WholeMoveTTL
    <2> QED  BY <1>4, <1>6, <2>5 DEF execWithLock, execRenameNx, p, q, dest
<1> QED  BY <1>5, <1>6 DEF RenameOps

\* A page of elements of S is one of elements of any larger set.
LEMMA PageMonotonic ==
    ASSUME NEW S, NEW T, S \subseteq T, NEW l
    PROVE  (PageOf(S, l) => PageOf(T, l)) /\ (Open(S, l) => Open(T, l))
<1>1. ASSUME PageOf(S, l) PROVE PageOf(T, l)
    <2>1. l \in [page : Seq(S), size : Int] /\ l.page \in Seq(S)
        BY <1>1 DEF PageOf
    <2>2. l.page \in Seq(T)
        BY <2>1, SeqMonotonic
    <2>3. PICK p, n : l = [page |-> p, size |-> n]
        BY <2>1
    <2> QED  BY <1>1, <2>1, <2>2, <2>3 DEF PageOf
<1> QED  BY <1>1 DEF Open

\* The list an executor finds, when the key holds no data of another type.
LEMMA FoundList ==
    ASSUME NEW s, IsStore(s), Whole(s), NEW k \in Key, ~WrongType(s, k, "list")
    PROVE  \E S : /\ ~Broken(listOf(s, k)) => Open(S, listOf(s, k))
                  /\ Exists(s, k) => /\ PageOf(S, listOf(s, k)) /\ listOf(s, k).size # 0
                                     /\ listOf(s, k).size \in Int
<1>1. CASE ~Exists(s, k)
    BY <1>1 DEF listOf, Open
<1>2. CASE Exists(s, k)
    <2>1. s.data[k][1] = "list" /\ listOf(s, k) = s.data[k][2]
        BY <1>2 DEF Exists, WrongType, TypeOf, ValueOf, listOf
    <2>2. GoodList(listOf(s, k))
        BY <2>1 DEF Whole, WholeEntity
    <2>3. PICK S : PageOf(S, listOf(s, k))
        BY <2>2 DEF GoodList
    <2>4. listOf(s, k).size # 0 /\ listOf(s, k).size \in Int
        BY <2>2, <2>3 DEF GoodList, PageOf
    <2> QED  BY <2>3, <2>4 DEF Broken, Open
<1> QED  BY <1>1, <1>2

LEMMA WholeLists ==
    ASSUME NEW s, IsStore(s), Whole(s), NEW c, IsCommand(c), c.op \in ListOps \ {"rpoplpush"},
           Usable(s, c), c.op \in PushOps => c.args \in Seq(ToSet(c.args)) /\ c.args # <<>>
    PROVE  Kept(execWithLock(s, c))
<1> DEFINE k == c.key
           l == listOf(s, k)
<1>1. k \in Key /\ c.n \in Int
    BY DEF IsCommand
<1>2. /\ Kept(Done(s)) /\ Kept(Error(s)) /\ Kept(Panicked(s))
      /\ \A v, a : GoodList(v) => Kept(Logged(PutEntity(s, k, List(v)), a))
      /\ \A v, a : (\E S : PageOf(S, v)) =>
                      /\ Kept(Logged(PutOrRemove(s, k, v), a))
                      /\ Kept([Done(PutOrRemove(s, k, v)) EXCEPT !.aof = a])
    BY <1>1, WholeOneKey
<1>3. WrongType(s, k, "list") => ~IsType(s, k, "list")
    BY DEF WrongType, IsType
<1>4. IsType(s, k, "list") => Exists(s, k) /\ ~WrongType(s, k, "list")
    BY DEF WrongType, IsType, Exists
<1>5. ~WrongType(s, k, "list") =>
          \E S : /\ ~Broken(l) => Open(S, l)
                 /\ Exists(s, k) => PageOf(S, l) /\ l.size # 0 /\ l.size \in Int
    BY <1>1, FoundList
<1>6. ~Exists(s, k) => ~Broken(l)
    BY DEF listOf, Broken, NewQuickList
<1>7. ~WrongType(s, k, "list") /\ Exists(s, k) => IsType(s, k, "list") /\ ValueOf(s, k) = l
    BY DEF WrongType, IsType, Exists, listOf
<1>8. CASE c.op \in PushOps
    <2>1. CASE WrongType(s, k, "list")
        BY <1>2, <1>8, <2>1
        DEF execWithLock, execLPush, execRPush, execLPushX, execRPushX, PushOps
    <2>2. CASE Broken(l)
        <3>1. CASE c.op \in {"lpush", "lpushx"}
            BY <1>2, <1>6, <2>2, <3>1 DEF execWithLock, execLPush, execLPushX
        <3>2. CASE c.op \in {"rpush", "rpushx"}
            <4>1. WrongType(s, k, "list")
                BY <1>6, <1>7, <2>2, <3>2 DEF Usable, BrokenList
            <4> QED  BY <2>1, <4>1
        <3> QED  BY <1>8, <3>1, <3>2 DEF PushOps
    <2>3. CASE ~WrongType(s, k, "list") /\ ~Broken(l)
        <3>1. PICK S : Open(S, l)
            BY <1>5, <2>3
        <3> DEFINE T == S \cup ToSet(c.args)
        <3>2. Open(T, l)
            BY <3>1, PageMonotonic
        <3>3. c.args \in Seq(T) /\ c.args # <<>> /\ Len(c.args) \in Nat \ {0}
            BY <1>8, SeqMonotonic
        <3>4. l.size \in Int /\ l.size >= 0
            BY <3>2 DEF Open, PageOf, NewQuickList
        <3> HIDE DEF T, l
        <3>5. /\ PageOf(T, pushHead(l, c.args)) /\ pushHead(l, c.args).size # 0
              /\ PageOf(T, pushTail(l, c.args)) /\ pushTail(l, c.args).size # 0
            BY <3>2, <3>3, <3>4, PushHeadPage, PushTailPage
        <3>6. GoodList(pushHead(l, c.args)) /\ GoodList(pushTail(l, c.args))
            BY <3>5 DEF GoodList
        <3> QED  BY <1>2, <1>8, <2>3, <3>6
                 DEF execWithLock, execLPush, execRPush, execLPushX, execRPushX, PushOps, l
    <2> QED  BY <2>1, <2>2, <2>3
<1>9. CASE c.op \in {"lpop", "rpop"}
    <2>1. CASE WrongType(s, k, "list") \/ ~Exists(s, k) \/ (c.op = "lpop" /\ Broken(l))
        BY <1>2, <1>9, <2>1 DEF execWithLock, execLPop, execRPop
    <2>2. CASE ~WrongType(s, k, "list") /\ Exists(s, k) /\ ~(c.op = "lpop" /\ Broken(l))
        <3>1. ~Broken(l)
            BY <1>7, <1>9, <2>2 DEF Usable, BrokenList
        <3>2. PICK S : PageOf(S, l) /\ l.size # 0 /\ l.size \in Int
            BY <1>5, <2>2
        <3>3. PageOf(S, RemoveHead(l)) /\ PageOf(S, RemoveLast(l))
            BY <3>1, <3>2, RemoveHeadPage, RemoveLastPage DEF Broken
        <3> HIDE DEF l
        <3> QED  BY <1>2, <1>9, <2>2, <3>1, <3>3 DEF execWithLock, execLPop, execRPop, l
    <2> QED  BY <2>1, <2>2
<1>10. CASE c.op = "lset"
    <2> DEFINE i == fromHead(l, c.n)
    <2>1. CASE ~IsType(s, k, "list") \/ ~InRange(l, i)
        BY <1>2, <1>10, <2>1 DEF execWithLock, execLSet
    <2>2. CASE IsType(s, k, "list") /\ InRange(l, i)
        <3>1. PICK S : PageOf(S, l) /\ l.size # 0 /\ l.size \in Int
            BY <1>4, <1>5, <2>2
        <3> DEFINE T == S \cup {c.args[1]}
        <3>2. PageOf(T, l)
            BY <3>1, PageMonotonic
        <3>3. i \in Int
            BY <1>1, <3>1 DEF fromHead
        <3> HIDE DEF l, i
        <3>4. PageOf(T, SetAt(l, i, c.args[1])) /\ SetAt(l, i, c.args[1]).size = l.size
            BY <2>2, <3>2, <3>3, SetAtPage
        <3>5. GoodList(SetAt(l, i, c.args[1]))
            BY <3>1, <3>4 DEF GoodList
        <3> QED  BY <1>2, <1>10, <2>2, <3>5 DEF execWithLock, execLSet, l, i
    <2> QED  BY <2>1, <2>2
<1>11. CASE c.op = "lrem"
    <2> DEFINE gone == placesOf(l, c.n, c.args[1])
    <2>1. CASE WrongType(s, k, "list") \/ ~Exists(s, k) \/ Broken(l)
        BY <1>2, <1>11, <2>1 DEF execWithLock, execLRem
    <2>2. CASE ~WrongType(s, k, "list") /\ Exists(s, k) /\ ~Broken(l)
        <3>1. PICK S : PageOf(S, l)
            BY <1>5, <2>2
        <3>2. gone \in SUBSET DOMAIN l.page
            BY DEF placesOf
        <3> HIDE DEF l, gone
        <3>3. \E T : PageOf(T, Without(l, gone))
            BY <3>1, <3>2, WithoutPage
        <3> QED  BY <1>2, <1>11, <2>2, <3>3 DEF execWithLock, execLRem, l, gone
    <2> QED  BY <2>1, <2>2
<1> QED  BY <1>8, <1>9, <1>10, <1>11 DEF ListOps

LEMMA ListStored ==
    ASSUME NEW s, IsStore(s), NEW k \in Key, NEW v, NEW p, p = PutEntity(s, k, List(v))
    PROVE  /\ IsStore(p) /\ p.ttl = s.ttl /\ p.data[k] = List(v)
           /\ \A j \in Key \ {k} : p.data[j] = s.data[j]
<1> DEFINE q == PutEntity(s, k, <<"list", v>>)
<1>1. /\ IsStore(q) /\ q.ttl = s.ttl /\ q.data[k] = <<"list", v>>
      /\ \A j \in Key \ {k} : q.data[j] = s.data[j]
    <2>1. "list" \in Types
        BY DEF Types
    <2> QED  BY <2>1, PutEntityStore
<1>2. p = q
    BY DEF List
<1> HIDE DEF q
<1> QED  BY <1>1, <1>2 DEF List

LEMMA ListRemoved ==
    ASSUME NEW s, IsStore(s), NEW k \in Key, NEW p, p = RemoveKey(s, k)
    PROVE  /\ p.data[k] = Absent /\ p.ttl[k] = NoTTL
           /\ \A j \in Key \ {k} : p.data[j] = s.data[j] /\ p.ttl[j] = s.ttl[j]
<1>1. /\ p.data[k] = Absent /\ p.ttl = [s.ttl EXCEPT ![k] = NoTTL]
      /\ \A j \in Key \ {k} : p.data[j] = s.data[j]
    BY RemoveStore
<1>2. s.ttl \in [Key -> Nat]
    BY PartsOfStore
<1>3. p.ttl[k] = NoTTL /\ \A j \in Key \ {k} : p.ttl[j] = s.ttl[j]
    BY <1>1, <1>2
<1> QED  BY <1>1, <1>3

\* The element goes from the list of the source to that of the destination, which
\* may be the same one: on the way the list may be empty.
LEMMA WholeRPopLPush ==
    ASSUME NEW s, IsStore(s), Whole(s), NEW c, IsCommand(c), c.op = "rpoplpush", Usable(s, c)
    PROVE  Kept(execWithLock(s, c))
<1> DEFINE src == c.key
           dest == c.args[1]
           l == listOf(s, src)
           e == Last(l.page)
           popped == PutEntity(s, src, List(RemoveLast(l)))
           pushed == PutEntity(popped, dest, List(InsertFront(listOf(popped, dest), e)))
<1>1. src \in Key /\ dest \in Key
    <2>1. c.args \in Seq(Key) /\ c.args # <<>> /\ c.key \in Key
        BY DEF IsCommand, RenameOps, StoreOps
    <2> QED  BY <2>1
<1> HIDE DEF dest
<1>2. Kept(Error(s)) /\ Kept(Done(s)) /\ \A p : Whole(p) => \A a : Kept(Logged(p, a))
    BY KeptResults
<1>3. CASE WrongType(s, src, "list") \/ ~Exists(s, src) \/ WrongType(s, dest, "list")
    BY <1>2, <1>3 DEF execWithLock, execRPopLPush, dest
<1>4. CASE ~WrongType(s, src, "list") /\ Exists(s, src) /\ ~WrongType(s, dest, "list")
    <2>1. PICK S : PageOf(S, l) /\ l.size # 0 /\ l.size \in Int
        BY <1>1, <1>4, FoundList
    <2>2. l.size > 0
        <3>1. IsType(s, src, "list") /\ ValueOf(s, src) = l
            BY <1>4 DEF WrongType, IsType, Exists, listOf
        <3> QED  BY <2>1, <3>1 DEF Usable, BrokenList, Broken
    <2>3. PageOf(S, RemoveLast(l)) /\ RemoveLast(l).size = l.size - 1
        BY <2>1, <2>2, RemoveLastPage
    <2>4. PICK T : Open(T, listOf(s, dest))
        <3>1. ~Broken(listOf(s, dest))
            <4>1. CASE Exists(s, dest)
                <5>1. IsType(s, dest, "list") /\ ValueOf(s, dest) = listOf(s, dest)
                    BY <1>4, <4>1 DEF WrongType, IsType, Exists, listOf
                <5> QED  BY <5>1 DEF Usable, BrokenList, dest
            <4>2. CASE ~Exists(s, dest)
                BY <4>2 DEF listOf, NewQuickList, Broken
            <4> QED  BY <4>1, <4>2
        <3> QED  BY <1>1, <1>4, <3>1, FoundList
    <2>5. /\ IsStore(popped) /\ popped.ttl = s.ttl /\ popped.data[src] = List(RemoveLast(l))
          /\ \A j \in Key \ {src} : popped.data[j] = s.data[j]
        <3>1. PICK q : q = popped
            OBVIOUS
        <3>2. q = PutEntity(s, src, List(RemoveLast(l)))
            BY <3>1
        <3> HIDE DEF l, popped, src
        <3> QED  BY <1>1, <3>1, <3>2, ListStored
    <2> DEFINE m == listOf(popped, dest)
    <2>6. \E U : Open(U, m)
        <3> HIDE DEF popped, l
        <3>1. CASE dest = src
            <4>1. m = RemoveLast(l)
                BY <2>5, <3>1 DEF listOf, Exists, TypeOf, ValueOf, List
            <4> QED  BY <2>1, <2>2, <2>3, <4>1 DEF Open
        <3>2. CASE dest # src
            <4>1. popped.data[dest] = s.data[dest]
                BY <1>1, <2>5, <3>2
            <4>2. m = listOf(s, dest)
                BY <4>1 DEF listOf, Exists, TypeOf, ValueOf
            <4> QED  BY <2>4, <4>2
        <3> QED  BY <3>1, <3>2
    <2>7. PICK U : Open(U, m)
        BY <2>6
    <2> DEFINE W == U \cup {e}
    <2>8. PageOf(W, InsertFront(m, e)) /\ InsertFront(m, e).size # 0
        <3>1. Open(W, m) /\ e \in W
            BY <2>7, PageMonotonic
        <3> HIDE DEF W, m, e
        <3>2. PageOf(W, InsertFront(m, e)) /\ InsertFront(m, e).size = m.size + 1
            BY <3>1, InsertFrontPage
        <3>3. m.size \in Int /\ m.size >= 0
            BY <3>1 DEF Open, PageOf, NewQuickList
        <3> QED  BY <3>2, <3>3
    <2>9. GoodList(InsertFront(m, e))
        <3> HIDE DEF W, m, e
        <3> QED  BY <2>8 DEF GoodList
    <2>10. /\ IsStore(pushed) /\ pushed.ttl = popped.ttl
           /\ pushed.data[dest] = List(InsertFront(m, e))
           /\ \A j \in Key \ {dest} : pushed.data[j] = popped.data[j]
        <3>1. pushed = PutEntity(popped, dest, List(InsertFront(m, e)))
            OBVIOUS
        <3>2. IsStore(popped)
            BY <2>5
        <3> HIDE DEF m, e, popped, pushed, src
        <3> QED  BY <1>1, <3>1, <3>2, ListStored
    <2> HIDE DEF m, e, l, popped, pushed
    <2>11. \A j \in Key \ {src} : WholeEntity(pushed.data[j], pushed.ttl[j])
        <3> SUFFICES ASSUME NEW j \in Key, j # src
                     PROVE  WholeEntity(pushed.data[j], pushed.ttl[j])
            OBVIOUS
        <3>1. CASE j = dest
            BY <2>9, <2>10, <3>1 DEF WholeEntity, List
        <3>2. CASE j # dest
            <4>1. pushed.data[j] = s.data[j] /\ pushed.ttl[j] = s.ttl[j]
                BY <2>5, <2>10, <3>2
            <4> QED  BY <4>1 DEF Whole
        <3> QED  BY <3>1, <3>2
    <2> DEFINE last == listOf(pushed, src)
               p == PutOrRemove(pushed, src, last)
    <2>12. \E U2 : PageOf(U2, last)
        <3>1. CASE dest = src
            <4>1. last = InsertFront(m, e)
                BY <2>10, <3>1 DEF listOf, Exists, TypeOf, ValueOf, List
            <4> HIDE DEF W, last
            <4> QED  BY <2>8, <4>1
        <3>2. CASE dest # src
            <4>1. pushed.data[src] = List(RemoveLast(l))
                BY <1>1, <2>5, <2>10, <3>2
            <4>2. last = RemoveLast(l)
                BY <4>1 DEF listOf, Exists, TypeOf, ValueOf, List
            <4> HIDE DEF last
            <4> QED  BY <2>3, <4>2
        <3> QED  BY <3>1, <3>2
    <2> HIDE DEF last
    <2>13. CASE last.size = 0
        <3>1. p = RemoveKey(pushed, src)
            BY <2>13 DEF PutOrRemove
        <3> HIDE DEF p
        <3>2. /\ p.data[src] = Absent /\ p.ttl[src] = NoTTL
              /\ \A j \in Key \ {src} : p.data[j] = pushed.data[j] /\ p.ttl[j] = pushed.ttl[j]
            <4>1. IsStore(pushed)
                BY <2>10
            <4> HIDE DEF src
            <4> QED  BY <1>1, <3>1, <4>1, ListRemoved
        <3>4. ASSUME NEW j \in Key PROVE WholeEntity(p.data[j], p.ttl[j])
            <4>1. CASE j = src
                <5>1. p.data[j] = Absent /\ p.ttl[j] = NoTTL
                    BY <3>2, <4>1
                <5> QED  BY <5>1 DEF WholeEntity, Absent
            <4>2. CASE j # src
                <5>1. p.data[j] = pushed.data[j] /\ p.ttl[j] = pushed.ttl[j]
                    BY <3>2, <4>2
                <5> QED  BY <2>11, <4>2, <5>1
            <4> QED  BY <4>1, <4>2
        <3>5. Whole(p)
            BY <3>4 DEF Whole
        <3> QED  BY <1>2, <1>4, <3>5
                 DEF execWithLock, execRPopLPush, p, last, pushed, popped, m, l, e, dest
    <2>14. CASE last.size # 0
        <3>1. p = PutEntity(pushed, src, List(last))
            BY <2>14 DEF PutOrRemove
        <3> HIDE DEF p
        <3>2. /\ p.data[src] = List(last) /\ p.ttl = pushed.ttl
              /\ \A j \in Key \ {src} : p.data[j] = pushed.data[j]
            <4>1. IsStore(pushed)
                BY <2>10
            <4> HIDE DEF src
            <4> QED  BY <1>1, <3>1, <4>1, ListStored
        <3>3. GoodList(last)
            BY <2>12, <2>14 DEF GoodList
        <3>4. ASSUME NEW j \in Key PROVE WholeEntity(p.data[j], p.ttl[j])
            <4>1. CASE j = src
                BY <3>2, <3>3, <4>1 DEF WholeEntity, List
            <4>2. CASE j # src
                <5>1. p.data[j] = pushed.data[j] /\ p.ttl[j] = pushed.ttl[j]
                    BY <3>2, <4>2
                <5> QED  BY <2>11, <4>2, <5>1
            <4> QED  BY <4>1, <4>2
        <3>5. Whole(p)
            BY <3>4 DEF Whole
        <3> QED  BY <1>2, <1>4, <3>5
                 DEF execWithLock, execRPopLPush, p, last, pushed, popped, m, l, e, dest
    <2> QED  BY <2>13, <2>14
<1> QED  BY <1>3, <1>4

LEMMA WholeCommands ==
    ASSUME NEW s, IsStore(s), Whole(s), NEW c, IsCommand(c), Usable(s, c),
           c.op # "hmset" => c.args \in Seq(ToSet(c.args)),
           c.op \in PushOps => c.args # <<>>,
           c.op = "hmset" => DOMAIN c.args # {},
           c.op = "rename" => c.args[1] # c.key \/ SelfRenamed
    PROVE  Whole(execWithLock(s, c).store)
<1>1. Kept(execWithLock(s, c))
    <2>1. c.op \in StringOps \cup ListOps \cup KeyOps \cup HashOps \cup SetOps \cup SortedSetOps
        BY DEF IsCommand
    <2>2. CASE c.op \in StringOps
        <3>1. IsString(c.args)
            BY <2>2 DEF IsString, StringOps
        <3> QED  BY <2>2, <3>1, WholeStrings, WholeMSet
    <2>3. CASE c.op \in ListOps
        <3>1. c.op # "hmset"
            BY <2>3 DEF ListOps, PushOps
        <3> QED  BY <2>3, <3>1, WholeLists, WholeRPopLPush
    <2>4. CASE c.op \in KeyOps
        BY <2>4, WholeExpiries, WholeRename, WholeDel DEF KeyOps
    <2> QED  BY <2>1, <2>2, <2>3, <2>4, WholeHashes, WholeSets, WholeSortedSets
<1> QED  BY <1>1 DEF Kept

-----------------------------------------------------------------------------
(* Every sequence of commands keeps the store whole.                       *)

StoreWhole == StoreInv /\ Whole(store)

LEMMA StoreStaysWhole == Spec => []StoreWhole
<1>1. Init => StoreWhole
    <2>1. \A k \in Key : EmptyStore.data[k] = Absent /\ EmptyStore.ttl[k] = NoTTL
        BY DEF EmptyStore
    <2>2. Whole(EmptyStore)
        <3>1. WholeEntity(Absent, NoTTL)
            BY DEF WholeEntity, Absent
        <3> QED  BY <2>1, <3>1 DEF Whole
    <2>3. IsStore(EmptyStore) /\ EmptyStore.now = 0
        BY EmptyIsStore DEF EmptyStore
    <2> QED  BY <2>2, <2>3 DEF Init, StoreInv, StoreWhole
<1>2. StoreWhole /\ [Next]_store => StoreWhole'
    <2>1. ASSUME StoreWhole, NEW c \in Client, Room(c), store' = execWithLock(store, c).store
          PROVE  StoreWhole'
        <3>1. /\ IsCommand(c)
              /\ c.op # "hmset" => c.args \in Seq(ToSet(c.args))
              /\ c.op \in PushOps => c.args # <<>>
              /\ c.op = "hmset" => DOMAIN c.args # {}
            BY ClientAssumption
        <3>2. Usable(store, c)
            BY <2>1 DEF Room, Usable
        <3>3. Within(store, execWithLock(store, c).store, MayChange(c))
            BY <2>1, <3>1, EveryCommand DEF Ended, StoreInv, StoreWhole
        <3>4. c.op = "rename" => c.args[1] # c.key \/ SelfRenamed
            BY DEF SelfRenamed
        <3>5. Whole(execWithLock(store, c).store)
            BY <2>1, <3>1, <3>2, <3>4, WholeCommands DEF StoreInv, StoreWhole
        <3> QED  BY <2>1, <3>3, <3>5 DEF Within, StoreInv, StoreWhole
    <2>2. CASE UNCHANGED store
        BY <2>2 DEF StoreInv, StoreWhole
    <2> QED  BY <2>1, <2>2 DEF Next
<1> QED  BY <1>1, <1>2, PTL DEF Spec

\* An expiry belongs to a key, and a list or a hash goes with its last element,
\* whatever commands took it (list.go:59, "assert: size > 0"), as long as nobody
\* renames a key to itself and no list is pushed to or popped from its tail that
\* LREM has left with a size below zero.
THEOREM NothingEmptyKept ==
    ASSUME \A c \in Client : c.op = "rename" => c.args[1] # c.key
    PROVE  Spec => []NothingEmpty
<1>1. StoreWhole => NothingEmpty
    <2>1. ~SelfRenamed
        BY DEF SelfRenamed
    <2> QED  BY <2>1 DEF StoreWhole, Whole, WholeEntity, GoodList, GoodHash, NothingEmpty,
                         Exists, IsType, TypeOf, ValueOf
<1> QED  BY <1>1, StoreStaysWhole, PTL
-----------------------------------------------------------------------------
(* Replay: the lines a command passes to addAof, run on a store that       *)
(* differs from the one the command met in the clock alone.                *)

Same(s, t) == IsStore(s) /\ IsStore(t) /\ t.data = s.data /\ t.ttl = s.ttl

\* What an executor asks of a store.
LEMMA SameReads ==
    ASSUME NEW s, NEW t, Same(s, t), NEW k
    PROVE  /\ TypeOf(t, k) = TypeOf(s, k) /\ ValueOf(t, k) = ValueOf(s, k)
           /\ Exists(t, k) <=> Exists(s, k)
           /\ \A type : WrongType(t, k, type) <=> WrongType(s, k, type)
           /\ \A type : IsType(t, k, type) <=> IsType(s, k, type)
           /\ listOf(t, k) = listOf(s, k) /\ dictOf(t, k) = dictOf(s, k)
           /\ setOf(t, k) = setOf(s, k) /\ zsetOf(t, k) = zsetOf(s, k)
BY DEF Same, TypeOf, ValueOf, Exists, WrongType, IsType, listOf, dictOf, setOf, zsetOf

LEMMA SamePut ==
    ASSUME NEW s, NEW t, Same(s, t), NEW k \in Key, NEW type \in Types, NEW v
    PROVE  Same(PutEntity(s, k, <<type, v>>), PutEntity(t, k, <<type, v>>))
<1>1. IsStore(PutEntity(s, k, <<type, v>>)) /\ IsStore(PutEntity(t, k, <<type, v>>))
    BY PutEntityStore DEF Same
<1>0. IsStore(s) /\ IsStore(t)
    BY DEF Same
<1>2. PICK a, x, m : s = [data |-> a, ttl |-> x, now |-> m]
    BY <1>0, PartsOfStore
<1>3. PICK n : t = [data |-> a, ttl |-> x, now |-> n]
    <2>1. PICK b, y, n : t = [data |-> b, ttl |-> y, now |-> n]
        BY <1>0, PartsOfStore
    <2>2. b = a /\ y = x
        BY <1>2, <2>1 DEF Same
    <2> QED  BY <2>1, <2>2
<1> QED  BY <1>1, <1>2, <1>3 DEF Same, PutEntity

LEMMA SameExpire ==
    ASSUME NEW s, NEW t, Same(s, t), NEW k \in Key, NEW n \in Nat
    PROVE  Same(Expire(s, k, n), Expire(t, k, n))
<1> DEFINE p == Expire(s, k, n)
           q == Expire(t, k, n)
<1>1. /\ IsStore(p) /\ p.data = s.data /\ p.ttl = [s.ttl EXCEPT ![k] = n]
      /\ IsStore(q) /\ q.data = t.data /\ q.ttl = [t.ttl EXCEPT ![k] = n]
    BY ExpireStore DEF Same
<1> HIDE DEF p, q
<1>2. Same(p, q)
    BY <1>1 DEF Same
<1> QED  BY <1>2 DEF p, q

LEMMA SamePersist ==
    ASSUME NEW s, NEW t, Same(s, t), NEW k \in Key
    PROVE  Same(Persist(s, k), Persist(t, k))
<1>1. NoTTL \in Nat /\ Persist(s, k) = Expire(s, k, NoTTL) /\ Persist(t, k) = Expire(t, k, NoTTL)
    BY DEF NoTTL, Persist, Expire
<1> QED  BY <1>1, SameExpire

LEMMA SameRemove ==
    ASSUME NEW s, NEW t, Same(s, t), NEW k \in Key
    PROVE  Same(RemoveKey(s, k), RemoveKey(t, k))
<1>1. Same(PutEntity(s, k, Absent), PutEntity(t, k, Absent))
    BY SamePut DEF Absent, Types
<1> QED  BY <1>1, SamePersist DEF RemoveKey

\* What the executors of commands on one key do to two such stores.
LEMMA SameOneKey ==
    ASSUME NEW s, NEW t, Same(s, t), NEW k \in Key
    PROVE  /\ Same(Persist(s, k), Persist(t, k))
           /\ Same(RemoveKey(s, k), RemoveKey(t, k))
           /\ \A v : Same(PutEntity(s, k, String(v)), PutEntity(t, k, String(v)))
           /\ \A v : Same(Persist(PutEntity(s, k, String(v)), k),
                          Persist(PutEntity(t, k, String(v)), k))
           /\ \A v : Same(PutEntity(s, k, List(v)), PutEntity(t, k, List(v)))
           /\ \A v : Same(PutEntity(s, k, Hash(v)), PutEntity(t, k, Hash(v)))
           /\ \A v : Same(PutEntity(s, k, HashSet(v)), PutEntity(t, k, HashSet(v)))
           /\ \A v : Same(PutEntity(RemoveKey(s, k), k, HashSet(v)),
                          PutEntity(RemoveKey(t, k), k, HashSet(v)))
           /\ \A v : Same(PutEntity(s, k, SortedSet(v)), PutEntity(t, k, SortedSet(v)))
           /\ \A l : Same(PutOrRemove(s, k, l), PutOrRemove(t, k, l))
<1>1. Same(Persist(s, k), Persist(t, k)) /\ Same(RemoveKey(s, k), RemoveKey(t, k))
    BY SamePersist, SameRemove
<1>2. \A type \in Types : \A v : Same(PutEntity(s, k, <<type, v>>), PutEntity(t, k, <<type, v>>))
    BY SamePut
<1>3. /\ \A v : Same(PutEntity(s, k, String(v)), PutEntity(t, k, String(v)))
      /\ \A v : Same(PutEntity(s, k, List(v)), PutEntity(t, k, List(v)))
      /\ \A v : Same(PutEntity(s, k, Hash(v)), PutEntity(t, k, Hash(v)))
      /\ \A v : Same(PutEntity(s, k, HashSet(v)), PutEntity(t, k, HashSet(v)))
      /\ \A v : Same(PutEntity(s, k, SortedSet(v)), PutEntity(t, k, SortedSet(v)))
    BY <1>2 DEF String, List, Hash, HashSet, SortedSet, Types
<1>4. \A v : Same(Persist(PutEntity(s, k, String(v)), k), Persist(PutEntity(t, k, String(v)), k))
    BY <1>3, SamePersist
<1>5. \A v : Same(PutEntity(RemoveKey(s, k), k, HashSet(v)), PutEntity(RemoveKey(t, k), k, HashSet(v)))
    BY <1>1, SamePut DEF HashSet, Types
<1>6. \A l : Same(PutOrRemove(s, k, l), PutOrRemove(t, k, l))
    BY <1>1, <1>3 DEF PutOrRemove
<1> QED  BY <1>1, <1>3, <1>4, <1>5, <1>6

\* The log of the command c, which ended with r on the store s: the command
\* itself, or nothing when it has done nothing.
LogsItself(s, c, r) ==
    r.fate = "ok" => \/ Unlogged(c, r)
                     \/ r.aof = <<>> /\ Same(s, r.store)
                     \/ r.aof = <<c>>

\* Two executions of one command.
Twins(q, r) == q.fate = r.fate /\ Same(q.store, r.store)

\* A command that does the same on both stores, and logs itself.
Repeats(s, t, c) == LogsItself(s, c, execWithLock(s, c)) /\ Twins(execWithLock(s, c), execWithLock(t, c))

LEMMA TwinResults ==
    ASSUME NEW p, NEW q, Same(p, q), NEW l, NEW m
    PROVE  /\ Twins(Done(p), Done(q)) /\ Twins(Error(p), Error(q)) /\ Twins(Panicked(p), Panicked(q))
           /\ Twins(Logged(p, l), Logged(q, m))
           /\ Twins([Done(p) EXCEPT !.aof = l], [Done(q) EXCEPT !.aof = m])
BY DEF Twins, Done, Error, Panicked, Logged

LEMMA LogResults ==
    ASSUME NEW s, IsStore(s), NEW c
    PROVE  /\ LogsItself(s, c, Done(s)) /\ LogsItself(s, c, Error(s))
           /\ \A p : LogsItself(s, c, Panicked(p)) /\ LogsItself(s, c, Logged(p, <<c>>))
           /\ \A p : LogsItself(s, c, [Done(p) EXCEPT !.aof = <<c>>])
           /\ \A p : Same(s, p) => LogsItself(s, c, [Done(p) EXCEPT !.aof = <<>>])
BY DEF LogsItself, Done, Error, Panicked, Logged, Same

LEMMA StringsRepeat ==
    ASSUME NEW s, NEW t, Same(s, t), NEW c, IsCommand(c),
           \/ c.op \in {"get", "setnx", "incr", "incrby", "incrbyfloat", "decr", "decrby",
                        "append", "setrange"}
           \/ c.op = "set" /\ c.n = NoTTL
    PROVE  Repeats(s, t, c)
<1> DEFINE k == c.key
<1>1. k \in Key /\ IsStore(s)
    BY DEF IsCommand, Same
<1>2. /\ Exists(t, k) <=> Exists(s, k)
      /\ WrongType(t, k, "string") <=> WrongType(s, k, "string")
      /\ ValueOf(t, k) = ValueOf(s, k)
    BY SameReads
<1>3. /\ Same(Persist(s, k), Persist(t, k))
      /\ \A v : Same(PutEntity(s, k, String(v)), PutEntity(t, k, String(v)))
      /\ \A v : Same(Persist(PutEntity(s, k, String(v)), k),
                     Persist(PutEntity(t, k, String(v)), k))
    BY <1>1, SameOneKey
<1>4. /\ Twins(Done(s), Done(t)) /\ Twins(Error(s), Error(t)) /\ Twins(Panicked(s), Panicked(t))
      /\ \A l : Twins(Logged(s, l), Logged(t, l))
      /\ \A v, l : Twins(Logged(PutEntity(s, k, String(v)), l), Logged(PutEntity(t, k, String(v)), l))
      /\ \A v, l : Twins(Logged(Persist(PutEntity(s, k, String(v)), k), l),
                         Logged(Persist(PutEntity(t, k, String(v)), k), l))
    BY <1>3, TwinResults
<1>5. /\ LogsItself(s, c, Done(s)) /\ LogsItself(s, c, Error(s)) /\ LogsItself(s, c, Panicked(s))
      /\ \A p : LogsItself(s, c, Logged(p, <<c>>))
    BY <1>1, LogResults
<1> HIDE DEF k
<1>6. CASE c.op = "set" /\ c.n = NoTTL
    BY <1>2, <1>4, <1>5, <1>6 DEF Repeats, execWithLock, execSet, k
<1>7. CASE c.op \in {"get", "setnx"}
    BY <1>2, <1>4, <1>5, <1>7 DEF Repeats, execWithLock, execGet, execSetNX, k
<1>8. CASE c.op \in {"incr", "incrby", "incrbyfloat", "decr", "decrby"}
    BY <1>2, <1>4, <1>5, <1>8
    DEF Repeats, execWithLock, execIncr, execIncrBy, execIncrByFloat, execDecr, execDecrBy, countBy, k
<1>9. CASE c.op \in {"append", "setrange"}
    BY <1>2, <1>4, <1>5, <1>9 DEF Repeats, execWithLock, execAppend, execSetRange, k
<1> QED  BY <1>6, <1>7, <1>8, <1>9

\* MSET and MSETNX.
LEMMA MSetsRepeat ==
    ASSUME NEW s, NEW t, Same(s, t), NEW c, IsCommand(c), c.op \in {"mset", "msetnx"}
    PROVE  Repeats(s, t, c)
<1>1. IsStore(s) /\ IsStore(t) /\ t.data = s.data /\ t.ttl = s.ttl
    BY DEF Same
<1>2. \A k : Exists(t, k) <=> Exists(s, k)
    BY SameReads
<1>3. Len(c.args) % 2 = 0 => Same(putPairs(s, c), putPairs(t, c))
    <2> DEFINE p == putPairs(s, c)
               q == putPairs(t, c)
    <2>1. q.data = p.data /\ q.ttl = p.ttl
        BY <1>1 DEF putPairs
    <2>2. Len(c.args) % 2 = 0 => IsStore(p) /\ IsStore(q)
        <3> DEFINE c1 == [op |-> "mset", key |-> c.key, n |-> c.n, args |-> c.args]
        <3>1. IsCommand(c1)
            BY DEF IsCommand, prepareMSet, StringOps, ExpireOps, RenameOps, StoreOps
        <3>2. putPairs(s, c1) = p /\ putPairs(t, c1) = q
            BY DEF putPairs, prepareMSet
        <3>3. /\ execWithLock(s, c1) = IF Len(c.args) % 2 # 0 THEN Error(s) ELSE Logged(p, <<c1>>)
              /\ execWithLock(t, c1) = IF Len(c.args) % 2 # 0 THEN Error(t) ELSE Logged(q, <<c1>>)
            BY <3>2 DEF execWithLock, execMSet
        <3> HIDE DEF c1, p, q
        <3>4. IsStore(execWithLock(s, c1).store) /\ IsStore(execWithLock(t, c1).store)
            BY <1>1, <3>1, EveryCommand DEF Ended, Within
        <3> QED  BY <3>3, <3>4 DEF Logged
    <2> HIDE DEF p, q
    <2>3. Len(c.args) % 2 = 0 => Same(p, q)
        BY <2>1, <2>2 DEF Same
    <2> QED  BY <2>3 DEF p, q
<1>4. /\ Twins(Done(s), Done(t)) /\ Twins(Error(s), Error(t))
      /\ \A l : Len(c.args) % 2 = 0 => Twins(Logged(putPairs(s, c), l), Logged(putPairs(t, c), l))
    BY <1>3, TwinResults
<1>5. /\ LogsItself(s, c, Done(s)) /\ LogsItself(s, c, Error(s))
      /\ \A p : LogsItself(s, c, Logged(p, <<c>>))
    BY <1>1, LogResults
<1>6. CASE c.op = "mset"
    BY <1>4, <1>5, <1>6 DEF Repeats, execWithLock, execMSet
<1>7. CASE c.op = "msetnx"
    BY <1>2, <1>4, <1>5, <1>7 DEF Repeats, execWithLock, execMSetNX
<1> QED  BY <1>6, <1>7

-----------------------------------------------------------------------------
(* Lists.                                                                  *)

\* Nothing taken out of a page leaves the list.
LEMMA WithoutNone ==
    ASSUME NEW S, NEW l, PageOf(S, l)
    PROVE  Without(l, {}) = l
<1>1. PICK page \in Seq(S), size \in Int : l = [page |-> page, size |-> size]
    BY DEF PageOf
<1>2. PICK n \in Nat : n = Len(page) /\ DOMAIN page = 1..n
    BY <1>1, LenProperties
<1>3. Cardinality(1..n) = n /\ Cardinality({}) = 0
    <2>1. n \in Int /\ Cardinality(1..n) = IF 1 > n THEN 0 ELSE n - 1 + 1
        BY FS_Interval
    <2>2. n = 0 \/ ~(1 > n)
        OBVIOUS
    <2> QED  BY <2>1, <2>2, FS_EmptySet
<1>4. ASSUME NEW i \in 1..n PROVE upTo(1..n, i) = i
    <2>1. {j \in 1..n : j <= i} = 1..i
        OBVIOUS
    <2>2. i \in Int /\ ~(1 > i) /\ Cardinality(1..i) = IF 1 > i THEN 0 ELSE i - 1 + 1
        BY FS_Interval
    <2>3. Cardinality(1..i) = i
        BY <2>2
    <2> QED  BY <2>1, <2>3 DEF upTo
<1>5. ASSUME NEW i \in 1..n PROVE (CHOOSE p \in 1..n : upTo(1..n, p) = i) = i
    <2>1. \A p \in 1..n : upTo(1..n, p) = i <=> p = i
        BY <1>4
    <2> QED  BY <2>1
<1>6. page = [i \in 1..n |-> page[i]]
    BY <1>1, <1>2
<1>7. [i \in 1..n |-> page[CHOOSE p \in 1..n : upTo(1..n, p) = i]] = page
    BY <1>5, <1>6
<1>8. DOMAIN l.page \ {} = 1..n /\ l.page = page /\ l.size = size
    BY <1>1, <1>2
<1>9. Without(l, {}) = [page |-> [i \in 1..n |-> page[CHOOSE p \in 1..n : upTo(1..n, p) = i]],
                        size |-> size - 0]
    BY <1>3, <1>8 DEF Without
<1>10. size - 0 = size
    OBVIOUS
<1> QED  BY <1>1, <1>7, <1>9, <1>10

\* Putting back what is there.
LEMMA PutBack ==
    ASSUME NEW s, IsStore(s), NEW k \in Key
    PROVE  Same(s, PutEntity(s, k, s.data[k]))
<1>1. PICK type, v : type \in Types /\ s.data[k] = <<type, v>>
    BY EntityOfStore
<1> DEFINE p == PutEntity(s, k, <<type, v>>)
<1>2. IsStore(p) /\ p.ttl = s.ttl /\ \A j \in Key : p.data[j] = s.data[j]
    <2>1. /\ IsStore(p) /\ p.ttl = s.ttl /\ p.data[k] = <<type, v>>
          /\ \A j \in Key \ {k} : p.data[j] = s.data[j]
        BY <1>1, PutEntityStore
    <2> HIDE DEF p
    <2> QED  BY <1>1, <2>1
<1> HIDE DEF p
<1>3. p.data = s.data
    <2>1. p.data = [j \in Key |-> p.data[j]]
        <3>1. p.data = [j \in Key |-> <<p.data[j][1], p.data[j][2]>>]
            BY <1>2, PartsOfStore
        <3>2. PICK a : p.data = [j \in Key |-> a[j]]
            <4>1. PICK a : a = [j \in Key |-> <<p.data[j][1], p.data[j][2]>>]
                OBVIOUS
            <4> QED  BY <3>1, <4>1
        <3> QED  BY <3>2
    <2>2. s.data = [j \in Key |-> s.data[j]]
        <3>1. s.data = [j \in Key |-> <<s.data[j][1], s.data[j][2]>>]
            BY PartsOfStore
        <3>2. PICK a : s.data = [j \in Key |-> a[j]]
            <4>1. PICK a : a = [j \in Key |-> <<s.data[j][1], s.data[j][2]>>]
                OBVIOUS
            <4> QED  BY <3>1, <4>1
        <3> QED  BY <3>2
    <2> QED  BY <1>2, <2>1, <2>2
<1>4. Same(s, p)
    BY <1>2, <1>3 DEF Same
<1> QED  BY <1>1, <1>4 DEF p

LEMMA ListsRepeat ==
    ASSUME NEW s, NEW t, Same(s, t), Whole(s), NEW c, IsCommand(c), c.op \in ListOps \ {"rpoplpush"}
    PROVE  Repeats(s, t, c)
<1> DEFINE k == c.key
<1>1. k \in Key /\ IsStore(s)
    BY DEF IsCommand, Same
<1>2. /\ Exists(t, k) <=> Exists(s, k)
      /\ WrongType(t, k, "list") <=> WrongType(s, k, "list")
      /\ IsType(t, k, "list") <=> IsType(s, k, "list")
      /\ listOf(t, k) = listOf(s, k)
    BY SameReads
<1>3. /\ \A v : Same(PutEntity(s, k, List(v)), PutEntity(t, k, List(v)))
      /\ \A l : Same(PutOrRemove(s, k, l), PutOrRemove(t, k, l))
    BY <1>1, SameOneKey
<1>4. /\ Twins(Done(s), Done(t)) /\ Twins(Error(s), Error(t)) /\ Twins(Panicked(s), Panicked(t))
      /\ \A v, l : Twins(Logged(PutEntity(s, k, List(v)), l), Logged(PutEntity(t, k, List(v)), l))
      /\ \A v : Twins(Panicked(PutEntity(s, k, List(v))), Panicked(PutEntity(t, k, List(v))))
      /\ \A v, l : Twins(Logged(PutOrRemove(s, k, v), l), Logged(PutOrRemove(t, k, v), l))
    BY <1>3, TwinResults
<1>5. /\ LogsItself(s, c, Done(s)) /\ LogsItself(s, c, Error(s))
      /\ \A p : LogsItself(s, c, Panicked(p)) /\ LogsItself(s, c, Logged(p, <<c>>))
    BY <1>1, LogResults
<1> HIDE DEF k
<1>6. CASE c.op \in PushOps
    BY <1>2, <1>4, <1>5, <1>6
    DEF Repeats, execWithLock, execLPush, execRPush, execLPushX, execRPushX, PushOps, k
<1>7. CASE c.op \in {"lpop", "rpop"}
    BY <1>2, <1>4, <1>5, <1>7 DEF Repeats, execWithLock, execLPop, execRPop, k
<1>8. CASE c.op = "lset"
    BY <1>2, <1>4, <1>5, <1>8 DEF Repeats, execWithLock, execLSet, k
<1>9. CASE c.op = "lrem"
    <2> DEFINE l == listOf(s, k)
               gone == placesOf(l, c.n, c.args[1])
               left == Without(l, gone)
               line == IF gone = {} THEN <<>> ELSE <<c>>
    <2>1. /\ execWithLock(s, c) = IF WrongType(s, k, "list") THEN Error(s)
                                  ELSE IF ~Exists(s, k) THEN Done(s)
                                  ELSE IF Broken(l) THEN Panicked(s)
                                  ELSE [Done(PutOrRemove(s, k, left)) EXCEPT !.aof = line]
          /\ execWithLock(t, c) = IF WrongType(s, k, "list") THEN Error(t)
                                  ELSE IF ~Exists(s, k) THEN Done(t)
                                  ELSE IF Broken(l) THEN Panicked(t)
                                  ELSE [Done(PutOrRemove(t, k, left)) EXCEPT !.aof = line]
        BY <1>2, <1>9 DEF execWithLock, execLRem, k
    <2>2. ASSUME Exists(s, k), ~WrongType(s, k, "list"), gone = {}
          PROVE  Same(s, PutOrRemove(s, k, left))
        <3>1. PICK v : s.data[k] = <<"list", v>> /\ l = v
            <4>1. s.data[k] = <<s.data[k][1], s.data[k][2]>>
                BY <1>1, EntityOfStore
            <4> QED  BY <2>2, <4>1 DEF WrongType, Exists, TypeOf, ValueOf, listOf
        <3>2. GoodList(v)
            BY <1>1, <3>1 DEF Whole, WholeEntity
        <3>3. Without(v, {}) = v
            BY <3>2, WithoutNone DEF GoodList
        <3>4. PutOrRemove(s, k, left) = PutEntity(s, k, s.data[k])
            BY <2>2, <3>1, <3>2, <3>3 DEF PutOrRemove, GoodList, List
        <3> QED  BY <1>1, <3>4, PutBack
    <2> HIDE DEF l, gone, left
    <2>3. Twins([Done(PutOrRemove(s, k, left)) EXCEPT !.aof = line],
                [Done(PutOrRemove(t, k, left)) EXCEPT !.aof = line])
        BY <1>3, TwinResults
    <2>4. Exists(s, k) /\ ~WrongType(s, k, "list") =>
             LogsItself(s, c, [Done(PutOrRemove(s, k, left)) EXCEPT !.aof = line])
        BY <1>1, <2>2, LogResults
    <2> HIDE DEF line
    <2> QED  BY <1>4, <1>5, <2>1, <2>3, <2>4 DEF Repeats
<1> QED  BY <1>6, <1>7, <1>8, <1>9 DEF ListOps

LEMMA RPopLPushRepeats ==
    ASSUME NEW s, NEW t, Same(s, t), NEW c, IsCommand(c), c.op = "rpoplpush"
    PROVE  Repeats(s, t, c)
<1> DEFINE src == c.key
           dest == c.args[1]
           popped(u) == PutEntity(u, src, List(RemoveLast(listOf(s, src))))
           e == Last(listOf(s, src).page)
           pushed(u) == PutEntity(popped(u), dest, List(InsertFront(listOf(popped(s), dest), e)))
           after(u) == PutOrRemove(pushed(u), src, listOf(pushed(s), src))
<1>1. src \in Key /\ dest \in Key /\ IsStore(s)
    <2>1. c.args \in Seq(Key) /\ c.args # <<>> /\ c.key \in Key /\ IsStore(s)
        BY DEF IsCommand, Same
    <2> QED  BY <2>1
<1> HIDE DEF dest
<1>2. /\ Exists(t, src) <=> Exists(s, src)
      /\ WrongType(t, src, "list") <=> WrongType(s, src, "list")
      /\ WrongType(t, dest, "list") <=> WrongType(s, dest, "list")
      /\ listOf(t, src) = listOf(s, src)
    BY SameReads
<1> HIDE DEF src
<1>3. Same(popped(s), popped(t))
    BY <1>1, SameOneKey
<1>4. listOf(popped(t), dest) = listOf(popped(s), dest)
    BY <1>3, SameReads
<1> HIDE DEF e
<1>5. Same(pushed(s), pushed(t))
    <2> HIDE DEF popped
    <2> QED  BY <1>1, <1>3, SameOneKey
<1>6. listOf(pushed(t), src) = listOf(pushed(s), src)
    <2> HIDE DEF pushed
    <2> QED  BY <1>5, SameReads
<1>7. Same(after(s), after(t))
    <2> HIDE DEF pushed
    <2> QED  BY <1>1, <1>5, SameOneKey
<1>8. ASSUME NEW u \in {s, t}
      PROVE  execWithLock(u, c) = IF WrongType(s, src, "list") THEN Error(u)
                                  ELSE IF ~Exists(s, src) THEN Done(u)
                                  ELSE IF WrongType(s, dest, "list") THEN Error(u)
                                  ELSE Logged(after(u), <<c>>)
    BY <1>2, <1>4, <1>6 DEF execWithLock, execRPopLPush, src, dest, e
<1> HIDE DEF after
<1>9. /\ Twins(Done(s), Done(t)) /\ Twins(Error(s), Error(t))
      /\ Twins(Logged(after(s), <<c>>), Logged(after(t), <<c>>))
    BY <1>7, TwinResults
<1>10. /\ LogsItself(s, c, Done(s)) /\ LogsItself(s, c, Error(s))
       /\ \A p : LogsItself(s, c, Logged(p, <<c>>))
    BY <1>1, LogResults
<1> QED  BY <1>8, <1>9, <1>10 DEF Repeats

-----------------------------------------------------------------------------
(* Keys, hashes, sets and sorted sets.                                     *)

LEMMA SameRemoves ==
    ASSUME NEW s, NEW t, Same(s, t), NEW keys
    PROVE  Same(Removes(s, keys), Removes(t, keys))
<1> DEFINE p == Removes(s, keys)
           q == Removes(t, keys)
<1>1. IsStore(s) /\ IsStore(t) /\ t.data = s.data /\ t.ttl = s.ttl
    BY DEF Same
<1>2. IsStore(p) /\ IsStore(q)
    <2>1. ToSet(keys) \subseteq ToSet(keys)
        OBVIOUS
    <2> QED  BY <1>1, <2>1, WithinRemoves DEF Within
<1>3. q.data = p.data /\ q.ttl = p.ttl
    <2>1. {k \in ToSet(keys) : Exists(t, k)} = {k \in ToSet(keys) : Exists(s, k)}
        BY SameReads
    <2> DEFINE gone == {k \in ToSet(keys) : Exists(s, k)}
    <2>2. /\ p = [data |-> [k \in Key |-> IF k \in gone THEN Absent ELSE s.data[k]],
                  ttl |-> [k \in Key |-> IF k \in gone THEN NoTTL ELSE s.ttl[k]],
                  now |-> s.now]
          /\ q = [data |-> [k \in Key |-> IF k \in gone THEN Absent ELSE s.data[k]],
                  ttl |-> [k \in Key |-> IF k \in gone THEN NoTTL ELSE s.ttl[k]],
                  now |-> t.now]
        BY <1>1, <2>1 DEF Removes
    <2> HIDE DEF gone, p, q
    <2> QED  BY <2>2
<1> HIDE DEF p, q
<1>4. Same(p, q)
    BY <1>2, <1>3 DEF Same
<1> QED  BY <1>4 DEF p, q

\* Nothing is removed when none of the keys is there.
LEMMA RemovesNone ==
    ASSUME NEW s, IsStore(s), NEW keys, \A k \in ToSet(keys) : ~Exists(s, k)
    PROVE  Same(s, Removes(s, keys))
<1> DEFINE p == Removes(s, keys)
<1>1. IsStore(p)
    <2>1. ToSet(keys) \subseteq ToSet(keys)
        OBVIOUS
    <2> QED  BY <2>1, WithinRemoves DEF Within
<1>2. PICK a, x, m : s = [data |-> [k \in Key |-> a[k]], ttl |-> [k \in Key |-> x[k]], now |-> m]
    <2>1. /\ s = [data |-> s.data, ttl |-> s.ttl, now |-> s.now]
          /\ s.data = [k \in Key |-> <<s.data[k][1], s.data[k][2]>>]
          /\ s.ttl = [k \in Key |-> s.ttl[k]]
        BY PartsOfStore
    <2>2. PICK a : a = [k \in Key |-> <<s.data[k][1], s.data[k][2]>>]
        OBVIOUS
    <2>3. s.data = [k \in Key |-> a[k]]
        BY <2>1, <2>2
    <2>4. PICK x : x = s.ttl
        OBVIOUS
    <2>5. s.ttl = [k \in Key |-> x[k]]
        BY <2>1, <2>4
    <2> QED  BY <2>1, <2>3, <2>5
<1>3. {k \in ToSet(keys) : Exists(s, k)} = {}
    OBVIOUS
<1>4. p = [data |-> [k \in Key |-> s.data[k]], ttl |-> [k \in Key |-> s.ttl[k]], now |-> s.now]
    BY <1>3 DEF Removes
<1> HIDE DEF p
<1>5. p.data = s.data /\ p.ttl = s.ttl
    BY <1>2, <1>4
<1>6. Same(s, p)
    BY <1>1, <1>5 DEF Same
<1> QED  BY <1>6 DEF p

LEMMA SameMoveTTL ==
    ASSUME NEW s, NEW t, Same(s, t), NEW p, NEW q, Same(p, q), NEW src \in Key, NEW dest \in Key
    PROVE  Same(moveTTL(s, p, src, dest), moveTTL(t, q, src, dest))
<1>1. PICK n \in Nat : n = s.ttl[src] /\ n = t.ttl[src]
    <2>1. IsStore(s) /\ t.ttl = s.ttl
        BY DEF Same
    <2>2. s.ttl[src] \in Nat
        BY <2>1, PartsOfStore
    <2> QED  BY <2>1, <2>2
<1>2. Same(Persist(p, src), Persist(q, src))
    BY SamePersist
<1>3. Same(Expire(Persist(p, src), dest, n), Expire(Persist(q, src), dest, n))
    BY <1>2, SameExpire
<1> QED  BY <1>1, <1>3 DEF moveTTL

LEMMA KeysRepeat ==
    ASSUME NEW s, NEW t, Same(s, t), NEW c, IsCommand(c), c.op \in RenameOps \cup {"del", "persist"}
    PROVE  Repeats(s, t, c)
<1> DEFINE k == c.key
           dest == c.args[1]
<1>1. k \in Key /\ IsStore(s) /\ t.data = s.data /\ t.ttl = s.ttl
    BY DEF IsCommand, Same
<1>2. \A j : Exists(t, j) <=> Exists(s, j)
    BY SameReads
<1>3. /\ Twins(Done(s), Done(t)) /\ Twins(Error(s), Error(t))
      /\ \A p, q, l : Same(p, q) => Twins(Logged(p, l), Logged(q, l))
    BY TwinResults
<1>4. /\ LogsItself(s, c, Done(s)) /\ LogsItself(s, c, Error(s))
      /\ \A p : LogsItself(s, c, Logged(p, <<c>>))
    BY <1>1, LogResults
<1>5. CASE c.op = "persist"
    <2>1. Same(Persist(s, k), Persist(t, k))
        BY <1>1, SamePersist
    <2>2. t.ttl[k] = s.ttl[k]
        BY <1>1
    <2> QED  BY <1>2, <1>3, <1>4, <1>5, <2>1, <2>2 DEF Repeats, execWithLock, execPersist
<1>6. CASE c.op = "del"
    <2> DEFINE line == IF \E i \in DOMAIN c.args : Exists(s, c.args[i]) THEN <<c>> ELSE <<>>
    <2>1. /\ execWithLock(s, c) = [Done(Removes(s, c.args)) EXCEPT !.aof = line]
          /\ execWithLock(t, c) = [Done(Removes(t, c.args)) EXCEPT !.aof = line]
        BY <1>2, <1>6 DEF execWithLock, execDel
    <2>2. line = <<>> => Same(s, Removes(s, c.args))
        <3>1. ASSUME line = <<>>, NEW j \in ToSet(c.args) PROVE ~Exists(s, j)
            <4>1. PICK i \in DOMAIN c.args : j = c.args[i]
                BY DEF ToSet
            <4> QED  BY <3>1, <4>1
        <3> HIDE DEF line
        <3> QED  BY <1>1, <3>1, RemovesNone
    <2>3. line = <<>> \/ line = <<c>>
        OBVIOUS
    <2> HIDE DEF line
    <2>4. LogsItself(s, c, [Done(Removes(s, c.args)) EXCEPT !.aof = line])
        BY <1>1, <2>2, <2>3, LogResults
    <2>5. Twins([Done(Removes(s, c.args)) EXCEPT !.aof = line],
                [Done(Removes(t, c.args)) EXCEPT !.aof = line])
        BY SameRemoves, TwinResults
    <2> QED  BY <2>1, <2>4, <2>5 DEF Repeats
<1>7. ASSUME c.op \in RenameOps
      PROVE  /\ dest \in Key /\ s.data[k] = t.data[k]
             /\ \E type \in Types : \E v : s.data[k] = <<type, v>>
    <2>1. c.args \in Seq(Key) /\ c.args # <<>>
        BY <1>7 DEF IsCommand
    <2> QED  BY <1>1, <2>1, EntityOfStore
<1>8. CASE c.op = "rename"
    <2> DEFINE p == RemoveKey(PutEntity(s, dest, s.data[k]), k)
               q == RemoveKey(PutEntity(t, dest, s.data[k]), k)
    <2>1. Same(PutEntity(s, dest, s.data[k]), PutEntity(t, dest, s.data[k]))
        BY <1>7, <1>8, SamePut DEF RenameOps
    <2>2. Same(p, q)
        BY <1>1, <2>1, SameRemove
    <2> HIDE DEF p, q
    <2>3. dest \in Key
        BY <1>7, <1>8 DEF RenameOps
    <2>4. Same(moveTTL(s, p, k, dest), moveTTL(t, q, k, dest))
        BY <1>1, <2>2, <2>3, SameMoveTTL
    <2>5. /\ execWithLock(s, c) = IF ~Exists(s, k) THEN Error(s)
                                  ELSE Logged(moveTTL(s, p, k, dest), <<c>>)
          /\ execWithLock(t, c) = IF ~Exists(s, k) THEN Error(t)
                                  ELSE Logged(moveTTL(t, q, k, dest), <<c>>)
        BY <1>2, <1>7, <1>8 DEF execWithLock, execRename, RenameOps, p, q
    <2> QED  BY <1>3, <1>4, <2>4, <2>5 DEF Repeats
<1>9. CASE c.op = "renamenx"
    <2> DEFINE p == PutEntity(Removes(s, <<k, dest>>), dest, s.data[k])
               q == PutEntity(Removes(t, <<k, dest>>), dest, s.data[k])
    <2>1. Same(Removes(s, <<k, dest>>), Removes(t, <<k, dest>>))
        BY SameRemoves
    <2>2. Same(p, q)
        BY <1>7, <1>9, <2>1, SamePut DEF RenameOps
    <2> HIDE DEF p, q
    <2>3. dest \in Key
        BY <1>7, <1>9 DEF RenameOps
    <2>4. Same(moveTTL(s, p, k, dest), moveTTL(t, q, k, dest))
        BY <1>1, <2>2, <2>3, SameMoveTTL
    <2>5. /\ execWithLock(s, c) = IF Exists(s, dest) THEN Done(s)
                                  ELSE IF ~Exists(s, k) THEN Error(s)
                                  ELSE Logged(moveTTL(s, p, k, dest), <<c>>)
          /\ execWithLock(t, c) = IF Exists(s, dest) THEN Done(t)
                                  ELSE IF ~Exists(s, k) THEN Error(t)
                                  ELSE Logged(moveTTL(t, q, k, dest), <<c>>)
        BY <1>2, <1>7, <1>9 DEF execWithLock, execRenameNx, RenameOps, p, q
    <2> QED  BY <1>3, <1>4, <2>4, <2>5 DEF Repeats
<1> QED  BY <1>5, <1>6, <1>8, <1>9 DEF RenameOps

LEMMA HashesRepeat ==
    ASSUME NEW s, NEW t, Same(s, t), Whole(s), NEW c, IsCommand(c), c.op \in HashOps
    PROVE  Repeats(s, t, c)
<1> DEFINE k == c.key
           d == dictOf(s, k)
<1>1. k \in Key /\ IsStore(s)
    BY DEF IsCommand, Same
<1>2. /\ Exists(t, k) <=> Exists(s, k)
      /\ WrongType(t, k, "hash") <=> WrongType(s, k, "hash")
      /\ dictOf(t, k) = d
    BY SameReads
<1>3. \A v : Same(PutEntity(s, k, Hash(v)), PutEntity(t, k, Hash(v)))
    BY <1>1, SameOneKey
<1>4. \A new : Same(putAll(s, k, new), putAll(t, k, new))
    BY <1>2, <1>3 DEF putAll
<1>5. /\ Twins(Done(s), Done(t)) /\ Twins(Error(s), Error(t)) /\ Twins(Panicked(s), Panicked(t))
      /\ \A new, l : Twins(Logged(putAll(s, k, new), l), Logged(putAll(t, k, new), l))
      /\ \A f, cell, l : Twins(Logged(put(s, k, f, cell), l), Logged(put(t, k, f, cell), l))
    BY <1>4, TwinResults DEF put
<1>6. /\ LogsItself(s, c, Done(s)) /\ LogsItself(s, c, Error(s))
      /\ \A p : LogsItself(s, c, Panicked(p)) /\ LogsItself(s, c, Logged(p, <<c>>))
      /\ c.op = "hincrbyfloat" => \A p : LogsItself(s, c, Logged(p, <<>>))
    <2>1. c.op = "hincrbyfloat" => \A p : LogsItself(s, c, Logged(p, <<>>))
        BY DEF LogsItself, Logged, Unlogged
    <2> QED  BY <1>1, <2>1, LogResults
<1> HIDE DEF k, d
<1>7. CASE c.op \in {"hset", "hsetnx", "hmset"}
    BY <1>2, <1>5, <1>6, <1>7 DEF Repeats, execWithLock, execHSet, execHSetNX, execHMSet, k, d
<1>8. CASE c.op \in {"hincrby", "hincrbyfloat"}
    BY <1>2, <1>5, <1>6, <1>8
    DEF Repeats, execWithLock, execHIncrBy, execHIncrByFloat, countField, k, d
<1>9. CASE c.op = "hdel"
    <2> DEFINE left == DOMAIN d \ ToSet(c.args)
               h == [f \in left |-> d[f]]
               line == IF left = DOMAIN d THEN <<>> ELSE <<c>>
               after(u) == IF left = {} THEN RemoveKey(u, k) ELSE PutEntity(u, k, Hash(h))
    <2>1. /\ execWithLock(s, c) = IF WrongType(s, k, "hash") THEN Error(s)
                                  ELSE IF ~Exists(s, k) THEN Done(s)
                                  ELSE [Done(after(s)) EXCEPT !.aof = line]
          /\ execWithLock(t, c) = IF WrongType(s, k, "hash") THEN Error(t)
                                  ELSE IF ~Exists(s, k) THEN Done(t)
                                  ELSE [Done(after(t)) EXCEPT !.aof = line]
        BY <1>2, <1>9 DEF execWithLock, execHDel, k, d
    <2>2. ASSUME Exists(s, k), ~WrongType(s, k, "hash"), left = DOMAIN d
          PROVE  Same(s, after(s))
        <3>1. PICK v : s.data[k] = <<"hash", v>> /\ d = v
            <4>1. s.data[k] = <<s.data[k][1], s.data[k][2]>>
                BY <1>1, EntityOfStore
            <4> QED  BY <2>2, <4>1 DEF WrongType, Exists, TypeOf, ValueOf, dictOf, d
        <3>2. GoodHash(v)
            BY <1>1, <3>1 DEF Whole, WholeEntity
        <3>3. h = v /\ left # {}
            BY <2>2, <3>1, <3>2 DEF GoodHash, IsFcn
        <3> HIDE DEF h, left
        <3>4. after(s) = PutEntity(s, k, s.data[k])
            BY <3>1, <3>3 DEF Hash
        <3> QED  BY <1>1, <3>4, PutBack
    <2>3. Same(after(s), after(t))
        <3> HIDE DEF h, left
        <3> QED  BY <1>1, SameOneKey
    <2>4. line = <<c>> \/ (line = <<>> /\ left = DOMAIN d)
        OBVIOUS
    <2> HIDE DEF left, h, after, line
    <2>5. Twins([Done(after(s)) EXCEPT !.aof = line], [Done(after(t)) EXCEPT !.aof = line])
        BY <2>3, TwinResults
    <2>6. Exists(s, k) /\ ~WrongType(s, k, "hash") =>
             LogsItself(s, c, [Done(after(s)) EXCEPT !.aof = line])
        BY <1>1, <2>2, <2>4, LogResults
    <2> QED  BY <1>5, <1>6, <2>1, <2>5, <2>6 DEF Repeats
<1> QED  BY <1>7, <1>8, <1>9 DEF HashOps

LEMMA SetsRepeat ==
    ASSUME NEW s, NEW t, Same(s, t), NEW c, IsCommand(c), c.op \in SetOps \ {"spop"}
    PROVE  Repeats(s, t, c)
<1> DEFINE k == c.key
<1>1. k \in Key /\ IsStore(s)
    BY DEF IsCommand, Same
<1>2. \A j : /\ Exists(t, j) <=> Exists(s, j)
             /\ WrongType(t, j, "set") <=> WrongType(s, j, "set")
             /\ setOf(t, j) = setOf(s, j)
    BY SameReads
<1>3. /\ Same(RemoveKey(s, k), RemoveKey(t, k))
      /\ \A v : Same(PutEntity(s, k, HashSet(v)), PutEntity(t, k, HashSet(v)))
      /\ \A v : Same(PutEntity(RemoveKey(s, k), k, HashSet(v)), PutEntity(RemoveKey(t, k), k, HashSet(v)))
    BY <1>1, SameOneKey
<1>4. /\ Twins(Done(s), Done(t)) /\ Twins(Error(s), Error(t))
      /\ Twins(Done(RemoveKey(s, k)), Done(RemoveKey(t, k)))
      /\ \A v, l : Twins(Logged(PutEntity(s, k, HashSet(v)), l), Logged(PutEntity(t, k, HashSet(v)), l))
      /\ \A v, l : Twins(Logged(PutEntity(RemoveKey(s, k), k, HashSet(v)), l),
                         Logged(PutEntity(RemoveKey(t, k), k, HashSet(v)), l))
    BY <1>3, TwinResults
<1>5. /\ LogsItself(s, c, Done(s)) /\ LogsItself(s, c, Error(s))
      /\ \A p : LogsItself(s, c, Logged(p, <<c>>))
      /\ c.op \in StoreOps => \A p : LogsItself(s, c, Done(p))
    <2>1. c.op \in StoreOps => \A p : LogsItself(s, c, Done(p))
        BY DEF LogsItself, Done, Unlogged
    <2> QED  BY <1>1, <2>1, LogResults
<1> HIDE DEF k
<1>6. CASE c.op = "sadd"
    BY <1>2, <1>4, <1>5, <1>6 DEF Repeats, execWithLock, execSAdd, k
<1>7. CASE c.op = "srem"
    <2> DEFINE old == setOf(s, k)
               left == old \ ToSet(c.args)
               line == IF left = old THEN <<>> ELSE <<c>>
               after(u) == IF left = {} THEN RemoveKey(u, k) ELSE PutEntity(u, k, HashSet(left))
    <2>1. /\ execWithLock(s, c) = IF WrongType(s, k, "set") THEN Error(s)
                                  ELSE IF ~Exists(s, k) THEN Done(s)
                                  ELSE [Done(after(s)) EXCEPT !.aof = line]
          /\ execWithLock(t, c) = IF WrongType(s, k, "set") THEN Error(t)
                                  ELSE IF ~Exists(s, k) THEN Done(t)
                                  ELSE [Done(after(t)) EXCEPT !.aof = line]
        BY <1>2, <1>7 DEF execWithLock, execSRem, k
    <2>2. Same(after(s), after(t))
        <3> HIDE DEF left
        <3> QED  BY <1>3
    <2>3. line = <<>> \/ line = <<c>>
        OBVIOUS
    <2> HIDE DEF after, line, left, old
    <2>4. Twins([Done(after(s)) EXCEPT !.aof = line], [Done(after(t)) EXCEPT !.aof = line])
        BY <2>2, TwinResults
    <2>5. LogsItself(s, c, [Done(after(s)) EXCEPT !.aof = line])
        <3>1. LogsItself(s, c, [Done(after(s)) EXCEPT !.aof = <<>>])
            BY <1>7 DEF LogsItself, Done, Unlogged
        <3>2. LogsItself(s, c, [Done(after(s)) EXCEPT !.aof = <<c>>])
            BY <1>1, LogResults
        <3> QED  BY <2>3, <3>1, <3>2
    <2> QED  BY <1>4, <1>5, <2>1, <2>4, <2>5 DEF Repeats
<1>8. CASE c.op = "sinterstore"
    <2> DEFINE inter(i) == {m \in {} : \A j \in 2..i : m \in setOf(s, c.args[j])}
               ends == {i \in DOMAIN c.args : WrongType(s, c.args[i], "set") \/ ~Exists(s, c.args[i])
                                              \/ (i > 1 /\ inter(i) = {})}
               at == CHOOSE i \in ends : \A j \in ends : i <= j
    <2>1. \A i : {m \in {} : \A j \in 2..i : m \in setOf(t, c.args[j])} = inter(i)
        OBVIOUS
    <2>2. {i \in DOMAIN c.args : WrongType(t, c.args[i], "set") \/ ~Exists(t, c.args[i])
              \/ (i > 1 /\ {m \in {} : \A j \in 2..i : m \in setOf(t, c.args[j])} = {})} = ends
        BY <1>2, <2>1
    <2>3. /\ execWithLock(s, c) = IF ends = {} THEN Logged(PutEntity(s, k, HashSet({})), <<c>>)
                                  ELSE IF WrongType(s, c.args[at], "set") THEN Error(s)
                                  ELSE Done(RemoveKey(s, k))
          /\ execWithLock(t, c) = IF ends = {} THEN Logged(PutEntity(t, k, HashSet({})), <<c>>)
                                  ELSE IF WrongType(t, c.args[at], "set") THEN Error(t)
                                  ELSE Done(RemoveKey(t, k))
        BY <1>8, <2>2 DEF execWithLock, execSInterStore, Make, k
    <2> HIDE DEF ends, at
    <2> QED  BY <1>2, <1>4, <1>5, <1>8, <2>3 DEF Repeats, StoreOps
<1>9. CASE c.op = "sdiffstore"
    <2> DEFINE diff(i) == {m \in {} : \A j \in 2..i : m \notin setOf(s, c.args[j])}
               ends == {i \in DOMAIN c.args : \/ WrongType(s, c.args[i], "set")
                                              \/ i = 1 /\ ~Exists(s, c.args[1])
                                              \/ i > 1 /\ Exists(s, c.args[i]) /\ diff(i) = {}}
               at == CHOOSE i \in ends : \A j \in ends : i <= j
    <2>1. \A i : {m \in {} : \A j \in 2..i : m \notin setOf(t, c.args[j])} = diff(i)
        OBVIOUS
    <2>2. {i \in DOMAIN c.args : \/ WrongType(t, c.args[i], "set")
                                 \/ i = 1 /\ ~Exists(t, c.args[1])
                                 \/ /\ i > 1 /\ Exists(t, c.args[i])
                                    /\ {m \in {} : \A j \in 2..i : m \notin setOf(t, c.args[j])} = {}}
             = ends
        BY <1>2, <2>1
    <2>3. /\ execWithLock(s, c) = IF ends = {} THEN Logged(PutEntity(s, k, HashSet({})), <<c>>)
                                  ELSE IF WrongType(s, c.args[at], "set") THEN Error(s)
                                  ELSE Done(RemoveKey(s, k))
          /\ execWithLock(t, c) = IF ends = {} THEN Logged(PutEntity(t, k, HashSet({})), <<c>>)
                                  ELSE IF WrongType(t, c.args[at], "set") THEN Error(t)
                                  ELSE Done(RemoveKey(t, k))
        BY <1>9, <2>2 DEF execWithLock, execSDiffStore, Make, k
    <2> HIDE DEF ends, at
    <2> QED  BY <1>2, <1>4, <1>5, <1>9, <2>3 DEF Repeats, StoreOps
<1>10. CASE c.op = "sunionstore"
    <2> DEFINE present == {i \in DOMAIN c.args : Exists(s, c.args[i])}
    <2>1. {i \in DOMAIN c.args : Exists(t, c.args[i])} = present
        BY <1>2
    <2>2. /\ execWithLock(s, c) =
                IF \E i \in DOMAIN c.args : WrongType(s, c.args[i], "set") THEN Error(s)
                ELSE IF present = {} THEN Done(RemoveKey(s, k))
                ELSE Logged(PutEntity(RemoveKey(s, k), k, HashSet({})), <<c>>)
          /\ execWithLock(t, c) =
                IF \E i \in DOMAIN c.args : WrongType(t, c.args[i], "set") THEN Error(t)
                ELSE IF present = {} THEN Done(RemoveKey(t, k))
                ELSE Logged(PutEntity(RemoveKey(t, k), k, HashSet({})), <<c>>)
        BY <1>10, <2>1 DEF execWithLock, execSUnionStore, Make, k
    <2> HIDE DEF present
    <2> QED  BY <1>2, <1>4, <1>5, <1>10, <2>2 DEF Repeats, StoreOps
<1> QED  BY <1>6, <1>7, <1>8, <1>9, <1>10 DEF SetOps, StoreOps

LEMMA SortedSetsRepeat ==
    ASSUME NEW s, NEW t, Same(s, t), Whole(s), NEW c, IsCommand(c), c.op \in SortedSetOps \ {"zadd"}
    PROVE  Repeats(s, t, c)
<1> DEFINE k == c.key
           z == zsetOf(s, k)
<1>1. k \in Key /\ IsStore(s)
    BY DEF IsCommand, Same
<1>2. /\ Exists(t, k) <=> Exists(s, k)
      /\ WrongType(t, k, "zset") <=> WrongType(s, k, "zset")
      /\ zsetOf(t, k) = z
    BY SameReads
<1>3. \A v : Same(PutEntity(s, k, SortedSet(v)), PutEntity(t, k, SortedSet(v)))
    BY <1>1, SameOneKey
<1>4. /\ Twins(Done(s), Done(t)) /\ Twins(Error(s), Error(t))
      /\ \A v, l : Twins(Logged(PutEntity(s, k, SortedSet(v)), l),
                         Logged(PutEntity(t, k, SortedSet(v)), l))
      /\ \A v : Twins(Panicked(PutEntity(s, k, SortedSet(v))), Panicked(PutEntity(t, k, SortedSet(v))))
    BY <1>3, TwinResults
<1>5. /\ LogsItself(s, c, Done(s)) /\ LogsItself(s, c, Error(s))
      /\ \A p : LogsItself(s, c, Panicked(p)) /\ LogsItself(s, c, Logged(p, <<c>>))
    BY <1>1, LogResults
\* The commands that take members out of a sorted set that is there.
<1>6. ASSUME NEW gone, Exists(s, k), ~WrongType(s, k, "zset")
      PROVE  /\ LogsItself(s, c, removeMembers(s, c, gone))
             /\ Twins(removeMembers(s, c, gone), removeMembers(t, c, gone))
    <2> DEFINE left == only(z, DOMAIN z \ gone)
               line == IF gone \cap DOMAIN z = {} THEN <<>> ELSE <<c>>
               after(u) == PutEntity(u, k, SortedSet(left))
    <2>1. /\ removeMembers(s, c, gone) = [Done(after(s)) EXCEPT !.aof = line]
          /\ removeMembers(t, c, gone) = [Done(after(t)) EXCEPT !.aof = line]
        BY <1>2 DEF removeMembers
    <2>2. line = <<>> => Same(s, after(s))
        <3>1. PICK v : s.data[k] = <<"zset", v>> /\ z = v
            <4>1. s.data[k] = <<s.data[k][1], s.data[k][2]>>
                BY <1>1, EntityOfStore
            <4> QED  BY <1>6, <4>1 DEF WrongType, Exists, TypeOf, ValueOf, zsetOf
        <3>2. IsFcn(v)
            BY <1>1, <3>1 DEF Whole, WholeEntity
        <3>3. line = <<>> => DOMAIN z \ gone = DOMAIN z
            OBVIOUS
        <3>4. line = <<>> => left = v
            BY <3>1, <3>2, <3>3 DEF only, IsFcn
        <3> HIDE DEF left, line
        <3>5. line = <<>> => after(s) = PutEntity(s, k, s.data[k])
            BY <3>1, <3>4 DEF SortedSet
        <3> QED  BY <1>1, <3>5, PutBack
    <2>3. line = <<c>> \/ line = <<>>
        OBVIOUS
    <2>4. Same(after(s), after(t))
        <3> HIDE DEF left
        <3> QED  BY <1>3
    <2> HIDE DEF line, after
    <2>5. LogsItself(s, c, [Done(after(s)) EXCEPT !.aof = line])
        BY <1>1, <2>2, <2>3, LogResults
    <2>6. Twins([Done(after(s)) EXCEPT !.aof = line], [Done(after(t)) EXCEPT !.aof = line])
        BY <2>4, TwinResults
    <2> QED  BY <2>1, <2>5, <2>6
<1> HIDE DEF k, z
<1>7. CASE c.op = "zincrby"
    BY <1>2, <1>4, <1>5, <1>7 DEF Repeats, execWithLock, execZIncrBy, k, z
<1>8. CASE c.op \in {"zrem", "zpopmin", "zremrangebyscore", "zremrangebyrank"}
    <2>1. PICK gone, none :
             /\ execWithLock(s, c) = IF WrongType(s, k, "zset") THEN Error(s)
                                     ELSE IF ~Exists(s, k) \/ none THEN Done(s)
                                     ELSE removeMembers(s, c, gone)
             /\ execWithLock(t, c) = IF WrongType(s, k, "zset") THEN Error(t)
                                     ELSE IF ~Exists(s, k) \/ none THEN Done(t)
                                     ELSE removeMembers(t, c, gone)
        <3>1. CASE c.op = "zrem"
            <4> WITNESS ToSet(c.args), FALSE
            <4> QED  BY <1>2, <3>1 DEF execWithLock, execZRem, k, z
        <3>2. CASE c.op = "zpopmin"
            <4> WITNESS {m \in DOMAIN z : c.n <= 0 \/ RankOf(z, m) < c.n}, FALSE
            <4> QED  BY <1>2, <3>2 DEF execWithLock, execZPopMin, k, z
        <3>3. CASE c.op = "zremrangebyscore"
            <4> WITNESS {m \in DOMAIN z : c.args[1] <= z[m] /\ z[m] <= c.args[2]}, FALSE
            <4> QED  BY <1>2, <3>3 DEF execWithLock, execZRemRangeByScore, k, z
        <3>4. CASE c.op = "zremrangebyrank"
            <4> DEFINE size == Cardinality(DOMAIN z)
            <4> WITNESS {m \in DOMAIN z : RankOf(z, m) \in ranks(size, c.args[1], c.args[2])},
                        c.args[1] >= size
            <4> QED  BY <1>2, <3>4 DEF execWithLock, execZRemRangeByRank, k, z
        <3> QED  BY <1>8, <3>1, <3>2, <3>3, <3>4
    <2> QED  BY <1>4, <1>5, <1>6, <2>1 DEF Repeats, k
<1> QED  BY <1>7, <1>8 DEF SortedSetOps

-----------------------------------------------------------------------------
(* The commands that log other lines than themselves.                      *)

\* Two stores that differ in the clock and in the expiry of k.
Almost(p, q, k) == /\ IsStore(p) /\ IsStore(q) /\ q.data = p.data
                   /\ \A j \in Key \ {k} : q.ttl[j] = p.ttl[j]

LEMMA SameDeadline ==
    ASSUME NEW k \in Key, NEW p, NEW q, Almost(p, q, k), NEW n \in Nat
    PROVE  Same(Expire(p, k, n), Expire(q, k, n))
<1>1. /\ IsStore(Expire(p, k, n)) /\ IsStore(Expire(q, k, n))
      /\ Expire(p, k, n).data = p.data /\ Expire(q, k, n).data = q.data
      /\ Expire(p, k, n).ttl = [p.ttl EXCEPT ![k] = n] /\ Expire(q, k, n).ttl = [q.ttl EXCEPT ![k] = n]
    BY ExpireStore DEF Almost
<1>2. p.ttl \in [Key -> Nat] /\ q.ttl \in [Key -> Nat]
    BY PartsOfStore DEF Almost
<1>3. [p.ttl EXCEPT ![k] = n] = [q.ttl EXCEPT ![k] = n]
    BY <1>2 DEF Almost
<1> QED  BY <1>1, <1>3 DEF Same, Almost

\* Replayed(t, r): the lines of the result r, run on t, lead to its store.
Replayed(t, r) == r.fate = "ok" => Same(r.store, RunAll(t, r.aof))

LEMMA ExpiriesReplay ==
    ASSUME NEW s, NEW t, Same(s, t), NEW c, IsCommand(c), c.op \in ExpireOps
    PROVE  Replayed(t, execWithLock(s, c))
<1>1. c.key \in Key /\ c.n \in Nat /\ IsStore(s) /\ IsStore(t)
    BY DEF IsCommand, Same
<1>2. s.now \in Nat
    BY <1>1, PartsOfStore
<1>3. c.n * Second \in Nat /\ s.now + c.n * Second \in Nat /\ s.now + c.n \in Nat
    BY <1>1, <1>2 DEF Second
<1>4. ASSUME NEW n \in Nat PROVE Replayed(t, expireAt(s, c, n))
    <2>1. CASE ~Exists(s, c.key)
        <3>1. RunAll(t, <<>>) = t
            BY RunLines
        <3>2. expireAt(s, c, n) = Done(s)
            BY <2>1 DEF expireAt
        <3> QED  BY <3>1, <3>2 DEF Replayed, Done
    <2>2. CASE Exists(s, c.key)
        <3>1. Exists(t, c.key)
            BY <2>2, SameReads
        <3>2. RunAll(t, <<PExpireAt(c.key, n)>>) = Expire(t, c.key, n)
            <4>1. RunAll(t, <<PExpireAt(c.key, n)>>) = execWithLock(t, PExpireAt(c.key, n)).store
                BY RunLines
            <4> QED  BY <1>1, <3>1, <4>1, LoggedLines
        <3>3. Same(Expire(s, c.key, n), Expire(t, c.key, n))
            BY <1>1, SameExpire
        <3> QED  BY <2>2, <3>2, <3>3 DEF Replayed, expireAt, Logged
    <2> QED  BY <2>1, <2>2
<1> QED  BY <1>1, <1>3, <1>4
         DEF execWithLock, execExpire, execExpireAt, execPExpire, execPExpireAt, ExpireOps

\* A value and a deadline: the value is written first, with any expiry.
LEMMA PutThenDeadline ==
    ASSUME NEW s, NEW t, Same(s, t), NEW k \in Key, NEW v, NEW m \in Nat, NEW n \in Nat
    PROVE  Same(Expire(PutEntity(s, k, String(v)), k, n),
                execWithLock(Expire(PutEntity(t, k, String(v)), k, m), PExpireAt(k, n)).store)
<1> DEFINE p == PutEntity(s, k, String(v))
           q == PutEntity(t, k, String(v))
           u == Expire(q, k, m)
<1>1. Same(p, q)
    BY SameOneKey
<1>2. q.data[k] = <<"string", v>>
    BY PutEntityStore DEF Same, String, Types
<1> HIDE DEF p, q
<1>3. /\ IsStore(p) /\ IsStore(q) /\ q.data = p.data /\ q.ttl = p.ttl
      /\ IsStore(u) /\ u.data = q.data /\ u.ttl = [q.ttl EXCEPT ![k] = m]
    BY <1>1, ExpireStore DEF Same
<1> HIDE DEF u
<1>4. Exists(u, k)
    BY <1>2, <1>3 DEF Exists, TypeOf
<1>5. execWithLock(u, PExpireAt(k, n)).store = Expire(u, k, n)
    BY <1>3, <1>4, LoggedLines
<1>6. Almost(p, u, k)
    BY <1>3, PartsOfStore DEF Almost
<1>7. Same(Expire(p, k, n), execWithLock(u, PExpireAt(k, n)).store)
    BY <1>5, <1>6, SameDeadline
<1> QED  BY <1>7 DEF p, q, u

\* SETEX with some time to live, as the log has it.
LEMMA SetEXLine ==
    ASSUME NEW t, IsStore(t), NEW c, c.op = "setex", c.key \in Key, c.n \in Int, c.n > 0
    PROVE  \E m \in Nat : execWithLock(t, c).store =
                              Expire(PutEntity(t, c.key, String(c.args)), c.key, m)
<1>1. t.now \in Nat
    BY PartsOfStore
<1>2. t.now + c.n * Second \in Nat
    BY <1>1 DEF Second
<1>3. execWithLock(t, c) = execSetEX(t, c)
    BY DEF execWithLock
<1>4. execWithLock(t, c).store =
         Expire(PutEntity(t, c.key, String(c.args)), c.key, t.now + c.n * Second)
    BY <1>3 DEF execSetEX, Logged
<1> QED  BY <1>2, <1>4

\* SET with a time to live, SETEX and PSETEX.
LEMMA DeadlinesReplay ==
    ASSUME NEW s, NEW t, Same(s, t), NEW c, IsCommand(c),
           \/ c.op \in {"setex", "psetex"}
           \/ c.op = "set" /\ c.n # NoTTL
    PROVE  Replayed(t, execWithLock(s, c))
<1> DEFINE k == c.key
           v == c.args
           At(n) == Expire(PutEntity(s, k, String(v)), k, n)
<1>1. k \in Key /\ c.n \in Int /\ IsStore(s) /\ IsStore(t)
    BY DEF IsCommand, Same
<1>2. s.now \in Nat
    BY <1>1, PartsOfStore
<1>3. Replayed(t, Error(s)) /\ Replayed(t, Done(s))
    <2>1. RunAll(t, <<>>) = t
        BY RunLines
    <2> QED  BY <2>1 DEF Replayed, Error, Done
<1>4. ASSUME NEW a, NEW m \in Nat, NEW n \in Nat,
             execWithLock(t, a).store = Expire(PutEntity(t, k, String(v)), k, m)
      PROVE  Replayed(t, Logged(At(n), <<a, PExpireAt(k, n)>>))
    <2>1. RunAll(t, <<a, PExpireAt(k, n)>>) =
             execWithLock(execWithLock(t, a).store, PExpireAt(k, n)).store
        BY RunLines
    <2>2. Same(At(n), RunAll(t, <<a, PExpireAt(k, n)>>))
        BY <1>1, <1>4, <2>1, PutThenDeadline
    <2> QED  BY <2>2 DEF Replayed, Logged
<1>5. CASE c.op = "set" /\ c.n # NoTTL
    <2>1. c.n > 0 => s.now + c.n \in Nat
        BY <1>1, <1>2
    <2>2. ASSUME NEW n \in Nat
          PROVE  Replayed(t, Logged(At(n), <<Set(k, v), PExpireAt(k, n)>>))
        <3>1. /\ NoTTL \in Nat
              /\ execWithLock(t, Set(k, v)).store = Expire(PutEntity(t, k, String(v)), k, NoTTL)
            <4> DEFINE q == PutEntity(t, k, String(v))
            <4>1. execWithLock(t, Set(k, v)).store = Persist(q, k)
                <5>1. \A w : execWithLock(t, Set(k, w)).store = Persist(PutEntity(t, k, String(w)), k)
                    BY <1>1, LoggedLines
                <5> QED  BY <5>1
            <4> HIDE DEF q
            <4>2. Persist(q, k) = Expire(q, k, NoTTL) /\ NoTTL \in Nat
                BY DEF NoTTL, Persist, Expire
            <4> QED  BY <4>1, <4>2 DEF q
        <3> QED  BY <1>4, <3>1
    <2>3. c.n < 0 \/ c.n > 0
        BY <1>1, <1>5 DEF NoTTL
    <2>4. execWithLock(s, c) = execSet(s, c)
        BY <1>5 DEF execWithLock
    <2> HIDE DEF At
    <2>5. \/ execSet(s, c) = Error(s) \/ execSet(s, c) = Done(s)
          \/ c.n > 0 /\ execSet(s, c) = Logged(At(s.now + c.n),
                                               <<Set(k, v), PExpireAt(k, s.now + c.n)>>)
        BY <1>5, <2>3 DEF execSet, At
    <2> QED  BY <1>3, <2>1, <2>2, <2>4, <2>5
<1>6. CASE c.op = "setex"
    <2>1. execWithLock(s, c) = execSetEX(s, c)
        BY <1>6 DEF execWithLock
    <2>2. CASE c.n <= 0
        BY <1>3, <2>1, <2>2 DEF execSetEX
    <2>3. CASE c.n > 0
        <3>1. PICK n \in Nat : n = s.now + c.n * Second
            BY <1>1, <1>2, <2>3 DEF Second
        <3>2. PICK m \in Nat : execWithLock(t, c).store = Expire(PutEntity(t, k, String(v)), k, m)
            BY <1>1, <1>6, <2>3, SetEXLine
        <3>3. execSetEX(s, c) = Logged(At(n), <<c, PExpireAt(k, n)>>)
            BY <1>1, <2>3, <3>1 DEF execSetEX
        <3>4. Replayed(t, Logged(At(n), <<c, PExpireAt(k, n)>>))
            BY <1>4, <3>2
        <3> QED  BY <2>1, <3>3, <3>4
    <2> QED  BY <1>1, <2>2, <2>3
<1>7. CASE c.op = "psetex"
    <2>1. execWithLock(s, c) = execPSetEX(s, c)
        BY <1>7 DEF execWithLock
    <2>2. CASE c.n <= 0
        BY <1>3, <2>1, <2>2 DEF execPSetEX
    <2>3. CASE c.n > 0
        <3> DEFINE a == Command("setex", k, c.n, v)
        <3>1. PICK n \in Nat : n = s.now + c.n
            BY <1>1, <1>2, <2>3
        <3>2. a.op = "setex" /\ a.key = k /\ a.n = c.n /\ a.args = v
            BY DEF Command
        <3>3. execPSetEX(s, c) = Logged(At(n), <<a, PExpireAt(k, n)>>)
            BY <1>1, <2>3, <3>1 DEF execPSetEX
        <3> HIDE DEF a
        <3>4. PICK m \in Nat : execWithLock(t, a).store = Expire(PutEntity(t, k, String(v)), k, m)
            BY <1>1, <2>3, <3>2, SetEXLine
        <3>5. Replayed(t, Logged(At(n), <<a, PExpireAt(k, n)>>))
            BY <1>4, <3>4
        <3> QED  BY <2>1, <3>3, <3>5
    <2> QED  BY <1>1, <2>2, <2>3
<1> QED  BY <1>5, <1>6, <1>7

LEMMA RemovesOne ==
    ASSUME NEW s, IsStore(s), NEW k \in Key, Exists(s, k)
    PROVE  Same(RemoveKey(s, k), Removes(s, <<k>>))
<1> DEFINE p == RemoveKey(s, k)
           q == Removes(s, <<k>>)
<1>1. Same(p, p) /\ Same(q, q)
    <2>1. Same(s, s)
        BY DEF Same
    <2> QED  BY <2>1, SameRemove, SameRemoves
<1>2. ToSet(<<k>>) = {k}
    BY DEF ToSet
<1>3. /\ q.data = [j \in Key |-> IF j = k THEN Absent ELSE s.data[j]]
      /\ q.ttl = [j \in Key |-> IF j = k THEN NoTTL ELSE s.ttl[j]]
    BY <1>2 DEF Removes
<1>4. /\ p.data = [j \in Key |-> IF j = k THEN Absent ELSE s.data[j]]
      /\ p.ttl = [j \in Key |-> IF j = k THEN NoTTL ELSE s.ttl[j]]
    <2>1. /\ s = [data |-> s.data, ttl |-> s.ttl, now |-> s.now]
          /\ s.data = [j \in Key |-> <<s.data[j][1], s.data[j][2]>>]
          /\ s.ttl = [j \in Key |-> s.ttl[j]]
        BY PartsOfStore
    <2>2. PICK a : a = [j \in Key |-> <<s.data[j][1], s.data[j][2]>>]
        OBVIOUS
    <2>3. PICK x : x = [j \in Key |-> s.ttl[j]]
        OBVIOUS
    <2>4. PICK n : n = s.now
        OBVIOUS
    <2>5. s = [data |-> a, ttl |-> x, now |-> n] /\ DOMAIN a = Key /\ DOMAIN x = Key
        BY <2>1, <2>2, <2>3, <2>4
    <2> DEFINE b == [a EXCEPT ![k] = Absent]
               y == [x EXCEPT ![k] = NoTTL]
    <2>6. PutEntity(s, k, Absent) = [data |-> b, ttl |-> x, now |-> n]
        BY <2>5 DEF PutEntity
    <2>7. /\ b = [j \in Key |-> IF j = k THEN Absent ELSE a[j]]
          /\ y = [j \in Key |-> IF j = k THEN NoTTL ELSE x[j]]
        BY <2>5
    <2> HIDE DEF b
    <2>8. p = [data |-> b, ttl |-> y, now |-> n]
        BY <2>6 DEF RemoveKey, Persist
    <2> HIDE DEF y, p
    <2>9. p.data = b /\ p.ttl = y /\ s.data = a /\ s.ttl = x
        BY <2>5, <2>8
    <2> QED  BY <2>7, <2>9
<1> HIDE DEF p, q
<1>5. Same(p, q)
    BY <1>1, <1>3, <1>4 DEF Same
<1> QED  BY <1>5 DEF p, q

LEMMA SameChains ==
    ASSUME NEW p, NEW q, Same(p, q)
    PROVE  Same(q, p) /\ \A r : Same(q, r) => Same(p, r)
BY DEF Same

\* GETEX, GETSET and GETDEL log the change of the key alone.
LEMMA GetsReplay ==
    ASSUME NEW s, NEW t, Same(s, t), NEW c, IsCommand(c), c.op \in {"getex", "getset", "getdel"}
    PROVE  Replayed(t, execWithLock(s, c))
<1> DEFINE k == c.key
<1>1. k \in Key /\ c.n \in Int /\ IsStore(s) /\ IsStore(t) /\ s.now \in Nat
    <2>1. k \in Key /\ c.n \in Int /\ IsStore(s) /\ IsStore(t)
        BY DEF IsCommand, Same
    <2> QED  BY <2>1, PartsOfStore
<1>2. \A p : Replayed(t, Error(p)) /\ Replayed(t, Done(s))
    <2>1. RunAll(t, <<>>) = t
        BY RunLines
    <2> QED  BY <2>1 DEF Replayed, Error, Done
<1>3. ASSUME NEW a, NEW p, Same(p, execWithLock(t, a).store)
      PROVE  Replayed(t, Logged(p, <<a>>))
    <2>1. RunAll(t, <<a>>) = execWithLock(t, a).store
        BY RunLines
    <2> QED  BY <1>3, <2>1 DEF Replayed, Logged
<1>4. Exists(t, k) <=> Exists(s, k)
    BY SameReads
<1>5. CASE c.op = "getset"
    <2>1. Replayed(t, Logged(Persist(PutEntity(s, k, String(c.args)), k), <<Set(k, c.args)>>))
        <3>1. \A v : execWithLock(t, Set(k, v)).store = Persist(PutEntity(t, k, String(v)), k)
            BY <1>1, LoggedLines
        <3>2. \A v : Same(Persist(PutEntity(s, k, String(v)), k),
                          Persist(PutEntity(t, k, String(v)), k))
            BY <1>1, SameOneKey
        <3>3. Same(Persist(PutEntity(s, k, String(c.args)), k),
                   execWithLock(t, Set(k, c.args)).store)
            BY <3>1, <3>2
        <3> QED  BY <1>3, <3>3
    <2> QED  BY <1>2, <1>5, <2>1 DEF execWithLock, execGetSet
<1>6. CASE c.op = "getdel"
    <2>1. Exists(s, k) => Replayed(t, Logged(RemoveKey(s, k), <<Del(k)>>))
        <3>1. execWithLock(t, Del(k)).store = Removes(t, <<k>>)
            BY <1>1, LoggedLines
        <3>2. Same(Removes(s, <<k>>), Removes(t, <<k>>))
            BY SameRemoves
        <3>3. Exists(s, k) => Same(RemoveKey(s, k), Removes(s, <<k>>))
            BY <1>1, RemovesOne
        <3>4. Exists(s, k) => Same(RemoveKey(s, k), execWithLock(t, Del(k)).store)
            BY <3>1, <3>2, <3>3, SameChains
        <3> QED  BY <1>3, <3>4
    <2> QED  BY <1>2, <1>6, <2>1 DEF execWithLock, execGetDel
<1>7. CASE c.op = "getex"
    <2>1. ASSUME NEW n \in Nat, Exists(s, k)
          PROVE  Replayed(t, Logged(Expire(s, k, n), <<PExpireAt(k, n)>>))
        <3>1. \A i : execWithLock(t, PExpireAt(k, i)).store = Expire(t, k, i)
            BY <1>1, <1>4, <2>1, LoggedLines
        <3>2. Same(Expire(s, k, n), execWithLock(t, PExpireAt(k, n)).store)
            BY <1>1, <3>1, SameExpire
        <3> QED  BY <1>3, <3>2
    <2>2. Exists(s, k) => Replayed(t, Logged(Persist(s, k), <<On("persist", k)>>))
        <3>1. CASE Exists(s, k) /\ t.ttl[k] = NoTTL
            <4>1. execWithLock(t, On("persist", k)).store = t
                BY <1>1, <3>1, LoggedLines
            <4>2. NoTTL \in Nat /\ Persist(s, k) = Expire(s, k, NoTTL)
                BY DEF NoTTL, Persist, Expire
            <4> DEFINE p == Persist(s, k)
            <4>3. IsStore(p) /\ p.data = s.data /\ p.ttl = [s.ttl EXCEPT ![k] = NoTTL]
                BY <1>1, <4>2, ExpireStore
            <4> HIDE DEF p
            <4>4. [s.ttl EXCEPT ![k] = NoTTL] = s.ttl
                <5>1. t.ttl = s.ttl
                    BY DEF Same
                <5>2. s.ttl \in [Key -> Nat]
                    BY <1>1, PartsOfStore
                <5> QED  BY <3>1, <5>1, <5>2
            <4>5. Same(p, t)
                BY <4>3, <4>4 DEF Same
            <4> QED  BY <1>3, <4>1, <4>5 DEF p
        <3>2. CASE Exists(s, k) /\ t.ttl[k] # NoTTL
            <4>1. execWithLock(t, On("persist", k)).store = Persist(t, k)
                BY <1>1, <1>4, <3>2, LoggedLines
            <4> QED  BY <1>1, <1>3, <4>1, SamePersist
        <3> QED  BY <3>1, <3>2
    <2>3. \/ c.n < 0
          \/ c.n = NoTTL
          \/ c.n # NoTTL /\ ~(c.n < 0) /\ s.now + c.n \in Nat
        BY <1>1 DEF NoTTL
    <2>4. execWithLock(s, c) = execGetEX(s, c)
        BY <1>7 DEF execWithLock
    <2> QED  BY <1>2, <2>1, <2>2, <2>3, <2>4 DEF execGetEX
<1> QED  BY <1>5, <1>6, <1>7

\* The log of a command that repeats itself.
LEMMA RepeatsReplay ==
    ASSUME NEW s, NEW t, Same(s, t), NEW c, Repeats(s, t, c), ~Unlogged(c, execWithLock(s, c))
    PROVE  Replayed(t, execWithLock(s, c))
<1> DEFINE r == execWithLock(s, c)
<1>1. LogsItself(s, c, r) /\ Same(r.store, execWithLock(t, c).store)
    BY DEF Repeats, Twins
<1>2. RunAll(t, <<>>) = t /\ RunAll(t, <<c>>) = execWithLock(t, c).store
    BY RunLines
<1> HIDE DEF r
<1>3. CASE r.aof = <<>> /\ Same(s, r.store)
    <2>1. Same(r.store, s)
        BY <1>3, SameChains
    <2>2. Same(r.store, t)
        BY <2>1, SameChains
    <2> QED  BY <1>2, <1>3, <2>2 DEF Replayed, r
<1>4. CASE r.aof = <<c>>
    BY <1>1, <1>2, <1>4 DEF Replayed, r
<1> QED  BY <1>1, <1>3, <1>4 DEF LogsItself, Replayed, r

\* The log of every command that is logged.
LEMMA EveryLogReplays ==
    ASSUME NEW s, NEW t, Same(s, t), Whole(s), NEW c, IsCommand(c),
           ~Unlogged(c, execWithLock(s, c))
    PROVE  Replayed(t, execWithLock(s, c))
<1>1. c.op \notin {"zadd", "spop"}
    BY DEF Unlogged
<1>2. CASE c.op \in StringOps
    <2>1. CASE \/ c.op \in {"get", "setnx", "incr", "incrby", "incrbyfloat", "decr", "decrby",
                            "append", "setrange"}
               \/ c.op = "set" /\ c.n = NoTTL
        BY <2>1, StringsRepeat, RepeatsReplay
    <2>2. CASE c.op \in {"mset", "msetnx"}
        BY <2>2, MSetsRepeat, RepeatsReplay
    <2>3. CASE \/ c.op \in {"setex", "psetex"}
               \/ c.op = "set" /\ c.n # NoTTL
        BY <2>3, DeadlinesReplay
    <2>4. CASE c.op \in {"getex", "getset", "getdel"}
        BY <2>4, GetsReplay
    <2> QED  BY <1>2, <2>1, <2>2, <2>3, <2>4 DEF StringOps
<1>3. CASE c.op \in ListOps \ {"rpoplpush"}
    BY <1>3, ListsRepeat, RepeatsReplay
<1>4. CASE c.op = "rpoplpush"
    BY <1>4, RPopLPushRepeats, RepeatsReplay
<1>5. CASE c.op \in RenameOps \cup {"del", "persist"}
    BY <1>5, KeysRepeat, RepeatsReplay
<1>6. CASE c.op \in ExpireOps
    BY <1>6, ExpiriesReplay
<1>7. CASE c.op \in HashOps
    BY <1>7, HashesRepeat, RepeatsReplay
<1>8. CASE c.op \in SetOps
    BY <1>1, <1>8, SetsRepeat, RepeatsReplay
<1>9. CASE c.op \in SortedSetOps
    BY <1>1, <1>9, SortedSetsRepeat, RepeatsReplay
<1> QED  BY <1>2, <1>3, <1>4, <1>5, <1>6, <1>7, <1>8, <1>9 DEF IsCommand, KeyOps

\* A store is itself at any other time.
LEMMA SameLater ==
    ASSUME NEW s, IsStore(s), NEW n \in Nat
    PROVE  Same(s, [s EXCEPT !.now = n])
<1> DEFINE t == [s EXCEPT !.now = n]
<1>1. t = [data |-> s.data, ttl |-> s.ttl, now |-> n]
    <2>1. s = [data |-> s.data, ttl |-> s.ttl, now |-> s.now]
        BY PartsOfStore
    <2>2. PICK a, x, m : a = s.data /\ x = s.ttl /\ m = s.now
        OBVIOUS
    <2>3. s = [data |-> a, ttl |-> x, now |-> m]
        BY <2>1, <2>2
    <2> QED  BY <2>2, <2>3
<1>2. IsStore([data |-> s.data, ttl |-> s.ttl, now |-> n])
    BY StoreOfParts, PartsOfStore
<1> HIDE DEF t
<1>3. Same(s, t)
    BY <1>1, <1>2 DEF Same
<1> QED  BY <1>3 DEF t

\* Whatever commands came before, the lines the next one passes to addAof do to
\* the store, whenever they are replayed, what the command did: the relative
\* expiries of SETEX, PSETEX, SET, GETEX and EXPIRE do not move (string.go:276 logs
\* a PSETEX as a SETEX and its time).
THEOREM LogAlwaysReplays == Spec => []AofReplays
<1>1. StoreWhole => AofReplays
    <2> SUFFICES ASSUME StoreWhole, NEW c \in Sent, execWithLock(store, c).fate = "ok",
                        ~Unlogged(c, execWithLock(store, c)), NEW k \in Key
                 PROVE  Agree(RunAll([store EXCEPT !.now = Later], execWithLock(store, c).aof),
                              execWithLock(store, c).store, k)
        BY DEF AofReplays
    <2> DEFINE t == [store EXCEPT !.now = Later]
               r == execWithLock(store, c)
    <2>1. IsCommand(c)
        BY ClientAssumption DEF Sent
    <2>2. IsStore(store) /\ Whole(store)
        BY DEF StoreWhole, StoreInv
    <2>3. Same(store, t)
        BY <2>2, LaterAssumption, SameLater
    <2> HIDE DEF t
    <2>4. Same(r.store, RunAll(t, r.aof))
        BY <2>1, <2>2, <2>3, EveryLogReplays DEF Replayed
    <2> HIDE DEF r
    <2>5. Agree(RunAll(t, r.aof), r.store, k)
        BY <2>4 DEF Agree, Same, TypeOf, ValueOf
    <2> QED  BY <2>5 DEF t, r
<1> QED  BY <1>1, StoreStaysWhole, PTL

-----------------------------------------------------------------------------
(* Undo logs, run after the command.                                       *)

\* A line turns what a store has of a key from one of A into one of B.
Turns(c, k, A, B) ==
    \A w : IsStore(w) /\ Slot(w, k) \in A => Slot(execWithLock(w, c).store, k) \in B

\* The lines of a log, one after the other.
LEMMA LineByLine ==
    ASSUME NEW u, IsStore(u), NEW k, NEW K, NEW log, IsLog(log, K), NEW X,
           Slot(u, k) \in X[0],
           \A i \in 1..Len(log) : Turns(log[i], k, X[i-1], X[i])
    PROVE  Slot(RunAll(u, log), k) \in X[Len(log)]
<1> DEFINE n == Len(log)
<1>1. n \in Nat /\ \A i \in 1..n : IsCommand(log[i])
    BY DEF IsLog, IsLine
<1>2. PICK g : Passes(u, log, n, g)
    BY <1>1, RunPasses
<1> HIDE DEF n
<1>3. RunAll(u, log) = g[n]
    BY <1>2 DEF Passes
<1>4. \A i \in 0..n : g[i] = IF i = 0 THEN u ELSE execWithLock(g[i-1], log[i]).store
    BY <1>2 DEF Passes
<1> DEFINE T == {i \in Nat : i \in 0..n => IsStore(g[i]) /\ Slot(g[i], k) \in X[i]}
<1>5. 0 \in T
    <2>1. 0 \in 0..n
        BY <1>1
    <2>2. g[0] = u
        BY <1>4, <2>1
    <2> QED  BY <2>2
<1>6. ASSUME NEW i \in T PROVE i + 1 \in T
    <2>1. i \in Nat
        OBVIOUS
    <2>2. SUFFICES ASSUME i + 1 \in 0..n PROVE IsStore(g[i+1]) /\ Slot(g[i+1], k) \in X[i+1]
        BY <2>1
    <2>3. i \in 0..n /\ i + 1 \in 1..n /\ i + 1 # 0 /\ (i + 1) - 1 = i
        BY <1>1, <2>1, <2>2
    <2>4. IsStore(g[i]) /\ Slot(g[i], k) \in X[i]
        BY <2>3
    <2>5. g[i+1] = execWithLock(g[i], log[i+1]).store
        BY <1>4, <2>2, <2>3
    <2>6. IsCommand(log[i+1])
        BY <1>1, <2>3
    <2>7. IsStore(g[i+1])
        BY <2>4, <2>5, <2>6, EveryCommand DEF Ended, Within
    <2>8. Turns(log[i+1], k, X[i], X[i+1])
        <3> DEFINE j == i + 1
        <3>1. j \in 1..Len(log) /\ j - 1 = i
            BY <2>3 DEF n
        <3> HIDE DEF j
        <3>2. Turns(log[j], k, X[j-1], X[j])
            BY <3>1
        <3> QED  BY <3>1, <3>2 DEF j
    <2>9. Slot(g[i+1], k) \in X[i+1]
        BY <2>4, <2>5, <2>8 DEF Turns
    <2> QED  BY <2>7, <2>9
<1>7. T = Nat
    <2>1. T \in SUBSET Nat
        OBVIOUS
    <2> HIDE DEF T
    <2> QED  BY <1>5, <1>6, <2>1, NatSet
<1>8. n \in T /\ n \in 0..n
    <2>1. n \in 0..n
        BY <1>1
    <2> HIDE DEF T
    <2> QED  BY <1>1, <1>7, <2>1
<1>9. Slot(g[n], k) \in X[n]
    BY <1>8
<1> QED  BY <1>3, <1>9 DEF n

\* What a slot says.
LEMMA SlotParts ==
    ASSUME NEW w, NEW k, NEW t, NEW v, NEW n, Slot(w, k) = <<<<t, v>>, n>>
    PROVE  /\ w.data[k] = <<t, v>> /\ w.ttl[k] = n
           /\ TypeOf(w, k) = t /\ ValueOf(w, k) = v
           /\ Exists(w, k) <=> t # "none"
<1>1. w.data[k] = <<t, v>> /\ w.ttl[k] = n
    BY DEF Slot
<1> QED  BY <1>1 DEF TypeOf, ValueOf, Exists

LEMMA PutSlot ==
    ASSUME NEW w, IsStore(w), NEW k \in Key, NEW t \in Types, NEW v
    PROVE  Slot(PutEntity(w, k, <<t, v>>), k) = <<<<t, v>>, w.ttl[k]>>
<1>1. PutEntity(w, k, <<t, v>>).data[k] = <<t, v>> /\ PutEntity(w, k, <<t, v>>).ttl = w.ttl
    BY PutEntityStore
<1> QED  BY <1>1 DEF Slot

\* Nothing of a key.
Nothing == <<Absent, NoTTL>>

LEMMA DropSlot ==
    ASSUME NEW w, IsStore(w), NEW k \in Key
    PROVE  Slot(RemoveKey(w, k), k) = Nothing
BY SlotsOneKey DEF Nothing

\* The executors of the lines of logs.
LEMMA LineExecs ==
    ASSUME NEW w, NEW k, NEW n, NEW a
    PROVE  /\ execWithLock(w, On("lpop", k)) = execLPop(w, On("lpop", k))
           /\ execWithLock(w, On("rpop", k)) = execRPop(w, On("rpop", k))
           /\ execWithLock(w, Command("lpush", k, n, a)) = execLPush(w, Command("lpush", k, n, a))
           /\ execWithLock(w, Command("rpush", k, n, a)) = execRPush(w, Command("rpush", k, n, a))
           /\ execWithLock(w, Command("lset", k, n, a)) = execLSet(w, Command("lset", k, n, a))
           /\ execWithLock(w, Command("hdel", k, n, a)) = execHDel(w, Command("hdel", k, n, a))
           /\ execWithLock(w, Command("sadd", k, n, a)) = execSAdd(w, Command("sadd", k, n, a))
           /\ execWithLock(w, Command("srem", k, n, a)) = execSRem(w, Command("srem", k, n, a))
           /\ execWithLock(w, Command("zadd", k, n, a)) = execZAdd(w, Command("zadd", k, n, a))
<1>1. ASSUME NEW c, c.op = "lpop" PROVE execWithLock(w, c) = execLPop(w, c)
    BY <1>1 DEF execWithLock
<1>2. ASSUME NEW c, c.op = "rpop" PROVE execWithLock(w, c) = execRPop(w, c)
    BY <1>2 DEF execWithLock
<1>3. ASSUME NEW c, c.op = "lpush" PROVE execWithLock(w, c) = execLPush(w, c)
    BY <1>3 DEF execWithLock
<1>4. ASSUME NEW c, c.op = "rpush" PROVE execWithLock(w, c) = execRPush(w, c)
    BY <1>4 DEF execWithLock
<1>5. ASSUME NEW c, c.op = "lset" PROVE execWithLock(w, c) = execLSet(w, c)
    BY <1>5 DEF execWithLock
<1>6. ASSUME NEW c, c.op = "hdel" PROVE execWithLock(w, c) = execHDel(w, c)
    BY <1>6 DEF execWithLock
<1>7. ASSUME NEW c, c.op = "sadd" PROVE execWithLock(w, c) = execSAdd(w, c)
    BY <1>7 DEF execWithLock
<1>8. ASSUME NEW c, c.op = "srem" PROVE execWithLock(w, c) = execSRem(w, c)
    BY <1>8 DEF execWithLock
<1>9. ASSUME NEW c, c.op = "zadd" PROVE execWithLock(w, c) = execZAdd(w, c)
    BY <1>9 DEF execWithLock
<1> QED  BY <1>1, <1>2, <1>3, <1>4, <1>5, <1>6, <1>7, <1>8, <1>9 DEF On, Command

LEMMA PushOne ==
    ASSUME NEW l, NEW x
    PROVE  pushHead(l, <<x>>) = InsertFront(l, x)
<1> DEFINE values == <<x>>
           g == CHOOSE f : Pushes(l, values, 1, f)
<1>1. Len(values) = 1 /\ values[1] = x
    OBVIOUS
<1>2. pushHead(l, values) = g[1]
    BY <1>1 DEF pushHead, Pushes
<1> HIDE DEF values
<1>3. \E f : Pushes(l, values, 1, f)
    BY PushHeadSteps
<1> HIDE DEF g
<1>4. Pushes(l, values, 1, g)
    BY <1>3 DEF g
<1>5. 0 \in 0..1 /\ 1 \in 0..1
    OBVIOUS
<1>6. g[0] = l /\ g[1] = InsertFront(g[0], values[1])
    BY <1>4, <1>5 DEF Pushes
<1> QED  BY <1>1, <1>2, <1>6 DEF values

\* What a line leaves of a list: another list, or, of a list of one, nothing.
Leaves(w, line, k, l, t) == Slot(execWithLock(w, line).store, k) = <<List(l), t>>
LeavesLess(w, line, k, l, m, t) ==
    Slot(execWithLock(w, line).store, k) = IF l.size = 1 THEN Nothing ELSE <<List(m), t>>

\* The lines that take an element from a list, or put one into it.
LEMMA ListLines ==
    ASSUME NEW w, IsStore(w), NEW k \in Key, NEW l, l.size \in Int, l.size > 0, NEW t,
           Slot(w, k) = <<List(l), t>>
    PROVE  /\ LeavesLess(w, On("lpop", k), k, l, RemoveHead(l), t)
           /\ LeavesLess(w, On("rpop", k), k, l, RemoveLast(l), t)
           /\ \A n, x : /\ Leaves(w, Command("lpush", k, n, <<x>>), k, InsertFront(l, x), t)
                        /\ Leaves(w, Command("rpush", k, n, <<x>>), k, pushTail(l, <<x>>), t)
           /\ \A n, x : InRange(l, fromHead(l, n)) =>
                 Leaves(w, Command("lset", k, n, <<x>>), k, SetAt(l, fromHead(l, n), x), t)
<1>1. Slot(w, k) = <<<<"list", l>>, t>>
    BY DEF List
<1>2. /\ TypeOf(w, k) = "list" /\ ValueOf(w, k) = l /\ Exists(w, k) /\ w.ttl[k] = t
    BY <1>1, SlotParts
<1>3. listOf(w, k) = l /\ ~WrongType(w, k, "list") /\ IsType(w, k, "list") /\ ~Broken(l)
    BY <1>2 DEF listOf, WrongType, IsType, Broken
<1>4. \A v : Slot(PutEntity(w, k, List(v)), k) = <<List(v), t>>
    <2>1. "list" \in Types
        BY DEF Types
    <2> QED  BY <1>2, <2>1, PutSlot DEF List
<1>5. \A v : Slot(PutOrRemove(w, k, v), k) = IF v.size = 0 THEN Nothing ELSE <<List(v), t>>
    BY <1>4, DropSlot DEF PutOrRemove
<1>6. On("lpop", k).key = k /\ On("rpop", k).key = k
    BY DEF On, Command
<1>7. RemoveHead(l).size = l.size - 1 /\ RemoveLast(l).size = l.size - 1
    BY DEF RemoveHead, RemoveLast
<1>8. /\ execLPop(w, On("lpop", k)).store = PutOrRemove(w, k, RemoveHead(l))
      /\ execRPop(w, On("rpop", k)).store = PutOrRemove(w, k, RemoveLast(l))
    BY <1>2, <1>3, <1>6 DEF execLPop, execRPop, Logged
<1>9. /\ Slot(execWithLock(w, On("lpop", k)).store, k) =
             IF l.size = 1 THEN Nothing ELSE <<List(RemoveHead(l)), t>>
      /\ Slot(execWithLock(w, On("rpop", k)).store, k) =
             IF l.size = 1 THEN Nothing ELSE <<List(RemoveLast(l)), t>>
    BY <1>5, <1>7, <1>8, LineExecs
<1>10. ASSUME NEW n, NEW x
       PROVE  /\ Slot(execWithLock(w, Command("lpush", k, n, <<x>>)).store, k) =
                    <<List(InsertFront(l, x)), t>>
              /\ Slot(execWithLock(w, Command("rpush", k, n, <<x>>)).store, k) =
                    <<List(pushTail(l, <<x>>)), t>>
    <2> DEFINE c == Command("lpush", k, n, <<x>>)
               d == Command("rpush", k, n, <<x>>)
    <2>1. c.key = k /\ d.key = k /\ c.args = <<x>> /\ d.args = <<x>>
        BY DEF Command
    <2>2. execWithLock(w, c) = execLPush(w, c) /\ execWithLock(w, d) = execRPush(w, d)
        BY LineExecs
    <2> HIDE DEF c, d
    <2>3. /\ execLPush(w, c).store = PutEntity(w, k, List(InsertFront(l, x)))
          /\ execRPush(w, d).store = PutEntity(w, k, List(pushTail(l, <<x>>)))
        BY <1>3, <2>1, PushOne DEF execLPush, execRPush, Logged
    <2> QED  BY <1>4, <2>2, <2>3 DEF c, d
<1>11. ASSUME NEW n, NEW x, InRange(l, fromHead(l, n))
       PROVE  Slot(execWithLock(w, Command("lset", k, n, <<x>>)).store, k) =
                 <<List(SetAt(l, fromHead(l, n), x)), t>>
    <2> DEFINE c == Command("lset", k, n, <<x>>)
    <2>1. c.key = k /\ c.args[1] = x /\ c.n = n
        BY DEF Command
    <2>2. execWithLock(w, c) = execLSet(w, c)
        BY LineExecs
    <2> HIDE DEF c
    <2>3. execLSet(w, c).store = PutEntity(w, k, List(SetAt(l, fromHead(l, n), x)))
        BY <1>3, <1>11, <2>1 DEF execLSet, Logged
    <2> QED  BY <1>4, <2>2, <2>3 DEF c
<1> QED  BY <1>9, <1>10, <1>11 DEF Leaves, LeavesLess

\* A pop from a list that is not there does nothing.
LEMMA NoList ==
    ASSUME NEW w, IsStore(w), NEW k \in Key, Slot(w, k) = Nothing
    PROVE  /\ execWithLock(w, On("lpop", k)).store = w
           /\ execWithLock(w, On("rpop", k)).store = w
<1>1. TypeOf(w, k) = "none" /\ ~Exists(w, k)
    BY SlotParts DEF Nothing, Absent
<1>2. On("lpop", k).key = k /\ On("rpop", k).key = k
    BY DEF On, Command
<1>3. execLPop(w, On("lpop", k)).store = w /\ execRPop(w, On("rpop", k)).store = w
    BY <1>1, <1>2 DEF execLPop, execRPop, WrongType, Done
<1> QED  BY <1>3, LineExecs

\* The lines that take one field or member out, or put one in.
FieldTaken(w, k, x, v, t) ==
    Slot(w, k) = <<Hash(v), t>> /\ DOMAIN v \ {x} # {} =>
        Slot(execWithLock(w, Command("hdel", k, 0, <<x>>)).store, k) =
            <<Hash([f \in DOMAIN v \ {x} |-> v[f]]), t>>
MemberPut(w, k, x, v, t) ==
    Slot(w, k) = <<HashSet(v), t>> =>
        Slot(execWithLock(w, Command("sadd", k, 0, <<x>>)).store, k) = <<HashSet(v \cup {x}), t>>
MemberTaken(w, k, x, v, t) ==
    Slot(w, k) = <<HashSet(v), t>> /\ v \ {x} # {} =>
        Slot(execWithLock(w, Command("srem", k, 0, <<x>>)).store, k) = <<HashSet(v \ {x}), t>>
ScorePut(w, k, x, score, v, t) ==
    Slot(w, k) = <<SortedSet(v), t>> =>
        Slot(execWithLock(w, Command("zadd", k, 0, <<score, x>>)).store, k) =
            <<SortedSet(add(v, x, score)), t>>

LEMMA MemberLines ==
    ASSUME NEW w, IsStore(w), NEW k \in Key, NEW x, NEW v, NEW t
    PROVE  /\ FieldTaken(w, k, x, v, t) /\ MemberPut(w, k, x, v, t) /\ MemberTaken(w, k, x, v, t)
           /\ \A score : ScorePut(w, k, x, score, v, t)
<1>1. ToSet(<<x>>) = {x}
    BY DEF ToSet
<1>2. ASSUME NEW type \in Types, type # "none", Slot(w, k) = <<<<type, v>>, t>>
      PROVE  /\ ~WrongType(w, k, type) /\ Exists(w, k) /\ ValueOf(w, k) = v
             /\ \A e : Slot(PutEntity(w, k, <<type, e>>), k) = <<<<type, e>>, t>>
    <2>1. /\ TypeOf(w, k) = type /\ ValueOf(w, k) = v /\ Exists(w, k) /\ w.ttl[k] = t
        BY <1>2, SlotParts
    <2>2. ~WrongType(w, k, type)
        BY <2>1 DEF WrongType
    <2> QED  BY <2>1, <2>2, PutSlot
<1>3. ASSUME Slot(w, k) = <<Hash(v), t>>, DOMAIN v \ {x} # {}
      PROVE  Slot(execWithLock(w, Command("hdel", k, 0, <<x>>)).store, k) =
                <<Hash([f \in DOMAIN v \ {x} |-> v[f]]), t>>
    <2> DEFINE c == Command("hdel", k, 0, <<x>>)
               h == [f \in DOMAIN v \ {x} |-> v[f]]
    <2>0. execWithLock(w, c) = execHDel(w, c)
        BY LineExecs
    <2>1. c.key = k /\ c.args = <<x>>
        BY DEF Command
    <2>2. "hash" \in Types /\ \A e : Hash(e) = <<"hash", e>>
        BY DEF Types, Hash
    <2>3. /\ ~WrongType(w, k, "hash") /\ Exists(w, k) /\ ValueOf(w, k) = v
          /\ \A e : Slot(PutEntity(w, k, Hash(e)), k) = <<Hash(e), t>>
        BY <1>2, <1>3, <2>2
    <2> HIDE DEF c
    <2>4. execHDel(w, c).store = PutEntity(w, k, Hash(h))
        BY <1>1, <1>3, <2>1, <2>3 DEF execHDel, dictOf, Done
    <2> HIDE DEF h
    <2>5. Slot(execWithLock(w, c).store, k) = <<Hash(h), t>>
        BY <2>0, <2>3, <2>4
    <2> QED  BY <2>5 DEF c, h
<1>4. ASSUME Slot(w, k) = <<HashSet(v), t>>
      PROVE  /\ Slot(execWithLock(w, Command("sadd", k, 0, <<x>>)).store, k) =
                    <<HashSet(v \cup {x}), t>>
             /\ v \ {x} # {} => Slot(execWithLock(w, Command("srem", k, 0, <<x>>)).store, k) =
                                    <<HashSet(v \ {x}), t>>
    <2> DEFINE c == Command("sadd", k, 0, <<x>>)
               d == Command("srem", k, 0, <<x>>)
    <2>0. execWithLock(w, c) = execSAdd(w, c) /\ execWithLock(w, d) = execSRem(w, d)
        BY LineExecs
    <2>1. c.key = k /\ c.args = <<x>> /\ d.key = k /\ d.args = <<x>>
        BY DEF Command
    <2>2. "set" \in Types /\ \A e : HashSet(e) = <<"set", e>>
        BY DEF Types, HashSet
    <2>3. /\ ~WrongType(w, k, "set") /\ Exists(w, k) /\ ValueOf(w, k) = v
          /\ \A e : Slot(PutEntity(w, k, HashSet(e)), k) = <<HashSet(e), t>>
        BY <1>2, <1>4, <2>2
    <2> HIDE DEF c, d
    <2>4. execSAdd(w, c).store = PutEntity(w, k, HashSet(v \cup {x}))
        BY <1>1, <2>1, <2>3 DEF execSAdd, setOf, Logged
    <2>5. v \ {x} # {} => execSRem(w, d).store = PutEntity(w, k, HashSet(v \ {x}))
        BY <1>1, <2>1, <2>3 DEF execSRem, setOf, Done
    <2> QED  BY <2>0, <2>3, <2>4, <2>5 DEF c, d
<1>5. ASSUME NEW score, Slot(w, k) = <<SortedSet(v), t>>
      PROVE  Slot(execWithLock(w, Command("zadd", k, 0, <<score, x>>)).store, k) =
                <<SortedSet(add(v, x, score)), t>>
    <2> DEFINE c == Command("zadd", k, 0, <<score, x>>)
               half == Len(c.args) \div 2
               at(m) == {i \in 1..half : c.args[2*i] = m}
               new == {c.args[2*i] : i \in 1..half}
               z == [m \in DOMAIN v \cup new |-> IF m \in new THEN c.args[2 * Max(at(m)) - 1]
                                                 ELSE v[m]]
    <2>0. execWithLock(w, c) = execZAdd(w, c)
        BY LineExecs
    <2>1. c.key = k /\ Len(c.args) = 2 /\ c.args[1] = score /\ c.args[2] = x
        BY DEF Command
    <2>2. "zset" \in Types /\ \A e : SortedSet(e) = <<"zset", e>>
        BY DEF Types, SortedSet
    <2>3. /\ ~WrongType(w, k, "zset") /\ Exists(w, k) /\ ValueOf(w, k) = v
          /\ \A e : Slot(PutEntity(w, k, SortedSet(e)), k) = <<SortedSet(e), t>>
        BY <1>2, <1>5, <2>2
    <2> HIDE DEF c
    <2>4. execZAdd(w, c).store = PutEntity(w, k, SortedSet(z))
        BY <2>1, <2>3 DEF execZAdd, zsetOf, Done
    <2>5. half = 1 /\ \A i \in 1..1 : i = 1
        BY <2>1
    <2>6. new = {x} /\ at(x) = {1}
        BY <2>1, <2>5
    <2>7. Max({1}) = 1
        BY DEF Max
    <2>8. z = add(v, x, score)
        BY <2>1, <2>6, <2>7 DEF add
    <2> HIDE DEF z
    <2>9. Slot(execWithLock(w, c).store, k) = <<SortedSet(z), t>>
        BY <2>0, <2>3, <2>4
    <2> QED  BY <2>8, <2>9 DEF c
<1> QED  BY <1>3, <1>4, <1>5 DEF FieldTaken, MemberPut, MemberTaken, ScorePut

\* What a push or a pop did, the other one takes back.
LEMMA FrontOfPage ==
    ASSUME NEW S, NEW p \in Seq(S), Len(p) > 0, NEW x
    PROVE  /\ InsertAt(p, 1, x) = <<x>> \o p
           /\ RemoveAt(p, 1) = Tail(p)
<1>1. Len(p) \in Nat
    BY LenProperties
<1>2. SubSeq(p, 1, 0) = <<>> /\ SubSeq(p, 1, Len(p)) = p /\ SubSeq(p, 2, Len(p)) = Tail(p)
    BY <1>1
<1>3. Tail(p) \in Seq(S)
    BY <1>1
<1>4. InsertAt(p, 1, x) = (<<>> \o <<x>>) \o p
    BY <1>2 DEF InsertAt
<1>5. <<>> \o <<x>> = <<x>>
    OBVIOUS
<1>6. RemoveAt(p, 1) = <<>> \o Tail(p)
    BY <1>1, <1>2 DEF RemoveAt
<1>7. <<>> \o Tail(p) = Tail(p)
    BY <1>3
<1> QED  BY <1>4, <1>5, <1>6, <1>7

LEMMA PushedAndPopped ==
    ASSUME NEW S, NEW l, PageOf(S, l), l.size >= 2, NEW x
    PROVE  RemoveHead(InsertFront(l, x)) = l
<1>1. PICK p \in Seq(S), n \in Int : l = [page |-> p, size |-> n] /\ Len(p) = n + 1
    BY DEF PageOf
<1> DEFINE T == S \cup {x}
           q == <<x>> \o p
           m == [page |-> q, size |-> n + 1]
<1>2. n >= 2 /\ Len(p) > 0 /\ l.page = p /\ l.size = n
    BY <1>1
<1>3. p \in Seq(T) /\ <<x>> \in Seq(T)
    BY SeqMonotonic
<1>4. find(l, 0) = 1
    <2>1. 0 < n \div 2
        BY <1>2
    <2> QED  BY <1>2, <2>1 DEF find
<1>5. InsertFront(l, x) = m
    <2>1. InsertAt(p, 1, x) = q
        BY <1>2, FrontOfPage
    <2> HIDE DEF q
    <2>2. l.size # 0
        BY <1>2
    <2> QED  BY <1>2, <1>4, <2>1, <2>2 DEF InsertFront
<1>6. q \in Seq(T) /\ Len(q) = n + 2 /\ Tail(q) = p
    <2>1. q \in Seq(T) /\ Len(q) = Len(p) + 1
        BY <1>3, ConcatProperties
    <2>2. Tail(q) = p
        BY <1>3
    <2> QED  BY <1>1, <2>1, <2>2
<1> HIDE DEF q, T
<1>7. find(m, 0) = 1
    <2>1. 0 < (n + 1) \div 2
        BY <1>2
    <2> QED  BY <2>1 DEF find
<1>8. RemoveAt(q, 1) = p
    <2>1. Len(q) > 0
        BY <1>2, <1>6
    <2> QED  BY <1>6, <2>1, FrontOfPage
<1>9. RemoveHead(m) = [page |-> p, size |-> n]
    BY <1>2, <1>7, <1>8 DEF RemoveHead
<1> QED  BY <1>1, <1>5, <1>9

LEMMA PoppedAndPushed ==
    ASSUME NEW S, NEW l, PageOf(S, l)
    PROVE  /\ l.size >= 3 => InsertFront(RemoveHead(l), GetAt(l, 0)) = l
           /\ l.size >= 2 => pushTail(RemoveLast(l), <<GetAt(l, l.size - 1)>>) = l
<1>1. PICK p \in Seq(S), n \in Int : l = [page |-> p, size |-> n] /\ Len(p) = n + 1
    BY DEF PageOf
<1>a. l.page = p /\ l.size = n
    BY <1>1
<1>2. ASSUME n >= 3 PROVE InsertFront(RemoveHead(l), GetAt(l, 0)) = l
    <2> DEFINE r == Tail(p)
               x == p[1]
               m == [page |-> r, size |-> n - 1]
    <2>0. Len(p) > 0 /\ p # <<>>
        BY <1>1, <1>2
    <2>1. find(l, 0) = 1
        <3>1. 0 < n \div 2
            BY <1>2
        <3> QED  BY <1>a, <3>1 DEF find
    <2>2. RemoveHead(l) = m /\ GetAt(l, 0) = x
        <3>1. RemoveAt(p, 1) = r
            BY <2>0, FrontOfPage
        <3> QED  BY <1>a, <2>1, <3>1 DEF RemoveHead, GetAt
    <2>3. find(m, 0) = 1 /\ m.size # 0
        <3>1. 0 < (n - 1) \div 2
            BY <1>2
        <3> QED  BY <1>2, <3>1 DEF find
    <2>4. r \in Seq(S) /\ Len(r) > 0 /\ <<x>> \o r = p
        <3>1. r \in Seq(S) /\ Len(r) = Len(p) - 1
            BY <2>0, HeadTailProperties
        <3>2. <<x>> \o r = p
            BY <2>0
        <3> QED  BY <1>1, <1>2, <3>1, <3>2
    <2> HIDE DEF r, x
    <2>5. InsertAt(r, 1, x) = p
        BY <2>4, FrontOfPage
    <2>6. InsertFront(m, x) = [page |-> p, size |-> (n - 1) + 1]
        BY <2>3, <2>5 DEF InsertFront
    <2>7. (n - 1) + 1 = n
        OBVIOUS
    <2> QED  BY <1>1, <2>2, <2>6, <2>7
<1>3. ASSUME n >= 2 PROVE pushTail(RemoveLast(l), <<GetAt(l, n - 1)>>) = l
    <2> DEFINE r == Front(p)
               x == p[Len(p)]
    <2>1. GetAt(l, n - 1) = x
        <3>1. ~(n - 1 < n \div 2)
            BY <1>3
        <3>2. (n - 1) - (n - Len(p)) + 1 = Len(p)
            BY <1>1
        <3> QED  BY <1>a, <3>1, <3>2 DEF GetAt, find
    <2>2. RemoveLast(l) = [page |-> r, size |-> n - 1]
        BY <1>a DEF RemoveLast
    <2>3. r \o <<x>> = p
        <3>1. 1 \in 1..Len(p) /\ Len(p) \in 1..Len(p)
            BY <1>1, <1>3
        <3>2. SubSeq(p, 1, Len(p)) = SubSeq(p, 1, Len(p) - 1) \o <<p[Len(p)]>>
            BY <3>1, SubSeqRecursiveSecond
        <3>3. SubSeq(p, 1, Len(p)) = p
            BY SubSeqFull
        <3> QED  BY <3>2, <3>3 DEF Front
    <2>4. Len(r) = n
        BY <1>1, <1>3 DEF Front
    <2>5. r # <<>>
        BY <1>3, <2>4
    <2> HIDE DEF r, x
    <2>6. pushTail([page |-> r, size |-> n - 1], <<x>>) = [page |-> p, size |-> (n - 1) + 1]
        BY <2>3, <2>5 DEF pushTail
    <2>7. (n - 1) + 1 = n
        OBVIOUS
    <2> QED  BY <1>1, <2>1, <2>2, <2>6, <2>7
<1> QED  BY <1>a, <1>2, <1>3

LEMMA SetAndSet ==
    ASSUME NEW S, NEW l, PageOf(S, l), NEW i \in Int, InRange(l, i), NEW x
    PROVE  /\ SetAt(SetAt(l, i, x), i, GetAt(l, i)) = l
           /\ SetAt(l, i, x).size = l.size
<1>1. PICK p \in Seq(S), n \in Int : l = [page |-> p, size |-> n] /\ Len(p) = n + 1
    BY DEF PageOf
<1> DEFINE j == find(l, i)
           q == [p EXCEPT ![j] = x]
           m == [page |-> q, size |-> n]
<1>2. l.page = p /\ l.size = n /\ j \in 1..Len(p)
    BY <1>1 DEF find, InRange
<1>3. SetAt(l, i, x) = m
    BY <1>1 DEF SetAt
<1>4. Len(q) = Len(p) /\ [q EXCEPT ![j] = p[j]] = p
    <2> HIDE DEF j
    <2>1. p \in [1..Len(p) -> S] /\ Len(p) \in Nat
        BY LenProperties
    <2>2. q \in [1..Len(p) -> S \cup {x}]
        BY <1>2, <2>1
    <2>3. Len(q) = Len(p)
        BY <2>1, <2>2
    <2>4. [q EXCEPT ![j] = p[j]] = p
        <3>1. q = [y \in 1..Len(p) |-> IF y = j THEN x ELSE p[y]]
            BY <1>2, <2>1
        <3>2. [q EXCEPT ![j] = p[j]] = [y \in 1..Len(p) |-> IF y = j THEN p[j] ELSE q[y]]
            BY <2>2
        <3>3. [y \in 1..Len(p) |-> IF y = j THEN p[j] ELSE q[y]] = [y \in 1..Len(p) |-> p[y]]
            BY <3>1
        <3>4. [y \in 1..Len(p) |-> p[y]] = p
            BY <2>1
        <3> QED  BY <3>2, <3>3, <3>4
    <2> QED  BY <2>3, <2>4
<1>5. find(m, i) = j
    BY <1>2, <1>4 DEF find
<1>6. SetAt(m, i, p[j]) = [page |-> [q EXCEPT ![j] = p[j]], size |-> n]
    <2> HIDE DEF q, j
    <2> QED  BY <1>5 DEF SetAt
<1>7. GetAt(l, i) = p[j]
    BY <1>2 DEF GetAt
<1> QED  BY <1>1, <1>2, <1>3, <1>4, <1>6, <1>7

\* A command that succeeds on a store that is in order, and whose undo log is
\* none of those that NotUndone names.
Succeeds(s, c) ==
    /\ Tidy(s) /\ Whole(s) /\ IsCommand(c) /\ LineArgs(c)
    /\ execWithLock(s, c).fate = "ok" /\ Tidy(execWithLock(s, c).store)
    /\ GetUndoLogs(s, c) # Panic /\ ~NotUndone(s, c)

\* The log puts the key back.
Undoes(s, c, k) == Slot(RunAll(execWithLock(s, c).store, GetUndoLogs(s, c)), k) = Slot(s, k)

LEMMA LogRuns ==
    ASSUME NEW s, NEW c, Succeeds(s, c)
    PROVE  /\ IsStore(s) /\ IsStore(execWithLock(s, c).store)
           /\ c.key \in Key /\ c.n \in Int /\ s.now \in Nat
           /\ IsLog(GetUndoLogs(s, c), MayChange(c))
           /\ \A k \in Key : WholeEntity(s.data[k], s.ttl[k])
           /\ \A k \in Key : ~Exists(s, k) => Slot(s, k) = Nothing
<1>1. IsStore(s) /\ IsStore(execWithLock(s, c).store)
    BY DEF Succeeds, Tidy
<1>2. c.key \in Key /\ c.n \in Int /\ s.now \in Nat
    BY <1>1, PartsOfStore DEF Succeeds, IsCommand
<1>3. IsLog(GetUndoLogs(s, c), MayChange(c))
    BY <1>1, UndoLogs DEF Succeeds
<1> QED  BY <1>1, <1>2, <1>3 DEF Succeeds, Whole, Tidy, Nothing

-----------------------------------------------------------------------------
(* Lists put back.                                                         *)

\* A log of pops from one end.
Pops(log, k) == \/ \A i \in 1..Len(log) : log[i] = On("lpop", k)
                \/ \A i \in 1..Len(log) : log[i] = On("rpop", k)

LEMMA NoListPopped ==
    ASSUME NEW u, IsStore(u), NEW k \in Key, NEW K, NEW log, IsLog(log, K), Pops(log, k),
           Slot(u, k) = Nothing
    PROVE  Slot(RunAll(u, log), k) = Nothing
<1> DEFINE n == Len(log)
           X == [i \in 0..n |-> {Nothing}]
<1>1. n \in Nat /\ 0 \in 0..n /\ n \in 0..n
    BY DEF IsLog
<1>2. ASSUME NEW i \in 1..n PROVE Turns(log[i], k, X[i-1], X[i])
    <2>1. X[i-1] = {Nothing} /\ X[i] = {Nothing}
        BY <1>1
    <2>2. log[i] \in {On("lpop", k), On("rpop", k)}
        BY DEF Pops
    <2> QED  BY <2>1, <2>2, NoList DEF Turns
<1>3. Slot(u, k) \in X[0] /\ X[n] = {Nothing}
    BY <1>1
<1> HIDE DEF X
<1>4. Slot(RunAll(u, log), k) \in X[n]
    BY <1>2, <1>3, LineByLine
<1> QED  BY <1>3, <1>4

\* A list of more than one element is there after a pop.
LEMMA PopLines ==
    ASSUME NEW w, IsStore(w), NEW k \in Key, NEW l, l.size \in Int, l.size > 1, NEW t,
           Slot(w, k) = <<List(l), t>>
    PROVE  Leaves(w, On("lpop", k), k, RemoveHead(l), t) /\ Leaves(w, On("rpop", k), k, RemoveLast(l), t)
<1>1. l.size > 0 /\ l.size # 1
    OBVIOUS
<1>2. /\ LeavesLess(w, On("lpop", k), k, l, RemoveHead(l), t)
      /\ LeavesLess(w, On("rpop", k), k, l, RemoveLast(l), t)
    BY <1>1, ListLines
<1> QED  BY <1>1, <1>2 DEF Leaves, LeavesLess

\* One pop.
LEMMA OnePop ==
    ASSUME NEW w, IsStore(w), NEW k \in Key, NEW line \in {On("lpop", k), On("rpop", k)},
           NEW S, NEW m, PageOf(S, m), m.size > 0, NEW t, Slot(w, k) = <<List(m), t>>
    PROVE  LET v == execWithLock(w, line).store
           IN  IF m.size = 1 THEN Slot(v, k) = Nothing
               ELSE \E l : PageOf(S, l) /\ l.size = m.size - 1 /\ Slot(v, k) = <<List(l), t>>
<1>1. m.size \in Int
    BY DEF PageOf
<1>2. /\ PageOf(S, RemoveHead(m)) /\ RemoveHead(m).size = m.size - 1
      /\ PageOf(S, RemoveLast(m)) /\ RemoveLast(m).size = m.size - 1
    <2>1. PageOf(S, RemoveHead(m)) /\ RemoveHead(m).size = m.size - 1
        BY RemoveHeadPage
    <2>2. m.size >= 0
        BY <1>1
    <2> QED  BY <2>1, <2>2, RemoveLastPage
<1>3. /\ LeavesLess(w, On("lpop", k), k, m, RemoveHead(m), t)
      /\ LeavesLess(w, On("rpop", k), k, m, RemoveLast(m), t)
    BY <1>1, ListLines
<1>4. LeavesLess(w, line, k, m, RemoveHead(m), t) \/ LeavesLess(w, line, k, m, RemoveLast(m), t)
    BY <1>3
<1>5. PICK l : LeavesLess(w, line, k, m, l, t) /\ PageOf(S, l) /\ l.size = m.size - 1
    BY <1>2, <1>4
<1> QED  BY <1>5 DEF LeavesLess

\* As many pops as there are elements.
LEMMA AllPopped ==
    ASSUME NEW u, IsStore(u), NEW k \in Key, NEW K, NEW log, IsLog(log, K), Pops(log, k),
           NEW S, NEW l, PageOf(S, l), l.size = Len(log), l.size > 0, Slot(u, k) = <<List(l), NoTTL>>
    PROVE  Slot(RunAll(u, log), k) = Nothing
<1> DEFINE n == Len(log)
           Sized(i) == {m \in [page : Seq(S), size : Int] : PageOf(S, m) /\ m.size = n - i}
           X == [i \in 0..n |-> IF i = n THEN {Nothing} ELSE {<<List(m), NoTTL>> : m \in Sized(i)}]
<1>1. n \in Nat \ {0} /\ 0 \in 0..n /\ n \in 0..n
    BY DEF IsLog
<1>2. ASSUME NEW i \in 1..n PROVE Turns(log[i], k, X[i-1], X[i])
    <2>1. i - 1 \in 0..n /\ i \in 0..n /\ i - 1 # n
        BY <1>1
    <2>2. X[i-1] = {<<List(m), NoTTL>> : m \in Sized(i-1)}
        BY <2>1
    <2>3. log[i] \in {On("lpop", k), On("rpop", k)}
        BY DEF Pops
    <2>4. ASSUME NEW w, IsStore(w), Slot(w, k) \in X[i-1]
          PROVE  Slot(execWithLock(w, log[i]).store, k) \in X[i]
        <3>1. PICK m \in Sized(i-1) : Slot(w, k) = <<List(m), NoTTL>>
            BY <2>2, <2>4
        <3>2. PageOf(S, m) /\ m.size = n - (i - 1) /\ m.size \in Int /\ m.size > 0
            BY <1>1, <3>1
        <3>3. (m.size - 1 = n - i) /\ (m.size = 1 <=> i = n)
            BY <1>1, <3>2
        <3>4. IF m.size = 1 THEN Slot(execWithLock(w, log[i]).store, k) = Nothing
              ELSE \E v : /\ PageOf(S, v) /\ v.size = m.size - 1
                          /\ Slot(execWithLock(w, log[i]).store, k) = <<List(v), NoTTL>>
            <4>1. PICK line : line = log[i] /\ line \in {On("lpop", k), On("rpop", k)}
                BY <2>3
            <4>2. IF m.size = 1 THEN Slot(execWithLock(w, line).store, k) = Nothing
                  ELSE \E v : /\ PageOf(S, v) /\ v.size = m.size - 1
                              /\ Slot(execWithLock(w, line).store, k) = <<List(v), NoTTL>>
                <5> HIDE DEF X, Sized, n
                <5> QED  BY <2>4, <3>1, <3>2, <4>1, OnePop
            <4> QED  BY <4>1, <4>2
        <3>5. \A v : PageOf(S, v) /\ v.size = n - i => v \in Sized(i)
            BY DEF PageOf
        <3>7. X[i] = IF i = n THEN {Nothing} ELSE {<<List(v), NoTTL>> : v \in Sized(i)}
            BY <2>1
        <3> HIDE DEF X, Sized
        <3> QED  BY <3>3, <3>4, <3>5, <3>7
    <2> QED  BY <2>4 DEF Turns
<1>3. Slot(u, k) \in X[0] /\ X[n] = {Nothing}
    <2>1. l \in Sized(0)
        BY <1>1 DEF PageOf
    <2>2. X[0] = {<<List(m), NoTTL>> : m \in Sized(0)} /\ X[n] = {Nothing}
        BY <1>1
    <2> HIDE DEF X, Sized
    <2> QED  BY <2>1, <2>2
<1> HIDE DEF X
<1>4. Slot(RunAll(u, log), k) \in X[n]
    BY <1>2, <1>3, LineByLine
<1> QED  BY <1>3, <1>4

\* The lists on the way of pushHead.
LEMMA PushHeadChain ==
    ASSUME NEW S, NEW l, PageOf(S, l), l.size >= 0, NEW values \in Seq(S)
    PROVE  \E g : /\ pushHead(l, values) = g[Len(values)] /\ g[0] = l
                  /\ \A i \in 1..Len(values) : g[i] = InsertFront(g[i-1], values[i])
                  /\ \A i \in 0..Len(values) : PageOf(S, g[i]) /\ g[i].size = l.size + i
<1> DEFINE n == Len(values)
           g == CHOOSE f : Pushes(l, values, n, f)
<1>1. n \in Nat /\ \A i \in 1..n : values[i] \in S
    BY LenProperties, ElementOfSeq
<1>2. pushHead(l, values) = g[n]
    BY DEF pushHead, Pushes
<1> HIDE DEF n
<1>3. \E f : Pushes(l, values, n, f)
    BY <1>1, PushHeadSteps
<1> HIDE DEF g
<1>4. Pushes(l, values, n, g)
    BY <1>3 DEF g
<1>5. g[0] = l /\ \A i \in 1..n : g[i] = InsertFront(g[i-1], values[i])
    BY <1>1, <1>4 DEF Pushes
<1> DEFINE T == {i \in Nat : i \in 0..n => PageOf(S, g[i]) /\ g[i].size = l.size + i}
<1>6. l.size \in Int
    BY DEF PageOf
<1>7. 0 \in T
    BY <1>5, <1>6
<1>8. ASSUME NEW i \in T PROVE i + 1 \in T
    <2>1. i \in Nat
        OBVIOUS
    <2>2. SUFFICES ASSUME i + 1 \in 0..n
                   PROVE  PageOf(S, g[i+1]) /\ g[i+1].size = l.size + (i + 1)
        BY <2>1
    <2>3. i \in 0..n /\ i + 1 \in 1..n /\ (i+1)-1 = i
        BY <1>1, <2>1, <2>2
    <2>4. g[i+1] = InsertFront(g[i], values[i+1]) /\ values[i+1] \in S
        <3>1. g[i+1] = InsertFront(g[(i+1)-1], values[i+1]) /\ values[i+1] \in S
            BY <1>1, <1>5, <2>3
        <3> QED  BY <2>3, <3>1
    <2>5. Open(S, g[i]) /\ g[i].size = l.size + i
        BY <1>6, <2>1, <2>3 DEF Open
    <2>6. PageOf(S, g[i+1]) /\ g[i+1].size = g[i].size + 1
        BY <2>4, <2>5, InsertFrontPage
    <2> QED  BY <1>6, <2>1, <2>5, <2>6
<1>9. T = Nat
    <2>1. T \in SUBSET Nat
        OBVIOUS
    <2> HIDE DEF T
    <2> QED  BY <1>7, <1>8, <2>1, NatSet
<1>10. \A i \in 0..n : PageOf(S, g[i]) /\ g[i].size = l.size + i
    <2>1. ASSUME NEW i \in 0..n PROVE PageOf(S, g[i]) /\ g[i].size = l.size + i
        <3>1. i \in T
            BY <1>1, <1>9
        <3> QED  BY <3>1
    <2> QED  BY <2>1
<1> QED  BY <1>2, <1>5, <1>10 DEF n

\* The pushes of a list, taken back one by one.
LEMMA FrontPopped ==
    ASSUME NEW u, IsStore(u), NEW k \in Key, NEW K, NEW log, IsLog(log, K),
           NEW S, NEW l, PageOf(S, l), l.size >= 2, NEW values \in Seq(S), Len(values) = Len(log),
           \A i \in 1..Len(log) : log[i] = On("lpop", k),
           NEW t, Slot(u, k) = <<List(pushHead(l, values)), t>>
    PROVE  Slot(RunAll(u, log), k) = <<List(l), t>>
<1> DEFINE n == Len(log)
<1>1. n \in Nat /\ 0 \in 0..n /\ n \in 0..n /\ l.size \in Int
    BY DEF IsLog, PageOf
<1>2. PICK g : /\ pushHead(l, values) = g[n] /\ g[0] = l
               /\ \A i \in 1..n : g[i] = InsertFront(g[i-1], values[i])
               /\ \A i \in 0..n : PageOf(S, g[i]) /\ g[i].size = l.size + i
    <2>1. l.size >= 0
        BY <1>1
    <2> QED  BY <2>1, PushHeadChain
<1> DEFINE X == [i \in 0..n |-> {<<List(g[n-i]), t>>}]
<1>3. ASSUME NEW i \in 1..n PROVE Turns(log[i], k, X[i-1], X[i])
    <2> DEFINE j == n - i + 1
    <2>1. j \in 1..n /\ j - 1 \in 0..n /\ j \in 0..n /\ n - (i-1) = j /\ n - i = j - 1
        BY <1>1
    <2>2. X[i-1] = {<<List(g[j]), t>>} /\ X[i] = {<<List(g[j-1]), t>>}
        <3>1. i - 1 \in 0..n /\ i \in 0..n
            BY <1>1
        <3> QED  BY <2>1, <3>1
    <2> HIDE DEF X, j
    <2>3. PICK m, x : m = g[j-1] /\ x = values[j]
        OBVIOUS
    <2>4. PageOf(S, m) /\ m.size >= 2 /\ g[j] = InsertFront(m, x)
        <3>1. PageOf(S, g[j-1]) /\ g[j-1].size = l.size + (j-1) /\ g[j] = InsertFront(g[j-1], values[j])
            BY <1>2, <2>1
        <3>2. l.size + (j-1) >= 2
            BY <1>1, <2>1
        <3> QED  BY <2>3, <3>1, <3>2
    <2>5. g[j].size = l.size + j /\ g[j].size \in Int /\ g[j].size > 0 /\ g[j].size # 1
        BY <1>1, <1>2, <2>1
    <2>6. RemoveHead(g[j]) = m
        BY <2>4, PushedAndPopped
    <2>7. ASSUME NEW w, IsStore(w), Slot(w, k) = <<List(g[j]), t>>
          PROVE  Slot(execWithLock(w, On("lpop", k)).store, k) = <<List(m), t>>
        <3>1. PICK h : h = g[j]
            OBVIOUS
        <3>a. h.size \in Int /\ h.size > 0 /\ Slot(w, k) = <<List(h), t>>
            BY <2>5, <2>7, <3>1
        <3>b. h.size > 1
            BY <2>5, <3>1, <3>a
        <3>2. Leaves(w, On("lpop", k), k, RemoveHead(h), t)
            BY <2>7, <3>a, <3>b, PopLines
        <3> QED  BY <2>6, <3>1, <3>2 DEF Leaves
    <2>8. log[i] = On("lpop", k)
        OBVIOUS
    <2> QED  BY <2>2, <2>3, <2>7, <2>8 DEF Turns
<1>4. Slot(u, k) \in X[0] /\ X[n] = {<<List(l), t>>}
    <2>1. n - 0 = n /\ n - n = 0
        BY <1>1
    <2> QED  BY <1>1, <1>2, <2>1
<1> HIDE DEF X
<1>5. Slot(RunAll(u, log), k) \in X[n]
    BY <1>3, <1>4, LineByLine
<1> QED  BY <1>4, <1>5

LEMMA FrontOfFront ==
    ASSUME NEW S, NEW p \in Seq(S), NEW n \in 1..Len(p)
    PROVE  Front(SubSeq(p, 1, n)) = SubSeq(p, 1, n - 1)
<1>1. Len(p) \in Nat
    BY LenProperties
<1>2. Len(SubSeq(p, 1, n)) = n
    BY <1>1
<1>3. Front(SubSeq(p, 1, n)) = SubSeq(SubSeq(p, 1, n), 1, n - 1)
    BY <1>2 DEF Front
<1>4. CASE n = 1
    <2>1. n - 1 = 0 /\ n - 1 \in Int /\ 1 \in Int /\ n - 1 < 1
        BY <1>4
    <2>2. SubSeq(p, 1, n - 1) = <<>> /\ SubSeq(SubSeq(p, 1, n), 1, n - 1) = <<>>
        BY <2>1, SubSeqEmpty
    <2> QED  BY <1>3, <2>2
<1>5. CASE n > 1
    <2>1. 1 \in 1..Len(p) /\ 1 \in 1..n-1+1 /\ n - 1 \in 1..n-1+1 /\ 1+1-1 = 1 /\ 1+(n-1)-1 = n - 1
        BY <1>1, <1>5
    <2>2. SubSeq(SubSeq(p, 1, n), 1, n - 1) = SubSeq(p, 1+1-1, 1+(n-1)-1)
        BY <2>1, SubSeqOfSubSeq
    <2> QED  BY <1>3, <2>1, <2>2
<1> QED  BY <1>1, <1>4, <1>5

LEMMA BackPopped ==
    ASSUME NEW u, IsStore(u), NEW k \in Key, NEW K, NEW log, IsLog(log, K),
           NEW S, NEW l, PageOf(S, l), l.size >= 1, NEW values \in Seq(S), Len(values) = Len(log),
           \A i \in 1..Len(log) : log[i] = On("rpop", k),
           NEW t, Slot(u, k) = <<List(pushTail(l, values)), t>>
    PROVE  Slot(RunAll(u, log), k) = <<List(l), t>>
<1>1. PICK p \in Seq(S), z \in Int : l = [page |-> p, size |-> z] /\ Len(p) = z + 1
    BY DEF PageOf
<1> DEFINE n == Len(log)
           P == p \o values
           part(j) == [page |-> SubSeq(P, 1, z + 1 + j), size |-> z + j]
           X == [i \in 0..n |-> {<<List(part(n-i)), t>>}]
<1>2. n \in Nat /\ 0 \in 0..n /\ n \in 0..n /\ l.page = p /\ l.size = z /\ z >= 1
    BY <1>1 DEF IsLog
<1>3. P \in Seq(S) /\ Len(P) = z + 1 + n
    <2>1. P \in Seq(S) /\ Len(P) = Len(p) + Len(values)
        BY ConcatProperties
    <2> QED  BY <1>1, <2>1
<1>4. part(n) = pushTail(l, values) /\ part(0) = l
    <2>1. SubSeq(P, 1, z + 1 + n) = P
        BY <1>3, SubSeqFull
    <2>2. SubSeq(P, 1, z + 1) = p
        <3>1. 1 \in 1..Len(p) /\ Len(p) \in 1..Len(p)
            BY <1>1, <1>2
        <3>2. SubSeq(P, 1, Len(p)) = SubSeq(p, 1, Len(p))
            BY <3>1, SubSeqOfConcat1
        <3>3. SubSeq(p, 1, Len(p)) = p
            BY SubSeqFull
        <3> QED  BY <1>1, <3>2, <3>3
    <2>3. p # <<>>
        BY <1>1, <1>2
    <2>4. pushTail(l, values) = [page |-> P, size |-> z + n]
        BY <1>2, <2>3 DEF pushTail
    <2>5. z + 1 + 0 = z + 1 /\ z + 0 = z
        BY <1>1
    <2> HIDE DEF P
    <2> QED  BY <1>1, <2>1, <2>2, <2>4, <2>5
<1> HIDE DEF P
<1>5. ASSUME NEW i \in 1..n PROVE Turns(log[i], k, X[i-1], X[i])
    <2> DEFINE j == n - i + 1
    <2>1. j \in 1..n /\ j - 1 \in 0..n /\ j \in 0..n /\ n - (i-1) = j /\ n - i = j - 1
        BY <1>2
    <2>2. X[i-1] = {<<List(part(j)), t>>} /\ X[i] = {<<List(part(j-1)), t>>}
        <3>1. i - 1 \in 0..n /\ i \in 0..n
            BY <1>2
        <3> HIDE DEF j
        <3> QED  BY <2>1, <3>1
    <2> HIDE DEF X, j
    <2>3. RemoveLast(part(j)) = part(j-1)
        <3>1. z + 1 + j \in 1..Len(P) /\ (z + 1 + j) - 1 = z + 1 + (j - 1) /\ (z + j) - 1 = z + (j - 1)
            BY <1>2, <1>3, <2>1
        <3>2. Front(SubSeq(P, 1, z + 1 + j)) = SubSeq(P, 1, z + 1 + (j - 1))
            BY <1>3, <3>1, FrontOfFront
        <3> QED  BY <3>1, <3>2 DEF RemoveLast
    <2>4. part(j).size = z + j /\ z + j \in Int /\ z + j > 0 /\ z + j # 1
        BY <1>2, <2>1
    <2> HIDE DEF part
    <2>5. ASSUME NEW w, IsStore(w), Slot(w, k) = <<List(part(j)), t>>
          PROVE  Slot(execWithLock(w, On("rpop", k)).store, k) = <<List(part(j-1)), t>>
        <3>1. PICK h : h = part(j)
            OBVIOUS
        <3>a. h.size \in Int /\ h.size > 0 /\ Slot(w, k) = <<List(h), t>>
            BY <2>4, <2>5, <3>1
        <3>b. h.size > 1
            BY <2>4, <3>1, <3>a
        <3>2. Leaves(w, On("rpop", k), k, RemoveLast(h), t)
            BY <2>5, <3>a, <3>b, PopLines
        <3> QED  BY <2>3, <3>1, <3>2 DEF Leaves
    <2>6. log[i] = On("rpop", k)
        OBVIOUS
    <2> QED  BY <2>2, <2>5, <2>6 DEF Turns
<1>6. Slot(u, k) \in X[0] /\ X[n] = {<<List(l), t>>}
    <2>1. n - 0 = n /\ n - n = 0
        BY <1>2
    <2> HIDE DEF part
    <2> QED  BY <1>2, <1>4, <2>1
<1> HIDE DEF X
<1>7. Slot(RunAll(u, log), k) \in X[n]
    BY <1>5, <1>6, LineByLine
<1> QED  BY <1>6, <1>7

\* The list a command meets.
LEMMA ListMet ==
    ASSUME NEW s, NEW c, Succeeds(s, c)
    PROVE  /\ ~Exists(s, c.key) => Slot(s, c.key) = Nothing /\ listOf(s, c.key) = NewQuickList
           /\ IsType(s, c.key, "list") =>
                 /\ Exists(s, c.key) /\ Slot(s, c.key) = <<List(listOf(s, c.key)), s.ttl[c.key]>>
                 /\ \E S : PageOf(S, listOf(s, c.key))
                 /\ listOf(s, c.key).size \in Int /\ listOf(s, c.key).size # 0
                 /\ \A n : SizeAtMost(s, c.key, n) <=> listOf(s, c.key).size <= n
                 /\ BrokenList(s, c.key) <=> Broken(listOf(s, c.key))
           /\ ~WrongType(s, c.key, "list") => ~Exists(s, c.key) \/ IsType(s, c.key, "list")
<1> DEFINE k == c.key
<1>1. IsStore(s) /\ k \in Key /\ WholeEntity(s.data[k], s.ttl[k]) /\ (~Exists(s, k) => Slot(s, k) = Nothing)
    BY LogRuns
<1> HIDE DEF k
<1>2. ASSUME IsType(s, k, "list")
      PROVE  /\ Exists(s, k) /\ Slot(s, k) = <<List(listOf(s, k)), s.ttl[k]>>
             /\ \E S : PageOf(S, listOf(s, k))
             /\ listOf(s, k).size \in Int /\ listOf(s, k).size # 0
             /\ \A n : SizeAtMost(s, k, n) <=> listOf(s, k).size <= n
             /\ BrokenList(s, k) <=> Broken(listOf(s, k))
    <2>1. s.data[k][1] = "list" /\ Exists(s, k) /\ listOf(s, k) = s.data[k][2] /\ listOf(s, k) = ValueOf(s, k)
        BY <1>2 DEF IsType, Exists, listOf, TypeOf, ValueOf
    <2>2. s.data[k] = <<s.data[k][1], s.data[k][2]>>
        BY <1>1, EntityOfStore
    <2>3. Slot(s, k) = <<List(listOf(s, k)), s.ttl[k]>>
        BY <2>1, <2>2 DEF Slot, List
    <2>4. GoodList(listOf(s, k))
        BY <1>1, <2>1 DEF WholeEntity
    <2>5. PICK S : PageOf(S, listOf(s, k))
        BY <2>4 DEF GoodList
    <2>6. listOf(s, k).size \in Int /\ listOf(s, k).size # 0
        BY <2>4, <2>5 DEF GoodList, PageOf
    <2>7. /\ \A n : SizeAtMost(s, k, n) <=> listOf(s, k).size <= n
          /\ BrokenList(s, k) <=> Broken(listOf(s, k))
        BY <1>2, <2>1 DEF SizeAtMost, BrokenList
    <2> QED  BY <2>1, <2>3, <2>5, <2>6, <2>7
<1>3. ~Exists(s, k) => listOf(s, k) = NewQuickList
    BY DEF listOf
<1>4. ~WrongType(s, k, "list") => ~Exists(s, k) \/ IsType(s, k, "list")
    BY DEF WrongType, Exists, IsType
<1> QED  BY <1>1, <1>2, <1>3, <1>4 DEF k

\* What a push leaves, and its log.
LEMMA PushDone ==
    ASSUME NEW s, NEW c, Succeeds(s, c), Usable(s, c), c.op \in PushOps
    PROVE  LET k == c.key
               l == IF c.op \in {"lpush", "lpushx"} THEN pushHead(listOf(s, k), c.args)
                    ELSE pushTail(listOf(s, k), c.args)
               u == execWithLock(s, c).store
           IN  \/ ~Exists(s, k) /\ u = s
               \/ /\ ~WrongType(s, k, "list") /\ ~Broken(listOf(s, k))
                  /\ Slot(u, k) = <<List(l), s.ttl[k]>>
<1> DEFINE k == c.key
<1>1. IsStore(s) /\ k \in Key /\ execWithLock(s, c).fate = "ok"
    BY LogRuns DEF Succeeds
<1>2. \A v : Slot(PutEntity(s, k, List(v)), k) = <<List(v), s.ttl[k]>>
    <2>1. "list" \in Types /\ \A v : List(v) = <<"list", v>>
        BY DEF Types, List
    <2> QED  BY <1>1, <2>1, PutSlot
<1>3. ASSUME c.op \in {"lpush", "lpushx"}
      PROVE  LET u == execWithLock(s, c).store IN
             \/ ~Exists(s, k) /\ u = s
             \/ /\ ~WrongType(s, k, "list") /\ ~Broken(listOf(s, k))
                /\ Slot(u, k) = <<List(pushHead(listOf(s, k), c.args)), s.ttl[k]>>
    <2> DEFINE r == execLPush(s, c)
               v == PutEntity(s, k, List(pushHead(listOf(s, k), c.args)))
    <2>1. \/ r.fate # "ok"
          \/ ~WrongType(s, k, "list") /\ ~Broken(listOf(s, k)) /\ r.store = v
        BY DEF execLPush, Error, Panicked, Logged
    <2> HIDE DEF r
    <2>2. execWithLock(s, c) = r \/ (~Exists(s, k) /\ execWithLock(s, c) = Done(s))
        BY <1>3 DEF execWithLock, execLPushX, r
    <2>3. Done(s).store = s
        BY DEF Done
    <2>4. Slot(v, k) = <<List(pushHead(listOf(s, k), c.args)), s.ttl[k]>>
        BY <1>2
    <2> HIDE DEF v
    <2> QED  BY <1>1, <2>1, <2>2, <2>3, <2>4
<1>4. ASSUME c.op \in {"rpush", "rpushx"}
      PROVE  LET u == execWithLock(s, c).store IN
             \/ ~Exists(s, k) /\ u = s
             \/ /\ ~WrongType(s, k, "list") /\ ~Broken(listOf(s, k))
                /\ Slot(u, k) = <<List(pushTail(listOf(s, k), c.args)), s.ttl[k]>>
    <2> DEFINE r == execRPush(s, c)
               v == PutEntity(s, k, List(pushTail(listOf(s, k), c.args)))
    <2>1. \/ r.fate # "ok"
          \/ ~WrongType(s, k, "list") /\ r.store = v
        BY DEF execRPush, Error, Logged
    <2> HIDE DEF r
    <2>2. execWithLock(s, c) = r \/ (~Exists(s, k) /\ execWithLock(s, c) = Done(s))
        BY <1>4 DEF execWithLock, execRPushX, r
    <2>3. Done(s).store = s
        BY DEF Done
    <2>4. Slot(v, k) = <<List(pushTail(listOf(s, k), c.args)), s.ttl[k]>>
        BY <1>2
    <2>5. ~WrongType(s, k, "list") => ~Broken(listOf(s, k))
        <3>1. ~BrokenList(s, k)
            BY <1>4 DEF Usable
        <3>2. CASE ~Exists(s, k)
            BY <3>2 DEF listOf, NewQuickList, Broken
        <3> QED  BY <3>1, <3>2, ListMet
    <2> HIDE DEF v
    <2> QED  BY <1>1, <2>1, <2>2, <2>3, <2>4, <2>5
<1> QED  BY <1>3, <1>4 DEF PushOps

LEMMA PushesUndone ==
    ASSUME NEW s, NEW c, Succeeds(s, c), Usable(s, c), c.op \in PushOps, c.args # <<>>
    PROVE  Undoes(s, c, c.key)
<1> DEFINE k == c.key
           u == execWithLock(s, c).store
           log == GetUndoLogs(s, c)
           l == listOf(s, k)
           n == Len(log)
           left == c.op \in {"lpush", "lpushx"}
           K == MayChange(c)
           T == ToSet(c.args)
<1>1. IsStore(u) /\ k \in Key /\ IsLog(log, K) /\ c.args \in Seq(T)
    <2>1. c.args \in Seq(T)
        BY DEF Succeeds, LineArgs, PushOps
    <2> QED  BY <2>1, LogRuns
<1>2. log = IF left THEN undoLPush(c) ELSE undoRPush(c)
    <2>1. left => GetUndoLogs(s, c) = undoLPush(c)
        BY DEF GetUndoLogs, RenameOps, ExpireOps
    <2>2. c.op \in {"rpush", "rpushx"} => GetUndoLogs(s, c) = undoRPush(c)
        BY DEF GetUndoLogs, RenameOps, ExpireOps
    <2>3. left \/ c.op \in {"rpush", "rpushx"}
        BY DEF PushOps
    <2>4. c.op \in {"rpush", "rpushx"} => ~left
        OBVIOUS
    <2> HIDE DEF left
    <2> QED  BY <2>1, <2>2, <2>3, <2>4
<1>3. /\ Len(c.args) = n /\ n > 0 /\ n \in Nat
      /\ \A i \in 1..n : log[i] = IF left THEN On("lpop", k) ELSE On("rpop", k)
    <2>1. log = [i \in 1..Len(c.args) |-> IF left THEN On("lpop", k) ELSE On("rpop", k)]
        <3>1. DOMAIN c.args = 1..Len(c.args)
            BY <1>1, LenProperties
        <3> QED  BY <1>2, <3>1 DEF undoLPush, undoRPush
    <2>2. Len(c.args) \in Nat /\ Len(c.args) > 0
        BY <1>1, LenProperties
    <2> HIDE DEF log
    <2>3. n = Len(c.args)
        BY <2>1, <2>2
    <2> QED  BY <2>1, <2>2, <2>3
<1>4. Pops(log, k)
    BY <1>3 DEF Pops
<1> HIDE DEF log, n, K, T
<1>5. \/ ~Exists(s, k) /\ u = s
      \/ /\ ~WrongType(s, k, "list") /\ ~Broken(l)
         /\ Slot(u, k) = <<List(IF left THEN pushHead(l, c.args) ELSE pushTail(l, c.args)), s.ttl[k]>>
    BY PushDone
<1> HIDE DEF u, left
<1>6. CASE ~Exists(s, k) /\ u = s
    <2>1. Slot(u, k) = Nothing /\ Slot(s, k) = Nothing
        BY <1>6, ListMet
    <2> QED  BY <1>1, <1>4, <2>1, NoListPopped DEF Undoes, u, log
<1>7. CASE ~Exists(s, k) /\ Slot(u, k) = <<List(IF left THEN pushHead(l, c.args) ELSE pushTail(l, c.args)), s.ttl[k]>>
    <2>1. l = NewQuickList /\ Slot(s, k) = Nothing /\ s.ttl[k] = NoTTL
        BY <1>7, ListMet DEF Slot, Nothing
    <2> DEFINE m == IF left THEN pushHead(l, c.args) ELSE pushTail(l, c.args)
    <2>2. PageOf(T, m) /\ m.size = n
        <3>1. Open(T, l) /\ l.size = 0
            BY <2>1 DEF Open, NewQuickList
        <3>2. PageOf(T, m) /\ m.size = l.size + Len(c.args)
            <4> HIDE DEF l
            <4> QED  BY <1>1, <3>1, PushHeadPage, PushTailPage
        <3> QED  BY <1>3, <3>1, <3>2
    <2>3. Slot(u, k) = <<List(m), NoTTL>>
        BY <1>7, <2>1
    <2> HIDE DEF m
    <2>4. Slot(RunAll(u, log), k) = Nothing
        BY <1>1, <1>3, <1>4, <2>2, <2>3, AllPopped DEF n
    <2> QED  BY <2>1, <2>4 DEF Undoes, u, log
<1>8. CASE IsType(s, k, "list") /\ ~Broken(l) /\ Slot(u, k) = <<List(IF left THEN pushHead(l, c.args) ELSE pushTail(l, c.args)), s.ttl[k]>>
    <2>1. PICK S : PageOf(S, l)
        BY <1>8, ListMet
    <2>2. l.size \in Int /\ l.size # 0 /\ l.size >= 0 /\ Slot(s, k) = <<List(l), s.ttl[k]>>
        BY <1>8, ListMet DEF Broken
    <2> DEFINE U == S \cup T
    <2>3. PageOf(U, l) /\ c.args \in Seq(U)
        BY <1>1, <2>1, PageMonotonic, SeqMonotonic
    <2> HIDE DEF U, l
    <2>4. CASE left
        <3>1. l.size >= 2
            <4>1. ~SizeAtMost(s, k, 1)
                BY <2>4 DEF Succeeds, NotUndone, left
            <4>2. ~(l.size <= 1)
                BY <1>8, <4>1, ListMet DEF l
            <4> QED  BY <2>2, <4>2
        <3>2. Slot(RunAll(u, log), k) = <<List(l), s.ttl[k]>>
            BY <1>1, <1>3, <1>8, <2>3, <2>4, <3>1, FrontPopped DEF n
        <3> QED  BY <2>2, <3>2 DEF Undoes, u, log
    <2>5. CASE ~left
        <3>1. l.size >= 1
            BY <2>2
        <3>2. Slot(RunAll(u, log), k) = <<List(l), s.ttl[k]>>
            BY <1>1, <1>3, <1>8, <2>3, <2>5, <3>1, BackPopped DEF n
        <3> QED  BY <2>2, <3>2 DEF Undoes, u, log
    <2> QED  BY <2>4, <2>5
<1> QED  BY <1>5, <1>6, <1>7, <1>8, ListMet

\* A list is put, or the key of a list that has become empty removed.
LEMMA ListSlots ==
    ASSUME NEW s, IsStore(s), NEW k \in Key, NEW l, NEW p, p = PutEntity(s, k, List(l))
    PROVE  /\ IsStore(p) /\ Slot(p, k) = <<List(l), s.ttl[k]>>
           /\ \A j \in Key \ {k} : Slot(p, j) = Slot(s, j)
<1>1. /\ IsStore(p) /\ p.ttl = s.ttl /\ p.data[k] = List(l)
      /\ \A j \in Key \ {k} : p.data[j] = s.data[j]
    BY ListStored
<1> QED  BY <1>1 DEF Slot

LEMMA ListFound ==
    ASSUME NEW s, NEW k, NEW l, NEW t, Slot(s, k) = <<List(l), t>>
    PROVE  listOf(s, k) = l /\ IsType(s, k, "list") /\ Exists(s, k) /\ s.ttl[k] = t
<1>1. s.data[k] = <<"list", l>> /\ s.ttl[k] = t
    BY DEF Slot, List
<1> QED  BY <1>1 DEF listOf, IsType, Exists, TypeOf, ValueOf

\* A command with an empty log that has left the key as it was.
LEMMA NothingDone ==
    ASSUME NEW s, NEW c, NEW k, Slot(execWithLock(s, c).store, k) = Slot(s, k), GetUndoLogs(s, c) = <<>>
    PROVE  Undoes(s, c, k)
<1>1. \A u : RunAll(u, <<>>) = u
    BY RunLines
<1> QED  BY <1>1 DEF Undoes

\* A log of one line.
LEMMA OneLineUndoes ==
    ASSUME NEW s, NEW c, NEW k, NEW line, GetUndoLogs(s, c) = <<line>>,
           NEW u, u = execWithLock(s, c).store, Slot(execWithLock(u, line).store, k) = Slot(s, k)
    PROVE  Undoes(s, c, k)
<1>1. \A a : RunAll(u, <<a>>) = execWithLock(u, a).store
    BY RunLines
<1> QED  BY <1>1 DEF Undoes

LEMMA LPopUndone ==
    ASSUME NEW s, NEW c, Succeeds(s, c), c.op = "lpop"
    PROVE  Undoes(s, c, c.key)
<1> DEFINE k == c.key
           l == listOf(s, k)
           u == execWithLock(s, c).store
           x == GetAt(l, 0)
<1>1. IsStore(s) /\ IsStore(u) /\ k \in Key /\ execWithLock(s, c).fate = "ok"
    BY LogRuns DEF Succeeds
<1>2. GetUndoLogs(s, c) = undoLPop(s, c) /\ execWithLock(s, c) = execLPop(s, c)
    <2>1. GetUndoLogs(s, c) = undoLPop(s, c)
        BY DEF GetUndoLogs, RenameOps, ExpireOps
    <2>2. execWithLock(s, c) = execLPop(s, c)
        BY DEF execWithLock
    <2> QED  BY <2>1, <2>2
<1>3. ~WrongType(s, k, "list") /\ (Exists(s, k) => ~Broken(l))
    BY <1>1, <1>2 DEF execLPop, Error, Panicked
<1>4. CASE ~Exists(s, k)
    <2>1. execLPop(s, c).store = s
        BY <1>3, <1>4 DEF execLPop, Done
    <2>2. undoLPop(s, c) = <<>>
        BY <1>4 DEF undoLPop, Exists, IsType
    <2> QED  BY <1>2, <2>1, <2>2, NothingDone
<1>5. CASE Exists(s, k)
    <2>1. IsType(s, k, "list")
        BY <1>3, <1>5, ListMet
    <2>2. PICK S : PageOf(S, l)
        BY <2>1, ListMet
    <2>3. Slot(s, k) = <<List(l), s.ttl[k]>> /\ l.size \in Int
        BY <2>1, ListMet
    <2>4. l.size >= 3
        <3>1. ~SizeAtMost(s, k, 2)
            BY DEF Succeeds, NotUndone
        <3>2. ~(l.size <= 2)
            BY <2>1, <3>1, ListMet
        <3> QED  BY <2>3, <3>2
    <2>5. undoLPop(s, c) = <<Command("lpush", k, 0, <<x>>)>>
        BY <1>3, <1>5, <2>1 DEF undoLPop
    <2> DEFINE m == RemoveHead(l)
    <2>6. PageOf(S, m) /\ m.size = l.size - 1
        BY <2>2, <2>3, <2>4, RemoveHeadPage
    <2>7. u = PutEntity(s, k, List(m))
        <3>1. execLPop(s, c).store = PutOrRemove(s, k, m)
            BY <1>3, <1>5 DEF execLPop, Logged
        <3>2. m.size # 0
            BY <2>3, <2>4, <2>6
        <3> QED  BY <1>2, <3>1, <3>2 DEF PutOrRemove
    <2> HIDE DEF u, x, l
    <2>8. InsertFront(m, x) = l
        BY <2>2, <2>4, PoppedAndPushed DEF x
    <2> HIDE DEF m
    <2>9. Slot(u, k) = <<List(m), s.ttl[k]>>
        BY <1>1, <2>7, ListSlots
    <2>10. Leaves(u, Command("lpush", k, 0, <<x>>), k, InsertFront(m, x), s.ttl[k])
        <3>1. m.size \in Int /\ m.size > 0
            BY <2>3, <2>4, <2>6
        <3> QED  BY <1>1, <2>9, <3>1, ListLines
    <2> QED  BY <1>2, <2>3, <2>5, <2>8, <2>10, OneLineUndoes DEF Leaves, u
<1> QED  BY <1>4, <1>5

LEMMA RPopUndone ==
    ASSUME NEW s, NEW c, Succeeds(s, c), c.op = "rpop"
    PROVE  Undoes(s, c, c.key)
<1> DEFINE k == c.key
           l == listOf(s, k)
           u == execWithLock(s, c).store
           x == GetAt(l, l.size - 1)
<1>1. IsStore(s) /\ IsStore(u) /\ k \in Key /\ execWithLock(s, c).fate = "ok"
    BY LogRuns DEF Succeeds
<1>2. GetUndoLogs(s, c) = undoRPop(s, c) /\ execWithLock(s, c) = execRPop(s, c)
    <2>1. GetUndoLogs(s, c) = undoRPop(s, c)
        BY DEF GetUndoLogs, RenameOps, ExpireOps
    <2>2. execWithLock(s, c) = execRPop(s, c)
        BY DEF execWithLock
    <2> QED  BY <2>1, <2>2
<1>3. ~WrongType(s, k, "list") /\ (Exists(s, k) => ~Broken(l))
    BY <1>1, <1>2 DEF execRPop, Error, Panicked
<1>4. CASE ~Exists(s, k)
    <2>1. execRPop(s, c).store = s
        BY <1>3, <1>4 DEF execRPop, Done
    <2>2. undoRPop(s, c) = <<>>
        BY <1>4 DEF undoRPop, Exists, IsType
    <2> QED  BY <1>2, <2>1, <2>2, NothingDone
<1>5. CASE Exists(s, k)
    <2>1. IsType(s, k, "list")
        BY <1>3, <1>5, ListMet
    <2>2. PICK S : PageOf(S, l)
        BY <2>1, ListMet
    <2>3. Slot(s, k) = <<List(l), s.ttl[k]>> /\ l.size \in Int
        BY <2>1, ListMet
    <2>4. l.size >= 2
        <3>1. ~SizeAtMost(s, k, 1)
            BY DEF Succeeds, NotUndone
        <3>2. ~(l.size <= 1)
            BY <2>1, <3>1, ListMet
        <3> QED  BY <2>3, <3>2
    <2>5. undoRPop(s, c) = <<Command("rpush", k, 0, <<x>>)>>
        BY <1>3, <1>5, <2>1 DEF undoRPop
    <2> DEFINE m == RemoveLast(l)
    <2>6. PageOf(S, m) /\ m.size = l.size - 1
        <3>1. l.size >= 0
            BY <2>3, <2>4
        <3> QED  BY <2>2, <3>1, RemoveLastPage
    <2>7. u = PutEntity(s, k, List(m))
        <3>1. execRPop(s, c).store = PutOrRemove(s, k, m)
            BY <1>3, <1>5 DEF execRPop, Logged
        <3>2. m.size # 0
            BY <2>3, <2>4, <2>6
        <3> QED  BY <1>2, <3>1, <3>2 DEF PutOrRemove
    <2> HIDE DEF u, x, l
    <2>8. pushTail(m, <<x>>) = l
        BY <2>2, <2>4, PoppedAndPushed DEF x
    <2> HIDE DEF m
    <2>9. Slot(u, k) = <<List(m), s.ttl[k]>>
        BY <1>1, <2>7, ListSlots
    <2>10. Leaves(u, Command("rpush", k, 0, <<x>>), k, pushTail(m, <<x>>), s.ttl[k])
        <3>1. m.size \in Int /\ m.size > 0
            BY <2>3, <2>4, <2>6
        <3> QED  BY <1>1, <2>9, <3>1, ListLines
    <2> QED  BY <1>2, <2>3, <2>5, <2>8, <2>10, OneLineUndoes DEF Leaves, u
<1> QED  BY <1>4, <1>5

LEMMA LSetUndone ==
    ASSUME NEW s, NEW c, Succeeds(s, c), c.op = "lset"
    PROVE  Undoes(s, c, c.key)
<1> DEFINE k == c.key
           l == listOf(s, k)
           i == fromHead(l, c.n)
           u == execWithLock(s, c).store
           x == GetAt(l, i)
           m == SetAt(l, i, c.args[1])
<1>1. IsStore(s) /\ IsStore(u) /\ k \in Key /\ execWithLock(s, c).fate = "ok" /\ c.n \in Int
    BY LogRuns DEF Succeeds
<1>2. GetUndoLogs(s, c) = undoLSet(s, c) /\ execWithLock(s, c) = execLSet(s, c)
    <2>1. GetUndoLogs(s, c) = undoLSet(s, c)
        BY DEF GetUndoLogs, RenameOps, ExpireOps
    <2>2. execWithLock(s, c) = execLSet(s, c)
        BY DEF execWithLock
    <2> QED  BY <2>1, <2>2
<1>3. IsType(s, k, "list") /\ InRange(l, i)
    BY <1>1, <1>2 DEF execLSet, Error
<1>4. PICK S : PageOf(S, l)
    BY <1>3, ListMet
<1>5. Slot(s, k) = <<List(l), s.ttl[k]>> /\ l.size \in Int /\ i \in Int /\ l.size > 0
    <2>1. Slot(s, k) = <<List(l), s.ttl[k]>> /\ l.size \in Int
        BY <1>3, ListMet
    <2>2. i \in Int
        BY <1>1, <2>1 DEF fromHead
    <2>3. l.size > 0
        BY <1>3, <2>1, <2>2 DEF InRange
    <2> QED  BY <2>1, <2>2, <2>3
<1>6. undoLSet(s, c) = <<Command("lset", k, c.n, <<x>>)>>
    BY <1>3 DEF undoLSet
<1>7. u = PutEntity(s, k, List(m))
    BY <1>2, <1>3 DEF execLSet, Logged
<1> HIDE DEF l, u, x
<1>8. SetAt(m, i, x) = l /\ m.size = l.size
    BY <1>3, <1>4, <1>5, SetAndSet DEF x
<1>9. fromHead(m, c.n) = i /\ InRange(m, i)
    BY <1>3, <1>8 DEF fromHead, InRange
<1> HIDE DEF m, i
<1>10. Slot(u, k) = <<List(m), s.ttl[k]>>
    BY <1>1, <1>7, ListSlots
<1>11. Leaves(u, Command("lset", k, c.n, <<x>>), k, SetAt(m, i, x), s.ttl[k])
    <2>1. m.size \in Int /\ m.size > 0
        BY <1>5, <1>8
    <2>2. Leaves(u, Command("lset", k, c.n, <<x>>), k, SetAt(m, fromHead(m, c.n), x), s.ttl[k])
        BY <1>1, <1>9, <1>10, <2>1, ListLines
    <2> QED  BY <1>9, <2>2
<1> QED  BY <1>2, <1>5, <1>6, <1>8, <1>11, OneLineUndoes DEF Leaves, u

LEMMA PairOfTwo ==
    ASSUME NEW x, NEW y
    PROVE  <<x>> \o <<y>> = <<x, y>>
<1> DEFINE S == {x, y}
           s == <<x>> \o <<y>>
           t == <<x, y>>
<1>1. <<x>> \in Seq(S) /\ <<y>> \in Seq(S) /\ t \in Seq(S)
    OBVIOUS
<1>2. /\ s \in Seq(S) /\ Len(s) = Len(<<x>>) + Len(<<y>>)
      /\ \A i \in 1..Len(s) : s[i] = IF i <= Len(<<x>>) THEN <<x>>[i] ELSE <<y>>[i - Len(<<x>>)]
    BY <1>1, ConcatProperties
<1>3. Len(s) = 2 /\ s[1] = x /\ s[2] = y
    BY <1>2
<1> HIDE DEF s, S
<1>4. Len(t) = 2 /\ t[1] = x /\ t[2] = y
    OBVIOUS
<1> HIDE DEF t
<1>5. Len(s) = Len(t) /\ \A i \in 1..Len(s) : s[i] = t[i]
    <2>1. \A i \in 1..2 : i = 1 \/ i = 2
        OBVIOUS
    <2> QED  BY <1>3, <1>4, <2>1
<1> QED  BY <1>1, <1>2, <1>5, SeqEqual DEF s, t

\* A command changes the keys it may change, and no other.
LEMMA LineWithin ==
    ASSUME NEW w, IsStore(w), NEW line, IsCommand(line), NEW v, v = execWithLock(w, line).store
    PROVE  Within(w, v, MayChange(line))
<1>1. Ended(w, line, execWithLock(w, line))
    BY EveryCommand
<1> QED  BY <1>1 DEF Ended

\* An element put at either end of a list, in either order.
LEMMA BothEnds ==
    ASSUME NEW S, NEW l, PageOf(S, l), l.size >= 2, NEW x, NEW y
    PROVE  pushTail(InsertFront(l, x), <<y>>) = InsertFront(pushTail(l, <<y>>), x)
<1>1. PICK p \in Seq(S), n \in Int : l = [page |-> p, size |-> n] /\ Len(p) = n + 1
    BY DEF PageOf
<1>2. l.page = p /\ l.size = n /\ n >= 2 /\ p # <<>> /\ Len(p) > 0
    BY <1>1
<1> DEFINE T == S \cup {x, y}
           front == <<x>> \o p
           back == p \o <<y>>
<1>3. p \in Seq(T) /\ <<x>> \in Seq(T) /\ <<y>> \in Seq(T)
    BY SeqMonotonic
<1>4. /\ back \in Seq(T) /\ Len(back) = Len(p) + 1
      /\ front \in Seq(T) /\ Len(front) = Len(p) + 1
    <2>1. \A q, r \in Seq(T) : q \o r \in Seq(T) /\ Len(q \o r) = Len(q) + Len(r)
        BY ConcatProperties
    <2>2. Len(<<x>>) = 1 /\ Len(<<y>>) = 1
        OBVIOUS
    <2>3. Len(p) \in Nat
        BY LenProperties
    <2> QED  BY <1>3, <2>1, <2>2, <2>3
<1>5. front \o <<y>> = <<x>> \o back
    BY <1>3, ConcatAssociative
<1> HIDE DEF T
<1>6. find(l, 0) = 1
    <2>1. 0 < n \div 2
        BY <1>2
    <2> QED  BY <1>2, <2>1 DEF find
<1>7. InsertFront(l, x) = [page |-> front, size |-> n + 1]
    <2>1. InsertAt(p, 1, x) = front
        BY <1>2, FrontOfPage
    <2> HIDE DEF front
    <2>2. l.size # 0
        BY <1>2
    <2> QED  BY <1>2, <1>6, <2>1, <2>2 DEF InsertFront
<1>8. pushTail(l, <<y>>) = [page |-> back, size |-> n + 1]
    <2> HIDE DEF back
    <2>1. pushTail(l, <<y>>) = [page |-> p \o <<y>>, size |-> n + 1]
        BY <1>2 DEF pushTail
    <2> QED  BY <2>1 DEF back
<1>9. pushTail([page |-> front, size |-> n + 1], <<y>>) = [page |-> front \o <<y>>, size |-> (n + 1) + 1]
    <2>1. front # <<>>
        BY <1>2, <1>4
    <2> HIDE DEF front
    <2> QED  BY <2>1 DEF pushTail
<1>10. InsertFront([page |-> back, size |-> n + 1], x) = [page |-> <<x>> \o back, size |-> (n + 1) + 1]
    <2> DEFINE m == [page |-> back, size |-> n + 1]
    <2>1. find(m, 0) = 1
        <3>1. 0 < (n + 1) \div 2
            BY <1>2
        <3> QED  BY <3>1 DEF find
    <2>2. Len(back) > 0
        BY <1>2, <1>4, LenProperties
    <2> HIDE DEF back
    <2>3. InsertAt(back, 1, x) = <<x>> \o back
        BY <1>4, <2>2, FrontOfPage
    <2>4. m.size # 0 /\ m.page = back /\ m.size = n + 1
        BY <1>2
    <2> HIDE DEF m
    <2>5. InsertFront(m, x) = [page |-> <<x>> \o back, size |-> (n + 1) + 1]
        BY <2>1, <2>3, <2>4 DEF InsertFront
    <2> QED  BY <2>5 DEF m
<1> QED  BY <1>5, <1>7, <1>8, <1>9, <1>10

\* Two lines, the second on another key or on the same.
LEMMA TwoLines ==
    ASSUME NEW u, NEW a, NEW b, NEW v, v = execWithLock(u, a).store
    PROVE  RunAll(u, <<a, b>>) = execWithLock(v, b).store
<1> DEFINE cmds == <<a, b>>
<1>1. 0 \in 0..2 /\ 1 \in 0..2 /\ 2 \in 0..2 /\ cmds[1] = a /\ cmds[2] = b /\ Len(cmds) = 2
    OBVIOUS
<1> HIDE DEF cmds
<1>2. PICK g : Passes(u, cmds, 2, g)
    BY <1>1, RunPasses
<1>3. g[0] = u /\ g[1] = execWithLock(g[0], cmds[1]).store
    BY <1>1, <1>2 DEF Passes
<1>4. g[2] = execWithLock(g[1], cmds[2]).store /\ RunAll(u, cmds) = g[2]
    BY <1>1, <1>2 DEF Passes
<1>5. g[1] = v
    BY <1>1, <1>3
<1> QED  BY <1>1, <1>4, <1>5 DEF cmds

\* What a pop and push leaves, and its log.
LEMMA RPopLPushDone ==
    ASSUME NEW s, NEW c, Succeeds(s, c), Usable(s, c), c.op = "rpoplpush", Exists(s, c.key)
    PROVE  LET k == c.key
               dest == c.args[1]
               l == listOf(s, k)
               m == IF dest = k THEN RemoveLast(l) ELSE listOf(s, dest)
               front == InsertFront(m, Last(l.page))
               u == execWithLock(s, c).store
           IN  /\ dest \in Key /\ MayChange(c) = {k, dest}
               /\ IsType(s, k, "list") /\ ~WrongType(s, dest, "list") /\ l.size >= 3
               /\ Slot(u, dest) = <<List(front), s.ttl[dest]>>
               /\ dest # k => Slot(u, k) = <<List(RemoveLast(l)), s.ttl[k]>>
               /\ GetUndoLogs(s, c) = <<Command("rpush", k, 0, <<GetAt(l, l.size - 1)>>), On("lpop", dest)>>
<1> DEFINE k == c.key
           dest == c.args[1]
           l == listOf(s, k)
           e == Last(l.page)
           m == IF dest = k THEN RemoveLast(l) ELSE listOf(s, dest)
           front == InsertFront(m, e)
           u == execWithLock(s, c).store
           popped == PutEntity(s, k, List(RemoveLast(l)))
           pushed == PutEntity(popped, dest, List(InsertFront(listOf(popped, dest), e)))
<1>1. IsStore(s) /\ IsStore(u) /\ k \in Key /\ execWithLock(s, c).fate = "ok" /\ IsCommand(c)
    BY LogRuns DEF Succeeds
<1>2. dest \in Key /\ MayChange(c) = {k, dest}
    <2>1. c.args \in Seq(Key) /\ Len(c.args) = 1
        BY <1>1 DEF IsCommand, RenameOps, StoreOps
    <2>2. dest \in Key /\ c.args = <<dest>>
        BY <2>1
    <2>3. writeKeysOf(c) = <<k>> \o <<dest>>
        BY <2>2 DEF writeKeysOf, RenameOps
    <2>4. <<k>> \o <<dest>> = <<k, dest>>
        BY PairOfTwo
    <2> HIDE DEF dest, k
    <2>5. ToSet(<<k, dest>>) = {k, dest}
        BY DEF ToSet
    <2>6. MayChange(c) = ToSet(writeKeysOf(c))
        BY DEF MayChange, RenameOps
    <2> QED  BY <2>2, <2>3, <2>4, <2>5, <2>6
<1>3. execWithLock(s, c) = execRPopLPush(s, c)
    BY DEF execWithLock
<1>4. /\ ~WrongType(s, k, "list") /\ ~WrongType(s, dest, "list")
      /\ u = PutOrRemove(pushed, k, listOf(pushed, k))
    BY <1>1, <1>3 DEF execRPopLPush, Error, Done, Logged
<1>5. IsType(s, k, "list") /\ Slot(s, k) = <<List(l), s.ttl[k]>> /\ l.size \in Int
    BY <1>4, ListMet
<1>6. l.size >= 3
    <2>1. ~SizeAtMost(s, k, 2)
        BY DEF Succeeds, NotUndone
    <2>2. ~(l.size <= 2)
        BY <1>5, <2>1, ListMet
    <2> QED  BY <1>5, <2>2
<1>7. GetUndoLogs(s, c) = <<Command("rpush", k, 0, <<GetAt(l, l.size - 1)>>), On("lpop", dest)>>
    <2> DEFINE a == Command("rpush", k, 0, <<GetAt(l, l.size - 1)>>)
    <2>1. GetUndoLogs(s, c) = undoRPopLPush(s, c)
        BY DEF GetUndoLogs, RenameOps, ExpireOps
    <2>2. undoRPop(s, c) = <<a>>
        <3>1. ~Broken(l)
            BY <1>5, <1>6 DEF Broken
        <3> QED  BY <1>5, <3>1 DEF undoRPop
    <2>3. <<a>> # Panic /\ <<a>> # <<>>
        BY DEF Panic, On, Command
    <2> HIDE DEF a
    <2>4. undoRPopLPush(s, c) = <<a>> \o <<On("lpop", dest)>>
        BY <2>2, <2>3 DEF undoRPopLPush
    <2>5. <<a>> \o <<On("lpop", dest)>> = <<a, On("lpop", dest)>>
        BY PairOfTwo
    <2> QED  BY <2>1, <2>4, <2>5 DEF a
<1> HIDE DEF l, e, dest, k
<1>8. /\ IsStore(popped) /\ Slot(popped, k) = <<List(RemoveLast(l)), s.ttl[k]>>
      /\ \A j \in Key \ {k} : Slot(popped, j) = Slot(s, j)
    BY <1>1, ListSlots
<1> HIDE DEF popped
<1>9. listOf(popped, dest) = m /\ popped.ttl[dest] = s.ttl[dest]
    <2>1. CASE dest = k
        BY <1>8, <2>1, ListFound
    <2>2. CASE dest # k
        <3>1. Slot(popped, dest) = Slot(s, dest)
            BY <1>2, <1>8, <2>2
        <3>2. popped.data[dest] = s.data[dest] /\ popped.ttl[dest] = s.ttl[dest]
            BY <3>1 DEF Slot
        <3> QED  BY <2>2, <3>2 DEF listOf, Exists, TypeOf, ValueOf
    <2> QED  BY <2>1, <2>2
<1>10. pushed = PutEntity(popped, dest, List(front))
    BY <1>9
<1> HIDE DEF pushed, front
<1>11. /\ IsStore(pushed) /\ Slot(pushed, dest) = <<List(front), s.ttl[dest]>>
       /\ \A j \in Key \ {dest} : Slot(pushed, j) = Slot(popped, j)
    BY <1>2, <1>8, <1>9, <1>10, ListSlots
<1>12. RemoveLast(l).size = l.size - 1
    BY DEF RemoveLast
<1>13. dest = k => front.size = l.size
    <2> SUFFICES ASSUME dest = k PROVE front.size = l.size
        OBVIOUS
    <2>1. m = RemoveLast(l)
        OBVIOUS
    <2>2. m.size = l.size - 1 /\ m.size # 0
        BY <1>5, <1>6, <1>12, <2>1
    <2> HIDE DEF m
    <2>3. front.size = m.size + 1
        BY <2>2 DEF front, InsertFront
    <2> QED  BY <1>5, <2>2, <2>3
<1> DEFINE last == IF dest = k THEN front ELSE RemoveLast(l)
<1>14. Slot(pushed, k) = <<List(last), s.ttl[k]>> /\ last.size # 0
    <2>1. CASE dest = k
        BY <1>5, <1>6, <1>11, <1>13, <2>1
    <2>2. CASE dest # k
        <3>1. Slot(pushed, k) = Slot(popped, k)
            BY <1>1, <1>11, <2>2
        <3> QED  BY <1>5, <1>6, <1>8, <1>12, <2>2, <3>1
    <2> QED  BY <2>1, <2>2
<1>15. listOf(pushed, k) = last /\ pushed.ttl[k] = s.ttl[k]
    BY <1>14, ListFound
<1>16. u = PutEntity(pushed, k, List(last))
    <2> HIDE DEF last, u
    <2> QED  BY <1>4, <1>14, <1>15 DEF PutOrRemove
<1>17. /\ Slot(u, k) = <<List(last), s.ttl[k]>>
       /\ \A j \in Key \ {k} : Slot(u, j) = Slot(pushed, j)
    <2> HIDE DEF last, u
    <2> QED  BY <1>1, <1>11, <1>15, <1>16, ListSlots
<1>18. Slot(u, dest) = <<List(front), s.ttl[dest]>> /\ (dest # k => Slot(u, k) = <<List(RemoveLast(l)), s.ttl[k]>>)
    <2> HIDE DEF u
    <2>1. CASE dest = k
        BY <1>17, <2>1
    <2>2. CASE dest # k
        BY <1>2, <1>11, <1>17, <2>2
    <2> QED  BY <2>1, <2>2
<1> QED  BY <1>2, <1>4, <1>5, <1>6, <1>7, <1>18 DEF dest, k, l, e, front, m, u

LEMMA RPopLPushUndone ==
    ASSUME NEW s, NEW c, Succeeds(s, c), Usable(s, c), c.op = "rpoplpush"
    PROVE  \A j \in MayChange(c) \cap Key : Undoes(s, c, j)
<1> DEFINE k == c.key
           dest == c.args[1]
           l == listOf(s, k)
           e == Last(l.page)
           u == execWithLock(s, c).store
           x == GetAt(l, l.size - 1)
           a == Command("rpush", k, 0, <<x>>)
           b == On("lpop", dest)
           v == execWithLock(u, a).store
           log == GetUndoLogs(s, c)
           less == RemoveLast(l)
<1>1. IsStore(s) /\ IsStore(u) /\ k \in Key /\ execWithLock(s, c).fate = "ok" /\ IsLog(log, MayChange(c))
    BY LogRuns DEF Succeeds
<1>2. CASE ~Exists(s, k)
    <2>1. execWithLock(s, c) = execRPopLPush(s, c)
        BY DEF execWithLock
    <2>2. execWithLock(s, c).store = s
        BY <1>1, <1>2, <2>1 DEF execRPopLPush, Done, Error
    <2>3. undoRPop(s, c) = <<>>
        BY <1>2 DEF undoRPop, Exists, IsType
    <2>4. GetUndoLogs(s, c) = undoRPopLPush(s, c)
        BY DEF GetUndoLogs, RenameOps, ExpireOps
    <2>5. GetUndoLogs(s, c) = <<>>
        BY <2>3, <2>4 DEF undoRPopLPush
    <2> QED  BY <2>2, <2>5, NothingDone
<1>3. CASE Exists(s, k)
    <2> DEFINE m == IF dest = k THEN less ELSE listOf(s, dest)
               front == InsertFront(m, e)
    <2>1. /\ dest \in Key /\ MayChange(c) = {k, dest}
          /\ IsType(s, k, "list") /\ ~WrongType(s, dest, "list") /\ l.size >= 3
          /\ Slot(u, dest) = <<List(front), s.ttl[dest]>>
          /\ dest # k => Slot(u, k) = <<List(less), s.ttl[k]>>
          /\ log = <<a, b>>
        BY <1>3, RPopLPushDone
    <2>2. PICK S : PageOf(S, l)
        BY <2>1, ListMet
    <2>3. l.size \in Int /\ Slot(s, k) = <<List(l), s.ttl[k]>>
        BY <2>1, ListMet
    <2> HIDE DEF l, e, dest, k
    <2>4. PageOf(S, less) /\ less.size = l.size - 1
        <3>1. l.size >= 0
            BY <2>1, <2>3
        <3> QED  BY <2>2, <3>1, RemoveLastPage
    <2>5. less.size \in Int /\ less.size >= 2 /\ less.size > 0 /\ less.size # 0
        BY <2>1, <2>3, <2>4
    <2>6. pushTail(less, <<x>>) = l
        <3>1. l.size >= 2
            BY <2>1, <2>3
        <3> QED  BY <2>2, <3>1, PoppedAndPushed
    <2> HIDE DEF less, x
    <2>7. IsCommand(a) /\ IsCommand(b) /\ MayChange(a) = {k}
        <3>1. IsCommand(<<a, b>>[1]) /\ IsCommand(<<a, b>>[2])
            <4>1. \A i \in 1..Len(log) : IsCommand(log[i])
                BY <1>1 DEF IsLog, IsLine
            <4>2. 1 \in 1..Len(<<a, b>>) /\ 2 \in 1..Len(<<a, b>>)
                OBVIOUS
            <4> HIDE DEF a, b, log
            <4> QED  BY <2>1, <4>1, <4>2
        <3>2. a.op = "rpush" /\ a.key = k
            BY DEF Command
        <3> HIDE DEF a, b
        <3>3. MayChange(a) = {k}
            BY <3>2, FirstKey DEF RenameOps
        <3> QED  BY <3>1, <3>3
    <2> HIDE DEF u
    <2>8. Within(u, v, {k}) /\ IsStore(v)
        <3> HIDE DEF a
        <3>1. Within(u, v, {k})
            BY <1>1, <2>7, LineWithin
        <3> QED  BY <3>1 DEF Within
    <2>9. RunAll(u, log) = execWithLock(v, b).store
        <3> HIDE DEF a, b, log
        <3> QED  BY <2>1, TwoLines DEF v
    <2>10. CASE dest = k
        <3>1. Slot(u, k) = <<List(InsertFront(less, e)), s.ttl[k]>>
            BY <2>1, <2>10
        <3> DEFINE w == InsertFront(less, e)
                   z == InsertFront(l, e)
        <3>2. w.size \in Int /\ w.size > 0
            <4>1. w.size = less.size + 1
                BY <2>5 DEF InsertFront
            <4> QED  BY <2>5, <4>1
        <3> HIDE DEF w
        <3>3. Leaves(u, a, k, pushTail(w, <<x>>), s.ttl[k])
            <4>1. Slot(u, k) = <<List(w), s.ttl[k]>>
                BY <3>1 DEF w
            <4> QED  BY <1>1, <3>2, <4>1, ListLines
        <3>4. pushTail(w, <<x>>) = z
            BY <2>4, <2>5, <2>6, BothEnds DEF w
        <3>5. Slot(v, k) = <<List(z), s.ttl[k]>>
            BY <3>3, <3>4 DEF Leaves
        <3>6. RemoveHead(z) = l /\ z.size = l.size + 1
            <4>1. l.size >= 2 /\ l.size # 0
                BY <2>1, <2>3
            <4>2. RemoveHead(z) = l
                BY <2>2, <4>1, PushedAndPopped
            <4>3. z.size = l.size + 1
                BY <4>1 DEF InsertFront
            <4> QED  BY <4>2, <4>3
        <3> HIDE DEF z
        <3>7. Leaves(v, On("lpop", k), k, RemoveHead(z), s.ttl[k])
            <4>1. z.size \in Int /\ z.size > 1
                BY <2>1, <2>3, <3>6
            <4> HIDE DEF v
            <4> QED  BY <1>1, <2>8, <3>5, <4>1, PopLines
        <3>8. Slot(RunAll(u, log), k) = Slot(s, k)
            <4> HIDE DEF v
            <4> QED  BY <2>3, <2>9, <2>10, <3>6, <3>7 DEF Leaves
        <3> QED  BY <2>1, <2>10, <3>8 DEF Undoes, u
    <2>11. CASE dest # k
        <3>1. m = listOf(s, dest)
            BY <2>11
        <3>2. Leaves(u, a, k, pushTail(less, <<x>>), s.ttl[k])
            <4>1. Slot(u, k) = <<List(less), s.ttl[k]>>
                BY <2>1, <2>11
            <4> QED  BY <1>1, <2>5, <4>1, ListLines
        <3>3. Slot(v, k) = Slot(s, k)
            BY <2>3, <2>6, <3>2 DEF Leaves
        <3>4. Slot(v, dest) = <<List(front), s.ttl[dest]>>
            <4>1. v.data[dest] = u.data[dest] /\ v.ttl[dest] = u.ttl[dest]
                BY <2>1, <2>8, <2>11 DEF Within
            <4>2. Slot(v, dest) = Slot(u, dest)
                BY <4>1 DEF Slot
            <4> QED  BY <2>1, <4>2
        <3> HIDE DEF v, m
        <3> DEFINE after == execWithLock(v, b).store
        <3>5. Slot(after, k) = Slot(v, k)
            <4> HIDE DEF b
            <4>1. MayChange(b) = {dest}
                <5>1. b.op = "lpop" /\ b.key = dest
                    BY DEF b, On, Command
                <5> QED  BY <5>1, FirstKey DEF RenameOps
            <4>2. Within(v, after, {dest})
                BY <2>7, <2>8, <4>1, LineWithin
            <4>3. after.data[k] = v.data[k] /\ after.ttl[k] = v.ttl[k]
                BY <1>1, <2>11, <4>2 DEF Within
            <4> QED  BY <4>3 DEF Slot
        <3>6. Slot(after, dest) = Slot(s, dest)
            <4>1. CASE ~Exists(s, dest)
                <5>1. m = NewQuickList
                    BY <3>1, <4>1 DEF listOf
                <5>2. front.size = 1
                    BY <5>1 DEF InsertFront, Add, NewQuickList
                <5>3. Slot(s, dest) = Nothing /\ s.ttl[dest] = NoTTL
                    <6>1. Slot(s, dest) = Nothing
                        BY <2>1, <4>1, LogRuns
                    <6> QED  BY <6>1 DEF Slot, Nothing
                <5> HIDE DEF front
                <5>4. LeavesLess(v, On("lpop", dest), dest, front, RemoveHead(front), s.ttl[dest])
                    <6>1. front.size \in Int /\ front.size > 0
                        BY <5>2
                    <6> QED  BY <2>1, <2>8, <3>4, <6>1, ListLines
                <5> QED  BY <5>2, <5>3, <5>4 DEF LeavesLess
            <4>2. CASE Exists(s, dest)
                <5>1. IsType(s, dest, "list")
                    BY <2>1, <4>2 DEF WrongType, IsType, Exists
                <5>2. WholeEntity(s.data[dest], s.ttl[dest]) /\ s.data[dest] = <<s.data[dest][1], s.data[dest][2]>>
                    BY <1>1, <2>1, LogRuns, EntityOfStore
                <5>3. s.data[dest][1] = "list" /\ m = s.data[dest][2] /\ m = ValueOf(s, dest)
                    BY <3>1, <4>2, <5>1 DEF listOf, IsType, TypeOf, ValueOf
                <5>4. GoodList(m) /\ Slot(s, dest) = <<List(m), s.ttl[dest]>>
                    BY <5>2, <5>3 DEF WholeEntity, Slot, List
                <5>5. PICK U : PageOf(U, m)
                    BY <5>4 DEF GoodList
                <5>6. m.size >= 2 /\ m.size \in Int /\ m.size # 0
                    <6>1. ~SizeAtMost(s, dest, 1)
                        BY DEF Succeeds, NotUndone, dest
                    <6>2. ~(m.size <= 1)
                        BY <5>1, <5>3, <6>1 DEF SizeAtMost
                    <6>3. m.size \in Int
                        BY <5>5 DEF PageOf
                    <6> QED  BY <6>2, <6>3
                <5>7. RemoveHead(front) = m /\ front.size = m.size + 1
                    <6>1. RemoveHead(front) = m
                        BY <5>5, <5>6, PushedAndPopped
                    <6>2. front.size = m.size + 1
                        BY <5>6 DEF InsertFront
                    <6> QED  BY <6>1, <6>2
                <5> HIDE DEF front
                <5>8. Leaves(v, On("lpop", dest), dest, RemoveHead(front), s.ttl[dest])
                    <6>1. front.size \in Int /\ front.size > 1
                        BY <5>6, <5>7
                    <6> QED  BY <2>1, <2>8, <3>4, <6>1, PopLines
                <5> QED  BY <5>4, <5>7, <5>8 DEF Leaves
            <4> QED  BY <4>1, <4>2
        <3>7. Slot(RunAll(u, log), k) = Slot(s, k) /\ Slot(RunAll(u, log), dest) = Slot(s, dest)
            BY <2>9, <3>3, <3>5, <3>6
        <3> QED  BY <2>1, <3>7 DEF Undoes, u
    <2> QED  BY <2>10, <2>11
<1> QED  BY <1>2, <1>3

-----------------------------------------------------------------------------
(* The logs that put whole keys back.                                      *)

LEMMA CanLogKey ==
    ASSUME NEW s, NEW c, Succeeds(s, c), c.op \notin HashOps, NEW k \in Key,
           TypeOf(s, k) \notin {"list", "set", "zset"}
    PROVE  CanLog(s, k)
<1>1. IsStore(s) /\ WholeEntity(s.data[k], s.ttl[k])
    BY LogRuns
<1>2. TypeOf(s, k) \in {"none", "string", "hash"}
    BY <1>1, EntityOfStore DEF Types, TypeOf
<1>3. CASE TypeOf(s, k) = "hash"
    <2> DEFINE h == ValueOf(s, k)
    <2>1. GoodHash(h)
        BY <1>1, <1>3 DEF WholeEntity, TypeOf, ValueOf
    <2>2. ~HasText(s, k)
        BY DEF Succeeds, NotUndone
    <2>3. \A f \in DOMAIN h : h[f].go # "string"
        BY <1>3, <2>2 DEF HasText, IsType
    <2> HIDE DEF h
    <2>4. ASSUME NEW f \in DOMAIN h PROVE h[f] = Bytes(AsBytes(h[f]))
        <3>1. PICK x : x = h[f]
            OBVIOUS
        <3>2. x.go # "string" /\ (x = Bytes(x.val) \/ x = Text(x.val))
            BY <2>1, <2>3, <3>1 DEF GoodHash, IsCell
        <3>3. x = Bytes(x.val)
            BY <3>2 DEF Text
        <3>4. PICK v : v = x.val
            OBVIOUS
        <3>5. x = Bytes(v)
            BY <3>3, <3>4
        <3>6. AsBytes(x) = v
            BY <3>5 DEF AsBytes, Bytes
        <3> QED  BY <3>1, <3>5, <3>6
    <2>5. [f \in DOMAIN h |-> Bytes(AsBytes(h[f]))] = [f \in DOMAIN h |-> h[f]]
        BY <2>4
    <2>6. h = [f \in DOMAIN h |-> h[f]]
        BY <2>1 DEF GoodHash, IsFcn
    <2>7. AsLogged(h)
        BY <2>5, <2>6 DEF AsLogged
    <2> QED  BY <1>3, <2>7 DEF CanLog, h
<1> QED  BY <1>2, <1>3 DEF CanLog

LEMMA RollbackUndone ==
    ASSUME NEW s, NEW c, Succeeds(s, c), c.op \notin HashOps, NEW keys \in Seq(Key),
           GetUndoLogs(s, c) = rollbackGivenKeys(s, keys)
    PROVE  \A k \in ToSet(keys) : Undoes(s, c, k)
<1> DEFINE u == execWithLock(s, c).store
<1>1. Tidy(s) /\ Tidy(u)
    BY DEF Succeeds
<1>2. rollbackGivenKeys(s, keys) # Panic
    BY DEF Succeeds
<1>3. \A i \in DOMAIN keys : TypeOf(s, keys[i]) \notin {"list", "set", "zset"}
    BY <1>2 DEF rollbackGivenKeys
<1>4. \A k \in ToSet(keys) : CanLog(s, k)
    <2>1. ASSUME NEW k \in ToSet(keys) PROVE CanLog(s, k)
        <3>1. PICK i \in DOMAIN keys : keys[i] = k
            BY DEF ToSet
        <3>2. k \in Key
            BY <3>1, ElementOfSeq, LenProperties
        <3> QED  BY <1>3, <3>1, <3>2, CanLogKey
    <2> QED  BY <2>1
<1> HIDE DEF u
<1>5. \A k \in ToSet(keys) : Slot(RunAll(u, rollbackGivenKeys(s, keys)), k) = Slot(s, k)
    BY <1>1, <1>4, KeysUndone
<1> QED  BY <1>5 DEF Undoes, u

\* The commands of such a log, and its keys.
FirstKeyBack == {"set", "setnx", "setex", "psetex", "getex", "getset", "getdel", "incr", "incrby",
                 "incrbyfloat", "decr", "decrby", "append", "lrem", "zpopmin", "zremrangebyscore",
                 "zremrangebyrank"} \cup StoreOps

LEMMA KeysBack ==
    ASSUME NEW s, NEW c, Succeeds(s, c),
           c.op \in FirstKeyBack \cup RenameOps \cup {"del", "mset", "msetnx"}
    PROVE  \E keys \in Seq(Key) : /\ GetUndoLogs(s, c) = rollbackGivenKeys(s, keys)
                                  /\ MayChange(c) \subseteq ToSet(keys)
<1>1. c.key \in Key /\ IsCommand(c)
    BY LogRuns DEF Succeeds
<1>2. CASE c.op \in FirstKeyBack
    <2>1. GetUndoLogs(s, c) = rollbackFirstKey(s, c)
        BY <1>2 DEF GetUndoLogs, FirstKeyBack, StoreOps, RenameOps, ExpireOps
    <2>2. MayChange(c) = {c.key}
        BY <1>2, FirstKey DEF FirstKeyBack, StoreOps, RenameOps
    <2>3. <<c.key>> \in Seq(Key) /\ ToSet(<<c.key>>) = {c.key}
        BY <1>1 DEF ToSet
    <2> QED  BY <2>1, <2>2, <2>3 DEF rollbackFirstKey
<1>3. CASE c.op \in {"mset", "msetnx"}
    <2>1. GetUndoLogs(s, c) = rollbackGivenKeys(s, prepareMSet(c))
        BY <1>3 DEF GetUndoLogs, undoMSet, RenameOps, ExpireOps
    <2>2. MayChange(c) = ToSet(prepareMSet(c))
        BY <1>3 DEF MayChange, writeKeysOf, RenameOps
    <2> QED  BY <1>1, <1>3, <2>1, <2>2, MSetKeys
<1>4. CASE c.op = "del"
    <2>1. GetUndoLogs(s, c) = rollbackGivenKeys(s, c.args)
        BY <1>4 DEF GetUndoLogs, undoDel, RenameOps, ExpireOps
    <2>2. MayChange(c) = ToSet(c.args)
        BY <1>4 DEF MayChange, writeKeysOf, RenameOps
    <2>3. c.args \in Seq(Key)
        BY <1>1, <1>4 DEF IsCommand
    <2> QED  BY <2>1, <2>2, <2>3
<1>5. CASE c.op \in RenameOps
    <2>1. c.args \in Seq(Key) /\ Len(c.args) = 1
        BY <1>1, <1>5 DEF IsCommand
    <2>2. PICK d \in Key : c.args = <<d>> /\ c.args[1] = d
        BY <2>1
    <2>3. GetUndoLogs(s, c) = rollbackGivenKeys(s, <<c.key, d>>)
        BY <1>5, <2>2 DEF GetUndoLogs, undoRename, RenameOps, ExpireOps
    <2>4. MayChange(c) = ToSet(<<d>>) \cup {c.key}
        BY <1>5, <2>2 DEF MayChange, writeKeysOf, RenameOps
    <2>5. ToSet(<<d>>) = {d} /\ ToSet(<<c.key, d>>) = {c.key, d} /\ <<c.key, d>> \in Seq(Key)
        BY <1>1 DEF ToSet
    <2> QED  BY <2>3, <2>4, <2>5
<1> QED  BY <1>2, <1>3, <1>4, <1>5

LEMMA KeysBackUndone ==
    ASSUME NEW s, NEW c, Succeeds(s, c),
           c.op \in FirstKeyBack \cup RenameOps \cup {"del", "mset", "msetnx"}
    PROVE  \A k \in MayChange(c) : Undoes(s, c, k)
<1>1. PICK keys \in Seq(Key) : /\ GetUndoLogs(s, c) = rollbackGivenKeys(s, keys)
                               /\ MayChange(c) \subseteq ToSet(keys)
    BY KeysBack
<1>2. c.op \notin HashOps
    BY DEF HashOps, FirstKeyBack, StoreOps, RenameOps
<1> QED  BY <1>1, <1>2, RollbackUndone

\* What is written behind the end of a string leaves the string as it was.
LEMMA StringKept ==
    ASSUME NEW S, NEW old \in Seq(S), NEW offset \in Int, offset >= Len(old), NEW v \in Seq(S)
    PROVE  SubSeq(overwrite(old, offset, v), 1, Len(old)) = old
<1> DEFINE o == overwrite(old, offset, v)
           n == Len(old)
<1>1. n \in Nat /\ Len(v) \in Nat
    BY LenProperties
<1>2. ASSUME NEW i \in 1..n PROVE o[i] = old[i] /\ old[i] \in S
    <2>1. i \in 1..(IF offset + Len(v) > n THEN offset + Len(v) ELSE n) /\ i \notin offset+1..offset+Len(v) /\ i <= n
        BY <1>1
    <2>2. o[i] = old[i]
        BY <2>1 DEF overwrite
    <2> QED  BY <2>2, ElementOfSeq
<1> HIDE DEF o
<1>3. /\ SubSeq(o, 1, n) \in Seq(S) /\ Len(SubSeq(o, 1, n)) = n
      /\ \A i \in 1..n : SubSeq(o, 1, n)[i] = o[i]
    <2>1. /\ SubSeq(o, 1, n) \in Seq(S)
          /\ Len(SubSeq(o, 1, n)) = IF 1 <= n THEN n - 1 + 1 ELSE 0
          /\ \A i \in 1..n - 1 + 1 : SubSeq(o, 1, n)[i] = o[1 + i - 1]
        <3>1. \A i \in 1..n : o[i] \in S
            BY <1>2
        <3>2. 1 \in Int /\ n \in Int
            BY <1>1
        <3> HIDE DEF n
        <3> QED  BY <3>1, <3>2, SubSeqProperties
    <2>2. n - 1 + 1 = n /\ (~(1 <= n) => n = 0)
        BY <1>1
    <2>3. \A i \in 1..n : 1 + i - 1 = i
        BY <1>1
    <2> QED  BY <2>1, <2>2, <2>3
<1>4. SubSeq(o, 1, n) = old
    BY <1>2, <1>3, SeqEqual
<1> QED  BY <1>4 DEF o

LEMMA SetRangeUndone ==
    ASSUME NEW s, NEW c, Succeeds(s, c), c.op = "setrange"
    PROVE  Undoes(s, c, c.key)
<1> DEFINE k == c.key
           u == execWithLock(s, c).store
           old == ValueOf(s, k)
<1>1. IsStore(s) /\ k \in Key /\ c.n \in Int /\ WholeEntity(s.data[k], s.ttl[k]) /\ Tidy(s) /\ Tidy(u)
    BY LogRuns DEF Succeeds
<1>2. GetUndoLogs(s, c) = undoSetRange(s, c) /\ c.op \notin HashOps
    <2>1. GetUndoLogs(s, c) = undoSetRange(s, c)
        BY DEF GetUndoLogs, RenameOps, ExpireOps
    <2> QED  BY <2>1 DEF HashOps
<1>3. CASE IsType(s, k, "string") /\ c.n >= 0
    <2>1. PICK S : old \in Seq(S)
        BY <1>1, <1>3 DEF WholeEntity, IsString, IsType, TypeOf, ValueOf
    <2> DEFINE T == S \cup ToSet(c.args)
    <2>2. old \in Seq(T) /\ c.args \in Seq(T)
        <3>1. c.args \in Seq(ToSet(c.args))
            BY DEF Succeeds, LineArgs
        <3> QED  BY <2>1, <3>1, SeqMonotonic
    <2>3. c.n >= Len(old)
        <3>1. ~(c.n < Len(old))
            BY <1>3 DEF Succeeds, NotUndone
        <3>2. Len(old) \in Nat
            BY <2>1, LenProperties
        <3> QED  BY <1>1, <3>1, <3>2
    <2> HIDE DEF old, T
    <2>4. SubSeq(overwrite(old, c.n, c.args), 1, Len(old)) = old
        BY <1>1, <2>2, <2>3, StringKept
    <2>5. EntityToCmd(k, s.data[k]) = Set(k, old) /\ Exists(s, k)
        BY <1>3 DEF IsType, Exists, TypeOf, ValueOf, EntityToCmd, old
    <2>6. GetUndoLogs(s, c) = <<Del(k), Set(k, old), toTTLCmd(s, k)>>
        BY <1>2, <1>3, <2>4 DEF undoSetRange, old
    <2>7. GetUndoLogs(s, c) = LogOfKey(s, k)
        BY <2>5, <2>6 DEF LogOfKey
    <2>8. CanLog(s, k)
        BY <1>3 DEF CanLog, IsType
    <2> HIDE DEF u
    <2>9. Slot(RunAll(u, LogOfKey(s, k)), k) = Slot(s, k)
        BY <1>1, <2>8, KeyUndone
    <2> QED  BY <2>7, <2>9 DEF Undoes, u
<1>4. CASE ~(IsType(s, k, "string") /\ c.n >= 0)
    <2>1. GetUndoLogs(s, c) = rollbackGivenKeys(s, <<k>>)
        BY <1>2, <1>4 DEF undoSetRange, rollbackFirstKey
    <2>2. <<k>> \in Seq(Key) /\ k \in ToSet(<<k>>)
        BY <1>1 DEF ToSet
    <2> QED  BY <1>2, <2>1, <2>2, RollbackUndone
<1> QED  BY <1>3, <1>4

-----------------------------------------------------------------------------
(* Expiries.                                                               *)

\* The expiry of a key is put back, whatever has become of it.
LEMMA DeadlineBack ==
    ASSUME NEW s, IsStore(s), NEW u, IsStore(u), NEW k \in Key, u.data[k] = s.data[k],
           ~Exists(s, k) => s.ttl[k] = NoTTL /\ u.ttl[k] = NoTTL
    PROVE  Slot(execWithLock(u, toTTLCmd(s, k)).store, k) = Slot(s, k)
<1>1. Exists(u, k) <=> Exists(s, k)
    BY DEF Exists, TypeOf
<1>2. s.ttl[k] \in Nat
    BY PartsOfStore
<1>3. CASE s.ttl[k] = NoTTL
    <2>1. toTTLCmd(s, k) = On("persist", k)
        BY <1>3 DEF toTTLCmd
    <2>2. execWithLock(u, On("persist", k)).store = IF ~Exists(u, k) \/ u.ttl[k] = NoTTL THEN u ELSE Persist(u, k)
        BY LoggedLines
    <2>3. Slot(Persist(u, k), k) = <<u.data[k], NoTTL>>
        BY SlotsOneKey
    <2>4. u.ttl[k] = NoTTL => Slot(u, k) = <<u.data[k], NoTTL>>
        BY DEF Slot
    <2>5. Slot(s, k) = <<u.data[k], NoTTL>>
        BY <1>3 DEF Slot
    <2> QED  BY <1>1, <2>1, <2>2, <2>3, <2>4, <2>5
<1>4. CASE s.ttl[k] # NoTTL
    <2>1. toTTLCmd(s, k) = PExpireAt(k, s.ttl[k]) /\ Exists(u, k)
        BY <1>1, <1>4 DEF toTTLCmd
    <2>2. PICK n \in Nat : n = s.ttl[k]
        BY <1>2
    <2>3. execWithLock(u, PExpireAt(k, n)).store = Expire(u, k, n)
        BY <2>1, LoggedLines
    <2>4. Slot(Expire(u, k, n), k) = <<u.data[k], n>>
        BY SlotsOneKey
    <2> QED  BY <2>1, <2>2, <2>3, <2>4 DEF Slot
<1> QED  BY <1>3, <1>4

LEMMA ExpiriesUndone ==
    ASSUME NEW s, NEW c, Succeeds(s, c), c.op \in ExpireOps \cup {"persist"}
    PROVE  Undoes(s, c, c.key)
<1> DEFINE k == c.key
           u == execWithLock(s, c).store
<1>1. IsStore(s) /\ IsStore(u) /\ k \in Key /\ (~Exists(s, k) => Slot(s, k) = Nothing)
    BY LogRuns
<1>2. GetUndoLogs(s, c) = <<toTTLCmd(s, k)>>
    <2>1. GetUndoLogs(s, c) = undoExpire(s, c)
        BY DEF GetUndoLogs, ExpireOps, RenameOps
    <2> QED  BY <2>1 DEF undoExpire
<1>3. u.data = s.data /\ (~Exists(s, k) => u = s)
    <2>1. \A n : Expire(s, k, n).data = s.data
        <3>0. IsStore(s)
            BY <1>1
        <3>1. PICK a, x, m : s = [data |-> a, ttl |-> x, now |-> m]
            <4>1. s = [data |-> s.data, ttl |-> s.ttl, now |-> s.now]
                BY <3>0, PartsOfStore
            <4> QED  BY <4>1
        <3>2. ASSUME NEW n PROVE Expire(s, k, n).data = s.data
            <4>1. Expire(s, k, n) = [data |-> a, ttl |-> [x EXCEPT ![k] = n], now |-> m]
                BY <3>1 DEF Expire
            <4> QED  BY <3>1, <4>1
        <3> QED  BY <3>2
    <2>2. Persist(s, k).data = s.data
        BY <2>1 DEF Persist, Expire
    <2>3. /\ Done(s).store = s /\ Logged(Persist(s, k), <<c>>).store = Persist(s, k)
          /\ \A n, a : Logged(Expire(s, k, n), a).store = Expire(s, k, n)
        BY DEF Done, Logged
    <2>4. \A n : expireAt(s, c, n).store.data = s.data /\ (~Exists(s, k) => expireAt(s, c, n).store = s)
        BY <2>1, <2>3 DEF expireAt
    <2>5. execPersist(s, c).store.data = s.data /\ (~Exists(s, k) => execPersist(s, c).store = s)
        BY <2>2, <2>3 DEF execPersist
    <2>6. \/ execWithLock(s, c) = execPersist(s, c)
          \/ \E n : execWithLock(s, c) = expireAt(s, c, n)
        <3>1. /\ c.op = "persist" => execWithLock(s, c) = execPersist(s, c)
              /\ c.op = "expire" => execWithLock(s, c) = execExpire(s, c)
              /\ c.op = "expireat" => execWithLock(s, c) = execExpireAt(s, c)
              /\ c.op = "pexpire" => execWithLock(s, c) = execPExpire(s, c)
              /\ c.op = "pexpireat" => execWithLock(s, c) = execPExpireAt(s, c)
            BY Dispatch DEF Dispatched
        <3> QED  BY <3>1 DEF ExpireOps, execExpire, execExpireAt, execPExpire, execPExpireAt
    <2> QED  BY <2>4, <2>5, <2>6
<1>4. ~Exists(s, k) => s.ttl[k] = NoTTL /\ u.ttl[k] = NoTTL
    <2>1. ~Exists(s, k) => s.ttl[k] = NoTTL
        BY <1>1 DEF Slot, Nothing
    <2> QED  BY <1>3, <2>1
<1> HIDE DEF u
<1>5. Slot(execWithLock(u, toTTLCmd(s, k)).store, k) = Slot(s, k)
    BY <1>1, <1>3, <1>4, DeadlineBack
<1> QED  BY <1>2, <1>5, OneLineUndoes DEF u

-----------------------------------------------------------------------------
(* Fields and members.                                                     *)

\* The first i of a sequence.
Upto(fields, i) == {fields[j] : j \in 1..i}

LEMMA UptoSteps ==
    ASSUME NEW fields, Len(fields) \in Nat, DOMAIN fields = 1..Len(fields)
    PROVE  /\ Upto(fields, 0) = {}
           /\ \A i \in 1..Len(fields) : /\ Upto(fields, i) = Upto(fields, i-1) \cup {fields[i]}
                                        /\ Upto(fields, i) \subseteq ToSet(fields)
           /\ Upto(fields, Len(fields)) = ToSet(fields)
<1> DEFINE n == Len(fields)
<1>1. n \in Nat /\ DOMAIN fields = 1..n
    OBVIOUS
<1> HIDE DEF n
<1>2. ASSUME NEW i \in 1..n
      PROVE  Upto(fields, i) = Upto(fields, i-1) \cup {fields[i]} /\ Upto(fields, i) \subseteq ToSet(fields)
    <2>1. 1..i = (1..i-1) \cup {i} /\ 1..i \subseteq 1..n
        BY <1>1
    <2> QED  BY <1>1, <2>1 DEF Upto, ToSet
<1>3. Upto(fields, 0) = {}
    BY DEF Upto
<1>4. Upto(fields, n) = ToSet(fields)
    BY <1>1 DEF Upto, ToSet
<1> QED  BY <1>2, <1>3, <1>4 DEF n

\* One such line.
LEMMA MemberTurns ==
    ASSUME NEW k \in Key, NEW x, NEW v, NEW t
    PROVE  /\ DOMAIN v \ {x} # {} =>
                 Turns(Command("hdel", k, 0, <<x>>), k, {<<Hash(v), t>>},
                       {<<Hash([f \in DOMAIN v \ {x} |-> v[f]]), t>>})
           /\ Turns(Command("sadd", k, 0, <<x>>), k, {<<HashSet(v), t>>}, {<<HashSet(v \cup {x}), t>>})
           /\ v \ {x} # {} =>
                 Turns(Command("srem", k, 0, <<x>>), k, {<<HashSet(v), t>>}, {<<HashSet(v \ {x}), t>>})
           /\ \A score : Turns(Command("zadd", k, 0, <<score, x>>), k, {<<SortedSet(v), t>>},
                               {<<SortedSet(add(v, x, score)), t>>})
<1>1. ASSUME DOMAIN v \ {x} # {}
      PROVE  Turns(Command("hdel", k, 0, <<x>>), k, {<<Hash(v), t>>},
                   {<<Hash([f \in DOMAIN v \ {x} |-> v[f]]), t>>})
    <2>1. PICK c, b : c = Command("hdel", k, 0, <<x>>) /\ b = <<Hash([f \in DOMAIN v \ {x} |-> v[f]]), t>>
        OBVIOUS
    <2>2. ASSUME NEW w, IsStore(w), Slot(w, k) = <<Hash(v), t>> PROVE Slot(execWithLock(w, c).store, k) = b
        <3>0. IsStore(w)
            BY <2>2
        <3>1. FieldTaken(w, k, x, v, t)
            BY <3>0, MemberLines
        <3> QED  BY <1>1, <2>1, <2>2, <3>1 DEF FieldTaken
    <2>3. PICK a : a = <<Hash(v), t>>
        OBVIOUS
    <2>4. Turns(c, k, {a}, {b})
        BY <2>2, <2>3, ZenonT(30) DEF Turns
    <2> QED  BY <2>1, <2>3, <2>4
<1>2. Turns(Command("sadd", k, 0, <<x>>), k, {<<HashSet(v), t>>}, {<<HashSet(v \cup {x}), t>>})
    <2>1. PICK c, b : c = Command("sadd", k, 0, <<x>>) /\ b = <<HashSet(v \cup {x}), t>>
        OBVIOUS
    <2>2. ASSUME NEW w, IsStore(w), Slot(w, k) = <<HashSet(v), t>> PROVE Slot(execWithLock(w, c).store, k) = b
        <3>0. IsStore(w)
            BY <2>2
        <3>1. MemberPut(w, k, x, v, t)
            BY <3>0, MemberLines
        <3> QED  BY <2>1, <2>2, <3>1 DEF MemberPut
    <2>3. PICK a : a = <<HashSet(v), t>>
        OBVIOUS
    <2>4. Turns(c, k, {a}, {b})
        BY <2>2, <2>3, ZenonT(30) DEF Turns
    <2> QED  BY <2>1, <2>3, <2>4
<1>3. ASSUME v \ {x} # {}
      PROVE  Turns(Command("srem", k, 0, <<x>>), k, {<<HashSet(v), t>>}, {<<HashSet(v \ {x}), t>>})
    <2>1. PICK c, b : c = Command("srem", k, 0, <<x>>) /\ b = <<HashSet(v \ {x}), t>>
        OBVIOUS
    <2>2. ASSUME NEW w, IsStore(w), Slot(w, k) = <<HashSet(v), t>> PROVE Slot(execWithLock(w, c).store, k) = b
        <3>0. IsStore(w)
            BY <2>2
        <3>1. MemberTaken(w, k, x, v, t)
            BY <3>0, MemberLines
        <3> QED  BY <1>3, <2>1, <2>2, <3>1 DEF MemberTaken
    <2>3. PICK a : a = <<HashSet(v), t>>
        OBVIOUS
    <2>4. Turns(c, k, {a}, {b})
        BY <2>2, <2>3, ZenonT(30) DEF Turns
    <2> QED  BY <2>1, <2>3, <2>4
<1>4. ASSUME NEW score
      PROVE  Turns(Command("zadd", k, 0, <<score, x>>), k, {<<SortedSet(v), t>>},
                   {<<SortedSet(add(v, x, score)), t>>})
    <2>1. PICK c, b : c = Command("zadd", k, 0, <<score, x>>) /\ b = <<SortedSet(add(v, x, score)), t>>
        OBVIOUS
    <2>2. ASSUME NEW w, IsStore(w), Slot(w, k) = <<SortedSet(v), t>> PROVE Slot(execWithLock(w, c).store, k) = b
        <3>0. IsStore(w)
            BY <2>2
        <3>1. ScorePut(w, k, x, score, v, t)
            BY <3>0, MemberLines
        <3> QED  BY <2>1, <2>2, <3>1 DEF ScorePut
    <2>3. PICK a : a = <<SortedSet(v), t>>
        OBVIOUS
    <2>4. Turns(c, k, {a}, {b})
        BY <2>2, <2>3, ZenonT(30) DEF Turns
    <2> QED  BY <2>1, <2>3, <2>4
<1> QED  BY <1>1, <1>2, <1>3, <1>4

\* HDEL, field by field.
LEMMA FieldsTaken ==
    ASSUME NEW u, IsStore(u), NEW k \in Key, NEW h, NEW t, Slot(u, k) = <<Hash(h), t>>, IsFcn(h),
           NEW fields, Len(fields) \in Nat, DOMAIN fields = 1..Len(fields),
           DOMAIN h \ ToSet(fields) # {},
           NEW K, NEW log, IsLog(log, K), Len(log) = Len(fields),
           \A i \in 1..Len(fields) : log[i] = Command("hdel", k, 0, <<fields[i]>>),
           NEW rest, rest = [f \in DOMAIN h \ ToSet(fields) |-> h[f]]
    PROVE  Slot(RunAll(u, log), k) = <<Hash(rest), t>>
<1> DEFINE n == Len(log)
           left(i) == [f \in DOMAIN h \ Upto(fields, i) |-> h[f]]
           X == [i \in 0..n |-> {<<Hash(left(i)), t>>}]
<1>1. /\ n \in Nat /\ Upto(fields, 0) = {} /\ Upto(fields, n) = ToSet(fields)
      /\ \A i \in 1..n : /\ Upto(fields, i) = Upto(fields, i-1) \cup {fields[i]}
                         /\ Upto(fields, i) \subseteq ToSet(fields)
    BY UptoSteps
<1>2. \A i \in 0..n : X[i] = {<<Hash(left(i)), t>>}
    OBVIOUS
<1>3. left(0) = h
    <2>1. left(0) = [f \in DOMAIN h |-> h[f]]
        BY <1>1
    <2> QED  BY <2>1 DEF IsFcn
<1>4. ASSUME NEW i \in 1..n PROVE Turns(log[i], k, X[i-1], X[i])
    <2> DEFINE v == left(i - 1)
    <2>1. PICK x : x = fields[i]
        OBVIOUS
    <2>2. log[i] = Command("hdel", k, 0, <<x>>)
        BY <2>1
    <2>3. DOMAIN v = DOMAIN h \ Upto(fields, i - 1) /\ \A f \in DOMAIN v : v[f] = h[f]
        OBVIOUS
    <2>4. DOMAIN v \ {x} = DOMAIN h \ Upto(fields, i) /\ DOMAIN v \ {x} # {}
        BY <1>1, <2>1, <2>3
    <2>5. [f \in DOMAIN v \ {x} |-> v[f]] = left(i)
        BY <2>3, <2>4
    <2>6. i - 1 \in 0..n /\ i \in 0..n
        BY <1>1
    <2>7. X[i-1] = {<<Hash(v), t>>} /\ X[i] = {<<Hash(left(i)), t>>}
        BY <1>2, <2>6
    <2> HIDE DEF left, X, v, n
    <2>8. Turns(Command("hdel", k, 0, <<x>>), k, {<<Hash(v), t>>},
                {<<Hash([f \in DOMAIN v \ {x} |-> v[f]]), t>>})
        BY <2>4, MemberTurns
    <2> QED  BY <2>2, <2>5, <2>7, <2>8
<1>5. Slot(u, k) \in X[0] /\ X[n] = {<<Hash(left(n)), t>>}
    <2>1. 0 \in 0..n /\ n \in 0..n
        BY <1>1
    <2> HIDE DEF left, X
    <2> QED  BY <1>2, <1>3, <2>1
<1> HIDE DEF left, X
<1>6. Slot(RunAll(u, log), k) \in X[n]
    BY <1>4, <1>5, LineByLine DEF n
<1>7. left(n) = rest
    BY <1>1 DEF left
<1> QED  BY <1>5, <1>6, <1>7

\* Members put in and taken out of a set, one by one.
LEMMA MembersBack ==
    ASSUME NEW u, IsStore(u), NEW k \in Key, NEW old, NEW new, NEW t, Slot(u, k) = <<HashSet(new), t>>,
           NEW fields, Len(fields) \in Nat, DOMAIN fields = 1..Len(fields),
           old \ ToSet(fields) # {},
           old \subseteq new \cup ToSet(fields), new \subseteq old \cup ToSet(fields),
           NEW K, NEW log, IsLog(log, K), Len(log) = Len(fields),
           \A i \in 1..Len(fields) :
              log[i] = Command(IF fields[i] \in old THEN "sadd" ELSE "srem", k, 0, <<fields[i]>>)
    PROVE  Slot(RunAll(u, log), k) = <<HashSet(old), t>>
<1> DEFINE n == Len(log)
           mix(i) == (old \cap Upto(fields, i)) \cup (new \ Upto(fields, i))
           X == [i \in 0..n |-> {<<HashSet(mix(i)), t>>}]
<1>1. /\ n \in Nat /\ Upto(fields, 0) = {} /\ Upto(fields, n) = ToSet(fields)
      /\ \A i \in 1..n : /\ Upto(fields, i) = Upto(fields, i-1) \cup {fields[i]}
                         /\ Upto(fields, i) \subseteq ToSet(fields)
    BY UptoSteps
<1>2. \A i \in 0..n : X[i] = {<<HashSet(mix(i)), t>>}
    OBVIOUS
<1>3. mix(0) = new /\ mix(n) = old
    BY <1>1
<1>4. ASSUME NEW i \in 1..n PROVE Turns(log[i], k, X[i-1], X[i])
    <2> DEFINE v == mix(i - 1)
    <2>1. PICK x : x = fields[i]
        OBVIOUS
    <2>2. log[i] = Command(IF x \in old THEN "sadd" ELSE "srem", k, 0, <<x>>)
        BY <2>1
    <2>3. IF x \in old THEN mix(i) = v \cup {x} ELSE mix(i) = v \ {x} /\ v \ {x} # {}
        <3>1. Upto(fields, i) = Upto(fields, i-1) \cup {x} /\ Upto(fields, i) \subseteq ToSet(fields)
            BY <1>1, <2>1
        <3> QED  BY <3>1
    <2>6. i - 1 \in 0..n /\ i \in 0..n
        BY <1>1
    <2>7. X[i-1] = {<<HashSet(v), t>>} /\ X[i] = {<<HashSet(mix(i)), t>>}
        BY <1>2, <2>6
    <2> HIDE DEF mix, X, v, n
    <2>8. Turns(Command("sadd", k, 0, <<x>>), k, {<<HashSet(v), t>>}, {<<HashSet(v \cup {x}), t>>})
        BY MemberTurns
    <2>9. v \ {x} # {} =>
             Turns(Command("srem", k, 0, <<x>>), k, {<<HashSet(v), t>>}, {<<HashSet(v \ {x}), t>>})
        BY MemberTurns
    <2> QED  BY <2>2, <2>3, <2>7, <2>8, <2>9
<1>5. Slot(u, k) \in X[0] /\ X[n] = {<<HashSet(old), t>>}
    <2>1. 0 \in 0..n /\ n \in 0..n
        BY <1>1
    <2> HIDE DEF mix, X
    <2> QED  BY <1>2, <1>3, <2>1
<1> HIDE DEF mix, X
<1>6. Slot(RunAll(u, log), k) \in X[n]
    BY <1>4, <1>5, LineByLine DEF n
<1> QED  BY <1>5, <1>6

\* Scores put back, one by one.
LEMMA ScoresBack ==
    ASSUME NEW u, IsStore(u), NEW k \in Key, NEW old, NEW new, NEW t,
           Slot(u, k) = <<SortedSet(new), t>>, IsFcn(old), IsFcn(new),
           NEW fields, Len(fields) \in Nat, DOMAIN fields = 1..Len(fields),
           ToSet(fields) \subseteq DOMAIN old, DOMAIN new \subseteq DOMAIN old,
           \A m \in DOMAIN old \ ToSet(fields) : m \in DOMAIN new /\ new[m] = old[m],
           NEW K, NEW log, IsLog(log, K), Len(log) = Len(fields),
           \A i \in 1..Len(fields) : log[i] = Command("zadd", k, 0, <<old[fields[i]], fields[i]>>)
    PROVE  Slot(RunAll(u, log), k) = <<SortedSet(old), t>>
<1> DEFINE n == Len(log)
           mix(i) == [m \in DOMAIN new \cup Upto(fields, i) |->
                        IF m \in Upto(fields, i) THEN old[m] ELSE new[m]]
           X == [i \in 0..n |-> {<<SortedSet(mix(i)), t>>}]
<1>1. /\ n \in Nat /\ Upto(fields, 0) = {} /\ Upto(fields, n) = ToSet(fields)
      /\ \A i \in 1..n : /\ Upto(fields, i) = Upto(fields, i-1) \cup {fields[i]}
                         /\ Upto(fields, i) \subseteq ToSet(fields)
    BY UptoSteps
<1>2. \A i \in 0..n : X[i] = {<<SortedSet(mix(i)), t>>}
    OBVIOUS
<1>3. mix(0) = new
    <2>1. mix(0) = [m \in DOMAIN new |-> new[m]]
        BY <1>1
    <2> QED  BY <2>1 DEF IsFcn
<1>4. mix(n) = old
    <2>1. DOMAIN new \cup Upto(fields, n) = DOMAIN old
        BY <1>1
    <2>2. \A m \in DOMAIN old : (IF m \in Upto(fields, n) THEN old[m] ELSE new[m]) = old[m]
        BY <1>1
    <2>3. mix(n) = [m \in DOMAIN old |-> old[m]]
        BY <2>1, <2>2
    <2> QED  BY <2>3 DEF IsFcn
<1>5. ASSUME NEW i \in 1..n PROVE Turns(log[i], k, X[i-1], X[i])
    <2> DEFINE v == mix(i - 1)
    <2>1. PICK x : x = fields[i]
        OBVIOUS
    <2>2. log[i] = Command("zadd", k, 0, <<old[x], x>>)
        BY <2>1
    <2>3. mix(i) = add(v, x, old[x])
        <3>1. Upto(fields, i) = Upto(fields, i-1) \cup {x}
            BY <1>1, <2>1
        <3>2. DOMAIN v = DOMAIN new \cup Upto(fields, i-1)
            OBVIOUS
        <3>3. \A m \in DOMAIN new \cup Upto(fields, i) :
                 (IF m \in Upto(fields, i) THEN old[m] ELSE new[m])
                    = (IF m = x THEN old[x] ELSE v[m])
            BY <3>1, <3>2
        <3>4. DOMAIN new \cup Upto(fields, i) = DOMAIN v \cup {x}
            BY <3>1, <3>2
        <3> QED  BY <3>3, <3>4 DEF add
    <2>6. i - 1 \in 0..n /\ i \in 0..n
        BY <1>1
    <2>7. X[i-1] = {<<SortedSet(v), t>>} /\ X[i] = {<<SortedSet(mix(i)), t>>}
        BY <1>2, <2>6
    <2> HIDE DEF mix, X, v, n
    <2>8. \A score : Turns(Command("zadd", k, 0, <<score, x>>), k, {<<SortedSet(v), t>>},
                          {<<SortedSet(add(v, x, score)), t>>})
        BY MemberTurns
    <2> QED  BY <2>2, <2>3, <2>7, <2>8
<1>6. Slot(u, k) \in X[0] /\ X[n] = {<<SortedSet(old), t>>}
    <2>1. 0 \in 0..n /\ n \in 0..n
        BY <1>1
    <2> HIDE DEF mix, X
    <2> QED  BY <1>2, <1>3, <1>4, <2>1
<1> HIDE DEF mix, X
<1>7. Slot(RunAll(u, log), k) \in X[n]
    BY <1>5, <1>6, LineByLine DEF n
<1> QED  BY <1>6, <1>7

\* A key that was not there goes again.
LEMMA KeyTaken ==
    ASSUME NEW s, NEW c, Succeeds(s, c), ~Exists(s, c.key), GetUndoLogs(s, c) = <<Del(c.key)>>
    PROVE  Undoes(s, c, c.key)
<1> DEFINE k == c.key
           u == execWithLock(s, c).store
<1>1. Tidy(u) /\ IsStore(u) /\ k \in Key /\ Slot(s, k) = Nothing
    BY LogRuns DEF Succeeds
<1> HIDE DEF u
<1>2. execWithLock(u, Del(k)).store = Removes(u, <<k>>)
    BY <1>1, LoggedLines
<1>3. Slot(Removes(u, <<k>>), k) = Nothing
    <2>1. k \in ToSet(<<k>>)
        BY DEF ToSet
    <2> QED  BY <1>1, <2>1, RemovesSlots DEF Nothing
<1> QED  BY <1>1, <1>2, <1>3, OneLineUndoes DEF u

\* The fields of a set, in some order.
LEMMA SetInOrder ==
    ASSUME NEW F, IsFiniteSet(F)
    PROVE  /\ Len(SetToSeq(F)) \in Nat /\ DOMAIN SetToSeq(F) = 1..Len(SetToSeq(F))
           /\ ToSet(SetToSeq(F)) = F
<1> DEFINE q == SetToSeq(F)
           n == Cardinality(F)
<1>1. n \in Nat /\ ExistsBijection(1..n, F)
    BY FS_CardinalityType
<1>2. \E f \in [1..n -> F] : IsInjective(f)
    <2>1. PICK f : f \in Bijection(1..n, F)
        BY <1>1 DEF ExistsBijection
    <2> QED  BY <2>1 DEF Bijection, Injection, IsInjective
<1>3. q \in [1..n -> F] /\ IsInjective(q)
    <2>1. Cardinality(F) = n
        OBVIOUS
    <2>2. q = CHOOSE f \in [1..n -> F] : IsInjective(f)
        BY <2>1 DEF SetToSeq
    <2> HIDE DEF q, n
    <2> QED  BY <1>2, <2>2
<1> HIDE DEF q
<1>4. q \in Surjection(1..n, F)
    <2>1. q \in Injection(1..n, F)
        BY <1>3 DEF Injection, IsInjective
    <2>2. Cardinality(1..n) = Cardinality(F)
        <3>1. Cardinality(1..n) = IF 1 > n THEN 0 ELSE n - 1 + 1
            <4> HIDE DEF n
            <4> QED  BY <1>1, FS_Interval
        <3>2. Cardinality(1..n) = n
            <4> HIDE DEF n
            <4> QED  BY <1>1, <3>1
        <3> QED  BY <3>2
    <2> QED  BY <2>1, <2>2, FS_Injection
<1> HIDE DEF n
<1>5. \A f \in F : \E i \in 1..n : q[i] = f
    BY <1>4 DEF Surjection
<1>6. DOMAIN q = 1..n /\ Len(q) = n
    BY <1>1, <1>3
<1>7. ToSet(q) = F
    BY <1>3, <1>5, <1>6 DEF ToSet
<1> QED  BY <1>1, <1>6, <1>7 DEF q

LEMMA OneField == ASSUME NEW x PROVE Len(<<x>>) = 1 /\ DOMAIN <<x>> = 1..1 /\ ToSet(<<x>>) = {x}
BY DEF ToSet

\* The log of a command on a hash.
LEMMA HashLog ==
    ASSUME NEW s, NEW c, Succeeds(s, c), c.op \in HashOps
    PROVE  \E fields : /\ GetUndoLogs(s, c) = rollbackHashFields(s, c.key, fields)
                       /\ Len(fields) \in Nat /\ DOMAIN fields = 1..Len(fields)
                       /\ ToSet(fields) = FieldsOf(c)
<1>1. CASE c.op = "hmset"
    <2>1. GetUndoLogs(s, c) = rollbackHashFields(s, c.key, SetToSeq(DOMAIN c.args))
        BY <1>1 DEF GetUndoLogs, undoHMSet, RenameOps, ExpireOps
    <2>2. IsFiniteSet(DOMAIN c.args)
        BY <1>1 DEF Succeeds, LineArgs
    <2>3. FieldsOf(c) = DOMAIN c.args
        BY <1>1 DEF FieldsOf
    <2> QED  BY <2>1, <2>2, <2>3, SetInOrder
<1>2. CASE c.op = "hdel"
    <2>1. c.args \in Seq(ToSet(c.args))
        BY <1>2 DEF Succeeds, LineArgs
    <2>2. Len(c.args) \in Nat /\ DOMAIN c.args = 1..Len(c.args)
        BY <2>1, LenProperties
    <2>3. GetUndoLogs(s, c) = rollbackHashFields(s, c.key, c.args)
        BY <1>2 DEF GetUndoLogs, undoHDel, RenameOps, ExpireOps
    <2>4. FieldsOf(c) = ToSet(c.args)
        BY <1>2 DEF FieldsOf
    <2> QED  BY <2>2, <2>3, <2>4
<1>3. CASE c.op \notin {"hmset", "hdel"}
    <2>1. GetUndoLogs(s, c) = rollbackHashFields(s, c.key, <<c.args[1]>>)
        BY <1>3 DEF GetUndoLogs, undoHSet, undoHIncr, RenameOps, ExpireOps, HashOps
    <2>2. FieldsOf(c) = {c.args[1]}
        BY <1>3 DEF FieldsOf
    <2>3. 1 \in Nat
        OBVIOUS
    <2> QED  BY <2>1, <2>2, <2>3, OneField
<1> QED  BY <1>1, <1>2, <1>3

\* New fields have joined the ones that were there.
Joined(u, k, h, new, t) ==
    \E e : /\ Slot(u, k) = <<Hash(e), t>> /\ IsFcn(e)
           /\ DOMAIN h \subseteq DOMAIN e /\ DOMAIN e \subseteq DOMAIN h \cup new
           /\ \A f \in DOMAIN h : e[f] = h[f]

LEMMA HashDone ==
    ASSUME NEW s, NEW c, Succeeds(s, c), c.op \in HashOps, Exists(s, c.key)
    PROVE  /\ IsType(s, c.key, "hash") /\ ~WrongType(s, c.key, "hash")
           /\ GoodHash(ValueOf(s, c.key)) /\ dictOf(s, c.key) = ValueOf(s, c.key)
           /\ FieldsOf(c) \cap DOMAIN ValueOf(s, c.key) = {}
           /\ Joined(execWithLock(s, c).store, c.key, ValueOf(s, c.key), FieldsOf(c), s.ttl[c.key])
<1> DEFINE k == c.key
           h == ValueOf(s, k)
           t == s.ttl[k]
           N == FieldsOf(c)
<1>1. IsStore(s) /\ k \in Key /\ execWithLock(s, c).fate = "ok" /\ WholeEntity(s.data[k], s.ttl[k])
    BY LogRuns DEF Succeeds
<1>2. /\ c.op = "hset" => execWithLock(s, c) = execHSet(s, c)
      /\ c.op = "hsetnx" => execWithLock(s, c) = execHSetNX(s, c)
      /\ c.op = "hmset" => execWithLock(s, c) = execHMSet(s, c)
      /\ c.op = "hdel" => execWithLock(s, c) = execHDel(s, c)
      /\ c.op = "hincrby" => execWithLock(s, c) = countField(s, c, <<c>>)
      /\ c.op = "hincrbyfloat" => execWithLock(s, c) = countField(s, c, <<>>)
    <2>1. c.op = "hset" => execWithLock(s, c) = execHSet(s, c)
        BY DEF execWithLock
    <2>2. c.op = "hsetnx" => execWithLock(s, c) = execHSetNX(s, c)
        BY DEF execWithLock
    <2>3. c.op = "hmset" => execWithLock(s, c) = execHMSet(s, c)
        BY DEF execWithLock
    <2>4. c.op = "hdel" => execWithLock(s, c) = execHDel(s, c)
        BY DEF execWithLock
    <2>5. c.op = "hincrby" => execWithLock(s, c) = execHIncrBy(s, c)
        BY DEF execWithLock
    <2>6. c.op = "hincrbyfloat" => execWithLock(s, c) = execHIncrByFloat(s, c)
        BY DEF execWithLock
    <2> QED  BY <2>1, <2>2, <2>3, <2>4, <2>5, <2>6 DEF execHIncrBy, execHIncrByFloat
<1>3. ~WrongType(s, k, "hash")
    BY <1>1, <1>2 DEF HashOps, Error, execHSet, execHSetNX, execHMSet, execHDel, countField
<1>4. IsType(s, k, "hash") /\ dictOf(s, k) = h
    BY <1>3 DEF WrongType, Exists, IsType, TypeOf, dictOf
<1>5. GoodHash(h)
    BY <1>1, <1>4 DEF WholeEntity, IsType, TypeOf, ValueOf
<1>6. N \cap DOMAIN h = {}
    BY <1>4 DEF Succeeds, NotUndone
<1>7. "hash" \in Types /\ \A e : Hash(e) = <<"hash", e>>
    BY DEF Types, Hash
<1>8. \A e : Slot(PutEntity(s, k, Hash(e)), k) = <<Hash(e), t>>
    BY <1>1, <1>7, PutSlot
<1> HIDE DEF h
<1>9. ASSUME NEW new, DOMAIN new = N PROVE Joined(putAll(s, k, new), k, h, N, t)
    <2> DEFINE e == [f \in DOMAIN h \cup DOMAIN new |-> IF f \in DOMAIN new THEN new[f] ELSE h[f]]
    <2>1. putAll(s, k, new) = PutEntity(s, k, Hash(e))
        BY <1>4 DEF putAll
    <2>2. IsFcn(e) /\ DOMAIN e = DOMAIN h \cup N /\ \A f \in DOMAIN h : e[f] = h[f]
        BY <1>6, <1>9 DEF IsFcn
    <2> HIDE DEF e
    <2>3. Slot(putAll(s, k, new), k) = <<Hash(e), t>>
        BY <1>8, <2>1
    <2> QED  BY <2>2, <2>3 DEF Joined
<1>10. ASSUME NEW cell, N = {c.args[1]} PROVE Joined(put(s, k, c.args[1], cell), k, h, N, t)
    <2>1. PICK new : new = [g \in {c.args[1]} |-> cell]
        OBVIOUS
    <2>2. DOMAIN new = N
        BY <1>10, <2>1
    <2>3. put(s, k, c.args[1], cell) = putAll(s, k, new)
        BY <2>1 DEF put
    <2> QED  BY <1>9, <2>2, <2>3
<1>11. CASE c.op \notin {"hmset", "hdel"}
    <2>1. N = {c.args[1]} /\ c.args[1] \notin DOMAIN h
        <3>1. N = {c.args[1]}
            BY <1>11 DEF FieldsOf
        <3> QED  BY <1>6, <3>1
    <2>2. c.op \in {"hset", "hsetnx", "hincrby", "hincrbyfloat"}
        BY <1>11 DEF HashOps
    <2>3. \E cell : execWithLock(s, c).store = put(s, k, c.args[1], cell)
        BY <1>2, <1>3, <1>4, <2>1, <2>2 DEF execHSet, execHSetNX, countField, Logged
    <2>4. Joined(execWithLock(s, c).store, k, h, N, t)
        BY <1>10, <2>1, <2>3
    <2> QED  BY <1>3, <1>4, <1>5, <1>6, <2>4 DEF h
<1>12. CASE c.op = "hmset"
    <2>1. PICK new : new = [f \in DOMAIN c.args |-> Bytes(c.args[f])]
        OBVIOUS
    <2>2. DOMAIN new = N
        BY <1>12, <2>1 DEF FieldsOf
    <2>3. execWithLock(s, c).store = putAll(s, k, new)
        BY <1>2, <1>3, <1>12, <2>1 DEF execHMSet, Logged
    <2>4. Joined(execWithLock(s, c).store, k, h, N, t)
        BY <1>9, <2>2, <2>3
    <2> QED  BY <1>3, <1>4, <1>5, <1>6, <2>4 DEF h
<1>13. CASE c.op = "hdel"
    <2>1. N = ToSet(c.args)
        BY <1>13 DEF FieldsOf
    <2>2. DOMAIN h \ ToSet(c.args) = DOMAIN h /\ DOMAIN h # {}
        BY <1>5, <1>6, <2>1 DEF GoodHash
    <2>3. PICK e : e = [f \in DOMAIN h |-> h[f]]
        OBVIOUS
    <2>4. IsFcn(e) /\ DOMAIN e = DOMAIN h /\ \A f \in DOMAIN h : e[f] = h[f]
        BY <2>3 DEF IsFcn
    <2>5. execWithLock(s, c).store = PutEntity(s, k, Hash(e))
        BY <1>2, <1>3, <1>4, <1>13, <2>2, <2>3 DEF execHDel, Done
    <2>6. Joined(execWithLock(s, c).store, k, h, N, t)
        BY <1>8, <2>4, <2>5 DEF Joined
    <2> QED  BY <1>3, <1>4, <1>5, <1>6, <2>6 DEF h
<1> QED  BY <1>11, <1>12, <1>13

LEMMA HashUndone ==
    ASSUME NEW s, NEW c, Succeeds(s, c), c.op \in HashOps
    PROVE  Undoes(s, c, c.key)
<1> DEFINE k == c.key
           h == ValueOf(s, k)
           t == s.ttl[k]
           u == execWithLock(s, c).store
           log == GetUndoLogs(s, c)
<1>1. /\ IsStore(s) /\ IsStore(u) /\ k \in Key /\ IsLog(log, MayChange(c))
    BY LogRuns
<1>2. PICK fields : /\ GetUndoLogs(s, c) = rollbackHashFields(s, c.key, fields)
                    /\ Len(fields) \in Nat /\ DOMAIN fields = 1..Len(fields)
                    /\ ToSet(fields) = FieldsOf(c)
    BY HashLog
<1>3. ~WrongType(s, k, "hash")
    <2>1. CASE Exists(s, k)
        BY <2>1, HashDone
    <2> QED  BY <2>1 DEF Exists, WrongType
<1>4. CASE ~Exists(s, k)
    <2>1. GetUndoLogs(s, c) = <<Del(k)>>
        BY <1>2, <1>3, <1>4 DEF rollbackHashFields
    <2> QED  BY <1>4, <2>1, KeyTaken
<1>5. CASE Exists(s, k)
    <2>1. /\ IsType(s, k, "hash") /\ GoodHash(h) /\ dictOf(s, k) = h
          /\ FieldsOf(c) \cap DOMAIN h = {} /\ Joined(u, k, h, FieldsOf(c), t)
        BY <1>5, HashDone
    <2>2. Slot(s, k) = <<Hash(h), t>>
        <3>1. s.data[k] = <<s.data[k][1], s.data[k][2]>>
            BY <1>1, EntityOfStore
        <3> QED  BY <2>1, <3>1 DEF Slot, IsType, TypeOf, ValueOf, Hash
    <2> HIDE DEF h, u
    <2>3. PICK e : /\ Slot(u, k) = <<Hash(e), t>> /\ IsFcn(e)
                   /\ DOMAIN h \subseteq DOMAIN e /\ DOMAIN e \subseteq DOMAIN h \cup FieldsOf(c)
                   /\ \A f \in DOMAIN h : e[f] = h[f]
        BY <2>1 DEF Joined
    <2>4. Len(log) = Len(fields) /\ \A i \in 1..Len(fields) : log[i] = Command("hdel", k, 0, <<fields[i]>>)
        <3>1. \A i \in 1..Len(fields) : fields[i] \notin DOMAIN h
            BY <1>2, <2>1 DEF ToSet
        <3>2. log = [i \in DOMAIN fields |-> IF fields[i] \in DOMAIN h
                                    THEN HSetCmd(k, fields[i], AsBytes(h[fields[i]]))
                                    ELSE Command("hdel", k, 0, <<fields[i]>>)]
            BY <1>2, <1>3, <1>5, <2>1 DEF rollbackHashFields
        <3>3. PICK n \in Nat : n = Len(fields) /\ DOMAIN fields = 1..n
            BY <1>2
        <3>4. log = [i \in 1..n |-> Command("hdel", k, 0, <<fields[i]>>)]
            BY <3>1, <3>2, <3>3
        <3> HIDE DEF log
        <3>5. Len(log) = n /\ \A i \in 1..n : log[i] = Command("hdel", k, 0, <<fields[i]>>)
            BY <3>4
        <3> QED  BY <3>3, <3>5
    <2>5. DOMAIN e \ ToSet(fields) = DOMAIN h /\ DOMAIN h # {}
        BY <1>2, <2>1, <2>3 DEF GoodHash
    <2>6. h = [f \in DOMAIN e \ ToSet(fields) |-> e[f]]
        <3>1. [f \in DOMAIN e \ ToSet(fields) |-> e[f]] = [f \in DOMAIN h |-> h[f]]
            BY <2>3, <2>5
        <3> QED  BY <2>1, <3>1 DEF GoodHash, IsFcn
    <2> HIDE DEF log
    <2>7. IsStore(u) /\ k \in Key /\ IsLog(log, MayChange(c))
        BY <1>1
    <2>8. Len(fields) \in Nat /\ DOMAIN fields = 1..Len(fields)
        BY <1>2
    <2>9. Slot(u, k) = <<Hash(e), t>> /\ IsFcn(e) /\ DOMAIN e \ ToSet(fields) # {}
        BY <2>3, <2>5
    <2>10. Slot(RunAll(u, log), k) = <<Hash(h), t>>
        <3>1. PICK K : IsLog(log, K)
            BY <2>7
        <3> HIDE DEF k, t
        <3> QED  BY <2>4, <2>6, <2>7, <2>8, <2>9, <3>1, FieldsTaken
    <2> QED  BY <2>2, <2>10 DEF Undoes, log, u
<1> QED  BY <1>4, <1>5

\* The places of the arguments.
LEMMA ArgsOfOne ==
    ASSUME NEW c, c.args \in Seq(ToSet(c.args))
    PROVE  Len(c.args) \in Nat /\ DOMAIN c.args = 1..Len(c.args)
BY LenProperties

\* The slot of a key that holds something of a type.
LEMMA SlotOfType ==
    ASSUME NEW s, IsStore(s), NEW k \in Key, NEW t, IsType(s, k, t)
    PROVE  Slot(s, k) = <<<<t, ValueOf(s, k)>>, s.ttl[k]>>
<1>1. s.data[k] = <<s.data[k][1], s.data[k][2]>>
    BY EntityOfStore
<1> QED  BY <1>1 DEF Slot, IsType, TypeOf, ValueOf

LEMMA SetUndone ==
    ASSUME NEW s, NEW c, Succeeds(s, c), c.op \in {"sadd", "srem"}
    PROVE  Undoes(s, c, c.key)
<1> DEFINE k == c.key
           old == ValueOf(s, k)
           t == s.ttl[k]
           u == execWithLock(s, c).store
           log == GetUndoLogs(s, c)
           fields == c.args
<1>1. /\ IsStore(s) /\ IsStore(u) /\ k \in Key /\ execWithLock(s, c).fate = "ok"
      /\ IsLog(log, MayChange(c))
    BY LogRuns DEF Succeeds
<1>2. Len(fields) \in Nat /\ DOMAIN fields = 1..Len(fields)
    <2>1. c.args \in Seq(ToSet(c.args))
        BY DEF Succeeds, LineArgs
    <2> QED  BY <2>1, ArgsOfOne
<1>3. log = rollbackSetMembers(s, k, fields)
    BY DEF GetUndoLogs, undoSetChange, RenameOps, ExpireOps
<1>4. /\ c.op = "sadd" => execWithLock(s, c) = execSAdd(s, c)
      /\ c.op = "srem" => execWithLock(s, c) = execSRem(s, c)
    <2>1. c.op = "sadd" => execWithLock(s, c) = execSAdd(s, c)
        BY DEF execWithLock
    <2>2. c.op = "srem" => execWithLock(s, c) = execSRem(s, c)
        BY DEF execWithLock
    <2> QED  BY <2>1, <2>2
<1>5. ~WrongType(s, k, "set")
    BY <1>1, <1>4 DEF Error, execSAdd, execSRem
<1>6. CASE ~Exists(s, k)
    <2>1. GetUndoLogs(s, c) = <<Del(k)>>
        BY <1>3, <1>5, <1>6 DEF rollbackSetMembers
    <2> QED  BY <1>6, <2>1, KeyTaken
<1>7. CASE Exists(s, k)
    <2>1. IsType(s, k, "set") /\ setOf(s, k) = old
        BY <1>5, <1>7 DEF WrongType, Exists, IsType, TypeOf, setOf
    <2>2. "set" \in Types /\ \A e : HashSet(e) = <<"set", e>>
        BY DEF Types, HashSet
    <2>3. Slot(s, k) = <<HashSet(old), t>>
        BY <1>1, <2>1, <2>2, SlotOfType
    <2>4. \A e : Slot(PutEntity(s, k, HashSet(e)), k) = <<HashSet(e), t>>
        BY <1>1, <2>2, PutSlot
    <2>5. old \ ToSet(fields) # {}
        <3>1. ~(old \subseteq ToSet(fields))
            BY <2>1 DEF Succeeds, NotUndone
        <3> QED  BY <3>1
    <2> HIDE DEF old
    <2>6. PICK new : /\ u = PutEntity(s, k, HashSet(new))
                     /\ old \subseteq new \cup ToSet(fields) /\ new \subseteq old \cup ToSet(fields)
        <3>1. CASE c.op = "sadd"
            <4>1. u = PutEntity(s, k, HashSet(old \cup ToSet(fields)))
                BY <1>4, <1>5, <2>1, <3>1 DEF execSAdd, Logged
            <4> QED  BY <4>1
        <3>2. CASE c.op = "srem"
            <4>1. u = PutEntity(s, k, HashSet(old \ ToSet(fields)))
                BY <1>4, <1>5, <1>7, <2>1, <2>5, <3>2 DEF execSRem, Done
            <4> QED  BY <4>1
        <3> QED  BY <3>1, <3>2
    <2>7. Len(log) = Len(fields) /\ \A i \in 1..Len(fields) :
              log[i] = Command(IF fields[i] \in old THEN "sadd" ELSE "srem", k, 0, <<fields[i]>>)
        <3>1. log = [i \in DOMAIN fields |-> Command(IF fields[i] \in old THEN "sadd" ELSE "srem", k, 0, <<fields[i]>>)]
            BY <1>3, <1>5, <1>7, <2>1 DEF rollbackSetMembers
        <3>2. PICK n \in Nat : n = Len(fields) /\ DOMAIN fields = 1..n
            BY <1>2
        <3>3. log = [i \in 1..n |-> Command(IF fields[i] \in old THEN "sadd" ELSE "srem", k, 0, <<fields[i]>>)]
            BY <3>1, <3>2
        <3> HIDE DEF log
        <3>4. Len(log) = n /\ \A i \in 1..n :
                 log[i] = Command(IF fields[i] \in old THEN "sadd" ELSE "srem", k, 0, <<fields[i]>>)
            BY <3>3
        <3> QED  BY <3>2, <3>4
    <2> HIDE DEF log, u
    <2>8. Slot(u, k) = <<HashSet(new), t>> /\ IsStore(u) /\ k \in Key
        BY <1>1, <2>4, <2>6
    <2>9. Slot(RunAll(u, log), k) = <<HashSet(old), t>>
        <3>1. PICK K : IsLog(log, K)
            BY <1>1
        <3> HIDE DEF k, t, fields
        <3> QED  BY <1>2, <2>5, <2>6, <2>7, <2>8, <3>1, MembersBack
    <2> QED  BY <2>3, <2>9 DEF Undoes, log, u
<1> QED  BY <1>6, <1>7

\* Scores have changed, or members gone, and all of these are fields.
Rescored(u, k, old, fields, t) ==
    \E new : /\ Slot(u, k) = <<SortedSet(new), t>> /\ IsFcn(new) /\ DOMAIN new \subseteq DOMAIN old
            /\ \A m \in DOMAIN old \ fields : m \in DOMAIN new /\ new[m] = old[m]

\* The log of a command on a sorted set.
LEMMA ScoreLog ==
    ASSUME NEW s, NEW c, Succeeds(s, c), c.op \in {"zadd", "zrem", "zincrby"}
    PROVE  \E fields : /\ GetUndoLogs(s, c) = rollbackZSetFields(s, c.key, fields)
                       /\ Len(fields) \in Nat /\ DOMAIN fields = 1..Len(fields)
                       /\ c.op = "zadd" => ToSet(fields) = {c.args[2*i] : i \in 1..Len(c.args) \div 2}
                       /\ c.op = "zrem" => ToSet(fields) = ToSet(c.args)
                       /\ c.op = "zincrby" => ToSet(fields) = {c.args[1]}
<1>1. Len(c.args) \in Nat /\ DOMAIN c.args = 1..Len(c.args)
    <2>1. c.args \in Seq(ToSet(c.args))
        BY DEF Succeeds, LineArgs
    <2> QED  BY <2>1, ArgsOfOne
<1>2. CASE c.op = "zadd"
    <2>1. PICK n \in Nat : n = Len(c.args) \div 2
        <3>1. PICK m \in Nat : m = Len(c.args)
            BY <1>1
        <3>2. m \div 2 \in Nat
            OBVIOUS
        <3> QED  BY <3>1, <3>2
    <2> DEFINE fields == [i \in 1..n |-> c.args[2*i]]
    <2>2. GetUndoLogs(s, c) = rollbackZSetFields(s, c.key, fields)
        BY <1>2, <2>1 DEF GetUndoLogs, undoZAdd, RenameOps, ExpireOps
    <2>3. Len(fields) = n /\ DOMAIN fields = 1..n
        OBVIOUS
    <2>4. ToSet(fields) = {c.args[2*i] : i \in 1..n}
        BY DEF ToSet
    <2> HIDE DEF fields
    <2> QED  BY <1>2, <2>1, <2>2, <2>3, <2>4
<1>3. CASE c.op = "zrem"
    <2>1. GetUndoLogs(s, c) = rollbackZSetFields(s, c.key, c.args)
        BY <1>3 DEF GetUndoLogs, undoZRem, RenameOps, ExpireOps
    <2> QED  BY <1>1, <1>3, <2>1
<1>4. CASE c.op = "zincrby"
    <2>1. GetUndoLogs(s, c) = rollbackZSetFields(s, c.key, <<c.args[1]>>)
        BY <1>4 DEF GetUndoLogs, undoZIncr, RenameOps, ExpireOps
    <2>2. PICK f : f = <<c.args[1]>>
        OBVIOUS
    <2>3. Len(f) = 1 /\ DOMAIN f = 1..1 /\ ToSet(f) = {c.args[1]}
        BY <2>2, OneField
    <2> QED  BY <1>4, <2>1, <2>2, <2>3
<1> QED  BY <1>2, <1>3, <1>4

LEMMA ScoresUndone ==
    ASSUME NEW s, NEW c, Succeeds(s, c), c.op \in {"zadd", "zrem", "zincrby"}
    PROVE  Undoes(s, c, c.key)
<1> DEFINE k == c.key
           old == ValueOf(s, k)
           t == s.ttl[k]
           u == execWithLock(s, c).store
           log == GetUndoLogs(s, c)
<1>1. /\ IsStore(s) /\ IsStore(u) /\ k \in Key /\ execWithLock(s, c).fate = "ok"
      /\ IsLog(log, MayChange(c)) /\ log # Panic /\ WholeEntity(s.data[k], s.ttl[k])
    BY LogRuns DEF Succeeds
<1>2. PICK fields : /\ GetUndoLogs(s, c) = rollbackZSetFields(s, c.key, fields)
                    /\ Len(fields) \in Nat /\ DOMAIN fields = 1..Len(fields)
                    /\ c.op = "zadd" => ToSet(fields) = {c.args[2*i] : i \in 1..Len(c.args) \div 2}
                    /\ c.op = "zrem" => ToSet(fields) = ToSet(c.args)
                    /\ c.op = "zincrby" => ToSet(fields) = {c.args[1]}
    BY ScoreLog
<1>3. /\ c.op = "zadd" => execWithLock(s, c) = execZAdd(s, c)
      /\ c.op = "zrem" => execWithLock(s, c) = execZRem(s, c)
      /\ c.op = "zincrby" => execWithLock(s, c) = execZIncrBy(s, c)
    <2>1. c.op = "zadd" => execWithLock(s, c) = execZAdd(s, c)
        BY DEF execWithLock
    <2>2. c.op = "zrem" => execWithLock(s, c) = execZRem(s, c)
        BY DEF execWithLock
    <2>3. c.op = "zincrby" => execWithLock(s, c) = execZIncrBy(s, c)
        BY DEF execWithLock
    <2> QED  BY <2>1, <2>2, <2>3
<1>4. ~WrongType(s, k, "zset")
    <2>1. SUFFICES ASSUME WrongType(s, k, "zset") PROVE execWithLock(s, c) = Error(s)
        BY <1>1 DEF Error
    <2>2. execZAdd(s, c) = Error(s)
        BY <2>1 DEF execZAdd
    <2>3. execZRem(s, c) = Error(s) /\ execZIncrBy(s, c) = Error(s)
        BY <2>1 DEF execZRem, execZIncrBy
    <2> QED  BY <1>3, <2>2, <2>3
<1>5. CASE ~Exists(s, k)
    <2>1. GetUndoLogs(s, c) = <<Del(k)>>
        BY <1>2, <1>4, <1>5 DEF rollbackZSetFields
    <2> QED  BY <1>5, <2>1, KeyTaken
<1>6. CASE Exists(s, k)
    <2>1. IsType(s, k, "zset") /\ zsetOf(s, k) = old
        BY <1>4, <1>6 DEF WrongType, Exists, IsType, TypeOf, zsetOf
    <2>2. "zset" \in Types /\ \A e : SortedSet(e) = <<"zset", e>>
        BY DEF Types, SortedSet
    <2>3. Slot(s, k) = <<SortedSet(old), t>> /\ IsFcn(old)
        <3>1. Slot(s, k) = <<SortedSet(old), t>>
            BY <1>1, <2>1, <2>2, SlotOfType
        <3>2. IsFcn(old)
            BY <1>1, <2>1 DEF WholeEntity, IsType, TypeOf, ValueOf
        <3> QED  BY <3>1, <3>2
    <2>4. \A e : Slot(PutEntity(s, k, SortedSet(e)), k) = <<SortedSet(e), t>>
        BY <1>1, <2>2, PutSlot
    <2> HIDE DEF old
    <2>5. /\ \A i \in DOMAIN fields : fields[i] \in DOMAIN old
          /\ log = [i \in DOMAIN fields |-> Command("zadd", k, 0, <<old[fields[i]], fields[i]>>)]
        BY <1>1, <1>2, <1>4, <1>6, <2>1 DEF rollbackZSetFields
    <2>6. ToSet(fields) \subseteq DOMAIN old
        BY <2>5 DEF ToSet
    <2>7. Rescored(u, k, old, ToSet(fields), t)
        <3>1. CASE c.op = "zadd"
            <4> DEFINE at(m) == {i \in 1..Len(c.args) \div 2 : c.args[2*i] = m}
                       new == {c.args[2*i] : i \in 1..Len(c.args) \div 2}
                       w == zsetOf(s, k)
                       z == [m \in DOMAIN w \cup new |-> IF m \in new THEN c.args[2 * Max(at(m)) - 1]
                                                         ELSE w[m]]
            <4>1. u = PutEntity(s, k, SortedSet(z))
                <5> DEFINE Refused == Len(c.args) % 2 # 0 \/ WrongType(s, k, "zset")
                <5>1. execZAdd(s, c) = IF Refused THEN Error(s) ELSE Done(PutEntity(s, k, SortedSet(z)))
                    BY DEF execZAdd
                <5> HIDE DEF Refused, z
                <5>2. execWithLock(s, c) = execZAdd(s, c)
                    BY <1>3, <3>1
                <5>3. execZAdd(s, c) = Done(PutEntity(s, k, SortedSet(z)))
                    BY <1>1, <5>1, <5>2 DEF Error
                <5> QED  BY <5>2, <5>3 DEF Done
            <4>2. ToSet(fields) = new
                BY <1>2, <3>1
            <4>3. IsFcn(z) /\ DOMAIN z = DOMAIN old /\ \A m \in DOMAIN old \ new : z[m] = old[m]
                <5>0. w = old
                    BY <2>1
                <5> HIDE DEF at, w
                <5>1. DOMAIN old \cup new = DOMAIN old
                    BY <2>6, <4>2
                <5> HIDE DEF new
                <5> QED  BY <5>0, <5>1 DEF IsFcn
            <4> HIDE DEF z, new
            <4> QED  BY <2>4, <4>1, <4>2, <4>3 DEF Rescored
        <3>2. CASE c.op = "zrem"
            <4> DEFINE left == DOMAIN old \ ToSet(c.args)
                       z == only(old, left)
            <4>1. u = PutEntity(s, k, SortedSet(z))
                BY <1>3, <1>4, <1>6, <2>1, <3>2 DEF execZRem, removeMembers, Done
            <4>2. ToSet(fields) = ToSet(c.args)
                BY <1>2, <3>2
            <4>3. IsFcn(z) /\ DOMAIN z = left /\ \A m \in left : z[m] = old[m]
                <5> HIDE DEF left
                <5> QED  BY DEF IsFcn, only
            <4> HIDE DEF z
            <4> QED  BY <2>4, <4>1, <4>2, <4>3 DEF Rescored
        <3>3. CASE c.op = "zincrby"
            <4> DEFINE m == c.args[1]
                       z == add(old, m, old[m] + c.n)
            <4>1. ToSet(fields) = {m} /\ m \in DOMAIN old
                BY <1>2, <2>6, <3>3
            <4>2. u = PutEntity(s, k, SortedSet(z))
                BY <1>3, <1>4, <2>1, <3>3, <4>1 DEF execZIncrBy, Logged
            <4>3. IsFcn(z) /\ DOMAIN z = DOMAIN old /\ \A x \in DOMAIN old \ {m} : z[x] = old[x]
                <5> HIDE DEF m
                <5> QED  BY <4>1 DEF IsFcn, add
            <4> HIDE DEF z
            <4> QED  BY <2>4, <4>1, <4>2, <4>3 DEF Rescored
        <3> QED  BY <3>1, <3>2, <3>3
    <2>8. Len(log) = Len(fields) /\ \A i \in 1..Len(fields) :
              log[i] = Command("zadd", k, 0, <<old[fields[i]], fields[i]>>)
        <3>2. PICK n \in Nat : n = Len(fields) /\ DOMAIN fields = 1..n
            BY <1>2
        <3>3. log = [i \in 1..n |-> Command("zadd", k, 0, <<old[fields[i]], fields[i]>>)]
            BY <2>5, <3>2
        <3> HIDE DEF log
        <3>4. Len(log) = n /\ \A i \in 1..n : log[i] = Command("zadd", k, 0, <<old[fields[i]], fields[i]>>)
            BY <3>3
        <3> QED  BY <3>2, <3>4
    <2> HIDE DEF log, u
    <2>9. PICK new : /\ Slot(u, k) = <<SortedSet(new), t>> /\ IsFcn(new) /\ DOMAIN new \subseteq DOMAIN old
                     /\ \A m \in DOMAIN old \ ToSet(fields) : m \in DOMAIN new /\ new[m] = old[m]
        BY <2>7 DEF Rescored
    <2>10. Slot(RunAll(u, log), k) = <<SortedSet(old), t>>
        <3>1. PICK K : IsLog(log, K)
            BY <1>1
        <3>2. Len(fields) \in Nat /\ DOMAIN fields = 1..Len(fields) /\ IsFcn(old) /\ IsStore(u) /\ k \in Key
            BY <1>1, <1>2, <2>3
        <3> HIDE DEF k, t
        <3> QED  BY <2>6, <2>8, <2>9, <3>1, <3>2, ScoresBack
    <2> QED  BY <2>3, <2>10 DEF Undoes, log, u
<1> QED  BY <1>5, <1>6

-----------------------------------------------------------------------------
(* Every command.                                                          *)

LEMMA EveryKeyUndone ==
    ASSUME NEW s, NEW c, Succeeds(s, c), Usable(s, c), c.op \in PushOps => c.args # <<>>
    PROVE  \A k \in MayChange(c) \cap Key : Undoes(s, c, k)
<1>1. c.op \in StringOps \cup ListOps \cup KeyOps \cup HashOps \cup SetOps \cup SortedSetOps
    BY DEF Succeeds, IsCommand
<1>2. CASE c.op = "get"
    <2>1. MayChange(c) = {}
        BY <1>2 DEF MayChange, writeKeysOf, RenameOps, ToSet
    <2> QED  BY <2>1
<1>3. CASE c.op = "rpoplpush"
    BY <1>3, RPopLPushUndone
<1>4. CASE c.op \in FirstKeyBack \cup RenameOps \cup {"del", "mset", "msetnx"}
    BY <1>4, KeysBackUndone
<1>5. CASE c.op \in {"setrange", "lpop", "rpop", "lset", "sadd", "srem", "zadd", "zrem", "zincrby"}
                    \cup PushOps \cup HashOps \cup ExpireOps \cup {"persist"}
    <2>1. Undoes(s, c, c.key)
        BY <1>5, SetRangeUndone, LPopUndone, RPopUndone, LSetUndone, PushesUndone, HashUndone,
           ExpiriesUndone, SetUndone, ScoresUndone
    <2>2. MayChange(c) = {c.key}
        BY <1>5, FirstKey DEF PushOps, HashOps, ExpireOps, RenameOps
    <2> QED  BY <2>1, <2>2
<1>6. c.op # "spop"
    BY DEF Succeeds, NotUndone
<1> QED  BY <1>1, <1>2, <1>3, <1>4, <1>5, <1>6
         DEF StringOps, ListOps, KeyOps, HashOps, SetOps, SortedSetOps, StoreOps, FirstKeyBack, PushOps,
             ExpireOps, RenameOps

\* The log of a command brings the whole store back.
LEMMA CommandTakenBack ==
    ASSUME NEW s, NEW c, Succeeds(s, c), Usable(s, c), c.op \in PushOps => c.args # <<>>
    PROVE  \A k \in Key : Agree(RunAll(execWithLock(s, c).store, GetUndoLogs(s, c)), s, k)
<1> DEFINE u == execWithLock(s, c).store
           b == RunAll(u, GetUndoLogs(s, c))
<1>1. IsStore(s) /\ IsStore(u) /\ IsLog(GetUndoLogs(s, c), MayChange(c)) /\ IsCommand(c)
    BY LogRuns DEF Succeeds
<1>2. Within(s, u, MayChange(c))
    BY <1>1, LineWithin
<1> HIDE DEF u
<1>3. Within(u, b, MayChange(c))
    BY <1>1, RunAllWithin
<1>4. IsStore(b)
    BY <1>3 DEF Within
<1>5. ASSUME NEW k \in Key PROVE Slot(b, k) = Slot(s, k)
    <2>1. CASE k \in MayChange(c)
        BY <2>1, EveryKeyUndone DEF Undoes, u
    <2>2. CASE k \notin MayChange(c)
        BY <1>2, <1>3, <2>2 DEF Within, Slot
    <2> QED  BY <2>1, <2>2
<1> HIDE DEF b
<1>6. \A k \in Key : Agree(b, s, k)
    BY <1>1, <1>4, <1>5, SlotsAgree
<1> QED  BY <1>6 DEF b, u

LEMMA WholeIsTidy == ASSUME NEW s, IsStore(s), Whole(s), ~SelfRenamed PROVE Tidy(s)
<1>1. ASSUME NEW k \in Key, ~Exists(s, k) PROVE Slot(s, k) = <<Absent, NoTTL>>
    <2>1. WholeEntity(s.data[k], s.ttl[k]) /\ s.data[k][1] = "none"
        BY <1>1 DEF Whole, Exists, TypeOf
    <2>2. s.data[k] = Absent /\ s.ttl[k] = NoTTL
        BY <2>1 DEF WholeEntity
    <2> QED  BY <2>2 DEF Slot
<1> QED  BY <1>1 DEF Tidy

\* After a command that has succeeded, its undo log brings every key back, its
\* value and its expiry (db.go: "returns undo logs for the given command line"),
\* but for what NotUndone names, and as long as nobody renames a key to itself.
THEOREM UndoAlwaysRestores ==
    ASSUME \A c \in Client : c.op = "rename" => c.args[1] # c.key
    PROVE  Spec => []UndoRestores
<1>1. ~SelfRenamed
    BY DEF SelfRenamed
<1>2. StoreWhole => UndoRestores
    <2>1. ASSUME StoreWhole, NEW c \in Sent, execWithLock(store, c).fate = "ok",
                 GetUndoLogs(store, c) # Panic, ~NotUndone(store, c)
          PROVE  \A k \in Key : Agree(RunAll(execWithLock(store, c).store, GetUndoLogs(store, c)), store, k)
        <3>1. IsStore(store) /\ Whole(store) /\ c \in Client /\ Room(c)
            BY <2>1 DEF StoreWhole, StoreInv, Sent
        <3>2. /\ IsCommand(c) /\ LineArgs(c)
              /\ c.op # "hmset" => c.args \in Seq(ToSet(c.args))
              /\ c.op \in PushOps => c.args # <<>>
              /\ c.op = "hmset" => DOMAIN c.args # {}
            BY <3>1, ClientAssumption DEF LineArgs
        <3>3. Usable(store, c)
            BY <3>1 DEF Room, Usable
        <3>4. c.op = "rename" => c.args[1] # c.key \/ SelfRenamed
            BY <3>1
        <3>5. Whole(execWithLock(store, c).store)
            BY <3>1, <3>2, <3>3, <3>4, WholeCommands
        <3>6. PICK u : u = execWithLock(store, c).store
            OBVIOUS
        <3>7. IsStore(u)
            BY <3>1, <3>2, <3>6, LineWithin DEF Within
        <3>8. Tidy(store) /\ Tidy(u)
            BY <1>1, <3>1, <3>5, <3>6, <3>7, WholeIsTidy
        <3>9. Succeeds(store, c)
            BY <2>1, <3>1, <3>2, <3>6, <3>8 DEF Succeeds
        <3> QED  BY <3>2, <3>3, <3>9, CommandTakenBack
    <2> QED  BY <2>1 DEF UndoRestores
<1> QED  BY <1>2, StoreStaysWhole, PTL
=============================================================================
