--------------------------- MODULE CommandsProofs ---------------------------
(***************************************************************************)
(* Lemmas about the operators the executors are made of, and about every   *)
(* executor of the command table, for any set of keys, any store and any   *)
(* command line: what a command leaves is a store, no key changes that the *)
(* command does not declare, and a command that answers with an error has  *)
(* changed nothing.  The modules ExecutorsProofs and TransactionProofs     *)
(* build on them.                                                          *)
(***************************************************************************)
EXTENDS Commands, FiniteSetTheorems, SequenceTheorems, WellFoundedInduction, TLAPS

\* Induction over the naturals, for a set.
LEMMA NatSet ==
    ASSUME NEW T \in SUBSET Nat, 0 \in T, \A n \in T : n + 1 \in T
    PROVE  T = Nat
<1> SUFFICES ASSUME Nat \ T # {} PROVE FALSE
    OBVIOUS
<1> DEFINE R == OpToRel(<, Nat)
<1>1. \A m, n \in Nat : <<m, n>> \in R <=> m < n
    BY DEF OpToRel
<1>2. IsWellFoundedOn(R, Nat)
    BY NatLessThanWellFounded
<1> HIDE DEF R
<1>3. PICK m \in Nat \ T : \A n \in Nat \ T : ~ <<n, m>> \in R
    BY <1>2, WFMin
<1>4. m # 0 /\ m - 1 \in Nat /\ m - 1 < m
    OBVIOUS
<1>5. <<m - 1, m>> \in R
    BY <1>1, <1>4
<1>6. m - 1 \in T
    BY <1>3, <1>4, <1>5
<1>7. m - 1 + 1 \in T
    BY <1>6
<1> QED  BY <1>4, <1>7

-----------------------------------------------------------------------------
(* The operations on the data map and the expiry map.                      *)

\* t is a store with the clock of s, which differs from s at most in the keys
\* of K.
Within(s, t, K) ==
    /\ IsStore(t) /\ t.now = s.now
    /\ \A k \in Key \ K : t.data[k] = s.data[k] /\ t.ttl[k] = s.ttl[k]

\* A store is put together from its three parts.
LEMMA StoreOfParts ==
    ASSUME NEW d, d = [k \in Key |-> <<d[k][1], d[k][2]>>], \A k \in Key : d[k][1] \in Types,
           NEW x \in [Key -> Nat], NEW n \in Nat
    PROVE  IsStore([data |-> d, ttl |-> x, now |-> n])
BY DEF IsStore, TypeOf, ValueOf

\* A store has its three parts.
LEMMA PartsOfStore ==
    ASSUME NEW s, IsStore(s)
    PROVE  /\ s = [data |-> s.data, ttl |-> s.ttl, now |-> s.now]
           /\ s.data = [k \in Key |-> <<s.data[k][1], s.data[k][2]>>]
           /\ \A k \in Key : s.data[k][1] \in Types
           /\ s.ttl \in [Key -> Nat] /\ s.now \in Nat
BY DEF IsStore, TypeOf, ValueOf

\* Every key has an entity.
LEMMA EntityOfStore ==
    ASSUME NEW s, IsStore(s), NEW k \in Key
    PROVE  /\ s.data[k] = <<s.data[k][1], s.data[k][2]>>
           /\ s.data[k][1] \in Types /\ TypeOf(s, k) \in Types
<1>1. PICK a : s.data = [j \in Key |-> <<a[j][1], a[j][2]>>]
    BY PartsOfStore
<1>2. s.data[k] = <<a[k][1], a[k][2]>>
    BY <1>1
<1>3. TypeOf(s, k) \in Types
    BY DEF IsStore
<1>4. s.data[k] = <<s.data[k][1], s.data[k][2]>>
    BY <1>2
<1> QED  BY <1>3, <1>4 DEF TypeOf

\* d is a data map.
IsData(d) == /\ d = [k \in Key |-> d[k]]
             /\ \A k \in Key : d[k] = <<d[k][1], d[k][2]>> /\ d[k][1] \in Types

\* A data map makes a store.
LEMMA DataStore ==
    ASSUME NEW d, IsData(d), NEW x \in [Key -> Nat], NEW n \in Nat
    PROVE  IsStore([data |-> d, ttl |-> x, now |-> n])
<1>1. d = [k \in Key |-> <<d[k][1], d[k][2]>>] /\ \A k \in Key : d[k][1] \in Types
    BY DEF IsData
<1> QED  BY <1>1, StoreOfParts

\* The store without any key.
LEMMA EmptyIsStore == IsStore(EmptyStore)
<1> DEFINE d == [k \in Key |-> Absent]
           x == [k \in Key |-> NoTTL]
<1>1. x \in [Key -> Nat]
    BY DEF NoTTL
<1>2. IsData(d)
    BY DEF IsData, Absent, Types
<1>3. EmptyStore = [data |-> d, ttl |-> x, now |-> 0]
    BY DEF EmptyStore
<1> HIDE DEF d, x
<1> QED  BY <1>1, <1>2, <1>3, DataStore

\* PutEntity replaces the entity of a key.
LEMMA PutEntityStore ==
    ASSUME NEW s, IsStore(s), NEW k \in Key, NEW t \in Types, NEW v
    PROVE  LET p == PutEntity(s, k, <<t, v>>)
           IN  /\ IsStore(p) /\ p.ttl = s.ttl /\ p.now = s.now
               /\ p.data[k] = <<t, v>>
               /\ \A j \in Key \ {k} : p.data[j] = s.data[j]
<1> DEFINE d == [s.data EXCEPT ![k] = <<t, v>>]
<1>1. PutEntity(s, k, <<t, v>>) = [data |-> d, ttl |-> s.ttl, now |-> s.now]
    <2>1. PICK a, x, n : s = [data |-> a, ttl |-> x, now |-> n]
        BY PartsOfStore
    <2> QED  BY <2>1 DEF PutEntity
<1>2. d = [j \in Key |-> IF j = k THEN <<t, v>> ELSE s.data[j]]
    BY PartsOfStore
<1>3. d = [j \in Key |-> <<d[j][1], d[j][2]>>] /\ \A j \in Key : d[j][1] \in Types
    <2>1. ASSUME NEW j \in Key
          PROVE  d[j] = <<d[j][1], d[j][2]>> /\ d[j][1] \in Types
        <3>1. s.data[j] = <<s.data[j][1], s.data[j][2]>> /\ s.data[j][1] \in Types
            BY EntityOfStore
        <3>2. CASE j = k
            BY <1>2, <3>2
        <3>3. CASE j # k
            <4>1. d[j] = s.data[j]
                BY <1>2, <3>3
            <4> QED  BY <3>1, <4>1
        <3> QED  BY <3>2, <3>3
    <2>2. [j \in Key |-> <<d[j][1], d[j][2]>>] = [j \in Key |-> d[j]]
        BY <2>1
    <2> QED  BY <1>2, <2>1, <2>2
<1> HIDE DEF d
<1>4. IsStore([data |-> d, ttl |-> s.ttl, now |-> s.now])
    BY <1>3, StoreOfParts, PartsOfStore
<1> QED  BY <1>1, <1>2, <1>4

\* Expire and Persist set the expiry of a key.
LEMMA ExpireStore ==
    ASSUME NEW s, IsStore(s), NEW k \in Key, NEW n \in Nat
    PROVE  LET p == Expire(s, k, n)
           IN  /\ IsStore(p) /\ p.data = s.data /\ p.now = s.now
               /\ p.ttl = [s.ttl EXCEPT ![k] = n]
<1>1. Expire(s, k, n) = [data |-> s.data, ttl |-> [s.ttl EXCEPT ![k] = n], now |-> s.now]
    <2>1. PICK a, x, m : s = [data |-> a, ttl |-> x, now |-> m]
        BY PartsOfStore
    <2> QED  BY <2>1 DEF Expire
<1>2. [s.ttl EXCEPT ![k] = n] \in [Key -> Nat]
    BY PartsOfStore
<1>3. IsStore([data |-> s.data, ttl |-> [s.ttl EXCEPT ![k] = n], now |-> s.now])
    BY <1>2, StoreOfParts, PartsOfStore
<1> QED  BY <1>1, <1>3

LEMMA PersistStore ==
    ASSUME NEW s, IsStore(s), NEW k \in Key
    PROVE  LET p == Persist(s, k)
           IN  /\ IsStore(p) /\ p.data = s.data /\ p.now = s.now
               /\ p.ttl = [s.ttl EXCEPT ![k] = NoTTL]
<1>1. NoTTL \in Nat /\ Persist(s, k) = Expire(s, k, NoTTL)
    BY DEF NoTTL, Persist, Expire
<1> QED  BY <1>1, ExpireStore

\* RemoveKey drops the entity and the expiry.
LEMMA RemoveStore ==
    ASSUME NEW s, IsStore(s), NEW k \in Key
    PROVE  LET p == RemoveKey(s, k)
           IN  /\ IsStore(p) /\ p.now = s.now
               /\ p.data[k] = Absent /\ p.ttl = [s.ttl EXCEPT ![k] = NoTTL]
               /\ \A j \in Key \ {k} : p.data[j] = s.data[j]
<1> DEFINE q == PutEntity(s, k, Absent)
<1>1. Absent = <<"none", <<>>>> /\ "none" \in Types
    BY DEF Absent, Types
<1>2. /\ IsStore(q) /\ q.ttl = s.ttl /\ q.now = s.now
      /\ q.data[k] = Absent
      /\ \A j \in Key \ {k} : q.data[j] = s.data[j]
    BY <1>1, PutEntityStore
<1>3. RemoveKey(s, k) = Persist(q, k)
    BY DEF RemoveKey
<1> HIDE DEF q
<1> QED  BY <1>2, <1>3, PersistStore

-----------------------------------------------------------------------------
(* Within, for the same operations.                                        *)

LEMMA WithinRefl ==
    ASSUME NEW s, IsStore(s), NEW K
    PROVE  Within(s, s, K)
BY DEF Within

LEMMA WithinTrans ==
    ASSUME NEW s, NEW t, NEW u, NEW K, Within(s, t, K), Within(t, u, K)
    PROVE  Within(s, u, K)
BY DEF Within

LEMMA WithinPut ==
    ASSUME NEW s, IsStore(s), NEW k \in Key, NEW K, k \in K, NEW t \in Types, NEW v
    PROVE  Within(s, PutEntity(s, k, <<t, v>>), K)
<1> DEFINE p == PutEntity(s, k, <<t, v>>)
<1>1. IsStore(p) /\ p.ttl = s.ttl /\ p.now = s.now /\ \A j \in Key \ {k} : p.data[j] = s.data[j]
    BY PutEntityStore
<1> HIDE DEF p
<1>2. Within(s, p, K)
    BY <1>1 DEF Within
<1> QED  BY <1>2 DEF p

LEMMA WithinExpire ==
    ASSUME NEW s, IsStore(s), NEW k \in Key, NEW K, k \in K, NEW n \in Nat
    PROVE  Within(s, Expire(s, k, n), K)
<1>1. \A j \in Key \ K : [s.ttl EXCEPT ![k] = n][j] = s.ttl[j]
    BY PartsOfStore
<1> DEFINE p == Expire(s, k, n)
<1>2. IsStore(p) /\ p.data = s.data /\ p.now = s.now /\ p.ttl = [s.ttl EXCEPT ![k] = n]
    BY ExpireStore
<1> HIDE DEF p
<1>3. Within(s, p, K)
    BY <1>1, <1>2 DEF Within
<1> QED  BY <1>3 DEF p

LEMMA WithinPersist ==
    ASSUME NEW s, IsStore(s), NEW k \in Key, NEW K, k \in K
    PROVE  Within(s, Persist(s, k), K)
<1>1. NoTTL \in Nat /\ Persist(s, k) = Expire(s, k, NoTTL)
    BY DEF NoTTL, Persist, Expire
<1> QED  BY <1>1, WithinExpire

LEMMA WithinRemove ==
    ASSUME NEW s, IsStore(s), NEW k \in Key, NEW K, k \in K
    PROVE  Within(s, RemoveKey(s, k), K)
<1>1. \A j \in Key \ K : [s.ttl EXCEPT ![k] = NoTTL][j] = s.ttl[j]
    BY PartsOfStore
<1> DEFINE p == RemoveKey(s, k)
<1>2. /\ IsStore(p) /\ p.now = s.now /\ p.ttl = [s.ttl EXCEPT ![k] = NoTTL]
      /\ \A j \in Key \ {k} : p.data[j] = s.data[j]
    BY RemoveStore
<1> HIDE DEF p
<1>3. Within(s, p, K)
    BY <1>1, <1>2 DEF Within
<1> QED  BY <1>3 DEF p

\* What the executors of commands on one key do to the store.
LEMMA WithinOneKey ==
    ASSUME NEW s, IsStore(s), NEW k \in Key, NEW K, k \in K
    PROVE  /\ Within(s, s, K)
           /\ Within(s, Persist(s, k), K)
           /\ Within(s, RemoveKey(s, k), K)
           /\ \A n \in Nat : Within(s, Expire(s, k, n), K)
           /\ \A v : Within(s, PutEntity(s, k, String(v)), K)
           /\ \A v : Within(s, Persist(PutEntity(s, k, String(v)), k), K)
           /\ \A v : \A n \in Nat : Within(s, Expire(PutEntity(s, k, String(v)), k, n), K)
           /\ \A v : Within(s, PutEntity(s, k, List(v)), K)
           /\ \A v : Within(s, PutEntity(s, k, Hash(v)), K)
           /\ \A v : Within(s, PutEntity(s, k, HashSet(v)), K)
           /\ \A v : Within(s, PutEntity(RemoveKey(s, k), k, HashSet(v)), K)
           /\ \A v : Within(s, PutEntity(s, k, SortedSet(v)), K)
<1>1. \A t \in Types : \A v : Within(s, PutEntity(s, k, <<t, v>>), K)
    BY WithinPut
<1>2. \A v : /\ Within(s, PutEntity(s, k, String(v)), K)
             /\ Within(s, PutEntity(s, k, List(v)), K)
             /\ Within(s, PutEntity(s, k, Hash(v)), K)
             /\ Within(s, PutEntity(s, k, HashSet(v)), K)
             /\ Within(s, PutEntity(s, k, SortedSet(v)), K)
    BY <1>1 DEF Types, String, List, Hash, HashSet, SortedSet
<1>3. ASSUME NEW v
      PROVE  /\ Within(s, Persist(PutEntity(s, k, String(v)), k), K)
             /\ \A n \in Nat : Within(s, Expire(PutEntity(s, k, String(v)), k, n), K)
    <2> DEFINE p == PutEntity(s, k, String(v))
    <2>1. Within(s, p, K) /\ IsStore(p)
        BY <1>2 DEF Within
    <2> HIDE DEF p
    <2>2. Within(p, Persist(p, k), K) /\ \A n \in Nat : Within(p, Expire(p, k, n), K)
        BY <2>1, WithinPersist, WithinExpire
    <2>3. Within(s, Persist(p, k), K) /\ \A n \in Nat : Within(s, Expire(p, k, n), K)
        BY <2>1, <2>2, WithinTrans
    <2> QED  BY <2>3 DEF p
<1>4. ASSUME NEW v
      PROVE  Within(s, PutEntity(RemoveKey(s, k), k, HashSet(v)), K)
    <2> DEFINE p == RemoveKey(s, k)
    <2>1. Within(s, p, K) /\ IsStore(p)
        BY WithinRemove DEF Within
    <2> HIDE DEF p
    <2>2. Within(p, PutEntity(p, k, HashSet(v)), K)
        BY <2>1, WithinPut DEF Types, HashSet
    <2>3. Within(s, PutEntity(p, k, HashSet(v)), K)
        BY <2>1, <2>2, WithinTrans
    <2> QED  BY <2>3 DEF p
<1> QED  BY <1>2, <1>3, <1>4, WithinRefl, WithinPersist, WithinRemove, WithinExpire

-----------------------------------------------------------------------------
(* What every executor does.                                               *)

\* The keys a command may change: those it declares as written, and the source
\* of a RENAME.
MayChange(c) == ToSet(writeKeysOf(c)) \cup (IF c.op \in RenameOps THEN {c.key} ELSE {})

\* Ended(s, c, r): what the locks and ExecMulti rely on in the result r of the
\* command c on the store s.
Ended(s, c, r) ==
    /\ r.fate \in {"ok", "error", "panic"}
    /\ Within(s, r.store, MayChange(c))
    /\ r.fate = "error" /\ c.op # "getex" => r.store = s /\ r.aof = <<>>

\* The results an executor puts together.
LEMMA Results ==
    ASSUME NEW s, NEW c, NEW p, Within(s, p, MayChange(c)), NEW lines
    PROVE  /\ Ended(s, c, Done(p)) /\ Ended(s, c, Logged(p, lines)) /\ Ended(s, c, Panicked(p))
           /\ Ended(s, c, [Done(p) EXCEPT !.aof = lines])
           /\ p = s \/ c.op = "getex" => Ended(s, c, Error(p))
BY DEF Ended, Done, Logged, Panicked, Error

\* Most commands declare their first key, and no other.
LEMMA FirstKey ==
    ASSUME NEW c, c.op \notin RenameOps \cup {"get", "del", "rpoplpush", "mset", "msetnx"}
    PROVE  MayChange(c) = {c.key}
<1>1. writeKeysOf(c) = <<c.key>>
    BY DEF writeKeysOf, RenameOps
<1>2. ToSet(<<c.key>>) = {c.key}
    BY DEF ToSet
<1> QED  BY <1>1, <1>2 DEF MayChange

\* The executor of a command.
Dispatched(s, c) ==
    /\ c.op = "get" => execWithLock(s, c) = execGet(s, c)
    /\ c.op = "set" => execWithLock(s, c) = execSet(s, c)
    /\ c.op = "setnx" => execWithLock(s, c) = execSetNX(s, c)
    /\ c.op = "setex" => execWithLock(s, c) = execSetEX(s, c)
    /\ c.op = "psetex" => execWithLock(s, c) = execPSetEX(s, c)
    /\ c.op = "getex" => execWithLock(s, c) = execGetEX(s, c)
    /\ c.op = "mset" => execWithLock(s, c) = execMSet(s, c)
    /\ c.op = "msetnx" => execWithLock(s, c) = execMSetNX(s, c)
    /\ c.op = "getset" => execWithLock(s, c) = execGetSet(s, c)
    /\ c.op = "getdel" => execWithLock(s, c) = execGetDel(s, c)
    /\ c.op = "incr" => execWithLock(s, c) = execIncr(s, c)
    /\ c.op = "incrby" => execWithLock(s, c) = execIncrBy(s, c)
    /\ c.op = "incrbyfloat" => execWithLock(s, c) = execIncrByFloat(s, c)
    /\ c.op = "decr" => execWithLock(s, c) = execDecr(s, c)
    /\ c.op = "decrby" => execWithLock(s, c) = execDecrBy(s, c)
    /\ c.op = "append" => execWithLock(s, c) = execAppend(s, c)
    /\ c.op = "expire" => execWithLock(s, c) = execExpire(s, c)
    /\ c.op = "expireat" => execWithLock(s, c) = execExpireAt(s, c)
    /\ c.op = "pexpire" => execWithLock(s, c) = execPExpire(s, c)
    /\ c.op = "pexpireat" => execWithLock(s, c) = execPExpireAt(s, c)
    /\ c.op = "persist" => execWithLock(s, c) = execPersist(s, c)
    /\ c.op = "del" => execWithLock(s, c) = execDel(s, c)

LEMMA Dispatch ==
    ASSUME NEW s, NEW c
    PROVE  Dispatched(s, c)
<1>1. c.op = "get" => execWithLock(s, c) = execGet(s, c)
    BY DEF execWithLock
<1>2. c.op = "set" => execWithLock(s, c) = execSet(s, c)
    BY DEF execWithLock
<1>3. c.op = "setnx" => execWithLock(s, c) = execSetNX(s, c)
    BY DEF execWithLock
<1>4. c.op = "setex" => execWithLock(s, c) = execSetEX(s, c)
    BY DEF execWithLock
<1>5. c.op = "psetex" => execWithLock(s, c) = execPSetEX(s, c)
    BY DEF execWithLock
<1>6. c.op = "getex" => execWithLock(s, c) = execGetEX(s, c)
    BY DEF execWithLock
<1>7. c.op = "mset" => execWithLock(s, c) = execMSet(s, c)
    BY DEF execWithLock
<1>8. c.op = "msetnx" => execWithLock(s, c) = execMSetNX(s, c)
    BY DEF execWithLock
<1>9. c.op = "getset" => execWithLock(s, c) = execGetSet(s, c)
    BY DEF execWithLock
<1>10. c.op = "getdel" => execWithLock(s, c) = execGetDel(s, c)
    BY DEF execWithLock
<1>11. c.op = "incr" => execWithLock(s, c) = execIncr(s, c)
    BY DEF execWithLock
<1>12. c.op = "incrby" => execWithLock(s, c) = execIncrBy(s, c)
    BY DEF execWithLock
<1>13. c.op = "incrbyfloat" => execWithLock(s, c) = execIncrByFloat(s, c)
    BY DEF execWithLock
<1>14. c.op = "decr" => execWithLock(s, c) = execDecr(s, c)
    BY DEF execWithLock
<1>15. c.op = "decrby" => execWithLock(s, c) = execDecrBy(s, c)
    BY DEF execWithLock
<1>16. c.op = "append" => execWithLock(s, c) = execAppend(s, c)
    BY DEF execWithLock
<1>17. c.op = "expire" => execWithLock(s, c) = execExpire(s, c)
    BY DEF execWithLock
<1>18. c.op = "expireat" => execWithLock(s, c) = execExpireAt(s, c)
    BY DEF execWithLock
<1>19. c.op = "pexpire" => execWithLock(s, c) = execPExpire(s, c)
    BY DEF execWithLock
<1>20. c.op = "pexpireat" => execWithLock(s, c) = execPExpireAt(s, c)
    BY DEF execWithLock
<1>21. c.op = "persist" => execWithLock(s, c) = execPersist(s, c)
    BY DEF execWithLock
<1>22. c.op = "del" => execWithLock(s, c) = execDel(s, c)
    BY DEF execWithLock
<1> QED
    BY <1>1, <1>2, <1>3, <1>4, <1>5, <1>6, <1>7, <1>8, <1>9, <1>10, <1>11, <1>12, <1>13,
    <1>14, <1>15, <1>16, <1>17, <1>18, <1>19, <1>20, <1>21, <1>22 DEF Dispatched

\* The executors of string commands on one key.
LEMMA StringExecs ==
    ASSUME NEW s, IsStore(s), NEW c, IsCommand(c),
           c.op \in StringOps \ {"get", "mset", "msetnx"}
    PROVE  Ended(s, c, execWithLock(s, c))
<1> DEFINE k == c.key
           K == MayChange(c)
<1>1. k \in Key /\ k \in K /\ c.n \in Int /\ s.now \in Nat
    BY FirstKey, PartsOfStore DEF StringOps, RenameOps, IsCommand
<1>2. c.n >= 0 => s.now + c.n \in Nat /\ s.now + c.n * Second \in Nat
    BY <1>1 DEF Second
<1>3. /\ Within(s, s, K) /\ Within(s, Persist(s, k), K) /\ Within(s, RemoveKey(s, k), K)
      /\ \A n \in Nat : Within(s, Expire(s, k, n), K)
      /\ \A v : Within(s, PutEntity(s, k, String(v)), K)
      /\ \A v : Within(s, Persist(PutEntity(s, k, String(v)), k), K)
      /\ \A v : \A n \in Nat : Within(s, Expire(PutEntity(s, k, String(v)), k, n), K)
    BY <1>1, WithinOneKey
<1>4. /\ Ended(s, c, Error(s)) /\ Ended(s, c, Done(s)) /\ Ended(s, c, Panicked(s))
      /\ \A p, l : Within(s, p, K) => Ended(s, c, Logged(p, l))
    BY <1>3, Results
<1> HIDE DEF k, K
<1>5. CASE c.op = "set"
    BY <1>1, <1>2, <1>3, <1>4, <1>5
    DEF execWithLock, execSet, NoTTL, k
<1>6. CASE c.op \in {"setnx", "getset", "getdel"}
    BY <1>1, <1>2, <1>3, <1>4, <1>6
    DEF execWithLock, execSetNX, execGetSet, execGetDel, k
<1>7. CASE c.op \in {"setex", "psetex"}
    BY <1>1, <1>2, <1>3, <1>4, <1>7
    DEF execWithLock, execSetEX, execPSetEX, k
<1>8. CASE c.op \in {"incr", "incrby", "incrbyfloat", "decr", "decrby"}
    BY <1>1, <1>2, <1>3, <1>4, <1>8
    DEF execWithLock, execIncr, execIncrBy, execIncrByFloat, execDecr, execDecrBy, countBy, k
<1>9. CASE c.op \in {"append", "setrange"}
    BY <1>1, <1>2, <1>3, <1>4, <1>9
    DEF execWithLock, execAppend, execSetRange, k
<1>10. CASE c.op = "getex"
    <2>1. Ended(s, c, Error(Persist(s, k)))
        BY <1>3, <1>10, Results DEF K
    <2> QED  BY <1>1, <1>2, <1>3, <1>4, <1>10, <2>1 DEF execWithLock, execGetEX, k, NoTTL
<1> QED  BY <1>5, <1>6, <1>7, <1>8, <1>9, <1>10 DEF StringOps

\* GET changes nothing.
LEMMA GetExec ==
    ASSUME NEW s, IsStore(s), NEW c, IsCommand(c), c.op = "get"
    PROVE  Ended(s, c, execWithLock(s, c))
<1>1. Ended(s, c, Error(s)) /\ Ended(s, c, Done(s))
    BY WithinRefl, Results
<1> QED  BY <1>1 DEF execWithLock, execGet

\* MSET and MSETNX change the keys of their arguments.
LEMMA MSetExecs ==
    ASSUME NEW s, IsStore(s), NEW c, IsCommand(c), c.op \in {"mset", "msetnx"}
    PROVE  Ended(s, c, execWithLock(s, c))
<1> DEFINE p == putPairs(s, c)
           at(k) == {i \in DOMAIN prepareMSet(c) : prepareMSet(c)[i] = k}
           d == [k \in Key |-> IF at(k) = {} THEN s.data[k]
                               ELSE String(<<c.args[2 * Max(at(k))]>>)]
<1>1. MayChange(c) = ToSet(prepareMSet(c))
    BY DEF MayChange, writeKeysOf, RenameOps
<1>2. p = [data |-> d, ttl |-> s.ttl, now |-> s.now]
    BY DEF putPairs
<1>3. ASSUME NEW k \in Key
      PROVE  d[k] = <<d[k][1], d[k][2]>> /\ d[k][1] \in Types
    <2>1. s.data[k] = <<s.data[k][1], s.data[k][2]>> /\ s.data[k][1] \in Types
        BY EntityOfStore
    <2>2. CASE at(k) = {}
        <3>1. d[k] = s.data[k]
            BY <2>2
        <3> QED  BY <2>1, <3>1
    <2>3. CASE at(k) # {}
        <3>1. d[k] = <<"string", <<c.args[2 * Max(at(k))]>>>>
            BY <2>3 DEF String
        <3> QED  BY <3>1 DEF Types
    <2> QED  BY <2>2, <2>3
<1>4. \A k \in Key \ MayChange(c) : d[k] = s.data[k]
    BY <1>1 DEF ToSet
<1>5. d = [k \in Key |-> d[k]]
    OBVIOUS
<1> HIDE DEF d
<1> HIDE DEF p
<1>6. IsStore(p)
    <2>1. IsData(d)
        BY <1>3, <1>5 DEF IsData
    <2>2. s.ttl \in [Key -> Nat] /\ s.now \in Nat
        BY PartsOfStore
    <2> QED  BY <1>2, <2>1, <2>2, DataStore
<1>7. Within(s, p, MayChange(c))
    BY <1>2, <1>4, <1>6 DEF Within
<1>8. /\ Ended(s, c, Error(s)) /\ Ended(s, c, Done(s))
      /\ \A l : Ended(s, c, Logged(p, l))
    BY <1>7, WithinRefl, Results
<1> QED  BY <1>8 DEF execWithLock, execMSet, execMSetNX, p

-----------------------------------------------------------------------------
(* The executors of the other tables that change one key.                  *)

\* What such an executor ends with.
LEMMA OneKeyResults ==
    ASSUME NEW s, IsStore(s), NEW c, c.key \in Key, c.key \in MayChange(c)
    PROVE  /\ Ended(s, c, Error(s)) /\ Ended(s, c, Done(s)) /\ Ended(s, c, Panicked(s))
           /\ \A l : Ended(s, c, Logged(s, l))
           /\ \A l : Ended(s, c, [Done(s) EXCEPT !.aof = l])
           /\ Ended(s, c, Done(RemoveKey(s, c.key)))
           /\ \A l : Ended(s, c, Logged(RemoveKey(s, c.key), l))
           /\ \A l : Ended(s, c, [Done(RemoveKey(s, c.key)) EXCEPT !.aof = l])
           /\ \A v, l : /\ Ended(s, c, Logged(PutEntity(s, c.key, List(v)), l))
                        /\ Ended(s, c, [Done(PutEntity(s, c.key, List(v))) EXCEPT !.aof = l])
                        /\ Ended(s, c, Panicked(PutEntity(s, c.key, List(v))))
           /\ \A v, l : /\ Ended(s, c, Logged(PutEntity(s, c.key, Hash(v)), l))
                        /\ Ended(s, c, [Done(PutEntity(s, c.key, Hash(v))) EXCEPT !.aof = l])
           /\ \A v, l : /\ Ended(s, c, Logged(PutEntity(s, c.key, HashSet(v)), l))
                        /\ Ended(s, c, [Done(PutEntity(s, c.key, HashSet(v))) EXCEPT !.aof = l])
                        /\ Ended(s, c, Logged(PutEntity(RemoveKey(s, c.key), c.key, HashSet(v)), l))
           /\ \A v, l : /\ Ended(s, c, Logged(PutEntity(s, c.key, SortedSet(v)), l))
                        /\ Ended(s, c, Done(PutEntity(s, c.key, SortedSet(v))))
                        /\ Ended(s, c, [Done(PutEntity(s, c.key, SortedSet(v))) EXCEPT !.aof = l])
                        /\ Ended(s, c, Panicked(PutEntity(s, c.key, SortedSet(v))))
<1> DEFINE k == c.key
           K == MayChange(c)
<1>1. /\ Within(s, s, K) /\ Within(s, RemoveKey(s, k), K)
      /\ \A v : /\ Within(s, PutEntity(s, k, List(v)), K)
                /\ Within(s, PutEntity(s, k, Hash(v)), K)
                /\ Within(s, PutEntity(s, k, HashSet(v)), K)
                /\ Within(s, PutEntity(RemoveKey(s, k), k, HashSet(v)), K)
                /\ Within(s, PutEntity(s, k, SortedSet(v)), K)
    BY WithinOneKey
<1>2. /\ \A p, l : Within(s, p, K) => /\ Ended(s, c, Done(p)) /\ Ended(s, c, Logged(p, l))
                                      /\ Ended(s, c, Panicked(p))
      /\ Ended(s, c, Error(s))
    BY <1>1, Results
<1>3. ASSUME NEW p, NEW l, Within(s, p, K)
      PROVE  Ended(s, c, [Done(p) EXCEPT !.aof = l])
    BY <1>3, Results
<1> HIDE DEF k, K
<1>4. /\ \A l : Ended(s, c, [Done(s) EXCEPT !.aof = l])
      /\ \A l : Ended(s, c, [Done(RemoveKey(s, k)) EXCEPT !.aof = l])
      /\ \A v, l : Ended(s, c, [Done(PutEntity(s, k, List(v))) EXCEPT !.aof = l])
      /\ \A v, l : Ended(s, c, [Done(PutEntity(s, k, Hash(v))) EXCEPT !.aof = l])
      /\ \A v, l : Ended(s, c, [Done(PutEntity(s, k, HashSet(v))) EXCEPT !.aof = l])
      /\ \A v, l : Ended(s, c, [Done(PutEntity(s, k, SortedSet(v))) EXCEPT !.aof = l])
    BY <1>1, <1>3, Zenon
<1> QED  BY <1>1, <1>2, <1>4, Zenon DEF k

\* The executors of list commands on one key.
LEMMA ListExecs ==
    ASSUME NEW s, IsStore(s), NEW c, IsCommand(c), c.op \in ListOps \ {"rpoplpush"}
    PROVE  Ended(s, c, execWithLock(s, c))
<1>1. c.key \in Key /\ c.key \in MayChange(c)
    BY FirstKey DEF ListOps, PushOps, RenameOps, IsCommand
<1>2. CASE c.op \in {"lpush", "rpush", "lpushx", "rpushx"}
    BY <1>1, <1>2, OneKeyResults
    DEF execWithLock, execLPush, execRPush, execLPushX, execRPushX
<1>3. CASE c.op \in {"lpop", "rpop"}
    BY <1>1, <1>3, OneKeyResults DEF execWithLock, execLPop, execRPop, PutOrRemove
<1>4. CASE c.op = "lset"
    BY <1>1, <1>4, OneKeyResults DEF execWithLock, execLSet
<1>5. CASE c.op = "lrem"
    BY <1>1, <1>5, OneKeyResults DEF execWithLock, execLRem, PutOrRemove
<1> QED  BY <1>2, <1>3, <1>4, <1>5 DEF ListOps, PushOps

\* The executors of hash commands.
LEMMA HashExecs ==
    ASSUME NEW s, IsStore(s), NEW c, IsCommand(c), c.op \in HashOps
    PROVE  Ended(s, c, execWithLock(s, c))
<1>1. c.key \in Key /\ c.key \in MayChange(c)
    BY FirstKey DEF HashOps, RenameOps, IsCommand
<1>2. CASE c.op \in {"hset", "hsetnx", "hmset"}
    BY <1>1, <1>2, OneKeyResults
    DEF execWithLock, execHSet, execHSetNX, execHMSet, put, putAll
<1>3. CASE c.op = "hdel"
    BY <1>1, <1>3, OneKeyResults DEF execWithLock, execHDel
<1>4. CASE c.op \in {"hincrby", "hincrbyfloat"}
    BY <1>1, <1>4, OneKeyResults
    DEF execWithLock, execHIncrBy, execHIncrByFloat, countField, put, putAll
<1> QED  BY <1>2, <1>3, <1>4 DEF HashOps

\* The executors of set commands.
LEMMA SetExecs ==
    ASSUME NEW s, IsStore(s), NEW c, IsCommand(c), c.op \in SetOps
    PROVE  Ended(s, c, execWithLock(s, c))
<1>1. c.key \in Key /\ c.key \in MayChange(c)
    BY FirstKey DEF SetOps, StoreOps, RenameOps, IsCommand
<1>2. CASE c.op \in {"sadd", "srem", "spop"}
    BY <1>1, <1>2, OneKeyResults DEF execWithLock, execSAdd, execSRem, execSPop
<1>3. CASE c.op = "sinterstore"
    BY <1>1, <1>3, OneKeyResults DEF execWithLock, execSInterStore
<1>4. CASE c.op = "sunionstore"
    BY <1>1, <1>4, OneKeyResults DEF execWithLock, execSUnionStore
<1>5. CASE c.op = "sdiffstore"
    BY <1>1, <1>5, OneKeyResults DEF execWithLock, execSDiffStore
<1> QED  BY <1>2, <1>3, <1>4, <1>5 DEF SetOps, StoreOps

\* The executors of sorted set commands.
LEMMA SortedSetExecs ==
    ASSUME NEW s, IsStore(s), NEW c, IsCommand(c), c.op \in SortedSetOps
    PROVE  Ended(s, c, execWithLock(s, c))
<1>1. c.key \in Key /\ c.key \in MayChange(c)
    BY FirstKey DEF SortedSetOps, RenameOps, IsCommand
<1>2. CASE c.op \in {"zadd", "zincrby"}
    BY <1>1, <1>2, OneKeyResults DEF execWithLock, execZAdd, execZIncrBy
<1>3. CASE c.op \in {"zrem", "zpopmin", "zremrangebyscore", "zremrangebyrank"}
    BY <1>1, <1>3, OneKeyResults
    DEF execWithLock, execZRem, execZPopMin, execZRemRangeByScore, execZRemRangeByRank,
        removeMembers
<1> QED  BY <1>2, <1>3 DEF SortedSetOps

\* The commands on expiries.
LEMMA ExpireExecs ==
    ASSUME NEW s, IsStore(s), NEW c, IsCommand(c), c.op \in ExpireOps \cup {"persist"}
    PROVE  Ended(s, c, execWithLock(s, c))
<1>1. c.key \in Key /\ c.key \in MayChange(c) /\ c.n \in Int /\ s.now \in Nat
    BY FirstKey, PartsOfStore DEF ExpireOps, RenameOps, IsCommand
<1>2. c.op # "persist" => /\ c.n * Second \in Nat /\ s.now + c.n * Second \in Nat
                          /\ c.n \in Nat /\ s.now + c.n \in Nat
    BY <1>1 DEF IsCommand, ExpireOps, Second
<1>3. /\ Ended(s, c, Done(s))
      /\ \A l : Ended(s, c, Logged(Persist(s, c.key), l))
      /\ \A l : \A n \in Nat : Ended(s, c, Logged(Expire(s, c.key, n), l))
    BY <1>1, WithinOneKey, Results
<1>4. CASE c.op = "persist"
    BY <1>3, <1>4 DEF execWithLock, execPersist
<1>5. CASE c.op \in ExpireOps
    BY <1>2, <1>3, <1>5
    DEF execWithLock, execExpire, execExpireAt, execPExpire, execPExpireAt, expireAt, ExpireOps
<1> QED  BY <1>4, <1>5

-----------------------------------------------------------------------------
(* The executors of commands on several keys.                              *)

\* Removes drops keys that are there, of those it is given.
LEMMA WithinRemoves ==
    ASSUME NEW s, IsStore(s), NEW keys, NEW K, ToSet(keys) \subseteq K
    PROVE  /\ Within(s, Removes(s, keys), K)
           /\ \A k \in ToSet(keys) \cap Key :
                 Removes(s, keys).data[k] = Absent \/ Removes(s, keys).data[k] = s.data[k]
<1> DEFINE gone == {k \in ToSet(keys) : Exists(s, k)}
           d == [k \in Key |-> IF k \in gone THEN Absent ELSE s.data[k]]
           x == [k \in Key |-> IF k \in gone THEN NoTTL ELSE s.ttl[k]]
           p == [data |-> d, ttl |-> x, now |-> s.now]
<1>1. Removes(s, keys) = p
    BY DEF Removes
<1>2. /\ \A k \in Key \ K : d[k] = s.data[k] /\ x[k] = s.ttl[k]
      /\ \A k \in Key : d[k] = Absent \/ d[k] = s.data[k]
    OBVIOUS
<1>3. s.ttl \in [Key -> Nat] /\ s.now \in Nat
    BY PartsOfStore
<1>4. x \in [Key -> Nat]
    BY <1>3 DEF NoTTL
<1>5. ASSUME NEW k \in Key
      PROVE  d[k] = <<d[k][1], d[k][2]>> /\ d[k][1] \in Types
    <2>1. s.data[k] = <<s.data[k][1], s.data[k][2]>> /\ s.data[k][1] \in Types
        BY EntityOfStore
    <2>2. Absent = <<Absent[1], Absent[2]>> /\ Absent[1] \in Types
        BY DEF Absent, Types
    <2>3. d[k] = Absent \/ d[k] = s.data[k]
        BY <1>2
    <2> HIDE DEF d
    <2> QED  BY <2>1, <2>2, <2>3
<1>6. d = [k \in Key |-> d[k]]
    OBVIOUS
<1> HIDE DEF d, x, gone
<1>7. IsStore(p)
    <2>1. IsData(d)
        BY <1>5, <1>6 DEF IsData
    <2> QED  BY <1>3, <1>4, <2>1, DataStore
<1>8. p.data = d /\ p.ttl = x /\ p.now = s.now
    OBVIOUS
<1> HIDE DEF p
<1>9. Within(s, p, K)
    BY <1>2, <1>7, <1>8 DEF Within
<1> QED  BY <1>1, <1>2, <1>8, <1>9

LEMMA DelExec ==
    ASSUME NEW s, IsStore(s), NEW c, IsCommand(c), c.op = "del"
    PROVE  Ended(s, c, execWithLock(s, c))
<1>1. MayChange(c) = ToSet(c.args)
    BY DEF MayChange, writeKeysOf, RenameOps
<1>2. Within(s, Removes(s, c.args), MayChange(c))
    BY <1>1, WithinRemoves
<1>3. \A l : Ended(s, c, [Done(Removes(s, c.args)) EXCEPT !.aof = l])
    BY <1>2, Results
<1> QED  BY <1>3 DEF execWithLock, execDel

\* moveTTL sets the expiries of the two keys.
LEMMA WithinMoveTTL ==
    ASSUME NEW s, IsStore(s), NEW t, NEW K, NEW src \in Key, NEW dest \in Key,
           src \in K, dest \in K, Within(s, t, K)
    PROVE  Within(s, moveTTL(s, t, src, dest), K)
<1>1. s.ttl[src] \in Nat
    BY PartsOfStore
<1>2. IsStore(t)
    BY DEF Within
<1> DEFINE u == Persist(t, src)
<1>3. Within(t, u, K) /\ IsStore(u)
    BY <1>2, WithinPersist DEF Within
<1> HIDE DEF u
<1>4. Within(u, Expire(u, dest, s.ttl[src]), K)
    BY <1>1, <1>3, WithinExpire
<1>5. Within(s, Expire(u, dest, s.ttl[src]), K)
    BY <1>3, <1>4, WithinTrans
<1> QED  BY <1>5 DEF moveTTL, u

LEMMA RenameExecs ==
    ASSUME NEW s, IsStore(s), NEW c, IsCommand(c), c.op \in RenameOps
    PROVE  Ended(s, c, execWithLock(s, c))
<1> DEFINE src == c.key
           dest == c.args[1]
           K == MayChange(c)
<1>1. src \in Key /\ dest \in Key /\ src \in K /\ dest \in K
    <2>1. c.args \in Seq(Key) /\ c.args # <<>> /\ c.key \in Key
        BY DEF IsCommand
    <2>2. 1 \in DOMAIN c.args /\ c.args[1] \in Key
        BY <2>1
    <2>3. K = ToSet(c.args) \cup {c.key}
        BY DEF MayChange, writeKeysOf, RenameOps
    <2> QED  BY <2>1, <2>2, <2>3 DEF ToSet
<1> HIDE DEF dest, K
<1>2. PICK t, v : t \in Types /\ s.data[src] = <<t, v>>
    BY <1>1, EntityOfStore
<1>3. Within(s, s, K)
    BY WithinRefl
<1>4. /\ Ended(s, c, Error(s)) /\ Ended(s, c, Done(s))
      /\ \A p, l : Within(s, p, K) => Ended(s, c, Logged(p, l))
    BY <1>3, Results DEF K
<1>5. CASE c.op = "rename"
    <2> DEFINE p == PutEntity(s, dest, s.data[src])
    <2>1. Within(s, p, K) /\ IsStore(p)
        BY <1>1, <1>2, WithinPut DEF Within
    <2> HIDE DEF p
    <2>2. Within(s, RemoveKey(p, src), K)
        BY <1>1, <2>1, WithinRemove, WithinTrans
    <2>3. Within(s, moveTTL(s, RemoveKey(p, src), src, dest), K)
        BY <1>1, <2>2, WithinMoveTTL
    <2> QED  BY <1>4, <1>5, <2>3 DEF execWithLock, execRename, p, dest
<1>6. CASE c.op = "renamenx"
    <2> DEFINE q == Removes(s, <<src, dest>>)
    <2>1. ToSet(<<src, dest>>) \subseteq K
        BY <1>1 DEF ToSet
    <2>2. Within(s, q, K) /\ IsStore(q)
        BY <2>1, WithinRemoves DEF Within
    <2> HIDE DEF q
    <2>3. Within(s, PutEntity(q, dest, s.data[src]), K)
        BY <1>1, <1>2, <2>2, WithinPut, WithinTrans
    <2>4. Within(s, moveTTL(s, PutEntity(q, dest, s.data[src]), src, dest), K)
        BY <1>1, <2>3, WithinMoveTTL
    <2> QED  BY <1>4, <1>6, <2>4 DEF execWithLock, execRenameNx, q, dest
<1> QED  BY <1>5, <1>6 DEF RenameOps

LEMMA RPopLPushExec ==
    ASSUME NEW s, IsStore(s), NEW c, IsCommand(c), c.op = "rpoplpush"
    PROVE  Ended(s, c, execWithLock(s, c))
<1> DEFINE src == c.key
           dest == c.args[1]
           K == MayChange(c)
           popped == PutEntity(s, src, List(RemoveLast(listOf(s, src))))
           pushed == PutEntity(popped, dest, List(InsertFront(listOf(popped, dest),
                                                  Last(listOf(s, src).page))))
<1>1. src \in Key /\ dest \in Key /\ src \in K /\ dest \in K
    <2>1. c.args \in Seq(Key) /\ c.args # <<>> /\ c.key \in Key
        BY DEF IsCommand, RenameOps, StoreOps
    <2>2. 1 \in DOMAIN c.args /\ c.args[1] \in Key /\ Len(c.args) \in Nat \ {0}
        BY <2>1
    <2>3. K = ToSet(<<c.key>> \o c.args)
        BY DEF MayChange, writeKeysOf, RenameOps
    <2> DEFINE all == <<c.key>> \o c.args
    <2>4. 1 \in DOMAIN all /\ 2 \in DOMAIN all /\ all[1] = c.key /\ all[2] = c.args[1]
        BY <2>1, <2>2
    <2> HIDE DEF all
    <2>5. all[1] \in ToSet(all) /\ all[2] \in ToSet(all)
        BY <2>4 DEF ToSet
    <2> QED  BY <2>2, <2>1, <2>3, <2>4, <2>5 DEF all
<1> HIDE DEF dest, K
<1>2. Within(s, popped, K) /\ IsStore(popped)
    <2>1. \A v : Within(s, PutEntity(s, src, List(v)), K)
        BY <1>1, WithinOneKey
    <2>2. Within(s, popped, K)
        BY <2>1
    <2> QED  BY <2>2 DEF Within
<1> HIDE DEF popped
<1>3. Within(s, pushed, K) /\ IsStore(pushed)
    <2>1. Within(popped, pushed, K)
        BY <1>1, <1>2, WithinOneKey
    <2> QED  BY <1>2, <2>1, WithinTrans DEF Within
<1> HIDE DEF pushed
<1>4. Within(s, PutOrRemove(pushed, src, listOf(pushed, src)), K)
    <2>1. Within(pushed, PutOrRemove(pushed, src, listOf(pushed, src)), K)
        BY <1>1, <1>3, WithinOneKey DEF PutOrRemove
    <2> QED  BY <1>3, <2>1, WithinTrans
<1>5. Within(s, s, K)
    BY WithinRefl
<1>6. /\ Ended(s, c, Error(s)) /\ Ended(s, c, Done(s))
      /\ \A p, l : Within(s, p, K) => Ended(s, c, Logged(p, l))
    BY <1>5, Results DEF K
<1> QED  BY <1>4, <1>6 DEF execWithLock, execRPopLPush, pushed, popped, dest

\* Every command of the table, on every store: what it leaves is a store with
\* the same clock, no key it may not change has changed, and an error has
\* changed nothing and is not logged.
LEMMA EveryCommand ==
    ASSUME NEW s, IsStore(s), NEW c, IsCommand(c)
    PROVE  Ended(s, c, execWithLock(s, c))
<1>1. c.op \in StringOps \cup ListOps \cup KeyOps \cup HashOps \cup SetOps \cup SortedSetOps
    BY DEF IsCommand
<1>2. CASE c.op \in StringOps
    BY <1>2, StringExecs, GetExec, MSetExecs
<1>3. CASE c.op \in ListOps
    BY <1>3, ListExecs, RPopLPushExec
<1>4. CASE c.op \in KeyOps
    BY <1>4, ExpireExecs, RenameExecs, DelExec DEF KeyOps
<1> QED  BY <1>1, <1>2, <1>3, <1>4, HashExecs, SetExecs, SortedSetExecs

-----------------------------------------------------------------------------
(* Sequences of sequences, and sequences of commands.                      *)

\* The elements of a sequence put after another.
LEMMA ToSetConcat ==
    ASSUME NEW S, NEW a \in Seq(S), NEW b \in Seq(S)
    PROVE  ToSet(a \o b) = ToSet(a) \cup ToSet(b)
<1>1. /\ a \o b \in Seq(S) /\ Len(a \o b) = Len(a) + Len(b)
      /\ Len(a) \in Nat /\ Len(b) \in Nat
      /\ \A i \in 1..Len(a) + Len(b) : (a \o b)[i] = IF i <= Len(a) THEN a[i] ELSE b[i - Len(a)]
    BY ConcatProperties, LenProperties
<1>2. PICK c \in Seq(S) : c = a \o b
    BY <1>1
<1>3. DOMAIN a = 1..Len(a) /\ DOMAIN b = 1..Len(b) /\ DOMAIN c = 1..Len(a) + Len(b)
    BY <1>1, <1>2, LenProperties
<1>4. ASSUME NEW i \in DOMAIN c PROVE c[i] \in ToSet(a) \cup ToSet(b)
    <2>1. CASE i <= Len(a)
        <3>1. c[i] = a[i] /\ i \in DOMAIN a
            BY <1>1, <1>2, <1>3, <2>1
        <3> QED  BY <3>1 DEF ToSet
    <2>2. CASE ~(i <= Len(a))
        <3>1. c[i] = b[i - Len(a)] /\ i - Len(a) \in DOMAIN b
            BY <1>1, <1>2, <1>3, <2>2
        <3> QED  BY <3>1 DEF ToSet
    <2> QED  BY <2>1, <2>2
<1>5. ASSUME NEW i \in DOMAIN a PROVE a[i] \in ToSet(c)
    <2>1. c[i] = a[i] /\ i \in DOMAIN c
        BY <1>1, <1>2, <1>3
    <2> QED  BY <2>1 DEF ToSet
<1>6. ASSUME NEW i \in DOMAIN b PROVE b[i] \in ToSet(c)
    <2>1. c[i + Len(a)] = b[i] /\ i + Len(a) \in DOMAIN c
        BY <1>1, <1>2, <1>3
    <2> QED  BY <2>1 DEF ToSet
<1>7. \A x \in ToSet(c) : x \in ToSet(a) \cup ToSet(b)
    BY <1>4 DEF ToSet
<1>8. (\A x \in ToSet(a) : x \in ToSet(c)) /\ \A x \in ToSet(b) : x \in ToSet(c)
    BY <1>5, <1>6 DEF ToSet
<1>9. ToSet(c) = ToSet(a) \cup ToSet(b)
    BY <1>7, <1>8
<1> QED  BY <1>2, <1>9

\* g is the function that FlattenSeq reads its result from, as far as m.
Flattens(seqs, m, g) == g = [i \in 1..m |-> IF i = 1 THEN seqs[i] ELSE g[i-1] \o seqs[i]]

\* There is such a function.
LEMMA FlattenSteps ==
    ASSUME NEW seqs, NEW n \in Nat
    PROVE  \E g : Flattens(seqs, n, g)
<1> DEFINE T == {m \in Nat : \E g : Flattens(seqs, m, g)}
<1>1. 0 \in T
    <2>1. Flattens(seqs, 0, [i \in 1..0 |-> seqs[i]])
        BY SMT DEF Flattens
    <2> QED  BY <2>1
<1>2. ASSUME NEW m \in T PROVE m + 1 \in T
    <2>1. PICK g : Flattens(seqs, m, g)
        OBVIOUS
    <2>2. m \in Nat
        OBVIOUS
    <2> DEFINE h == [i \in 1..m+1 |-> IF i \in 1..m THEN g[i]
                                      ELSE IF m = 0 THEN seqs[1] ELSE g[m] \o seqs[m+1]]
    <2>3. \A i \in 1..m : g[i] = IF i = 1 THEN seqs[i] ELSE g[i-1] \o seqs[i]
        BY <2>1, <2>2 DEF Flattens
    <2>4. ASSUME NEW i \in 1..m+1
          PROVE  h[i] = IF i = 1 THEN seqs[i] ELSE h[i-1] \o seqs[i]
        <3>1. CASE i = 1
            <4>1. m = 0 \/ 1 \in 1..m
                BY <2>2
            <4> QED  BY <2>2, <2>3, <3>1, <4>1
        <3>2. CASE i \in 2..m
            <4>1. i \in 1..m /\ i - 1 \in 1..m /\ i - 1 \in 1..m+1 /\ i # 1
                BY <2>2, <3>2
            <4>2. h[i] = g[i] /\ h[i-1] = g[i-1]
                BY <4>1
            <4> QED  BY <2>3, <4>1, <4>2
        <3>3. CASE i = m + 1 /\ m # 0
            <4>1. i \notin 1..m /\ i - 1 = m /\ m \in 1..m /\ m \in 1..m+1 /\ i # 1
                BY <2>2, <3>3
            <4>2. h[i] = g[m] \o seqs[m+1] /\ h[i-1] = g[m]
                BY <3>3, <4>1
            <4> QED  BY <3>3, <4>1, <4>2
        <3> QED  BY <2>2, <3>1, <3>2, <3>3
    <2>5. Flattens(seqs, m + 1, h)
        BY <2>4 DEF Flattens
    <2> HIDE DEF h
    <2> QED  BY <2>2, <2>5
<1>3. T = Nat
    <2>1. T \in SUBSET Nat
        OBVIOUS
    <2> HIDE DEF T
    <2> QED  BY <1>1, <1>2, <2>1, NatSet
<1> QED  BY <1>3

\* FlattenSeq is a sequence of the elements of all the sequences.
LEMMA FlattenSeqs ==
    ASSUME NEW S, NEW seqs \in Seq(Seq(S))
    PROVE  /\ FlattenSeq(seqs) \in Seq(S)
           /\ ToSet(FlattenSeq(seqs)) = UNION {ToSet(seqs[i]) : i \in DOMAIN seqs}
<1> DEFINE n == Len(seqs)
           g == CHOOSE f : Flattens(seqs, n, f)
           flat == FlattenSeq(seqs)
<1>1. n \in Nat /\ DOMAIN seqs = 1..n /\ \A i \in 1..n : seqs[i] \in Seq(S)
    BY LenProperties, ElementOfSeq
<1>2. CASE n = 0
    <2>1. flat = seqs
        BY <1>2 DEF FlattenSeq
    <2>2. seqs = <<>>
        BY <1>2
    <2>3. ToSet(<<>>) = {}
        BY DEF ToSet
    <2>4. DOMAIN seqs = {}
        BY <1>1, <1>2
    <2> QED  BY <2>1, <2>2, <2>3, <2>4
<1>3. CASE n # 0
    <2>1. flat = g[n]
        BY <1>3 DEF FlattenSeq, Flattens
    <2> HIDE DEF n, flat
    <2>2. \E f : Flattens(seqs, n, f)
        BY <1>1, FlattenSteps
    <2>3. Flattens(seqs, n, g)
        BY <2>2
    <2> HIDE DEF g
    <2>4. \A i \in 1..n : g[i] = IF i = 1 THEN seqs[i] ELSE g[i-1] \o seqs[i]
        BY <1>1, <2>3 DEF Flattens
    <2> DEFINE U(i) == UNION {ToSet(seqs[j]) : j \in 1..i}
               T == {i \in Nat : i \in 1..n => g[i] \in Seq(S) /\ ToSet(g[i]) = U(i)}
    <2>5. 0 \in T
        OBVIOUS
    <2>6. ASSUME NEW i \in T PROVE i + 1 \in T
        <3>1. i \in Nat
            OBVIOUS
        <3>2. SUFFICES ASSUME i + 1 \in 1..n
                       PROVE  g[i+1] \in Seq(S) /\ ToSet(g[i+1]) = U(i + 1)
            BY <3>1
        <3>3. seqs[i+1] \in Seq(S)
            BY <1>1, <3>2
        <3>4. CASE i = 0
            <4>1. g[i+1] = seqs[i+1] /\ i + 1 = 1
                BY <2>4, <3>2, <3>4
            <4>2. U(1) = ToSet(seqs[1])
                <5>1. 1..1 = {1}
                    OBVIOUS
                <5> QED  BY <5>1
            <4> HIDE DEF U
            <4> QED  BY <3>3, <4>1, <4>2
        <3>5. CASE i # 0
            <4>1. i \in 1..n /\ (i + 1) - 1 = i /\ i + 1 # 1
                BY <1>1, <3>1, <3>2, <3>5
            <4>2. g[i+1] = g[i] \o seqs[i+1]
                BY <2>4, <3>2, <4>1
            <4>3. g[i] \in Seq(S) /\ ToSet(g[i]) = U(i)
                BY <4>1
            <4>4. g[i+1] \in Seq(S)
                BY <3>3, <4>2, <4>3, ConcatProperties
            <4>5. ToSet(g[i+1]) = ToSet(g[i]) \cup ToSet(seqs[i+1])
                BY <3>3, <4>2, <4>3, ToSetConcat
            <4>6. U(i + 1) = U(i) \cup ToSet(seqs[i+1])
                <5>1. 1..i+1 = (1..i) \cup {i+1}
                    BY <3>1
                <5> QED  BY <5>1
            <4> HIDE DEF U
            <4> QED  BY <4>3, <4>4, <4>5, <4>6
        <3> QED  BY <3>4, <3>5
    <2>7. T = Nat
        <3>1. T \in SUBSET Nat
            OBVIOUS
        <3> HIDE DEF T
        <3> QED  BY <2>5, <2>6, <3>1, NatSet
    <2>8. n \in T /\ n \in 1..n
        <3>1. n \in 1..n
            BY <1>1, <1>3
        <3> HIDE DEF T
        <3> QED  BY <1>1, <2>7, <3>1
    <2>9. g[n] \in Seq(S) /\ ToSet(g[n]) = U(n)
        BY <2>8
    <2> QED  BY <1>1, <2>1, <2>9 DEF flat
<1> QED  BY <1>2, <1>3

-----------------------------------------------------------------------------
(* Undo logs, and sequences of commands.                                   *)

\* q is a command that changes no key but those of K, and so are the lines of a
\* log.
IsLine(q, K) == IsCommand(q) /\ MayChange(q) \subseteq K
IsLog(log, K) == Len(log) \in Nat /\ \A i \in 1..Len(log) : IsLine(log[i], K)

\* The keys of MSET and MSETNX.
LEMMA MSetKeys ==
    ASSUME NEW c, IsCommand(c), c.op \in {"mset", "msetnx"}
    PROVE  prepareMSet(c) \in Seq(Key)
<1> DEFINE n == Len(c.args) \div 2
<1>1. Len(c.args) \in Nat /\ ToSet(prepareMSet(c)) \subseteq Key
    BY DEF IsCommand
<1>2. n \in Nat
    <2>1. \A m \in Nat : m \div 2 \in Nat
        OBVIOUS
    <2> QED  BY <1>1, <2>1
<1>3. prepareMSet(c) = [i \in 1..n |-> c.args[2*i - 1]]
    BY DEF prepareMSet
<1> HIDE DEF n
<1>4. \A i \in 1..n : c.args[2*i - 1] \in Key
    BY <1>1, <1>3 DEF ToSet
<1>5. prepareMSet(c) \in [1..n -> Key]
    BY <1>3, <1>4
<1>6. \A f \in [1..n -> Key] : f \in Seq(Key)
    BY <1>2
<1> QED  BY <1>5, <1>6

\* Every command declares a sequence of keys as written, and a set of keys as
\* read.
LEMMA DeclaredKeys ==
    ASSUME NEW c, IsCommand(c)
    PROVE  writeKeysOf(c) \in Seq(Key) /\ readKeysOf(c) \subseteq Key
<1>1. c.key \in Key /\ <<c.key>> \in Seq(Key) /\ <<>> \in Seq(Key)
    BY DEF IsCommand
<1>2. c.op \in RenameOps \cup StoreOps \cup {"del", "rpoplpush"} => c.args \in Seq(Key)
    BY DEF IsCommand
<1>3. c.op = "rpoplpush" => <<c.key>> \o c.args \in Seq(Key)
    BY <1>1, <1>2, ConcatProperties
<1>4. c.op \in {"mset", "msetnx"} => prepareMSet(c) \in Seq(Key)
    BY MSetKeys
<1>5. writeKeysOf(c) \in Seq(Key)
    BY <1>1, <1>2, <1>3, <1>4 DEF writeKeysOf
<1>6. c.op \in StoreOps => ToSet(c.args) \subseteq Key
    <2>1. ASSUME c.op \in StoreOps PROVE ToSet(c.args) \subseteq Key
        <3>1. DOMAIN c.args = 1..Len(c.args) /\ c.args \in Seq(Key)
            BY <1>2, <2>1, LenProperties
        <3>2. \A i \in DOMAIN c.args : c.args[i] \in Key
            BY <3>1, ElementOfSeq
        <3> QED  BY <3>2 DEF ToSet
    <2> QED  BY <2>1
<1>7. readKeysOf(c) \subseteq Key
    BY <1>1, <1>6 DEF readKeysOf
<1> QED  BY <1>5, <1>7

\* Commands on one key as the undo logs put them together.
LEMMA OneKeyLine ==
    ASSUME NEW K, NEW k \in Key, k \in K, NEW n \in Int, NEW args,
           NEW op \in (StringOps \ {"get", "mset", "msetnx"}) \cup (ListOps \ {"rpoplpush"})
                      \cup ExpireOps \cup {"persist"} \cup HashOps \cup (SetOps \ StoreOps)
                      \cup SortedSetOps,
           op \in ExpireOps => n >= 0
    PROVE  IsLine(Command(op, k, n, args), K)
<1> DEFINE q == Command(op, k, n, args)
<1>1. q.op = op /\ q.key = k /\ q.n = n
    BY DEF Command
<1> HIDE DEF q
<1>2. op \notin RenameOps \cup StoreOps \cup {"get", "del", "rpoplpush", "mset", "msetnx"}
    BY DEF StringOps, ListOps, PushOps, ExpireOps, HashOps, SetOps, StoreOps, SortedSetOps, RenameOps
<1>3. IsCommand(q)
    BY <1>1, <1>2 DEF IsCommand, KeyOps
<1>4. MayChange(q) = {k}
    BY <1>1, <1>2, FirstKey
<1>5. IsLine(q, K)
    BY <1>3, <1>4 DEF IsLine
<1> QED  BY <1>5 DEF q

LEMMA DelLine ==
    ASSUME NEW K, NEW k \in Key, k \in K
    PROVE  IsLine(Del(k), K)
<1> DEFINE q == Del(k)
<1>1. q.op = "del" /\ q.key = k /\ q.n = 0 /\ q.args = <<k>>
    BY DEF Del, Command
<1> HIDE DEF q
<1>2. IsCommand(q)
    BY <1>1 DEF IsCommand, KeyOps, StringOps, ListOps, PushOps, ExpireOps, HashOps, SetOps,
                StoreOps, SortedSetOps, RenameOps
<1>3. ToSet(<<k>>) = {k}
    BY DEF ToSet
<1>4. MayChange(q) = {k}
    BY <1>1, <1>3 DEF MayChange, writeKeysOf, RenameOps
<1>5. IsLine(q, K)
    BY <1>2, <1>4 DEF IsLine
<1> QED  BY <1>5 DEF q

\* The line that puts an expiry back.
LEMMA TTLLine ==
    ASSUME NEW s, IsStore(s), NEW K, NEW k \in Key, k \in K
    PROVE  IsLine(toTTLCmd(s, k), K)
<1>1. s.ttl[k] \in Nat
    <2>1. s.ttl \in [Key -> Nat]
        BY DEF IsStore
    <2> QED  BY <2>1
<1>2. IsLine(Command("persist", k, 0, <<>>), K)
    BY OneKeyLine
<1>3. IsLine(Command("pexpireat", k, s.ttl[k], <<>>), K)
    BY <1>1, OneKeyLine DEF ExpireOps
<1> QED  BY <1>2, <1>3 DEF toTTLCmd, On, PExpireAt

\* The line that puts an entity back.
LEMMA EntityLine ==
    ASSUME NEW K, NEW k \in Key, k \in K, NEW e
    PROVE  IsLine(EntityToCmd(k, e), K)
<1>1. \A args : IsLine(Command("set", k, 0, args), K)
    BY OneKeyLine DEF StringOps
<1>2. \A args : IsLine(Command("hmset", k, 0, args), K)
    BY OneKeyLine DEF HashOps
<1> QED  BY <1>1, <1>2 DEF EntityToCmd, Set, hashToCmd

\* Logs of up to three lines.
LEMMA ShortLogs ==
    ASSUME NEW K
    PROVE  /\ IsLog(<<>>, K)
           /\ \A a : IsLine(a, K) => IsLog(<<a>>, K)
           /\ \A a, b : IsLine(a, K) /\ IsLine(b, K) => IsLog(<<a, b>>, K)
           /\ \A a, b, c : IsLine(a, K) /\ IsLine(b, K) /\ IsLine(c, K) => IsLog(<<a, b, c>>, K)
<1>1. IsLog(<<>>, K)
    BY DEF IsLog
<1>2. ASSUME NEW a, IsLine(a, K) PROVE IsLog(<<a>>, K)
    BY <1>2 DEF IsLog
<1>3. ASSUME NEW a, NEW b, IsLine(a, K), IsLine(b, K) PROVE IsLog(<<a, b>>, K)
    BY <1>3 DEF IsLog
<1>4. ASSUME NEW a, NEW b, NEW c, IsLine(a, K), IsLine(b, K), IsLine(c, K)
      PROVE  IsLog(<<a, b, c>>, K)
    BY <1>4 DEF IsLog
<1> QED  BY <1>1, <1>2, <1>3, <1>4

\* A log put together from the logs of the keys.
LEMMA FlattenLogs ==
    ASSUME NEW K, NEW S, NEW logs \in Seq(Seq(S)), \A i \in DOMAIN logs : IsLog(logs[i], K)
    PROVE  IsLog(FlattenSeq(logs), K)
<1> DEFINE flat == FlattenSeq(logs)
<1>1. flat \in Seq(S) /\ ToSet(flat) = UNION {ToSet(logs[i]) : i \in DOMAIN logs}
    BY FlattenSeqs
<1> HIDE DEF flat
<1>2. Len(flat) \in Nat /\ DOMAIN flat = 1..Len(flat)
    BY <1>1, LenProperties
<1>3. ASSUME NEW i \in 1..Len(flat) PROVE IsLine(flat[i], K)
    <2>1. flat[i] \in ToSet(flat)
        BY <1>2 DEF ToSet
    <2>2. PICK j \in DOMAIN logs : flat[i] \in ToSet(logs[j])
        BY <1>1, <2>1
    <2>3. PICK m \in DOMAIN logs[j] : flat[i] = logs[j][m]
        BY <2>2 DEF ToSet
    <2>4. logs[j] \in Seq(S)
        <3>1. DOMAIN logs = 1..Len(logs)
            BY LenProperties
        <3> QED  BY <3>1, ElementOfSeq
    <2>5. m \in 1..Len(logs[j])
        BY <2>4, LenProperties
    <2>6. IsLog(logs[j], K)
        OBVIOUS
    <2> QED  BY <2>3, <2>5, <2>6 DEF IsLog
<1>4. IsLog(flat, K)
    BY <1>2, <1>3 DEF IsLog
<1> QED  BY <1>4 DEF flat

\* The log that puts a key back, and the logs of several keys.
LogOfKey(s, k) == IF ~Exists(s, k) THEN <<Del(k)>>
                  ELSE <<Del(k), EntityToCmd(k, s.data[k]), toTTLCmd(s, k)>>
LogsOfKeys(s, keys) == [i \in DOMAIN keys |-> LogOfKey(s, keys[i])]

LEMMA KeyLogs ==
    ASSUME NEW s, IsStore(s), NEW K, NEW keys \in Seq(Key), ToSet(keys) \subseteq K
    PROVE  /\ \E S : LogsOfKeys(s, keys) \in Seq(Seq(S))
           /\ IsLog(FlattenSeq(LogsOfKeys(s, keys)), K)
<1> DEFINE logs == LogsOfKeys(s, keys)
           S == {Del(k) : k \in Key} \cup {EntityToCmd(k, s.data[k]) : k \in Key}
                \cup {toTTLCmd(s, k) : k \in Key}
<1>1. ASSUME NEW k \in Key PROVE LogOfKey(s, k) \in Seq(S)
    <2>1. Del(k) \in S /\ EntityToCmd(k, s.data[k]) \in S /\ toTTLCmd(s, k) \in S
        OBVIOUS
    <2> HIDE DEF S
    <2> QED  BY <2>1 DEF LogOfKey
<1>2. ASSUME NEW k \in Key, k \in K PROVE IsLog(LogOfKey(s, k), K)
    BY <1>2, DelLine, EntityLine, TTLLine, ShortLogs DEF LogOfKey
<1> HIDE DEF S
<1>3. Len(keys) \in Nat /\ DOMAIN keys = 1..Len(keys) /\ \A i \in DOMAIN keys : keys[i] \in Key
    BY LenProperties, ElementOfSeq
<1>4. logs \in Seq(Seq(S)) /\ DOMAIN logs = DOMAIN keys
    <2>1. \A i \in 1..Len(keys) : LogOfKey(s, keys[i]) \in Seq(S)
        BY <1>1, <1>3
    <2> QED  BY <1>3, <2>1 DEF LogsOfKeys
<1>5. ASSUME NEW i \in DOMAIN logs PROVE IsLog(logs[i], K)
    <2>1. keys[i] \in Key /\ keys[i] \in K
        BY <1>3, <1>4 DEF ToSet
    <2>2. logs[i] = LogOfKey(s, keys[i])
        BY <1>4 DEF LogsOfKeys
    <2> QED  BY <1>2, <2>1, <2>2
<1> HIDE DEF logs
<1>6. IsLog(FlattenSeq(logs), K)
    BY <1>4, <1>5, FlattenLogs
<1> QED  BY <1>4, <1>6 DEF logs

\* rollbackGivenKeys drops every key and puts it back.
LEMMA RollbackLog ==
    ASSUME NEW s, IsStore(s), NEW K, NEW keys \in Seq(Key), ToSet(keys) \subseteq K,
           rollbackGivenKeys(s, keys) # Panic
    PROVE  IsLog(rollbackGivenKeys(s, keys), K)
<1>1. rollbackGivenKeys(s, keys) = FlattenSeq(LogsOfKeys(s, keys))
    BY DEF rollbackGivenKeys, LogsOfKeys, LogOfKey
<1> QED  BY <1>1, KeyLogs

LEMMA RollbackFirst ==
    ASSUME NEW s, IsStore(s), NEW K, NEW c, c.key \in Key, c.key \in K,
           rollbackFirstKey(s, c) # Panic
    PROVE  IsLog(rollbackFirstKey(s, c), K)
<1>1. <<c.key>> \in Seq(Key) /\ ToSet(<<c.key>>) \subseteq K
    BY DEF ToSet
<1> QED  BY <1>1, RollbackLog DEF rollbackFirstKey

\* The undo logs of list commands.
LEMMA UndoListLogs ==
    ASSUME NEW s, IsStore(s), NEW c, IsCommand(c), c.args \in Seq(ToSet(c.args)),
           c.op \in ListOps, GetUndoLogs(s, c) # Panic
    PROVE  IsLog(GetUndoLogs(s, c), MayChange(c))
<1> DEFINE K == MayChange(c)
<1>1. c.key \in Key /\ c.n \in Int
    BY DEF IsCommand
<1>2. c.key \in K /\ (c.op = "rpoplpush" => c.args[1] \in Key /\ c.args[1] \in K)
    <2>1. CASE c.op # "rpoplpush"
        BY <2>1, FirstKey DEF ListOps, PushOps, RenameOps
    <2>2. CASE c.op = "rpoplpush"
        <3>1. c.args \in Seq(Key) /\ c.args # <<>>
            BY <2>2 DEF IsCommand
        <3>2. writeKeysOf(c) = <<c.key>> \o c.args
            BY <2>2 DEF writeKeysOf, RenameOps
        <3>3. <<c.key>> \in Seq(Key) /\ ToSet(<<c.key>>) = {c.key}
            BY <1>1 DEF ToSet
        <3>4. ToSet(writeKeysOf(c)) = {c.key} \cup ToSet(c.args)
            <4> DEFINE h == <<c.key>>
            <4> HIDE DEF h
            <4>1. h \in Seq(Key)
                BY <3>3 DEF h
            <4>2. ToSet(h \o c.args) = ToSet(h) \cup ToSet(c.args)
                BY <3>1, <4>1, ToSetConcat
            <4> QED  BY <3>2, <3>3, <4>2 DEF h
        <3>5. c.args[1] \in Key /\ 1 \in DOMAIN c.args
            <4>1. Len(c.args) \in Nat \ {0} /\ DOMAIN c.args = 1..Len(c.args)
                BY <3>1, EmptySeq, LenProperties
            <4>2. 1 \in 1..Len(c.args)
                BY <4>1
            <4> QED  BY <3>1, <4>1, <4>2, ElementOfSeq
        <3>6. c.args[1] \in ToSet(c.args)
            BY <3>5 DEF ToSet
        <3> QED  BY <3>4, <3>5, <3>6 DEF MayChange
    <2> QED  BY <2>1, <2>2
<1> HIDE DEF K
<1>3. ASSUME NEW k \in Key, k \in K, NEW n \in Int, NEW args,
             NEW op \in {"lpush", "rpush", "lset", "lpop", "rpop"}
      PROVE  IsLine(Command(op, k, n, args), K)
    <2>1. op \in ListOps \ {"rpoplpush"} /\ op \notin ExpireOps
        BY DEF ListOps, PushOps, ExpireOps
    <2> QED  BY <1>3, <2>1, OneKeyLine
<1>4. CASE c.op \in PushOps
    <2>1. Len(c.args) \in Nat /\ DOMAIN c.args = 1..Len(c.args)
        BY LenProperties
    <2>2. ASSUME NEW q, IsLine(q, K) PROVE IsLog([i \in 1..Len(c.args) |-> q], K)
        <3>1. Len([i \in 1..Len(c.args) |-> q]) = Len(c.args)
            BY <2>1
        <3> QED  BY <2>1, <2>2, <3>1 DEF IsLog
    <2>3. IsLine(On("lpop", c.key), K) /\ IsLine(On("rpop", c.key), K)
        BY <1>1, <1>2, <1>3 DEF On
    <2>4. GetUndoLogs(s, c) \in {undoLPush(c), undoRPush(c)}
        BY <1>4 DEF GetUndoLogs, PushOps, RenameOps, ExpireOps
    <2>5. IsLog(undoLPush(c), K) /\ IsLog(undoRPush(c), K)
        BY <2>1, <2>2, <2>3 DEF undoLPush, undoRPush
    <2> QED  BY <2>4, <2>5 DEF K
<1>5. CASE c.op = "lset"
    <2>1. GetUndoLogs(s, c) = undoLSet(s, c)
        BY <1>5 DEF GetUndoLogs, RenameOps, ExpireOps
    <2>2. undoLSet(s, c) \in {<<>>, Panic} \/ \E v : undoLSet(s, c) = <<Command("lset", c.key, c.n, <<v>>)>>
        BY DEF undoLSet
    <2>3. \A v : IsLine(Command("lset", c.key, c.n, <<v>>), K)
        BY <1>1, <1>2, <1>3
    <2> QED  BY <2>1, <2>2, <2>3, ShortLogs DEF K
<1>6. CASE c.op = "lpop"
    <2>1. GetUndoLogs(s, c) = undoLPop(s, c)
        BY <1>6 DEF GetUndoLogs, RenameOps, ExpireOps
    <2>2. undoLPop(s, c) \in {<<>>, Panic} \/ \E v : undoLPop(s, c) = <<Command("lpush", c.key, 0, <<v>>)>>
        BY DEF undoLPop
    <2>3. \A v : IsLine(Command("lpush", c.key, 0, <<v>>), K)
        BY <1>1, <1>2, <1>3
    <2> QED  BY <2>1, <2>2, <2>3, ShortLogs DEF K
<1>7. CASE c.op = "rpop"
    <2>1. GetUndoLogs(s, c) = undoRPop(s, c)
        BY <1>7 DEF GetUndoLogs, RenameOps, ExpireOps
    <2>2. undoRPop(s, c) \in {<<>>, Panic} \/ \E v : undoRPop(s, c) = <<Command("rpush", c.key, 0, <<v>>)>>
        BY DEF undoRPop
    <2>3. \A v : IsLine(Command("rpush", c.key, 0, <<v>>), K)
        BY <1>1, <1>2, <1>3
    <2> QED  BY <2>1, <2>2, <2>3, ShortLogs DEF K
<1>8. CASE c.op = "lrem"
    <2>1. GetUndoLogs(s, c) = rollbackFirstKey(s, c)
        BY <1>8 DEF GetUndoLogs, RenameOps, ExpireOps
    <2> QED  BY <1>1, <1>2, <2>1, RollbackFirst DEF K
<1>9. CASE c.op = "rpoplpush"
    <2>1. GetUndoLogs(s, c) = undoRPopLPush(s, c)
        BY <1>9 DEF GetUndoLogs, RenameOps, ExpireOps
    <2>2. undoRPop(s, c) \in {<<>>, Panic} \/ \E v : undoRPop(s, c) = <<Command("rpush", c.key, 0, <<v>>)>>
        BY DEF undoRPop
    <2>3. CASE undoRPop(s, c) \in {<<>>, Panic}
        BY <2>1, <2>3, ShortLogs DEF undoRPopLPush, K
    <2>4. CASE undoRPop(s, c) \notin {<<>>, Panic}
        <3>1. PICK v : undoRPop(s, c) = <<Command("rpush", c.key, 0, <<v>>)>>
            BY <2>2, <2>4
        <3> DEFINE push == Command("rpush", c.key, 0, <<v>>)
                   pop == On("lpop", c.args[1])
                   log == <<push>> \o <<pop>>
        <3>2. GetUndoLogs(s, c) = log
            BY <2>1, <2>4, <3>1 DEF undoRPopLPush
        <3>3. IsLine(push, K) /\ IsLine(pop, K)
            BY <1>1, <1>2, <1>3, <1>9 DEF On
        <3> HIDE DEF push, pop
        <3>4. <<push>> \in Seq({push, pop}) /\ <<pop>> \in Seq({push, pop})
            OBVIOUS
        <3>5. log \in Seq({push, pop})
            BY <3>4, ConcatProperties
        <3> HIDE DEF log
        <3>6. Len(log) \in Nat /\ \A i \in 1..Len(log) : log[i] \in {push, pop}
            BY <3>5, LenProperties, ElementOfSeq
        <3> QED  BY <3>2, <3>3, <3>6 DEF IsLog, K
    <2> QED  BY <2>3, <2>4
<1> QED  BY <1>4, <1>5, <1>6, <1>7, <1>8, <1>9 DEF ListOps

\* The undo logs of commands on hashes.
LEMMA UndoHashLogs ==
    ASSUME NEW s, IsStore(s), NEW c, IsCommand(c),
           IF c.op = "hmset" THEN IsFiniteSet(DOMAIN c.args) ELSE c.args \in Seq(ToSet(c.args)),
           c.op \in HashOps
    PROVE  IsLog(GetUndoLogs(s, c), MayChange(c))
<1> DEFINE K == MayChange(c)
<1>1. c.key \in Key /\ c.key \in K
    BY FirstKey DEF HashOps, RenameOps, IsCommand
<1> HIDE DEF K
<1>2. \A args : IsLine(Command("hset", c.key, 0, args), K) /\ IsLine(Command("hdel", c.key, 0, args), K)
    BY <1>1, OneKeyLine DEF HashOps
<1>3. ASSUME NEW fields, NEW n \in Nat, DOMAIN fields = 1..n
      PROVE  IsLog(rollbackHashFields(s, c.key, fields), K)
    <2> DEFINE line(i) == IF fields[i] \in DOMAIN dictOf(s, c.key)
                            THEN HSetCmd(c.key, fields[i], AsBytes(dictOf(s, c.key)[fields[i]]))
                            ELSE Command("hdel", c.key, 0, <<fields[i]>>)
               log == [i \in 1..n |-> line(i)]
    <2>1. rollbackHashFields(s, c.key, fields) \in {<<>>, <<Del(c.key)>>, log}
        BY <1>3 DEF rollbackHashFields
    <2>2. \A i : IsLine(line(i), K)
        BY <1>2 DEF HSetCmd
    <2> HIDE DEF line
    <2>3. IsLog(log, K)
        <3>1. Len(log) = n /\ \A i \in 1..n : log[i] = line(i)
            OBVIOUS
        <3> HIDE DEF log
        <3> QED  BY <2>2, <3>1 DEF IsLog
    <2> HIDE DEF log
    <2> QED  BY <1>1, <2>1, <2>3, ShortLogs, DelLine
<1>4. CASE c.op = "hmset"
    <2> DEFINE F == DOMAIN c.args
               fields == SetToSeq(F)
               n == Cardinality(F)
    <2>1. n \in Nat /\ ExistsBijection(1..n, F)
        BY <1>4, FS_CardinalityType
    <2>2. \E f \in [1..n -> F] : IsInjective(f)
        <3>1. PICK f : f \in Bijection(1..n, F)
            BY <2>1 DEF ExistsBijection
        <3> QED  BY <3>1 DEF Bijection, Injection, IsInjective, IsInjective
    <2>3. fields \in [1..n -> F]
        <3>1. Cardinality(F) = n
            BY DEF Cardinality, Cardinality
        <3>2. fields = CHOOSE f \in [1..n -> F] : IsInjective(f)
            BY <3>1 DEF SetToSeq
        <3> HIDE DEF F, n
        <3> QED  BY <2>2, <3>2
    <2>4. GetUndoLogs(s, c) = rollbackHashFields(s, c.key, fields)
        BY <1>4 DEF GetUndoLogs, undoHMSet, RenameOps, ExpireOps
    <2> HIDE DEF fields, n, F
    <2> QED  BY <1>3, <2>1, <2>3, <2>4 DEF K
<1>5. CASE c.op = "hdel"
    <2>1. Len(c.args) \in Nat /\ DOMAIN c.args = 1..Len(c.args)
        BY <1>5, LenProperties
    <2>2. GetUndoLogs(s, c) = rollbackHashFields(s, c.key, c.args)
        BY <1>5 DEF GetUndoLogs, undoHDel, RenameOps, ExpireOps
    <2> QED  BY <1>3, <2>1, <2>2 DEF K
<1>6. CASE c.op \notin {"hmset", "hdel"}
    <2>1. GetUndoLogs(s, c) = rollbackHashFields(s, c.key, <<c.args[1]>>)
        BY <1>6 DEF GetUndoLogs, undoHSet, undoHIncr, RenameOps, ExpireOps, HashOps
    <2>2. DOMAIN <<c.args[1]>> = 1..1
        OBVIOUS
    <2> QED  BY <1>3, <2>1, <2>2 DEF K
<1> QED  BY <1>4, <1>5, <1>6

\* The undo logs of commands on sets.
LEMMA UndoSetLogs ==
    ASSUME NEW s, IsStore(s), NEW c, IsCommand(c), c.args \in Seq(ToSet(c.args)),
           c.op \in SetOps, GetUndoLogs(s, c) # Panic
    PROVE  IsLog(GetUndoLogs(s, c), MayChange(c))
<1> DEFINE K == MayChange(c)
<1>1. c.key \in Key /\ c.key \in K
    BY FirstKey DEF SetOps, StoreOps, RenameOps, IsCommand
<1> HIDE DEF K
<1>2. \A args : IsLine(Command("sadd", c.key, 0, args), K) /\ IsLine(Command("srem", c.key, 0, args), K)
    BY <1>1, OneKeyLine DEF SetOps, StoreOps
<1>3. CASE c.op \in StoreOps
    <2>1. GetUndoLogs(s, c) = rollbackFirstKey(s, c)
        BY <1>3 DEF GetUndoLogs, RenameOps, ExpireOps, StoreOps
    <2> QED  BY <1>1, <2>1, RollbackFirst DEF K
<1>4. CASE c.op \in SetOps \ StoreOps
    <2> DEFINE members == IF c.op = "spop" THEN <<c.n>> ELSE c.args
    <2>1. PICK n \in Nat : DOMAIN members = 1..n
        <3>1. DOMAIN c.args = 1..Len(c.args) /\ Len(c.args) \in Nat
            BY LenProperties
        <3>2. DOMAIN <<c.n>> = 1..1
            OBVIOUS
        <3> QED  BY <3>1, <3>2
    <2>2. GetUndoLogs(s, c) = rollbackSetMembers(s, c.key, members)
        BY <1>4 DEF GetUndoLogs, undoSetChange, SetOps, StoreOps, RenameOps, ExpireOps
    <2> HIDE DEF members
    <2> DEFINE line(i) == Command(IF members[i] \in setOf(s, c.key) THEN "sadd" ELSE "srem",
                                  c.key, 0, <<members[i]>>)
               log == [i \in 1..n |-> line(i)]
    <2>3. rollbackSetMembers(s, c.key, members) \in {<<>>, <<Del(c.key)>>, log}
        BY <2>1 DEF rollbackSetMembers
    <2>4. \A i : IsLine(line(i), K)
        BY <1>2
    <2> HIDE DEF line
    <2>5. IsLog(log, K)
        <3>1. Len(log) = n /\ \A i \in 1..n : log[i] = line(i)
            OBVIOUS
        <3> HIDE DEF log
        <3> QED  BY <2>4, <3>1 DEF IsLog
    <2> HIDE DEF log
    <2> QED  BY <1>1, <2>2, <2>3, <2>5, ShortLogs, DelLine DEF K
<1> QED  BY <1>3, <1>4

\* The undo logs of commands on sorted sets.
LEMMA UndoSortedSetLogs ==
    ASSUME NEW s, IsStore(s), NEW c, IsCommand(c), c.args \in Seq(ToSet(c.args)),
           c.op \in SortedSetOps, GetUndoLogs(s, c) # Panic
    PROVE  IsLog(GetUndoLogs(s, c), MayChange(c))
<1> DEFINE K == MayChange(c)
<1>1. c.key \in Key /\ c.key \in K
    BY FirstKey DEF SortedSetOps, RenameOps, IsCommand
<1> HIDE DEF K
<1>2. \A args : IsLine(Command("zadd", c.key, 0, args), K)
    BY <1>1, OneKeyLine DEF SortedSetOps
<1>3. ASSUME NEW fields, NEW n \in Nat, DOMAIN fields = 1..n,
             GetUndoLogs(s, c) = rollbackZSetFields(s, c.key, fields)
      PROVE  IsLog(GetUndoLogs(s, c), K)
    <2> DEFINE line(i) == Command("zadd", c.key, 0, <<zsetOf(s, c.key)[fields[i]], fields[i]>>)
               log == [i \in 1..n |-> line(i)]
    <2>1. rollbackZSetFields(s, c.key, fields) \in {<<>>, <<Del(c.key)>>, Panic, log}
        BY <1>3 DEF rollbackZSetFields
    <2>2. \A i : IsLine(line(i), K)
        BY <1>2
    <2> HIDE DEF line
    <2>3. IsLog(log, K)
        <3>1. Len(log) = n /\ \A i \in 1..n : log[i] = line(i)
            OBVIOUS
        <3> HIDE DEF log
        <3> QED  BY <2>2, <3>1 DEF IsLog
    <2> HIDE DEF log
    <2> QED  BY <1>1, <1>3, <2>1, <2>3, ShortLogs, DelLine
<1>4. Len(c.args) \in Nat /\ DOMAIN c.args = 1..Len(c.args) /\ Len(c.args) \div 2 \in Nat
    <2>1. Len(c.args) \in Nat /\ DOMAIN c.args = 1..Len(c.args)
        BY LenProperties
    <2>2. \A m \in Nat : m \div 2 \in Nat
        OBVIOUS
    <2> QED  BY <2>1, <2>2
<1>5. CASE c.op = "zadd"
    <2> DEFINE n == Len(c.args) \div 2
               fields == [i \in 1..n |-> c.args[2*i]]
    <2>1. GetUndoLogs(s, c) = rollbackZSetFields(s, c.key, fields)
        BY <1>5 DEF GetUndoLogs, undoZAdd, RenameOps, ExpireOps
    <2>2. DOMAIN fields = 1..n /\ n \in Nat
        BY <1>4
    <2> HIDE DEF fields, n
    <2> QED  BY <1>3, <2>1, <2>2 DEF K
<1>6. CASE c.op = "zrem"
    <2>1. GetUndoLogs(s, c) = rollbackZSetFields(s, c.key, c.args)
        BY <1>6 DEF GetUndoLogs, undoZRem, RenameOps, ExpireOps
    <2> QED  BY <1>3, <1>4, <2>1 DEF K
<1>7. CASE c.op = "zincrby"
    <2>1. GetUndoLogs(s, c) = rollbackZSetFields(s, c.key, <<c.args[1]>>)
        BY <1>7 DEF GetUndoLogs, undoZIncr, RenameOps, ExpireOps
    <2>2. DOMAIN <<c.args[1]>> = 1..1
        OBVIOUS
    <2> QED  BY <1>3, <2>1, <2>2 DEF K
<1>8. CASE c.op \in SortedSetOps \ {"zadd", "zrem", "zincrby"}
    <2>1. GetUndoLogs(s, c) = rollbackFirstKey(s, c)
        BY <1>8 DEF GetUndoLogs, RenameOps, ExpireOps, SortedSetOps
    <2> QED  BY <1>1, <2>1, RollbackFirst DEF K
<1> QED  BY <1>5, <1>6, <1>7, <1>8

\* The undo logs of commands on strings.
LEMMA UndoStringLogs ==
    ASSUME NEW s, IsStore(s), NEW c, IsCommand(c), c.op \in StringOps, GetUndoLogs(s, c) # Panic
    PROVE  IsLog(GetUndoLogs(s, c), MayChange(c))
<1> DEFINE K == MayChange(c)
<1>1. c.key \in Key /\ (c.op \notin {"get", "mset", "msetnx"} => c.key \in K)
    BY FirstKey DEF StringOps, RenameOps, IsCommand
<1>2. CASE c.op = "get"
    <2>1. GetUndoLogs(s, c) = <<>>
        BY <1>2 DEF GetUndoLogs, RenameOps, ExpireOps
    <2> QED  BY <2>1, ShortLogs
<1>3. CASE c.op \in {"mset", "msetnx"}
    <2>1. K = ToSet(prepareMSet(c))
        BY <1>3 DEF MayChange, writeKeysOf, RenameOps
    <2>3. prepareMSet(c) \in Seq(Key)
        BY <1>3, MSetKeys
    <2>4. GetUndoLogs(s, c) = rollbackGivenKeys(s, prepareMSet(c))
        BY <1>3 DEF GetUndoLogs, undoMSet, RenameOps, ExpireOps
    <2> QED  BY <2>1, <2>3, <2>4, RollbackLog
<1> HIDE DEF K
<1>4. CASE c.op = "setrange"
    <2>1. GetUndoLogs(s, c) = undoSetRange(s, c)
        BY <1>4 DEF GetUndoLogs, RenameOps, ExpireOps
    <2>2. \/ undoSetRange(s, c) = rollbackFirstKey(s, c)
          \/ \E v : undoSetRange(s, c) = <<Del(c.key), Set(c.key, v), toTTLCmd(s, c.key)>>
        BY DEF undoSetRange
    <2>3. IsLine(Del(c.key), K) /\ IsLine(toTTLCmd(s, c.key), K)
        BY <1>1, <1>4, DelLine, TTLLine
    <2>4. \A v : IsLine(Set(c.key, v), K)
        BY <1>1, <1>4, OneKeyLine DEF Set, StringOps
    <2>5. \A v : IsLog(<<Del(c.key), Set(c.key, v), toTTLCmd(s, c.key)>>, K)
        BY <2>3, <2>4, ShortLogs
    <2>6. c.key \in K
        BY <1>1, <1>4
    <2> QED  BY <1>1, <2>1, <2>2, <2>5, <2>6, RollbackFirst DEF K
<1>5. CASE c.op \notin {"get", "mset", "msetnx", "setrange"}
    <2>1. GetUndoLogs(s, c) = rollbackFirstKey(s, c)
        BY <1>5 DEF GetUndoLogs, RenameOps, ExpireOps, StringOps
    <2> QED  BY <1>1, <1>5, <2>1, RollbackFirst DEF K
<1> QED  BY <1>2, <1>3, <1>4, <1>5

\* The undo logs of commands on keys.
LEMMA UndoKeyLogs ==
    ASSUME NEW s, IsStore(s), NEW c, IsCommand(c), c.op \in KeyOps, GetUndoLogs(s, c) # Panic
    PROVE  IsLog(GetUndoLogs(s, c), MayChange(c))
<1> DEFINE K == MayChange(c)
<1>1. c.key \in Key
    BY DEF IsCommand
<1>2. CASE c.op = "del"
    <2>1. K = ToSet(c.args) /\ c.args \in Seq(Key)
        BY <1>2 DEF MayChange, writeKeysOf, RenameOps, IsCommand
    <2>2. GetUndoLogs(s, c) = rollbackGivenKeys(s, c.args)
        BY <1>2 DEF GetUndoLogs, undoDel, RenameOps, ExpireOps
    <2> QED  BY <2>1, <2>2, RollbackLog
<1>3. CASE c.op \in RenameOps
    <2>1. c.args \in Seq(Key) /\ c.args # <<>>
        BY <1>3 DEF IsCommand
    <2>2. K = ToSet(c.args) \cup {c.key}
        BY <1>3 DEF MayChange, writeKeysOf, RenameOps
    <2>3. Len(c.args) \in Nat \ {0} /\ DOMAIN c.args = 1..Len(c.args)
        BY <2>1, EmptySeq, LenProperties
    <2>4. 1 \in DOMAIN c.args /\ 1 \in 1..Len(c.args)
        BY <2>3
    <2>5. c.args[1] \in Key /\ c.args[1] \in ToSet(c.args)
        BY <2>1, <2>4, ElementOfSeq DEF ToSet
    <2> DEFINE keys == <<c.key, c.args[1]>>
    <2>6. keys \in Seq(Key) /\ ToSet(keys) \subseteq K
        BY <1>1, <2>2, <2>5 DEF ToSet
    <2>7. GetUndoLogs(s, c) = rollbackGivenKeys(s, keys)
        BY <1>3 DEF GetUndoLogs, undoRename, RenameOps, ExpireOps
    <2> HIDE DEF keys
    <2> QED  BY <2>6, <2>7, RollbackLog
<1>4. CASE c.op \in ExpireOps \cup {"persist"}
    <2>1. K = {c.key}
        BY <1>4, FirstKey DEF ExpireOps, RenameOps
    <2>2. GetUndoLogs(s, c) = <<toTTLCmd(s, c.key)>>
        BY <1>4 DEF GetUndoLogs, undoExpire, ExpireOps, RenameOps
    <2>3. IsLine(toTTLCmd(s, c.key), K)
        BY <1>1, <2>1, TTLLine
    <2> QED  BY <2>2, <2>3, ShortLogs
<1> QED  BY <1>2, <1>3, <1>4 DEF KeyOps

\* The arguments of a command line are a sequence; those of HMSET are its fields
\* and values.
LineArgs(c) == IF c.op = "hmset" THEN IsFiniteSet(DOMAIN c.args)
               ELSE c.args \in Seq(ToSet(c.args))

\* The undo log of any command, put together without a panic, changes no key
\* that the command may not change itself.
LEMMA UndoLogs ==
    ASSUME NEW s, IsStore(s), NEW c, IsCommand(c), LineArgs(c), GetUndoLogs(s, c) # Panic
    PROVE  IsLog(GetUndoLogs(s, c), MayChange(c))
<1>1. c.op \in StringOps \cup ListOps \cup KeyOps \cup HashOps \cup SetOps \cup SortedSetOps
    BY DEF IsCommand
<1>2. c.op \in HashOps \/ c.args \in Seq(ToSet(c.args))
    BY DEF LineArgs, HashOps
<1>3. c.op \in ListOps \cup SetOps \cup SortedSetOps => c.args \in Seq(ToSet(c.args))
    BY DEF LineArgs, ListOps, PushOps, SetOps, StoreOps, SortedSetOps
<1>4. CASE c.op \in HashOps
    BY <1>4, UndoHashLogs DEF LineArgs
<1> QED  BY <1>1, <1>3, <1>4, UndoStringLogs, UndoListLogs, UndoKeyLogs, UndoSetLogs, UndoSortedSetLogs

\* g is the function that RunAll reads its result from, as far as m.
Runs(s, cmds, m, g) ==
    g = [i \in 0..m |-> IF i = 0 THEN s ELSE execWithLock(g[i-1], cmds[i]).store]

\* There is such a function.
LEMMA RunSteps ==
    ASSUME NEW s, NEW cmds, NEW n \in Nat
    PROVE  \E g : Runs(s, cmds, n, g)
<1> DEFINE T == {m \in Nat : \E g : Runs(s, cmds, m, g)}
<1>1. 0 \in T
    <2>1. Runs(s, cmds, 0, [i \in 0..0 |-> s])
        BY SMT DEF Runs
    <2> QED  BY <2>1
<1>2. ASSUME NEW m \in T PROVE m + 1 \in T
    <2>1. PICK g : Runs(s, cmds, m, g)
        OBVIOUS
    <2>2. m \in Nat
        OBVIOUS
    <2> DEFINE h == [i \in 0..m+1 |-> IF i \in 0..m THEN g[i] ELSE execWithLock(g[m], cmds[m+1]).store]
    <2>3. \A i \in 0..m : g[i] = IF i = 0 THEN s ELSE execWithLock(g[i-1], cmds[i]).store
        BY <2>1, <2>2 DEF Runs
    <2>4. ASSUME NEW i \in 0..m+1
          PROVE  h[i] = IF i = 0 THEN s ELSE execWithLock(h[i-1], cmds[i]).store
        <3>1. CASE i = 0
            <4>1. i \in 0..m /\ i \in 0..m+1
                BY <2>2, <3>1
            <4>2. h[i] = g[i]
                BY <4>1
            <4> QED  BY <2>3, <3>1, <4>1, <4>2
        <3>2. CASE i \in 1..m
            <4>1. i \in 0..m /\ i - 1 \in 0..m /\ i - 1 \in 0..m+1 /\ i # 0
                BY <2>2, <3>2
            <4>2. h[i] = g[i] /\ h[i-1] = g[i-1]
                BY <4>1
            <4> QED  BY <2>3, <4>1, <4>2
        <3>3. CASE i = m + 1
            <4>1. i \notin 0..m /\ i - 1 = m /\ m \in 0..m /\ m \in 0..m+1 /\ i # 0
                BY <2>2, <3>3
            <4>2. h[i] = execWithLock(g[m], cmds[m+1]).store /\ h[i-1] = g[m]
                BY <3>3, <4>1
            <4> QED  BY <3>3, <4>1, <4>2
        <3> QED  BY <2>2, <3>1, <3>2, <3>3
    <2>5. Runs(s, cmds, m + 1, h)
        BY <2>4 DEF Runs
    <2> HIDE DEF h
    <2> QED  BY <2>2, <2>5
<1>3. T = Nat
    <2>1. T \in SUBSET Nat
        OBVIOUS
    <2> HIDE DEF T
    <2> QED  BY <1>1, <1>2, <2>1, NatSet
<1> QED  BY <1>3

\* A log run on a store leaves a store, and changes no key but those of K.
LEMMA RunAllWithin ==
    ASSUME NEW s, IsStore(s), NEW K, NEW log, IsLog(log, K)
    PROVE  Within(s, RunAll(s, log), K)
<1> DEFINE n == Len(log)
           g == CHOOSE f : Runs(s, log, n, f)
<1>1. n \in Nat /\ \A i \in 1..n : IsCommand(log[i]) /\ MayChange(log[i]) \subseteq K
    BY DEF IsLog, IsLine
<1>2. RunAll(s, log) = g[n]
    BY DEF RunAll, Runs
<1> HIDE DEF n
<1>3. \E f : Runs(s, log, n, f)
    BY <1>1, RunSteps
<1>4. Runs(s, log, n, g)
    BY <1>3
<1> HIDE DEF g
<1>5. \A i \in 0..n : g[i] = IF i = 0 THEN s ELSE execWithLock(g[i-1], log[i]).store
    BY <1>1, <1>4 DEF Runs
<1> DEFINE T == {i \in Nat : i \in 0..n => Within(s, g[i], K)}
<1>6. 0 \in T
    <2>1. 0 \in 0..n
        BY <1>1
    <2>2. g[0] = s
        BY <1>5, <2>1
    <2> QED  BY <2>2, WithinRefl
<1>7. ASSUME NEW i \in T PROVE i + 1 \in T
    <2>1. i \in Nat
        OBVIOUS
    <2>2. SUFFICES ASSUME i + 1 \in 0..n PROVE Within(s, g[i+1], K)
        BY <2>1
    <2>3. i \in 0..n /\ i + 1 \in 1..n /\ i + 1 # 0 /\ (i + 1) - 1 = i
        BY <1>1, <2>1, <2>2
    <2>4. Within(s, g[i], K)
        BY <2>3
    <2>5. g[i+1] = execWithLock(g[i], log[i+1]).store
        BY <1>5, <2>2, <2>3
    <2>6. IsStore(g[i]) /\ IsCommand(log[i+1]) /\ MayChange(log[i+1]) \subseteq K
        BY <1>1, <2>3, <2>4 DEF Within
    <2>7. Within(g[i], g[i+1], MayChange(log[i+1]))
        BY <2>5, <2>6, EveryCommand DEF Ended
    <2>8. Within(g[i], g[i+1], K)
        BY <2>6, <2>7 DEF Within
    <2> QED  BY <2>4, <2>8, WithinTrans
<1>8. T = Nat
    <2>1. T \in SUBSET Nat
        OBVIOUS
    <2> HIDE DEF T
    <2> QED  BY <1>6, <1>7, <2>1, NatSet
<1>9. n \in T /\ n \in 0..n
    <2>1. n \in 0..n
        BY <1>1
    <2> HIDE DEF T
    <2> QED  BY <1>1, <1>8, <2>1
<1> QED  BY <1>2, <1>9

\* g lists the stores on the way to that of RunAll.
Passes(s, cmds, n, g) ==
    /\ RunAll(s, cmds) = g[n]
    /\ \A i \in 0..n : g[i] = IF i = 0 THEN s ELSE execWithLock(g[i-1], cmds[i]).store

LEMMA RunPasses ==
    ASSUME NEW s, NEW cmds, NEW n \in Nat, Len(cmds) = n
    PROVE  \E g : Passes(s, cmds, n, g)
<1> DEFINE g == CHOOSE f : Runs(s, cmds, n, f)
<1>1. RunAll(s, cmds) = g[n]
    BY DEF RunAll, Runs
<1>2. Runs(s, cmds, n, g)
    BY RunSteps
<1> HIDE DEF g
<1>3. \A i \in 0..n : g[i] = IF i = 0 THEN s ELSE execWithLock(g[i-1], cmds[i]).store
    BY <1>2 DEF Runs
<1>4. Passes(s, cmds, n, g)
    BY <1>1, <1>3 DEF Passes
<1> QED  BY <1>4

LEMMA RunLines ==
    ASSUME NEW s
    PROVE  /\ RunAll(s, <<>>) = s
           /\ \A a : RunAll(s, <<a>>) = execWithLock(s, a).store
           /\ \A a, b : RunAll(s, <<a, b>>) = execWithLock(execWithLock(s, a).store, b).store
<1>1. RunAll(s, <<>>) = s
    <2>1. PICK g : Passes(s, <<>>, 0, g)
        BY RunPasses
    <2>2. 0 \in 0..0
        OBVIOUS
    <2> QED  BY <2>1, <2>2 DEF Passes
<1>2. ASSUME NEW a
      PROVE  RunAll(s, <<a>>) = execWithLock(s, a).store
    <2> DEFINE cmds == <<a>>
    <2>1. 0 \in 0..1 /\ 1 \in 0..1 /\ cmds[1] = a /\ Len(cmds) = 1
        OBVIOUS
    <2> HIDE DEF cmds
    <2>2. PICK g : Passes(s, cmds, 1, g)
        BY <2>1, RunPasses
    <2>3. g[0] = s /\ g[1] = execWithLock(g[0], a).store /\ RunAll(s, cmds) = g[1]
        BY <2>1, <2>2 DEF Passes
    <2> QED  BY <2>3 DEF cmds
<1>3. ASSUME NEW a, NEW b
      PROVE  RunAll(s, <<a, b>>) = execWithLock(execWithLock(s, a).store, b).store
    <2> DEFINE cmds == <<a, b>>
    <2>1. 0 \in 0..2 /\ 1 \in 0..2 /\ 2 \in 0..2 /\ cmds[1] = a /\ cmds[2] = b /\ Len(cmds) = 2
        OBVIOUS
    <2> HIDE DEF cmds
    <2>2. PICK g : Passes(s, cmds, 2, g)
        BY <2>1, RunPasses
    <2>3. /\ g[0] = s /\ g[1] = execWithLock(g[0], a).store
          /\ g[2] = execWithLock(g[1], b).store /\ RunAll(s, cmds) = g[2]
        BY <2>1, <2>2 DEF Passes
    <2> QED  BY <2>3 DEF cmds
<1> QED  BY <1>1, <1>2, <1>3

\* What the lines do that executors log besides their own command.
LEMMA LoggedLines ==
    ASSUME NEW u, IsStore(u), NEW k \in Key
    PROVE  /\ \A v : execWithLock(u, Set(k, v)).store = Persist(PutEntity(u, k, String(v)), k)
           /\ Exists(u, k) => \A n : execWithLock(u, PExpireAt(k, n)).store = Expire(u, k, n)
           /\ execWithLock(u, On("persist", k)).store =
                 IF ~Exists(u, k) \/ u.ttl[k] = NoTTL THEN u ELSE Persist(u, k)
           /\ execWithLock(u, Del(k)).store = Removes(u, <<k>>)
<1>1. ASSUME NEW v PROVE execWithLock(u, Set(k, v)).store = Persist(PutEntity(u, k, String(v)), k)
    <2>1. /\ Set(k, v).op = "set" /\ Set(k, v).key = k /\ Set(k, v).n = 0
          /\ Set(k, v).flag = "none" /\ Set(k, v).args = v
        BY DEF Set, Command
    <2>2. execWithLock(u, Set(k, v)) = execSet(u, Set(k, v))
        BY <2>1 DEF execWithLock
    <2> QED  BY <2>1, <2>2 DEF execSet, Logged, NoTTL
<1>2. ASSUME NEW n, Exists(u, k) PROVE execWithLock(u, PExpireAt(k, n)).store = Expire(u, k, n)
    BY <1>2 DEF execWithLock, execPExpireAt, expireAt, PExpireAt, Command, Logged
<1>3. execWithLock(u, On("persist", k)).store =
         IF ~Exists(u, k) \/ u.ttl[k] = NoTTL THEN u ELSE Persist(u, k)
    <2>1. On("persist", k).op = "persist" /\ On("persist", k).key = k
        BY DEF On, Command
    <2>2. execWithLock(u, On("persist", k)) = execPersist(u, On("persist", k))
        BY <2>1 DEF execWithLock
    <2> QED  BY <2>1, <2>2 DEF execPersist, Logged, Done
<1>4. execWithLock(u, Del(k)).store = Removes(u, <<k>>)
    BY DEF execWithLock, execDel, Del, Command, Done
<1> QED  BY <1>1, <1>2, <1>3, <1>4

-----------------------------------------------------------------------------
(* What a sequence of commands does, one by one.                           *)

LEMMA RunThreeLines ==
    ASSUME NEW s, NEW cmds, Len(cmds) = 3
    PROVE  \A t, u : t = execWithLock(s, cmds[1]).store /\ u = execWithLock(t, cmds[2]).store =>
              RunAll(s, cmds) = execWithLock(u, cmds[3]).store
<1>1. 0 \in 0..3 /\ 1 \in 0..3 /\ 2 \in 0..3 /\ 3 \in 0..3
    OBVIOUS
<1>2. PICK g : Passes(s, cmds, 3, g)
    BY RunPasses
<1>3. /\ g[0] = s /\ g[1] = execWithLock(g[0], cmds[1]).store
      /\ g[2] = execWithLock(g[1], cmds[2]).store /\ g[3] = execWithLock(g[2], cmds[3]).store
      /\ RunAll(s, cmds) = g[3]
    BY <1>1, <1>2 DEF Passes
<1> QED  BY <1>3

\* A sequence of commands passes the stores of its beginnings.
LEMMA PassesBeginning ==
    ASSUME NEW s, NEW a, NEW b, NEW n \in Nat, NEW m \in Nat, n <= m,
           \A i \in 1..n : a[i] = b[i],
           NEW g, Passes(s, a, n, g), NEW h, Passes(s, b, m, h)
    PROVE  g[n] = h[n]
<1>1. /\ \A i \in 0..n : g[i] = IF i = 0 THEN s ELSE execWithLock(g[i-1], a[i]).store
      /\ \A i \in 0..m : h[i] = IF i = 0 THEN s ELSE execWithLock(h[i-1], b[i]).store
    BY DEF Passes
<1> DEFINE T == {i \in Nat : i \in 0..n => g[i] = h[i]}
<1>2. 0 \in T
    <2>1. 0 \in 0..n /\ 0 \in 0..m
        OBVIOUS
    <2>2. g[0] = s /\ h[0] = s
        BY <1>1, <2>1
    <2> QED  BY <2>2
<1>3. ASSUME NEW i \in T PROVE i + 1 \in T
    <2>1. i \in Nat
        OBVIOUS
    <2>2. SUFFICES ASSUME i + 1 \in 0..n PROVE g[i+1] = h[i+1]
        BY <2>1
    <2>3. /\ i \in 0..n /\ i + 1 \in 0..m /\ i + 1 \in 1..n /\ i + 1 # 0 /\ (i + 1) - 1 = i
        BY <2>1, <2>2
    <2>4. g[i] = h[i]
        BY <2>3
    <2>5. g[i+1] = execWithLock(g[i], a[i+1]).store /\ h[i+1] = execWithLock(h[i], b[i+1]).store
        BY <1>1, <2>2, <2>3
    <2> QED  BY <2>3, <2>4, <2>5
<1>4. T = Nat
    <2>1. T \in SUBSET Nat
        OBVIOUS
    <2> HIDE DEF T
    <2> QED  BY <1>2, <1>3, <2>1, NatSet
<1>5. n \in T /\ n \in 0..n
    <2> HIDE DEF T
    <2> QED  BY <1>4
<1> QED  BY <1>5

\* The store after the first i commands.
After(s, cmds, i) == RunAll(s, SubSeq(cmds, 1, i))

\* It is reached command by command.
OneByOne(s, cmds) ==
    \A i \in 1..Len(cmds) : After(s, cmds, i) = execWithLock(After(s, cmds, i - 1), cmds[i]).store

LEMMA RunNext ==
    ASSUME NEW s, NEW S, NEW cmds \in Seq(S)
    PROVE  After(s, cmds, 0) = s /\ After(s, cmds, Len(cmds)) = RunAll(s, cmds) /\ OneByOne(s, cmds)
<1> DEFINE n == Len(cmds)
<1>1. n \in Nat
    BY LenProperties
<1>2. ASSUME NEW i \in 0..n
      PROVE  Len(SubSeq(cmds, 1, i)) = i /\ \A j \in 1..i : SubSeq(cmds, 1, i)[j] = cmds[j]
    <2>1. i \in Nat /\ \A j \in 1..i : cmds[j] \in S
        <3>1. \A j \in 1..i : j \in 1..n
            BY <1>1
        <3> QED  BY <1>1, <3>1, ElementOfSeq
    <2> DEFINE v == SubSeq(cmds, 1, i)
    <2>2. /\ Len(v) = IF 1 <= i THEN i - 1 + 1 ELSE 0
          /\ \A j \in 1..i-1+1 : v[j] = cmds[1+j-1]
        BY <2>1, SubSeqProperties
    <2> HIDE DEF v
    <2>3. i - 1 + 1 = i /\ \A j \in 1..i : 1+j-1 = j
        BY <2>1
    <2>4. Len(v) = i /\ \A j \in 1..i : v[j] = cmds[j]
        BY <2>1, <2>2, <2>3
    <2> QED  BY <2>4 DEF v
<1> HIDE DEF n
<1>3. ASSUME NEW i \in 0..n PROVE \E g : Passes(s, SubSeq(cmds, 1, i), i, g)
    <2>1. i \in Nat /\ Len(SubSeq(cmds, 1, i)) = i
        BY <1>1, <1>2
    <2> QED  BY <2>1, RunPasses
<1>4. RunAll(s, SubSeq(cmds, 1, 0)) = s
    <2>1. 0 \in 0..n /\ 0 \in 0..0
        BY <1>1
    <2>2. PICK g : Passes(s, SubSeq(cmds, 1, 0), 0, g)
        BY <1>3, <2>1
    <2> QED  BY <2>1, <2>2 DEF Passes
<1>5. RunAll(s, SubSeq(cmds, 1, n)) = RunAll(s, cmds)
    <2>1. n \in 0..n /\ n <= n
        BY <1>1
    <2> DEFINE v == SubSeq(cmds, 1, n)
    <2>2. PICK g : Passes(s, v, n, g)
        BY <1>3, <2>1
    <2>3. PICK h : Passes(s, cmds, n, h)
        BY <1>1, RunPasses DEF n
    <2>4. \A j \in 1..n : v[j] = cmds[j]
        BY <1>2, <2>1
    <2> HIDE DEF v
    <2>5. g[n] = h[n]
        BY <1>1, <2>1, <2>2, <2>3, <2>4, PassesBeginning
    <2> QED  BY <2>2, <2>3, <2>5 DEF Passes, v
<1>6. ASSUME NEW i \in 0..n-1
      PROVE  After(s, cmds, i + 1) = execWithLock(After(s, cmds, i), cmds[i+1]).store
    <2> DEFINE a == SubSeq(cmds, 1, i)
               b == SubSeq(cmds, 1, i + 1)
    <2>1. /\ i \in Nat /\ i + 1 \in Nat /\ i <= i + 1 /\ i \in 0..n /\ i + 1 \in 0..n
          /\ i + 1 \in 0..i+1 /\ i + 1 \in 1..i+1 /\ i + 1 # 0 /\ (i + 1) - 1 = i
          /\ \A j \in 1..i : j \in 1..i+1
        BY <1>1
    <2>2. (\A j \in 1..i : a[j] = cmds[j]) /\ (\A j \in 1..i+1 : b[j] = cmds[j])
        BY <1>2, <2>1
    <2>3. PICK g : Passes(s, a, i, g)
        BY <1>3, <2>1
    <2>4. PICK h : Passes(s, b, i + 1, h)
        BY <1>3, <2>1
    <2> HIDE DEF a, b
    <2>5. \A j \in 1..i : a[j] = b[j]
        BY <2>1, <2>2
    <2>6. g[i] = h[i]
        BY <2>1, <2>3, <2>4, <2>5, PassesBeginning
    <2>7. h[i+1] = execWithLock(h[i], b[i+1]).store
        BY <2>1, <2>4 DEF Passes
    <2>8. RunAll(s, b) = h[i+1] /\ RunAll(s, a) = g[i] /\ b[i+1] = cmds[i+1]
        BY <2>1, <2>2, <2>3, <2>4 DEF Passes
    <2>9. RunAll(s, b) = execWithLock(RunAll(s, a), cmds[i+1]).store
        BY <2>6, <2>7, <2>8
    <2> QED  BY <2>9 DEF a, b, After
<1>7. ASSUME NEW i \in 1..n
      PROVE  After(s, cmds, i) = execWithLock(After(s, cmds, i - 1), cmds[i]).store
    <2>1. PICK j \in 0..n-1 : j + 1 = i /\ j = i - 1
        BY <1>1
    <2>2. After(s, cmds, j + 1) = execWithLock(After(s, cmds, j), cmds[j+1]).store
        BY <1>6
    <2> QED  BY <2>1, <2>2
<1> QED  BY <1>4, <1>5, <1>7 DEF n, After, OneByOne

\* RunAll of two sequences is RunAll of one after the other.
LEMMA RunConcat ==
    ASSUME NEW s, NEW S, NEW a \in Seq(S), NEW b \in Seq(S)
    PROVE  RunAll(s, a \o b) = RunAll(RunAll(s, a), b)
<1> DEFINE n == Len(a)
           m == Len(b)
           c == a \o b
<1>1. /\ n \in Nat /\ m \in Nat /\ n + m \in Nat /\ Len(c) = n + m
      /\ \A i \in 1..n+m : c[i] = IF i <= n THEN a[i] ELSE b[i - n]
    BY LenProperties, ConcatProperties
<1>2. PICK g : Passes(s, a, n, g)
    BY <1>1, RunPasses
<1>3. PICK h : Passes(s, c, n + m, h)
    BY <1>1, RunPasses
<1>4. PICK f : Passes(g[n], b, m, f)
    BY <1>1, RunPasses
<1> HIDE DEF n, m, c
<1>5. g[n] = h[n]
    <2>1. n <= n + m /\ \A i \in 1..n : a[i] = c[i]
        BY <1>1
    <2> QED  BY <1>1, <1>2, <1>3, <2>1, PassesBeginning
<1>6. /\ \A i \in 0..n+m : h[i] = IF i = 0 THEN s ELSE execWithLock(h[i-1], c[i]).store
      /\ \A i \in 0..m : f[i] = IF i = 0 THEN g[n] ELSE execWithLock(f[i-1], b[i]).store
    BY <1>3, <1>4 DEF Passes
<1> DEFINE T == {i \in Nat : i \in 0..m => h[n+i] = f[i]}
<1>7. 0 \in T
    <2>1. 0 \in 0..m /\ n + 0 = n
        BY <1>1
    <2>2. f[0] = g[n]
        BY <1>6, <2>1
    <2> QED  BY <1>5, <2>1, <2>2
<1>8. ASSUME NEW i \in T PROVE i + 1 \in T
    <2>1. i \in Nat
        OBVIOUS
    <2>2. SUFFICES ASSUME i + 1 \in 0..m PROVE h[n+(i+1)] = f[i+1]
        BY <2>1
    <2>3. /\ i \in 0..m /\ i + 1 # 0 /\ (i + 1) - 1 = i
          /\ n + (i + 1) \in 0..n+m /\ n + (i + 1) \in 1..n+m /\ n + (i + 1) # 0
          /\ (n + (i + 1)) - 1 = n + i /\ ~(n + (i + 1) <= n) /\ (n + (i + 1)) - n = i + 1
        BY <1>1, <2>1, <2>2
    <2>4. h[n+i] = f[i]
        BY <2>3
    <2>5. f[i+1] = execWithLock(f[i], b[i+1]).store
        BY <1>6, <2>2, <2>3
    <2>6. c[n+(i+1)] = b[i+1]
        BY <1>1, <2>3
    <2> DEFINE j == n + (i + 1)
    <2>7. j \in 0..n+m /\ j # 0 /\ j - 1 = n + i
        BY <2>3
    <2> HIDE DEF j
    <2>8. h[j] = execWithLock(h[n+i], c[j]).store
        BY <1>6, <2>7
    <2> QED  BY <2>4, <2>5, <2>6, <2>8 DEF j
<1>9. T = Nat
    <2>1. T \in SUBSET Nat
        OBVIOUS
    <2> HIDE DEF T
    <2> QED  BY <1>7, <1>8, <2>1, NatSet
<1>10. m \in T /\ m \in 0..m
    <2>1. m \in 0..m
        BY <1>1
    <2> HIDE DEF T
    <2> QED  BY <1>1, <1>9, <2>1
<1>11. RunAll(s, c) = h[n+m] /\ RunAll(s, a) = g[n] /\ RunAll(g[n], b) = f[m]
    BY <1>2, <1>3, <1>4 DEF Passes
<1> QED  BY <1>10, <1>11 DEF c

-----------------------------------------------------------------------------
(* What a store has of a key, and how undo logs put it back.               *)

\* The entity and the expiry of a key.
Slot(s, k) == <<s.data[k], s.ttl[k]>>

\* Of a key that is not there the store has nothing.
Tidy(s) == IsStore(s) /\ \A k \in Key : ~Exists(s, k) => Slot(s, k) = <<Absent, NoTTL>>

LEMMA SlotsAgree ==
    ASSUME NEW s, IsStore(s), NEW t, IsStore(t), NEW k \in Key
    PROVE  Agree(s, t, k) <=> Slot(s, k) = Slot(t, k)
<1>1. s.data[k] = <<s.data[k][1], s.data[k][2]>> /\ t.data[k] = <<t.data[k][1], t.data[k][2]>>
    BY EntityOfStore
<1>2. PICK a, b, c, d : s.data[k][1] = a /\ s.data[k][2] = b /\ t.data[k][1] = c /\ t.data[k][2] = d
    OBVIOUS
<1>3. s.data[k] = t.data[k] <=> a = c /\ b = d
    <2>1. s.data[k] = <<a, b>> /\ t.data[k] = <<c, d>>
        BY <1>1, <1>2
    <2> QED  BY <2>1
<1>4. PICK x, y, m, n : s.data[k] = x /\ t.data[k] = y /\ s.ttl[k] = m /\ t.ttl[k] = n
    OBVIOUS
<1>5. Slot(s, k) = Slot(t, k) <=> x = y /\ m = n
    BY <1>4 DEF Slot
<1>6. Agree(s, t, k) <=> a = c /\ b = d /\ m = n
    BY <1>2, <1>4 DEF Agree, TypeOf, ValueOf
<1> QED  BY <1>3, <1>4, <1>5, <1>6

\* What the operations on the maps leave of the key.
LEMMA SlotsOneKey ==
    ASSUME NEW s, IsStore(s), NEW k \in Key
    PROVE  /\ Slot(Persist(s, k), k) = <<s.data[k], NoTTL>>
           /\ Slot(RemoveKey(s, k), k) = <<Absent, NoTTL>>
           /\ \A n \in Nat : Slot(Expire(s, k, n), k) = <<s.data[k], n>>
           /\ \A v : Slot(PutEntity(s, k, String(v)), k) = <<String(v), s.ttl[k]>>
           /\ \A v : Slot(Persist(PutEntity(s, k, String(v)), k), k) = <<String(v), NoTTL>>
           /\ \A v : \A n \in Nat :
                 Slot(Expire(PutEntity(s, k, String(v)), k, n), k) = <<String(v), n>>
<1>1. ASSUME NEW u, IsStore(u), NEW n \in Nat
      PROVE  Slot(Expire(u, k, n), k) = <<u.data[k], n>>
    <2> DEFINE p == Expire(u, k, n)
    <2>1. p.data = u.data /\ p.ttl = [u.ttl EXCEPT ![k] = n]
        BY <1>1, ExpireStore
    <2>2. u.ttl \in [Key -> Nat]
        BY <1>1, PartsOfStore
    <2>3. [u.ttl EXCEPT ![k] = n][k] = n
        BY <2>2
    <2> HIDE DEF p
    <2>4. Slot(p, k) = <<u.data[k], n>>
        BY <2>1, <2>3 DEF Slot
    <2> QED  BY <2>4 DEF p
<1>2. ASSUME NEW u, IsStore(u)
      PROVE  Slot(Persist(u, k), k) = <<u.data[k], NoTTL>>
    <2>1. NoTTL \in Nat /\ Persist(u, k) = Expire(u, k, NoTTL)
        BY DEF NoTTL, Persist, Expire
    <2> QED  BY <1>1, <1>2, <2>1
<1>3. ASSUME NEW v
      PROVE  /\ IsStore(PutEntity(s, k, String(v)))
             /\ PutEntity(s, k, String(v)).data[k] = String(v)
             /\ PutEntity(s, k, String(v)).ttl = s.ttl
    BY PutEntityStore DEF String, Types
<1>4. Slot(RemoveKey(s, k), k) = <<Absent, NoTTL>>
    <2>1. Absent = <<"none", <<>>>> /\ "none" \in Types
        BY DEF Absent, Types
    <2>2. IsStore(PutEntity(s, k, Absent)) /\ PutEntity(s, k, Absent).data[k] = Absent
        BY <2>1, PutEntityStore
    <2> QED  BY <1>2, <2>2 DEF RemoveKey
<1>5. ASSUME NEW v
      PROVE  Slot(PutEntity(s, k, String(v)), k) = <<String(v), s.ttl[k]>>
    BY <1>3 DEF Slot
<1>6. ASSUME NEW v
      PROVE  /\ Slot(Persist(PutEntity(s, k, String(v)), k), k) = <<String(v), NoTTL>>
             /\ \A n \in Nat :
                   Slot(Expire(PutEntity(s, k, String(v)), k, n), k) = <<String(v), n>>
    <2> DEFINE p == PutEntity(s, k, String(v))
    <2>1. IsStore(p) /\ p.data[k] = String(v)
        BY <1>3
    <2> HIDE DEF p
    <2> QED  BY <1>1, <1>2, <2>1 DEF p
<1> QED  BY <1>1, <1>2, <1>4, <1>5, <1>6

\* A store that differs in one key from one that is tidy.
LEMMA TidyWithin ==
    ASSUME NEW s, Tidy(s), NEW k \in Key, NEW t, Within(s, t, {k}),
           ~Exists(t, k) => Slot(t, k) = <<Absent, NoTTL>>
    PROVE  Tidy(t) /\ \A j \in Key \ {k} : Slot(t, j) = Slot(s, j)
<1>1. IsStore(t) /\ \A j \in Key \ {k} : t.data[j] = s.data[j] /\ t.ttl[j] = s.ttl[j]
    BY DEF Within
<1>2. \A j \in Key \ {k} : Slot(t, j) = Slot(s, j)
    BY <1>1 DEF Slot
<1>3. ASSUME NEW j \in Key, ~Exists(t, j) PROVE Slot(t, j) = <<Absent, NoTTL>>
    <2>1. CASE j = k
        BY <1>3, <2>1
    <2>2. CASE j # k
        <3>1. ~Exists(s, j)
            BY <1>1, <1>3, <2>2 DEF Exists, TypeOf
        <3> QED  BY <1>2, <2>2, <3>1 DEF Tidy
    <2> QED  BY <2>1, <2>2
<1> QED  BY <1>1, <1>2, <1>3 DEF Tidy

LEMMA RemovesSlots ==
    ASSUME NEW s, Tidy(s), NEW keys
    PROVE  /\ \A k \in Key : Slot(Removes(s, keys), k) =
                 IF k \in ToSet(keys) THEN <<Absent, NoTTL>> ELSE Slot(s, k)
           /\ Tidy(Removes(s, keys))
<1> DEFINE p == Removes(s, keys)
<1>1. IsStore(p)
    <2>1. IsStore(s)
        BY DEF Tidy
    <2>2. Within(s, p, ToSet(keys))
        BY <2>1, WithinRemoves
    <2> QED  BY <2>2 DEF Within
<1>2. ASSUME NEW k \in Key
      PROVE  Slot(p, k) = IF k \in ToSet(keys) THEN <<Absent, NoTTL>> ELSE Slot(s, k)
    <2>1. Slot(p, k) = IF k \in ToSet(keys) /\ Exists(s, k) THEN <<Absent, NoTTL>> ELSE Slot(s, k)
        BY DEF Removes, Slot
    <2>2. ~Exists(s, k) => Slot(s, k) = <<Absent, NoTTL>>
        BY DEF Tidy
    <2> QED  BY <2>1, <2>2
<1> HIDE DEF p
<1>3. ASSUME NEW k \in Key, ~Exists(p, k) PROVE Slot(p, k) = <<Absent, NoTTL>>
    <2>1. CASE k \in ToSet(keys)
        BY <1>2, <2>1
    <2>2. CASE k \notin ToSet(keys)
        <3>1. Slot(p, k) = Slot(s, k)
            BY <1>2, <2>2
        <3>2. p.data[k] = s.data[k]
            BY <3>1 DEF Slot
        <3>3. ~Exists(s, k)
            BY <1>3, <3>2 DEF Exists, TypeOf
        <3> QED  BY <3>1, <3>3 DEF Tidy
    <2> QED  BY <2>1, <2>2
<1>4. Tidy(p)
    BY <1>1, <1>3 DEF Tidy
<1> QED  BY <1>2, <1>4 DEF p

\* The keys that logs can put back: of a hash they hold bytes.
AsLogged(h) == h = [f \in DOMAIN h |-> Bytes(AsBytes(h[f]))]
CanLog(s, k) == \/ TypeOf(s, k) \in {"none", "string"}
                \/ TypeOf(s, k) = "hash" /\ AsLogged(ValueOf(s, k))

\* The second line of the log of a key, where there is none.
LEMMA EntityBack ==
    ASSUME NEW s, IsStore(s), NEW k \in Key, Exists(s, k), CanLog(s, k),
           NEW u, Tidy(u), ~Exists(u, k)
    PROVE  LET v == execWithLock(u, EntityToCmd(k, s.data[k])).store
           IN  Within(u, v, {k}) /\ Slot(v, k) = <<s.data[k], NoTTL>>
<1> DEFINE c == EntityToCmd(k, s.data[k])
           v == execWithLock(u, c).store
           a == s.data[k][2]
<1>1. IsStore(u) /\ Slot(u, k) = <<Absent, NoTTL>>
    BY DEF Tidy
<1>2. s.data[k] = <<s.data[k][1], a>>
    BY EntityOfStore
<1>3. CASE s.data[k][1] = "string"
    <2>1. s.data[k] = String(a) /\ c = Set(k, a)
        BY <1>2, <1>3 DEF EntityToCmd, String
    <2> HIDE DEF c
    <2>2. v = Persist(PutEntity(u, k, String(a)), k)
        BY <1>1, <2>1, LoggedLines
    <2> QED  BY <1>1, <2>1, <2>2, SlotsOneKey, WithinOneKey DEF c
<1>4. CASE s.data[k][1] = "hash"
    <2>1. s.data[k] = Hash(a) /\ AsLogged(a)
        BY <1>2, <1>4 DEF Hash, CanLog, TypeOf, ValueOf
    <2>2. /\ c.op = "hmset" /\ c.key = k /\ c.args = [f \in DOMAIN a |-> AsBytes(a[f])]
        BY <1>4 DEF EntityToCmd, hashToCmd, Command
    <2> HIDE DEF c, a
    <2>3. execWithLock(u, c) = execHMSet(u, c)
        BY <2>2 DEF execWithLock
    <2>4. ~WrongType(u, k, "hash")
        BY DEF WrongType, Exists
    <2> DEFINE new == [f \in DOMAIN c.args |-> Bytes(c.args[f])]
    <2>5. new = a
        <3>1. \A f \in DOMAIN a : c.args[f] = AsBytes(a[f])
            BY <2>2
        <3>2. DOMAIN c.args = DOMAIN a
            BY <2>2
        <3> QED  BY <2>1, <3>1, <3>2 DEF AsLogged
    <2>6. v = putAll(u, k, new)
        BY <2>2, <2>3, <2>4 DEF execHMSet, Logged
    <2> HIDE DEF new
    <2>7. putAll(u, k, a) = PutEntity(u, k, Hash(a))
        <3>1. dictOf(u, k) = <<>> /\ DOMAIN <<>> = {}
            BY DEF dictOf
        <3>2. DOMAIN dictOf(u, k) \cup DOMAIN a = DOMAIN a
            BY <3>1
        <3>3. [f \in DOMAIN a |-> IF f \in DOMAIN a THEN a[f] ELSE dictOf(u, k)[f]] = [f \in DOMAIN a |-> a[f]]
            OBVIOUS
        <3>4. [f \in DOMAIN a |-> a[f]] = a
            BY <2>1 DEF AsLogged
        <3> QED  BY <3>2, <3>3, <3>4 DEF putAll
    <2>8. /\ PutEntity(u, k, Hash(a)).data[k] = Hash(a)
          /\ PutEntity(u, k, Hash(a)).ttl = u.ttl
        <3>1. "hash" \in Types /\ Hash(a) = <<"hash", a>>
            BY DEF Types, Hash
        <3> QED  BY <1>1, <3>1, PutEntityStore
    <2>9. v = PutEntity(u, k, Hash(a))
        BY <2>5, <2>6, <2>7
    <2> HIDE DEF v
    <2>10. v.data[k] = Hash(a) /\ v.ttl[k] = NoTTL
        <3>1. u.ttl[k] = NoTTL
            BY <1>1 DEF Slot
        <3> QED  BY <2>8, <2>9, <3>1
    <2>11. Within(u, v, {k})
        BY <1>1, <2>9, WithinOneKey
    <2> QED  BY <2>1, <2>10, <2>11 DEF Slot, v, c
<1>5. s.data[k][1] \in {"string", "hash"}
    BY DEF CanLog, Exists, TypeOf
<1> QED  BY <1>3, <1>4, <1>5

\* The log of a key puts the key back, whatever has become of it.
LEMMA KeyUndone ==
    ASSUME NEW s, Tidy(s), NEW u, Tidy(u), NEW k \in Key, CanLog(s, k)
    PROVE  LET v == RunAll(u, LogOfKey(s, k))
           IN  /\ Tidy(v) /\ Slot(v, k) = Slot(s, k)
               /\ \A j \in Key \ {k} : Slot(v, j) = Slot(u, j)
<1> DEFINE v == RunAll(u, LogOfKey(s, k))
           u1 == Removes(u, <<k>>)
           back == EntityToCmd(k, s.data[k])
<1>1. /\ Tidy(u1) /\ Slot(u1, k) = <<Absent, NoTTL>>
      /\ \A j \in Key \ {k} : Slot(u1, j) = Slot(u, j)
    <2>1. ToSet(<<k>>) = {k}
        BY DEF ToSet
    <2> QED  BY <2>1, RemovesSlots
<1>2. execWithLock(u, Del(k)).store = u1
    BY LoggedLines DEF Tidy
<1> HIDE DEF u1
<1>3. CASE ~Exists(s, k)
    <2>1. Slot(s, k) = <<Absent, NoTTL>>
        BY <1>3 DEF Tidy
    <2>2. v = u1
        BY <1>2, <1>3, RunLines DEF LogOfKey
    <2> QED  BY <1>1, <2>1, <2>2
<1>4. CASE Exists(s, k)
    <2> DEFINE u2 == execWithLock(u1, back).store
               n == s.ttl[k]
    <2>1. IsStore(s) /\ n \in Nat /\ s.data[k][1] # "none"
        <3>1. IsStore(s) /\ s.ttl \in [Key -> Nat]
            BY PartsOfStore DEF Tidy
        <3> QED  BY <1>4, <3>1 DEF Exists, TypeOf
    <2>2. Slot(s, k) = <<s.data[k], n>>
        BY DEF Slot
    <2>3. ~Exists(u1, k)
        BY <1>1 DEF Slot, Exists, TypeOf, Absent
    <2>4. Within(u1, u2, {k}) /\ Slot(u2, k) = <<s.data[k], NoTTL>>
        BY <1>1, <1>4, <2>1, <2>3, EntityBack
    <2> HIDE DEF u2, n
    <2>5. u2.data[k] = s.data[k] /\ u2.ttl[k] = NoTTL /\ Exists(u2, k)
        BY <2>1, <2>4 DEF Slot, Exists, TypeOf
    <2>6. Tidy(u2) /\ \A j \in Key \ {k} : Slot(u2, j) = Slot(u, j)
        BY <1>1, <2>4, <2>5, TidyWithin
    <2>7. v = execWithLock(u2, toTTLCmd(s, k)).store
        <3> DEFINE log == LogOfKey(s, k)
        <3>1. Len(log) = 3 /\ log[1] = Del(k) /\ log[2] = back /\ log[3] = toTTLCmd(s, k)
            BY <1>4 DEF LogOfKey
        <3> HIDE DEF log, back
        <3>2. u1 = execWithLock(u, log[1]).store /\ u2 = execWithLock(u1, log[2]).store
            BY <1>2, <3>1 DEF u2, back
        <3>3. RunAll(u, log) = execWithLock(u2, log[3]).store
            BY <3>1, <3>2, RunThreeLines
        <3> QED  BY <3>1, <3>3 DEF log
    <2>8. CASE n = NoTTL
        <3>1. v = u2
            BY <2>5, <2>6, <2>7, <2>8, LoggedLines DEF toTTLCmd, Tidy, n
        <3> QED  BY <2>2, <2>4, <2>6, <2>8, <3>1
    <2>9. CASE n # NoTTL
        <3>1. v = Expire(u2, k, n)
            BY <2>5, <2>6, <2>7, <2>9, LoggedLines DEF toTTLCmd, Tidy, n
        <3>2. Slot(v, k) = <<s.data[k], n>>
            BY <2>1, <2>5, <2>6, <3>1, SlotsOneKey DEF Tidy
        <3>3. Within(u2, v, {k})
            BY <2>1, <2>6, <3>1, WithinOneKey DEF Tidy
        <3> HIDE DEF v
        <3>4. v.data[k] = s.data[k]
            BY <3>2 DEF Slot
        <3>5. Exists(v, k)
            BY <2>1, <3>4 DEF Exists, TypeOf
        <3>6. Tidy(v) /\ \A j \in Key \ {k} : Slot(v, j) = Slot(u2, j)
            BY <2>6, <3>3, <3>5, TidyWithin
        <3> QED  BY <2>2, <2>6, <3>2, <3>6 DEF v
    <2> QED  BY <2>8, <2>9
<1> QED  BY <1>3, <1>4

\* The logs of several keys, one after the other, put all of them back.
LEMMA KeysUndone ==
    ASSUME NEW s, Tidy(s), NEW u, Tidy(u), NEW keys \in Seq(Key),
           \A k \in ToSet(keys) : CanLog(s, k)
    PROVE  LET v == RunAll(u, rollbackGivenKeys(s, keys))
           IN  /\ Tidy(v) /\ \A k \in ToSet(keys) : Slot(v, k) = Slot(s, k)
               /\ \A k \in Key \ ToSet(keys) : Slot(v, k) = Slot(u, k)
<1> DEFINE n == Len(keys)
           logs == LogsOfKeys(s, keys)
           log == rollbackGivenKeys(s, keys)
           g == CHOOSE f : Flattens(logs, n, f)
<1>1. n \in Nat /\ DOMAIN keys = 1..n /\ \A i \in 1..n : keys[i] \in Key
    BY LenProperties, ElementOfSeq
<1>2. PICK S : logs \in Seq(Seq(S))
    BY KeyLogs DEF Tidy
<1>3. DOMAIN logs = 1..n /\ \A i \in 1..n : logs[i] = LogOfKey(s, keys[i])
    BY <1>1 DEF LogsOfKeys
<1>4. Len(logs) = n
    <2>1. Len(logs) \in Nat /\ DOMAIN logs = 1..Len(logs)
        BY <1>2, LenProperties
    <2> HIDE DEF logs, n
    <2> QED  BY <1>1, <1>3, <2>1
<1>5. log = FlattenSeq(logs)
    <2>1. ASSUME NEW i \in DOMAIN keys PROVE TypeOf(s, keys[i]) \notin {"list", "set", "zset"}
        <3>1. keys[i] \in ToSet(keys)
            BY DEF ToSet
        <3>2. CanLog(s, keys[i])
            BY <3>1
        <3> QED  BY <3>2 DEF CanLog
    <2> QED  BY <2>1 DEF rollbackGivenKeys, LogsOfKeys, LogOfKey
<1>6. ToSet(keys) = {keys[i] : i \in 1..n}
    BY <1>1 DEF ToSet
<1>7. CASE n = 0
    <2>1. log = logs
        BY <1>4, <1>5, <1>7 DEF FlattenSeq
    <2>2. logs = <<>>
        BY <1>2, <1>4, <1>7, EmptySeq
    <2>3. RunAll(u, log) = u
        BY <2>1, <2>2, RunLines
    <2>4. ToSet(keys) = {}
        BY <1>6, <1>7
    <2> QED  BY <2>3, <2>4
<1>8. CASE n # 0
    <2>1. log = g[n]
        BY <1>4, <1>5, <1>8 DEF FlattenSeq, Flattens
    <2> HIDE DEF n, logs
    <2>2. \E f : Flattens(logs, n, f)
        BY <1>1, FlattenSteps
    <2>3. Flattens(logs, n, g)
        BY <2>2
    <2> HIDE DEF g
    <2>4. \A i \in 1..n : g[i] = IF i = 1 THEN logs[i] ELSE g[i-1] \o logs[i]
        BY <1>1, <2>3 DEF Flattens
    <2>5. \A i \in 1..n : logs[i] \in Seq(S)
        BY <1>2, <1>3, <1>4, ElementOfSeq
    <2> DEFINE Back(i, v) == /\ Tidy(v)
                             /\ \A j \in 1..i : Slot(v, keys[j]) = Slot(s, keys[j])
                             /\ \A k \in Key \ ToSet(keys) : Slot(v, k) = Slot(u, k)
               T == {i \in Nat : i \in 1..n => g[i] \in Seq(S) /\ Back(i, RunAll(u, g[i]))}
    <2>6. 0 \in T
        OBVIOUS
    <2>7. ASSUME NEW i \in T PROVE i + 1 \in T
        <3>1. i \in Nat
            OBVIOUS
        <3>2. SUFFICES ASSUME i + 1 \in 1..n
                       PROVE  g[i+1] \in Seq(S) /\ Back(i + 1, RunAll(u, g[i+1]))
            BY <3>1
        <3>3. logs[i+1] \in Seq(S) /\ logs[i+1] = LogOfKey(s, keys[i+1]) /\ keys[i+1] \in Key
            BY <1>1, <1>3, <2>5, <3>2
        <3>4. ASSUME NEW w, Back(i, w)
              PROVE  Back(i + 1, RunAll(w, logs[i+1]))
            <4> DEFINE v == RunAll(w, logs[i+1])
            <4>0. keys[i+1] \in ToSet(keys)
                BY <1>6, <3>2
            <4>1. /\ Tidy(v) /\ Slot(v, keys[i+1]) = Slot(s, keys[i+1])
                  /\ \A j \in Key \ {keys[i+1]} : Slot(v, j) = Slot(w, j)
                BY <3>3, <3>4, <4>0, KeyUndone
            <4> HIDE DEF v
            <4>2. ASSUME NEW j \in 1..i+1 PROVE Slot(v, keys[j]) = Slot(s, keys[j])
                <5>1. CASE keys[j] = keys[i+1]
                    BY <4>1, <5>1
                <5>2. CASE keys[j] # keys[i+1]
                    <6>1. j \in 1..i /\ j \in 1..n
                        BY <1>1, <3>1, <3>2, <5>2
                    <6>2. keys[j] \in Key \ {keys[i+1]}
                        BY <1>1, <5>2, <6>1
                    <6> QED  BY <3>4, <4>1, <6>1, <6>2
                <5> QED  BY <5>1, <5>2
            <4>3. \A k \in Key \ ToSet(keys) : Slot(v, k) = Slot(u, k)
                BY <3>4, <4>0, <4>1
            <4> QED  BY <4>1, <4>2, <4>3 DEF v
        <3>5. CASE i = 0
            <4>1. g[i+1] = logs[i+1]
                BY <2>4, <3>2, <3>5
            <4>2. Back(i + 1, RunAll(u, logs[i+1]))
                BY <3>4, <3>5
            <4> QED  BY <3>3, <4>1, <4>2
        <3>6. CASE i # 0
            <4>1. i \in 1..n /\ (i + 1) - 1 = i /\ i + 1 # 1
                BY <1>1, <3>1, <3>2, <3>6
            <4>2. g[i+1] = g[i] \o logs[i+1]
                BY <2>4, <3>2, <4>1
            <4>3. g[i] \in Seq(S) /\ Back(i, RunAll(u, g[i]))
                BY <4>1
            <4>4. g[i+1] \in Seq(S)
                BY <3>3, <4>2, <4>3, ConcatProperties
            <4>5. RunAll(u, g[i+1]) = RunAll(RunAll(u, g[i]), logs[i+1])
                BY <3>3, <4>2, <4>3, RunConcat
            <4>6. Back(i + 1, RunAll(RunAll(u, g[i]), logs[i+1]))
                BY <3>4, <4>3
            <4> HIDE DEF Back
            <4> QED  BY <4>4, <4>5, <4>6
        <3> QED  BY <3>5, <3>6
    <2>8. T = Nat
        <3>1. T \in SUBSET Nat
            OBVIOUS
        <3> HIDE DEF T
        <3> QED  BY <2>6, <2>7, <3>1, NatSet
    <2>9. n \in T /\ n \in 1..n
        <3>1. n \in 1..n
            BY <1>1, <1>8
        <3> HIDE DEF T
        <3> QED  BY <1>1, <2>8, <3>1
    <2>10. Back(n, RunAll(u, g[n]))
        BY <2>9
    <2> QED  BY <1>6, <2>1, <2>10
<1> QED  BY <1>7, <1>8

=============================================================================
