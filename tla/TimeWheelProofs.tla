-------------------------- MODULE TimeWheelProofs --------------------------
(***************************************************************************)
(* Proofs about the timing wheel, for every number of slots, tasks, keys   *)
(* and concurrent scans, and every delay.                                  *)
(*                                                                         *)
(* DispatchWhenDue rests on OnTime, the agreement between where a task is  *)
(* filed, its remaining rotations, the position of the wheel and the scans *)
(* under way.  OnTime needs that the lists are lists (Order) and that the  *)
(* scans walk different ones (Scans).                                      *)
(***************************************************************************)
EXTENDS TimeWheel, TLAPS

\* `ahead' is a strict linear order on the elements of each list.
Order ==
    \A e \in Elem :
        /\ e \notin ahead[e]
        /\ \A f \in ahead[e] : /\ Linked(e) /\ list[f] = list[e]
                               /\ ahead[f] \subseteq ahead[e] /\ e \notin ahead[f]
        /\ \A f \in Elem : Linked(e) /\ list[f] = list[e]
                            => e = f \/ e \in ahead[f] \/ f \in ahead[e]

\* The scans walk lists of their own, and what they hold is in their list or
\* has been removed.
Scans ==
    \A g \in Scanner :
        /\ pc[g] \in {"visit", "unlink"} =>
             elem[g] \in Elem /\ (Linked(elem[g]) => list[elem[g]] = slot[g])
        /\ pc[g] = "unlink" => circle[elem[g]] = 0
        /\ pc[g] = "forget" =>
             /\ elem[g] \in Elem
             /\ next[g] \in Elem /\ Linked(next[g]) => list[next[g]] = slot[g]
        /\ \A h \in Scanner \ {g} :
             pc[g] # "idle" /\ pc[h] # "idle" => slot[g] # slot[h]

WheelInv == TypeOK /\ Order /\ Scans /\ OnTime

-----------------------------------------------------------------------------
(* Arithmetic of the ring.                                                 *)

\* What \div and % return (getPositionAndCircle divides by slotNum).
LEMMA DivMod == ASSUME NEW n \in Nat \ {0}, NEW d \in Nat
  PROVE /\ d \div n \in Nat /\ d % n \in 0..n-1 /\ d = n * (d \div n) + (d % n)
<1>1. d \div n \in Nat
  OBVIOUS
<1>2. d % n \in 0..n-1
  OBVIOUS
<1>3. d = n * (d \div n) + (d % n)
  OBVIOUS
<1> QED BY <1>1, <1>2, <1>3
\* Products by the same factor are at least that factor apart.
LEMMA Gap == ASSUME NEW n \in Nat, NEW a \in Nat, NEW b \in Nat, a > b
             PROVE  n * a >= n * b + n
   <2>1. PICK k \in Nat : a = b + 1 + k
      OBVIOUS
   <2>2. n * a = n * b + n + n * k
      BY <2>1
   <2>3. n * k \in Nat /\ n * b \in Nat
      OBVIOUS
   <2> QED BY <2>2, <2>3
\* The remainder is the only number in range that divides out.
LEMMA ModUnique == ASSUME NEW n \in Nat \ {0}, NEW q \in Nat, NEW r \in 0..n-1
  PROVE (n * q + r) % n = r
<1>1. PICK x \in Nat : x = n * q + r
  OBVIOUS
<1>2. x % n \in 0..n-1 /\ x \div n \in Nat /\ x = n * (x \div n) + (x % n)
  BY DivMod
<1>3. PICK p \in Nat, y \in 0..n-1 : x = n * p + y /\ y = x % n
  BY <1>2
<1>4. PICK np \in Nat, nq \in Nat : np = n * p /\ nq = n * q
  OBVIOUS
<1>5. ~(p > q)
      <2> SUFFICES ASSUME p > q PROVE FALSE
        OBVIOUS
      <2>1. n * p >= n * q + n
        BY Gap
      <2> QED BY <2>1, <1>1, <1>3, <1>4
<1>6. ~(q > p)
      <2> SUFFICES ASSUME q > p PROVE FALSE
        OBVIOUS
      <2>1. n * q >= n * p + n
        BY Gap
      <2> QED BY <2>1, <1>1, <1>3, <1>4
<1>7. p = q
   BY <1>5, <1>6
<1>8. np = nq /\ x = nq + r /\ x = np + y
   BY <1>1, <1>3, <1>4, <1>7
<1>9. y = r
   BY <1>8
<1> QED BY <1>1, <1>3, <1>9
\* The slot d ticks after slot c, without the remainder (pos of getPositionAndCircle).
LEMMA Filing == ASSUME NEW n \in Nat \ {0}, NEW c \in 0..n-1, NEW d \in Nat
  PROVE (c + d) % n = IF c + (d % n) < n THEN c + (d % n) ELSE c + (d % n) - n
<1>1. PICK q \in Nat, r \in 0..n-1 : q = d \div n /\ r = d % n /\ d = n * q + r
  BY DivMod
<1>2. CASE c + r < n
  <2>1. (n * q + (c + r)) % n = c + r
    BY <1>2, ModUnique
  <2>2. c + d = n * q + (c + r)
    BY <1>1
  <2> QED BY <2>1, <2>2, <1>1, <1>2
<1>3. CASE c + r >= n
  <2>1. c + r - n \in 0..n-1
    BY <1>3
  <2>2. (n * (q + 1) + (c + r - n)) % n = c + r - n
    <3>1. q + 1 \in Nat
      OBVIOUS
    <3> QED BY <3>1, <2>1, ModUnique
  <2>3. c + d = n * (q + 1) + (c + r - n)
    <3>1. n * (q + 1) = n * q + n
      OBVIOUS
    <3> QED BY <3>1, <1>1
  <2> QED BY <2>2, <2>3, <1>1, <1>3
<1> QED BY <1>1, <1>2, <1>3

\* A task is filed where the wheel will be after its delay.
LEMMA FiledOnTime ==
    ASSUME NEW c \in Slot, NEW d \in Nat
    PROVE  /\ (c + d) % N \in Slot /\ d \div N \in Nat
           /\ d = N * (d \div N) + Distance((c + d) % N, c)
<1> USE NAssumption
<1>1. PICK r \in 0..N-1 : r = d % N /\ d = N * (d \div N) + r /\ d \div N \in Nat
    BY DivMod
<1>2. (c + d) % N = IF c + r < N THEN c + r ELSE c + r - N
    BY <1>1, Filing DEF Slot
<1>3. (c + d) % N \in Slot /\ Distance((c + d) % N, c) = r
    BY <1>2 DEF Slot, Distance
<1> QED BY <1>1, <1>3

-----------------------------------------------------------------------------
(* Lists.                                                                  *)

\* Removing an element, or nothing, leaves the other lists' order alone.
LEMMA RemoveKeepsOrder ==
    ASSUME TypeOK, Order, NEW e \in Elem \cup {None}, Remove(e)
    PROVE  /\ Order'
           /\ list' \in [Elem -> Slot \cup {None}] /\ ahead' \in [Elem -> SUBSET Elem]
           /\ \A f \in Elem \ {e} : list'[f] = list[f] /\ ahead'[f] = ahead[f] \ {e}
           /\ e \in Elem => list'[e] = None
<1>1. \A f \in Elem : /\ list'[f] = IF f = e THEN None ELSE list[f]
                      /\ ahead'[f] = IF f = e THEN {} ELSE ahead[f] \ {e}
    BY DEF Remove
<1>2. list' \in [Elem -> Slot \cup {None}] /\ ahead' \in [Elem -> SUBSET Elem]
    BY DEF Remove, TypeOK
<1>3. Order'
    <2> SUFFICES ASSUME NEW x \in Elem
                 PROVE  /\ x \notin ahead'[x]
                        /\ \A f \in ahead'[x] :
                             /\ list'[x] # None /\ list'[f] = list'[x]
                             /\ ahead'[f] \subseteq ahead'[x] /\ x \notin ahead'[f]
                        /\ \A f \in Elem : list'[x] # None /\ list'[f] = list'[x]
                             => x = f \/ x \in ahead'[f] \/ f \in ahead'[x]
        BY DEF Order, Linked
    <2>1. \A y \in Elem : ahead[y] \subseteq Elem
        BY DEF TypeOK
    <2>2. CASE x = e
        BY <1>1, <2>2
    <2>3. CASE x # e
        <3>1. list'[x] = list[x] /\ ahead'[x] = ahead[x] \ {e}
            BY <1>1, <2>3
        <3>2. \A f \in ahead'[x] : f \in Elem /\ f # e /\ f \in ahead[x]
                 /\ list'[f] = list[f] /\ ahead'[f] = ahead[f] \ {e}
            BY <1>1, <2>1, <3>1
        <3>3. x \notin ahead'[x] /\ \A f \in ahead'[x] :
                   /\ list'[x] # None /\ list'[f] = list'[x]
                   /\ ahead'[f] \subseteq ahead'[x] /\ x \notin ahead'[f]
            BY <3>1, <3>2 DEF Order, Linked
        <3>4. ASSUME NEW f \in Elem, list'[x] # None, list'[f] = list'[x]
              PROVE  x = f \/ x \in ahead'[f] \/ f \in ahead'[x]
            <4>1. f # e /\ list[f] = list[x] /\ ahead'[f] = ahead[f] \ {e}
                BY <1>1, <3>1, <3>4
            <4> QED BY <2>3, <3>1, <3>4, <4>1 DEF Order, Linked
        <3> QED BY <3>3, <3>4
    <2> QED BY <2>2, <2>3
<1> QED BY <1>1, <1>2, <1>3

\* What e.Next() returns splits the list: the elements behind e are the ones
\* at or behind e.Next().
LEMMA NextSplits ==
    ASSUME TypeOK, Order, NEW e \in Elem, NEW f \in NextOf(e),
           NEW x \in Elem, Linked(x), Linked(e) => list[x] = list[e], x # e
    PROVE  /\ f \in Elem \cup {None}
           /\ e \in ahead[x] <=> (f = x \/ f \in ahead[x])
           /\ f # None => f # e /\ Linked(e) /\ list[f] = list[e] /\ f \notin ahead[e]
<1>1. \/ f = None /\ After(e) = {}
      \/ f \in After(e) /\ ahead[f] \cap After(e) = {}
    BY DEF NextOf, First
<1>2. f \in Elem \cup {None} /\ None \notin Elem /\ None \notin ahead[x]
    BY <1>1, NoneAssumption DEF After, TypeOK
<1>3. CASE f = None /\ After(e) = {}
    <2>1. e \notin ahead[x]
        BY <1>3 DEF After, Order, Linked
    <2> QED BY <1>2, <1>3, <2>1
<1>4. CASE f \in After(e) /\ ahead[f] \cap After(e) = {}
    <2>1. f \in Elem /\ Linked(e) /\ list[f] = list[e] /\ e \in ahead[f] /\ list[x] = list[e]
        BY <1>4 DEF After
    <2>2. f # e /\ f \notin ahead[e] /\ f # None
        BY <2>1, <1>2 DEF Order
    <2>3. ASSUME e \in ahead[x] PROVE f = x \/ f \in ahead[x]
        <3>1. x \in After(e)
            BY <2>1, <2>3 DEF After
        <3>2. x \notin ahead[f]
            BY <3>1, <1>4
        <3> QED BY <3>2, <2>1 DEF Order, Linked
    <2>4. ASSUME f = x \/ f \in ahead[x] PROVE e \in ahead[x]
        BY <2>1, <2>4 DEF Order
    <2> QED BY <2>1, <2>2, <2>3, <2>4
<1> QED BY <1>1, <1>3, <1>4

-----------------------------------------------------------------------------
\* A wheel as New makes it satisfies the invariant.
LEMMA InitInv == Init => WheelInv
<1> USE NAssumption, EmptyKeyAssumption, NoneAssumption
<1>1. Init => TypeOK
    <2>1. 0 \in Slot
        BY DEF Slot
    <2>2. Init => /\ torn \in BOOLEAN
                  /\ pc \in [Scanner -> {"idle", "front", "visit", "unlink", "forget"}]
        BY DEF Init
    <2>3. Init => /\ currentPos \in Slot /\ list \in [Elem -> Slot \cup {None}]
                  /\ ahead \in [Elem -> SUBSET Elem] /\ key \in [Elem -> Key]
                  /\ circle \in [Elem -> Nat]
                  /\ locationMap \in [Key -> Elem \cup {None}]
                  /\ adding \in Elem \cup {None}
        BY <2>1 DEF Init
    <2>4. Init => /\ slot \in [Scanner -> Slot]
                  /\ elem \in [Scanner -> Elem \cup {None}]
                  /\ next \in [Scanner -> Elem \cup {None}]
                  /\ left \in [Elem -> Int] /\ disturbed \in SUBSET Elem
        BY <2>1 DEF Init
    <2> QED BY <2>2, <2>3, <2>4 DEF TypeOK
<1>2. Init => Order /\ Scans /\ OnTime
    BY DEF Init, Order, Scans, OnTime, Linked
<1> QED BY <1>1, <1>2 DEF WheelInv

\* A step that changes nothing a due time depends on keeps it.
LEMMA SameDue ==
    ASSUME OnTime, currentPos' = currentPos,
           \A e \in Elem : Linked(e)' /\ e \notin disturbed' =>
               /\ Linked(e) /\ e \notin disturbed
               /\ list'[e] = list[e] /\ circle'[e] = circle[e] /\ left'[e] = left[e]
               /\ \A g \in Scanner : Towards(g, e)' <=> Towards(g, e)
    PROVE  OnTime'
BY DEF OnTime, Distance

\* addTask files a task where and with the rotations its delay asks for.
LEMMA AddTask ==
    ASSUME WheelInv, NEW e \in Elem, NEW k \in Key, NEW d \in 0..MaxDelay,
           addTask(e, k, d)
    PROVE  WheelInv'
<1> USE NAssumption, NoneAssumption, MaxDelayAssumption
<1> DEFINE p == (currentPos + d) % N
<1>0. TypeOK /\ Order /\ Scans /\ OnTime
    BY DEF WheelInv
<1>1. /\ p \in Slot /\ d \div N \in Nat /\ d \in Nat
      /\ d = N * (d \div N) + Distance(p, currentPos)
    <2>1. d \in Nat /\ currentPos \in Slot
        BY <1>0 DEF TypeOK
    <2> QED BY <2>1, FiledOnTime
<1> HIDE DEF p
<1>2. /\ list' = [list EXCEPT ![e] = p] /\ ahead' = [ahead EXCEPT ![e] = InSlot(p)]
      /\ key' = [key EXCEPT ![e] = k] /\ circle' = [circle EXCEPT ![e] = d \div N]
      /\ adding' = e /\ left' = [left EXCEPT ![e] = d + 1]
      /\ disturbed' = IF Scanning(p) THEN disturbed \cup {e} ELSE disturbed \ {e}
      /\ UNCHANGED <<currentPos, locationMap, pc, slot, elem, next, torn>>
    BY DEF addTask, PushBack, getPosition, getCircle, p, scan
<1>3. list[e] = None /\ \A g \in Scanner : elem[g] # e /\ next[g] # e
    BY DEF addTask, Free, Linked
<1>4. TypeOK'
    <2>1. InSlot(p) \subseteq Elem /\ d + 1 \in Int
        BY <1>1 DEF InSlot
    <2> QED BY <1>0, <1>1, <1>2, <2>1 DEF TypeOK
<1>5. \A f \in Elem : /\ list'[f] = IF f = e THEN p ELSE list[f]
                      /\ ahead'[f] = IF f = e THEN InSlot(p) ELSE ahead[f]
    BY <1>0, <1>2 DEF TypeOK
<1>6. p # None
    BY <1>1 DEF Slot
<1>7. Order'
    <2>1. \A f \in Elem : e \notin ahead[f] /\ ahead[f] \subseteq Elem
        BY <1>0, <1>3 DEF Order, TypeOK, Linked
    <2>2. ahead[e] = {}
        BY <1>0, <1>3 DEF Order, Linked
    <2> SUFFICES ASSUME NEW x \in Elem
                 PROVE  /\ x \notin ahead'[x]
                        /\ \A f \in ahead'[x] :
                             /\ list'[x] # None /\ list'[f] = list'[x]
                             /\ ahead'[f] \subseteq ahead'[x] /\ x \notin ahead'[f]
                        /\ \A f \in Elem : list'[x] # None /\ list'[f] = list'[x]
                             => x = f \/ x \in ahead'[f] \/ f \in ahead'[x]
        BY DEF Order, Linked
    <2>3. CASE x = e
        <3>1. list'[x] = p /\ ahead'[x] = InSlot(p) /\ e \notin InSlot(p)
            BY <1>3, <1>5, <1>6, <2>3 DEF InSlot
        <3>2. \A f \in InSlot(p) : /\ f \in Elem /\ f # e /\ list'[f] = p
                                  /\ ahead'[f] = ahead[f] /\ ahead[f] \subseteq InSlot(p)
            BY <1>0, <1>5, <2>1, <3>1 DEF InSlot, Order
        <3>3. \A f \in Elem \ {e} : list'[f] = p => f \in InSlot(p)
            BY <1>5 DEF InSlot
        <3> QED BY <1>6, <2>1, <2>3, <3>1, <3>2, <3>3
    <2>4. CASE x # e
        <3>1. list'[x] = list[x] /\ ahead'[x] = ahead[x]
            BY <1>5, <2>4
        <3>2. \A f \in ahead[x] : f \in Elem /\ list'[f] = list[f] /\ ahead'[f] = ahead[f]
            BY <1>5, <2>1
        <3>3. x \notin ahead'[x] /\ \A f \in ahead'[x] :
                   /\ list'[x] # None /\ list'[f] = list'[x]
                   /\ ahead'[f] \subseteq ahead'[x] /\ x \notin ahead'[f]
            BY <1>0, <3>1, <3>2 DEF Order, Linked
        <3>4. ASSUME NEW f \in Elem, list'[x] # None, list'[f] = list'[x]
              PROVE  x = f \/ x \in ahead'[f] \/ f \in ahead'[x]
            <4>1. CASE f = e
                BY <1>5, <3>1, <3>4, <4>1 DEF InSlot
            <4>2. CASE f # e
                BY <1>0, <1>5, <3>1, <3>4, <4>2 DEF Order, Linked
            <4> QED BY <4>1, <4>2
        <3> QED BY <3>3, <3>4
    <2> QED BY <2>3, <2>4
<1>8. Scans'
    BY <1>0, <1>2, <1>3, <1>5 DEF Scans, Linked, TypeOK
<1>9. OnTime'
    <2> SUFFICES ASSUME NEW f \in Elem, Linked(f)', f \notin disturbed'
                 PROVE  left'[f] = N * circle'[f] + Distance(list'[f], currentPos) + 1
                          - (IF \E g \in Scanner : Towards(g, f)' THEN N ELSE 0)
        BY <1>2 DEF OnTime, Distance
    <2>1. CASE f = e
        <3>1. ~Scanning(p)
            BY <1>2, <2>1
        <3>2. \A g \in Scanner : ~Towards(g, f)'
            BY <1>2, <1>5, <2>1, <3>1 DEF Towards, Scanning
        <3>3. left'[f] = d + 1 /\ circle'[f] = d \div N /\ list'[f] = p
            BY <1>0, <1>2, <1>5, <2>1 DEF TypeOK
        <3>4. left'[f] = N * circle'[f] + Distance(list'[f], currentPos) + 1
            BY <1>1, <3>3
        <3>5. left'[f] \in Int
            BY <1>1, <3>3
        <3> QED BY <3>2, <3>3, <3>4, <3>5, <1>1
    <2>2. CASE f # e
        <3>1. /\ left'[f] = left[f] /\ circle'[f] = circle[f] /\ list'[f] = list[f]
              /\ Linked(f) /\ f \notin disturbed
            BY <1>0, <1>2, <1>5, <2>2 DEF TypeOK, Linked
        <3>2. \A g \in Scanner : Towards(g, f)' <=> Towards(g, f)
            BY <1>2, <1>5, <2>2 DEF Towards
        <3> QED BY <1>0, <3>1, <3>2 DEF OnTime
    <2> QED BY <2>1, <2>2
<1> QED BY <1>4, <1>7, <1>8, <1>9 DEF WheelInv

\* Removing a task (by its key, or for its replacement) moves the due time of
\* no task but those it cuts off from their scan.
LEMMA RemoveTask ==
    ASSUME WheelInv, NEW e \in Elem \cup {None}, Remove(e), NotDue(e),
           UNCHANGED <<currentPos, key, circle, scan, torn>>,
           locationMap' \in [Key -> Elem \cup {None}], adding' \in Elem \cup {None}
    PROVE  WheelInv'
<1>0. TypeOK /\ Order /\ Scans /\ OnTime
    BY DEF WheelInv
<1>1. /\ Order' /\ list' \in [Elem -> Slot \cup {None}] /\ ahead' \in [Elem -> SUBSET Elem]
      /\ \A f \in Elem \ {e} : list'[f] = list[f] /\ ahead'[f] = ahead[f] \ {e}
      /\ e \in Elem => list'[e] = None
    BY <1>0, RemoveKeepsOrder
<1>2. TypeOK'
    BY <1>0, <1>1 DEF TypeOK, NotDue, CutOff, scan
<1>3. Scans'
    BY <1>0, <1>1 DEF Scans, Linked, scan
<1>4. OnTime'
    <2> SUFFICES ASSUME NEW f \in Elem, Linked(f)', f \notin disturbed'
                 PROVE  /\ Linked(f) /\ f \notin disturbed
                        /\ list'[f] = list[f] /\ circle'[f] = circle[f] /\ left'[f] = left[f]
                        /\ \A g \in Scanner : Towards(g, f)' <=> Towards(g, f)
        BY <1>0, SameDue
    <2>1. f # e /\ list'[f] = list[f] /\ ahead'[f] = ahead[f] \ {e}
        BY <1>1 DEF Linked
    <2>2. f \notin disturbed /\ left'[f] = left[f] /\ ~(Held(e) /\ e \in ahead[f])
        BY <2>1 DEF NotDue, CutOff
    <2>3. \A g \in Scanner : Towards(g, f)' <=> Towards(g, f)
        BY <2>1, <2>2 DEF Towards, Held, scan
    <2> QED BY <2>1, <2>2, <2>3 DEF Linked
<1> QED BY <1>1, <1>2, <1>3, <1>4 DEF WheelInv

\* The wheel turns by one slot, the scan of the slot it leaves begins.
LEMMA TickHandler ==
    ASSUME WheelInv, NEW g \in Scanner, tickHandler(g)
    PROVE  WheelInv'
<1> USE NAssumption, NoneAssumption
<1>0. TypeOK /\ Order /\ Scans /\ OnTime
    BY DEF WheelInv
<1> DEFINE c == currentPos
<1>1. /\ pc[g] = "idle" /\ \A h \in Scanner : pc[h] # "idle" => slot[h] # c
      /\ currentPos' = IF c = N - 1 THEN 0 ELSE c + 1
      /\ pc' = [pc EXCEPT ![g] = "front"] /\ slot' = [slot EXCEPT ![g] = c]
      /\ left' = [e \in Elem |-> IF Linked(e) /\ e \notin disturbed
                                  THEN left[e] - 1 ELSE 0]
      /\ UNCHANGED <<list, ahead, key, circle, locationMap, adding, elem, next,
                     torn, disturbed>>
    BY DEF tickHandler, ScannedInTime, Scanning
<1>2. TypeOK'
    <2>1. currentPos' \in Slot
        <3>1. c \in 0 .. N-1
            BY <1>0 DEF TypeOK, Slot
        <3>2. currentPos' = IF c = N - 1 THEN 0 ELSE c + 1
            BY <1>1
        <3> HIDE DEF c
        <3> QED BY <3>1, <3>2 DEF Slot
    <2>2. left' \in [Elem -> Int]
        BY <1>0, <1>1 DEF TypeOK
    <2>3. pc' \in [Scanner -> {"idle", "front", "visit", "unlink", "forget"}]
          /\ slot' \in [Scanner -> Slot]
        BY <1>0, <1>1 DEF TypeOK
    <2> QED BY <1>0, <1>1, <2>1, <2>2, <2>3 DEF TypeOK
<1>3. Order'
    BY <1>0, <1>1 DEF Order, Linked
<1>4. Scans'
    BY <1>0, <1>1 DEF Scans, Linked, TypeOK
<1>5. OnTime'
    <2> SUFFICES ASSUME NEW e \in Elem, Linked(e), e \notin disturbed
                 PROVE  left'[e] = N * circle[e] + Distance(list[e], currentPos') + 1
                          - (IF \E h \in Scanner : Towards(h, e)' THEN N ELSE 0)
        BY <1>1 DEF OnTime, Linked, Distance
    <2>1. /\ left'[e] = left[e] - 1 /\ left[e] \in Int
          /\ list[e] \in Slot /\ c \in Slot /\ circle[e] \in Nat
        BY <1>0, <1>1 DEF TypeOK, Linked
    <2>2. left[e] = N * circle[e] + Distance(list[e], c) + 1
                      - (IF \E h \in Scanner : Towards(h, e) THEN N ELSE 0)
        BY <1>0 DEF OnTime
    <2>3. PICK m \in Int : m = N * circle[e]
        BY <2>1
    <2>4. CASE list[e] = c
        <3>1. ~\E h \in Scanner : Towards(h, e)
            BY <1>0, <1>1, <2>4 DEF Towards
        <3>2. Towards(g, e)'
            BY <1>0, <1>1, <2>4 DEF Towards, TypeOK
        <3>3. Distance(list[e], c) = 0 /\ Distance(list[e], currentPos') = N - 1
            BY <1>1, <2>1, <2>4 DEF Distance, Slot
        <3> QED BY <2>1, <2>2, <2>3, <3>1, <3>2, <3>3
    <2>5. CASE list[e] # c
        <3>1. \A h \in Scanner : Towards(h, e)' <=> Towards(h, e)
            <4> SUFFICES ASSUME NEW h \in Scanner
                         PROVE  Towards(h, e)' <=> Towards(h, e)
                OBVIOUS
            <4>1. CASE h = g
                BY <1>0, <1>1, <2>5, <4>1 DEF Towards, TypeOK
            <4>2. CASE h # g
                BY <1>0, <1>1, <4>2 DEF Towards, TypeOK
            <4> QED BY <4>1, <4>2
        <3>2. /\ Distance(list[e], currentPos') = Distance(list[e], c) - 1
              /\ Distance(list[e], c) \in Int
            BY <1>1, <2>1, <2>5 DEF Distance, Slot
        <3>3. CASE \E h \in Scanner : Towards(h, e)
            <4>1. \E h \in Scanner : Towards(h, e)'
                BY <3>1, <3>3
            <4>2. left[e] = m + Distance(list[e], c) + 1 - N
                BY <2>2, <2>3, <3>3
            <4>3. left'[e] = m + Distance(list[e], currentPos') + 1 - N
                BY <2>1, <3>2, <4>2
            <4> QED BY <2>3, <4>1, <4>3
        <3>4. CASE ~\E h \in Scanner : Towards(h, e)
            BY <2>1, <2>2, <2>3, <3>1, <3>2, <3>4
        <3> QED BY <3>3, <3>4
    <2> QED BY <2>4, <2>5
<1> QED BY <1>2, <1>3, <1>4, <1>5 DEF WheelInv

\* The scan starts at the front of its list.
LEMMA ScanFront ==
    ASSUME WheelInv, NEW g \in Scanner, scanFront(g)
    PROVE  WheelInv'
<1> USE NoneAssumption
<1>0. TypeOK /\ Order /\ Scans /\ OnTime
    BY DEF WheelInv
<1>1. PICK f \in First(InSlot(slot[g])) : GoOn(g, f)
    BY DEF scanFront
<1>2. /\ pc[g] = "front"
      /\ UNCHANGED <<currentPos, list, ahead, key, circle, locationMap, adding,
                     torn, left, disturbed>>
    BY DEF scanFront, wheel, history
<1>3. \/ f = None /\ InSlot(slot[g]) = {}
      \/ f \in Elem /\ list[f] = slot[g] /\ ahead[f] \cap InSlot(slot[g]) = {}
    BY DEF First, InSlot
<1>4. /\ elem' = [elem EXCEPT ![g] = f] /\ next' = [next EXCEPT ![g] = None]
      /\ slot' = [slot EXCEPT ![g] = IF f = None THEN 0 ELSE @]
      /\ pc' = [pc EXCEPT ![g] = IF f = None THEN "idle" ELSE "visit"]
    BY <1>1 DEF GoOn
<1>5. TypeOK'
    BY <1>0, <1>2, <1>3, <1>4, NAssumption DEF TypeOK, Slot
<1>6. Order'
    BY <1>0, <1>2 DEF Order, Linked
<1>7. Scans'
    BY <1>0, <1>2, <1>3, <1>4 DEF Scans, Linked, TypeOK
<1>8. OnTime'
    <2> SUFFICES ASSUME NEW e \in Elem, Linked(e), NEW h \in Scanner
                 PROVE  Towards(h, e)' <=> Towards(h, e)
        BY <1>0, <1>2, SameDue DEF Linked
    <2>1. CASE h # g
        BY <1>0, <1>2, <1>4, <2>1 DEF Towards, TypeOK
    <2>2. CASE h = g /\ f = None
        BY <1>0, <1>2, <1>3, <1>4, <2>2 DEF Towards, TypeOK, InSlot
    <2>3. CASE h = g /\ f # None
        <3>1. list[e] = slot[g] => f = e \/ f \in ahead[e]
            BY <1>0, <1>3, <2>3 DEF Order, InSlot, Linked
        <3> QED BY <1>0, <1>2, <1>4, <2>3, <3>1 DEF Towards, TypeOK
    <2> QED BY <2>1, <2>2, <2>3
<1> QED BY <1>5, <1>6, <1>7, <1>8 DEF WheelInv

\* A scan that passes an element moves on to the element behind it.
LEMMA PassOver ==
    ASSUME TypeOK, Order, Scans, NEW g \in Scanner, pc[g] \in {"visit", "unlink"},
           NEW f \in NextOf(elem[g]), NEW x \in Elem, Linked(x), x # elem[g],
           slot[g] = list[x]
    PROVE  elem[g] \in ahead[x] <=> (f = x \/ f \in ahead[x])
<1>1. elem[g] \in Elem /\ (Linked(elem[g]) => list[x] = list[elem[g]])
    BY DEF Scans
<1> QED BY <1>1, NextSplits

\* e.Next() is in the scan's list, and in front of nothing the scan has passed.
LEMMA NextInSlot ==
    ASSUME TypeOK, Order, Scans, NEW g \in Scanner, pc[g] \in {"visit", "unlink"},
           NEW f \in NextOf(elem[g])
    PROVE  /\ f \in Elem \cup {None}
           /\ f # None => /\ f # elem[g] /\ Linked(elem[g]) /\ Linked(f)
                          /\ list[f] = slot[g] /\ f \notin ahead[elem[g]]
<1>1. elem[g] \in Elem /\ (Linked(elem[g]) => list[elem[g]] = slot[g])
    BY DEF Scans
<1>2. f = None \/ f \in After(elem[g])
    BY DEF NextOf, First
<1> QED BY <1>1, <1>2 DEF After, Order, Linked

\* A rotation less: the skipped task is due when its slot comes round again.
LEMMA ScanSkip ==
    ASSUME WheelInv, NEW g \in Scanner, scanSkip(g)
    PROVE  WheelInv'
<1> USE NoneAssumption, NAssumption
<1>0. TypeOK /\ Order /\ Scans /\ OnTime
    BY DEF WheelInv
<1> DEFINE x == elem[g]
<1>1. PICK f \in NextOf(x) : GoOn(g, f)
    BY DEF scanSkip
<1>2. /\ pc[g] = "visit" /\ circle[x] > 0 /\ circle' = [circle EXCEPT ![x] = @ - 1]
      /\ UNCHANGED <<currentPos, list, ahead, key, locationMap, adding, torn,
                     left, disturbed>>
    BY DEF scanSkip, history
<1>3. x \in Elem /\ (Linked(x) => list[x] = slot[g])
    BY <1>0, <1>2 DEF Scans
<1>4. /\ f \in Elem \cup {None}
      /\ f # None => /\ f # x /\ Linked(x) /\ Linked(f)
                     /\ list[f] = slot[g] /\ f \notin ahead[x]
    BY <1>0, <1>2, NextInSlot
<1>5. /\ elem' = [elem EXCEPT ![g] = f] /\ next' = [next EXCEPT ![g] = None]
      /\ slot' = [slot EXCEPT ![g] = IF f = None THEN 0 ELSE @]
      /\ pc' = [pc EXCEPT ![g] = IF f = None THEN "idle" ELSE "visit"]
    BY <1>1 DEF GoOn
<1>6. circle' \in [Elem -> Nat]
      /\ \A e \in Elem : circle'[e] = IF e = x THEN circle[x] - 1 ELSE circle[e]
    BY <1>0, <1>2, <1>3 DEF TypeOK
<1>7. TypeOK'
    BY <1>0, <1>2, <1>4, <1>5, <1>6 DEF TypeOK, Slot
<1>8. Order'
    BY <1>0, <1>2 DEF Order, Linked
<1>9. Scans'
    <2>1. \A h \in Scanner \ {g} : /\ elem'[h] = elem[h] /\ next'[h] = next[h]
                                  /\ slot'[h] = slot[h] /\ pc'[h] = pc[h]
        BY <1>0, <1>5 DEF TypeOK
    <2>2. \A h \in Scanner : pc[h] = "unlink" => circle'[elem[h]] = 0
        BY <1>0, <1>2, <1>3, <1>6 DEF Scans
    <2>3. /\ elem'[g] = f /\ slot'[g] = IF f = None THEN 0 ELSE slot[g]
          /\ pc'[g] = IF f = None THEN "idle" ELSE "visit"
        BY <1>0, <1>5 DEF TypeOK
    <2> QED BY <1>0, <1>2, <1>4, <2>1, <2>2, <2>3 DEF Scans, Linked
<1>10. \A h \in Scanner \ {g} : \A e \in Elem : Towards(h, e)' <=> Towards(h, e)
    BY <1>0, <1>2, <1>5 DEF Towards, TypeOK
<1>11. \A e \in Elem : Towards(g, e)' <=>
           f # None /\ slot[g] = list[e] /\ (f = e \/ f \in ahead[e])
    BY <1>0, <1>2, <1>5 DEF Towards, TypeOK
<1>12. \A e \in Elem : Towards(g, e) <=>
           slot[g] = list[e] /\ (x = e \/ x \in ahead[e])
    BY <1>2 DEF Towards
<1>13. ASSUME NEW e \in Elem, Linked(e), e \notin disturbed
       PROVE  left[e] = N * circle'[e] + Distance(list[e], currentPos) + 1
                        - (IF \E h \in Scanner : Towards(h, e)' THEN N ELSE 0)
    <2>1. left[e] = N * circle[e] + Distance(list[e], currentPos) + 1
                    - (IF \E h \in Scanner : Towards(h, e) THEN N ELSE 0)
        BY <1>0, <1>13 DEF OnTime
    <2>2. CASE e # x
        <3>1. slot[g] = list[e] => (x \in ahead[e] <=> f = e \/ f \in ahead[e])
            BY <1>0, <1>2, <1>13, <2>2, PassOver
        <3>2. None \notin ahead[e] /\ None # e
            BY <1>0 DEF TypeOK
        <3>3. \A h \in Scanner : Towards(h, e)' <=> Towards(h, e)
            BY <1>10, <1>11, <1>12, <2>2, <3>1, <3>2
        <3>4. circle'[e] = circle[e]
            BY <1>6, <2>2
        <3> QED BY <2>1, <3>3, <3>4
    <2>3. CASE e = x
        <3>1. Towards(g, e)
            BY <1>3, <1>12, <1>13, <2>3
        <3>2. ~Towards(g, e)'
            BY <1>4, <1>11, <2>3
        <3>3. \A h \in Scanner \ {g} : ~Towards(h, e)
            BY <1>0, <1>2, <1>3, <1>13, <2>3 DEF Towards, Scans
        <3>4. ~\E h \in Scanner : Towards(h, e)'
            BY <1>10, <3>2, <3>3
        <3>5. circle[e] \in Nat /\ circle'[e] = circle[e] - 1
            BY <1>0, <1>6, <2>3 DEF TypeOK
        <3>6. N * circle[e] = N * circle'[e] + N
            BY <3>5
        <3>7. PICK m \in Int, d \in Int :
                m = N * circle'[e] /\ d = Distance(list[e], currentPos)
            <4>1. list[e] \in Int /\ currentPos \in Int
                BY <1>0, <1>13 DEF TypeOK, Slot, Linked
            <4> QED BY <3>5, <4>1 DEF Distance
        <3>8. left[e] = (m + N) + d + 1 - N
            BY <2>1, <3>1, <3>6, <3>7
        <3>9. left[e] = m + d + 1
            BY <3>7, <3>8
        <3> QED BY <3>4, <3>7, <3>9
    <2> QED BY <2>2, <2>3
<1>14. OnTime'
    BY <1>2, <1>13 DEF OnTime, Linked, Distance
<1> QED BY <1>7, <1>8, <1>9, <1>14 DEF WheelInv

\* A task is dispatched only when it has no rotation left.
LEMMA ScanDispatch ==
    ASSUME WheelInv, NEW g \in Scanner, scanDispatch(g)
    PROVE  WheelInv'
<1>0. TypeOK /\ Order /\ Scans /\ OnTime
    BY DEF WheelInv
<1>1. /\ pc[g] = "visit" /\ circle[elem[g]] = 0 /\ pc' = [pc EXCEPT ![g] = "unlink"]
      /\ UNCHANGED <<currentPos, list, ahead, key, circle, locationMap, adding,
                     slot, elem, next, torn, left, disturbed>>
    BY DEF scanDispatch, wheel, history
<1>2. TypeOK'
    BY <1>0, <1>1 DEF TypeOK
<1>3. Order'
    BY <1>0, <1>1 DEF Order, Linked
<1>4. Scans'
    BY <1>0, <1>1 DEF Scans, Linked, TypeOK
<1>5. \A e \in Elem : \A h \in Scanner : Towards(h, e)' <=> Towards(h, e)
    BY <1>0, <1>1 DEF Towards, TypeOK
<1>6. OnTime'
    BY <1>0, <1>1, <1>5, SameDue DEF Linked
<1> QED BY <1>2, <1>3, <1>4, <1>6 DEF WheelInv

\* The dispatched task leaves its list; the scan keeps its place.
LEMMA ScanUnlink ==
    ASSUME WheelInv, NEW g \in Scanner, scanUnlink(g)
    PROVE  WheelInv'
<1> USE NoneAssumption
<1>0. TypeOK /\ Order /\ Scans /\ OnTime
    BY DEF WheelInv
<1> DEFINE x == elem[g]
<1>1. PICK f \in NextOf(x) : next' = [next EXCEPT ![g] = f]
    BY DEF scanUnlink
<1>2. /\ pc[g] = "unlink" /\ Remove(x) /\ pc' = [pc EXCEPT ![g] = "forget"]
      /\ left' = [left EXCEPT ![x] = 0] /\ disturbed' = disturbed \ {x}
      /\ UNCHANGED <<currentPos, key, circle, locationMap, adding, slot, elem, torn>>
    BY DEF scanUnlink
<1>3. x \in Elem /\ (Linked(x) => list[x] = slot[g])
    BY <1>0, <1>2 DEF Scans
<1>4. /\ f \in Elem \cup {None}
      /\ f # None => /\ f # x /\ Linked(x) /\ Linked(f)
                     /\ list[f] = slot[g] /\ f \notin ahead[x]
    BY <1>0, <1>2, NextInSlot
<1>5. /\ Order' /\ list' \in [Elem -> Slot \cup {None}] /\ ahead' \in [Elem -> SUBSET Elem]
      /\ \A e \in Elem \ {x} : list'[e] = list[e] /\ ahead'[e] = ahead[e] \ {x}
      /\ list'[x] = None
    BY <1>0, <1>2, <1>3, RemoveKeepsOrder
<1>6. TypeOK'
    <2>1. next' \in [Scanner -> Elem \cup {None}]
        BY <1>0, <1>1, <1>4 DEF TypeOK
    <2>2. pc' \in [Scanner -> {"idle", "front", "visit", "unlink", "forget"}]
        BY <1>0, <1>2 DEF TypeOK
    <2>3. left' \in [Elem -> Int] /\ disturbed' \in SUBSET Elem
        BY <1>0, <1>2, <1>3 DEF TypeOK
    <2> QED BY <1>0, <1>2, <1>5, <2>1, <2>2, <2>3 DEF TypeOK
<1>7. Scans'
    <2>1. \A h \in Scanner \ {g} : next'[h] = next[h] /\ pc'[h] = pc[h]
        BY <1>0, <1>1, <1>2 DEF TypeOK
    <2>2. next'[g] = f /\ pc'[g] = "forget"
        BY <1>0, <1>1, <1>2 DEF TypeOK
    <2>3. \A e \in Elem : list'[e] # None => list'[e] = list[e]
        BY <1>5
    <2> QED BY <1>0, <1>2, <1>3, <1>4, <2>1, <2>2, <2>3 DEF Scans, Linked
<1>8. OnTime'
    <2> SUFFICES ASSUME NEW e \in Elem, Linked(e)', e \notin disturbed'
                 PROVE  /\ Linked(e) /\ e \notin disturbed
                        /\ list'[e] = list[e] /\ circle'[e] = circle[e] /\ left'[e] = left[e]
                        /\ \A h \in Scanner : Towards(h, e)' <=> Towards(h, e)
        BY <1>0, <1>2, SameDue
    <2>1. e # x /\ list'[e] = list[e] /\ ahead'[e] = ahead[e] \ {x}
        BY <1>5 DEF Linked
    <2>2. Linked(e) /\ e \notin disturbed /\ left'[e] = left[e] /\ circle'[e] = circle[e]
        BY <1>0, <1>2, <1>3, <2>1 DEF Linked, TypeOK
    <2>3. ASSUME NEW h \in Scanner PROVE Towards(h, e)' <=> Towards(h, e)
        <3>1. CASE h = g
            <4>1. slot[g] = list[e] => (x \in ahead[e] <=> f = e \/ f \in ahead[e])
                BY <1>0, <1>2, <2>1, <2>2, PassOver
            <4>2. Towards(g, e) <=> slot[g] = list[e] /\ x \in ahead[e]
                BY <1>2, <2>1 DEF Towards
            <4>3. Towards(g, e)' <=> slot[g] = list[e] /\ (f = e \/ f \in ahead[e] \ {x})
                BY <1>0, <1>1, <1>2, <2>1 DEF Towards, TypeOK
            <4>4. f # x
                BY <1>3, <1>4
            <4> QED BY <3>1, <4>1, <4>2, <4>3, <4>4
        <3>2. CASE h # g
            <4>1. /\ pc'[h] = pc[h] /\ next'[h] = next[h] /\ slot' = slot /\ elem' = elem
                BY <1>0, <1>1, <1>2, <3>2 DEF TypeOK
            <4>2. slot[h] = list[e] /\ x \in ahead[e] => pc[h] = "idle"
                <5>1. x \in ahead[e] => Linked(x) /\ list[x] = list[e]
                    BY <1>0, <1>3, <2>2 DEF Order, Linked
                <5> QED BY <1>0, <1>2, <1>3, <3>2, <5>1 DEF Scans, TypeOK
            <4> QED BY <2>1, <4>1, <4>2 DEF Towards
        <3> QED BY <3>1, <3>2
    <2> QED BY <2>1, <2>2, <2>3
<1> QED BY <1>5, <1>6, <1>7, <1>8 DEF WheelInv

\* The location is deleted; the scan goes on with the element it kept.
LEMMA ScanForget ==
    ASSUME WheelInv, NEW g \in Scanner, scanForget(g)
    PROVE  WheelInv'
<1> USE NoneAssumption, NAssumption
<1>0. TypeOK /\ Order /\ Scans /\ OnTime
    BY DEF WheelInv
<1> DEFINE f == next[g]
<1>1. /\ pc[g] = "forget"
      /\ UNCHANGED <<currentPos, list, ahead, key, circle, adding, torn, left, disturbed>>
      /\ elem' = [elem EXCEPT ![g] = f] /\ next' = [next EXCEPT ![g] = None]
      /\ slot' = [slot EXCEPT ![g] = IF f = None THEN 0 ELSE @]
      /\ pc' = [pc EXCEPT ![g] = IF f = None THEN "idle" ELSE "visit"]
    BY DEF scanForget, GoOn, history
<1>2. locationMap' \in [Key -> Elem \cup {None}]
    BY <1>0 DEF scanForget, TypeOK
<1>3. TypeOK'
    BY <1>0, <1>1, <1>2 DEF TypeOK, Slot
<1>4. Order'
    BY <1>0, <1>1 DEF Order, Linked
<1>5. /\ \A h \in Scanner \ {g} : /\ elem'[h] = elem[h] /\ next'[h] = next[h]
                                   /\ slot'[h] = slot[h] /\ pc'[h] = pc[h]
      /\ elem'[g] = f /\ slot'[g] = IF f = None THEN 0 ELSE slot[g]
      /\ pc'[g] = IF f = None THEN "idle" ELSE "visit"
      /\ f \in Elem \cup {None}
    BY <1>0, <1>1 DEF TypeOK
<1>6. Scans'
    BY <1>0, <1>1, <1>5 DEF Scans, Linked
<1>7. \A e \in Elem : None \notin ahead[e]
    BY <1>0 DEF TypeOK
<1>8. ASSUME NEW e \in Elem, NEW h \in Scanner PROVE Towards(h, e)' <=> Towards(h, e)
    <2>1. CASE h # g
        BY <1>1, <1>5, <2>1 DEF Towards
    <2>2. CASE h = g /\ f = None
        <3>1. ~Towards(g, e)
            BY <1>1, <1>7, <2>2 DEF Towards
        <3>2. ~Towards(g, e)'
            BY <1>1, <1>5, <2>2 DEF Towards
        <3> QED BY <2>2, <3>1, <3>2
    <2>3. CASE h = g /\ f # None
        BY <1>1, <1>5, <2>3 DEF Towards
    <2> QED BY <2>1, <2>2, <2>3
<1>9. OnTime'
    BY <1>0, <1>1, <1>8, SameDue DEF Linked
<1> QED BY <1>3, <1>4, <1>6, <1>9 DEF WheelInv

\* Every step of the wheel and of its scans keeps the agreement.
LEMMA NextInv == WheelInv /\ [Next]_vars => WheelInv'
<1> SUFFICES ASSUME WheelInv, [Next]_vars PROVE WheelInv'
    OBVIOUS
<1>1. CASE registerTask
    <2> DEFINE k == key[adding]
               old == IF k = EmptyKey THEN None ELSE locationMap[k]
    <2>1. adding \in Elem /\ k \in Key /\ old \in Elem \cup {None}
        BY <1>1 DEF registerTask, WheelInv, TypeOK
    <2>2. /\ Remove(old) /\ NotDue(old) /\ adding' = None
          /\ locationMap' = [locationMap EXCEPT ![k] = adding]
          /\ UNCHANGED <<currentPos, key, circle, scan, torn>>
        BY <1>1 DEF registerTask
    <2>3. locationMap' \in [Key -> Elem \cup {None}]
        BY <2>1, <2>2 DEF WheelInv, TypeOK
    <2> HIDE DEF old, k
    <2> QED BY <2>1, <2>2, <2>3, RemoveTask
<1>2. ASSUME NEW k \in Key, removeTask(k) PROVE WheelInv'
    <2>1. /\ Remove(locationMap[k]) /\ NotDue(locationMap[k])
          /\ locationMap' = [locationMap EXCEPT ![k] = None]
          /\ UNCHANGED <<currentPos, key, circle, adding, scan, torn>>
        BY <1>2 DEF removeTask
    <2>2. locationMap[k] \in Elem \cup {None} /\ adding' \in Elem \cup {None}
          /\ locationMap' \in [Key -> Elem \cup {None}]
        BY <2>1 DEF WheelInv, TypeOK
    <2> QED BY <2>1, <2>2, RemoveTask
<1>3. CASE overlap \/ UNCHANGED vars
    <2>1. UNCHANGED <<wheel, scan, history>> /\ torn' \in BOOLEAN
        BY <1>3 DEF overlap, vars, WheelInv, TypeOK
    <2>2. TypeOK' /\ Order' /\ Scans'
        BY <2>1 DEF WheelInv, TypeOK, Order, Scans, Linked, wheel, scan, history
    <2>3. \A e \in Elem : \A h \in Scanner : Towards(h, e)' <=> Towards(h, e)
        BY <2>1 DEF Towards, wheel, scan
    <2>4. OnTime'
        BY <2>1, <2>3, SameDue DEF WheelInv, Linked, wheel, history
    <2> QED BY <2>2, <2>4 DEF WheelInv
<1> QED
    BY <1>1, <1>2, <1>3, AddTask, TickHandler, ScanFront, ScanSkip, ScanDispatch,
       ScanUnlink, ScanForget
    DEF Next, Tick, scanAndRunTask

-----------------------------------------------------------------------------
\* The agreement always holds.
THEOREM WheelInvariant == Spec => []WheelInv
BY InitInv, NextInv, PTL DEF Spec

\* The variables of the wheel keep their types: no index leaves the table of
\* slots, no rotation count goes below zero.
THEOREM TypeCorrect == Spec => []TypeOK
<1>1. WheelInv => TypeOK
    BY DEF WheelInv
<1> QED BY <1>1, WheelInvariant, PTL

(***************************************************************************)
(* For every wheel and every delay: filing, counting down and turning      *)
(* agree on when a task is due (getPositionAndCircle, scanAndRunTask,      *)
(* tickHandler).                                                           *)
(***************************************************************************)
THEOREM OnTimeHolds == Spec => []OnTime
<1>1. WheelInv => OnTime
    BY DEF WheelInv
<1> QED BY <1>1, WheelInvariant, PTL

(***************************************************************************)
(* For every wheel and every delay: a task no race has touched runs in the *)
(* rotation in which its delay ends (scanAndRunTask), not earlier and not  *)
(* later.                                                                  *)
(***************************************************************************)
THEOREM DispatchHolds == Spec => []DispatchWhenDue
<1>1. WheelInv => DispatchWhenDue
    <2> SUFFICES ASSUME WheelInv, NEW g \in Scanner, NEW e \in Elem,
                        pc[g] = "unlink", elem[g] = e, Linked(e), e \notin disturbed
                 PROVE  left[e] \in (1 - N) .. 0
        BY DEF DispatchWhenDue
    <2>1. Towards(g, e) /\ circle[e] = 0
        BY DEF WheelInv, Scans, Towards
    <2>2. N * circle[e] = 0
        BY <2>1, NAssumption
    <2>3. Distance(list[e], currentPos) \in 0..N-1
        BY NAssumption DEF WheelInv, TypeOK, Linked, Distance, Slot
    <2>4. left[e] = 0 + Distance(list[e], currentPos) + 1 - N
        BY <2>1, <2>2 DEF WheelInv, OnTime
    <2> QED BY <2>3, <2>4, NAssumption
<1> QED BY <1>1, WheelInvariant, PTL
=============================================================================
