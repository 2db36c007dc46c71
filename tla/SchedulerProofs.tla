-------------------------- MODULE SchedulerProofs --------------------------
(***************************************************************************)
(* Proofs about the standalone scheduler, for every set of jobs, handlers  *)
(* and goroutines: the type of the state, the agreement of locationMap and *)
(* the slots, and that every id of job_keys_set has its hash, now and      *)
(* after a restart from any prefix of the file.                            *)
(***************************************************************************)
EXTENDS Scheduler, FiniteSetTheorems, TLAPS

-----------------------------------------------------------------------------
(* The job set.                                                            *)

\* AddJob is under way: the id is not yet in job_keys_set.
Creating(t) == \/ thread[t].pc = "sadd"
               \/ thread[t].pc = "hmset" /\ thread[t].op \in {"create", "run"}

\* A handler that creates a job holds an id nobody else has; every other
\* operation is on an id that clients were given.
IdsOwned ==
    /\ \A t \in Thread : thread[t].pc # "idle" =>
          (Creating(t) <=> thread[t].job \notin known)
    /\ \A t, u \in Thread :
          Creating(t) /\ Creating(u) /\ thread[t].job = thread[u].job => t = u
    /\ \A t \in Thread : At(t, "check") => thread[t].op \notin {"create", "run"}

\* Between the two commands of AddJob the hash is there, between the two
\* commands of RemoveJob the id has left the set.
HalfWay ==
    \A t \in Thread : /\ At(t, "sadd") => db.hash[thread[t].job] # None
                      /\ At(t, "del") => thread[t].job \notin db.keys

\* Ids enter the set when their creator answers.
KeysKnown ==
    /\ db.keys \subseteq known /\ disk.keys \subseteq known
    /\ \A i \in DOMAIN aof : aof[i].keys \subseteq known

JobInv == IdsOwned /\ HalfWay /\ KeysKnown /\ JobSetBacked

-----------------------------------------------------------------------------
(* Frames, records of the store and free elements.                         *)

Busy == [pc     : {"info", "add", "cancel", "srem", "del", "check", "hmset", "sadd"},
         op     : {"create", "run", "update", "enable", "disable", "remove"},
         job    : Job,
         entity : Entity]

\* A thread that is not idle works on a job.
LEMMA FrameFacts ==
    /\ Frame = {Idle} \cup Busy
    /\ Idle \notin Busy /\ Idle.pc = "idle" /\ Idle.job = None
    /\ Blank \in Entity
    /\ \A f \in Frame : f.pc # "idle" => f \in Busy
    /\ \A f \in Busy : f.pc # "idle"
BY DEF Frame, Busy, Idle, Blank, Entity

\* HMGET and HMSET move entities.
LEMMA GetJobInfoType ==
    ASSUME TypeOK, NEW j \in Job
    PROVE  GetJobInfo(j) \in Entity
BY FrameFacts DEF TypeOK, Store, GetJobInfo

\* Whatever is in the wheel, a push finds an element that is in no slot
\* (list.New allocates): elements in slots have different keys.
LEMMA FreeElement ==
    ASSUME TypeOK, WheelIndexed
    PROVE  \E e \in Elem : elem[e] = None
<1> SUFFICES ASSUME \A e \in Elem : elem[e] # None
             PROVE  FALSE
    OBVIOUS
<1> DEFINE f == [e \in Elem |-> elem[e].key]
<1>1. \A e \in Elem : elem[e].key \in Job
    BY DEF TypeOK, Task
<1>2. \A e, x \in Elem : f[e] = f[x] => e = x
    BY <1>1 DEF WheelIndexed
<1>3. f \in Injection(Elem, Job)
    BY <1>1, <1>2 DEF Injection, IsInjective
<1>4. Cardinality(Elem) <= Cardinality(Job)
    BY <1>3, FS_Injection, ElemAssumption
<1> QED
    BY <1>4, FS_CardinalityType, ElemAssumption

-----------------------------------------------------------------------------
(* The type invariant and the wheel.                                       *)

\* A push keeps the types and the agreement of locationMap and the slots.
LEMMA AddTaskWheel ==
    ASSUME TypeOK, WheelIndexed, NEW j \in Job, NEW d \in Nat, handleAddTask(j, d)
    PROVE  /\ elem' \in [Elem -> Task \cup {None}]
           /\ location' \in [Job -> Elem \cup {None}]
           /\ WheelIndexed'
           /\ currentPos' = currentPos /\ scans' = scans
<1> DEFINE e0 == CHOOSE e \in Elem : elem[e] = None
           task == [key |-> j, pos |-> (currentPos + d) % N]
<1>1. e0 \in Elem /\ elem[e0] = None
    BY FreeElement
<1>2. task \in Task /\ task # None /\ task.key = j
    <2>1. (currentPos + d) % N \in 0..N-1
        BY SlotAssumption DEF TypeOK
    <2> QED  BY <2>1, NoneAssumption DEF Task
<1> HIDE DEF e0, task
<1>3. /\ elem' = [handleRemove(elem, location, j) EXCEPT ![e0] = task]
      /\ location' = [location EXCEPT ![j] = e0]
      /\ UNCHANGED <<currentPos, scans>>
    BY DEF handleAddTask, e0, task
<1>4. /\ elem' \in [Elem -> Task \cup {None}]
      /\ location' \in [Job -> Elem \cup {None}]
    BY <1>1, <1>2, <1>3 DEF TypeOK, handleRemove
<1>5. WheelIndexed'
    <2> SUFFICES ASSUME NEW e \in Elem, NEW k \in Job
                 PROVE  location'[k] = e <=> (elem'[e] # None /\ elem'[e].key = k)
        BY DEF WheelIndexed
    <2>1. location[j] # None => location[j] \in Elem /\ elem[location[j]].key = j
                                /\ elem[location[j]] # None
        BY DEF TypeOK, WheelIndexed
    <2>2. CASE e = e0
        BY <1>1, <1>2, <1>3, <2>2, NoneAssumption DEF TypeOK, WheelIndexed, handleRemove
    <2>3. CASE e # e0 /\ e = location[j]
        BY <1>1, <1>2, <1>3, <2>1, <2>3, NoneAssumption DEF TypeOK, WheelIndexed, handleRemove
    <2>4. CASE e # e0 /\ e # location[j]
        BY <1>1, <1>2, <1>3, <2>1, <2>4, NoneAssumption DEF TypeOK, WheelIndexed, handleRemove
    <2> QED  BY <2>2, <2>3, <2>4
<1> QED  BY <1>3, <1>4, <1>5

\* So does the removal of a key.
LEMMA RemoveWheel ==
    ASSUME TypeOK, WheelIndexed, NEW j \in Job,
           elem' = handleRemove(elem, location, j),
           location' = [location EXCEPT ![j] = None]
    PROVE  /\ elem' \in [Elem -> Task \cup {None}]
           /\ location' \in [Job -> Elem \cup {None}]
           /\ WheelIndexed'
<1>1. /\ elem' \in [Elem -> Task \cup {None}]
      /\ location' \in [Job -> Elem \cup {None}]
    BY DEF TypeOK, handleRemove
<1>2. WheelIndexed'
    <2> SUFFICES ASSUME NEW e \in Elem, NEW k \in Job
                 PROVE  location'[k] = e <=> (elem'[e] # None /\ elem'[e].key = k)
        BY DEF WheelIndexed
    <2>1. location[j] # None => location[j] \in Elem /\ elem[location[j]].key = j
        BY DEF TypeOK, WheelIndexed
    <2> QED  BY <2>1, NoneAssumption DEF TypeOK, WheelIndexed, handleRemove
<1> QED  BY <1>1, <1>2

\* A process that died has an empty wheel, idle threads and what the file leads to.
LEMMA DieType ==
    ASSUME TypeOK, Die
    PROVE  TypeOK' /\ WheelIndexed'
<1>1. TypeOK'
    <2>1. thread' \in [Thread -> Frame]
        BY FrameFacts DEF Die
    <2>2. 0 \in 0..N-1
        BY SlotAssumption
    <2>3. db' \in Store /\ disk' \in Store /\ aof' \in Seq(Store)
        BY DEF TypeOK, Die
    <2>4. elem' \in [Elem -> Task \cup {None}] /\ location' \in [Job -> Elem \cup {None}]
        BY DEF Die
    <2>5. alive' \in BOOLEAN /\ restarts' \in 0..MaxRestart /\ known' \subseteq Job
        BY DEF TypeOK, Die
    <2>6. currentPos' \in 0..N-1 /\ scans' \subseteq 0..N-1
        BY <2>2 DEF Die
    <2> QED  BY <2>1, <2>3, <2>4, <2>5, <2>6 DEF TypeOK
<1>2. WheelIndexed'
    BY NoneAssumption DEF WheelIndexed, Die
<1> QED  BY <1>1, <1>2

\* A write command keeps the type of the store.
LEMMA WriteType ==
    ASSUME TypeOK, NEW d \in Store, Write(d)
    PROVE  db' \in Store /\ disk' \in Store /\ aof' \in Seq(Store)
BY DEF TypeOK, Write

LEMMA HMSetType ==
    ASSUME TypeOK, NEW j \in Job, NEW e \in Entity \cup {None}, HMSet(j, e)
    PROVE  db' \in Store /\ disk' \in Store /\ aof' \in Seq(Store)
<1>1. [db EXCEPT !.hash[j] = e] \in Store
    BY DEF TypeOK, Store
<1> QED  BY <1>1, WriteType DEF HMSet

\* Every step keeps the types and the index of the wheel.
LEMMA TypeStep ==
    ASSUME TypeOK, WheelIndexed, [Next]_vars
    PROVE  TypeOK' /\ WheelIndexed'
<1> USE FrameFacts
<1>0. /\ \A t \in Thread : thread[t].pc # "idle" => thread[t] \in Busy
      /\ \A t \in Thread : thread[t].pc # "idle" => thread[t].job \in Job
                                                /\ thread[t].entity \in Entity
      /\ Handler \subseteq Thread /\ Routine \subseteq Thread
    BY DEF TypeOK, Busy, Thread
<1>b. ASSUME NEW h \in Handler, NEW op, NEW j \in Job, NEW e \in Entity, Begin(h, op, j, e)
      PROVE  TypeOK' /\ WheelIndexed'
    <2>1. thread' \in [Thread -> Frame]
        BY <1>0, <1>b, OpsAssumption DEF TypeOK, Begin, Busy
    <2> QED  BY <2>1, <1>b DEF TypeOK, WheelIndexed, Begin, storage, wheel
<1>1. ASSUME NEW h \in Handler, Request(h)
      PROVE  TypeOK' /\ WheelIndexed'
    <2> PICK j \in Job : \/ \E type \in Types : Create(h, j, type) \/ Run(h, j, type)
                        \/ Update(h, j) \/ Remove(h, j)
                        \/ \E op \in {"enable", "disable"} : Start(h, op, j)
        BY <1>1 DEF Request
    <2>1. ASSUME NEW type \in Types, Create(h, j, type) \/ Run(h, j, type)
          PROVE  TypeOK' /\ WheelIndexed'
        <3>1. \A s \in {"stop", "runnable"} :
                 [type |-> type, state |-> s, cron |-> type = "timing"] \in Entity
            BY OpsAssumption DEF Entity
        <3> QED  BY <2>1, <3>1, <1>b DEF Create, Run
    <2>2. CASE Update(h, j) \/ Remove(h, j)
        BY <2>2, <1>b DEF Update, Remove
    <2>3. ASSUME NEW op \in {"enable", "disable"}, Start(h, op, j)
          PROVE  TypeOK' /\ WheelIndexed'
        BY <2>3, <1>b DEF Start
    <2> QED  BY <2>1, <2>2, <2>3
<1>2. ASSUME NEW t \in Thread, Proceed(t)
      PROVE  TypeOK' /\ WheelIndexed'
    <2> DEFINE j == thread[t].job
    <2>r. Return(t) \in [Thread -> Frame]
        BY DEF TypeOK, Return
    <2>g. ASSUME NEW p \in {"info", "hmset", "srem", "del", "sadd"}, thread[t].pc # "idle"
          PROVE  Goto(t, p) \in [Thread -> Frame]
        BY <1>0, <2>g DEF TypeOK, Goto, Busy
    <2>1. CASE getInfo(t)
        <3>1. GetJobInfo(j) \in Entity
            BY <1>0, <2>1, GetJobInfoType DEF getInfo, At
        <3>2. thread' \in [Thread -> Frame]
            <4>1. [thread[t] EXCEPT !.pc = "add", !.entity = GetJobInfo(j)] \in Busy
                BY <1>0, <2>1, <3>1 DEF getInfo, At, Busy
            <4>2. thread' = [thread EXCEPT ![t] =
                               [thread[t] EXCEPT !.pc = "add", !.entity = GetJobInfo(j)]]
                BY <2>1 DEF getInfo, TypeOK
            <4> QED  BY <4>1, <4>2 DEF TypeOK
        <3> QED  BY <2>1, <3>2 DEF TypeOK, WheelIndexed, getInfo, storage, wheel
    <2>2. CASE addExpired(t)
        BY <2>2, <2>r DEF TypeOK, WheelIndexed, addExpired, storage, wheel
    <2>3. CASE addPanic(t)
        <3>1. CASE Die
            BY <3>1, DieType
        <3>2. CASE ~Die
            <4>1. thread' = Return(t) /\ UNCHANGED <<storage, wheel, alive, restarts, known>>
                BY <2>3, <3>2 DEF addPanic
            <4> QED  BY <4>1, <2>r DEF TypeOK, WheelIndexed, storage, wheel
        <3> QED  BY <3>1, <3>2
    <2>4. CASE cancelJob(t)
        <3>1. j \in Job /\ thread' \in [Thread -> Frame]
            BY <1>0, <2>4, <2>r, <2>g DEF cancelJob, At
        <3>2. /\ elem' \in [Elem -> Task \cup {None}]
              /\ location' \in [Job -> Elem \cup {None}]
              /\ WheelIndexed'
            BY <2>4, <3>1, RemoveWheel DEF cancelJob
        <3> QED  BY <2>4, <3>1, <3>2 DEF TypeOK, cancelJob, storage
    <2>5. ASSUME NEW d \in 0..MaxDelay, addJob(t, d)
          PROVE  TypeOK' /\ WheelIndexed'
        <3>1. j \in Job /\ d \in Nat
            BY <1>0, <2>5 DEF addJob, At
        <3>2. /\ elem' \in [Elem -> Task \cup {None}]
              /\ location' \in [Job -> Elem \cup {None}]
              /\ WheelIndexed'
              /\ currentPos' = currentPos /\ scans' = scans
            BY <2>5, <3>1, AddTaskWheel DEF addJob
        <3> QED  BY <2>5, <2>r, <3>2 DEF TypeOK, addJob, storage
    <2>6. CASE check(t)
        <3>1. Goto(t, "hmset") \in [Thread -> Frame]
            BY <2>6, <2>g DEF check, At
        <3>2. thread' \in [Thread -> Frame]
            BY <2>6, <3>1, <2>r DEF check
        <3> QED  BY <2>6, <3>2 DEF TypeOK, WheelIndexed, check, storage, wheel
    <2>7. CASE addHash(t)
        <3>1. db' \in Store /\ disk' \in Store /\ aof' \in Seq(Store)
            BY <1>0, <2>7, HMSetType DEF addHash, At
        <3>2. thread' \in [Thread -> Frame]
            BY <2>7, <2>g DEF addHash, At
        <3> QED  BY <2>7, <3>1, <3>2 DEF TypeOK, WheelIndexed, addHash, wheel
    <2>8. CASE addKey(t)
        <3>1. j \in Job /\ [db EXCEPT !.keys = @ \cup {j}] \in Store
            BY <1>0, <2>8 DEF addKey, At, TypeOK, Store
        <3>2. db' \in Store /\ disk' \in Store /\ aof' \in Seq(Store)
            BY <2>8, <3>1, WriteType DEF addKey
        <3>3. thread' \in [Thread -> Frame]
            BY <2>8, <2>g, <2>r DEF addKey, At
        <3> QED  BY <2>8, <3>1, <3>2, <3>3 DEF TypeOK, WheelIndexed, addKey, wheel
    <2>9. CASE updateTime(t)
        <3>1. j \in Job /\ GetJobInfo(j) \in Entity
            BY <1>0, <2>9, GetJobInfoType DEF updateTime, At
        <3>2. PICK cron \in BOOLEAN : HMSet(j, [GetJobInfo(j) EXCEPT !.cron = cron])
            BY <2>9 DEF updateTime
        <3>3. [GetJobInfo(j) EXCEPT !.cron = cron] \in Entity
            BY <3>1 DEF Entity
        <3>4. db' \in Store /\ disk' \in Store /\ aof' \in Seq(Store)
            BY <3>1, <3>2, <3>3, HMSetType
        <3>5. thread' \in [Thread -> Frame]
            BY <2>9, <2>g DEF updateTime, At
        <3> QED  BY <2>9, <3>4, <3>5 DEF TypeOK, WheelIndexed, updateTime, wheel
    <2>10. CASE removeKey(t)
        <3>1. [db EXCEPT !.keys = @ \ {j}] \in Store
            BY DEF TypeOK, Store
        <3>2. db' \in Store /\ disk' \in Store /\ aof' \in Seq(Store)
            BY <2>10, <3>1, WriteType DEF removeKey, storage, TypeOK
        <3>3. thread' \in [Thread -> Frame]
            BY <2>10, <2>g, <2>r DEF removeKey, At
        <3> QED  BY <2>10, <3>2, <3>3 DEF TypeOK, WheelIndexed, removeKey, wheel
    <2>11. CASE removeHash(t)
        <3>1. db' \in Store /\ disk' \in Store /\ aof' \in Seq(Store)
            BY <1>0, <2>11, HMSetType DEF removeHash, At, storage, TypeOK
        <3> QED  BY <2>11, <2>r, <3>1 DEF TypeOK, WheelIndexed, removeHash, wheel
    <2>12. ASSUME NEW g \in Routine, updateState(t, g)
           PROVE  TypeOK' /\ WheelIndexed'
        <3>1. j \in Job /\ GetJobInfo(j) \in Entity
            BY <1>0, <2>12, GetJobInfoType DEF updateState, At
        <3>2. \A s \in {"stop", "runnable"} : [GetJobInfo(j) EXCEPT !.state = s] \in Entity
            BY <3>1 DEF Entity
        <3>3. db' \in Store /\ disk' \in Store /\ aof' \in Seq(Store)
            BY <2>12, <3>1, <3>2, HMSetType DEF updateState
        <3>4. \A p \in {"info", "cancel"} : [thread[t] EXCEPT !.entity = Blank, !.pc = p] \in Busy
            BY <1>0, <2>12 DEF updateState, At, Busy
        <3>5. thread' \in [Thread -> Frame]
            BY <1>0, <2>12, <3>4 DEF updateState, TypeOK
        <3> QED  BY <2>12, <3>3, <3>5 DEF TypeOK, WheelIndexed, updateState, wheel
    <2> QED
        BY <1>2, <2>1, <2>2, <2>3, <2>4, <2>5, <2>6, <2>7, <2>8, <2>9, <2>10, <2>11, <2>12
        DEF Proceed
<1>3. CASE handleAof
    <2>1. Head(aof) \in Store /\ Tail(aof) \in Seq(Store)
        BY <1>3 DEF handleAof, TypeOK
    <2> QED  BY <1>3, <2>1 DEF handleAof, TypeOK, WheelIndexed, wheel
<1>4. CASE tickHandler
    <2>1. currentPos' \in 0..N-1 /\ scans' \subseteq 0..N-1
        BY <1>4, SlotAssumption DEF tickHandler, TypeOK
    <2> QED  BY <1>4, <2>1 DEF tickHandler, TypeOK, WheelIndexed, storage
<1>5. ASSUME NEW p \in scans, scanAndRunTask(p)
      PROVE  TypeOK' /\ WheelIndexed'
    <2>1. CASE Die
        BY <2>1, DieType
    <2>2. CASE ~Die
        <3>1. /\ scans' = scans \ {p}
              /\ UNCHANGED <<storage, thread, elem, location, currentPos, alive, restarts, known>>
            BY <1>5, <2>2 DEF scanAndRunTask
        <3> QED  BY <3>1 DEF TypeOK, WheelIndexed, storage
    <2> QED  BY <2>1, <2>2
<1>6. CASE kill
    BY <1>6, DieType DEF kill
<1>7. CASE StartStandalone
    BY <1>7, BoundAssumption DEF StartStandalone, TypeOK, WheelIndexed, storage, wheel
<1>8. CASE UNCHANGED vars
    BY <1>8 DEF vars, TypeOK, WheelIndexed, storage, wheel
<1> QED
    BY <1>1, <1>2, <1>3, <1>4, <1>5, <1>6, <1>7, <1>8 DEF Next, scan

\* An empty store, no elements, idle threads.
LEMMA TypeInit == Init => TypeOK /\ WheelIndexed
<1> SUFFICES ASSUME Init PROVE TypeOK /\ WheelIndexed
    OBVIOUS
<1>1. Empty \in Store
    BY DEF Empty, Store
<1>2. 0 \in 0..N-1 /\ 0 \in 0..MaxRestart
    BY SlotAssumption, BoundAssumption
<1>3. thread \in [Thread -> Frame]
    BY FrameFacts DEF Init
<1>4. TypeOK
    BY <1>1, <1>2, <1>3 DEF Init, TypeOK
<1>5. WheelIndexed
    BY NoneAssumption DEF Init, WheelIndexed
<1> QED  BY <1>4, <1>5

\* The state always has its type.
THEOREM SchedulerTypeOK == Spec => []TypeOK
BY TypeInit, TypeStep, PTL DEF Spec

\* locationMap and the slots describe each other after any sequence of adds,
\* cancellations, ticks, panics and restarts, however handlers and goroutines
\* interleave: a key has at most one element in the wheel, and its location
\* leads to it (handleAddTask, handleRemove).
THEOREM WheelAlwaysIndexed == Spec => []WheelIndexed
BY TypeInit, TypeStep, PTL DEF Spec

-----------------------------------------------------------------------------
(* The job set.                                                            *)

\* What a write command must keep: the map it leads to is backed by hashes of
\* known ids, and so is every prefix of the file.
LEMMA WriteBacked ==
    ASSUME TypeOK, KeysKnown, JobSetBacked, NEW d \in Store, Write(d),
           Backed(d), d.keys \subseteq known', known \subseteq known'
    PROVE  KeysKnown' /\ JobSetBacked'
<1>1. /\ Len(aof') = Len(aof) + 1
      /\ aof'[Len(aof) + 1] = d
      /\ \A i \in 1..Len(aof) : aof'[i] = aof[i]
      /\ DOMAIN aof = 1..Len(aof) /\ DOMAIN aof' = 1..Len(aof') /\ Len(aof) \in Nat
    BY DEF Write, TypeOK
<1>2. \A i \in DOMAIN aof' : i \in DOMAIN aof \/ i = Len(aof) + 1
    BY <1>1
<1> QED  BY <1>1, <1>2 DEF Write, KeysKnown, JobSetBacked

\* Writing a hash (not deleting it) or deleting the hash of an id that is not
\* in the set.
LEMMA HMSetBacked ==
    ASSUME TypeOK, KeysKnown, JobSetBacked, NEW j \in Job, NEW e \in Entity \cup {None},
           HMSet(j, e), e = None => j \notin db.keys, known' = known
    PROVE  KeysKnown' /\ JobSetBacked'
<1> DEFINE d == [db EXCEPT !.hash[j] = e]
<1>1. d \in Store /\ d.keys = db.keys
    BY DEF TypeOK, Store
<1>2. Backed(d)
    BY NoneAssumption DEF TypeOK, Store, JobSetBacked, Backed
<1> HIDE DEF d
<1>3. Write(d)
    BY DEF HMSet, d
<1> QED  BY <1>1, <1>2, <1>3, WriteBacked DEF KeysKnown

\* A thread that goes on, or ends, with the id it had keeps the books, when it
\* is creating the job after the step just as it was before.
LEMMA GoOn ==
    ASSUME TypeOK, IdsOwned, NEW t \in Thread, NEW f, thread' = [thread EXCEPT ![t] = f],
           thread[t].pc # "idle", known' = known,
           \/ f = Idle
           \/ /\ f.job = thread[t].job /\ f.pc # "check"
              /\ Creating(t) <=> \/ f.pc = "sadd"
                                 \/ f.pc = "hmset" /\ f.op \in {"create", "run"}
    PROVE  IdsOwned'
<1>1. thread'[t] = f /\ \A u \in Thread \ {t} : thread'[u] = thread[u]
    BY DEF TypeOK
<1>2. \A u \in Thread \ {t} : Creating(u)' <=> Creating(u)
    BY <1>1 DEF Creating
<1>3. \/ thread'[t].pc = "idle" /\ ~Creating(t)'
      \/ /\ thread'[t].job = thread[t].job /\ thread'[t].pc # "check"
         /\ Creating(t)' <=> Creating(t)
    BY <1>1, FrameFacts DEF Creating
<1> QED  BY <1>1, <1>2, <1>3 DEF IdsOwned, At

\* A process that died leaves what the file leads to.
LEMMA DieJobInv ==
    ASSUME JobInv, Die
    PROVE  JobInv'
<1>1. \A t \in Thread : thread'[t].pc = "idle"
    BY FrameFacts DEF Die
<1> QED  BY <1>1 DEF JobInv, IdsOwned, HalfWay, KeysKnown, JobSetBacked, Creating, Die, At

\* Every step keeps the invariant.
LEMMA JobStep ==
    ASSUME TypeOK, JobInv, [Next]_vars
    PROVE  JobInv'
<1> USE FrameFacts
<1>0. /\ \A t \in Thread : thread[t].pc # "idle" => thread[t] \in Busy
      /\ \A t \in Thread : thread[t].pc # "idle" => thread[t].job \in Job
                                                /\ thread[t].entity \in Entity
      /\ Handler \subseteq Thread /\ Routine \subseteq Thread
    BY DEF TypeOK, Busy, Thread
<1>u. ASSUME UNCHANGED storage, UNCHANGED known
      PROVE  KeysKnown' /\ JobSetBacked'
    BY <1>u DEF JobInv, KeysKnown, JobSetBacked, storage
<1>b. ASSUME NEW h \in Handler, NEW op \in Ops, NEW j \in Job, NEW e, Begin(h, op, j, e),
             IF op \in {"create", "run"} THEN Fresh(j) ELSE j \in known \cup db.keys
      PROVE  JobInv'
    <2>1. /\ thread'[h].job = j /\ thread'[h].op = op /\ thread[h].pc = "idle"
          /\ thread'[h].pc \in {"hmset", "check", "cancel"}
          /\ thread'[h].pc = "hmset" <=> op \in {"create", "run"}
          /\ \A u \in Thread \ {h} : thread'[u] = thread[u]
        BY <1>b, <1>0, OpsAssumption DEF Begin, TypeOK, At
    <2>2. Creating(h)' <=> op \in {"create", "run"}
        BY <2>1 DEF Creating
    <2>3. \A u \in Thread \ {h} : Creating(u)' <=> Creating(u)
        BY <2>1 DEF Creating
    <2>4. db' = db /\ known' = known /\ KeysKnown' /\ JobSetBacked'
        BY <1>b, <1>u DEF Begin, storage
    <2>5. j \in known <=> op \notin {"create", "run"}
        BY <1>b DEF JobInv, KeysKnown, Fresh
    <2>6. IdsOwned'
        <3>1. op \in {"create", "run"} => \A u \in Thread : thread[u].job # j
            BY <1>b DEF Fresh
        <3> QED  BY <2>1, <2>2, <2>3, <2>4, <2>5, <3>1 DEF JobInv, IdsOwned, At
    <2>7. HalfWay'
        BY <2>1, <2>4 DEF JobInv, HalfWay, At
    <2> QED  BY <2>4, <2>6, <2>7 DEF JobInv
<1>1. ASSUME NEW h \in Handler, Request(h)
      PROVE  JobInv'
    <2> PICK j \in Job : \/ \E type \in Types : Create(h, j, type) \/ Run(h, j, type)
                        \/ Update(h, j) \/ Remove(h, j)
                        \/ \E op \in {"enable", "disable"} : Start(h, op, j)
        BY <1>1 DEF Request
    <2>0. \A op, e : Begin(h, op, j, e) => op \in Ops
        BY DEF Begin
    <2>1. ASSUME NEW type \in Types, Create(h, j, type) \/ Run(h, j, type)
          PROVE  JobInv'
        BY <2>0, <2>1, <1>b DEF Create, Run
    <2>2. CASE Update(h, j) \/ Remove(h, j)
        BY <2>0, <2>2, <1>b DEF Update, Remove
    <2>3. ASSUME NEW op \in {"enable", "disable"}, Start(h, op, j)
          PROVE  JobInv'
        BY <2>0, <2>3, <1>b DEF Start
    <2> QED  BY <2>1, <2>2, <2>3
<1>2. ASSUME NEW t \in Thread, Proceed(t)
      PROVE  JobInv'
    <2> DEFINE j == thread[t].job
    <2>j. thread[t].pc # "idle" => j \in Job
        BY <1>0
    <2>r. ASSUME thread' = Return(t), thread[t].pc # "idle", UNCHANGED <<storage, known>>
          PROVE  JobInv'
        <3>1. IdsOwned'
            BY <2>r, GoOn DEF Return, JobInv
        <3>2. HalfWay'
            BY <2>r DEF Return, JobInv, HalfWay, At, storage, TypeOK
        <3> QED  BY <2>r, <3>1, <3>2, <1>u DEF JobInv
    <2>g. ASSUME NEW p \in {"info", "add", "cancel", "srem"}, ~Creating(t), NEW f,
                 thread[t].pc # "idle", thread' = [thread EXCEPT ![t] = f],
                 f.job = j, f.pc = p \/ (f.pc = "hmset" /\ f.op \notin {"create", "run"}),
                 UNCHANGED <<storage, known>>
          PROVE  JobInv'
        <3>1. IdsOwned'
            BY <2>g, GoOn DEF JobInv
        <3>2. HalfWay'
            BY <2>g DEF JobInv, HalfWay, At, storage, TypeOK
        <3> QED  BY <2>g, <3>1, <3>2, <1>u DEF JobInv
    <2>1. CASE getInfo(t)
        <3>1. thread' = [thread EXCEPT ![t] =
                           [thread[t] EXCEPT !.pc = "add", !.entity = GetJobInfo(j)]]
            BY <2>1 DEF getInfo, TypeOK
        <3>2. LET f == [thread[t] EXCEPT !.pc = "add", !.entity = GetJobInfo(j)]
              IN  f.job = j /\ f.pc = "add"
            BY <2>1, <1>0 DEF getInfo, At, Busy
        <3> QED  BY <2>1, <2>g, <3>1, <3>2 DEF getInfo, At, Creating
    <2>2. CASE addExpired(t)
        BY <2>2, <2>r DEF addExpired, At
    <2>3. CASE addPanic(t)
        BY <2>3, <2>r, DieJobInv DEF addPanic, At
    <2>4. CASE cancelJob(t)
        <3>1. Goto(t, "srem") = [thread EXCEPT ![t] = [thread[t] EXCEPT !.pc = "srem"]]
            BY DEF Goto, TypeOK
        <3>2. LET f == [thread[t] EXCEPT !.pc = "srem"] IN f.job = j /\ f.pc = "srem"
            BY <2>4, <1>0 DEF cancelJob, At, Busy
        <3> QED  BY <2>4, <2>g, <2>r, <3>1, <3>2 DEF cancelJob, At, Creating
    <2>5. ASSUME NEW d \in 0..MaxDelay, addJob(t, d)
          PROVE  JobInv'
        BY <2>5, <2>r DEF addJob, At
    <2>6. CASE check(t)
        <3> DEFINE f == [thread[t] EXCEPT !.pc = "hmset"]
        <3>1. thread' = Return(t) \/ thread' = [thread EXCEPT ![t] = f]
            BY <2>6 DEF check, Goto, TypeOK
        <3>2. f.job = j /\ f.pc = "hmset" /\ f.op = thread[t].op
            BY <2>6, <1>0 DEF check, At, Busy
        <3>3. thread[t].op \notin {"create", "run"}
            BY <2>6 DEF check, JobInv, IdsOwned
        <3> QED  BY <2>6, <2>g, <2>r, <3>1, <3>2, <3>3 DEF check, At, Creating
    <2>w. ASSUME thread[t].pc # "idle", NEW f, f = Idle \/ (f.job = j /\ f.pc = "info"),
                 ~Creating(t), thread' = [thread EXCEPT ![t] = f], known' = known,
                 db'.keys = db.keys, NEW e \in Entity, db'.hash = [db.hash EXCEPT ![j] = e]
          PROVE  IdsOwned' /\ HalfWay'
        <3>1. IdsOwned'
            BY <2>w, GoOn DEF JobInv
        <3>2. \A k \in Job : db.hash[k] # None => db'.hash[k] # None
            BY <2>w, NoneAssumption DEF TypeOK, Store
        <3>3. HalfWay'
            BY <2>w, <3>2, <1>0 DEF JobInv, HalfWay, At, TypeOK
        <3> QED  BY <3>1, <3>3
    <2>7. CASE addHash(t)
        <3> DEFINE f == [thread[t] EXCEPT !.pc = "sadd"]
        <3>1. thread' = [thread EXCEPT ![t] = f] /\ thread[t].pc = "hmset"
            BY <2>7 DEF addHash, Goto, TypeOK, At
        <3>2. f.job = j /\ f.pc = "sadd" /\ j \in Job /\ thread[t].entity \in Entity /\ Creating(t)
            BY <3>1, <1>0, <2>7 DEF Busy, addHash, Creating, At
        <3>3. IdsOwned'
            BY <2>7, <3>1, <3>2, GoOn DEF JobInv, addHash
        <3>4. db'.keys = db.keys /\ db'.hash = [db.hash EXCEPT ![j] = thread[t].entity]
            BY <2>7 DEF addHash, HMSet, Write, TypeOK, Store
        <3>5. \A k \in Job : db.hash[k] # None \/ k = j => db'.hash[k] # None
            BY <3>2, <3>4, NoneAssumption DEF TypeOK, Store
        <3>6. HalfWay'
            BY <3>1, <3>2, <3>4, <3>5, <1>0 DEF JobInv, HalfWay, At, TypeOK
        <3>7. KeysKnown' /\ JobSetBacked'
            BY <2>7, <3>2, HMSetBacked, NoneAssumption DEF addHash, JobInv
        <3> QED  BY <3>3, <3>6, <3>7 DEF JobInv
    <2>8. CASE addKey(t)
        <3> DEFINE d == [db EXCEPT !.keys = @ \cup {j}]
        <3>1. j \in Job /\ thread[t] \in Busy /\ Creating(t) /\ db.hash[j] # None
            BY <1>0, <2>8 DEF addKey, At, Creating, JobInv, HalfWay
        <3>2. d \in Store /\ d.keys = db.keys \cup {j} /\ d.hash = db.hash
            BY <3>1 DEF TypeOK, Store
        <3>3. Write(d) /\ known' = known \cup {j}
            BY <2>8 DEF addKey
        <3> HIDE DEF d
        <3>4. KeysKnown' /\ JobSetBacked'
            BY <3>1, <3>2, <3>3, WriteBacked DEF JobInv, KeysKnown, JobSetBacked, Backed
        <3>5. db' = d
            BY <3>3 DEF Write
        <3>6. /\ thread'[t].pc = "idle" \/ (thread'[t].pc = "info" /\ thread'[t].job = j)
              /\ \A u \in Thread \ {t} : thread'[u] = thread[u]
            BY <2>8, <3>1 DEF addKey, TypeOK, Goto, Return, Busy
        <3>7. \A u \in Thread \ {t} :
                 /\ Creating(u)' <=> Creating(u)
                 /\ thread[u].pc # "idle" /\ Creating(u) => thread[u].job # j
                 /\ At(u, "del") => thread[u].job # j
            BY <3>1, <3>6 DEF Creating, JobInv, IdsOwned, At
        <3>8. ~Creating(t)'
            BY <3>6 DEF Creating
        <3>9. IdsOwned'
            BY <3>3, <3>6, <3>7, <3>8 DEF JobInv, IdsOwned, At
        <3>10. HalfWay'
            BY <3>2, <3>5, <3>6, <3>7 DEF JobInv, HalfWay, At
        <3> QED  BY <3>4, <3>9, <3>10 DEF JobInv
    <2>9. CASE updateTime(t)
        <3>0. PICK cron \in BOOLEAN : HMSet(j, [GetJobInfo(j) EXCEPT !.cron = cron])
            BY <2>9 DEF updateTime
        <3> DEFINE e == [GetJobInfo(j) EXCEPT !.cron = cron]
                   f == [thread[t] EXCEPT !.pc = "info"]
        <3>1. j \in Job /\ GetJobInfo(j) \in Entity /\ thread[t] \in Busy /\ ~Creating(t)
            BY <1>0, <2>9, GetJobInfoType DEF updateTime, At, Creating
        <3>2. e \in Entity
            BY <3>1 DEF Entity
        <3>3. HMSet(j, e) /\ known' = known
            BY <2>9, <3>0 DEF updateTime
        <3> HIDE DEF e
        <3>4. thread' = [thread EXCEPT ![t] = f] /\ f.job = j /\ f.pc = "info"
            BY <2>9, <3>1 DEF updateTime, Goto, TypeOK, Busy
        <3>5. db'.keys = db.keys /\ db'.hash = [db.hash EXCEPT ![j] = e]
            BY <3>3 DEF HMSet, Write, TypeOK, Store
        <3>6. KeysKnown' /\ JobSetBacked'
            BY <3>1, <3>2, <3>3, HMSetBacked, NoneAssumption DEF JobInv
        <3>7. thread[t].pc # "idle"
            BY <3>1
        <3> HIDE DEF f
        <3>8. IdsOwned' /\ HalfWay'
            BY <2>w, <3>1, <3>2, <3>3, <3>4, <3>5, <3>7
        <3> QED  BY <3>6, <3>8 DEF JobInv
    <2>10. CASE removeKey(t)
        <3> DEFINE d == [db EXCEPT !.keys = @ \ {j}]
                   f == [thread[t] EXCEPT !.pc = "del"]
        <3>1. j \in Job /\ thread[t] \in Busy /\ ~Creating(t) /\ thread[t].pc # "idle"
            BY <1>0, <2>10 DEF removeKey, At, Creating
        <3>2. CASE j \notin db.keys
            BY <2>10, <3>1, <3>2, <2>r DEF removeKey
        <3>3. CASE j \in db.keys
            <4>1. d \in Store /\ d.keys = db.keys \ {j} /\ d.hash = db.hash
                BY DEF TypeOK, Store
            <4>2. Write(d) /\ known' = known
                BY <2>10, <3>3 DEF removeKey
            <4>3. thread' = [thread EXCEPT ![t] = f] /\ f.job = j /\ f.pc = "del"
                BY <2>10, <3>1, <3>3 DEF removeKey, Goto, TypeOK, Busy
            <4> HIDE DEF d, f
            <4>4. KeysKnown' /\ JobSetBacked'
                BY <4>1, <4>2, WriteBacked DEF JobInv, KeysKnown, JobSetBacked, Backed
            <4>5. IdsOwned'
                BY <3>1, <4>2, <4>3, GoOn DEF JobInv
            <4>6. HalfWay'
                BY <4>1, <4>2, <4>3 DEF JobInv, HalfWay, At, TypeOK, Write
            <4> QED  BY <4>4, <4>5, <4>6 DEF JobInv
        <3> QED  BY <3>2, <3>3
    <2>11. CASE removeHash(t)
        <3>1. /\ j \in Job /\ thread[t].pc # "idle" /\ ~Creating(t)
              /\ j \notin db.keys /\ j \in known /\ thread' = Return(t)
            BY <1>0, <2>11 DEF removeHash, At, Creating, JobInv, HalfWay, IdsOwned
        <3>2. CASE db.hash[j] = None
            BY <2>11, <3>1, <3>2, <2>r DEF removeHash
        <3>3. CASE db.hash[j] # None
            <4>1. HMSet(j, None) /\ known' = known
                BY <2>11, <3>3 DEF removeHash
            <4>2. KeysKnown' /\ JobSetBacked'
                BY <3>1, <4>1, HMSetBacked DEF JobInv
            <4>3. IdsOwned'
                BY <3>1, <4>1, GoOn DEF JobInv, Return
            <4>4. db'.keys = db.keys /\ \A k \in Job \ {j} : db'.hash[k] = db.hash[k]
                BY <4>1 DEF HMSet, Write, TypeOK, Store
            <4>5. \A u \in Thread : At(u, "sadd") => thread[u].job \in Job \ {j}
                BY <3>1, <1>0 DEF At, JobInv, IdsOwned, Creating
            <4>6. HalfWay'
                BY <3>1, <4>4, <4>5 DEF JobInv, HalfWay, At, TypeOK, Return
            <4> QED  BY <4>2, <4>3, <4>6 DEF JobInv
        <3> QED  BY <3>2, <3>3
    <2>12. ASSUME NEW g \in Routine, updateState(t, g)
           PROVE  JobInv'
        <3> DEFINE e == [GetJobInfo(j) EXCEPT
                           !.state = IF thread[t].op = "enable" THEN "runnable" ELSE "stop"]
                   f == [thread[t] EXCEPT !.entity = Blank,
                           !.pc = IF thread[t].op = "enable" THEN "info" ELSE "cancel"]
        <3>1. /\ j \in Job /\ GetJobInfo(j) \in Entity /\ thread[t] \in Busy /\ ~Creating(t)
              /\ j \in known /\ t # g /\ g \in Thread
            BY <1>0, <2>12, GetJobInfoType DEF updateState, At, Creating, JobInv, IdsOwned
        <3>2. e \in Entity
            BY <3>1 DEF Entity
        <3>3. HMSet(j, e) /\ known' = known
            BY <2>12 DEF updateState
        <3> HIDE DEF e
        <3>4. f.job = j /\ f.pc \in {"info", "cancel"}
            BY <3>1 DEF Busy
        <3>5. /\ thread'[t] = Idle /\ thread'[g] = f
              /\ \A u \in Thread \ {t, g} : thread'[u] = thread[u]
            BY <2>12, <3>1 DEF updateState, TypeOK
        <3> HIDE DEF f
        <3>6. db'.keys = db.keys /\ db'.hash = [db.hash EXCEPT ![j] = e]
            BY <3>3 DEF HMSet, Write, TypeOK, Store
        <3>7. KeysKnown' /\ JobSetBacked'
            BY <3>1, <3>2, <3>3, HMSetBacked, NoneAssumption DEF JobInv
        <3>8. /\ ~Creating(t)' /\ ~Creating(g)'
              /\ \A u \in Thread \ {t, g} : Creating(u)' <=> Creating(u)
            BY <3>4, <3>5 DEF Creating
        <3>9. IdsOwned'
            BY <3>1, <3>3, <3>4, <3>5, <3>8 DEF JobInv, IdsOwned, At
        <3>10. \A k \in Job : db.hash[k] # None => db'.hash[k] # None
            BY <3>2, <3>6, NoneAssumption DEF TypeOK, Store
        <3>11. HalfWay'
            BY <1>0, <3>4, <3>5, <3>6, <3>10 DEF JobInv, HalfWay, At
        <3> QED  BY <3>7, <3>9, <3>11 DEF JobInv
    <2> QED
        BY <1>2, <2>1, <2>2, <2>3, <2>4, <2>5, <2>6, <2>7, <2>8, <2>9, <2>10, <2>11, <2>12
        DEF Proceed
<1>3. CASE handleAof
    <2>1. /\ disk' = aof[1] /\ 1 \in DOMAIN aof /\ db' = db /\ known' = known /\ thread' = thread
          /\ \A i \in DOMAIN aof' : i + 1 \in DOMAIN aof /\ aof'[i] = aof[i + 1]
        BY <1>3 DEF handleAof, TypeOK
    <2> QED  BY <2>1 DEF JobInv, IdsOwned, HalfWay, KeysKnown, JobSetBacked, Creating, At
<1>s. ASSUME UNCHANGED <<storage, thread, known>>
      PROVE  JobInv'
    BY <1>s DEF JobInv, IdsOwned, HalfWay, KeysKnown, JobSetBacked, Creating, At, storage
<1>4. CASE tickHandler
    BY <1>4, <1>s DEF tickHandler
<1>5. ASSUME NEW p \in scans, scanAndRunTask(p)
      PROVE  JobInv'
    BY <1>5, <1>s, DieJobInv DEF scanAndRunTask
<1>6. CASE kill
    BY <1>6, DieJobInv DEF kill
<1>7. CASE StartStandalone
    BY <1>7, <1>s DEF StartStandalone
<1>8. CASE UNCHANGED vars
    BY <1>8, <1>s DEF vars
<1> QED
    BY <1>1, <1>2, <1>3, <1>4, <1>5, <1>6, <1>7, <1>8 DEF Next, scan

\* No id, no hash, no thread.
LEMMA JobInit == Init => JobInv
<1> SUFFICES ASSUME Init PROVE JobInv
    OBVIOUS
<1>1. \A t \in Thread : thread[t].pc = "idle"
    BY FrameFacts DEF Init
<1> QED
    BY <1>1 DEF Init, Empty, JobInv, IdsOwned, HalfWay, KeysKnown, JobSetBacked, Backed,
               Creating, At

\* Every id of job_keys_set has its hash, in the map and in what every prefix
\* of the file leads to, although AddJob and RemoveJob are two commands each,
\* which handlers interleave and a crash can separate.
THEOREM JobSetAlwaysBacked == Spec => []JobSetBacked
<1>1. TypeOK /\ WheelIndexed /\ JobInv /\ [Next]_vars => (TypeOK /\ WheelIndexed /\ JobInv)'
    BY TypeStep, JobStep
<1>2. JobInv => JobSetBacked
    BY DEF JobInv
<1> QED  BY TypeInit, JobInit, <1>1, <1>2, PTL DEF Spec
=============================================================================
