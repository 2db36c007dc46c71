----------------------------- MODULE Scheduler -----------------------------
(***************************************************************************)
(* The standalone job scheduler: the HTTP handlers (src/server/server.go), *)
(* the job store they share (src/dao/localdb/localdb.go), the scheduler    *)
(* (src/schedule/schedule.go, standalone.go) and its time wheel            *)
(* (src/schedule/timeWheel.go).                                            *)
(*                                                                         *)
(* Handlers run concurrently.  Each command sent to the store is a step of *)
(* its own (all of them go through one connection, which answers in order) *)
(* and reaches the append-only file later; a send to the wheel's unbuffered*)
(* channels is one step with the wheel's handling of it.  A process that   *)
(* dies keeps only what is in the file.                                    *)
(*                                                                         *)
(* A request's time settings are valid, and a cron has a next time, which  *)
(* is any number of ticks up to MaxDelay away.                             *)
(***************************************************************************)
EXTENDS Naturals, Sequences, FiniteSets

CONSTANTS
    Job,         \* job ids
    Handler,     \* HTTP handlers
    Routine,     \* goroutines started with "go HandleJobStateChange"
    Elem,        \* list elements of the wheel
    None,        \* no element, no job record
    Ops,         \* the requests clients make
    Types,       \* the types of the jobs they create: "timing", "delay"
    N,           \* slotNum
    MaxDelay,    \* bound: ticks to the next time of a cron
    MaxAof,      \* bound: commands not yet in the file when a request comes
    MaxRestart   \* bound: restarts

ASSUME SlotAssumption == N \in Nat \ {0}
ASSUME OpsAssumption == /\ Ops \subseteq {"create", "run", "update", "enable", "disable", "remove"}
                        /\ Types \subseteq {"timing", "delay"}

\* What the store knows of a job: "cron" says that the job has one that parses.
Entity == [type : {"timing", "delay"}, state : {"stop", "runnable"}, cron : BOOLEAN]
Task   == [key : Job, pos : 0..N-1]

ASSUME NoneAssumption == None \notin Elem /\ None \notin Entity /\ None \notin Task

\* list.New allocates: an element is free whenever one is pushed.
ASSUME ElemAssumption == /\ IsFiniteSet(Job) /\ IsFiniteSet(Elem)
                         /\ Cardinality(Job) < Cardinality(Elem)
ASSUME BoundAssumption == MaxRestart \in Nat

VARIABLES
    db,          \* the job hashes and job_keys_set
    aof,         \* the states of db not yet in the file, oldest first
    disk,        \* the state of db the file leads to
    thread,      \* handlers and goroutines
    elem,        \* the elements in the slots
    location,    \* locationMap
    currentPos,
    scans,       \* slots handed to a scanAndRunTask that has not begun
    alive,       \* the process runs
    restarts,
    known        \* ids that clients have been given

wheel   == <<elem, location, currentPos, scans>>
storage == <<db, aof, disk>>
vars == <<storage, thread, wheel, alive, restarts, known>>

Thread == Handler \cup Routine

-----------------------------------------------------------------------------
(* The job store.                                                          *)

\* HMGET of a missing hash is no error: every field is empty.
Blank == [type |-> "timing", state |-> "stop", cron |-> FALSE]

GetJobInfo(j) == IF db.hash[j] = None THEN Blank ELSE db.hash[j]

\* A write command: the map changes, AddAof queues the command.
Write(d) == db' = d /\ aof' = Append(aof, d) /\ UNCHANGED disk

HMSet(j, e) == Write([db EXCEPT !.hash[j] = e])

\* The append-only file catches up by one command.
handleAof ==
    /\ alive /\ aof # <<>>
    /\ disk' = Head(aof)
    /\ aof' = Tail(aof)
    /\ UNCHANGED <<db, thread, wheel, alive, restarts, known>>

-----------------------------------------------------------------------------
(* The time wheel.                                                         *)

handleRemove(el, loc, j) == IF loc[j] = None THEN el ELSE [el EXCEPT ![loc[j]] = None]

\* Mutated: the old element of the key stays.
handleAddTask_KeepsOld(j, d) ==
    LET e == CHOOSE e \in Elem : elem[e] = None
    IN  /\ elem' = [elem EXCEPT ![e] = [key |-> j, pos |-> (currentPos + d) % N]]
        /\ location' = [location EXCEPT ![j] = e]
        /\ UNCHANGED <<currentPos, scans>>

\* The new element is pushed, the old one of the same key removed.
handleAddTask(j, d) ==
    LET e == CHOOSE e \in Elem : elem[e] = None
    IN  /\ elem' = [handleRemove(elem, location, j) EXCEPT
                      ![e] = [key |-> j, pos |-> (currentPos + d) % N]]
        /\ location' = [location EXCEPT ![j] = e]
        /\ UNCHANGED <<currentPos, scans>>

\* Mutated: the position runs past the last slot.
tickHandler_NoWrap ==
    /\ alive /\ currentPos \notin scans
    /\ scans' = scans \cup {currentPos}
    /\ currentPos' = IF currentPos = N THEN 0 ELSE currentPos + 1
    /\ UNCHANGED <<storage, thread, elem, location, alive, restarts, known>>

tickHandler ==
    /\ alive /\ currentPos \notin scans
    /\ scans' = scans \cup {currentPos}
    /\ currentPos' = IF currentPos = N - 1 THEN 0 ELSE currentPos + 1
    /\ UNCHANGED <<storage, thread, elem, location, alive, restarts, known>>

Idle == [pc |-> "idle", op |-> "none", job |-> None, entity |-> Blank]

\* The process ends: only the file is left.
Die ==
    /\ alive' = FALSE
    /\ db' = disk /\ aof' = <<>> /\ UNCHANGED disk
    /\ thread' = [t \in Thread |-> Idle]
    /\ elem' = [e \in Elem |-> None]
    /\ location' = [j \in Job |-> None]
    /\ currentPos' = 0 /\ scans' = {}
    /\ UNCHANGED <<restarts, known>>

\* The slots hold task values; the scan asserts a pointer to one and panics, in
\* a goroutine that does not recover, at the first element it finds.
scanAndRunTask(p) ==
    /\ p \in scans
    /\ IF \E e \in Elem : elem[e] # None /\ elem[e].pos = p
         THEN Die
         ELSE /\ scans' = scans \ {p}
              /\ UNCHANGED <<storage, thread, elem, location, currentPos, alive,
                             restarts, known>>

kill == alive /\ restarts < MaxRestart /\ Die

\* StartStandalone: the file is replayed, the wheel starts empty.
StartStandalone ==
    /\ ~alive /\ restarts < MaxRestart
    /\ alive' = TRUE
    /\ restarts' = restarts + 1
    /\ UNCHANGED <<storage, thread, wheel, known>>

-----------------------------------------------------------------------------
(* Steps shared by handlers and goroutines.                                *)

At(t, p) == thread[t].pc = p
Goto(t, p) == [thread EXCEPT ![t].pc = p]
Return(t) == [thread EXCEPT ![t] = Idle]

\* HandleJobStateChange, HandleJobTimeChange: dao.GetJobInfo.
getInfo(t) ==
    /\ At(t, "info")
    /\ thread' = [thread EXCEPT ![t].pc = "add", ![t].entity = GetJobInfo(thread[t].job)]
    /\ UNCHANGED <<storage, wheel, alive, restarts, known>>

\* addJob of a timing job: AddJob hands it to the wheel.
addJob(t, d) ==
    /\ At(t, "add") /\ thread[t].entity.type = "timing" /\ thread[t].entity.cron
    /\ handleAddTask(thread[t].job, d)
    /\ thread' = Return(t)
    /\ UNCHANGED <<storage, alive, restarts, known>>

\* addJob of a delay job: the time comes back from the store unreadable, as
\* the zero time: "delay job has expired".
addExpired(t) ==
    /\ At(t, "add") /\ thread[t].entity.type = "delay"
    /\ thread' = Return(t)
    /\ UNCHANGED <<storage, wheel, alive, restarts, known>>

\* ResolveCron of a cron that does not parse, an empty one say: MustParse panics.
\* gin recovers a handler, nothing recovers a goroutine.
addPanic(t) ==
    /\ At(t, "add") /\ thread[t].entity.type = "timing" /\ ~thread[t].entity.cron
    /\ IF t \in Routine THEN Die
       ELSE /\ thread' = Return(t)
            /\ UNCHANGED <<storage, wheel, alive, restarts, known>>

\* Mutated: the cancellation waits for a job that is in the wheel.
cancelJob_OfPresent(t) ==
    /\ At(t, "cancel") /\ location[thread[t].job] # None
    /\ elem' = handleRemove(elem, location, thread[t].job)
    /\ location' = [location EXCEPT ![thread[t].job] = None]
    /\ thread' = IF t \in Handler THEN Goto(t, "srem") ELSE Return(t)
    /\ UNCHANGED <<storage, currentPos, scans, alive, restarts, known>>

\* cancelJob: the wheel removes the key; Remove goes on with the store.
cancelJob(t) ==
    /\ At(t, "cancel")
    /\ elem' = handleRemove(elem, location, thread[t].job)
    /\ location' = [location EXCEPT ![thread[t].job] = None]
    /\ thread' = IF t \in Handler THEN Goto(t, "srem") ELSE Return(t)
    /\ UNCHANGED <<storage, currentPos, scans, alive, restarts, known>>

-----------------------------------------------------------------------------
(* Handlers.                                                               *)

Begin(h, op, j, e) ==
    /\ alive /\ op \in Ops /\ At(h, "idle") /\ Len(aof) < MaxAof
    /\ thread' = [thread EXCEPT ![h] = [op |-> op, job |-> j, entity |-> e, pc |->
                    CASE op \in {"create", "run"} -> "hmset"
                      [] op \in {"update", "enable", "disable"} -> "check"
                      [] op = "remove" -> "cancel"]]
    /\ UNCHANGED <<storage, wheel, alive, restarts, known>>

\* An id of uuid.NewString: never seen before.
Fresh(j) == /\ j \notin known \cup db.keys
            /\ db.hash[j] = None
            /\ \A t \in Thread : thread[t].job # j

Create(h, j, type) ==
    /\ Fresh(j)
    /\ Begin(h, "create", j, [type |-> type, state |-> "stop", cron |-> type = "timing"])

Run(h, j, type) ==
    /\ Fresh(j)
    /\ Begin(h, "run", j, [type |-> type, state |-> "runnable", cron |-> type = "timing"])

Update(h, j) == j \in known \cup db.keys /\ Begin(h, "update", j, Blank)

Remove(h, j) == j \in known \cup db.keys /\ Begin(h, "remove", j, Blank)

\* The bound on goroutines counts those that are about to be started.
Start(h, op, j) ==
    /\ j \in known \cup db.keys
    /\ Cardinality({t \in Thread : thread[t].op \in {"enable", "disable"}}) < Cardinality(Routine)
    /\ op \in {"enable", "disable"} /\ Begin(h, op, j, Blank)

\* checkTimeSettings of the stored job: no delay job passes it.
Startable(e) == e.type = "timing" /\ e.cron

\* Update, Start: dao.GetJobInfo and the check of the time settings.
check(h) ==
    /\ At(h, "check")
    /\ thread' = IF thread[h].op = "enable" /\ ~Startable(GetJobInfo(thread[h].job))
                 THEN Return(h) ELSE Goto(h, "hmset")
    /\ UNCHANGED <<storage, wheel, alive, restarts, known>>

\* Mutated: the id is in the set before its hash is written.
addHash_KeyFirst(h) ==
    /\ At(h, "hmset") /\ thread[h].op \in {"create", "run"}
    /\ Write([db EXCEPT !.keys = @ \cup {thread[h].job}])
    /\ thread' = Goto(h, "sadd")
    /\ UNCHANGED <<wheel, alive, restarts, known>>

\* AddJob: the hash, then the set.
addHash(h) ==
    /\ At(h, "hmset") /\ thread[h].op \in {"create", "run"}
    /\ HMSet(thread[h].job, thread[h].entity)
    /\ thread' = Goto(h, "sadd")
    /\ UNCHANGED <<wheel, alive, restarts, known>>

addKey(h) ==
    /\ At(h, "sadd")
    /\ Write([db EXCEPT !.keys = @ \cup {thread[h].job}])
    /\ known' = known \cup {thread[h].job}
    /\ thread' = IF thread[h].op = "run" THEN Goto(h, "info") ELSE Return(h)
    /\ UNCHANGED <<wheel, alive, restarts>>

\* Update: UpdateJob, then HandleJobTimeChange, whatever the job's state is.  The body
\* may name either type, which UpdateJob does not write (the number of a JSON body is
\* a float64), and the cron of one that names "delay" is not checked.
updateTime(h) ==
    /\ At(h, "hmset") /\ thread[h].op = "update"
    /\ \E cron \in BOOLEAN :
         HMSet(thread[h].job, [GetJobInfo(thread[h].job) EXCEPT !.cron = cron])
    /\ thread' = Goto(h, "info")
    /\ UNCHANGED <<wheel, alive, restarts, known>>

\* Start: UpdateJob, then "go HandleJobStateChange".
updateState(h, g) ==
    /\ At(h, "hmset") /\ thread[h].op \in {"enable", "disable"} /\ At(g, "idle")
    /\ HMSet(thread[h].job, [GetJobInfo(thread[h].job) EXCEPT
                 !.state = IF thread[h].op = "enable" THEN "runnable" ELSE "stop"])
    /\ thread' = [thread EXCEPT ![h] = Idle,
                    ![g] = [thread[h] EXCEPT !.entity = Blank,
                              !.pc = IF thread[h].op = "enable" THEN "info" ELSE "cancel"]]
    /\ UNCHANGED <<wheel, alive, restarts, known>>

\* RemoveJob: the set, then the hash; "remove failed" if the set has no such id.
removeKey(h) ==
    /\ At(h, "srem")
    /\ IF thread[h].job \in db.keys
         THEN /\ Write([db EXCEPT !.keys = @ \ {thread[h].job}])
              /\ thread' = Goto(h, "del")
         ELSE /\ UNCHANGED storage
              /\ thread' = Return(h)
    /\ UNCHANGED <<wheel, alive, restarts, known>>

removeHash(h) ==
    /\ At(h, "del")
    /\ IF db.hash[thread[h].job] # None THEN HMSet(thread[h].job, None)
       ELSE UNCHANGED storage
    /\ thread' = Return(h)
    /\ UNCHANGED <<wheel, alive, restarts, known>>

-----------------------------------------------------------------------------
Empty == [hash |-> [j \in Job |-> None], keys |-> {}]

Init ==
    /\ db = Empty /\ aof = <<>> /\ disk = Empty
    /\ thread = [t \in Thread |-> Idle]
    /\ elem = [e \in Elem |-> None]
    /\ location = [j \in Job |-> None]
    /\ currentPos = 0 /\ scans = {}
    /\ alive = TRUE /\ restarts = 0
    /\ known = {}

Request(h) == \E j \in Job :
    \/ \E type \in Types : Create(h, j, type) \/ Run(h, j, type)
    \/ Update(h, j) \/ Remove(h, j)
    \/ \E op \in {"enable", "disable"} : Start(h, op, j)

Proceed(t) ==
    \/ getInfo(t) \/ addExpired(t) \/ addPanic(t) \/ cancelJob(t)
    \/ \E d \in 0..MaxDelay : addJob(t, d)
    \/ check(t) \/ addHash(t) \/ addKey(t) \/ updateTime(t)
    \/ removeKey(t) \/ removeHash(t)
    \/ \E g \in Routine : updateState(t, g)

scan == \E p \in scans : scanAndRunTask(p)

Next == \/ \E h \in Handler : Request(h)
        \/ \E t \in Thread : Proceed(t)
        \/ handleAof \/ tickHandler \/ scan \/ kill \/ StartStandalone

\* Goroutines are scheduled, and the file catches up.
Fairness == WF_vars(handleAof) /\ \A t \in Thread : WF_vars(Proceed(t))

Spec == Init /\ [][Next]_vars /\ Fairness

-----------------------------------------------------------------------------
(* Properties.                                                             *)

Store == [hash : [Job -> Entity \cup {None}], keys : SUBSET Job]

\* What a handler or a goroutine is doing: nothing, or an operation on a job.
Frame == {Idle} \cup [pc     : {"info", "add", "cancel", "srem", "del", "check", "hmset", "sadd"},
                     op     : {"create", "run", "update", "enable", "disable", "remove"},
                     job    : Job,
                     entity : Entity]

\* The type of the state.
TypeOK ==
    /\ db \in Store /\ disk \in Store /\ aof \in Seq(Store)
    /\ thread \in [Thread -> Frame]
    /\ elem \in [Elem -> Task \cup {None}]
    /\ location \in [Job -> Elem \cup {None}]
    /\ currentPos \in 0..N-1 /\ scans \subseteq 0..N-1
    /\ alive \in BOOLEAN /\ restarts \in 0..MaxRestart /\ known \subseteq Job

Backed(s) == \A j \in s.keys : s.hash[j] # None

\* AddJob writes the hash and then the set, RemoveJob the set and then the hash:
\* no id of job_keys_set is without its hash, which GetJobInfos would list as an
\* empty job, now or after a restart from any prefix of the file.
JobSetBacked == Backed(db) /\ Backed(disk) /\ \A i \in DOMAIN aof : Backed(aof[i])

\* locationMap and the slots describe each other (timeWheel.go: "if the same key
\* has already exists"): every element in a slot is the one element of its key,
\* so that a job can be cancelled and never runs twice for one scheduling.
WheelIndexed ==
    \A e \in Elem : \A j \in Job :
        location[j] = e <=> (elem[e] # None /\ elem[e].key = j)

Quiet(j) == \A t \in Thread : thread[t].job # j

\* A job that is stopped in the store does not wait in the wheel, once no
\* handler and no goroutine is busy with it (docs: "stop state and would not be
\* scheduled", "enable is false: just remove this job from schedule").
StoppedNotScheduled ==
    \A j \in db.keys : db.hash[j].state = "stop" /\ Quiet(j) => location[j] = None

\* Every handler answers: no send to the wheel, no command to the store is left
\* waiting for ever.
EveryRequestAnswered ==
    \A h \in Handler : thread[h].pc # "idle" ~> thread[h].pc = "idle"
=============================================================================
