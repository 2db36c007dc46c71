----------------------------- MODULE TimeWheel -----------------------------
(***************************************************************************)
(* The hashed timing wheel that expires the keys of the embedded database  *)
(* (src/db/timewheel/timewheel.go).                                        *)
(*                                                                         *)
(* One goroutine, the event loop (start), ticks, adds and removes tasks.   *)
(* Every tick spawns another goroutine (scanAndRunTask) that walks the     *)
(* list of the current slot.  The scans share the lists and the location   *)
(* map with the event loop and nothing synchronises them: here one step is *)
(* one operation on a list or on the map, so that every order of those     *)
(* operations is a behaviour; `torn' stands for accesses that overlap      *)
(* inside one operation.                                                   *)
(*                                                                         *)
(* An element of container/list is an identity (Elem) with the field       *)
(* `list', its list or None, and the set `ahead' of the elements in front  *)
(* of it, which is what its prev and next pointers say.  An element nobody *)
(* refers to any more is used again, so that the wheel can run for ever in *)
(* a finite model.                                                         *)
(***************************************************************************)
EXTENDS Integers

CONSTANTS
    N,          \* slotNum
    Key,        \* task keys, EmptyKey among them
    EmptyKey,   \* the key "": the task cannot be named afterwards
    Elem,       \* list elements, each with its task
    Scanner,    \* bound: goroutines that run scanAndRunTask at the same time
    MaxDelay,   \* bound: the longest delay, in ticks
    None        \* nil

ASSUME NAssumption == N \in Nat \ {0}
ASSUME EmptyKeyAssumption == EmptyKey \in Key
ASSUME MaxDelayAssumption == MaxDelay \in Nat
ASSUME NoneAssumption == None \notin Elem /\ None \notin Int

Slot == 0 .. N-1

VARIABLES
    currentPos,   \* the slot the next tick scans
    list,         \* the list (slot) an element is linked into, or None
    ahead,        \* the elements in front of it in that list
    key,          \* task.key
    circle,       \* task.circle: the rotations still to wait
    locationMap,  \* key to element, or None
    adding,       \* the element addTask has pushed and not yet registered
    pc,           \* where a scan is in scanAndRunTask
    slot,         \* the list it walks
    elem,         \* its variable e
    next,         \* its variable next
    torn,         \* accesses overlapped: the behaviour is undefined from here
    left,         \* history: ticks until the task is due
    disturbed     \* history: tasks of which a race has moved the due time

wheel == <<currentPos, list, ahead, key, circle, locationMap, adding>>
scan  == <<pc, slot, elem, next>>
history == <<left, disturbed>>
vars  == <<wheel, scan, torn, history>>

-----------------------------------------------------------------------------
(* container/list.                                                         *)

Linked(e) == list[e] # None

InSlot(s) == {e \in Elem : list[e] = s}

\* The first of a set of elements of one list, or nil.
First(S) == IF S = {} THEN {None} ELSE {e \in S : ahead[e] \cap S = {}}

\* e.Next(): nil when e has been removed from its list.
After(e) == {f \in Elem : Linked(e) /\ list[f] = list[e] /\ e \in ahead[f]}
NextOf(e) == First(After(e))

\* l.Remove(e) of an element that may be None or unlinked already.
Remove(e) ==
    /\ list' = [f \in Elem |-> IF f = e THEN None ELSE list[f]]
    /\ ahead' = [f \in Elem |-> IF f = e THEN {} ELSE ahead[f] \ {e}]

\* l.PushBack(e)
PushBack(e, s) ==
    /\ list' = [list EXCEPT ![e] = s]
    /\ ahead' = [ahead EXCEPT ![e] = InSlot(s)]

-----------------------------------------------------------------------------
(* The history variables: when a task is due, and which races move it.     *)

Scanning(s) == \E g \in Scanner : pc[g] # "idle" /\ slot[g] = s

\* Some scan will look at e next.
Held(e) == \E g \in Scanner : \/ pc[g] \in {"visit", "unlink"} /\ elem[g] = e
                              \/ pc[g] = "forget" /\ next[g] = e

\* Removing an element under a scan ends that scan: the elements behind it
\* wait one more rotation.
CutOff(e) == {f \in Elem : Held(e) /\ e \in ahead[f]}

\* A task that leaves its list is no longer due.
NotDue(e) ==
    /\ left' = [f \in Elem |-> IF f = e THEN 0 ELSE left[f]]
    /\ disturbed' = (disturbed \cup CutOff(e)) \ {e}

-----------------------------------------------------------------------------
(* The event loop.                                                         *)

\* Nobody refers to e: the garbage collector may have it.
Free(e) ==
    /\ ~Linked(e) /\ adding # e
    /\ \A k \in Key : locationMap[k] # e
    /\ \A g \in Scanner : elem[g] # e /\ next[g] # e

\* Mutated: the position does not wrap; a rotation too many is waited.
getPosition_NoWrap(d) == currentPos + d
getCircle_RoundedUp(d) == (d + N - 1) \div N

getPosition(d) == (currentPos + d) % N
getCircle(d) == d \div N

\* AddJob drops negative delays.  addTask, up to the push.
addTask(e, k, d) ==
    /\ ~torn /\ adding = None /\ Free(e)
    /\ PushBack(e, getPosition(d))
    /\ key' = [key EXCEPT ![e] = k]
    /\ circle' = [circle EXCEPT ![e] = getCircle(d)]
    /\ adding' = e
    /\ left' = [left EXCEPT ![e] = d + 1]
    /\ disturbed' = IF Scanning(getPosition(d)) THEN disturbed \cup {e}
                                                ELSE disturbed \ {e}
    /\ UNCHANGED <<currentPos, locationMap, scan, torn>>

\* The rest of addTask: the task of the same key is removed, unless the key
\* is empty, and the location recorded.
registerTask ==
    /\ ~torn /\ adding # None
    /\ LET k   == key[adding]
           old == IF k = EmptyKey THEN None ELSE locationMap[k]
       IN  /\ Remove(old)
           /\ NotDue(old)
           /\ locationMap' = [locationMap EXCEPT ![k] = adding]
    /\ adding' = None
    /\ UNCHANGED <<currentPos, key, circle, scan, torn>>

\* RemoveJob ignores the empty key.
removeTask(k) ==
    /\ ~torn /\ adding = None
    /\ k # EmptyKey /\ locationMap[k] # None
    /\ Remove(locationMap[k])
    /\ NotDue(locationMap[k])
    /\ locationMap' = [locationMap EXCEPT ![k] = None]
    /\ UNCHANGED <<currentPos, key, circle, adding, scan, torn>>

\* Bound: a scan ends before the wheel comes round to its slot again (an
\* hour, with the 3600 slots of one second of useage.go).
ScannedInTime == ~Scanning(currentPos)

tickHandler(g) ==
    /\ ~torn /\ adding = None
    /\ pc[g] = "idle" /\ ScannedInTime
    /\ currentPos' = IF currentPos = N - 1 THEN 0 ELSE currentPos + 1
    /\ pc' = [pc EXCEPT ![g] = "front"]
    /\ slot' = [slot EXCEPT ![g] = currentPos]
    /\ left' = [e \in Elem |-> IF Linked(e) /\ e \notin disturbed
                                 THEN left[e] - 1 ELSE 0]
    /\ UNCHANGED <<list, ahead, key, circle, locationMap, adding, elem, next,
                   torn, disturbed>>

-----------------------------------------------------------------------------
(* scanAndRunTask.                                                         *)

\* e = f: the loop goes on with f, or ends.
GoOn(g, f) ==
    /\ elem' = [elem EXCEPT ![g] = f]
    /\ next' = [next EXCEPT ![g] = None]
    /\ slot' = [slot EXCEPT ![g] = IF f = None THEN 0 ELSE @]
    /\ pc' = [pc EXCEPT ![g] = IF f = None THEN "idle" ELSE "visit"]

\* e := l.Front()
scanFront(g) ==
    /\ ~torn /\ pc[g] = "front"
    /\ \E f \in First(InSlot(slot[g])) : GoOn(g, f)
    /\ UNCHANGED <<wheel, torn, history>>

\* Mutated: the rotations are not counted down.
scanSkip_NoCountdown(g) ==
    /\ ~torn /\ pc[g] = "visit" /\ circle[elem[g]] > 0
    /\ \E f \in NextOf(elem[g]) : GoOn(g, f)
    /\ UNCHANGED <<wheel, torn, history>>

\* A task with rotations left stays for one less.
scanSkip(g) ==
    /\ ~torn /\ pc[g] = "visit" /\ circle[elem[g]] > 0
    /\ circle' = [circle EXCEPT ![elem[g]] = @ - 1]
    /\ \E f \in NextOf(elem[g]) : GoOn(g, f)
    /\ UNCHANGED <<currentPos, list, ahead, key, locationMap, adding,
                   torn, history>>

\* Mutated: a task with one rotation left is run.
scanDispatch_Early(g) ==
    /\ ~torn /\ pc[g] = "visit" /\ circle[elem[g]] <= 1
    /\ pc' = [pc EXCEPT ![g] = "unlink"]
    /\ UNCHANGED <<wheel, slot, elem, next, torn, history>>

\* The job runs in a goroutine of its own.
scanDispatch(g) ==
    /\ ~torn /\ pc[g] = "visit" /\ circle[elem[g]] = 0
    /\ pc' = [pc EXCEPT ![g] = "unlink"]
    /\ UNCHANGED <<wheel, slot, elem, next, torn, history>>

\* next := e.Next(); l.Remove(e)
scanUnlink(g) ==
    /\ ~torn /\ pc[g] = "unlink"
    /\ \E f \in NextOf(elem[g]) : next' = [next EXCEPT ![g] = f]
    /\ Remove(elem[g])
    /\ left' = [left EXCEPT ![elem[g]] = 0]
    /\ disturbed' = disturbed \ {elem[g]}
    /\ pc' = [pc EXCEPT ![g] = "forget"]
    /\ UNCHANGED <<currentPos, key, circle, locationMap, adding, slot, elem,
                   torn>>

\* delete(tw.locationMap, task.key); e = next
scanForget(g) ==
    /\ ~torn /\ pc[g] = "forget"
    /\ locationMap' = [k \in Key |-> IF k # EmptyKey /\ k = key[elem[g]]
                                       THEN None ELSE locationMap[k]]
    /\ GoOn(g, next[g])
    /\ UNCHANGED <<currentPos, list, ahead, key, circle, adding, torn, history>>

\* Accesses overlap: a scan works while the event loop changes a list or the
\* map, or while another scan does.  The runtime stops the process
\* ("concurrent map writes"), or a list is left in pieces.
overlap ==
    /\ ~torn
    /\ \E g \in Scanner :
         /\ pc[g] # "idle"
         /\ \/ adding # None
            \/ \E k \in Key \ {EmptyKey} : locationMap[k] # None
            \/ \E h \in Scanner \ {g} : pc[h] # "idle"
    /\ torn' = TRUE
    /\ UNCHANGED <<wheel, scan, history>>

scanAndRunTask(g) ==
    scanFront(g) \/ scanSkip(g) \/ scanDispatch(g) \/ scanUnlink(g) \/ scanForget(g)

-----------------------------------------------------------------------------
Init ==
    /\ currentPos = 0
    /\ list = [e \in Elem |-> None]
    /\ ahead = [e \in Elem |-> {}]
    /\ key = [e \in Elem |-> EmptyKey]
    /\ circle = [e \in Elem |-> 0]
    /\ locationMap = [k \in Key |-> None]
    /\ adding = None
    /\ pc = [g \in Scanner |-> "idle"]
    /\ slot = [g \in Scanner |-> 0]
    /\ elem = [g \in Scanner |-> None]
    /\ next = [g \in Scanner |-> None]
    /\ torn = FALSE
    /\ left = [e \in Elem |-> 0]
    /\ disturbed = {}

Tick == \E g \in Scanner : tickHandler(g)

Next ==
    \/ \E e \in Elem, k \in Key, d \in 0..MaxDelay : addTask(e, k, d)
    \/ registerTask
    \/ \E k \in Key : removeTask(k)
    \/ Tick
    \/ \E g \in Scanner : scanAndRunTask(g)
    \/ overlap

(***************************************************************************)
(* Fairness.  Goroutines that can run do run.  The ticker competes with    *)
(* the add and remove channels in one select, which chooses at random      *)
(* among the ready cases: a tick that is ready again and again is taken.   *)
(***************************************************************************)
Fairness ==
    /\ WF_vars(registerTask)
    /\ SF_vars(Tick)
    /\ \A g \in Scanner : WF_vars(scanAndRunTask(g))

Spec == Init /\ [][Next]_vars /\ Fairness

-----------------------------------------------------------------------------
(* Properties.                                                             *)

\* The type of the state: every list is a slot of the wheel, no rotation count
\* is negative.
TypeOK ==
    /\ currentPos \in Slot
    /\ list \in [Elem -> Slot \cup {None}]
    /\ ahead \in [Elem -> SUBSET Elem]
    /\ key \in [Elem -> Key]
    /\ circle \in [Elem -> Nat]
    /\ locationMap \in [Key -> Elem \cup {None}]
    /\ adding \in Elem \cup {None}
    /\ pc \in [Scanner -> {"idle", "front", "visit", "unlink", "forget"}]
    /\ slot \in [Scanner -> Slot]
    /\ elem \in [Scanner -> Elem \cup {None}]
    /\ next \in [Scanner -> Elem \cup {None}]
    /\ torn \in BOOLEAN
    /\ left \in [Elem -> Int]
    /\ disturbed \in SUBSET Elem

\* The ticks until slot s is scanned, when the wheel stands at c.
Distance(s, c) == IF s >= c THEN s - c ELSE s - c + N

\* Scan g of e's list is on its way to e.
Towards(g, e) ==
    /\ slot[g] = list[e]
    /\ \/ pc[g] = "front"
       \/ pc[g] \in {"visit", "unlink"} /\ (elem[g] = e \/ elem[g] \in ahead[e])
       \/ pc[g] = "forget" /\ (next[g] = e \/ next[g] \in ahead[e])

(***************************************************************************)
(* OnTime: where a task is filed (getPositionAndCircle), how its rotations *)
(* are counted down and how the wheel turns agree on its due time, at      *)
(* every moment of every scan, unless one of the two races below touches   *)
(* it: it was pushed into the list a scan was walking, or the scan's       *)
(* element in front of it was removed.                                     *)
(***************************************************************************)
OnTime ==
    \A e \in Elem : Linked(e) /\ e \notin disturbed =>
        left[e] = N * circle[e] + Distance(list[e], currentPos) + 1
                  - (IF \E g \in Scanner : Towards(g, e) THEN N ELSE 0)

(***************************************************************************)
(* DispatchWhenDue: scanAndRunTask starts the job of an undisturbed task   *)
(* that is still in its list when its delay is over, never before, and     *)
(* before the wheel has come round once more.                              *)
(***************************************************************************)
DispatchWhenDue ==
    \A g \in Scanner : \A e \in Elem :
        pc[g] = "unlink" /\ elem[g] = e /\ Linked(e) /\ e \notin disturbed
        => left[e] \in (1 - N) .. 0

(***************************************************************************)
(* OneTaskPerKey: adding a task replaces the task of the same key          *)
(* (addTask: "cover the same key.").                                       *)
(***************************************************************************)
OneTaskPerKey ==
    \A e, f \in Elem :
        /\ Linked(e) /\ Linked(f) /\ adding = None
        /\ key[e] = key[f] /\ key[e] # EmptyKey
        => e = f

\* Every scan reaches the end of its list: tasks do not keep arriving in the
\* very list it walks as fast as it can run them (see ScannedInTime).
ScansEnd == \A g \in Scanner : []<>(pc[g] = "idle" \/ torn)

(***************************************************************************)
(* EveryTaskEnds: a task that is in a list leaves it, because it ran or    *)
(* was removed, however often other tasks are added, replaced and removed  *)
(* under the scans, and however often a removal cuts a scan short.         *)
(***************************************************************************)
EveryTaskEnds ==
    ScansEnd => \A e \in Elem : Linked(e) ~> ~Linked(e) \/ torn
=============================================================================
