# A verification of traitor

traitor runs JavaScript jobs on a schedule.  Its server keeps jobs in a store of
its own, a Redis-like database written in Go that runs inside the process, or in
MongoDB; it runs alone or as one of several nodes that share a Redis.  This
directory models the parts that carry its logic in TLA+, checks them with TLC on
small instances and proves some of the results with TLAPS for every instance.

All source paths below are relative to `src/src/`.

## 1. The system

| Part | State | Operations | Talks to |
|---|---|---|---|
| key locks, `db/struct/lock/locks.go` | a table of `sync.RWMutex` | `RWLocks`, `RWUnLocks` of the keys of a command | every command, EXEC, expiry callback |
| expiry time wheel, `db/timewheel/` | slots of `container/list`, `locationMap`, `currentPos` | add, remove, tick, scan | `DB.Expire`, `DB.Persist`; callbacks into the database |
| executors, `db/database/{string,list,keys,hash,set,zset}.go` | data map, expiry map | one per command, with a `prepare` function (its keys) and an undo function | data structures, append-only file |
| transactions, `db/database/{db,transaction}.go`, `db/redis/connection` | version map; per connection the queue, the watched versions, the flags | MULTI, EXEC, DISCARD, WATCH, commands | locks, executors |
| append-only file, `db/aof/` | a channel of commands, a file | append, load, rewrite | executors (`addAof`), startup |
| client and protocol, `db/client`, `db/redis/parser`, `db/startup` | two pipes, queues of waiting requests | send, answer, parse | job store, database |
| data structures, `db/struct/` | lists, dictionaries, skip lists, bitmaps | the usual ones | executors |
| local job store, `dao/localdb` | one hash per job, the set of ids | add, update, remove, get | client |
| standalone scheduler, `schedule/{schedule,standalone,timeWheel}.go` | a second time wheel | add, cancel, tick, scan | job store, script engine |
| HTTP server, `server/server.go` | none | create, run, update, start, remove, and reads | job store, scheduler |
| cluster, `schedule/{multi_node,pub_sub}.go`, `consistenthash` | a hash ring, heartbeats | join, leave, route | Redis |
| job list and script editor, `ui/js/{job_list,nav,edit}.js` | per page the table, the switches, the dialog and the id in its form | load, create, edit, save, remove, enable, save a script; what is done with each answer | HTTP server, by requests that do not wait for one another |
| next execution time, `ui/js/job_list.js` and cronjs in `ui/js/bundle.js` | none; per cell the nested loops of a series of times | parse a cron, find its next times | dates and times |
| dates and times, luxon in `ui/js/bundle.js` | none | calendar, zones, durations, differences, intervals, their ISO texts | - |
| MongoDB store, script modules | - | - | - |

What is hard in it:

* **Concurrency without locks.**  Both wheels scan a slot in a goroutine of its
  own, beside the event loop that changes the same lists and map.  Versions of
  keys are counted outside the key locks.  HTTP handlers tell the scheduler of a
  change from goroutines whose order nobody fixes.
* **Locks of many keys at once**, over stripes that keys share.
* **Atomicity by undo logs.**  EXEC rolls back by running, in reverse, inverse
  commands that were computed one by one against intermediate stores.  Whether
  that leads back depends on every executor, its undo function and the data
  structures below.
* **Durability by replay.**  What an executor passes to `addAof` must do, at a later
  time, what the command did.
* **Requests without order.**  The pages send requests and go on; several pages
  act on one job; answers come back in any order, or are lost, and the list of jobs
  is read in one command per job while jobs come and go.
* **Dates.**  The next time of a cron is found by setting one unit of a date after
  the other, over months of different lengths, leap days, and zones in which an
  hour is missing or there twice.
* **Failure.**  A job is two keys written by two commands; a crash keeps a prefix of
  the file.

What makes each part correct, in a sentence: the locks exclude, do not deadlock and
are released; a task of a wheel runs when it is due, once, and can be cancelled; a
command changes what it declares, nothing when it fails, and can be undone and
replayed; EXEC is atomic, isolated and notices changes of what it watches; a job
that is listed exists, a stopped job is not scheduled, a runnable one is; a request
is answered; a table shows what its page has been told; the next time shown is the
next time the cron means.

## 2. Modules

```
Locks ------------- LocksProofs          MCLocks
TimeWheel --------- TimeWheelProofs      MCTimeWheel
Database <- Strings, Keys, Hashes, Sets, SortedSets, Lists (with QuickList)
         <- Commands <- CommandsProofs
                     <- Executors ---- ExecutorsProofs          MCExecutors
                     <- Transaction -- TransactionProofs        MCTransaction
                        (implements AtomicStore)
Scheduler --------- SchedulerProofs      MCScheduler
Pages ------------- PagesProofs          MCPages
Calendar <- Cron <- Preview <- PreviewProofs
                            <-+
         <- Durations <- Intervals <- Spans                     MCPreview
```

`Pages` and `Scheduler` model the same HTTP handlers and the same job store from two
sides: `Scheduler` keeps what happens to the wheel and on a crash, `Pages` what the
browsers see.

`Locks` - `db/struct/lock/locks.go`.  A thread is a goroutine that serves one
command after another.  A step locks or unlocks one stripe.  The mutex is
`sync.RWMutex` with its writer preference: a writer announces itself
(`LockAnnounce`), which stops new readers, and enters when the readers have left
(`LockAcquire`); a reader that finds a writer is `blocked` until that writer leaves.
The hash is the constant function `spread`.

`TimeWheel` - `db/timewheel/timewheel.go`.  A step is one operation on a list or on
the map: the event loop's `addTask` (push) and `registerTask` (map), `removeTask`,
`tickHandler`, and a scan's front, skip, dispatch, unlink and forget.  `torn` becomes
true when accesses overlap inside an operation, after which nothing is claimed.
`left` and `disturbed` are history variables: how many ticks a task still has, and
whether one of the two races has moved it (it was pushed into a list under a scan, or
the element a scan stood on in front of it was removed).

`Database` - `db.go`, `ttl.go`, `undo.go`, `aof/marshal.go`.  The store is
`[data, ttl, now]`.  A command is a record of operation, key, number, flag and
arguments; executing it gives a store, a fate (`ok`, `error`, `panic`) and the lines
for the file.  Undo logs are sequences of commands, or `Panic` when computing one
dereferences nil (`EntityToCmd` knows only strings and hashes).
Values are abstract: a string is a sequence of pieces, a number one piece; scores and
members of sorted sets are whole numbers.  Whether a hash field holds a Go `string`
or a `[]byte` is kept, because the code's type assertions depend on it.

`Strings`, `Lists`, `Keys`, `Hashes`, `Sets`, `SortedSets` - the executors and undo
functions of the files of the same names, under their names.  `QuickList` is
`db/struct/list/quicklist.go` for lists of one page, with the page and the size
apart, because the code lets them differ.  `Commands` is the command table: executor,
declared keys, undo function.

`Executors` runs any sequence of commands over one store and states what locks,
EXEC and the file expect of every executor.

`Transaction` - `db.go`, `transaction.go`, `connection.go`.  Connections are served
concurrently.  A command counts up versions (a read and a write of the map per key)
and then executes under its locks in one step; EXEC takes its locks, compares the
watched versions and executes or rolls back command by command.  The locks are here
what `Locks` proves of them: a step that needs a lock is not enabled while another
connection holds it.  `before` and `stale` are history variables.
`AtomicStore` is the abstract specification: a command or a transaction that
succeeds is one step.  It takes what commands do as constant operators, which
`Transaction` instantiates with those of `Commands`.  The refinement mapping (`Visible`) shows, for the keys an
unfinished EXEC writes, the store from before its locks.

`Scheduler` - `server.go`, `localdb.go`, `schedule.go`, `standalone.go`,
`timeWheel.go`, and of `aof.go` the queue, the file and its replay.  A handler is a
thread with a program counter; each command to the store and each send to the wheel
is a step.  `aof` holds the store states not yet in the file and `disk` the state the
file leads to, so a crash (`kill`) and `StartStandalone` resume from a prefix.

`Pages` - `ui/js/job_list.js`, `nav.js`, `edit.js`, the handlers of `server.go` and the
operations of `localdb.go` they call.  A request is a record with a program counter, in
one of a few slots; a handler takes a step per command to the store.  A button is an
action; so is what the script does with an answer (`fill`, `removeDone`, `saveDone`), and
`ignored` is an answer that is an error, is lost, or is not looked at.  A table that is
made anew makes the answers to its earlier lists void (`stale`).  `removed` and `created`
are history variables: what some page has been told, and, in a request and a table, what
had been told when its list was asked for.

`Calendar`, `Durations`, `Intervals` - the part of luxon in `ui/js/bundle.js` that keeps
dates: `DateTime` with zones and ISO texts, `Duration`, `Interval`.  Time is counted in
seconds from 2000; the JavaScript `Date` is external and given by its definition.  An
IANA zone is two offsets and two changes between them.  A text is a record of its parts,
and writing and reading it are the two conversions the code makes (`toISO` drops what
`fromISO` fills in again).
`Cron` - cronjs: the parser from the tokens of a field to its values, and the matcher from
a time to whether an expression matches.  Parsing is a validity test (`valid...`) and the
value when it succeeds.
`Preview` - `getTimeSeries` and `getFutureMatches`, and the formatter of the table that
calls them.  A step is one turn of one of the six nested loops, entering or leaving one,
or the formatter's call.  The second half of the module says what a cron means (`Fires`)
without the loops, and is what the matches are compared with.
`Spans` states the promises of durations, differences and intervals, each a conjunction of
named parts (`DifferencesKept`: `DiffsFit`, `SameUnit`; `IntervalsKept`: `MergeMinimal`,
`XorOnce`, `SplitsTile`, `IntervalTexts`; in `Preview`, `UnitsKept`: `UnitsTile`, `IsoWeeks`).

## 3. Runs

| Run | Bounds | Checks |
|---|---|---|
| `locks` | 2 goroutines, 3 keys on 2 stripes, all key lists | `TypeOK`, `Exclusion`, `OrderedAcquisition`, `BalancedUnlock`, `EveryCommandRuns` |
| `timewheel` | 2 slots, delays up to 3 ticks, 2 tasks, 2 scans, a named and the empty key | `TypeOK`, `OnTime`, `DispatchWhenDue`, `EveryTaskEnds` |
| `executors` | 2 keys, over 100 command lines, strings and lists up to 2, numbers -1..1 | `TypeOK`, `NothingEmpty`, `WritesDeclared`, `FailedChangesNothing`, `AofReplays`, `UndoRestores` |
| `tx_atomic` | 2 connections, 2 keys, queues up to 2, versions up to 2 | `TypeOK`, `WatchHolds`, `Isolation`, `ImplementsAtomicStore` |
| `tx_rollback` | 1 connection, 3 keys, all queues up to 3 of 12 commands, panics included | `AllOrNothing` |
| `scheduler` | 1 job, 2 handlers, 1 goroutine, 1 restart | `TypeOK`, `JobSetBacked`, `WheelIndexed`, `EveryRequestAnswered` |
| `pages` | 2 pages, 1 job id, 2 requests under way, 4 buttons that send one | `TypeOK`, `RemovedStaysGone`, `BlankMeansRemoved`, `CreatedListed`, `TableFilled` |
| `preview` | 26 crons loaded at 6 instants in 3 browsers' zones; the calendar at 481 instants, 24.5 hours apart, in 6 zones | `TypeOK`, `MatchesSound`, `MatchesComplete`, `CellShown`; `TimesRoundTrip`, `LocalTimesFound`, `UnitsKept`, `MonthsAdded`; `DurationsKept`, `DifferencesKept`, `IntervalsKept` |
| `timewheel_cover` | 3 tasks, 1 scan | `OneTaskPerKey` fails |
| `tx_watch_race` | 2 connections, one key watched | `WatchHolds` fails |
| `scheduler_enable` | 1 job, 2 goroutines | `StoppedNotScheduled` fails |
| `preview_nth` | nth days of the week, 3 zones | `NthDayMatched` fails |

Why the bounds are enough to be interesting:

* `locks`: two of the keys share a stripe and two do not, and a goroutine may name
  any keys as written and as read, the same key twice included, so every
  combination of modes on one and on two stripes happens.
* `timewheel`: with 2 slots a delay of 3 needs a rotation and more, a delay of 2 exactly
  one, a delay of 0 and 1 none; two scans run at once, on the two slots.
* `executors`: two keys are what the widest command needs; rename moves any value
  to the other key, so the two hold all pairs of values.  A list of two elements
  has a first and a second half, which `find` treats differently.  `Later` moves the
  clock between the command and its replay.
* `tx_*`: two connections suffice for every pairwise race; a queue of three makes a
  rollback undo commands computed on top of one another.
* `pages`: two requests under way are a race; four buttons are a create, a list, and two
  requests about the job that was created.  The proofs are for any number of each.
* `preview`: the clock starts at the end of October 2023 and passes two ends of year, a 29th
  of February, every end of month and both changes of summer time; its stride of 24.5
  hours meets every hour of the day, and by the half hour both readings of a repeated
  one.  The loads are around the ends of months.  What the calendar answers does not
  depend on the browser: its properties are evaluated once per instant (`Observed`).  `MaxLoop` (400) stands for the 100000 of
  the code: the series ends at it for the crons that never match, as there.
  Durations take every mixture of signs next to whole larger units, intervals
  all triples over five points.
* `scheduler`: two handlers race on one job, the goroutine of an enable may outlive
  both, and a crash falls between any two commands.

In `tx_atomic` the watched key is written by transactions only.  A command outside a
transaction that writes it is the race of `tx_watch_race`.  `AllOrNothing` is about
transactions that are answered: an executor or an undo log that panics leaves the
commands before it in the store (section 5).

`timewheel`, `pages`, `preview` and the scheduler runs do not check deadlock: a wheel with
no free element, a process that has ended and used up its restarts, pages whose buttons
are all pressed and a clock at its end stop in the model.

### Fairness

* `Locks`: weak fairness of each goroutine's steps (the Go scheduler runs every
  goroutine, and commands end), and strong fairness of `LockAnnounce`, because the
  internal mutex of `sync.RWMutex` hands over to a waiter that starves.
* `TimeWheel`: a push is followed by its registration, a scan takes its steps, and the
  ticker keeps ticking (strong, because the model must not tick while it has no
  free scanner).  `EveryTaskEnds` assumes `ScansEnd`: tasks do not arrive in the very
  list a scan walks as fast as the scan runs them.
* `Scheduler`: handlers, goroutines and the writer of the file proceed.  Requests,
  ticks, crashes and restarts are not fair.
* `Pages`: handlers run and their answers arrive or are lost; users are not fair.
* `Preview`: a script that has been called goes on.
* `Transaction`, `Executors`: safety only, no fairness.

## 4. Proofs

`LocksProofs`, for any goroutines, keys, stripes and hash, assuming stripes are a
finite set of naturals and the hash maps keys to stripes.  `Exclusion` speaks of
goroutines inside their commands only and is not inductive.  `LocksInv` adds the
ledger: the stripes a goroutine has locked follow from its program counter and its
remaining indices, and the mutexes say the same (`Ledger`); a writer is alone (`Alone`);
the remaining indices are among the command's (`Remaining`); who waits at a stripe
waits at its lowest remaining index (`Waiting`); and indices are locked in ascending
order (`Ascending`).  `LocksInvariant` proves it invariant; `LocksTyped`,
`ExclusionHolds`, `OrderHolds` and `BalanceHolds` follow: a conflict of keys is a conflict of stripes.

`TimeWheelProofs`, for any number of slots (at least one), tasks, keys, scans and any
longest delay.  `WheelInv` is `TypeOK`, `OnTime` and what they need: `ahead` is a strict
linear order on each list (`Order`), and the scans walk different lists and hold
elements of their own or removed ones (`Scans`).  The arithmetic (`Filing`: position
and rotations of a delay give the delay back) is proved from the properties of
division.  `WheelInvariant` proves it, `TypeCorrect`, `OnTimeHolds` and
`DispatchHolds` follow.

`PagesProofs`, for any pages, jobs, slots for requests and number of buttons pressed,
assuming that the server rejects the empty cron and that `None` is none of the values it
stands apart from.  What a table shows depends on what its list read, and that on what
the store held at each step, so `PagesInv` has the three properties (`Shown`) and what
carries them there: ids in `job_keys_set` are used ids and never among those that left it
(`Books`); they have a hash with a cron (`Backed`); a create under way owns its id
(`CreateOK`, `OwnIds`), without which its SADD could bring a removed job back; a removal
past its SREM is of a job that is gone (`ChangeOK`); and a list under way has read and
will read nothing it should not, and misses nothing it should have (`ListOK`).
`OthersKept` shows once for all actions what a step of one request may do to the others.
`PagesInvariant` proves it; `PagesTyped`, `RemovalFinal`, `BlankRowsRemoved` and
`CreationListed` follow.

`SchedulerProofs`, for any jobs, handlers, goroutines, slots, operations and number of
restarts, assuming `None` is no other value, at least one slot, and more elements than
jobs (`list.New` allocates: an element is free whenever one is pushed).  `WheelIndexed` is
inductive with `TypeOK`, because the wheel's loop is one goroutine (`SchedulerTypeOK`,
`WheelAlwaysIndexed`).  `JobSetBacked` is not: AddJob writes the hash and then the set,
RemoveJob the set and then the hash, and handlers interleave between the two.  `JobInv` adds
that a job has one creator until it answers, and no other handler before (`IdsOwned`),
what holds between the two commands (`HalfWay`), and that an id is in the set, in memory
and in every prefix of the file, only after its creator has put it there (`KeysKnown`).
`JobSetAlwaysBacked` follows.

`CommandsProofs` is about the 52 executors and their undo logs, one lemma for each group of
commands.  `MayChange(c)` are the keys a command may change: those it declares, and the
source of a RENAME.  `EveryCommand`: on any store, every command leaves a store that
differs from it at those keys only, at the same time, and one that
answers with an error, GETEX excepted, differs nowhere.
`UndoLogs`: the undo log of a command, run on any store, changes nothing but those keys
either.  `RunAllWithin` carries both to sequences of commands.
For commands one by one, `Dispatch` splits the table into its groups once, `RunPasses` says that
running a sequence of commands passes from store to store (`Passes`), and `LogOfKey` names
the undo logs that are the key's own copy: DEL, then the command that makes its value and the
one that sets its expiry.  `KeysUndone`: such a log brings a key back from any store without stray
expiries (`Tidy`), if the value is one its type's command can make again (`CanLog`): what a store has of a
key (`Slot`) is then what it had.

`ExecutorsProofs`, for any keys, bounds and client commands that satisfy
`ClientAssumption`.  `StoreTypeOK`, `WritesAlwaysDeclared` and `FailedAlwaysChangesNothing`
follow from `EveryCommand`.  The others need `StoreWhole`: every expiry has its key, every list
is a page one element longer than its size, which is not zero, every hash is a function with a
field whose cells hold bytes or a text, every sorted set a function.  `StoreStaysWhole` proves it
of every sequence of commands.  `NothingEmptyKept` follows for clients that
do not rename a key to itself, which is needed: `RENAME x x` (`keys.go:89`) drops the entity
and puts the expiry back.
`LogAlwaysReplays` needs no such hypothesis.  Replay happens at another time than the
command, so it compares two stores that differ in their clocks only (`Same`).  Most commands
do the same on both, and log themselves or have changed nothing (`Repeats`; that an LREM or a ZINCRBY which
finds nothing leaves the very same value is where `StoreWhole` comes in).  The others log a value, an
absolute time or a removal, and replaying these lines gives the store of the command
(`DeadlinesReplay`, `GetsReplay`, `ExpiriesReplay`): a PSETEX logged as a SETEX sets a wrong expiry
first and the PEXPIREAT behind it the right one (`PutThenDeadline`).  The commands
`Unlogged` names are exceptions of the property.

`UndoAlwaysRestores` is for clients that do not rename a key to itself, either.  Outside `MayChange(c)` neither the
command nor its log changes anything (`EveryCommand`, `UndoLogs`).  Inside, there is an argument for each way the logs
are made (`EveryKeyUndone`).  Copies of keys come back by `KeysUndone`.  Pops take back pushes, whatever
the lists (`PushesUndone`), because a list whose pages are as `StoreWhole` says forgets an element that is
pushed and popped (`PushedAndPopped`) or popped and pushed (`PoppedAndPushed`) unless it is short: the short
lists are those that `NotUndone` names.  The log of a hash, a set or a sorted set has a line for each field
or member, which meets what the lines before it have left: `LineByLine` carries a set of possible slots
through the log, and `FieldsTaken`, `MembersBack` and `ScoresBack` say which.  A field
that was there before is an exception of the property (HSET puts it back as a string), and so is a set all of whose
members the command names.

`TransactionProofs`, for any connections, client commands, keys, version width and bounds,
assuming clients send what the server takes (`CommandAssumption`).  `TxInv` says that
the store is one, that the queue, the undo logs and the step of every EXEC fit each other
(`Served`), and that two connections that execute have locks that do not conflict
(`LocksHeld`).  `TransactionTypeOK` follows.  `ExecIsolated` says of an EXEC from its locks to its
unlock that no step of another connection changes a key it touches: that step changes only
keys its commands, or the undo logs of its commands, may change (`EveryCommand`, `UndoLogs`),
and these it has locked for writing.  Its hypothesis is that no client sends RENAME or RENAMENX,
whose source is locked for reading only; with them `Isolation` is false.

`ExecAllOrNothing` and `ExecIsAtomic` (the refinement of `AtomicStore`) are for clients whose
commands are `Undoable`: those on strings but for SETRANGE, EXPIRE and its relatives, PERSIST and
DEL.  GETEX PERSIST with a bad time is excluded, because it changes the store before it fails.
These keep the store one of strings (`OfStrings`) and never panic, but they fail (INCR of a
text, MSET with an odd number of arguments), so roll-backs happen.  `LocalCommand` says that such a command
reads and writes the keys it declares and no others, and `CommandUndone` that its undo log,
run after it, restores these, entity and expiry.  Neither property is inductive: in the middle of an EXEC the
store is neither.  `AtomicInv` adds `Progress`: on the keys an EXEC touches the store is the one from before
its locks after as many commands as it has run, or has still to undo, and the undo logs that are
left lead back, one after the other.  Steps of others keep it, because they write none of these keys
(`Isolation` again).  `VisibleStep` then shows that each step either leaves `Visible` alone or is a step
of `AtomicStore`: a command alone, or the commit of an EXEC.

`WatchRestsOnAtomicity` says what optimistic locking needs, for every command: if an EXEC that does
not succeed leaves its keys as they were (`AllOrNothing`, no panic), only transactions write
watched keys, and versions do not come round to 2^32 - 1, then `WatchHolds`.  The hypothesis on who writes
is the race of `tx_watch_race`: a command alone counts up its versions before it has its locks.
`WatchInv` is its invariant: a key that others have changed since its WATCH shows another version,
or belongs to an EXEC that has yet to count it up and holds its lock until then.
`WatchedUnchanged` joins it with `ExecAllOrNothing`.

`PreviewProofs`, for any crons, clock, offsets and bounds.  `PreviewTyped`: the loops of
`getFutureMatches` stay below `matchCount` and `maxLoopCount`.  The others are about the
calendar at every instant, before and after 2000.  `LocalTimesHold`, for zones that are
ahead in summer: `fixOffset` finds an instant that reads as the local time asked for
whenever there is one.  `MonthsAddedHold`: adding months keeps the day or takes the last one of
the month.  `TimesRoundTripHold`: dates, week dates, ordinal dates, objects and ISO texts
lead back to the instant.  `IsoWeeksHold`: the ISO week is that of its Thursday.  They rest on
the arithmetic of days and years: a day's number determines its date and its date the number,
over all 400-year cycles.  The two inductions over years are done over sets of
naturals, which the provers can do without the library's induction theorem.

`MatchesSoundHold`, in the same module, is for every text the parser accepts except those that ask for the
weekday nearest to day 0 (`NoDayZero`): the parser lets `0W` through, the code sets day 0, which is the last
one of the month before, and no day is meant.  It has three parts.  `MatchFires`: what `isExprMatches` accepts of a
calendar date is what the expression means; the ends of months, the last day of a kind and the
nearest weekday are found with `plus`, `endOf` and `set`, and rest on `DaysBefore`, `MonthEnds` and
`KindsFollow` (the days of a month run through the week without a gap).  `MergedBounds`: what the parser and
`simplifyExprs` leave are numbers of their units, so that every turn of a loop can be set (`TurnAt`).
And the invariant `SoundInv`: the time is that of the loop variables from the largest unit to the loop that
is running (`Reached`), whatever is left in the smaller units or was clamped there, and the loops have passed the last
match (`Passed`: the first of its units that differs from the loop variables is behind).  A turn of the
innermost loop is then later than the last match in the order of its units, and so in time (`ObjectsAscend`).

`MatchesCompleteHold` is the other half: no time that is meant is missing.  It is not true of every cron, and its
hypotheses are where it is not: `0W`; the fourth and fifth day of a kind, and Sunday as day 7 (the end of a range, or `7W`),
which the matcher does not find (`DaysSought`, see section 5); a year after 2099 beside a cron for every year, where the
loop over the years has a gap (`YearsReached`); and a clock outside 0..2099 (`ClockYears`).  `FiresMatch` is
the converse of `MatchFires`, and rests on `Told`, what the parser leaves of a field that is omitted and of a year.  `FiresMerged`: every unit of a time that is meant is among the numbers the loops run
over.  The invariant is `CompleteInv`: every candidate (a time from the start on, made of merged numbers, that the
expressions match) which the loops have passed is returned.  A turn takes the least number that is left, and
"continue" skips no candidate (`NotSkipped`), so none is left behind by a turn (`TurnComplete`, `YieldComplete`) or
by the end of a loop (`LeaveComplete`).

Only model-checked:

* All liveness (`EveryCommandRuns`, `EveryTaskEnds`, `EveryRequestAnswered`, `TableFilled`,
  `CellShown`): fairness and ENABLED are out of the prover's reach.
* `ImplementsAtomicStore` and `AllOrNothing` of transactions with commands on lists, hashes, sets and
  sorted sets, RENAME and SETRANGE.  They hold of the commands of the runs and not of all
  commands (`NotUndone`).
* `WatchHolds` of the instance of `tx_atomic`, whose queues hold pushes: the theorem that
  says it of every command has `AllOrNothing` as its hypothesis.
* `UnitsKept` but for its half `IsoWeeks`, and `DurationsKept`, `DifferencesKept`,
  `IntervalsKept`: folds over units and lists of intervals, inductions over data.  `UnitsTile`
  is not true of every zone: a change of offset at an odd local time splits a unit.

## 5. Where code and promise part

With a run:

* A task of the expiry wheel that is added again while a scan is running its
  predecessor loses its location, and the next one of the key does not replace it
  (`timewheel_cover`).
* A WATCH between a command's version count and its write misses the write
  (`tx_watch_race`).
* Enable and disable take effect in any order (`scheduler_enable`).
* `isDayOfWeekMatches` wants more days of a kind in the month than the instance asked
  for: the fifth Friday never matches, the fourth only in months with five
  (`preview_nth`).

Modelled, and stated as exceptions of the properties in `Executors`:

* RENAME removes its source under a read lock, and of a key and itself it removes the
  entity but keeps the expiry, for the key that is set next.
* GETEX PERSIST followed by a bad option has already removed the expiry.
* Not logged: ZADD, a new field of HINCRBYFLOAT, the removal of a destination by the
  set operations, the removal of an empty set by SREM; SPOP is logged with a count
  and picks other members when it is replayed.
* Not undone: SPOP (its count is taken for a member), SETRANGE inside the old string
  (it writes into the array of the undo log), fields written by HSET, whose undo
  panics or puts the empty value back, the pop of a last element (its expiry is
  lost), pushes and pops at the head of lists of one or two elements.
* SINTERSTORE, SUNIONSTORE and SDIFFSTORE store the empty set or remove the
  destination: `set.Make` ignores its members.
* ZINCRBY of a missing member, and the undo log of ZADD, ZREM and ZINCRBY for one,
  panic: `SortedSet.Get` says of every member that it is there.
* The undo log of a command that overwrites a list, a set or a sorted set panics;
  the commands of the transaction before it stay.
* LREM counts the doubled element twice and can leave a list of size -1.
* `QuickList.Add` has no `return` after it has made the first page, so the first
  element is in it twice, and LPUSH to a list of one element does not become its head.

Modelled in `Transaction` and `Scheduler`, with no property in a run: a refused command
makes every later EXEC of its connection answer EXECABORT; the scheduler pushes `task`
values and its scan asserts `*task`, so the first scan that meets a job ends the
process; `initJobs` is never called, so a restart schedules nothing; a delay job is never
scheduled; an update schedules a stopped job, never changes a type (the number is a `float64`,
which `UpdateJob` ignores), and, when it names the delay type, may leave a timing job with an
empty cron, on which the handler panics and a later enable is refused; enabling a job that is removed meanwhile
ends the process.

Modelled in `Pages`, likewise: the button "Create" opens the dialog with the id of the
job that was edited last, and saves over it; a late answer to a save closes whatever
dialog is open; a switch stays where it was put when its request fails; a script or
an update for a removed job leaves a hash that nothing lists.

Of crons and dates:

* A browser west of Greenwich asks for the zone `UTC+-5`, one in a half-hour zone for
  `UTC+5.5`, which luxon rejects: every cell is "never" (`formatter`; the runs include one).
* `getDaysOfType` counts to day 30: an nth day of a kind on the 31st is missed.
* Sunday as the end of a range (`5-7`) is not matched, a step in the day of the week
  (`*/2`) matches only Sundays, `5L` in the day of the month reads as 5.  Nor is `7W` in
  the day of the week: the letter, which `parseInt` drops, keeps the 7 from being read as 0.
* A step of 0, and the last 8th day of the week, make the page loop for ever; `Preview`
  assumes crons without them (`Ends`).
* The cron `* * 8 * * 2022` of `docs/README.md:143` is rejected by the page's parser, which
  reads the last of six fields as the day of the week.
* `Interval.merge` is not minimal when some interval is empty, `splitAt` sorts times as
  texts, the difference in quarters ignores the years, and `Duration.toISOTime` of 25 hours,
  -61 minutes and a second is "24:00:-59"; the properties in `Spans` name these bounds.

## 6. Not modelled, and the plan

Not modelled: MongoDB (one driver call per operation), the script modules, the output of
the debug web socket, the parts of luxon that format, parse other texts or know
languages (nothing in the repository calls them), replies and their encoding,
configuration, logging.  The rewrite of the append-only file has no caller, and the
program has one database, so neither `Rewrite` nor a SELECT in the file can happen.

Next, in this order:

1. Proofs: `AllOrNothing` of transactions on lists, hashes, sets and sorted sets, for queues whose
   every command finds a store outside `NotUndone` (`EveryKeyUndone` is about single commands).
2. `Expiry`: keys that expire while commands run; the callback of the wheel against
   PERSIST, EXPIRE and readers (`ttl.go`), with `TimeWheel` as its clock.
3. `Client`: requests, replies and timeouts over two pipes (`client.go`,
   `startup.go`, `parser.go`).
4. `Cluster`: heartbeats, the ring, the channel of job changes (`multi_node.go`,
   `pub_sub.go`, `consistenthash.go`).
5. Data structures against reference definitions: pages of the list, skip list,
   sharded dictionary, bitmap; SETBIT and the read-only commands on top.
