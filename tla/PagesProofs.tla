---------------------------- MODULE PagesProofs ----------------------------
(***************************************************************************)
(* Proofs about Pages: what a page has been told of a job's creation and   *)
(* removal holds of the tables it fills afterwards, for any number of      *)
(* pages, jobs and requests on their way.                                  *)
(***************************************************************************)
EXTENDS Pages, TLAPS

Pcs == {"free", "smembers", "hmget", "srem", "del", "check", "hmset", "sadd", "info", "ok", "fail"}

Requests ==
    [op : {"none", "list", "remove", "create", "update", "enable", "script"},
     pc : Pcs,
     page : Page \cup {None}, job : Job \cup {None}, cron : Cron \cup {Bad, ""}, on : BOOLEAN,
     todo : SUBSET Job, rows : SUBSET Row, removed : SUBSET Job, created : SUBSET Job,
     stale : BOOLEAN]

Tables == [status : {"loaded", "loading", "failed"}, rows : SUBSET Row,
           removed : SUBSET Job, created : SUBSET Job]

\* The types, and the books: ids come from used, and leave keys for gone.
Typed ==
    /\ hash \in [Job -> Entity \cup {None}]
    /\ table \in [Page -> Tables] /\ switch \in [Page -> SUBSET Job]
    /\ jobIdInput \in [Page -> Job \cup {None}]
    /\ modal \in [Page -> {"closed", "open"}]
    /\ req \in [Slot -> Requests]
    /\ sent \in 0..MaxSent

Books ==
    /\ used \subseteq Job /\ keys \subseteq used /\ gone \subseteq used
    /\ keys \cap gone = {}
    /\ removed \subseteq gone /\ created \subseteq keys \cup gone

\* The hash of j is a job's.
HasCron(j) == hash[j] # None /\ hash[j].cron \in Cron

\* A listed id has its hash.
Backed == \A j \in keys : HasCron(j)

\* An AddJob that has its id and has not yet put it in the set.
Adding(r) == r.op = "create" /\ r.pc \in {"hmset", "sadd"}

\* A create: its id is its own until it is in the set.
CreateOK(r) ==
    /\ Adding(r) => r.job \in used /\ r.job \notin keys \cup gone /\ r.cron \in Cron
    /\ Adding(r) /\ r.pc = "sadd" => HasCron(r.job)
    /\ r.op = "create" /\ r.pc = "ok" => r.job \in keys \cup gone

\* The requests about a job that is there, or was.
ChangeOK(r) ==
    /\ r.op \in {"remove", "update", "enable", "script"} => r.job \in Job
    /\ r.op = "update" /\ r.pc = "hmset" => r.cron \in Cron
    /\ r.op = "remove" /\ r.pc \in {"del", "ok"} => r.job \in gone
    /\ r.op \in {"list", "remove", "create", "update"} => r.page \in Page

Jobs(rows) == {row.job : row \in rows}

\* A list that is under way: what it knew at its start is still so, and what it
\* has read and will read respects it.
ListOK(r) ==
    r.op = "list" =>
        /\ r.removed \subseteq gone /\ r.created \subseteq keys \cup gone
        /\ r.todo \subseteq keys \cup gone /\ r.todo \cap r.removed = {}
        /\ \A row \in r.rows : row.job \notin r.removed /\ (row.cron = "" => row.job \in gone)
        /\ r.pc \in {"hmget", "ok"} => r.created \subseteq Jobs(r.rows) \cup r.todo \cup gone
        /\ r.pc = "ok" => r.todo = {}

Underway == \A s \in Slot : CreateOK(req[s]) /\ ChangeOK(req[s]) /\ ListOK(req[s])

\* No two requests add the same job.
OwnIds ==
    \A s, t \in Slot : s # t /\ Adding(req[s]) /\ Adding(req[t]) => req[s].job # req[t].job

Shown == RemovedStaysGone /\ BlankMeansRemoved /\ CreatedListed

PagesInv == Typed /\ Books /\ Backed /\ Underway /\ OwnIds /\ Shown

-----------------------------------------------------------------------------
(* Requests.                                                               *)

\* Two records of one request; its table may have been made anew.
Same(q, r) ==
    /\ q.op = r.op /\ q.pc = r.pc /\ q.page = r.page /\ q.job = r.job /\ q.cron = r.cron
    /\ q.todo = r.todo /\ q.rows = r.rows /\ q.removed = r.removed /\ q.created = r.created

\* A step of the request s keeps the others right, if the set and what has gone
\* only grow together and it takes nothing of a job that another one is adding.
LEMMA OthersKept ==
    ASSUME PagesInv, NEW s \in Slot,
           \A t \in Slot \ {s} : Same(req'[t], req[t]),
           keys \cup gone \subseteq keys' \cup gone', gone \subseteq gone', used \subseteq used',
           \A t \in Slot \ {s} : Adding(req[t]) =>
               /\ req[t].job \notin keys' \cup gone'
               /\ req[t].pc = "sadd" => HasCron(req[t].job)',
           Adding(req'[s]) => \A t \in Slot \ {s} : Adding(req[t]) => req[t].job # req'[s].job,
           CreateOK(req[s])', ChangeOK(req[s])', ListOK(req[s])'
    PROVE  Underway' /\ OwnIds'
<1>1. Underway'
  <2> SUFFICES ASSUME NEW t \in Slot \ {s}
               PROVE  CreateOK(req[t])' /\ ChangeOK(req[t])' /\ ListOK(req[t])'
    BY DEF Underway
  <2>0. Same(req'[t], req[t]) /\ CreateOK(req[t]) /\ ChangeOK(req[t]) /\ ListOK(req[t])
    BY DEF PagesInv, Underway
  <2>1. CreateOK(req[t])'
    BY <2>0 DEF CreateOK, Adding, Same
  <2>2. ChangeOK(req[t])'
    BY <2>0 DEF ChangeOK, Same
  <2>3. ListOK(req[t])'
    BY <2>0 DEF ListOK, Same, Jobs
  <2> QED BY <2>1, <2>2, <2>3
<1>2. OwnIds'
  <2> SUFFICES ASSUME NEW t \in Slot, NEW u \in Slot, t # u, Adding(req'[t]), Adding(req'[u])
               PROVE  req'[t].job # req'[u].job
    BY DEF OwnIds, Adding
  <2>1. CASE t # s /\ u # s
    BY <2>1 DEF PagesInv, OwnIds, Adding, Same
  <2>2. CASE t = s
    BY <2>2 DEF Adding, Same
  <2>3. CASE u = s
    BY <2>3 DEF Adding, Same
  <2> QED BY <2>1, <2>2, <2>3
<1> QED BY <1>1, <1>2

\* Tables that do not change stay right while jobs go.
LEMMA TablesKept ==
    ASSUME PagesInv, UNCHANGED table, gone \subseteq gone'
    PROVE  Shown'
BY DEF PagesInv, Shown, RemovedStaysGone, BlankMeansRemoved, CreatedListed, Listed

-----------------------------------------------------------------------------
(* The pages.                                                              *)

\* A new request that adds nothing, in a free place.
New(r) == r \in Requests /\ ~Adding(r) /\ CreateOK(r) /\ ChangeOK(r) /\ ListOK(r)

\* A button that sends a request changes nothing else.
LEMMA SendKept ==
    ASSUME PagesInv, NEW s \in Slot, NEW r, New(r), Send(s, r), UNCHANGED <<store, told>>
    PROVE  /\ req' \in [Slot -> Requests] /\ sent' \in 0..MaxSent
           /\ Books' /\ Backed' /\ Underway' /\ OwnIds'
<1>0. req' \in [Slot -> Requests]
  BY DEF PagesInv, Typed, Send, New
<1>1. sent' \in 0..MaxSent
  <2>1. sent \in 0..MaxSent /\ MaxSent \in Nat /\ sent < MaxSent /\ sent' = sent + 1
    BY PagesAssumption DEF PagesInv, Typed, Send
  <2> QED BY <2>1
<1>2. Books' /\ Backed'
  BY DEF PagesInv, Books, Backed, HasCron, store, told
<1>3. req'[s] = r /\ \A t \in Slot \ {s} : req'[t] = req[t]
  BY DEF PagesInv, Typed, Send
<1>4. CreateOK(req[s])' /\ ChangeOK(req[s])' /\ ListOK(req[s])'
  BY <1>3 DEF New, CreateOK, ChangeOK, ListOK, HasCron, Adding, Jobs, store, told
<1>5. \A t \in Slot \ {s} : Same(req'[t], req[t])
  BY <1>3 DEF Same
<1>6. \A t \in Slot \ {s} : Adding(req[t]) =>
          /\ req[t].job \notin keys' \cup gone'
          /\ req[t].pc = "sadd" => HasCron(req[t].job)'
  <2> SUFFICES ASSUME NEW t \in Slot \ {s}, Adding(req[t])
               PROVE  /\ req[t].job \notin keys' \cup gone'
                      /\ req[t].pc = "sadd" => HasCron(req[t].job)'
    OBVIOUS
  <2>1. CreateOK(req[t])
    BY DEF PagesInv, Underway
  <2> QED BY <1>3, <2>1 DEF CreateOK, HasCron, store, told
<1>7. ~Adding(req'[s])
  BY <1>3 DEF New
<1> QED
  BY <1>0, <1>1, <1>2, <1>4, <1>5, <1>6, <1>7, OthersKept DEF store, told

\* The button "Create".
LEMMA CreatePressed == ASSUME PagesInv, NEW p \in Page, create(p) PROVE PagesInv'
<1>1. Typed' /\ Books' /\ Backed'
  BY DEF PagesInv, create, Typed, Books, Backed, HasCron, store, told
<1>2. Underway' /\ OwnIds'
  BY DEF PagesInv, create, Underway, OwnIds, CreateOK, ChangeOK, ListOK, HasCron, Adding, store, told
<1> QED BY <1>1, <1>2, TablesKept DEF PagesInv, create, told

\* The button "Close".
LEMMA ClosePressed == ASSUME PagesInv, NEW p \in Page, close(p) PROVE PagesInv'
<1>1. Typed' /\ Books' /\ Backed'
  BY DEF PagesInv, close, Typed, Books, Backed, HasCron, store, told
<1>2. Underway' /\ OwnIds'
  BY DEF PagesInv, close, Underway, OwnIds, CreateOK, ChangeOK, ListOK, HasCron, Adding, store, told
<1> QED BY <1>1, <1>2, TablesKept DEF PagesInv, close, told

\* The rows of a table are of jobs.
LEMMA RowsOfJobs == ASSUME PagesInv, NEW p \in Page, NEW row \in table[p].rows PROVE row.job \in Job
<1>1. table[p].rows \subseteq Row
  BY DEF PagesInv, Typed, Tables
<1> QED BY <1>1 DEF Row

\* The button "Setting".
LEMMA EditPressed ==
    ASSUME PagesInv, NEW p \in Page, NEW row \in table[p].rows, edit(p, row) PROVE PagesInv'
<1>1. Typed' /\ Books' /\ Backed'
  BY RowsOfJobs DEF PagesInv, edit, Typed, Books, Backed, HasCron, store, told
<1>2. Underway' /\ OwnIds'
  BY DEF PagesInv, edit, Underway, OwnIds, CreateOK, ChangeOK, ListOK, HasCron, Adding, store, told
<1> QED BY <1>1, <1>2, TablesKept DEF PagesInv, edit, told

\* The button "Save".
LEMMA SavePressed ==
    ASSUME PagesInv, NEW p \in Page, NEW cron \in Cron \cup {Bad}, NEW s \in Slot, save(p, cron, s)
    PROVE  PagesInv'
<1> DEFINE new == [Request(p, "create", "check") EXCEPT !.job = jobIdInput[p], !.cron = cron]
           change == [Request(p, "update", "info") EXCEPT !.job = jobIdInput[p], !.cron = cron]
<1>1. New(new)
  BY DEF PagesInv, Typed, New, Request, Free, Requests, Pcs, Adding, CreateOK, ChangeOK, ListOK
<1>2. jobIdInput[p] # None => New(change)
  BY DEF PagesInv, Typed, New, Request, Free, Requests, Pcs, Adding, CreateOK, ChangeOK, ListOK
<1>3. UNCHANGED <<store, told, view>>
  BY DEF save
<1>4. CASE jobIdInput[p] = None
  BY <1>1, <1>3, <1>4, SendKept, TablesKept DEF save, PagesInv, Typed, store, told, view
<1>5. CASE jobIdInput[p] # None
  BY <1>2, <1>3, <1>5, SendKept, TablesKept DEF save, PagesInv, Typed, store, told, view
<1> QED BY <1>4, <1>5

\* The button "Remove".
LEMMA RemovePressed ==
    ASSUME PagesInv, NEW p \in Page, NEW row \in table[p].rows, NEW s \in Slot, remove(p, row, s)
    PROVE  PagesInv'
<1> DEFINE r == [Request(p, "remove", "srem") EXCEPT !.job = row.job]
<1>1. New(r)
  BY RowsOfJobs DEF New, Request, Free, Requests, Pcs, Adding, CreateOK, ChangeOK, ListOK
<1>2. UNCHANGED <<store, told, view>> /\ Send(s, r)
  BY DEF remove
<1> QED
  BY <1>1, <1>2, SendKept, TablesKept DEF PagesInv, Typed, store, told, view

\* The switch.
LEMMA EnablePressed ==
    ASSUME PagesInv, NEW p \in Page, NEW row \in table[p].rows, NEW s \in Slot, enable(p, row, s)
    PROVE  PagesInv'
<1> DEFINE r == [Request(p, "enable", "info") EXCEPT !.job = row.job, !.on = row.job \in switch'[p]]
<1>0. (row.job \in switch'[p]) \in BOOLEAN
  OBVIOUS
<1>1. New(r)
  BY <1>0, RowsOfJobs DEF New, Request, Free, Requests, Pcs, Adding, CreateOK, ChangeOK, ListOK
<1>2. UNCHANGED <<store, told, table, jobIdInput, modal>> /\ Send(s, r)
  BY DEF enable
<1>3. switch' \in [Page -> SUBSET Job]
  BY RowsOfJobs DEF PagesInv, Typed, enable
<1> QED
  BY <1>1, <1>2, <1>3, SendKept, TablesKept DEF PagesInv, Typed, store, told

\* The save of the script editor.
LEMMA ScriptSaved ==
    ASSUME PagesInv, NEW j \in Job, NEW s \in Slot, saveScript(j, s) PROVE PagesInv'
<1> DEFINE r == [Request(None, "script", "hmset") EXCEPT !.job = j]
<1>1. New(r)
  BY DEF New, Request, Free, Requests, Pcs, Adding, CreateOK, ChangeOK, ListOK
<1>2. UNCHANGED <<store, told, view>> /\ Send(s, r)
  BY DEF saveScript
<1> QED
  BY <1>1, <1>2, SendKept, TablesKept DEF PagesInv, Typed, store, told, view

-----------------------------------------------------------------------------
(* A table is made anew.                                                   *)

\* reload asks for a list that knows all the page knows.
LEMMA ReloadKept ==
    ASSUME PagesInv, NEW p \in Page, NEW s \in Slot, reload(p, s), UNCHANGED <<store, gone>>,
           removed' \subseteq gone, created' \subseteq keys \cup gone
    PROVE  /\ req' \in [Slot -> Requests] /\ table' \in [Page -> Tables]
           /\ switch' \in [Page -> SUBSET Job]
           /\ Books' /\ Backed' /\ Underway' /\ OwnIds' /\ Shown'
<1>0. keys' = keys /\ hash' = hash /\ used' = used /\ gone' = gone
  BY DEF store
<1>1. Books' /\ Backed'
  BY <1>0 DEF PagesInv, Books, Backed, HasCron
<1>2. removed' \in SUBSET Job /\ created' \in SUBSET Job
  BY DEF PagesInv, Books
<1>3. List(p) \in Requests /\ List(p).op = "list" /\ List(p).pc = "smembers" /\ List(p).page = p
      /\ List(p).todo = {} /\ List(p).rows = {}
      /\ List(p).removed = removed' /\ List(p).created = created'
  BY <1>2 DEF List, Request, Free, Requests, Pcs
<1>4. \A t \in Slot : Overtaken(p)[t] \in Requests /\ Same(Overtaken(p)[t], req[t])
  <2> TAKE t \in Slot
  <2> DEFINE late == req[t].stale \/ (req[t].page = p /\ req[t].op = "list")
  <2>1. Overtaken(p)[t] = [req[t] EXCEPT !.stale = late]
    BY DEF Overtaken
  <2>2. req[t] \in Requests /\ late \in BOOLEAN
    BY DEF PagesInv, Typed
  <2>3. [req[t] EXCEPT !.stale = late] \in Requests
    <3> HIDE DEF late
    <3> QED BY <2>2 DEF Requests
  <2>4. Same([req[t] EXCEPT !.stale = late], req[t])
    <3> HIDE DEF late
    <3> QED BY <2>2 DEF Requests, Same
  <2> QED BY <2>1, <2>3, <2>4
<1>5. req' = [t \in Slot |-> IF t = s THEN List(p) ELSE Overtaken(p)[t]]
  BY DEF reload, Overtaken
<1>6. req' \in [Slot -> Requests]
  BY <1>3, <1>4, <1>5
<1>7. \A t \in Slot \ {s} : Same(req'[t], req[t])
  BY <1>4, <1>5
<1>8. req'[s] = List(p)
  BY <1>5
<1>9. CreateOK(req[s])' /\ ChangeOK(req[s])' /\ ListOK(req[s])' /\ ~Adding(req'[s])
  BY <1>0, <1>3, <1>8 DEF CreateOK, ChangeOK, ListOK, Adding
<1>10. Underway' /\ OwnIds'
  <2>1. ASSUME NEW t \in Slot \ {s}, Adding(req[t])
        PROVE  /\ req[t].job \notin keys' \cup gone'
               /\ req[t].pc = "sadd" => HasCron(req[t].job)'
    <3>1. CreateOK(req[t]) /\ Same(req'[t], req[t])
      BY <1>7 DEF PagesInv, Underway
    <3> QED BY <1>0, <2>1, <3>1 DEF CreateOK, HasCron, Same
  <2> QED BY <1>0, <1>7, <1>9, <2>1, OthersKept
<1>11. table' \in [Page -> Tables] /\ switch' \in [Page -> SUBSET Job]
  BY DEF PagesInv, Typed, reload, Loaded, Tables
<1>12. Shown'
  <2>1. table'[p].rows = {} /\ table'[p].status = "loading" /\ \A q \in Page \ {p} : table'[q] = table[q]
    BY DEF PagesInv, Typed, reload, Loaded
  <2> QED
    BY <1>0, <2>1 DEF PagesInv, Shown, RemovedStaysGone, BlankMeansRemoved, CreatedListed, Listed
<1> QED BY <1>1, <1>6, <1>10, <1>11, <1>12

\* The menu of the page.
LEMMA NavClicked ==
    ASSUME PagesInv, NEW p \in Page, NEW s \in Slot, navClick(p, s) PROVE PagesInv'
<1>1. reload(p, s) /\ UNCHANGED <<store, told, modal>>
      /\ jobIdInput' = [jobIdInput EXCEPT ![p] = None] /\ sent < MaxSent /\ sent' = sent + 1
  BY DEF navClick
<1>2. removed' \subseteq gone /\ created' \subseteq keys \cup gone /\ gone' = gone
  BY <1>1 DEF PagesInv, Books, told
<1>3. sent' \in 0..MaxSent
  <2>1. sent \in 0..MaxSent /\ MaxSent \in Nat
    BY PagesAssumption DEF PagesInv, Typed
  <2> QED BY <1>1, <2>1
<1> QED
  BY <1>1, <1>2, <1>3, ReloadKept DEF PagesInv, Typed, store

\* The answer to a removal.
LEMMA RemoveAnswered == ASSUME PagesInv, NEW s \in Slot, removeDone(s) PROVE PagesInv'
<1>1. reload(req[s].page, s) /\ UNCHANGED <<store, gone, created, jobIdInput, modal, sent>>
      /\ removed' = removed \cup {req[s].job} /\ At(s, "remove", "ok")
  BY DEF removeDone
<1>2. req[s].page \in Page /\ req[s].job \in gone
  BY <1>1 DEF PagesInv, Underway, ChangeOK, At
<1>3. removed' \subseteq gone /\ created' \subseteq keys \cup gone
  BY <1>1, <1>2 DEF PagesInv, Books
<1> QED
  BY <1>1, <1>2, <1>3, ReloadKept DEF PagesInv, Typed, store

\* The answer to a save.
LEMMA SaveAnswered == ASSUME PagesInv, NEW s \in Slot, saveDone(s) PROVE PagesInv'
<1>1. reload(req[s].page, s) /\ UNCHANGED <<store, gone, removed, jobIdInput, sent>>
      /\ modal' = [modal EXCEPT ![req[s].page] = "closed"]
      /\ created' = (IF req[s].op = "create" THEN created \cup {req[s].job} ELSE created)
      /\ req[s].op \in {"create", "update"} /\ req[s].pc = "ok"
  BY DEF saveDone
<1>2. req[s].page \in Page /\ (req[s].op = "create" => req[s].job \in keys \cup gone)
  BY <1>1 DEF PagesInv, Underway, ChangeOK, CreateOK
<1>3. removed' \subseteq gone /\ created' \subseteq keys \cup gone
  BY <1>1, <1>2 DEF PagesInv, Books
<1> QED
  BY <1>1, <1>2, <1>3, ReloadKept DEF PagesInv, Typed, store

-----------------------------------------------------------------------------
(* The handlers.                                                           *)

\* A step of a handler leaves all but its program counter alone.
LEMMA GotoKept ==
    ASSUME PagesInv, NEW s \in Slot, NEW pc \in Pcs, Goto(s, pc)
    PROVE  /\ req' \in [Slot -> Requests]
           /\ req'[s].op = req[s].op /\ req'[s].pc = pc /\ req'[s].job = req[s].job
           /\ req'[s].cron = req[s].cron /\ req'[s].page = req[s].page
           /\ \A t \in Slot \ {s} : req'[t] = req[t]
<1>0. req \in [Slot -> Requests]
  BY DEF PagesInv, Typed
<1>1. req' = [req EXCEPT ![s] = [req[s] EXCEPT !.pc = pc]]
  BY <1>0 DEF Goto
<1>2. [req[s] EXCEPT !.pc = pc] \in Requests
  BY <1>0 DEF Requests
<1>3. req'[s] = [req[s] EXCEPT !.pc = pc] /\ req[s] \in Requests
  BY <1>0, <1>1
<1> QED BY <1>0, <1>1, <1>2, <1>3 DEF Requests

\* OthersKept, for a step that changes one request and leaves the rest as they are.
LEMMA OneMoves ==
    ASSUME PagesInv, NEW s \in Slot,
           \A t \in Slot \ {s} : req'[t] = req[t],
           keys \cup gone \subseteq keys' \cup gone', gone \subseteq gone', used \subseteq used',
           \A t \in Slot \ {s} : Adding(req[t]) => req[t].job \notin keys' \cup gone',
           \A t \in Slot \ {s} : Adding(req[t]) => hash'[req[t].job] = hash[req[t].job]
                                                    \/ HasCron(req[t].job)',
           Adding(req'[s]) => \A t \in Slot \ {s} : Adding(req[t]) => req[t].job # req'[s].job,
           CreateOK(req[s])', ChangeOK(req[s])', ListOK(req[s])'
    PROVE  Underway' /\ OwnIds'
<1>1. ASSUME NEW t \in Slot \ {s}, Adding(req[t])
      PROVE  /\ req[t].job \notin keys' \cup gone'
             /\ req[t].pc = "sadd" => HasCron(req[t].job)'
  <2>1. CreateOK(req[t])
    BY DEF PagesInv, Underway
  <2> QED BY <1>1, <2>1 DEF CreateOK, HasCron
<1>2. \A t \in Slot \ {s} : Same(req'[t], req[t])
  BY DEF Same
<1> QED BY <1>1, <1>2, OthersKept

\* What others are adding is neither in the set nor gone.
LEMMA AddingApart ==
    ASSUME PagesInv, NEW t \in Slot, Adding(req[t])
    PROVE  req[t].job \in used /\ req[t].job \notin keys \cup gone
BY DEF PagesInv, Underway, CreateOK

\* GetJobInfos reads the set.
LEMMA ListBegun == ASSUME PagesInv, NEW s \in Slot, listKeys(s) PROVE PagesInv'
<1> DEFINE pc == IF keys = {} THEN "ok" ELSE "hmget"
<1>0. UNCHANGED <<store, view, told, sent>> /\ At(s, "list", "smembers")
  BY DEF listKeys
<1>a. keys' = keys /\ hash' = hash /\ used' = used /\ gone' = gone /\ table' = table
  BY <1>0 DEF store, view, told
<1>1. req' = [req EXCEPT ![s] = [req[s] EXCEPT !.todo = keys, !.pc = pc]]
  BY DEF PagesInv, Typed, listKeys
<1>2. req[s] \in Requests /\ keys \in SUBSET Job /\ pc \in Pcs
  BY DEF PagesInv, Typed, Books, Pcs
<1>3. [req[s] EXCEPT !.todo = keys, !.pc = pc] \in Requests
  BY <1>2 DEF Requests
<1>4. req' \in [Slot -> Requests] /\ \A t \in Slot \ {s} : req'[t] = req[t]
  BY <1>1, <1>3 DEF PagesInv, Typed
<1>5. /\ req'[s].op = "list" /\ req'[s].pc = pc /\ req'[s].todo = keys
      /\ req'[s].page = req[s].page /\ req'[s].rows = req[s].rows
      /\ req'[s].removed = req[s].removed /\ req'[s].created = req[s].created
  BY <1>0, <1>1, <1>2 DEF PagesInv, Typed, Requests, At
<1>6. CreateOK(req[s])' /\ ChangeOK(req[s])' /\ ~Adding(req'[s])
  <2>1. ChangeOK(req[s])
    BY DEF PagesInv, Underway
  <2> QED BY <1>0, <1>5, <2>1 DEF CreateOK, ChangeOK, Adding, At
<1>7. ListOK(req[s])'
  <2>1. ListOK(req[s]) /\ keys \cap gone = {}
    BY DEF PagesInv, Underway, Books
  <2> QED BY <1>0, <1>a, <1>5, <2>1 DEF ListOK, At, Jobs
<1>8. Underway' /\ OwnIds'
  BY <1>a, <1>4, <1>6, <1>7, OneMoves, AddingApart
<1>9. Books' /\ Backed' /\ Shown'
  BY <1>0, <1>a, TablesKept DEF PagesInv, Books, Backed, HasCron, told
<1> QED BY <1>0, <1>4, <1>8, <1>9 DEF PagesInv, Typed, store, view

\* GetJobInfos reads a hash.
LEMMA RowRead == ASSUME PagesInv, NEW s \in Slot, NEW j \in Job, listRow(s, j) PROVE PagesInv'
<1> DEFINE pc == IF req[s].todo = {j} THEN "ok" ELSE "hmget"
           row == [job |-> j, cron |-> GetJobInfo(j).cron, state |-> GetJobInfo(j).state]
<1>0. UNCHANGED <<store, view, told, sent>> /\ At(s, "list", "hmget") /\ j \in req[s].todo
  BY DEF listRow
<1>a. keys' = keys /\ hash' = hash /\ used' = used /\ gone' = gone /\ table' = table
  BY <1>0 DEF store, view, told
<1>1. req' = [req EXCEPT ![s] = [req[s] EXCEPT !.todo = @ \ {j}, !.rows = @ \cup {row}, !.pc = pc]]
  BY DEF PagesInv, Typed, listRow
<1>2. req[s] \in Requests /\ pc \in Pcs
  BY DEF PagesInv, Typed, Pcs
<1>3. row \in Row /\ (row.cron = "" => j \in gone)
  <2>1. GetJobInfo(j) \in Entity
    BY DEF PagesInv, Typed, GetJobInfo, Blank, Entity
  <2>2. j \in keys \cup gone
    BY <1>0 DEF PagesInv, Underway, ListOK, At
  <2>3. j \in keys => GetJobInfo(j).cron # ""
    BY PagesAssumption DEF PagesInv, Backed, HasCron, GetJobInfo
  <2> QED BY <2>1, <2>2, <2>3 DEF Row, Entity
<1> HIDE DEF row, pc
<1>4. [req[s] EXCEPT !.todo = @ \ {j}, !.rows = @ \cup {row}, !.pc = pc] \in Requests
  BY <1>2, <1>3 DEF Requests
<1>5. req' \in [Slot -> Requests] /\ \A t \in Slot \ {s} : req'[t] = req[t]
  BY <1>1, <1>4 DEF PagesInv, Typed
<1>6. /\ req'[s].op = "list" /\ req'[s].pc = pc /\ req'[s].todo = req[s].todo \ {j}
      /\ req'[s].page = req[s].page /\ req'[s].rows = req[s].rows \cup {row}
      /\ req'[s].removed = req[s].removed /\ req'[s].created = req[s].created
  BY <1>0, <1>1, <1>2 DEF PagesInv, Typed, Requests, At
<1>7. CreateOK(req[s])' /\ ChangeOK(req[s])' /\ ~Adding(req'[s])
  <2>1. ChangeOK(req[s])
    BY DEF PagesInv, Underway
  <2> QED BY <1>0, <1>2, <1>6, <2>1 DEF CreateOK, ChangeOK, Adding, At, pc
<1>8. ListOK(req[s])'
  <2>1. ListOK(req[s]) /\ row.job = j
    BY DEF PagesInv, Underway, row
  <2> QED BY <1>0, <1>a, <1>3, <1>6, <2>1 DEF ListOK, At, Jobs, pc
<1>9. Underway' /\ OwnIds'
  BY <1>a, <1>5, <1>7, <1>8, OneMoves, AddingApart
<1>10. Books' /\ Backed' /\ Shown'
  BY <1>0, <1>a, TablesKept DEF PagesInv, Books, Backed, HasCron, told
<1> QED BY <1>0, <1>5, <1>9, <1>10 DEF PagesInv, Typed, store, view

\* A handler that goes on, or to its end, and has not touched the store.
LEMMA OnlyGoto ==
    ASSUME PagesInv, NEW s \in Slot, NEW pc \in Pcs, Goto(s, pc), UNCHANGED <<store, view, told, sent>>,
           req[s].op # "list",
           req[s].op = "create" => pc = "fail",
           req[s].op = "remove" => pc = "fail",
           req[s].op = "update" /\ pc = "hmset" => req[s].cron \in Cron
    PROVE  PagesInv'
<1>a. keys' = keys /\ hash' = hash /\ used' = used /\ gone' = gone /\ table' = table
  BY DEF store, view, told
<1>1. req' \in [Slot -> Requests] /\ \A t \in Slot \ {s} : req'[t] = req[t]
  BY GotoKept
<1>2. req'[s].op = req[s].op /\ req'[s].pc = pc /\ req'[s].job = req[s].job
      /\ req'[s].cron = req[s].cron /\ req'[s].page = req[s].page
  BY GotoKept
<1>3. CreateOK(req[s])' /\ ChangeOK(req[s])' /\ ListOK(req[s])' /\ ~Adding(req'[s])
  <2>1. ChangeOK(req[s])
    BY DEF PagesInv, Underway
  <2> QED BY <1>1, <1>2, <2>1 DEF CreateOK, ChangeOK, ListOK, Adding
<1>4. Underway' /\ OwnIds'
  BY <1>a, <1>1, <1>3, OneMoves, AddingApart
<1>5. Books' /\ Backed' /\ Shown'
  BY <1>a, TablesKept DEF PagesInv, Books, Backed, HasCron, told
<1> QED BY <1>1, <1>4, <1>5 DEF PagesInv, Typed, store, view

\* Update and Start check.
LEMMA InfoRead == ASSUME PagesInv, NEW s \in Slot, info(s) PROVE PagesInv'
<1> DEFINE ok == CASE req[s].op = "update" -> checkTimeSettings(req[s].cron)
                   [] req[s].op = "enable" -> req[s].on =>
                                                checkTimeSettings(GetJobInfo(req[s].job).cron)
           pc == IF ok THEN "hmset" ELSE "fail"
<1>1. req[s].op \in {"update", "enable"} /\ Goto(s, pc) /\ UNCHANGED <<store, view, told, sent>>
  BY DEF info
<1>2. req[s].op = "update" /\ pc = "hmset" => req[s].cron \in Cron
  <2> SUFFICES ASSUME req[s].op = "update", req[s].cron \notin Cron PROVE pc # "hmset"
    OBVIOUS
  <2>1. ~ok
    BY DEF checkTimeSettings
  <2> QED BY <2>1
<1>3. pc \in Pcs
  BY DEF Pcs
<1> HIDE DEF ok, pc
<1> QED BY <1>1, <1>2, <1>3, OnlyGoto

\* RemoveJob, its first command.
LEMMA KeyRemoved == ASSUME PagesInv, NEW s \in Slot, removeKey(s) PROVE PagesInv'
<1> DEFINE pc == IF req[s].job \in keys THEN "del" ELSE "fail"
<1>1. At(s, "remove", "srem") /\ keys' = keys \ {req[s].job} /\ gone' = gone \cup (keys \ keys')
      /\ Goto(s, pc) /\ UNCHANGED <<hash, used, view, removed, created, sent>>
  BY DEF removeKey
<1>2. req' \in [Slot -> Requests] /\ \A t \in Slot \ {s} : req'[t] = req[t]
  BY <1>1, GotoKept DEF Pcs
<1>3. req'[s].op = "remove" /\ req'[s].pc = pc /\ req'[s].job = req[s].job /\ req'[s].page = req[s].page
  BY <1>1, GotoKept DEF Pcs, At
<1>4. CreateOK(req[s])' /\ ChangeOK(req[s])' /\ ListOK(req[s])' /\ ~Adding(req'[s])
  <2>1. ChangeOK(req[s])
    BY DEF PagesInv, Underway
  <2> QED BY <1>1, <1>3, <2>1 DEF CreateOK, ChangeOK, ListOK, Adding, At
<1>5. Underway' /\ OwnIds'
  BY <1>1, <1>2, <1>4, OneMoves, AddingApart
<1>6. Books' /\ Backed'
  BY <1>1 DEF PagesInv, Books, Backed, HasCron
<1>7. Shown'
  BY <1>1, TablesKept DEF view
<1> QED BY <1>1, <1>2, <1>5, <1>6, <1>7 DEF PagesInv, Typed, view

\* RemoveJob, its second command: of a job that is gone.
LEMMA HashRemoved == ASSUME PagesInv, NEW s \in Slot, removeHash(s) PROVE PagesInv'
<1> DEFINE pc == IF hash[req[s].job] = None THEN "fail" ELSE "ok"
<1>1. At(s, "remove", "del") /\ hash' = [hash EXCEPT ![req[s].job] = None]
      /\ Goto(s, pc) /\ UNCHANGED <<keys, used, view, told, sent>>
  BY DEF removeHash
<1>a. keys' = keys /\ used' = used /\ gone' = gone /\ table' = table
  BY <1>1 DEF view, told
<1>2. req' \in [Slot -> Requests] /\ \A t \in Slot \ {s} : req'[t] = req[t]
  BY <1>1, GotoKept DEF Pcs
<1>3. req'[s].op = "remove" /\ req'[s].pc = pc /\ req'[s].job = req[s].job /\ req'[s].page = req[s].page
  BY <1>1, GotoKept DEF Pcs, At
<1>4. req[s].job \in gone /\ req[s].job \in Job
  BY <1>1 DEF PagesInv, Underway, ChangeOK, At
<1>5. CreateOK(req[s])' /\ ChangeOK(req[s])' /\ ListOK(req[s])' /\ ~Adding(req'[s])
  <2>1. ChangeOK(req[s])
    BY DEF PagesInv, Underway
  <2> QED BY <1>1, <1>a, <1>3, <1>4, <2>1 DEF CreateOK, ChangeOK, ListOK, Adding, At
<1>6. \A j \in Job : j \notin gone => hash'[j] = hash[j]
  BY <1>1, <1>4 DEF PagesInv, Typed
<1>7. Underway' /\ OwnIds'
  <2>1. ASSUME NEW t \in Slot \ {s}, Adding(req[t])
        PROVE  req[t].job \notin keys' \cup gone' /\ hash'[req[t].job] = hash[req[t].job]
    BY <1>a, <1>6, <2>1, AddingApart DEF PagesInv, Books
  <2> QED BY <1>a, <1>2, <1>5, <2>1, OneMoves
<1>8. Books' /\ Backed'
  BY <1>1, <1>a, <1>6 DEF PagesInv, Books, Backed, HasCron, told
<1>9. Shown'
  BY <1>a, TablesKept
<1> QED BY <1>1, <1>2, <1>7, <1>8, <1>9 DEF PagesInv, Typed, view

\* Create takes an id that nobody has had.
LEMMA NewChecked ==
    ASSUME PagesInv, NEW s \in Slot, NEW j \in Job, checkNew(s, j) PROVE PagesInv'
<1>0. At(s, "create", "check") /\ j \notin used /\ UNCHANGED <<keys, hash, view, told, sent>>
  BY DEF checkNew
<1>a. keys' = keys /\ hash' = hash /\ gone' = gone /\ table' = table
  BY <1>0 DEF view, told
<1>1. CASE ~checkTimeSettings(req[s].cron)
  <2>1. Goto(s, "fail") /\ UNCHANGED <<store, view, told, sent>>
    BY <1>0, <1>1 DEF checkNew, store
  <2> QED BY <1>0, <2>1, OnlyGoto DEF At, Pcs
<1>2. CASE checkTimeSettings(req[s].cron)
  <2>1. used' = used \cup {j} /\ req' = [req EXCEPT ![s] = [req[s] EXCEPT !.job = j, !.pc = "hmset"]]
    BY <1>2 DEF checkNew, PagesInv, Typed
  <2>2. req[s] \in Requests
    BY DEF PagesInv, Typed
  <2>3. [req[s] EXCEPT !.job = j, !.pc = "hmset"] \in Requests
    BY <2>2 DEF Requests, Pcs
  <2>4. req' \in [Slot -> Requests] /\ \A t \in Slot \ {s} : req'[t] = req[t]
    BY <2>1, <2>3 DEF PagesInv, Typed
  <2>5. req'[s].op = "create" /\ req'[s].pc = "hmset" /\ req'[s].job = j
        /\ req'[s].cron = req[s].cron /\ req'[s].page = req[s].page
    BY <1>0, <2>1, <2>2 DEF PagesInv, Typed, Requests, At
  <2>6. CreateOK(req[s])' /\ ChangeOK(req[s])' /\ ListOK(req[s])'
    <3>1. ChangeOK(req[s]) /\ keys \subseteq used /\ gone \subseteq used
      BY DEF PagesInv, Underway, Books
    <3>2. req[s].cron \in Cron
      BY <1>2 DEF checkTimeSettings
    <3>3. CreateOK(req[s])'
      BY <1>0, <1>a, <2>1, <2>5, <3>1, <3>2 DEF CreateOK, Adding
    <3>4. ChangeOK(req[s])' /\ ListOK(req[s])'
      BY <1>0, <2>5, <3>1 DEF ChangeOK, ListOK, At
    <3> QED BY <3>3, <3>4
  <2>7. Underway' /\ OwnIds'
    BY <1>0, <1>a, <2>1, <2>4, <2>5, <2>6, OneMoves, AddingApart
  <2>8. Books' /\ Backed' /\ Shown'
    BY <1>0, <1>a, <2>1, TablesKept DEF PagesInv, Books, Backed, HasCron, told
  <2> QED BY <1>0, <2>4, <2>7, <2>8 DEF PagesInv, Typed, view
<1> QED BY <1>1, <1>2

\* AddJob, its first command.
LEMMA HashAdded == ASSUME PagesInv, NEW s \in Slot, addHash(s) PROVE PagesInv'
<1> DEFINE e == [cron |-> req[s].cron, state |-> "stop"]
<1>1. At(s, "create", "hmset") /\ hash' = [hash EXCEPT ![req[s].job] = e]
      /\ Goto(s, "sadd") /\ UNCHANGED <<keys, used, view, told, sent>>
  BY DEF addHash
<1>a. keys' = keys /\ used' = used /\ gone' = gone /\ table' = table
  BY <1>1 DEF view, told
<1>2. req' \in [Slot -> Requests] /\ \A t \in Slot \ {s} : req'[t] = req[t]
  BY <1>1, GotoKept DEF Pcs
<1>3. req'[s].op = "create" /\ req'[s].pc = "sadd" /\ req'[s].job = req[s].job
      /\ req'[s].cron = req[s].cron /\ req'[s].page = req[s].page
  BY <1>1, GotoKept DEF Pcs, At
<1>4. Adding(req[s]) /\ req[s].job \in Job /\ req[s].job \in used /\ req[s].job \notin keys \cup gone
      /\ req[s].cron \in Cron
  BY <1>1 DEF PagesInv, Underway, CreateOK, Adding, At, Books
<1>5. e \in Entity /\ e # None /\ e.cron \in Cron
  <2>1. e \in Entity
    BY <1>4 DEF Entity
  <2>2. None \notin Entity
    BY PagesAssumption
  <2> QED BY <1>4, <2>1, <2>2
<1>6. hash' \in [Job -> Entity \cup {None}] /\ hash'[req[s].job] = e
      /\ \A j \in Job : j # req[s].job => hash'[j] = hash[j]
  BY <1>1, <1>4, <1>5 DEF PagesInv, Typed
<1>7. CreateOK(req[s])' /\ ChangeOK(req[s])' /\ ListOK(req[s])'
  <2>1. ChangeOK(req[s])
    BY DEF PagesInv, Underway
  <2> QED
    BY <1>1, <1>a, <1>3, <1>4, <1>5, <1>6, <2>1 DEF CreateOK, ChangeOK, ListOK, HasCron, Adding, At
<1>8. Underway' /\ OwnIds'
  <2>1. ASSUME NEW t \in Slot \ {s}, Adding(req[t])
        PROVE  /\ req[t].job # req[s].job /\ req[t].job \notin keys' \cup gone'
               /\ hash'[req[t].job] = hash[req[t].job]
    <3>1. req[t].job # req[s].job
      BY <1>4, <2>1 DEF PagesInv, OwnIds
    <3>2. req[t].job \in used /\ req[t].job \notin keys \cup gone /\ used \subseteq Job
      BY <2>1, AddingApart DEF PagesInv, Books
    <3> QED BY <1>a, <1>6, <3>1, <3>2
  <2> QED BY <1>a, <1>2, <1>3, <1>7, <2>1, OneMoves
<1>9. Books' /\ Backed'
  BY <1>1, <1>a, <1>4, <1>6 DEF PagesInv, Books, Backed, HasCron, told
<1>10. Shown'
  BY <1>a, TablesKept
<1> QED BY <1>1, <1>2, <1>6, <1>8, <1>9, <1>10 DEF PagesInv, Typed, view

\* AddJob, its second command: the hash is there.
LEMMA KeyAdded == ASSUME PagesInv, NEW s \in Slot, addKey(s) PROVE PagesInv'
<1>1. At(s, "create", "sadd") /\ keys' = keys \cup {req[s].job}
      /\ Goto(s, "ok") /\ UNCHANGED <<hash, used, view, told, sent>>
  BY DEF addKey
<1>a. hash' = hash /\ used' = used /\ gone' = gone /\ table' = table
  BY <1>1 DEF view, told
<1>2. req' \in [Slot -> Requests] /\ \A t \in Slot \ {s} : req'[t] = req[t]
  BY <1>1, GotoKept DEF Pcs
<1>3. req'[s].op = "create" /\ req'[s].pc = "ok" /\ req'[s].job = req[s].job
      /\ req'[s].page = req[s].page
  BY <1>1, GotoKept DEF Pcs, At
<1>4. Adding(req[s]) /\ req[s].job \in used /\ req[s].job \notin keys \cup gone /\ HasCron(req[s].job)
  <2>1. CreateOK(req[s]) /\ req[s].op = "create" /\ req[s].pc = "sadd"
    BY <1>1 DEF PagesInv, Underway, At
  <2> QED BY <2>1 DEF CreateOK, Adding
<1>5. CreateOK(req[s])' /\ ChangeOK(req[s])' /\ ListOK(req[s])' /\ ~Adding(req'[s])
  <2>1. ChangeOK(req[s])
    BY DEF PagesInv, Underway
  <2> QED BY <1>1, <1>3, <2>1 DEF CreateOK, ChangeOK, ListOK, Adding, At
<1>6. Underway' /\ OwnIds'
  <2>1. ASSUME NEW t \in Slot \ {s}, Adding(req[t])
        PROVE  req[t].job \notin keys' \cup gone'
    BY <1>1, <1>a, <1>4, <2>1, AddingApart DEF PagesInv, OwnIds
  <2> QED BY <1>1, <1>a, <1>2, <1>5, <2>1, OneMoves
<1>7. Books' /\ Backed'
  BY <1>1, <1>a, <1>4 DEF PagesInv, Books, Backed, HasCron, told
<1>8. Shown'
  BY <1>a, TablesKept
<1> QED BY <1>1, <1>2, <1>6, <1>7, <1>8 DEF PagesInv, Typed, view

\* HMSET of some fields leaves a hash, and a job's hash a job's.
LEMMA UpdateKept ==
    ASSUME PagesInv, NEW j \in Job, NEW fields, UpdateJob(j, fields),
           "cron" \in DOMAIN fields => fields["cron"] \in Cron,
           "state" \in DOMAIN fields => fields["state"] \in {"stop", "runnable"}
    PROVE  /\ hash' \in [Job -> Entity \cup {None}]
           /\ \A k \in Job : HasCron(k) => hash'[k] # None /\ hash'[k].cron \in Cron
<1> DEFINE e == [f \in DOMAIN Blank |-> IF f \in DOMAIN fields THEN fields[f] ELSE GetJobInfo(j)[f]]
<1>0. hash \in [Job -> Entity \cup {None}] /\ hash' = [hash EXCEPT ![j] = e]
  BY DEF PagesInv, Typed, UpdateJob
<1>1. DOMAIN Blank = {"cron", "state"}
  BY DEF Blank
<1>2. GetJobInfo(j) \in Entity
  BY <1>0 DEF GetJobInfo, Blank, Entity
<1>3. e = [cron |-> e.cron, state |-> e.state]
  BY <1>1
<1>4. e.cron \in Cron \cup {""} /\ e.state \in {"stop", "runnable"}
  BY <1>1, <1>2 DEF Entity
<1>5. HasCron(j) => e.cron \in Cron
  BY <1>1 DEF HasCron, GetJobInfo
<1> HIDE DEF e
<1>6. e \in Entity
  BY <1>3, <1>4 DEF Entity
<1>7. e # None
  BY <1>6, PagesAssumption
<1> QED BY <1>0, <1>5, <1>6, <1>7 DEF HasCron

\* UpdateJob, also of a job that is gone.
LEMMA Updated == ASSUME PagesInv, NEW s \in Slot, update(s) PROVE PagesInv'
<1> DEFINE fields == CASE req[s].op = "update" -> [cron |-> req[s].cron]
                       [] req[s].op = "enable" -> [state |-> IF req[s].on THEN "runnable" ELSE "stop"]
                       [] req[s].op = "script" -> <<>>
<1>1. req[s].op \in {"update", "enable", "script"} /\ req[s].pc = "hmset"
      /\ UpdateJob(req[s].job, fields) /\ Goto(s, "ok") /\ UNCHANGED <<keys, used, view, told, sent>>
  BY DEF update
<1>a. keys' = keys /\ used' = used /\ gone' = gone /\ table' = table
  BY <1>1 DEF view, told
<1>2. req' \in [Slot -> Requests] /\ \A t \in Slot \ {s} : req'[t] = req[t]
  BY <1>1, GotoKept DEF Pcs
<1>3. req'[s].op = req[s].op /\ req'[s].pc = "ok" /\ req'[s].job = req[s].job
      /\ req'[s].page = req[s].page
  BY <1>1, GotoKept DEF Pcs
<1>4. ChangeOK(req[s]) /\ req[s].job \in Job
  BY <1>1 DEF PagesInv, Underway, ChangeOK
<1>5. /\ "cron" \in DOMAIN fields => fields["cron"] \in Cron
      /\ "state" \in DOMAIN fields => fields["state"] \in {"stop", "runnable"}
  <2>1. CASE req[s].op = "update"
    <3>1. fields = [cron |-> req[s].cron] /\ req[s].cron \in Cron
      BY <1>1, <1>4, <2>1 DEF ChangeOK
    <3> HIDE DEF fields
    <3> QED BY <3>1
  <2>2. CASE req[s].op = "enable"
    <3>1. PICK state \in {"stop", "runnable"} : fields = [state |-> state]
      BY <2>2
    <3> HIDE DEF fields
    <3> QED BY <3>1
  <2>3. CASE req[s].op = "script"
    <3>1. fields = <<>>
      BY <2>3
    <3> HIDE DEF fields
    <3> QED BY <3>1
  <2> QED BY <1>1, <2>1, <2>2, <2>3
<1> HIDE DEF fields
<1>6. hash' \in [Job -> Entity \cup {None}]
      /\ \A k \in Job : HasCron(k) => hash'[k] # None /\ hash'[k].cron \in Cron
  BY <1>1, <1>4, <1>5, UpdateKept
<1>7. CreateOK(req[s])' /\ ChangeOK(req[s])' /\ ListOK(req[s])' /\ ~Adding(req'[s])
  BY <1>1, <1>a, <1>3, <1>4 DEF CreateOK, ChangeOK, ListOK, Adding
<1>8. Underway' /\ OwnIds'
  <2>1. ASSUME NEW t \in Slot \ {s}, Adding(req[t])
        PROVE  /\ req[t].job \notin keys' \cup gone'
               /\ req[t].pc = "sadd" => HasCron(req[t].job)'
    <3>1. req[t].job \in used /\ req[t].job \notin keys \cup gone /\ used \subseteq Job
      BY <2>1, AddingApart DEF PagesInv, Books
    <3>2. req[t].pc = "sadd" => HasCron(req[t].job)
      BY <2>1 DEF PagesInv, Underway, CreateOK
    <3> QED BY <1>a, <1>2, <1>6, <3>1, <3>2 DEF HasCron
  <2>2. \A t \in Slot \ {s} : Same(req'[t], req[t])
    BY <1>2 DEF Same
  <2> QED BY <1>a, <1>7, <2>1, <2>2, OthersKept
<1>9. Books' /\ Backed'
  BY <1>1, <1>a, <1>6 DEF PagesInv, Books, Backed, HasCron, told
<1>10. Shown'
  BY <1>a, TablesKept
<1> QED BY <1>1, <1>2, <1>6, <1>8, <1>9, <1>10 DEF PagesInv, Typed, view

-----------------------------------------------------------------------------
(* Answers.                                                                *)

\* A request that is answered leaves its place free.
LEMMA FreeKept ==
    ASSUME PagesInv, NEW s \in Slot, req' = [req EXCEPT ![s] = Free], UNCHANGED <<store, told>>
    PROVE  req' \in [Slot -> Requests] /\ Books' /\ Backed' /\ Underway' /\ OwnIds'
<1>a. keys' = keys /\ hash' = hash /\ used' = used /\ gone' = gone
  BY DEF store, told
<1>1. Free \in Requests
  BY DEF Free, Requests, Pcs
<1>2. req' \in [Slot -> Requests] /\ req'[s] = Free /\ \A t \in Slot \ {s} : req'[t] = req[t]
  BY <1>1 DEF PagesInv, Typed
<1>3. CreateOK(req[s])' /\ ChangeOK(req[s])' /\ ListOK(req[s])' /\ ~Adding(req'[s])
  BY <1>2 DEF Free, CreateOK, ChangeOK, ListOK, Adding
<1>4. Underway' /\ OwnIds'
  BY <1>a, <1>2, <1>3, OneMoves, AddingApart
<1>5. Books' /\ Backed'
  BY <1>a DEF PagesInv, Books, Backed, HasCron, told
<1> QED BY <1>2, <1>4, <1>5

\* A list fills its table.
LEMMA ListAnswered == ASSUME PagesInv, NEW s \in Slot, fill(s) PROVE PagesInv'
<1> DEFINE r == req[s]
           filled == [status |-> "loaded", rows |-> r.rows, removed |-> r.removed, created |-> r.created]
<1>0. At(s, "list", "ok") /\ req' = [req EXCEPT ![s] = Free]
      /\ UNCHANGED <<store, jobIdInput, modal, told, sent>>
      /\ table' = [table EXCEPT ![r.page] = filled]
      /\ switch' = [switch EXCEPT ![r.page] = {row.job : row \in {x \in r.rows : x.state = "runnable"}}]
  BY DEF fill
<1>1. req' \in [Slot -> Requests] /\ Books' /\ Backed' /\ Underway' /\ OwnIds'
  BY <1>0, FreeKept
<1>2. r \in Requests /\ r.page \in Page /\ ListOK(r) /\ r.op = "list" /\ r.pc = "ok"
  BY <1>0 DEF PagesInv, Typed, Underway, ChangeOK, At
<1>3. r.rows \subseteq Row /\ r.removed \subseteq Job /\ r.created \subseteq Job
  BY <1>2 DEF Requests
<1>4. filled \in Tables
  BY <1>3 DEF Tables
<1>5. {row.job : row \in {x \in r.rows : x.state = "runnable"}} \subseteq Job
  BY <1>3 DEF Row
<1>6. table' \in [Page -> Tables] /\ switch' \in [Page -> SUBSET Job]
  BY <1>0, <1>2, <1>4, <1>5 DEF PagesInv, Typed
<1>7. Shown'
  <2>1. table'[r.page] = filled /\ \A q \in Page \ {r.page} : table'[q] = table[q]
    BY <1>0, <1>2 DEF PagesInv, Typed
  <2>2. gone' = gone
    BY <1>0 DEF told
  <2>3. /\ \A row \in filled.rows : row.job \notin filled.removed /\ (row.cron = "" => row.job \in gone)
        /\ filled.created \subseteq {row.job : row \in filled.rows} \cup gone
    BY <1>2 DEF ListOK, Jobs
  <2> HIDE DEF filled, r
  <2>4. RemovedStaysGone'
    <3> SUFFICES ASSUME NEW q \in Page, NEW row \in table'[q].rows
                 PROVE  row.job \notin table'[q].removed
      BY DEF RemovedStaysGone, Listed
    <3>1. CASE q = r.page
      BY <2>1, <2>3, <3>1
    <3>2. CASE q # r.page
      BY <2>1, <3>2 DEF PagesInv, Shown, RemovedStaysGone, Listed
    <3> QED BY <3>1, <3>2
  <2>5. BlankMeansRemoved'
    BY <2>1, <2>2, <2>3 DEF PagesInv, Shown, BlankMeansRemoved
  <2>6. CreatedListed'
    BY <2>1, <2>2, <2>3 DEF PagesInv, Shown, CreatedListed, Listed
  <2> QED BY <2>4, <2>5, <2>6 DEF Shown
<1> QED BY <1>0, <1>1, <1>6, <1>7 DEF PagesInv, Typed, store, told

\* An answer that is lost, or that nothing is done with.
LEMMA AnswerIgnored == ASSUME PagesInv, NEW s \in Slot, ignored(s) PROVE PagesInv'
<1>0. req' = [req EXCEPT ![s] = Free] /\ UNCHANGED <<store, switch, jobIdInput, modal, told, sent>>
      /\ table' = (IF req[s].op = "list" /\ ~req[s].stale
                     THEN [table EXCEPT ![req[s].page].status = "failed"] ELSE table)
  BY DEF ignored
<1>1. req' \in [Slot -> Requests] /\ Books' /\ Backed' /\ Underway' /\ OwnIds'
  BY <1>0, FreeKept
<1>2. gone' = gone
  BY <1>0 DEF told
<1>3. CASE req[s].op = "list" /\ ~req[s].stale
  <2> DEFINE p == req[s].page
  <2>1. p \in Page
    BY <1>3 DEF PagesInv, Underway, ChangeOK
  <2>2. table' = [table EXCEPT ![p] = [table[p] EXCEPT !.status = "failed"]] /\ table \in [Page -> Tables]
    BY <1>0, <1>3 DEF PagesInv, Typed
  <2> HIDE DEF p
  <2>3. [table[p] EXCEPT !.status = "failed"] \in Tables
    BY <2>1, <2>2 DEF Tables
  <2>4. table' \in [Page -> Tables]
    BY <2>1, <2>2, <2>3
  <2>5. table'[p].status = "failed" /\ table'[p].rows = table[p].rows
        /\ table'[p].removed = table[p].removed /\ \A q \in Page \ {p} : table'[q] = table[q]
    BY <2>1, <2>2 DEF Tables
  <2>6. Shown'
    BY <1>2, <2>1, <2>5
       DEF PagesInv, Shown, RemovedStaysGone, BlankMeansRemoved, CreatedListed, Listed
  <2> QED BY <1>0, <1>1, <2>4, <2>6 DEF PagesInv, Typed, store, told
<1>4. CASE ~(req[s].op = "list" /\ ~req[s].stale)
  BY <1>0, <1>1, <1>2, <1>4, TablesKept DEF PagesInv, Typed, store, told
<1> QED BY <1>3, <1>4

-----------------------------------------------------------------------------
(* The theorems.                                                           *)

\* The invariant holds before there is a job.
LEMMA InitHolds == Init => PagesInv
<1> SUFFICES ASSUME Init PROVE PagesInv
  OBVIOUS
<1>1. Free \in Requests /\ Loaded \in Tables
  BY DEF Free, Requests, Pcs, Loaded, Tables
<1>2. Typed
  <2>1. MaxSent \in Nat
    BY PagesAssumption
  <2>2. sent \in 0..MaxSent
    BY <2>1 DEF Init
  <2> QED BY <1>1, <2>2 DEF Init, Typed
<1>3. Books /\ Backed
  BY DEF Init, Books, Backed
<1>4. Underway /\ OwnIds
  BY DEF Init, Underway, OwnIds, Free, CreateOK, ChangeOK, ListOK, Adding
<1>5. Shown
  BY DEF Init, Loaded, Shown, RemovedStaysGone, BlankMeansRemoved, CreatedListed, Listed
<1> QED BY <1>2, <1>3, <1>4, <1>5 DEF PagesInv

\* And when nothing happens.
LEMMA StutterHolds == ASSUME PagesInv, UNCHANGED vars PROVE PagesInv'
<1>1. UNCHANGED <<keys, hash, used, table, switch, jobIdInput, modal, req, gone, removed, created, sent>>
  BY DEF vars, store, view, told
<1>2. Typed' /\ Books' /\ Backed'
  BY <1>1 DEF PagesInv, Typed, Books, Backed, HasCron
<1>3. Underway' /\ OwnIds'
  BY <1>1 DEF PagesInv, Underway, OwnIds, CreateOK, ChangeOK, ListOK, HasCron, Adding
<1> QED BY <1>1, <1>2, <1>3, TablesKept DEF PagesInv

\* A step of a page, of a handler or of an answer keeps the invariant: no order
\* of the requests of several pages brings the tables and the store apart.
LEMMA StepHolds == ASSUME PagesInv, Next PROVE PagesInv'
<1>1. ASSUME NEW p \in Page, User(p) PROVE PagesInv'
  BY <1>1, CreatePressed, ClosePressed, EditPressed, NavClicked, SavePressed, RemovePressed,
     EnablePressed DEF User
<1>2. ASSUME NEW s \in Slot, Handler(s) PROVE PagesInv'
  BY <1>2, ListBegun, KeyRemoved, HashRemoved, HashAdded, KeyAdded, InfoRead, Updated, RowRead,
     NewChecked DEF Handler
<1>3. ASSUME NEW s \in Slot, Answer(s) PROVE PagesInv'
  BY <1>3, ListAnswered, RemoveAnswered, SaveAnswered, AnswerIgnored DEF Answer
<1>4. ASSUME NEW s \in Slot, NEW j \in Job, saveScript(j, s) PROVE PagesInv'
  BY <1>4, ScriptSaved
<1> QED BY <1>1, <1>2, <1>3, <1>4 DEF Next

\* The invariant of the job list, its requests and the job store: at every step
\* of every handler an id in job_keys_set has its hash, an id that left it does
\* not come back, and a list under way knows no less than the page it is for.
THEOREM PagesInvariant == Spec => []PagesInv
<1>1. PagesInv /\ [Next]_vars => PagesInv'
  BY StepHolds, StutterHolds
<1> QED BY <1>1, InitHolds, PTL DEF Spec

\* For any number of pages, jobs and requests: a job whose removal a page was
\* told of is in no table asked for afterwards (job_list.js remove, localdb.go
\* RemoveJob), whatever was on its way.
THEOREM RemovalFinal == Spec => []RemovedStaysGone
<1>1. PagesInv => RemovedStaysGone
  BY DEF PagesInv, Shown
<1> QED BY <1>1, PagesInvariant, PTL

\* A row without a cron is the row of a job that was removed: AddJob and
\* RemoveJob (localdb.go) keep the hash while GetJobInfos can find its id.
THEOREM BlankRowsRemoved == Spec => []BlankMeansRemoved
<1>1. PagesInv => BlankMeansRemoved
  BY DEF PagesInv, Shown
<1> QED BY <1>1, PagesInvariant, PTL

\* A job whose creation a page was told of (server.go Create) is in every table
\* asked for afterwards, unless it has been removed.
THEOREM CreationListed == Spec => []CreatedListed
<1>1. PagesInv => CreatedListed
  BY DEF PagesInv, Shown
<1> QED BY <1>1, PagesInvariant, PTL

\* The state of the pages and of the store keeps its type: in particular a hash
\* or a row never holds a cron that the server has not accepted.
THEOREM PagesTyped == Spec => []TypeOK
<1>1. ASSUME PagesInv PROVE TypeOK
  <2>1. keys \subseteq used /\ used \subseteq Job
    BY <1>1 DEF PagesInv, Books
  <2>2. \A j \in Job : hash[j] # None => hash[j] \in Entity
    BY <1>1 DEF PagesInv, Typed
  <2>3. \A p \in Page : table[p] \in Tables /\ switch[p] \subseteq Job
                        /\ jobIdInput[p] \in Job \cup {None} /\ modal[p] \in {"closed", "open"}
    BY <1>1 DEF PagesInv, Typed
  <2>4. \A p \in Page : table[p].rows \subseteq Row
    BY <2>3 DEF Tables
  <2>5. \A s \in Slot : req[s].rows \subseteq Row /\ req[s].todo \subseteq Job
    BY <1>1 DEF PagesInv, Typed, Requests
  <2>6. sent \in 0..MaxSent
    BY <1>1 DEF PagesInv, Typed
  <2> QED BY <2>1, <2>2, <2>3, <2>4, <2>5, <2>6 DEF TypeOK
<1> QED BY <1>1, PagesInvariant, PTL
=============================================================================
