------------------------------- MODULE Pages -------------------------------
(***************************************************************************)
(* The job list in the browsers: the scripts src/ui/js/job_list.js, nav.js *)
(* and edit.js, and the handlers of src/server/server.go that their        *)
(* requests reach, over the job store of src/dao/localdb/localdb.go.       *)
(*                                                                         *)
(* Several pages are open.  A user presses buttons, the scripts send       *)
(* requests without waiting for one another, the handlers run command by   *)
(* command against the store, and the answers come back in any order or    *)
(* not at all.  What the scheduler does with a job is in Scheduler.        *)
(***************************************************************************)
EXTENDS Naturals, FiniteSets

CONSTANTS
    Page,      \* browser pages
    Job,       \* job ids
    Slot,      \* bound: requests on their way at one time
    Cron,      \* crons the server accepts
    Bad,       \* a cron that cronexpr rejects
    None,      \* no hash, and the empty id of a form
    MaxSent    \* bound: buttons pressed that send a request

\* The hash of a job, and a row of the table.
Entity == [cron : Cron \cup {""}, state : {"stop", "runnable"}]
Row == [job : Job, cron : Cron \cup {""}, state : {"stop", "runnable"}]

ASSUME PagesAssumption ==
    /\ Slot \subseteq Nat /\ MaxSent \in Nat
    /\ None \notin Job \cup Page \cup Entity
    /\ Bad \notin Cron /\ "" \notin Cron   \* cronexpr rejects the empty cron

VARIABLES
    keys,      \* job_keys_set
    hash,      \* the job hashes
    used,      \* ids uuid.NewString has returned
    table,     \* per page: the table as it was last filled
    switch,    \* per page: the jobs whose switch is on
    jobIdInput,
    modal,     \* per page: the dialog, "open" or "closed"
    req,       \* requests on their way
    gone,      \* jobs that left job_keys_set
    removed,   \* jobs whose removal a page has been told of
    created,   \* jobs whose creation a page has been told of
    sent

store == <<keys, hash, used>>
view  == <<table, switch, jobIdInput, modal>>
told  == <<gone, removed, created>>
vars == <<store, view, req, told, sent>>

-----------------------------------------------------------------------------
(* The job store.                                                          *)

\* HMGET of a missing hash is no error: every field is empty.
Blank == [cron |-> "", state |-> "stop"]

GetJobInfo(j) == IF hash[j] = None THEN Blank ELSE hash[j]

\* UpdateJob: HMSET of some fields, which makes the hash if there is none.
UpdateJob(j, fields) ==
    hash' = [hash EXCEPT ![j] = [f \in DOMAIN Blank |->
                IF f \in DOMAIN fields THEN fields[f] ELSE GetJobInfo(j)[f]]]

\* checkTimeSettings of a timing job.
checkTimeSettings(cron) == cron \in Cron

-----------------------------------------------------------------------------
(* Requests.                                                               *)

Free == [op |-> "none", pc |-> "free", page |-> None, job |-> None, cron |-> "",
         on |-> FALSE, todo |-> {}, rows |-> {}, removed |-> {}, created |-> {},
         stale |-> FALSE]

Request(p, op, pc) == [Free EXCEPT !.op = op, !.pc = pc, !.page = p]

List(p) == [Request(p, "list", "smembers") EXCEPT !.removed = removed', !.created = created']

\* The table of p is made anew: an answer to an earlier one finds no table.
Overtaken(p) == [s \in Slot |-> [req[s] EXCEPT !.stale =
                    @ \/ (req[s].page = p /\ req[s].op = "list")]]

\* A table that was filled from an empty store.
Loaded == [status |-> "loaded", rows |-> {}, removed |-> {}, created |-> {}]

At(s, op, pc) == req[s].op = op /\ req[s].pc = pc
Goto(s, pc) == req' = [req EXCEPT ![s].pc = pc]

\* The first slot that is free.
First(s) == \A t \in Slot : t <= s => (req[t] = Free <=> t = s)

\* A button sends a request.
Send(s, r) ==
    /\ First(s) /\ sent < MaxSent
    /\ req' = [req EXCEPT ![s] = r]
    /\ sent' = sent + 1

-----------------------------------------------------------------------------
(* The pages.                                                              *)

\* bootstrapTable('destroy'), initTable: an empty table, its rows asked for.
reload(p, s) ==
    /\ table' = [table EXCEPT ![p] = [Loaded EXCEPT !.status = "loading"]]
    /\ switch' = [switch EXCEPT ![p] = {}]
    /\ req' = [Overtaken(p) EXCEPT ![s] = List(p)]

\* navClick('index/job_list.html'): new elements, and the script starts with
\* initTable.
navClick(p, s) ==
    /\ modal[p] = "closed" /\ First(s) /\ sent < MaxSent
    /\ UNCHANGED told
    /\ reload(p, s)
    /\ jobIdInput' = [jobIdInput EXCEPT ![p] = None]
    /\ sent' = sent + 1
    /\ UNCHANGED <<store, modal>>

\* The button "Create" opens the dialog, and does nothing else: the id of the job
\* that was edited before is still in the form.
create(p) ==
    /\ modal[p] = "closed"
    /\ modal' = [modal EXCEPT ![p] = "open"]
    /\ UNCHANGED <<store, table, switch, jobIdInput, req, told, sent>>

\* The button "Setting" of a row.
edit(p, row) ==
    /\ modal[p] = "closed" /\ row \in table[p].rows
    /\ jobIdInput' = [jobIdInput EXCEPT ![p] = row.job]
    /\ modal' = [modal EXCEPT ![p] = "open"]
    /\ UNCHANGED <<store, table, switch, req, told, sent>>

close(p) ==
    /\ modal[p] # "closed"
    /\ modal' = [modal EXCEPT ![p] = "closed"]
    /\ UNCHANGED <<store, table, switch, jobIdInput, req, told, sent>>

\* The id in the form decides between POST and PUT; the cron is whatever is in
\* its input (cronCheck marks it and prevents nothing).
save(p, cron, s) ==
    /\ modal[p] # "closed"
    /\ LET createFlag == jobIdInput[p] = None
           r == IF createFlag THEN Request(p, "create", "check") ELSE Request(p, "update", "info")
       IN  Send(s, [r EXCEPT !.job = jobIdInput[p], !.cron = cron])
    /\ UNCHANGED <<store, view, told>>

remove(p, row, s) ==
    /\ modal[p] = "closed" /\ row \in table[p].rows
    /\ Send(s, [Request(p, "remove", "srem") EXCEPT !.job = row.job])
    /\ UNCHANGED <<store, view, told>>

\* The switch has moved when its handler asks for its position.
enable(p, row, s) ==
    /\ modal[p] = "closed" /\ row \in table[p].rows
    /\ switch' = [switch EXCEPT ![p] = (@ \ {row.job}) \cup ({row.job} \ @)]
    /\ Send(s, [Request(p, "enable", "info") EXCEPT !.job = row.job, !.on = row.job \in switch'[p]])
    /\ UNCHANGED <<store, table, jobIdInput, modal, told>>

\* The script editor of a job that a table showed, in a window of its own.
saveScript(j, s) ==
    /\ j \in used
    /\ Send(s, [Request(None, "script", "hmset") EXCEPT !.job = j])
    /\ UNCHANGED <<store, view, told>>

-----------------------------------------------------------------------------
(* The handlers.                                                           *)

\* JobList: GetJobInfos reads the set, then one hash after the other.
listKeys(s) ==
    /\ At(s, "list", "smembers")
    /\ req' = [req EXCEPT ![s].todo = keys, ![s].pc = IF keys = {} THEN "ok" ELSE "hmget"]
    /\ UNCHANGED <<store, view, told, sent>>

\* Mutated: the list waits for a hash that is gone.
listRow_OfPresent(s, j) ==
    /\ At(s, "list", "hmget") /\ j \in req[s].todo /\ hash[j] # None
    /\ req' = [req EXCEPT ![s].todo = @ \ {j},
                          ![s].rows = @ \cup {[job |-> j, cron |-> hash[j].cron,
                                               state |-> hash[j].state]},
                          ![s].pc = IF req[s].todo = {j} THEN "ok" ELSE "hmget"]
    /\ UNCHANGED <<store, view, told, sent>>

listRow(s, j) ==
    /\ At(s, "list", "hmget") /\ j \in req[s].todo
    /\ LET e == GetJobInfo(j)
       IN  req' = [req EXCEPT ![s].todo = @ \ {j},
                              ![s].rows = @ \cup {[job |-> j, cron |-> e.cron, state |-> e.state]},
                              ![s].pc = IF req[s].todo = {j} THEN "ok" ELSE "hmget"]
    /\ UNCHANGED <<store, view, told, sent>>

\* RemoveJob: the set, then the hash; "remove failed" when one has no such id.
removeKey(s) ==
    /\ At(s, "remove", "srem")
    /\ keys' = keys \ {req[s].job}
    /\ gone' = gone \cup (keys \ keys')
    /\ Goto(s, IF req[s].job \in keys THEN "del" ELSE "fail")
    /\ UNCHANGED <<hash, used, view, removed, created, sent>>

removeHash(s) ==
    /\ At(s, "remove", "del")
    /\ hash' = [hash EXCEPT ![req[s].job] = None]
    /\ Goto(s, IF hash[req[s].job] = None THEN "fail" ELSE "ok")
    /\ UNCHANGED <<keys, used, view, told, sent>>

\* Create: the check, then AddJob with a new id: its hash, then the set.
checkNew(s, j) ==
    /\ At(s, "create", "check") /\ j \notin used
    /\ IF checkTimeSettings(req[s].cron)
         THEN /\ used' = used \cup {j}
              /\ req' = [req EXCEPT ![s].job = j, ![s].pc = "hmset"]
         ELSE Goto(s, "fail") /\ UNCHANGED used
    /\ UNCHANGED <<keys, hash, view, told, sent>>

\* Mutated: the id is in the set before its hash is written.
addHash_KeyFirst(s) ==
    /\ At(s, "create", "hmset")
    /\ IF req[s].job \in keys
         THEN /\ hash' = [hash EXCEPT ![req[s].job] = [cron |-> req[s].cron, state |-> "stop"]]
              /\ Goto(s, "ok") /\ UNCHANGED keys
         ELSE keys' = keys \cup {req[s].job} /\ UNCHANGED <<hash, req>>
    /\ UNCHANGED <<used, view, told, sent>>

\* Mutated: the handler answers when the hash is there.
addHash_Answers(s) ==
    /\ At(s, "create", "hmset")
    /\ hash' = [hash EXCEPT ![req[s].job] = [cron |-> req[s].cron, state |-> "stop"]]
    /\ \/ Goto(s, "sadd") \/ Goto(s, "ok")
    /\ UNCHANGED <<keys, used, view, told, sent>>

addHash(s) ==
    /\ At(s, "create", "hmset")
    /\ hash' = [hash EXCEPT ![req[s].job] = [cron |-> req[s].cron, state |-> "stop"]]
    /\ Goto(s, "sadd")
    /\ UNCHANGED <<keys, used, view, told, sent>>

addKey(s) ==
    /\ At(s, "create", "sadd")
    /\ keys' = keys \cup {req[s].job}
    /\ Goto(s, "ok")
    /\ UNCHANGED <<hash, used, view, told, sent>>

\* Mutated: an update of a job that is there is not checked.
info_NoCheck(s) ==
    /\ req[s].op \in {"update", "enable"} /\ req[s].pc = "info"
    /\ Goto(s, IF req[s].job \in keys THEN "hmset" ELSE "fail")
    /\ UNCHANGED <<store, view, told, sent>>

\* Update, Start: GetJobInfo and the check; of the request's cron for the one,
\* of the stored one for the other.
info(s) ==
    /\ req[s].op \in {"update", "enable"} /\ req[s].pc = "info"
    /\ LET ok == CASE req[s].op = "update" -> checkTimeSettings(req[s].cron)
                   [] req[s].op = "enable" -> req[s].on =>
                                                checkTimeSettings(GetJobInfo(req[s].job).cron)
       IN  Goto(s, IF ok THEN "hmset" ELSE "fail")
    /\ UNCHANGED <<store, view, told, sent>>

\* Mutated: an update puts the id in the set too.
update_AddsKey(s) ==
    /\ req[s].op \in {"update", "enable", "script"} /\ req[s].pc = "hmset"
    /\ UpdateJob(req[s].job, IF req[s].op = "update" THEN [cron |-> req[s].cron] ELSE <<>>)
    /\ keys' = IF req[s].op = "update" THEN keys \cup {req[s].job} ELSE keys
    /\ Goto(s, "ok")
    /\ UNCHANGED <<used, view, told, sent>>

\* Update, Start, UpdateScript: UpdateJob, whether the job is there or not.
update(s) ==
    /\ req[s].op \in {"update", "enable", "script"} /\ req[s].pc = "hmset"
    /\ UpdateJob(req[s].job,
                 CASE req[s].op = "update" -> [cron |-> req[s].cron]
                   [] req[s].op = "enable" -> [state |-> IF req[s].on THEN "runnable" ELSE "stop"]
                   [] req[s].op = "script" -> <<>>)
    /\ Goto(s, "ok")
    /\ UNCHANGED <<keys, used, view, told, sent>>

-----------------------------------------------------------------------------
(* Answers.                                                                *)

\* The table shows the rows it asked for.
fill(s) ==
    /\ At(s, "list", "ok") /\ ~req[s].stale
    /\ LET r == req[s]
       IN  /\ table' = [table EXCEPT ![r.page] = [status |-> "loaded", rows |-> r.rows,
                            removed |-> r.removed, created |-> r.created]]
           /\ switch' = [switch EXCEPT ![r.page] =
                            {row.job : row \in {x \in r.rows : x.state = "runnable"}}]
    /\ req' = [req EXCEPT ![s] = Free]
    /\ UNCHANGED <<store, jobIdInput, modal, told, sent>>

\* success of remove: navClick('job_list') asks for a page the server does not
\* have and changes nothing; reload.
removeDone(s) ==
    /\ At(s, "remove", "ok")
    /\ removed' = removed \cup {req[s].job}
    /\ UNCHANGED <<gone, created>>
    /\ reload(req[s].page, s)
    /\ UNCHANGED <<store, jobIdInput, modal, sent>>

\* success of save: the dialog is hidden, whatever it shows by then; reload.
saveDone(s) ==
    /\ req[s].op \in {"create", "update"} /\ req[s].pc = "ok"
    /\ modal' = [modal EXCEPT ![req[s].page] = "closed"]
    /\ created' = IF req[s].op = "create" THEN created \cup {req[s].job} ELSE created
    /\ UNCHANGED <<gone, removed>>
    /\ reload(req[s].page, s)
    /\ UNCHANGED <<store, jobIdInput, sent>>

\* Nothing is done with an error and with the answers to enable and saveScript.
\* The connection may break: the handler has gone on, its answer is lost.
ignored(s) ==
    /\ req[s].pc \in {"ok", "fail"}
    /\ table' = IF req[s].op = "list" /\ ~req[s].stale
                  THEN [table EXCEPT ![req[s].page].status = "failed"] ELSE table
    /\ req' = [req EXCEPT ![s] = Free]
    /\ UNCHANGED <<store, switch, jobIdInput, modal, told, sent>>

-----------------------------------------------------------------------------
\* The pages have been opened before there was a job.
Init ==
    /\ keys = {} /\ hash = [j \in Job |-> None] /\ used = {}
    /\ table = [p \in Page |-> Loaded] /\ switch = [p \in Page |-> {}]
    /\ jobIdInput = [p \in Page |-> None]
    /\ modal = [p \in Page |-> "closed"]
    /\ req = [s \in Slot |-> Free]
    /\ gone = {} /\ removed = {} /\ created = {} /\ sent = 0

User(p) ==
    \/ create(p) \/ close(p)
    \/ \E row \in table[p].rows : edit(p, row)
    \/ \E s \in Slot :
        \/ navClick(p, s)
        \/ \E cron \in Cron \cup {Bad} : save(p, cron, s)
        \/ \E row \in table[p].rows : remove(p, row, s) \/ enable(p, row, s)

Handler(s) ==
    \/ listKeys(s) \/ removeKey(s) \/ removeHash(s) \/ addHash(s) \/ addKey(s)
    \/ info(s) \/ update(s)
    \/ \E j \in Job : listRow(s, j) \/ checkNew(s, j)

Answer(s) == fill(s) \/ removeDone(s) \/ saveDone(s) \/ ignored(s)

Next == \/ \E p \in Page : User(p)
        \/ \E s \in Slot : \/ Handler(s) \/ Answer(s)
                          \/ \E j \in Job : saveScript(j, s)

\* Handlers run, and their answers arrive or are lost.
Fairness == \A s \in Slot : WF_vars(Handler(s)) /\ WF_vars(Answer(s))

Spec == Init /\ [][Next]_vars /\ Fairness

-----------------------------------------------------------------------------
(* Properties.                                                             *)

\* The type of the state.
TypeOK ==
    /\ keys \subseteq used /\ used \subseteq Job
    /\ \A j \in Job : hash[j] # None => hash[j] \in Entity
    /\ \A p \in Page : /\ table[p].rows \subseteq Row /\ switch[p] \subseteq Job
                       /\ jobIdInput[p] \in Job \cup {None}
                       /\ modal[p] \in {"closed", "open"}
    /\ \A s \in Slot : req[s].rows \subseteq Row /\ req[s].todo \subseteq Job
    /\ sent \in 0..MaxSent

Listed(p) == {row.job : row \in table[p].rows}

\* A removal that a page was told of is final: no list asked for afterwards, by
\* any page, shows the job again, although updates, switches and scripts that
\* were on their way write its hash anew.
RemovedStaysGone == \A p \in Page : Listed(p) \cap table[p].removed = {}

\* A row without a cron, which the table shows as a job that it is not, belongs
\* to a job that has been removed since the list was begun: the list is read in
\* several steps, and AddJob and RemoveJob keep the hash while the id is listed.
BlankMeansRemoved ==
    \A p \in Page : \A row \in table[p].rows : row.cron = "" => row.job \in gone

\* A creation that a page was told of is in every table asked for afterwards,
\* unless the job has been removed.
CreatedListed ==
    \A p \in Page : table[p].status = "loaded" =>
        \A j \in table[p].created : j \in Listed(p) \cup gone

\* A table that was emptied to be filled again does not stay so, unless its
\* answer is lost, however the jobs change under the list.
TableFilled == \A p \in Page : table[p].status = "loading" ~> table[p].status # "loading"
=============================================================================
