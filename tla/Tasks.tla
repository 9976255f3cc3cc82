-------------------------------- MODULE Tasks --------------------------------
(***************************************************************************)
(* A collective task: the main task, the subtasks of the people            *)
(* responsible for it, and how the stage of the main task follows theirs   *)
(* (tasks/models/task.py, tasks/site/taskadmin.py,                         *)
(* tasks/site/tasksbasemodeladmin.py, tasks/views).                        *)
(*                                                                         *)
(* A request of the admin site is one transaction.  It loads the objects   *)
(* and validates the form (Post, PostNew and others), works on the copies and    *)
(* ends in Finish.  Every request that may close or reopen the main task   *)
(* writes its row before it looks at the subtasks, and the database reads  *)
(* committed rows, so what follows the load is one step, in the order in   *)
(* which requests get the lock of that row.  A page that was opened        *)
(* earlier posts what it showed then.                                      *)
(*                                                                         *)
(* Not modelled: deletion, subtasks with several responsible users or      *)
(* moved to another task, a change of the people responsible.              *)
(***************************************************************************)
EXTENDS Integers, FiniteSets, SequencesExt

CONSTANTS Resp,      \* the users responsible for the main task
          Helpers,   \* users a head of department may also give a subtask
          Owner,     \* the owner, or head, of the main task
          Subs,      \* ids of subtasks (bound: subtasks ever created)
          MaxFlight, \* bound: requests in progress at a time
          MaxPages,  \* bound: pages open at a time
          MaxOps     \* bound: requests

Main == "main"
None == "none"

ASSUME TasksAssumption ==
    /\ IsFiniteSet(Resp) /\ Resp # {} /\ IsFiniteSet(Subs)
    /\ Main \notin Subs /\ None \notin Subs
    /\ Resp \cap Helpers = {} /\ Owner \notin Resp \cup Helpers
    /\ MaxFlight \in Nat /\ MaxPages \in Nat /\ MaxOps \in Nat

VARIABLES
    main,     \* the row of the main task: stage and active
    subs,     \* ids of the subtasks there are
    sub,      \* their rows
    page,     \* the page with a button "Completed" each user has open
    req,      \* the request each user has in progress
    ops,      \* requests used, bounded by MaxOps
    byhand,   \* history: somebody has set the stage of the main task
    stale     \* history: a request has written from a copy that was old

vars == <<main, subs, sub, page, req, ops, byhand, stale>>
-----------------------------------------------------------------------------
Users == Resp \cup Helpers \cup {Owner}
Stages == {"pending", "progress", "done", "postponed"}
Active(stage) == stage # "done"
\* The stage is the default one or in progress.
Open(stage) == stage \in {"pending", "progress"}

Row(stage) == [stage |-> stage, active |-> Active(stage)]
Mutant_SubRow(who, by, stage, hide) ==  \* active is left as the form made it
    [who |-> who, by |-> by, stage |-> stage, active |-> TRUE, hide |-> hide]
SubRow(who, by, stage, hide) == [who |-> who, by |-> by, stage |-> stage,
                                 active |-> Active(stage), hide |-> hide]
NoSub == [who |-> None, by |-> None, stage |-> "pending", active |-> FALSE, hide |-> FALSE]
NoPage == [on |-> None, stage |-> "pending"]
\* on: what is saved; posted: the stage in the form; had: the one loaded;
\* mc: the main task as loaded; actives: of a main task, the active subtasks then;
\* old: the page was; who, hide: of a new subtask.
NoReq == [on |-> None, new |-> FALSE, posted |-> "pending", had |-> "pending",
          completed |-> FALSE, step |-> FALSE, mc |-> Row("pending"),
          actives |-> {}, old |-> FALSE, who |-> None, hide |-> FALSE]

Init ==
    /\ main = Row("pending")
    /\ subs = {} /\ sub = [s \in Subs |-> NoSub]
    /\ page = [u \in Users |-> NoPage] /\ req = [u \in Users |-> NoReq]
    /\ ops = 0 /\ byhand = FALSE /\ stale = FALSE

ActiveSubs == {s \in subs : Active(sub[s].stage)}
DoneBy(S) == {sub[s].who : s \in {x \in S : sub[x].stage = "done" /\ ~sub[x].active}}
Quiet(u) == req[u] = NoReq
Count == /\ ops < MaxOps /\ ops' = ops + 1
         /\ Cardinality({v \in Users : ~Quiet(v)}) < MaxFlight
-----------------------------------------------------------------------------
\* has_change_permission: the owner, the co-owner (of a subtask the owner of the
\* main task), or the only user responsible.
MayChange(u, t) ==
    IF t = Main THEN u = Owner \/ Resp = {u}
    ELSE u \in {Owner, sub[t].by, sub[t].who}

StageOf(t) == IF t = Main THEN main.stage ELSE sub[t].stage

\* change_view: the button "Completed" is there for a task that is not done and
\* has one responsible user and no subtasks.  A page without it says nothing
\* that matters: its user may send any stage.
OpenPage(u, t) ==
    /\ ops < MaxOps /\ Cardinality({v \in Users : page[v] # NoPage}) < MaxPages
    /\ Quiet(u) /\ page[u] = NoPage /\ t \in subs \cup {Main} /\ MayChange(u, t)
    /\ StageOf(t) # "done"
    /\ t = Main => subs = {} /\ Cardinality(Resp) = 1
    /\ page' = [page EXCEPT ![u] = [on |-> t, stage |-> StageOf(t)]]
    /\ UNCHANGED <<main, subs, sub, req, ops, byhand, stale>>

\* Task.clean: a main task with an active subtask is not closed.
Clean(t, posted) == t = Main /\ ~Active(posted) => ActiveSubs = {}

Load(u, t, posted, completed, step, old) ==
    req' = [req EXCEPT ![u] =
        [on |-> t, new |-> FALSE, posted |-> posted, had |-> StageOf(t),
         completed |-> completed, step |-> step, mc |-> main,
         actives |-> IF t = Main THEN ActiveSubs ELSE {}, old |-> old,
         who |-> None, hide |-> FALSE]]

\* The form is sent with some stage, with or without another next step.
Post(u, t) ==
    /\ Quiet(u) /\ Count /\ t \in subs \cup {Main} /\ MayChange(u, t)
    /\ \E st \in Stages, step \in (IF t = Main THEN {FALSE} ELSE BOOLEAN) :
          Clean(t, st) /\ Load(u, t, st, FALSE, step, FALSE)
    /\ UNCHANGED <<main, subs, sub, page, byhand, stale>>

\* "Completed" is pressed: the form has the stage the page shows, and that is
\* what is validated.
PostCompleted(u) ==
    LET p == page[u] IN
    /\ Quiet(u) /\ p # NoPage /\ Count
    /\ Load(u, p.on, p.stage, TRUE, FALSE, p.on = Main /\ subs # {})
    /\ page' = [page EXCEPT ![u] = NoPage]
    /\ UNCHANGED <<main, subs, sub, byhand, stale>>

\* TaskCompleted.do, from the link in a mail to the only user responsible.
EmailCompleted(u, t) ==
    /\ Quiet(u) /\ Count /\ t \in subs \cup {Main}
    /\ IF t = Main THEN Resp = {u} ELSE sub[t].who = u
    /\ Clean(t, "done")
    /\ Load(u, t, "done", FALSE, FALSE, FALSE)
    /\ UNCHANGED <<main, subs, sub, page, byhand, stale>>

New(u, who, posted, hide) ==
    /\ Quiet(u) /\ Count
    /\ \E s \in Subs \ subs :
          /\ \A v \in Users : req[v].on # s
          /\ req' = [req EXCEPT ![u] =
                [on |-> s, new |-> TRUE, posted |-> posted, had |-> None,
                 completed |-> FALSE, step |-> FALSE, mc |-> main,
                 actives |-> {}, old |-> FALSE, who |-> who, hide |-> hide]]
    /\ UNCHANGED <<main, subs, sub, page, byhand, stale>>

\* The form of a new subtask; a performer chooses among the people responsible
\* for the main task.
PostNew(u) ==
    \E who \in Resp \cup (IF u = Owner THEN Helpers ELSE {}), st \in Stages :
        u \in Resp \cup {Owner} /\ New(u, who, st, FALSE)

\* check_subtasks and create_completed_subtask, from the button "Completed".
CompletedSubtask(u) ==
    /\ u \in Resp
    /\ \A s \in subs : sub[s].who = u => ~Active(sub[s].stage) /\ ~sub[s].hide
    /\ New(u, u, "done", TRUE)

\* email_subtask_completion, without a session: nothing is checked.
EmailCompletedSubtask(u) == u \in Resp /\ Cardinality(Resp) > 1 /\ New(u, u, "done", TRUE)
-----------------------------------------------------------------------------
\* TaskAdmin.save_model: the stage of the object.
SavedStage(u, r) ==
    IF r.completed THEN "done"
    ELSE IF r.new /\ u = r.who /\ Active(r.posted) THEN "progress" ELSE r.posted

Mutant_Reopens(mc, stage) ==            \* only a pending main task moves
    mc.stage = "pending" /\ stage = "progress"

\* save_related: a subtask in progress starts, an active one reopens the main
\* task.
Reopens(mc, stage) ==
    \/ mc.stage = "pending" /\ stage = "progress"
    \/ ~Active(mc.stage) /\ Active(stage)

Mutant_Closes(mc, S, now) ==         \* only a main task in progress
    /\ mc.stage = "progress"
    /\ \A s \in S : ~now[s].active
    /\ {now[s].who : s \in {x \in S : now[x].stage = "done"}} = Resp

\* check_and_deacte_main_task, on the subtasks the request would leave.
Closes(mc, S, now) ==
    /\ Open(mc.stage)
    /\ \A s \in S : ~now[s].active
    /\ {now[s].who : s \in {x \in S : now[x].stage = "done"}} = Resp

FinishMain(u) ==
    LET r == req[u]
        stage == SavedStage(u, r) IN
    /\ r.on = Main
    /\ main' = Row(stage)
    /\ byhand' = (byhand \/ stage # r.had)
    /\ stale' = (stale \/ r.mc # main \/ r.actives # ActiveSubs \/ r.old)
    /\ UNCHANGED <<subs, sub>>

FinishSub(u) ==
    LET r == req[u]
        stage == SavedStage(u, r)
        row == IF r.new THEN SubRow(r.who, u, stage, r.hide)
               ELSE [sub[r.on] EXCEPT !.stage = stage, !.active = Active(stage)]
        changed == r.new \/ r.posted # r.had
        now == [sub EXCEPT ![r.on] = row]
        reopens == Reopens(r.mc, stage)
        \* the copy of the main task after save_related: active is set in
        \* memory, but only the stage is written
        copy == IF reopens THEN Row("progress") ELSE r.mc
        written == IF r.step THEN Row(r.mc.stage) ELSE main
        closes == /\ (changed /\ ~Active(stage)) \/ r.completed
                  /\ Closes(copy, subs \cup {r.on}, now)
    IN
    /\ r.on \in Subs
    /\ sub' = now /\ subs' = subs \cup {r.on}
    /\ main' = IF closes THEN Row("done")
               ELSE IF reopens THEN [written EXCEPT !.stage = "progress"]
               ELSE written
    /\ stale' = (stale \/ Open(r.mc.stage) # Open(main.stage)
                       \/ Active(r.mc.stage) # Active(main.stage)
                       \/ (r.step /\ r.mc # main)
                       \/ (~r.new /\ r.had # sub[r.on].stage))
    /\ UNCHANGED byhand

Finish(u) ==
    /\ ~Quiet(u)
    /\ FinishMain(u) \/ FinishSub(u)
    /\ req' = [req EXCEPT ![u] = NoReq]
    /\ UNCHANGED <<page, ops>>

Next == \E u \in Users :
    \/ \E t \in Subs \cup {Main} : OpenPage(u, t) \/ Post(u, t) \/ EmailCompleted(u, t)
    \/ PostCompleted(u) \/ PostNew(u) \/ CompletedSubtask(u) \/ EmailCompletedSubtask(u)
    \/ Finish(u)

Spec == Init /\ [][Next]_vars
-----------------------------------------------------------------------------
MainType == [stage : Stages, active : BOOLEAN]
SubType == [who : Users \cup {None}, by : Users \cup {None}, stage : Stages,
            active : BOOLEAN, hide : BOOLEAN]
PageType == [on : Subs \cup {Main, None}, stage : Stages]
ReqType == [on : Subs \cup {Main, None}, new : BOOLEAN, posted : Stages,
            had : Stages \cup {None}, completed : BOOLEAN, step : BOOLEAN,
            mc : MainType, actives : SUBSET Subs, old : BOOLEAN,
            who : Users \cup {None}, hide : BOOLEAN]

\* Values of the right kind; the active column of a subtask is that of its stage.
TypeOK ==
    /\ main \in MainType
    /\ subs \subseteq Subs /\ sub \in [Subs -> SubType]
    /\ \A s \in subs : sub[s].who \in Users /\ sub[s].active = Active(sub[s].stage)
    /\ page \in [Users -> PageType] /\ req \in [Users -> ReqType]
    /\ ops \in 0..MaxOps /\ byhand \in BOOLEAN /\ stale \in BOOLEAN

\* What check_and_deacte_main_task waits for: everybody responsible has a done
\* subtask, and no subtask is active.
AllDone == ActiveSubs = {} /\ Resp \subseteq DoneBy(subs)

\* However the requests of the performers overlap, the one that finishes last
\* closes the main task; it is open only if somebody has set its stage, or a
\* request wrote an old copy of it.
LastOneCloses ==
    AllDone /\ DoneBy(subs) = Resp /\ Open(main.stage) => byhand \/ stale

\* A closed main task has no active subtask: closing by hand is refused, and a
\* subtask that becomes active reopens the task, except from an old page or copy.
NoneActive == ~Active(main.stage) => ActiveSubs = {} \/ stale

\* What NoneActive rests on: a request that would close the main task has seen no
\* active subtask, or comes from a page that was old.
ClosersHaveLooked ==
    \A u \in Users : req[u].on = Main /\ (req[u].completed \/ ~Active(req[u].posted))
                    => req[u].actives = {} \/ req[u].old

\* A page with the button is of a task there is, and shows it is not done.
PagesOpen ==
    \A u \in Users : /\ Active(page[u].stage)
                     /\ page[u] = NoPage \/ page[u].on \in subs \cup {Main}

\* A saved subtask is one there is, or a new one for some user.
RequestsAreReal ==
    \A u \in Users : req[u].on \in Subs =>
        IF req[u].new THEN req[u].who \in Users ELSE req[u].on \in subs
=============================================================================
