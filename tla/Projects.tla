------------------------------ MODULE Projects ------------------------------
(***************************************************************************)
(* Projects: who is responsible and who subscribes, who is told of it, and *)
(* the notice when a project is closed (tasks/site/projectadmin.py,        *)
(* tasks/site/tasksbasemodeladmin.py, tasks/models/project.py).            *)
(*                                                                         *)
(* A form is sent in two steps, each request in a transaction: the project *)
(* is loaded and what the form changes is compared with it (Post), and     *)
(* the whole of it is saved, its people are set and told (Save); the row   *)
(* is locked meanwhile, so Save is one step.                               *)
(***************************************************************************)
EXTENDS Integers, FiniteSets, Functions

CONSTANTS Employees,     \* with access to the module
          Leaders,   \* chiefs and task operators
          Mailless,  \* users without an address
          Teams,     \* sets of users a form names (a bound, when not all of them)
          Ids,       \* ids (bound: projects ever created)
          Budgets    \* bound: requests about memos and about projects

None == "none"

ASSUME ProjectsAssumption ==
    /\ IsFiniteSet(Employees) /\ Leaders \subseteq Employees /\ Mailless \subseteq Employees
    /\ Teams \subseteq SUBSET Employees
    /\ IsFiniteSet(Ids) /\ Budgets \subseteq [{"memo", "project"} -> Nat] /\ None \notin Employees \cup Ids

VARIABLES
    project,  \* the rows
    editing,  \* the form of a project each user has sent
    told,     \* history: how often a user was told that he is on a project
    joined,   \* history: how often he was put on it
    closings, \* history: notices of the closing of a project
    left       \* requests still to come, one of Budgets at first

projectVars == <<project, editing, told, joined, closings>>

Roles == {"responsible", "subscribers"}
\* "canceled" and "postponed" are active stages, as "pending" is.
ProjectStages == {"pending", "in progress", "completed"}
Active(stage) == stage # "completed"

NoProject == [owner |-> None]
Existing == {p \in Ids : project[p] # NoProject}
NoForm == [on |-> None]
Kinds == {"memo", "project"}
Count(k) == left[k] > 0 /\ left' = [left EXCEPT ![k] = @ - 1]
\* The id the database gives to the next project.
Free == LET unused == {p \in Ids : project[p] = NoProject /\ \A u \in Employees : editing[u].on # p}
        IN {p \in unused : p = CHOOSE q \in unused : TRUE}

InitProjects ==
    /\ project = [p \in Ids |-> NoProject] /\ editing = [u \in Employees |-> NoForm]
    /\ told = [p \in Ids |-> [r \in Roles |-> [u \in Employees |-> 0]]] /\ joined = told
    /\ closings = [p \in Ids |-> 0]
-----------------------------------------------------------------------------
\* has_change_permission, and the fields of the form that may be changed.
MayEdit(u, p) == \/ u \in Leaders \cup {project[p].owner}
                   \/ project[p].people["responsible"] = {u}
MayAssign(u, p) == u \in Leaders \cup {project[p].owner}

\* notify_participants: those not yet told, and what is remembered of them;
\* the owner is not told that he is responsible, and who has no address is
\* told by a message and not remembered as a subscriber.
New(role, owner, people, notified) ==
    (people \ notified) \ (IF role = "responsible" THEN {owner} ELSE {})
Remembered(role, owner, people, notified) ==
    (notified \cap people)
        \cup (New(role, owner, people, notified) \ (IF role = "subscribers" THEN Mailless ELSE {}))

\* The rows and counts once the people of p are set, and told where changed.
Mutant_Changes(was, people) == {r \in Roles : ~(people[r] \subseteq was[r]) /\ was[r] = {}}
\* The roles in changed_data.
Changes(was, people) == {r \in Roles : people[r] # was[r]}
Staff(p, owner, before, people, notified, changed) ==
    /\ joined' = [joined EXCEPT ![p] = [r \in Roles |-> [u \in Employees |->
           @[r][u] + IF u \in people[r] \ before[r] THEN 1 ELSE 0]]]
    /\ told' = [told EXCEPT ![p] = [r \in Roles |-> [u \in Employees |->
           @[r][u] + IF r \in changed /\ u \in New(r, owner, people[r], notified[r])
                     THEN 1 ELSE 0]]]
NotifiedAfter(owner, people, notified, changed) ==
    [r \in Roles |-> IF r \in changed THEN Remembered(r, owner, people[r], notified[r])
                     ELSE notified[r]]
Nobody == [r \in Roles |-> {}]

\* A new project: in the default stage, with somebody responsible.
Create(u, p, people) ==
    /\ people["responsible"] # {}
    /\ project' = [project EXCEPT ![p] =
          [owner |-> u, stage |-> "pending", active |-> TRUE, closed |-> FALSE, people |-> people,
           notified |-> NotifiedAfter(u, people, Nobody, Changes(Nobody, people))]]
    /\ Staff(p, u, Nobody, people, Nobody, Changes(Nobody, people))
    /\ UNCHANGED closings

AddProject(u) ==
    /\ Count("project") /\ editing[u] = NoForm
    /\ \E p \in Free, people \in [Roles -> Teams] : Create(u, p, people)
    /\ UNCHANGED editing

\* Bound: a form changes the people in one role, or the stage.
OneChange(row, people, stage, completed) ==
    Cardinality(Changes(row.people, people)
        \cup (IF stage # row.stage THEN {"stage"} ELSE {})
        \cup (IF completed THEN {"completed"} ELSE {})) = 1
Post(u, p) ==
    /\ Count("project") /\ editing[u] = NoForm /\ p \in Existing /\ MayEdit(u, p)
    /\ \E people \in [Roles -> Teams], stage \in ProjectStages, completed \in BOOLEAN :
          /\ OneChange(project[p], people, stage, completed)
          /\ ~MayAssign(u, p) => people["responsible"] = project[p].people["responsible"]
          /\ people["responsible"] # {}
          /\ editing' = [editing EXCEPT ![u] =
                [on |-> p, copy |-> project[p], people |-> people, stage |-> stage,
                 completed |-> completed, assigns |-> MayAssign(u, p)]]
    /\ UNCHANGED <<project, told, joined, closings>>

\* ProjectAdmin.save_model: the button wins over the stage of the form.
StageOf(f) == IF f.completed THEN "completed" ELSE f.stage
Mutant_Closes(f) == f.stage # f.copy.stage /\ ~Active(f.stage)  \* not by the button
Closes(f) == f.completed \/ (f.stage # f.copy.stage /\ ~Active(f.stage))
\* Project.save: a project is as active as its stage.
ActiveOf(f) == Active(StageOf(f))

Save(u) ==
    LET f == editing[u]  p == f.on
        row == project[p]
        people == IF f.assigns THEN f.people
                  ELSE [f.people EXCEPT !["responsible"] = row.people["responsible"]]
        changed == Changes(f.copy.people, f.people)
    IN /\ f # NoForm
       /\ project' = [project EXCEPT ![p] =
             [owner |-> f.copy.owner, stage |-> StageOf(f), active |-> ActiveOf(f),
              closed |-> f.copy.closed \/ f.completed, people |-> people,
              notified |-> NotifiedAfter(row.owner, people, row.notified, changed)]]
       /\ Staff(p, row.owner, row.people, people, row.notified, changed)
       /\ closings' = [closings EXCEPT ![p] = @ + IF Closes(f) THEN 1 ELSE 0]
       /\ editing' = [editing EXCEPT ![u] = NoForm]
       /\ UNCHANGED left

ProjectsNext == \E u \in Employees : AddProject(u) \/ Save(u) \/ \E p \in Ids : Post(u, p)
-----------------------------------------------------------------------------
ProjectsTypeOK ==
    \A p \in Existing :
        /\ project[p].owner \in Employees /\ project[p].stage \in ProjectStages
        /\ project[p].active = Active(project[p].stage)
        /\ \A r \in Roles : project[p].notified[r] \subseteq Employees

(* Everybody on a project was told that he is, the owner apart, whatever   *)
(* two forms at the same time do to the lists.                             *)
AllTold == \A p \in Existing, r \in Roles, u \in Employees :
    u \in project[p].people[r] /\ ~(r = "responsible" /\ u = project[p].owner) =>
        told[p][r][u] > 0

(* Nobody is told more often than he was put on the project, except one    *)
(* without an address, who is told at every change of the subscribers.     *)
ToldOnJoining == \A p \in Ids, r \in Roles, u \in Employees :
    told[p][r][u] <= joined[p][r][u] \/ (r = "subscribers" /\ u \in Mailless)

(* When a project is closed its people are told, in the same step, unless  *)
(* the copy that closes it was loaded from a project that was closed.      *)
ClosingTold == [][\A p \in Existing :
    Active(project[p].stage) /\ ~Active(project'[p].stage) =>
        \/ closings'[p] > closings[p]
        \/ \E u \in Employees : /\ editing[u].on = p /\ editing'[u] = NoForm
                          /\ ~Active(editing[u].copy.stage)]_projectVars
=============================================================================
