------------------------------- MODULE Memos -------------------------------
(***************************************************************************)
(* Office memos: drafts, the notices to the recipient, the subscribers and *)
(* the author, the review, and the project made of a memo                  *)
(* (tasks/site/memoadmin.py, tasks/models/memo.py, and the part of         *)
(* tasks/site/tasksbasemodeladmin.py that writes the memo; a task is made  *)
(* of it in the same way).                                                 *)
(*                                                                         *)
(* As with projects a form is sent in two steps: the memo is loaded        *)
(* (PostMemo), the whole of it is saved and people are told (SaveMemo),    *)
(* under the lock of its row.                                              *)
(***************************************************************************)
EXTENDS Projects

CONSTANTS Author, Recipient

ASSUME MemosAssumption == {Author, Recipient} \subseteq Employees /\ "to" \notin Employees

VARIABLES
    memo,      \* the row
    writing,   \* the form of the memo, or of a project made of it, sent by each user
    toldOf,    \* history: how often the recipient was told, and each subscriber
    reviews,   \* history: notices that the memo was reviewed
    last,      \* history: the last project made of the memo while it was not
               \* reviewed, or what a form changed this to
    stale,     \* history: a copy was saved that was no longer what the row was
    deleted    \* history: the memo was deleted

memoVars == <<memo, writing, toldOf, reviews, last, stale, deleted>>
officeVars == <<projectVars, memoVars, left>>

NoMemo == [stage |-> None]
There == memo # NoMemo
InitMemos ==
    /\ memo = NoMemo /\ writing = [u \in Employees |-> NoForm]
    /\ toldOf = [x \in Employees \cup {"to"} |-> 0] /\ reviews = 0
    /\ last = None /\ stale = FALSE /\ deleted = FALSE
-----------------------------------------------------------------------------
\* get_queryset: a subscriber finds the memo while it is a draft, too.
Finds(u) == \/ u \in Leaders /\ (memo.draft => u = Author)
            \/ u \notin Leaders /\ (u \in {Author} \cup memo.subs \/ (u = Recipient /\ ~memo.draft))
\* has_change_permission: of those who find it only its author may not
\* change it once it was reviewed.
MayWrite(u) == There /\ Finds(u) /\ (u \in Leaders \/ u # Author \/ memo.stage # "reviewed")
\* get_fieldsets: leaders see the stage, an author who is none the draft.
SetsStage(u) == u \in Leaders
SetsDraft(u) == u = Author /\ u \notin Leaders

TellsRecipient(u, row) == u = Author /\ ~row.draft /\ ~row.notified
\* save_related: subscribers who were not told yet, if they or the draft changed.
TellsSubs(row, changed) ==
    IF ~row.draft /\ changed \cap {"subs", "draft"} # {} THEN row.subs \ row.told ELSE {}

\* The row as save_related leaves it, and what was sent.
Told(u, row, changed) ==
    [row EXCEPT !.notified = @ \/ TellsRecipient(u, row),
                !.told = @ \cup (TellsSubs(row, changed) \ Mailless)]
Tell(u, row, changed) ==
    toldOf' = [x \in DOMAIN toldOf |-> toldOf[x] +
        IF (x = "to" /\ TellsRecipient(u, row)) \/ x \in TellsSubs(row, changed) THEN 1 ELSE 0]

WriteMemo ==
    /\ ~There /\ ~deleted /\ Count("memo")
    /\ \E draft \in BOOLEAN, subs \in Teams, p \in {None} \cup Existing :
         LET row == [stage |-> "pending", draft |-> draft, notified |-> FALSE, subs |-> subs,
                     told |-> {}, project |-> p, reviewed |-> FALSE]
             changed == {x \in {"subs", "draft"} : IF x = "subs" THEN subs # {} ELSE draft}
         IN memo' = Told(Author, row, changed) /\ Tell(Author, row, changed) /\ last' = p
    /\ UNCHANGED <<writing, reviews, stale, deleted>>

\* A bound on forms: the page was opened before the memo had its project, or
\* one field is changed.
OldPageOrOneField(f) ==
    \/ memo.project # None /\ f.project = None
    \/ Cardinality({f.stage, memo.stage}) + Cardinality({f.draft, memo.draft})
         + Cardinality({f.subs, memo.subs}) + Cardinality({f.project, memo.project}) <= 5

\* The form has the stage or the draft, the subscribers and the id of the
\* project as its page showed them, or as the user has changed them.  A page
\* opened before the project was made still has none.
PostMemo(u) ==
    /\ Count("memo") /\ writing[u] = NoForm /\ MayWrite(u)
    /\ \E f \in [on : {"memo"}, copy : {memo}, stage : {"pending", "postponed", "reviewed"},
                 draft : BOOLEAN, subs : Teams, project : {None, memo.project} \cup Existing,
                 make : {None, "task"}] :
         /\ f.make = "task" => f.stage = "reviewed"
         /\ ~SetsStage(u) => f.stage = memo.stage
         /\ ~SetsDraft(u) => f.draft = memo.draft
         /\ OldPageOrOneField(f)
         /\ writing' = [writing EXCEPT ![u] = f]
    /\ UNCHANGED <<memo, toldOf, reviews, last, stale, deleted>>

\* With "Create task" a memo is not reviewed before there is a task.
ReviewStage(f) == IF f.stage = "reviewed" /\ f.copy.stage # "reviewed" /\ f.make = "task"
                  THEN "postponed" ELSE f.stage
ReviewDate(f) == f.copy.reviewed \/ (ReviewStage(f) = "reviewed" /\ f.copy.stage # "reviewed")
Notices(f) == IF ReviewStage(f) = "reviewed" /\ f.copy.stage # "reviewed" THEN 1 ELSE 0
SameRow(a, b) == [a EXCEPT !.subs = {}, !.told = {}] = [b EXCEPT !.subs = {}, !.told = {}]
Overwrites(f) == There => ~SameRow(memo, f.copy)

\* A memo that was deleted meanwhile is inserted again.
SaveMemo(u) ==
    LET f == writing[u]
        changed == {x \in {"subs", "draft"} : f[x] # f.copy[x]}
        row == [f.copy EXCEPT !.stage = ReviewStage(f), !.draft = f.draft, !.subs = f.subs,
                              !.project = f.project,
                              !.told = IF There THEN memo.told ELSE {}, !.reviewed = ReviewDate(f)]
    IN /\ f.on = "memo"
       /\ memo' = Told(u, row, changed) /\ Tell(u, row, changed)
       /\ reviews' = reviews + Notices(f)
       /\ stale' = (stale \/ Overwrites(f))
       /\ last' = IF f.project = f.copy.project THEN last ELSE f.project
       /\ writing' = [writing EXCEPT ![u] = NoForm]
       /\ UNCHANGED <<deleted, left>>

DeleteMemo(u) ==
    /\ Count("memo") /\ writing[u] = NoForm /\ MayWrite(u)
    /\ memo' = NoMemo /\ deleted' = TRUE
    /\ UNCHANGED <<writing, toldOf, reviews, last, stale>>
-----------------------------------------------------------------------------
\* "Create project" leads to the form of a new project, or to that of the one
\* the memo has; a page with the former may be older than the project.  When
\* the form is sent the memo is loaded.  The author is proposed as a subscriber.
PostFromMemo(u) ==
    /\ Count("memo") /\ writing[u] = NoForm /\ There
    /\ \E p \in {None, memo.project} : writing' = [writing EXCEPT ![u] =
         [on |-> "project", copy |-> memo, project |-> p, people |->
            [r \in Roles |-> {IF r = "responsible" THEN u ELSE Author}]]]
    /\ UNCHANGED <<memo, toldOf, reviews, last, stale, deleted>>

\* A memo that is reviewed already stays as it is.
Links(f) == f.copy.stage # "reviewed"
\* What is not a column of the memo's own row stays as it is.
MadeOf(f, p) == [f.copy EXCEPT !.stage = "reviewed", !.reviewed = TRUE, !.project = p,
                               !.subs = IF There THEN memo.subs ELSE {},
                               !.told = IF There THEN memo.told ELSE {}]
\* It is reviewed by that, and the author is told.
SaveFromMemo(u) ==
    LET f == writing[u] IN
    /\ f.on = "project"
    /\ \E p \in IF f.project = None THEN Free ELSE {f.project} :
         /\ IF f.project = None THEN Create(u, p, f.people) ELSE UNCHANGED <<project, told, joined, closings>>
         /\ IF Links(f)
            THEN /\ memo' = MadeOf(f, p)
                 /\ reviews' = reviews + 1 /\ last' = p
                 /\ stale' = (stale \/ Overwrites(f))
            ELSE UNCHANGED <<memo, reviews, last, stale>>
    /\ writing' = [writing EXCEPT ![u] = NoForm]
    /\ UNCHANGED <<toldOf, deleted, editing, left>>

MemoNext == \/ WriteMemo
            \/ \E u \in Employees : PostMemo(u) \/ SaveMemo(u) \/ DeleteMemo(u) \/ PostFromMemo(u)
OfficeNext ==
    \/ MemoNext /\ UNCHANGED projectVars
    \/ \E u \in Employees : SaveFromMemo(u)
    \/ ProjectsNext /\ UNCHANGED memoVars
OfficeInit == InitProjects /\ InitMemos /\ left \in Budgets
OfficeSpec == OfficeInit /\ [][OfficeNext]_officeVars
-----------------------------------------------------------------------------
MemosTypeOK ==
    /\ ProjectsTypeOK /\ \A k \in Kinds : left[k] \in Nat
    /\ There => /\ memo.stage \in {"pending", "postponed", "reviewed"}
                /\ memo.told \subseteq Employees /\ memo.project \in Ids \cup {None}

(* A memo that is no draft has been made known to its recipient, and to   *)
(* every subscriber who has an address, unless a copy was saved that      *)
(* undid what another request had saved.                                  *)
Published == There /\ ~memo.draft =>
    /\ toldOf["to"] > 0
    /\ stale \/ memo.subs \subseteq memo.told \cup Mailless

(* Nobody is told of a memo twice, unless somebody saved an old copy of   *)
(* it, or he has no address.                                              *)
ToldOnce == \/ stale
            \/ toldOf["to"] <= 1 /\ \A u \in Employees \ Mailless : toldOf[u] <= 1

(* A memo that was reviewed has the date of its review.                   *)
ReviewDated == There /\ memo.stage = "reviewed" => memo.reviewed

(* The author is told whenever the memo becomes reviewed, unless it was   *)
(* reviewed already in the copy that was saved.                           *)
ReviewTold == [][There /\ memo.stage # "reviewed" /\ memo'.stage = "reviewed" =>
    \/ reviews' > reviews
    \/ \E u \in Employees : writing[u] # writing'[u] /\ writing[u].copy.stage = "reviewed"]_memoVars

\* The end of a project and the review of a memo are told in the step that
\* makes them.
EndsTold ==
    /\ ClosingTold
    /\ ReviewTold

(* The memo names the last project that was made of it before it was      *)
(* reviewed, or what a form with another id, or with none, made of that:  *)
(* who makes a project of the memo and who saves it do not undo each      *)
(* other, unless somebody saved an old copy.                              *)
NamesProject == There /\ ~stale => memo.project = last

\* The people of a project and of a memo know of it, once; the memo knows its
\* review and its project.
PeopleTold ==
    /\ MemosTypeOK
    /\ AllTold
    /\ ToldOnJoining
    /\ Published
    /\ ToldOnce
    /\ ReviewDated
    /\ NamesProject
=============================================================================
