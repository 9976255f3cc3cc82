----------------------------- MODULE TasksProofs -----------------------------
(***************************************************************************)
(* Theorems about Tasks and Companies, which one run checks together.      *)
(*                                                                         *)
(* Of Tasks: a closed main task has no active subtask, for any sets of     *)
(* users and subtasks.  Of Companies: contacts and papers belong to        *)
(* companies that are there, and a merge takes nobody else's, for any sets *)
(* of users and departments and any number of companies, contacts and      *)
(* operations.                                                             *)
(***************************************************************************)
EXTENDS Tasks, Companies, FiniteSetTheorems, WellFoundedInduction, TLAPS

-----------------------------------------------------------------------------
(* Tasks.                                                                  *)

Inv == TypeOK /\ ClosersHaveLooked /\ PagesOpen /\ RequestsAreReal /\ NoneActive

LEMMA LoadType ==
    ASSUME TypeOK, NEW u \in Users, NEW t \in subs \cup {Main},
           NEW posted \in Stages, NEW completed \in BOOLEAN,
           NEW step \in BOOLEAN, NEW old \in BOOLEAN,
           Load(u, t, posted, completed, step, old)
    PROVE  req' \in [Users -> ReqType]
<1>1. StageOf(t) \in Stages
  BY DEF TypeOK, StageOf, MainType, SubType
<1>2. ActiveSubs \in SUBSET Subs
  BY DEF TypeOK, ActiveSubs
<1>3. (IF t = Main THEN ActiveSubs ELSE {}) \in SUBSET Subs
  BY <1>2
<1> DEFINE new == [on |-> t, new |-> FALSE, posted |-> posted, had |-> StageOf(t),
         completed |-> completed, step |-> step, mc |-> main,
         actives |-> IF t = Main THEN ActiveSubs ELSE {}, old |-> old,
         who |-> None, hide |-> FALSE]
<1>4. new \in ReqType
  BY <1>1, <1>3 DEF ReqType, TypeOK
<1>5. req' = [req EXCEPT ![u] = new]
  BY DEF Load
<1> HIDE DEF new
<1> QED BY <1>4, <1>5 DEF TypeOK

LEMMA NewType ==
    ASSUME TypeOK, NEW u \in Users, NEW who \in Users,
           NEW posted \in Stages, NEW hide \in BOOLEAN, New(u, who, posted, hide)
    PROVE  /\ req' \in [Users -> ReqType] /\ req'[u].on \in Subs
           /\ req'[u].new = TRUE /\ req'[u].who = who
           /\ \A v \in Users \ {u} : req'[v] = req[v]
<1>1. PICK s \in Subs \ subs : req' = [req EXCEPT ![u] =
                [on |-> s, new |-> TRUE, posted |-> posted, had |-> None,
                 completed |-> FALSE, step |-> FALSE, mc |-> main,
                 actives |-> {}, old |-> FALSE, who |-> who, hide |-> hide]]
  BY DEF New
<1> DEFINE new == [on |-> s, new |-> TRUE, posted |-> posted, had |-> None,
                 completed |-> FALSE, step |-> FALSE, mc |-> main,
                 actives |-> {}, old |-> FALSE, who |-> who, hide |-> hide]
<1>2. new \in ReqType /\ new.on \in Subs /\ new.new = TRUE /\ new.who = who
  BY DEF ReqType, TypeOK
<1>3. req' = [req EXCEPT ![u] = new]
  BY <1>1
<1> HIDE DEF new
<1> QED BY <1>2, <1>3 DEF TypeOK

\* What the first three kinds of step leave alone.
Tables == <<main, subs, sub, byhand, stale>>

LEMMA TablesNone == ASSUME NoneActive, UNCHANGED Tables PROVE NoneActive'
BY DEF NoneActive, ActiveSubs, Tables

LEMMA ClosersNone == ASSUME ClosersHaveLooked, UNCHANGED req PROVE ClosersHaveLooked'
BY DEF ClosersHaveLooked, Active

LEMMA CountType == ASSUME TypeOK, Count PROVE ops' \in 0..MaxOps
BY TasksAssumption DEF TypeOK, Count

LEMMA InitInv == ASSUME Init PROVE Inv
<1>1. TypeOK
  <2>1. Row("pending") \in MainType /\ "pending" \in Stages
    BY DEF Row, MainType, Stages, Active
  <2>2. NoSub \in SubType
    BY <2>1 DEF NoSub, SubType
  <2>3. NoPage \in PageType
    BY <2>1 DEF NoPage, PageType
  <2>4. NoReq \in ReqType
    BY <2>1 DEF NoReq, ReqType
  <2>5. ops \in 0..MaxOps
    BY TasksAssumption DEF Init
  <2> QED BY <2>1, <2>2, <2>3, <2>4, <2>5 DEF Init, TypeOK
<1>2. ClosersHaveLooked /\ PagesOpen /\ NoneActive
  BY DEF Init, ClosersHaveLooked, PagesOpen, NoneActive, ActiveSubs, Row, Active, NoReq, NoPage, Main, None
<1>3. RequestsAreReal
  BY TasksAssumption DEF Init, RequestsAreReal, NoReq
<1> QED BY <1>1, <1>2, <1>3 DEF Inv

LEMMA OpenPageInv ==
    ASSUME Inv, NEW u \in Users, NEW t \in Subs \cup {Main}, OpenPage(u, t)
    PROVE  Inv'
<1> DEFINE new == [on |-> t, stage |-> StageOf(t)]
<1>1. StageOf(t) \in Stages /\ Active(StageOf(t))
  BY DEF Inv, OpenPage, TypeOK, StageOf, MainType, SubType, Active
<1>2. new \in PageType /\ Active(new.stage) /\ new.on \in subs \cup {Main}
  BY <1>1 DEF PageType, OpenPage
<1>3. page' = [page EXCEPT ![u] = new]
  BY DEF OpenPage
<1> HIDE DEF new
<1>4. page' \in [Users -> PageType]
  BY <1>2, <1>3 DEF Inv, TypeOK
<1>5. UNCHANGED <<main, subs, sub, req, ops, byhand, stale>>
  BY DEF OpenPage
<1>6. TypeOK'
  BY <1>4, <1>5 DEF Inv, TypeOK
<1>7. ClosersHaveLooked'
  BY <1>5, ClosersNone DEF Inv
<1>8. NoneActive'
  BY <1>5, TablesNone DEF Inv, Tables
<1>9. PagesOpen'
  <2> SUFFICES ASSUME NEW v \in Users
      PROVE  Active(page'[v].stage) /\ (page'[v] = NoPage \/ page'[v].on \in subs' \cup {Main})
    BY DEF PagesOpen, Active, NoPage
  <2>1. page'[v] = new \/ page'[v] = page[v]
    BY <1>3 DEF Inv, TypeOK
  <2> QED BY <2>1, <1>2, <1>5 DEF Inv, PagesOpen
<1>10. RequestsAreReal'
  BY <1>5 DEF Inv, RequestsAreReal
<1> QED BY <1>6, <1>7, <1>8, <1>9, <1>10 DEF Inv

\* A loaded request keeps the invariant when it has looked at the subtasks.
LEMMA LoadInv ==
    ASSUME Inv, NEW u \in Users, NEW t \in subs \cup {Main},
           NEW posted \in Stages, NEW completed \in BOOLEAN,
           NEW step \in BOOLEAN, NEW old \in BOOLEAN, Count,
           Load(u, t, posted, completed, step, old), UNCHANGED Tables,
           t = Main /\ (completed \/ ~Active(posted)) => ActiveSubs = {} \/ old,
           page' \in [Users -> PageType], PagesOpen'
    PROVE  Inv'
<1>1. TypeOK'
  BY LoadType, CountType DEF Inv, TypeOK, Tables
<1>2. ASSUME NEW v \in Users, req'[v].on = Main,
             req'[v].completed \/ ~Active(req'[v].posted)
      PROVE  req'[v].actives = {} \/ req'[v].old
  <2>1. CASE v # u
    <3>1. req'[v] = req[v]
      BY <2>1 DEF Load, Inv, TypeOK
    <3> QED BY <1>2, <3>1 DEF Inv, ClosersHaveLooked
  <2>2. CASE v = u
    <3> DEFINE new == [on |-> t, new |-> FALSE, posted |-> posted, had |-> StageOf(t),
         completed |-> completed, step |-> step, mc |-> main,
         actives |-> IF t = Main THEN ActiveSubs ELSE {}, old |-> old,
         who |-> None, hide |-> FALSE]
    <3>1. req'[v] = new
      BY <2>2 DEF Load, Inv, TypeOK
    <3>2. t = Main /\ (completed \/ ~Active(posted))
      BY <1>2, <3>1
    <3> QED BY <3>1, <3>2
  <2> QED BY <2>1, <2>2
<1>3. ClosersHaveLooked'
  BY <1>2 DEF ClosersHaveLooked, Active
<1>4. NoneActive'
  BY TablesNone DEF Inv
<1>5. RequestsAreReal'
  <2> SUFFICES ASSUME NEW v \in Users, req'[v].on \in Subs
      PROVE  IF req'[v].new THEN req'[v].who \in Users ELSE req'[v].on \in subs
    BY DEF RequestsAreReal, Tables
  <2>1. CASE v # u
    <3>1. req'[v] = req[v]
      BY <2>1 DEF Load, Inv, TypeOK
    <3> QED BY <3>1 DEF Inv, RequestsAreReal
  <2>2. CASE v = u
    <3>1. req'[v].on = t /\ req'[v].new = FALSE
      BY <2>2 DEF Load, Inv, TypeOK
    <3> QED BY <3>1, TasksAssumption
  <2> QED BY <2>1, <2>2
<1> QED BY <1>1, <1>3, <1>4, <1>5 DEF Inv

LEMMA PostInv ==
    ASSUME Inv, NEW u \in Users, NEW t \in Subs \cup {Main}, Post(u, t)
    PROVE  Inv'
<1>1. PICK st \in Stages, step \in BOOLEAN :
         Clean(t, st) /\ Load(u, t, st, FALSE, step, FALSE)
  BY DEF Post
<1>2. t = Main /\ ~Active(st) => ActiveSubs = {}
  BY <1>1 DEF Clean
<1>3. page' \in [Users -> PageType] /\ PagesOpen'
  BY DEF Post, Inv, TypeOK, PagesOpen, Active, NoPage
<1>4. t \in subs \cup {Main} /\ Count /\ UNCHANGED Tables
  BY DEF Post, Tables
<1> QED BY <1>1, <1>2, <1>3, <1>4, LoadInv

LEMMA PageClosed ==
    ASSUME Inv, NEW u \in Users, page' = [page EXCEPT ![u] = NoPage], UNCHANGED subs
    PROVE  page' \in [Users -> PageType] /\ PagesOpen'
<1>1. NoPage \in PageType /\ Active(NoPage.stage)
  BY DEF NoPage, PageType, Stages, Active
<1>2. page' \in [Users -> PageType]
  BY <1>1 DEF Inv, TypeOK
<1>3. ASSUME NEW v \in Users
      PROVE  Active(page'[v].stage) /\ (page'[v] = NoPage \/ page'[v].on \in subs' \cup {Main})
  <2>1. page'[v] = NoPage \/ page'[v] = page[v]
    BY DEF Inv, TypeOK
  <2> QED BY <2>1, <1>1 DEF Inv, PagesOpen
<1> QED BY <1>2, <1>3 DEF PagesOpen, Active, NoPage

LEMMA PostCompletedInv ==
    ASSUME Inv, NEW u \in Users, PostCompleted(u)
    PROVE  Inv'
<1> DEFINE p == page[u]
<1>1. p.stage \in Stages /\ p.on \in subs \cup {Main}
  BY DEF Inv, TypeOK, PageType, PagesOpen, PostCompleted
<1>2. p.on = Main /\ subs = {} => ActiveSubs = {}
  BY DEF ActiveSubs
<1>3. Load(u, p.on, p.stage, TRUE, FALSE, p.on = Main /\ subs # {})
  BY DEF PostCompleted
<1>4. page' \in [Users -> PageType] /\ PagesOpen'
  BY PageClosed DEF PostCompleted
<1>5. Count /\ UNCHANGED Tables
  BY DEF PostCompleted, Tables
<1>6. PICK old \in BOOLEAN : old = (p.on = Main /\ subs # {})
  OBVIOUS
<1>7. p.on = Main => ActiveSubs = {} \/ old
  BY <1>6, <1>2
<1> HIDE DEF p
<1> QED BY <1>1, <1>3, <1>4, <1>5, <1>6, <1>7, LoadInv

LEMMA EmailCompletedInv ==
    ASSUME Inv, NEW u \in Users, NEW t \in Subs \cup {Main}, EmailCompleted(u, t)
    PROVE  Inv'
<1>1. Load(u, t, "done", FALSE, FALSE, FALSE) /\ "done" \in Stages
  BY DEF EmailCompleted, Stages
<1>2. t = Main => ActiveSubs = {}
  BY DEF EmailCompleted, Clean, Active
<1>3. page' \in [Users -> PageType] /\ PagesOpen'
  <2>1. UNCHANGED <<page, subs>>
    BY DEF EmailCompleted
  <2> QED BY <2>1 DEF Inv, TypeOK, PagesOpen
<1>4. t \in subs \cup {Main} /\ Count /\ UNCHANGED Tables
  BY DEF EmailCompleted, Tables
<1> QED BY <1>1, <1>2, <1>3, <1>4, LoadInv

LEMMA NewInv ==
    ASSUME Inv, NEW u \in Users, NEW who \in Users,
           NEW posted \in Stages, NEW hide \in BOOLEAN, New(u, who, posted, hide)
    PROVE  Inv'
<1>1. /\ req' \in [Users -> ReqType] /\ req'[u].on \in Subs
      /\ req'[u].new = TRUE /\ req'[u].who = who
      /\ \A v \in Users \ {u} : req'[v] = req[v]
  <2>1. TypeOK
    BY DEF Inv
  <2> QED BY <2>1, NewType, ZenonT(30)
<1>2. UNCHANGED <<main, subs, sub, page, byhand, stale>> /\ Count
  BY DEF New
<1>3. TypeOK'
  BY <1>1, <1>2, CountType DEF Inv, TypeOK
<1>4. ASSUME NEW v \in Users, req'[v].on = Main,
             req'[v].completed \/ ~Active(req'[v].posted)
      PROVE  req'[v].actives = {} \/ req'[v].old
  <2>1. v # u
    BY <1>1, <1>4, TasksAssumption
  <2>2. req'[v] = req[v]
    BY <1>1, <2>1
  <2> QED BY <1>4, <2>2 DEF Inv, ClosersHaveLooked
<1>5. ClosersHaveLooked'
  BY <1>4 DEF ClosersHaveLooked, Active
<1>6. NoneActive' /\ PagesOpen'
  BY <1>2, TablesNone DEF Inv, Tables, PagesOpen, Active, NoPage
<1>7. RequestsAreReal'
  <2> SUFFICES ASSUME NEW v \in Users, req'[v].on \in Subs
      PROVE  IF req'[v].new THEN req'[v].who \in Users ELSE req'[v].on \in subs
    BY <1>2 DEF RequestsAreReal
  <2>1. CASE v # u
    BY <2>1, <1>1 DEF Inv, RequestsAreReal
  <2>2. CASE v = u
    BY <2>2, <1>1
  <2> QED BY <2>1, <2>2
<1> QED BY <1>3, <1>5, <1>6, <1>7 DEF Inv

\* Finishing a request only clears it.
LEMMA ReqDone ==
    ASSUME Inv, NEW u \in Users, req' = [req EXCEPT ![u] = NoReq], subs \subseteq subs'
    PROVE  req' \in [Users -> ReqType] /\ ClosersHaveLooked' /\ RequestsAreReal'
<1>1. NoReq \in ReqType /\ NoReq.actives = {}
  BY DEF NoReq, ReqType, Row, MainType, Stages, Active
<1>2. req' \in [Users -> ReqType]
  BY <1>1 DEF Inv, TypeOK
<1>3. ASSUME NEW v \in Users, req'[v].on = Main,
             req'[v].completed \/ ~Active(req'[v].posted)
      PROVE  req'[v].actives = {} \/ req'[v].old
  <2>1. req'[v] = NoReq \/ req'[v] = req[v]
    BY DEF Inv, TypeOK
  <2> QED BY <2>1, <1>1, <1>3 DEF Inv, ClosersHaveLooked
<1>4. ASSUME NEW v \in Users, req'[v].on \in Subs
      PROVE  IF req'[v].new THEN req'[v].who \in Users ELSE req'[v].on \in subs'
  <2>1. NoReq.on \notin Subs
    BY TasksAssumption DEF NoReq
  <2>2. req'[v] = req[v]
    BY <2>1, <1>4 DEF Inv, TypeOK
  <2> QED BY <2>2, <1>4 DEF Inv, RequestsAreReal
<1>5. RequestsAreReal'
  BY <1>4 DEF RequestsAreReal
<1> QED BY <1>2, <1>3, <1>5 DEF ClosersHaveLooked, Active

LEMMA SavedStageType ==
    ASSUME NEW u \in Users, NEW r \in ReqType
    PROVE  /\ SavedStage(u, r) \in Stages
           /\ ~Active(SavedStage(u, r)) => r.completed \/ ~Active(r.posted)
BY DEF SavedStage, ReqType, Stages, Active

LEMMA RowIsMain == \A st \in Stages : Row(st) \in MainType /\ Row(st).stage = st
BY DEF Row, MainType, Active

LEMMA FinishMainInv ==
    ASSUME Inv, NEW u \in Users, Finish(u), FinishMain(u)
    PROVE  Inv'
<1> DEFINE r == req[u]
           stage == SavedStage(u, r)
<1>1. r \in ReqType
  BY DEF Inv, TypeOK
<1>2. stage \in Stages /\ (~Active(stage) => r.completed \/ ~Active(r.posted))
  BY <1>1, SavedStageType
<1>3. /\ main' = Row(stage) /\ r.on = Main
      /\ stale' = (stale \/ r.mc # main \/ r.actives # ActiveSubs \/ r.old)
      /\ byhand' \in BOOLEAN /\ UNCHANGED <<subs, sub, page, ops>>
  BY DEF FinishMain, Finish
<1>4. req' \in [Users -> ReqType] /\ ClosersHaveLooked' /\ RequestsAreReal'
  BY ReqDone, <1>3 DEF Finish
<1>5. TypeOK'
  <2>1. main' \in MainType
    BY <1>2, <1>3, RowIsMain
  <2>2. stale' \in BOOLEAN
    BY <1>3
  <2> QED BY <2>1, <2>2, <1>3, <1>4 DEF Inv, TypeOK
<1>6. PagesOpen'
  BY <1>3 DEF Inv, PagesOpen, Active, NoPage
<1>7. NoneActive'
  <2> SUFFICES ASSUME ~Active(main'.stage), ~stale' PROVE ActiveSubs' = {}
    BY <1>5 DEF NoneActive, Active
  <2>1. ~Active(stage)
    BY <1>2, <1>3, RowIsMain
  <2>2. r.actives = {} \/ r.old
    BY <2>1, <1>2, <1>3 DEF Inv, ClosersHaveLooked
  <2>3. r.actives = {} /\ r.actives = ActiveSubs
    BY <2>2, <1>1, <1>3 DEF ReqType
  <2> QED BY <2>3, <1>3 DEF ActiveSubs
<1> QED BY <1>4, <1>5, <1>6, <1>7 DEF Inv

\* A subtask is saved, and the main task follows it.
LEMMA FinishSubInv ==
    ASSUME Inv, NEW u \in Users, Finish(u), FinishSub(u)
    PROVE  Inv'
<1> DEFINE r == req[u]
           stage == SavedStage(u, r)
           row == IF r.new THEN SubRow(r.who, u, stage, r.hide)
                  ELSE [sub[r.on] EXCEPT !.stage = stage, !.active = Active(stage)]
           now == [sub EXCEPT ![r.on] = row]
           changed == r.new \/ r.posted # r.had
           reopens == Reopens(r.mc, stage)
           copy == IF reopens THEN Row("progress") ELSE r.mc
           written == IF r.step THEN Row(r.mc.stage) ELSE main
           closes == /\ (changed /\ ~Active(stage)) \/ r.completed
                     /\ Closes(copy, subs \cup {r.on}, now)
<1>1. r \in ReqType /\ r.mc \in MainType
  BY DEF Inv, TypeOK, ReqType
<1>2. stage \in Stages
  BY <1>1, SavedStageType
<1>3. /\ r.on \in Subs /\ sub' = now /\ subs' = subs \cup {r.on}
      /\ main' = IF closes THEN Row("done")
                 ELSE IF reopens THEN [written EXCEPT !.stage = "progress"]
                 ELSE written
  BY DEF FinishSub
<1>4. stale' = (stale \/ Open(r.mc.stage) # Open(main.stage)
                       \/ Active(r.mc.stage) # Active(main.stage)
                       \/ (r.step /\ r.mc # main)
                       \/ (~r.new /\ r.had # sub[r.on].stage))
  BY DEF FinishSub
<1>5. UNCHANGED <<page, ops, byhand>>
  BY DEF FinishSub, Finish
<1>6. req' \in [Users -> ReqType] /\ ClosersHaveLooked' /\ RequestsAreReal'
  BY ReqDone, <1>3 DEF Finish
<1>7. /\ row \in SubType /\ row.who \in Users
      /\ row.stage = stage /\ row.active = Active(stage)
  <2>1. CASE r.new
    <3>1. r.who \in Users
      BY <2>1, <1>3 DEF Inv, RequestsAreReal
    <3> QED BY <2>1, <3>1, <1>1, <1>2 DEF SubRow, SubType, ReqType, Active
  <2>2. CASE ~r.new
    <3>1. r.on \in subs
      BY <2>2, <1>3 DEF Inv, RequestsAreReal
    <3>2. sub[r.on] \in SubType /\ sub[r.on].who \in Users
      BY <3>1, <1>3 DEF Inv, TypeOK
    <3> QED BY <2>2, <3>2, <1>2 DEF SubType, Active
  <2> QED BY <2>1, <2>2
<1>8. main \in MainType /\ written \in MainType
  BY <1>1, RowIsMain DEF Inv, TypeOK, MainType
<1>9. main' \in MainType
  <2>1. Row("done") \in MainType
    BY RowIsMain DEF Stages
  <2>2. [written EXCEPT !.stage = "progress"] \in MainType
    BY <1>8 DEF MainType, Stages
  <2> HIDE DEF closes, reopens, written
  <2> QED BY <2>1, <2>2, <1>3, <1>8
<1> HIDE DEF row
<1>10. \A s \in subs' : now[s] = IF s = r.on THEN row ELSE sub[s]
  BY <1>3 DEF Inv, TypeOK
<1>11. sub' \in [Subs -> SubType] /\ subs' \subseteq Subs
  BY <1>3, <1>7 DEF Inv, TypeOK
<1>12. \A s \in subs' : sub'[s].who \in Users /\ sub'[s].active = Active(sub'[s].stage)
  <2> SUFFICES ASSUME NEW s \in subs'
      PROVE  sub'[s].who \in Users /\ sub'[s].active = Active(sub'[s].stage)
    OBVIOUS
  <2>1. CASE s = r.on
    BY <2>1, <1>3, <1>7, <1>10
  <2>2. CASE s # r.on
    <3>1. s \in subs /\ sub'[s] = sub[s]
      BY <2>2, <1>3, <1>10
    <3> QED BY <3>1 DEF Inv, TypeOK
  <2> QED BY <2>1, <2>2
<1>13. TypeOK'
  <2>1. stale' \in BOOLEAN
    BY <1>4 DEF Inv, TypeOK
  <2>2. /\ page' \in [Users -> PageType] /\ ops' \in 0..MaxOps /\ byhand' \in BOOLEAN
    BY <1>5 DEF Inv, TypeOK
  <2>3. (\A s \in subs : sub[s].who \in Users /\ sub[s].active = Active(sub[s].stage))'
    BY <1>12, Zenon DEF Active
  <2> QED BY <2>1, <2>2, <2>3, <1>6, <1>9, <1>11 DEF TypeOK
<1>14. PagesOpen'
  BY <1>3, <1>5 DEF Inv, PagesOpen, Active, NoPage
<1>15. NoneActive'
  <2> SUFFICES ASSUME ~Active(main'.stage), ~stale',
                      NEW s \in subs', Active(sub'[s].stage)
      PROVE  FALSE
    BY <1>13 DEF NoneActive, Active, ActiveSubs
  <2>1. ~stale /\ Active(r.mc.stage) = Active(main.stage) /\ (r.step => r.mc = main)
    BY <1>4
  <2>2. ~closes
    <3> SUFFICES ASSUME closes PROVE FALSE
      OBVIOUS
    <3>1. ~now[s].active
      BY <1>3 DEF Closes
    <3> QED BY <3>1, <1>3, <1>12
  <2>3. ~reopens
    <3> SUFFICES ASSUME reopens PROVE FALSE
      OBVIOUS
    <3>1. main' = [written EXCEPT !.stage = "progress"]
      BY <2>2, <1>3
    <3>2. main'.stage = "progress"
      BY <3>1, <1>8 DEF MainType
    <3> QED BY <3>2 DEF Active
  <2>4. main' = written
    BY <2>2, <2>3, <1>3
  <2>5. main'.stage = main.stage
    BY <2>4, <2>1, <1>1, RowIsMain DEF MainType
  <2>6. ~Active(main.stage) /\ ~Active(r.mc.stage)
    BY <2>5, <2>1 DEF Active
  <2>7. ~Active(stage)
    BY <2>3, <2>6 DEF Reopens
  <2>8. s # r.on
    BY <2>7, <1>3, <1>7, <1>10 DEF Active
  <2>9. s \in subs /\ Active(sub[s].stage)
    BY <2>8, <1>3, <1>10
  <2> QED BY <2>9, <2>6, <2>1 DEF Inv, NoneActive, ActiveSubs
<1> QED BY <1>6, <1>13, <1>14, <1>15 DEF Inv

LEMMA NextInv == ASSUME Inv, [Next]_vars PROVE Inv'
<1>1. CASE UNCHANGED vars
  <2>1. UNCHANGED <<main, subs, sub, page, req, ops, byhand, stale>>
    BY <1>1 DEF vars
  <2>2. TypeOK' /\ RequestsAreReal' /\ PagesOpen'
    BY <2>1 DEF Inv, TypeOK, RequestsAreReal, PagesOpen, Active, NoPage
  <2> QED BY <2>1, <2>2, TablesNone, ClosersNone DEF Inv, Tables
<1>2. CASE Next
  <2> SUFFICES ASSUME NEW u \in Users,
          \/ \E t \in Subs \cup {Main} :
                OpenPage(u, t) \/ Post(u, t) \/ EmailCompleted(u, t)
          \/ PostCompleted(u) \/ PostNew(u) \/ CompletedSubtask(u)
          \/ EmailCompletedSubtask(u) \/ Finish(u)
      PROVE  Inv'
    BY <1>2 DEF Next
  <2>1. ASSUME NEW t \in Subs \cup {Main}, OpenPage(u, t) PROVE Inv'
    BY <2>1, OpenPageInv
  <2>2. ASSUME NEW t \in Subs \cup {Main}, Post(u, t) PROVE Inv'
    BY <2>2, PostInv
  <2>3. ASSUME NEW t \in Subs \cup {Main}, EmailCompleted(u, t) PROVE Inv'
    BY <2>3, EmailCompletedInv
  <2>4. CASE PostCompleted(u)
    BY <2>4, PostCompletedInv
  <2>5. CASE PostNew(u)
    <3>1. PICK who \in Resp \cup (IF u = Owner THEN Helpers ELSE {}), st \in Stages :
            New(u, who, st, FALSE)
      BY <2>5 DEF PostNew
    <3>2. who \in Users
      BY DEF Users
    <3> QED BY <3>1, <3>2, NewInv
  <2>6. CASE CompletedSubtask(u) \/ EmailCompletedSubtask(u)
    <3>1. New(u, u, "done", TRUE) /\ "done" \in Stages
      BY <2>6 DEF CompletedSubtask, EmailCompletedSubtask, Stages
    <3> QED BY <3>1, NewInv
  <2>7. CASE Finish(u)
    BY <2>7, FinishMainInv, FinishSubInv DEF Finish
  <2> QED BY <2>1, <2>2, <2>3, <2>4, <2>5, <2>6, <2>7
<1> QED BY <1>1, <1>2

\* Every state has values of the right kind, and the active column of a subtask
\* is the one Task.save derives from its stage.
THEOREM TypeCorrect == Spec => []TypeOK
<1>1. Init => Inv
  BY InitInv
<1>2. Inv /\ [Next]_vars => Inv'
  BY NextInv
<1>3. Inv => TypeOK
  BY DEF Inv
<1> QED BY <1>1, <1>2, <1>3, PTL DEF Spec

\* However requests and old pages interleave, for any number of users and of
\* subtasks: a closed main task has no active subtask unless a request wrote an
\* old copy (save_related and Task.clean).
THEOREM ClosedHasNoneActive == Spec => []NoneActive
<1>1. Init => Inv
  BY InitInv
<1>2. Inv /\ [Next]_vars => Inv'
  BY NextInv
<1>3. Inv => NoneActive
  BY DEF Inv
<1> QED BY <1>1, <1>2, <1>3, PTL DEF Spec
-----------------------------------------------------------------------------
(* The last performer closes the main task.                                *)

\* A request for the main task has loaded its stage together with its row.
MainLoaded == \A u \in Users : req[u].on = Main => req[u].had = req[u].mc.stage

LEMMA MainLoadedStep == ASSUME TypeOK, MainLoaded, [Next]_vars PROVE MainLoaded'
<1>1. ASSUME NEW u \in Users, NEW t, NEW posted, NEW completed, NEW step, NEW old,
             Load(u, t, posted, completed, step, old)
      PROVE  MainLoaded'
  <2>1. \A v \in Users : req'[v] = req[v] \/
           (req'[v].on = t /\ req'[v].had = StageOf(t) /\ req'[v].mc = main)
    BY <1>1 DEF Load, TypeOK
  <2> QED BY <2>1 DEF MainLoaded, StageOf
<1>2. ASSUME NEW u \in Users, NEW who, NEW posted, NEW hide, New(u, who, posted, hide)
      PROVE  MainLoaded'
  <2>1. \A v \in Users : req'[v] = req[v] \/ req'[v].on \in Subs
    BY <1>2 DEF New, TypeOK
  <2> QED BY <2>1, TasksAssumption DEF MainLoaded
<1>3. ASSUME NEW u \in Users, Finish(u) PROVE MainLoaded'
  <2>1. \A v \in Users : req'[v] = req[v] \/ req'[v] = NoReq
    BY <1>3 DEF Finish, TypeOK
  <2> QED BY <2>1 DEF MainLoaded, NoReq, Row
<1>4. ASSUME UNCHANGED req PROVE MainLoaded'
  BY <1>4 DEF MainLoaded
<1> QED BY <1>1, <1>2, <1>3, <1>4 DEF Next, vars, OpenPage, Post, EmailCompleted, PostCompleted,
          PostNew, CompletedSubtask, EmailCompletedSubtask

\* The stage of the main task is set by hand, or stays.
LEMMA FinishMainCloses ==
    ASSUME Inv, MainLoaded, LastOneCloses, NEW u \in Users, FinishMain(u)
    PROVE  LastOneCloses'
<1> DEFINE r == req[u]
<1>1. r.had = r.mc.stage /\ SavedStage(u, r) \in Stages
  BY SavedStageType DEF Inv, TypeOK, FinishMain, MainLoaded
<1>2. /\ main' = Row(SavedStage(u, r)) /\ UNCHANGED <<subs, sub>>
      /\ byhand' = (byhand \/ SavedStage(u, r) # r.had) /\ stale' = (stale \/ r.mc # main \/ r.actives # ActiveSubs \/ r.old)
  BY DEF FinishMain
<1>3. ~byhand' /\ ~stale' => main'.stage = main.stage /\ ~byhand /\ ~stale
  BY <1>1, <1>2, RowIsMain DEF Inv, TypeOK
<1>4. UNCHANGED <<AllDone, DoneBy(subs)>>
  BY <1>2 DEF AllDone, ActiveSubs, DoneBy
<1> QED BY <1>3, <1>4 DEF LastOneCloses

\* A subtask that is saved done, the last of them, closes the main task; one
\* that was done already changes nothing.
LEMMA FinishSubCloses ==
    ASSUME Inv, Inv', LastOneCloses, NEW u \in Users, FinishSub(u)
    PROVE  LastOneCloses'
<1> DEFINE r == req[u]
           stage == SavedStage(u, r)
           row == IF r.new THEN SubRow(r.who, u, stage, r.hide)
                  ELSE [sub[r.on] EXCEPT !.stage = stage, !.active = Active(stage)]
           now == [sub EXCEPT ![r.on] = row]
           changed == r.new \/ r.posted # r.had
           reopens == Reopens(r.mc, stage)
           copy == IF reopens THEN Row("progress") ELSE r.mc
           written == IF r.step THEN Row(r.mc.stage) ELSE main
           closes == /\ (changed /\ ~Active(stage)) \/ r.completed
                     /\ Closes(copy, subs \cup {r.on}, now)
<1> SUFFICES ASSUME AllDone', DoneBy(subs)' = Resp, Open(main'.stage), ~byhand', ~stale'
             PROVE  FALSE
  BY DEF LastOneCloses
<1>1. /\ r.on \in Subs /\ sub' = now /\ subs' = subs \cup {r.on}
      /\ main' = IF closes THEN Row("done")
                 ELSE IF reopens THEN [written EXCEPT !.stage = "progress"]
                 ELSE written
      /\ byhand' = byhand
  BY DEF FinishSub
<1>2. /\ ~stale /\ Open(r.mc.stage) = Open(main.stage) /\ (r.step => r.mc = main)
      /\ ~r.new => r.had = sub[r.on].stage
  BY DEF FinishSub, Open, Active
<1>3. r \in ReqType /\ r.mc \in MainType /\ main \in MainType
  BY DEF Inv, TypeOK, ReqType
<1>4. now[r.on] = row /\ row.stage = stage
  <2>1. CASE r.new
    BY <2>1, <1>1 DEF SubRow, Inv, TypeOK
  <2>2. CASE ~r.new
    <3>1. sub[r.on] \in SubType
      BY <1>1 DEF Inv, TypeOK
    <3> QED BY <2>2, <3>1, <1>1 DEF SubType, Inv, TypeOK
  <2> QED BY <2>1, <2>2
<1>5. ~Active(stage)
  BY <1>1, <1>4 DEF AllDone, ActiveSubs, Active
<1> HIDE DEF row
<1>6. ~reopens
  BY <1>5 DEF Reopens, Active
<1>7. ~closes
  <2> SUFFICES ASSUME closes PROVE FALSE
    OBVIOUS
  <2>1. main' = Row("done")
    BY <1>1
  <2> QED BY <2>1 DEF Row, Open
<1>8. main' = written /\ copy = r.mc
  BY <1>1, <1>6, <1>7
<1>9. Open(r.mc.stage) /\ Open(main.stage)
  BY <1>2, <1>3, <1>8, RowIsMain DEF MainType
<1>10. Closes(copy, subs \cup {r.on}, now)
  <2>1. \A s \in subs' : sub'[s].stage = "done" /\ ~sub'[s].active
    BY DEF AllDone, ActiveSubs, Active, Inv, TypeOK
  <2>2. {sub'[s].who : s \in {x \in subs' : sub'[x].stage = "done"}} = Resp
    BY <2>1 DEF DoneBy
  <2> QED BY <1>1, <1>8, <1>9, <2>1, <2>2 DEF Closes
<1>11. ~r.new /\ r.posted = r.had /\ ~r.completed
  BY <1>5, <1>7, <1>10
<1>12. r.on \in subs /\ stage = sub[r.on].stage
  BY <1>1, <1>2, <1>11 DEF SavedStage, Inv, RequestsAreReal
<1>13. sub' = sub /\ subs' = subs
  <2>1. row = [sub[r.on] EXCEPT !.stage = stage, !.active = Active(stage)]
    BY <1>11 DEF row
  <2>2. sub[r.on] \in SubType /\ sub[r.on].active = Active(sub[r.on].stage)
    BY <1>12 DEF Inv, TypeOK
  <2>3. row = sub[r.on]
    BY <2>1, <2>2, <1>12 DEF SubType
  <2> HIDE DEF now
  <2>4. now = sub
    BY <2>3 DEF now, Inv, TypeOK
  <2> QED BY <2>4, <1>1, <1>12
<1> QED BY <1>1, <1>2, <1>9, <1>13 DEF LastOneCloses, AllDone, ActiveSubs, DoneBy

LEMMA LastOneClosesStep ==
    ASSUME Inv, Inv', MainLoaded, LastOneCloses, [Next]_vars PROVE LastOneCloses'
<1>1. ASSUME UNCHANGED <<main, subs, sub, byhand, stale>> PROVE LastOneCloses'
  BY <1>1 DEF LastOneCloses, AllDone, ActiveSubs, DoneBy
<1>2. ASSUME NEW u \in Users, Finish(u) PROVE LastOneCloses'
  BY <1>2, FinishMainCloses, FinishSubCloses DEF Finish
<1> QED BY <1>1, <1>2 DEF Next, vars, OpenPage, Post, EmailCompleted, PostCompleted,
          PostNew, New, CompletedSubtask, EmailCompletedSubtask

\* However the requests of the performers overlap, for any number of them: when
\* everybody has finished, the main task is not open, unless its stage was set
\* by hand or an old copy of it was written (check_and_deacte_main_task).
THEOREM LastPerformerCloses == Spec => []LastOneCloses
<1>1. Init => Inv /\ MainLoaded /\ LastOneCloses
  <2>1. Init => MainLoaded
    BY DEF Init, MainLoaded, NoReq, Row
  <2>2. Init => LastOneCloses
    <3>1. Init => DoneBy(subs) = {}
      BY DEF Init, DoneBy
    <3> QED BY <3>1, TasksAssumption DEF LastOneCloses
  <2> QED BY <2>1, <2>2, InitInv
<1>2. Inv /\ MainLoaded /\ LastOneCloses /\ [Next]_vars => (Inv /\ MainLoaded /\ LastOneCloses)'
  <2>1. Inv /\ [Next]_vars => Inv'
    BY NextInv
  <2>2. Inv /\ MainLoaded /\ [Next]_vars => MainLoaded'
    BY MainLoadedStep DEF Inv
  <2> QED BY <2>1, <2>2, LastOneClosesStep
<1> QED BY <1>1, <1>2, PTL DEF Spec

-----------------------------------------------------------------------------
(* Companies.  What the variables hold.                                    *)

Whos == Teams \cup {Nobody}
CompanyRow == [who : Whos, named : BOOLEAN, live : BOOLEAN]
ContactRow == [firm : Nat, who : Whos, person : BOOLEAN, live : BOOLEAN]
PaperRow == [firm : Nat, live : BOOLEAN]
Numbers == SUBSET Nat
Copies(R) == UNION {[S -> R] : S \in Numbers}
CompanyCopies == Copies(CompanyRow)
ContactCopies == Copies(ContactRow)
Keys == C(Nat) \cup P(Nat) \cup ({"paper"} \X Papers)
KeySets == SUBSET Keys
Nothing == {<<>>}
TxSteps == {"checked", "written"}
CompanyTx == [step : TxSteps, kind : {"company"}, id : Nat, old : CompanyRow,
              new : CompanyRow, firm : Nothing, inline : ContactCopies,
              seen : Numbers, there : Numbers, locks : KeySets]
ContactTx == [step : TxSteps, kind : {"contact"}, id : Nat, old : ContactRow,
              new : ContactRow, firm : CompanyRow, inline : Nothing,
              seen : Numbers, there : Numbers, locks : KeySets]
PaperTx == [step : TxSteps, kind : {"paper"}, id : Papers, old : PaperRow,
            new : PaperRow, firm : Nothing, inline : Nothing,
            seen : Numbers, there : Numbers, locks : KeySets]
FormTx == CompanyTx \cup ContactTx \cup PaperTx
OfCompanies == [step : {"companies"}, who : Teams, ids : Numbers, todo : CompanyCopies]
OfContacts == [step : {"contacts"}, who : Teams, ids : Numbers, todo : ContactCopies]
All == {"deal", "contact", "request"}
Parts == {{}, {"deal"}, {"deal", "contact"}, All}
MergeSteps == {"move", "filled", "collected"}
Merging == [step : MergeSteps, dup : Nat, orig : Nat, row : CompanyRow, from : CompanyRow,
            moved : Parts, gone : KeySets]
CompaniesTyped ==
    /\ companies \in Seq(CompanyRow) /\ contacts \in Seq(ContactRow)
    /\ papers \in [Papers -> PaperRow]
    /\ tx \in [Owners -> FormTx \cup {Idle}]
    /\ import \in [Owners -> {"none", "new"}]
    /\ view \in OfCompanies \cup OfContacts \cup {NoView}
    /\ merge \in Merging \cup {NoMerge}
    /\ raced \in BOOLEAN

(* Rows that are gone named companies, too. *)
Refs ==
    /\ \A i \in DOMAIN contacts : contacts[i].firm \in DOMAIN companies
    /\ \A p \in Papers : papers[p].firm \in DOMAIN companies

(* A form holds what it has loaded; once it has written, the rows it will   *)
(* commit are locked, and the company it refers to stays.                   *)
CompanyRight(t) ==
    /\ t.id \in DOMAIN companies \cup {0} /\ t.new.live /\ t.new.named
    /\ DOMAIN t.inline \subseteq DOMAIN contacts \cup {0}
    /\ 0 \in DOMAIN t.inline => ~t.inline[0].person
    /\ t.step = "written" =>
         /\ t.seen = IF t.new.who # t.old.who THEN t.there ELSE {}
         /\ t.seen \subseteq DOMAIN contacts /\ \A i \in t.seen : contacts[i].firm = t.id
         /\ t.locks = (C({t.id}) \cup P(t.seen \cup DOMAIN t.inline)) \ NewKeys
ContactRight(t) ==
    /\ t.id \in DOMAIN contacts \cup {0} /\ t.new.firm \in DOMAIN companies
    /\ t.new.person => t.seen \subseteq {t.id}
    /\ t.step = "written" => t.locks = P({t.id}) \ NewKeys /\ t.new.firm \in Live(companies)
PaperRight(t) ==
    /\ t.new.firm \in DOMAIN companies
    /\ t.step = "written" => t.locks = {<<"paper", t.id>>} /\ t.new.firm \in Live(companies)
TxRight(t) ==
    /\ t \in CompanyTx => CompanyRight(t)
    /\ t \in ContactTx => ContactRight(t)
    /\ t \in PaperTx => PaperRight(t)
    /\ t.step = "checked" => t.locks = {}
TxRights == \A u \in Owners : TxRight(tx[u])
LocksApart == \A u, v \in Owners : u # v => tx[u].locks \cap tx[v].locks = {}

(* The view of superusers and the removal of a duplicate. *)
ViewRight ==
    /\ view \in OfCompanies => /\ view.ids \subseteq DOMAIN companies
                               /\ DOMAIN view.todo \subseteq view.ids
    /\ view \in OfContacts => DOMAIN view.todo \subseteq DOMAIN contacts
    /\ view # NoView => \A i \in DOMAIN view.todo : view.todo[i].live
MergeRight ==
    merge # NoMerge =>
      /\ {merge.dup, merge.orig} \subseteq DOMAIN companies /\ merge.dup # merge.orig
      /\ merge.row.live /\ (merge.step # "move" => merge.moved = All)

(* What refers to a duplicate whose rows have been moved was linked late. *)
MovedLate ==
    merge # NoMerge =>
      /\ "contact" \in merge.moved => \A i \in Of(merge.dup) : <<"contact", i>> \in late
      /\ \A p \in PapersOf(merge.dup) \cap merge.moved : <<"paper", p>> \in late
      /\ merge.step = "collected" => merge.gone \subseteq late

(* Contacts follow their company, or the view will come to them. *)
Follow(i) == contacts[i].who = companies[contacts[i].firm].who
Awaited(i) ==
    /\ view # NoView /\ contacts[i].firm \in view.ids
    /\ view.step = "contacts" => i \in DOMAIN view.todo
Follows == \A i \in Live(contacts) \ apart : Follow(i) \/ Awaited(i)

(* Nobody is there twice; who has found no company without a name is alone. *)
Alone == raced \/
    /\ \A i, j \in Persons : i = j
    /\ \A c, d \in Nameless : c = d
    /\ \A u \in Owners : import[u] = "new" => Nameless = {}

CompaniesInv == CompaniesTyped /\ CompaniesTypeOK /\ Refs /\ TxRights /\ LocksApart /\ ViewRight
       /\ MergeRight /\ MovedLate /\ Follows /\ Alone
Bystanders == TxRights /\ LocksApart
-----------------------------------------------------------------------------
(* Sequences, copies and keys.                                             *)

LEMMA ElementsOf == ASSUME NEW R, NEW s \in Seq(R) PROVE \A i \in DOMAIN s : s[i] \in R
OBVIOUS

LEMMA Appended ==
    ASSUME NEW R, NEW s \in Seq(R), NEW x \in R
    PROVE  /\ Append(s, x) \in Seq(R) /\ Len(s) + 1 \notin DOMAIN s /\ Len(s) + 1 \in Nat
           /\ DOMAIN Append(s, x) = DOMAIN s \cup {Len(s) + 1}
           /\ \A i \in DOMAIN s : Append(s, x)[i] = s[i]
           /\ Append(s, x)[Len(s) + 1] = x
OBVIOUS

LEMMA Rewritten ==
    ASSUME NEW R, NEW s \in Seq(R), NEW f, f = [i \in DOMAIN s |-> f[i]],
           \A i \in DOMAIN s : f[i] \in R
    PROVE  f \in Seq(R) /\ DOMAIN f = DOMAIN s /\ Len(f) = Len(s)
OBVIOUS

LEMMA Replaced ==
    ASSUME NEW R, NEW s \in Seq(R), NEW k \in DOMAIN s, NEW x \in R
    PROVE  /\ [s EXCEPT ![k] = x] \in Seq(R) /\ DOMAIN [s EXCEPT ![k] = x] = DOMAIN s
           /\ [s EXCEPT ![k] = x][k] = x
           /\ \A i \in DOMAIN s : i # k => [s EXCEPT ![k] = x][i] = s[i]
OBVIOUS

LEMMA RowsOf ==
    ASSUME CompaniesTyped
    PROVE  /\ DOMAIN companies \subseteq Nat /\ 0 \notin DOMAIN companies
           /\ DOMAIN contacts \subseteq Nat /\ 0 \notin DOMAIN contacts
           /\ \A c \in DOMAIN companies : companies[c] \in CompanyRow
           /\ \A i \in DOMAIN contacts : contacts[i] \in ContactRow
           /\ DOMAIN papers = Papers /\ \A p \in Papers : papers[p] \in PaperRow
BY DEF CompaniesTyped

LEMMA CopiesAre ==
    ASSUME NEW R, NEW f
    PROVE  f \in Copies(R) <=> /\ DOMAIN f \subseteq Nat /\ f = [i \in DOMAIN f |-> f[i]]
                               /\ \A i \in DOMAIN f : f[i] \in R
<1>1. ASSUME f \in Copies(R)
      PROVE  /\ DOMAIN f \subseteq Nat /\ f = [i \in DOMAIN f |-> f[i]]
             /\ \A i \in DOMAIN f : f[i] \in R
  <2>1. PICK S \in Numbers : f \in [S -> R]
    BY <1>1 DEF Copies
  <2> QED BY <2>1 DEF Numbers
<1>2. ASSUME DOMAIN f \subseteq Nat, f = [i \in DOMAIN f |-> f[i]],
             \A i \in DOMAIN f : f[i] \in R
      PROVE  f \in Copies(R)
  <2>1. DOMAIN f \in Numbers /\ f \in [DOMAIN f -> R]
    BY <1>2 DEF Numbers
  <2> QED BY <2>1 DEF Copies
<1> QED BY <1>1, <1>2

LEMMA SmallestOf ==
    ASSUME NEW S, S \subseteq Nat, S # {}
    PROVE  \E x \in S : \A y \in S : x <= y
<1>1. PICK x \in S : \A y \in S : <<y, x>> \notin OpToRel(<, Nat)
  BY WFMin, NatLessThanWellFounded
<1>2. \A y \in S : <<y, x>> \in OpToRel(<, Nat) <=> y < x
  BY DEF OpToRel
<1>3. \A y \in S : ~(y < x)
  BY <1>1, <1>2
<1>4. x \in Nat /\ \A y \in S : y \in Nat
  OBVIOUS
<1> HIDE <1>1, <1>2
<1> QED BY <1>3, <1>4

LEMMA FirstOf ==
    ASSUME NEW R, NEW f \in Copies(R), f # <<>>
    PROVE  First(f) \in DOMAIN f
<1>1. DOMAIN f # {}
  <2> SUFFICES ASSUME DOMAIN f = {} PROVE FALSE
    OBVIOUS
  <2>1. f = [i \in {} |-> f[i]]
    BY CopiesAre
  <2> QED BY <2>1
<1>2. \E x \in DOMAIN f : \A y \in DOMAIN f : x <= y
  BY <1>1, CopiesAre, SmallestOf
<1> QED BY <1>2 DEF First

LEMMA RestOf ==
    ASSUME NEW R, NEW f \in Copies(R), f # <<>>
    PROVE  /\ Rest(f) \in Copies(R) /\ DOMAIN Rest(f) = DOMAIN f \ {First(f)}
           /\ \A i \in DOMAIN Rest(f) : Rest(f)[i] = f[i]
<1>1. Rest(f) = [i \in DOMAIN f \ {First(f)} |-> f[i]]
  BY DEF Rest, First, Restrict
<1>2. /\ DOMAIN Rest(f) = DOMAIN f \ {First(f)}
      /\ \A i \in DOMAIN Rest(f) : Rest(f)[i] = f[i]
  BY <1>1
<1>3. Rest(f) = [i \in DOMAIN Rest(f) |-> Rest(f)[i]]
  BY <1>1
<1> QED BY <1>2, <1>3, CopiesAre

LEMMA KeyIn ==
    ASSUME NEW S
    PROVE  /\ \A i : <<"contact", i>> \in P(S) <=> i \in S
           /\ \A i : <<"company", i>> \in C(S) <=> i \in S
           /\ \A i : <<"contact", i>> \notin C(S) /\ <<"company", i>> \notin P(S)
           /\ \A i : <<"paper", i>> \notin C(S) /\ <<"paper", i>> \notin P(S)
BY DEF C, P
-----------------------------------------------------------------------------
(* What a step that does not touch them leaves true.                       *)

LEMMA RowsSame ==
    ASSUME UNCHANGED rows
    PROVE  /\ Refs => Refs'
           /\ UNCHANGED late /\ CompaniesTypeOK => CompaniesTypeOK'
           /\ \A z : TxRight(z) => TxRight(z)'
           /\ UNCHANGED view /\ ViewRight => ViewRight'
           /\ UNCHANGED merge /\ MergeRight => MergeRight'
           /\ UNCHANGED <<merge, late>> /\ MovedLate => MovedLate'
           /\ UNCHANGED <<view, apart>> /\ Follows => Follows'
           /\ UNCHANGED <<import, raced>> /\ Alone => Alone'
<1>1. Refs => Refs'
  BY DEF Refs, rows
<1>2. UNCHANGED late /\ CompaniesTypeOK => CompaniesTypeOK'
  BY DEF CompaniesTypeOK, rows, Live
<1>3. \A z : TxRight(z) => TxRight(z)'
  BY DEF TxRight, CompanyRight, ContactRight, PaperRight, rows, Live
<1>4. UNCHANGED view /\ ViewRight => ViewRight'
  BY DEF ViewRight, rows
<1>5. UNCHANGED merge /\ MergeRight => MergeRight'
  BY DEF MergeRight, rows
<1>6. UNCHANGED <<merge, late>> /\ MovedLate => MovedLate'
  BY DEF MovedLate, Of, PapersOf, Live, rows
<1>7. UNCHANGED <<view, apart>> /\ Follows => Follows'
  BY DEF Follows, Follow, Awaited, Live, rows
<1>8. UNCHANGED <<import, raced>> /\ Alone => Alone'
  BY DEF Alone, Persons, Nameless, Live, rows
<1> QED BY <1>1, <1>2, <1>3, <1>4, <1>5, <1>6, <1>7, <1>8

\* One form is loaded, writes or is refused.
LEMMA OneForm ==
    ASSUME CompaniesInv, NEW u \in Owners, NEW t \in FormTx \cup {Idle}, TxRight(t),
           \A v \in Owners \ {u} : t.locks \cap tx[v].locks = {},
           tx' = [tx EXCEPT ![u] = t], UNCHANGED <<rows, import, view, merge, history>>
    PROVE  CompaniesInv'
<1>1. CompaniesTyped'
  BY DEF CompaniesInv, CompaniesTyped, rows, history
<1>2. tx'[u] = t /\ \A v \in Owners : v # u => tx'[v] = tx[v]
  BY DEF CompaniesInv, CompaniesTyped
<1>3. UNCHANGED <<rows, late, view, merge, apart, import, raced>>
  BY DEF history
<1>4. TxRights'
  <2>1. \A v \in Owners : \A z : z = tx'[v] => TxRight(z)
    BY <1>2 DEF CompaniesInv, TxRights
  <2>2. \A v \in Owners : \A z : z = tx'[v] => TxRight(z)'
    BY <1>3, <2>1, RowsSame
  <2> QED BY <2>2 DEF TxRights
<1>5. LocksApart'
  <2> SUFFICES ASSUME NEW v \in Owners, NEW w \in Owners, v # w
      PROVE  tx'[v].locks \cap tx'[w].locks = {}
    BY DEF LocksApart
  <2>1. CASE v = u
    BY <1>2, <2>1
  <2>2. CASE w = u
    BY <1>2, <2>2
  <2>3. CASE v # u /\ w # u
    BY <1>2, <2>3 DEF CompaniesInv, LocksApart
  <2> QED BY <2>1, <2>2, <2>3
<1> QED BY <1>1, <1>3, <1>4, <1>5, RowsSame DEF CompaniesInv

\* Rows change; the forms that stay still hold what they must.
LEMMA TxKept ==
    ASSUME CompaniesTyped, NEW z \in FormTx \cup {Idle}, TxRight(z),
           DOMAIN companies \subseteq DOMAIN companies',
           DOMAIN contacts \subseteq DOMAIN contacts',
           z \notin CompanyTx /\ z.step = "written" => z.new.firm \in Live(companies'),
           \A i \in DOMAIN contacts :
             <<"contact", i>> \in z.locks => contacts'[i].firm = contacts[i].firm
    PROVE  TxRight(z)'
<1>1. ASSUME z \in CompanyTx PROVE CompanyRight(z)'
  <2>1. CompanyRight(z)
    BY <1>1 DEF TxRight
  <2>2. ASSUME z.step = "written", NEW i \in z.seen PROVE contacts'[i].firm = z.id
    <3>1. i \in DOMAIN contacts /\ i # 0 /\ contacts[i].firm = z.id
      BY <2>1, <2>2, RowsOf DEF CompanyRight
    <3>2. <<"contact", i>> \in P(z.seen \cup DOMAIN z.inline)
      BY <2>2, KeyIn
    <3>3. <<"contact", i>> \notin NewKeys
      BY <3>1, KeyIn DEF NewKeys
    <3>4. <<"contact", i>> \in z.locks
      BY <2>1, <2>2, <3>2, <3>3 DEF CompanyRight
    <3> QED BY <3>1, <3>4
  <2> QED BY <2>1, <2>2 DEF CompanyRight
<1>2. ASSUME z \in ContactTx PROVE ContactRight(z)'
  <2>1. z \notin CompanyTx
    BY <1>2 DEF ContactTx, CompanyTx
  <2> QED BY <1>2, <2>1 DEF TxRight, ContactRight
<1>3. ASSUME z \in PaperTx PROVE PaperRight(z)'
  <2>1. z \notin CompanyTx
    BY <1>3 DEF PaperTx, CompanyTx
  <2> QED BY <1>3, <2>1 DEF TxRight, PaperRight
<1> QED BY <1>1, <1>2, <1>3 DEF TxRight

LEMMA HandsKept ==
    ASSUME CompaniesInv, \A v \in Owners : tx'[v] = tx[v] \/ tx'[v] = Idle,
           DOMAIN companies \subseteq DOMAIN companies',
           DOMAIN contacts \subseteq DOMAIN contacts',
           \A v \in Owners : tx'[v] = tx[v] /\ tx[v] \notin CompanyTx /\ tx[v].step = "written"
               /\ tx[v].new.firm \in Live(companies) => tx[v].new.firm \in Live(companies'),
           \A v \in Owners : tx'[v] = tx[v] => \A i \in DOMAIN contacts :
               <<"contact", i>> \in tx[v].locks => contacts'[i].firm = contacts[i].firm
    PROVE  Bystanders'
<1>1. \A v \in Owners : \A z : z = tx'[v] => TxRight(z)'
  <2> SUFFICES ASSUME NEW v \in Owners, NEW z, z = tx'[v] PROVE TxRight(z)'
    OBVIOUS
  <2>1. CASE tx'[v] = tx[v]
    <3>1. z \in FormTx \cup {Idle} /\ TxRight(z)
      BY <2>1 DEF CompaniesInv, CompaniesTyped, TxRights
    <3>2. z \notin CompanyTx /\ z.step = "written" => z.new.firm \in Live(companies)
      <4>1. z = Idle => z.step # "written"
        BY DEF Idle
      <4> QED BY <3>1, <4>1 DEF FormTx, TxRight, ContactRight, PaperRight
    <3> QED BY <2>1, <3>1, <3>2, TxKept DEF CompaniesInv
  <2>2. CASE tx'[v] = Idle
    <3>1. z.step = "idle"
      BY <2>2 DEF Idle
    <3>2. z \notin CompanyTx /\ z \notin ContactTx /\ z \notin PaperTx
      BY <3>1 DEF CompanyTx, ContactTx, PaperTx, TxSteps
    <3> QED BY <3>1, <3>2 DEF TxRight
  <2> QED BY <2>1, <2>2
<1>2. \A v, w \in Owners : v # w => tx'[v].locks \cap tx'[w].locks = {}
  <2>1. Idle.locks = {}
    BY DEF Idle
  <2> QED BY <2>1 DEF CompaniesInv, LocksApart
<1> QED BY <1>1, <1>2 DEF Bystanders, TxRights, LocksApart
-----------------------------------------------------------------------------
(* Forms are loaded, write and are refused.                                *)

LEMMA IdleForm ==
    ASSUME CompaniesInv, NEW u \in Owners
    PROVE  Idle \in FormTx \cup {Idle} /\ TxRight(Idle) /\ Idle.locks = {} /\ tx[u] \in FormTx \cup {Idle}
<1>1. Idle.step = "idle" /\ Idle.locks = {}
  BY DEF Idle
<1>2. Idle \notin CompanyTx /\ Idle \notin ContactTx /\ Idle \notin PaperTx
  BY <1>1 DEF CompanyTx, ContactTx, PaperTx, TxSteps
<1> QED BY <1>1, <1>2 DEF TxRight, CompaniesInv, CompaniesTyped

LEMMA BeginInv ==
    ASSUME CompaniesInv, NEW u \in Owners, NEW t \in FormTx, TxRight(t), t.locks = {}, Begin(u, t)
    PROVE  CompaniesInv'
BY OneForm DEF Begin

LEMMA LiveRows ==
    ASSUME CompaniesTyped
    PROVE  /\ Live(contacts) \subseteq DOMAIN contacts /\ Live(companies) \subseteq DOMAIN companies
           /\ \A S : S \subseteq DOMAIN contacts => S \in Numbers
           /\ \A c : Of(c) \subseteq Live(contacts)
           /\ Persons \subseteq Live(contacts)
BY RowsOf DEF Live, Of, Persons, Numbers

LEMMA NewCompanyIn ==
    ASSUME NEW who \in Whos, NEW named \in BOOLEAN
    PROVE  /\ Company(who, named) \in CompanyRow /\ Company(who, named).live
           /\ Company(who, named).named = named /\ Company(who, named).who = who
BY DEF Company, CompanyRow

LEMMA NewContactIn ==
    ASSUME NEW firm \in Nat, NEW who \in Whos
    PROVE  LET r == Contact(firm, who) IN
           /\ r \in ContactRow /\ r.firm = firm /\ r.who = who /\ r.person /\ r.live
           /\ [r EXCEPT !.person = FALSE] \in ContactRow
           /\ [r EXCEPT !.person = FALSE].firm = firm
           /\ [r EXCEPT !.person = FALSE].who = who
           /\ ~[r EXCEPT !.person = FALSE].person
           /\ [r EXCEPT !.person = FALSE].live
BY DEF Contact, ContactRow

LEMMA BeginCompanyInv ==
    ASSUME CompaniesInv, NEW u \in Owners, NEW c \in Live(companies) \cup {0}, BeginCompany(u, c)
    PROVE  CompaniesInv'
<1>1. PICK who \in Teams, lines \in SUBSET (Of(c) \cup {0}) :
         LET old == IF c = 0 THEN Company(who, TRUE) ELSE companies[c]
             new == [old EXCEPT !.who = who, !.named = TRUE]
             inline == [i \in lines |-> IF i = 0 THEN [Contact(c, who) EXCEPT !.person = FALSE]
                                                 ELSE contacts[i]]
         IN  Begin(u, Tx("company", c, old, new, <<>>, inline, {}))
  BY DEF BeginCompany
<1> DEFINE old == IF c = 0 THEN Company(who, TRUE) ELSE companies[c]
           new == [old EXCEPT !.who = who, !.named = TRUE]
           inline == [i \in lines |-> IF i = 0 THEN [Contact(c, who) EXCEPT !.person = FALSE]
                                               ELSE contacts[i]]
           t == Tx("company", c, old, new, <<>>, inline, {})
<1>2. who \in Whos /\ c \in Nat /\ (c # 0 => c \in DOMAIN companies)
  BY RowsOf, LiveRows DEF Whos, CompaniesInv
<1>3. old \in CompanyRow /\ old.live
  <2>1. CASE c = 0
    BY <1>2, <2>1, NewCompanyIn
  <2>2. CASE c # 0
    BY <1>2, <2>2, RowsOf DEF CompaniesInv, Live
  <2> QED BY <2>1, <2>2
<1> HIDE DEF old
<1>4. new \in CompanyRow /\ new.live /\ new.named
  BY <1>2, <1>3 DEF CompanyRow
<1>5. lines \subseteq DOMAIN contacts \cup {0} /\ lines \in Numbers
  BY LiveRows, RowsOf DEF CompaniesInv, Numbers
<1>6. \A i \in lines : inline[i] \in ContactRow /\ (i = 0 => ~inline[i].person)
  <2> SUFFICES ASSUME NEW i \in lines
      PROVE  inline[i] \in ContactRow /\ (i = 0 => ~inline[i].person)
    OBVIOUS
  <2>1. CASE i = 0
    <3>1. inline[i] = [Contact(c, who) EXCEPT !.person = FALSE]
      BY <2>1
    <3> QED BY <1>2, <3>1, NewContactIn
  <2>2. CASE i # 0
    BY <1>5, <2>2, RowsOf DEF CompaniesInv
  <2> QED BY <2>1, <2>2
<1>7. inline \in ContactCopies /\ DOMAIN inline = lines
  <2>1. DOMAIN inline = lines /\ inline = [i \in DOMAIN inline |-> inline[i]]
    OBVIOUS
  <2> HIDE DEF inline
  <2> QED BY <1>5, <1>6, <2>1, CopiesAre DEF ContactCopies, Numbers
<1> HIDE DEF new, inline
<1>8. t = [step |-> "checked", kind |-> "company", id |-> c, old |-> old, new |-> new,
           firm |-> <<>>, inline |-> inline, seen |-> {}, there |-> {}, locks |-> {}]
  BY DEF Tx
<1>9. Begin(u, t)
  BY <1>1 DEF old, new, inline
<1> HIDE DEF t
<1>10. t \in CompanyTx
  BY <1>2, <1>3, <1>4, <1>7, <1>8 DEF CompanyTx, TxSteps, Nothing, Numbers, KeySets
<1>11. CompanyRight(t)
  BY <1>2, <1>4, <1>5, <1>6, <1>7, <1>8 DEF CompanyRight
<1>12. t \notin ContactTx /\ t \notin PaperTx /\ t.locks = {}
  BY <1>8 DEF ContactTx, PaperTx
<1> QED BY <1>9, <1>10, <1>11, <1>12, BeginInv DEF FormTx, TxRight

LEMMA BeginContactInv ==
    ASSUME CompaniesInv, NEW u \in Owners, NEW i \in Live(contacts) \cup {0}, BeginContact(u, i)
    PROVE  CompaniesInv'
<1>1. PICK c \in Live(companies) :
    LET old == IF i = 0 THEN Contact(c, companies[c].who) ELSE contacts[i]
    IN  /\ old.person => Alike(i) = {}
        /\ Begin(u, Tx("contact", i, old, [old EXCEPT !.firm = c], companies[c], <<>>, Persons))
  BY DEF BeginContact
<1> DEFINE old == IF i = 0 THEN Contact(c, companies[c].who) ELSE contacts[i]
           new == [old EXCEPT !.firm = c]
           t == Tx("contact", i, old, new, companies[c], <<>>, Persons)
<1>2. c \in DOMAIN companies /\ c \in Nat /\ companies[c] \in CompanyRow /\ companies[c].who \in Whos
  BY RowsOf, LiveRows DEF CompaniesInv, CompanyRow
<1>3. i \in Nat /\ i \in DOMAIN contacts \cup {0} /\ (i # 0 => contacts[i] \in ContactRow)
  BY RowsOf, LiveRows DEF CompaniesInv
<1>4. old \in ContactRow
  BY <1>2, <1>3, NewContactIn
<1>5. old.person => Persons \subseteq {i}
  BY <1>1 DEF Alike
<1>6. Begin(u, t)
  BY <1>1
<1> HIDE DEF old
<1>7. new \in ContactRow /\ new.firm = c /\ new.person = old.person
  BY <1>2, <1>4 DEF ContactRow
<1>8. Persons \in Numbers
  BY LiveRows DEF CompaniesInv
<1> HIDE DEF new
<1>9. t = [step |-> "checked", kind |-> "contact", id |-> i, old |-> old, new |-> new,
           firm |-> companies[c], inline |-> <<>>, seen |-> Persons, there |-> {}, locks |-> {}]
  BY DEF Tx
<1> HIDE DEF t
<1>10. t \in ContactTx
  BY <1>2, <1>3, <1>4, <1>7, <1>8, <1>9 DEF ContactTx, TxSteps, Nothing, Numbers, KeySets
<1>11. ContactRight(t)
  BY <1>2, <1>3, <1>5, <1>7, <1>9 DEF ContactRight
<1>12. t \notin CompanyTx /\ t \notin PaperTx /\ t.locks = {}
  BY <1>9 DEF CompanyTx, PaperTx
<1> QED BY <1>6, <1>10, <1>11, <1>12, BeginInv DEF FormTx, TxRight

LEMMA BeginPaperInv ==
    ASSUME CompaniesInv, NEW u \in Owners, NEW p \in Papers, BeginPaper(u, p)
    PROVE  CompaniesInv'
<1>1. PICK c \in Live(companies) :
    /\ papers[p].live
    /\ Begin(u, Tx("paper", p, papers[p], [papers[p] EXCEPT !.firm = c], <<>>, <<>>, {}))
  BY DEF BeginPaper
<1> DEFINE new == [papers[p] EXCEPT !.firm = c]
           t == Tx("paper", p, papers[p], new, <<>>, <<>>, {})
<1>2. c \in DOMAIN companies /\ c \in Nat /\ papers[p] \in PaperRow
  BY RowsOf, LiveRows DEF CompaniesInv
<1>3. new \in PaperRow /\ new.firm = c
  BY <1>2 DEF PaperRow
<1>4. Begin(u, t)
  BY <1>1
<1> HIDE DEF new
<1>5. t = [step |-> "checked", kind |-> "paper", id |-> p, old |-> papers[p], new |-> new,
           firm |-> <<>>, inline |-> <<>>, seen |-> {}, there |-> {}, locks |-> {}]
  BY DEF Tx
<1> HIDE DEF t
<1>6. t \in PaperTx
  BY <1>2, <1>3, <1>5 DEF PaperTx, TxSteps, Nothing, Numbers, KeySets
<1>7. PaperRight(t)
  BY <1>2, <1>3, <1>5 DEF PaperRight
<1>8. t \notin CompanyTx /\ t \notin ContactTx /\ t.locks = {}
  BY <1>5 DEF CompanyTx, ContactTx
<1> QED BY <1>4, <1>6, <1>7, <1>8, BeginInv DEF FormTx, TxRight

\* A form that has written keeps what it is, but for what it has seen and locked.
Written(t, l, th, se) ==
    [t EXCEPT !.step = "written", !.locks = l, !.there = th, !.seen = se]
SameForm(w, t) ==
    /\ w.kind = t.kind /\ w.id = t.id /\ w.old = t.old /\ w.new = t.new
    /\ w.firm = t.firm /\ w.inline = t.inline /\ w.step = "written"

LEMMA WrittenIs ==
    ASSUME NEW t, NEW l \in KeySets, NEW th \in Numbers, NEW se \in Numbers, NEW w,
           w = Written(t, l, th, se)
    PROVE  /\ t \in CompanyTx => w \in CompanyTx
           /\ t \in ContactTx => w \in ContactTx
           /\ t \in PaperTx => w \in PaperTx
           /\ t \in FormTx => SameForm(w, t)
<1> USE DEF Written, SameForm, TxSteps
<1>1. ASSUME t \in CompanyTx
      PROVE  w \in CompanyTx /\ SameForm(w, t)
  BY <1>1 DEF CompanyTx
<1>2. ASSUME t \in ContactTx
      PROVE  w \in ContactTx /\ SameForm(w, t)
  BY <1>2 DEF ContactTx
<1>3. ASSUME t \in PaperTx
      PROVE  w \in PaperTx /\ SameForm(w, t)
  BY <1>3 DEF PaperTx
<1> QED BY <1>1, <1>2, <1>3 DEF FormTx

LEMMA WrittenHas ==
    ASSUME NEW t \in FormTx, NEW l, NEW th, NEW se
    PROVE  /\ Written(t, l, th, se).locks = l /\ Written(t, l, th, se).there = th
           /\ Written(t, l, th, se).seen = se
<1>1. CASE t \in CompanyTx
  BY <1>1 DEF CompanyTx, Written
<1>2. CASE t \in ContactTx
  BY <1>2 DEF ContactTx, Written
<1>3. CASE t \in PaperTx
  BY <1>3 DEF PaperTx, Written
<1> QED BY <1>1, <1>2, <1>3 DEF FormTx

LEMMA OneKind ==
    ASSUME NEW t \in FormTx
    PROVE  /\ t \in CompanyTx <=> t.kind = "company"
           /\ t \in ContactTx <=> t.kind = "contact"
           /\ t \in PaperTx <=> t.kind = "paper"
           /\ t.kind = "paper" => t.id \in Papers
           /\ t.kind # "paper" => t.id \in Nat
           /\ t.kind = "company" => DOMAIN t.inline \subseteq Nat
           /\ t.there \in Numbers /\ t.seen \in Numbers
           /\ t.step \in TxSteps /\ t # Idle
<1>1. Idle.step \notin TxSteps
  BY DEF Idle, TxSteps
<1>2. t \in CompanyTx => t.inline \in Copies(ContactRow)
  BY DEF CompanyTx, ContactCopies
<1>3. t \in CompanyTx => DOMAIN t.inline \subseteq Nat
  BY <1>2, CopiesAre
<1> QED BY <1>1, <1>3 DEF FormTx, CompanyTx, ContactTx, PaperTx

LEMMA WriteInv ==
    ASSUME CompaniesInv, NEW u \in Owners, Write(u, tx[u])
    PROVE  CompaniesInv'
<1> DEFINE t == tx[u]
           l == KeysOf(t) \ NewKeys
           th == IF t.kind = "company" THEN Of(t.id) ELSE {}
           se == IF t.kind = "company" THEN Followers(t) ELSE t.seen
           w == Written(t, l, th, se)
<1>1. t \in FormTx /\ t.step = "checked"
  <2>1. Idle.step # "checked"
    BY DEF Idle
  <2> QED BY <2>1 DEF Write, CompaniesInv, CompaniesTyped
<1>2. Of(t.id) \in Numbers /\ Followers(t) \in Numbers /\ Of(t.id) \subseteq DOMAIN contacts
  BY LiveRows DEF CompaniesInv, Followers, Numbers
<1>3. th \in Numbers /\ se \in Numbers
  BY <1>1, <1>2, OneKind DEF Numbers
<1>4. l \in KeySets
  <2>1. CASE t.kind = "company"
    <3>1. KeysOf(t) = C({t.id}) \cup P(Followers(t) \cup DOMAIN t.inline)
      BY <2>1 DEF KeysOf
    <3>2. t.id \in Nat /\ DOMAIN t.inline \subseteq Nat /\ Followers(t) \subseteq Nat
      BY <1>1, <1>2, <2>1, OneKind DEF Numbers
    <3> QED BY <3>1, <3>2 DEF KeySets, Keys, C, P
  <2>2. CASE t.kind = "contact"
    <3>1. KeysOf(t) = P({t.id})
      BY <2>2 DEF KeysOf
    <3>2. t.id \in Nat
      BY <1>1, <2>2, OneKind
    <3> QED BY <3>1, <3>2 DEF KeySets, Keys, C, P
  <2>3. CASE t.kind = "paper"
    <3>1. KeysOf(t) = {<<"paper", t.id>>}
      BY <2>3 DEF KeysOf
    <3>2. t.id \in Papers
      BY <1>1, <2>3, OneKind
    <3> QED BY <3>1, <3>2 DEF KeySets, Keys, C, P
  <2> QED BY <1>1, <2>1, <2>2, <2>3, OneKind DEF FormTx
<1>5. tx' = [tx EXCEPT ![u] = w]
  BY DEF Write, Written
<1>6. Linked(t) /\ \A v \in Owners : tx[v].locks \cap KeysOf(t) = {}
  BY DEF Write, Unlocked
<1>7. TxRight(t)
  BY DEF CompaniesInv, TxRights
<1>15. w = Written(t, l, th, se)
  OBVIOUS
<1> HIDE DEF l, th, se, w
<1>16. /\ t \in CompanyTx => w \in CompanyTx
       /\ t \in ContactTx => w \in ContactTx
       /\ t \in PaperTx => w \in PaperTx
       /\ t \in FormTx => SameForm(w, t) /\ w.locks = l /\ w.there = th /\ w.seen = se
  <2> HIDE DEF t
  <2>1. t \in CompanyTx => w \in CompanyTx
    BY <1>3, <1>4, <1>15, WrittenIs
  <2>2. t \in ContactTx => w \in ContactTx
    BY <1>3, <1>4, <1>15, WrittenIs
  <2>3. t \in PaperTx => w \in PaperTx
    BY <1>3, <1>4, <1>15, WrittenIs
  <2>4. t \in FormTx => SameForm(w, t)
    BY <1>3, <1>4, <1>15, WrittenIs
  <2>5. t \in FormTx => w.locks = l /\ w.there = th /\ w.seen = se
    BY <1>15, WrittenHas
  <2> QED BY <2>1, <2>2, <2>3, <2>4, <2>5
<1>8. SameForm(w, t) /\ w.locks = l /\ w.there = th /\ w.seen = se
  BY <1>1, <1>16
<1>9. ASSUME t \in CompanyTx PROVE w \in CompanyTx /\ CompanyRight(w)
  <2>1. w \in CompanyTx
    BY <1>16, <1>9
  <2>2. CompanyRight(t) /\ t.kind = "company"
    BY <1>1, <1>7, <1>9, OneKind DEF TxRight
  <2>3. se = (IF t.new.who # t.old.who THEN th ELSE {}) /\ se \subseteq th /\ th = Of(t.id)
    BY <2>2 DEF se, th, Followers
  <2>4. l = (C({t.id}) \cup P(se \cup DOMAIN t.inline)) \ NewKeys
    BY <2>2 DEF l, KeysOf, se
  <2>5. se \subseteq DOMAIN contacts /\ \A i \in se : contacts[i].firm = t.id
    BY <1>2, <2>3 DEF Of
  <2> QED BY <1>8, <2>1, <2>2, <2>3, <2>4, <2>5 DEF CompanyRight, SameForm
<1>10. ASSUME t \in ContactTx PROVE w \in ContactTx /\ ContactRight(w)
  <2>1. w \in ContactTx
    BY <1>16, <1>10
  <2>2. ContactRight(t) /\ t.kind = "contact"
    BY <1>1, <1>7, <1>10, OneKind DEF TxRight
  <2>3. se = t.seen /\ l = P({t.id}) \ NewKeys /\ t.new.firm \in Live(companies)
    BY <1>6, <2>2 DEF se, l, KeysOf, Linked
  <2> QED BY <1>8, <2>1, <2>2, <2>3 DEF ContactRight, SameForm
<1>11. ASSUME t \in PaperTx PROVE w \in PaperTx /\ PaperRight(w)
  <2>1. w \in PaperTx
    BY <1>16, <1>11
  <2>2. PaperRight(t) /\ t.kind = "paper"
    BY <1>1, <1>7, <1>11, OneKind DEF TxRight
  <2>3. l = {<<"paper", t.id>>} /\ t.new.firm \in Live(companies)
    <3>1. KeysOf(t) = {<<"paper", t.id>>}
      BY <2>2 DEF KeysOf
    <3>2. <<"paper", t.id>> \notin NewKeys
      BY KeyIn DEF NewKeys
    <3> QED BY <1>6, <2>2, <3>1, <3>2 DEF l, Linked
  <2> QED BY <1>8, <2>1, <2>2, <2>3 DEF PaperRight, SameForm
<1>12. w \in FormTx /\ TxRight(w)
  <2>1. w \in FormTx
    BY <1>1, <1>9, <1>10, <1>11 DEF FormTx
  <2>2. /\ w \in CompanyTx => t \in CompanyTx
        /\ w \in ContactTx => t \in ContactTx
        /\ w \in PaperTx => t \in PaperTx
    BY <1>1, <1>8, <2>1, OneKind DEF SameForm
  <2>3. w.step # "checked"
    BY <1>8 DEF SameForm
  <2> QED BY <1>9, <1>10, <1>11, <2>1, <2>2, <2>3 DEF TxRight
<1>13. \A v \in Owners \ {u} : w.locks \cap tx[v].locks = {}
  BY <1>6, <1>8 DEF l
<1>14. UNCHANGED <<rows, import, view, merge, history>>
  BY DEF Write
<1> QED BY <1>5, <1>12, <1>13, <1>14, OneForm

LEMMA RefuseInv ==
    ASSUME CompaniesInv, NEW u \in Owners, Refuse(u, tx[u])
    PROVE  CompaniesInv'
<1>1. tx' = [tx EXCEPT ![u] = Idle] /\ UNCHANGED <<rows, import, view, merge, history>>
  BY DEF Refuse
<1> QED BY <1>1, IdleForm, OneForm
-----------------------------------------------------------------------------
(* Forms commit.                                                           *)

Keeps ==
    /\ \A i \in DOMAIN contacts : contacts[i].live /\ ~contacts'[i].live => <<"contact", i>> \in late
    /\ \A p \in Papers : papers[p].live /\ ~papers'[p].live => <<"paper", p>> \in late

LEMMA OthersKept ==
    ASSUME DOMAIN companies \subseteq DOMAIN companies',
           DOMAIN contacts \subseteq DOMAIN contacts'
    PROVE  /\ UNCHANGED view /\ ViewRight => ViewRight'
           /\ UNCHANGED merge /\ MergeRight => MergeRight'
BY DEF ViewRight, MergeRight

\* The form that commits, and what it leaves the others.
LEMMA Committing ==
    ASSUME CompaniesInv, NEW u \in Owners, tx[u].step = "written", tx' = [tx EXCEPT ![u] = Idle]
    PROVE  /\ tx[u] \in FormTx /\ TxRight(tx[u]) /\ tx' \in [Owners -> FormTx \cup {Idle}]
           /\ \A v \in Owners : tx'[v] = tx[v] \/ tx'[v] = Idle
           /\ \A v \in Owners : tx'[v] = tx[v] => tx[u].locks \cap tx[v].locks = {}
<1>1. tx[u] \in FormTx
  <2>1. Idle.step # "written"
    BY DEF Idle
  <2> QED BY <2>1 DEF CompaniesInv, CompaniesTyped
<1>2. tx[u] # Idle
  BY <1>1, OneKind
<1>3. tx'[u] = Idle /\ \A v \in Owners : v # u => tx'[v] = tx[v]
  BY DEF CompaniesInv, CompaniesTyped
<1>4. tx' \in [Owners -> FormTx \cup {Idle}]
  BY DEF CompaniesInv, CompaniesTyped
<1>5. ASSUME NEW v \in Owners, tx'[v] = tx[v] PROVE tx[u].locks \cap tx[v].locks = {}
  <2>1. v # u
    BY <1>2, <1>3, <1>5
  <2> QED BY <2>1 DEF CompaniesInv, LocksApart
<1> QED BY <1>1, <1>3, <1>4, <1>5 DEF CompaniesInv, TxRights

LEMMA CompanyCommitted ==
    ASSUME CompaniesInv, NEW u \in Owners, NEW t, t = tx[u], t \in FormTx, t.step = "written", TxRight(t),
           CommitCompany(u, t),
           NEW c, c = IF t.id = 0 THEN Len(companies) + 1 ELSE t.id
    PROVE  /\ t \in CompanyTx /\ CompanyRight(t) /\ DOMAIN t.inline \subseteq Nat
           /\ companies' \in Seq(CompanyRow) /\ DOMAIN companies' = DOMAIN companies \cup {c}
           /\ c \in DOMAIN companies => t.id = c
           /\ companies'[c].live /\ companies'[c].named /\ companies'[c].who = t.new.who
           /\ \A d \in DOMAIN companies : d # c => companies'[d] = companies[d]
<1>1. t \in CompanyTx /\ CompanyRight(t) /\ DOMAIN t.inline \subseteq Nat
  BY OneKind DEF CommitCompany, TxRight
<1>2. t.new \in CompanyRow /\ t.new.live /\ t.new.named
  BY <1>1 DEF CompanyTx, CompanyRight
<1>3. CASE t.id = 0
  <2>1. companies' = Append(companies, t.new) /\ c = Len(companies) + 1
    BY <1>3 DEF CommitCompany
  <2>2. companies \in Seq(CompanyRow)
    BY DEF CompaniesInv, CompaniesTyped
  <2> QED BY <1>1, <1>2, <2>1, <2>2, Appended
<1>4. CASE t.id # 0
  <2> DEFINE row == [t.new EXCEPT !.live = TRUE]
  <2>1. row \in CompanyRow /\ row.live /\ row.named /\ row.who = t.new.who
    BY <1>2 DEF CompanyRow
  <2>2. c = t.id /\ c \in DOMAIN companies
    BY <1>1, <1>4 DEF CompanyRight
  <2>3. companies' = [companies EXCEPT ![c] = row]
    BY <1>4, <2>2 DEF CommitCompany
  <2>4. companies \in Seq(CompanyRow)
    BY DEF CompaniesInv, CompaniesTyped
  <2> HIDE DEF row
  <2>5. /\ companies' \in Seq(CompanyRow) /\ DOMAIN companies' = DOMAIN companies
        /\ companies'[c] = row /\ \A d \in DOMAIN companies : d # c => companies'[d] = companies[d]
    BY <2>1, <2>2, <2>3, <2>4, Replaced
  <2> QED BY <1>1, <2>1, <2>2, <2>5
<1> QED BY <1>3, <1>4

LEMMA LinesCommitted ==
    ASSUME CompaniesInv, NEW u \in Owners, NEW t, t = tx[u], t \in CompanyTx, t.step = "written", CompanyRight(t),
           CommitCompany(u, t),
           NEW c \in Nat, c = IF t.id = 0 THEN Len(companies) + 1 ELSE t.id
    PROVE  /\ contacts' \in Seq(ContactRow)
           /\ DOMAIN contacts' = DOMAIN contacts \cup (IF 0 \in DOMAIN t.inline THEN {Len(contacts) + 1} ELSE {})
           /\ \A i \in DOMAIN contacts \cap DOMAIN t.inline :
                /\ contacts'[i].firm = c /\ contacts'[i].who = t.new.who
                /\ contacts'[i].live /\ contacts'[i].person = t.inline[i].person
           /\ \A i \in DOMAIN contacts \ DOMAIN t.inline :
                /\ contacts'[i].firm = contacts[i].firm /\ contacts'[i].live = contacts[i].live
                /\ contacts'[i].person = contacts[i].person
                /\ i \in t.seen => contacts'[i].who = t.new.who
                /\ i \notin t.seen => contacts'[i] = contacts[i]
           /\ 0 \in DOMAIN t.inline =>
                LET i == Len(contacts) + 1 IN
                /\ contacts'[i].firm = c /\ contacts'[i].who = t.new.who /\ ~contacts'[i].person
<1> DEFINE line(i) == [t.inline[i] EXCEPT !.firm = c, !.who = t.new.who, !.live = TRUE]
           change(i) == CASE i \in DOMAIN t.inline -> line(i)
                        [] i \notin DOMAIN t.inline /\ i \in t.seen -> [contacts[i] EXCEPT !.who = t.new.who]
                        [] OTHER -> contacts[i]
           changed == [i \in DOMAIN contacts |-> change(i)]
<1>1. contacts' = IF 0 \in DOMAIN t.inline THEN Append(changed, line(0)) ELSE changed
  BY DEF CommitCompany
<1>2. t.new.who \in Whos /\ \A i \in DOMAIN t.inline : t.inline[i] \in ContactRow
  <2>1. t.new \in CompanyRow /\ t.inline \in Copies(ContactRow)
    BY DEF CompanyTx, ContactCopies
  <2> QED BY <2>1, CopiesAre DEF CompanyRow
<1>3. \A i \in DOMAIN t.inline :
        /\ line(i) \in ContactRow /\ line(i).firm = c /\ line(i).who = t.new.who
        /\ line(i).live /\ line(i).person = t.inline[i].person
  BY <1>2 DEF ContactRow
<1>4. \A i \in DOMAIN contacts : contacts[i] \in ContactRow
  BY RowsOf DEF CompaniesInv
<1> HIDE DEF line
<1>5. \A i \in DOMAIN contacts :
        /\ i \in DOMAIN t.inline => change(i) = line(i)
        /\ i \notin DOMAIN t.inline => /\ i \in t.seen => change(i) = [contacts[i] EXCEPT !.who = t.new.who]
                                       /\ i \notin t.seen => change(i) = contacts[i]
  OBVIOUS
<1> HIDE DEF change
<1>6. \A i \in DOMAIN contacts \ DOMAIN t.inline :
        /\ change(i) \in ContactRow
        /\ change(i).firm = contacts[i].firm /\ change(i).live = contacts[i].live
        /\ change(i).person = contacts[i].person
        /\ i \in t.seen => change(i).who = t.new.who
        /\ i \notin t.seen => change(i) = contacts[i]
  <2> SUFFICES ASSUME NEW i \in DOMAIN contacts \ DOMAIN t.inline
      PROVE  /\ change(i) \in ContactRow
             /\ change(i).firm = contacts[i].firm /\ change(i).live = contacts[i].live
             /\ change(i).person = contacts[i].person
             /\ i \in t.seen => change(i).who = t.new.who
             /\ i \notin t.seen => change(i) = contacts[i]
    OBVIOUS
  <2>1. CASE i \in t.seen
    <3>1. change(i) = [contacts[i] EXCEPT !.who = t.new.who]
      BY <1>5, <2>1
    <3> QED BY <1>2, <1>4, <2>1, <3>1 DEF ContactRow
  <2>2. CASE i \notin t.seen
    BY <1>4, <1>5, <2>2
  <2> QED BY <2>1, <2>2
<1>7. \A i \in DOMAIN contacts : change(i) \in ContactRow
  BY <1>3, <1>5, <1>6
<1>8. changed \in Seq(ContactRow) /\ DOMAIN changed = DOMAIN contacts /\ Len(changed) = Len(contacts)
      /\ \A i \in DOMAIN contacts : changed[i] = change(i)
  <2>1. contacts \in Seq(ContactRow)
    BY DEF CompaniesInv, CompaniesTyped
  <2>2. \A i \in DOMAIN contacts : changed[i] = change(i)
    OBVIOUS
  <2>3. changed = [i \in DOMAIN contacts |-> changed[i]]
    OBVIOUS
  <2> HIDE DEF changed
  <2> QED BY <1>7, <2>1, <2>2, <2>3, Rewritten
<1> HIDE DEF changed
<1>9. CASE 0 \in DOMAIN t.inline
  <2>1. contacts' = Append(changed, line(0)) /\ line(0) \in ContactRow /\ ~line(0).person
    BY <1>1, <1>3, <1>9 DEF CompanyRight
  <2>2. /\ contacts' \in Seq(ContactRow) /\ DOMAIN contacts' = DOMAIN contacts \cup {Len(contacts) + 1}
        /\ \A i \in DOMAIN contacts : contacts'[i] = change(i)
        /\ contacts'[Len(contacts) + 1] = line(0)
    BY <1>8, <2>1, Appended
  <2> QED BY <1>3, <1>5, <1>6, <1>9, <2>1, <2>2
<1>10. CASE 0 \notin DOMAIN t.inline
  <2>1. contacts' = changed
    BY <1>1, <1>10
  <2> QED BY <1>3, <1>5, <1>6, <1>8, <1>10, <2>1
<1> QED BY <1>9, <1>10

LEMMA CommitCompanyInv ==
    ASSUME CompaniesInv, NEW u \in Owners, Commit(u, tx[u]), CommitCompany(u, tx[u])
    PROVE  CompaniesInv' /\ Keeps
<1> DEFINE t == tx[u]
           c == IF t.id = 0 THEN Len(companies) + 1 ELSE t.id
           n == Len(contacts) + 1
<1>1. t.step = "written" /\ tx' = [tx EXCEPT ![u] = Idle] /\ UNCHANGED <<import, view, merge, papers>>
  BY DEF Commit, CommitCompany
<1>2. /\ t \in FormTx /\ TxRight(t) /\ tx' \in [Owners -> FormTx \cup {Idle}]
      /\ \A v \in Owners : tx'[v] = tx[v] \/ tx'[v] = Idle
      /\ \A v \in Owners : tx'[v] = tx[v] => t.locks \cap tx[v].locks = {}
  BY <1>1, Committing
<1>3. /\ t \in CompanyTx /\ CompanyRight(t) /\ DOMAIN t.inline \subseteq Nat
      /\ companies' \in Seq(CompanyRow) /\ DOMAIN companies' = DOMAIN companies \cup {c}
      /\ c \in DOMAIN companies => t.id = c
      /\ companies'[c].live /\ companies'[c].named /\ companies'[c].who = t.new.who
      /\ \A d \in DOMAIN companies : d # c => companies'[d] = companies[d]
  <2>1. t = tx[u] /\ CommitCompany(u, t) /\ c = IF t.id = 0 THEN Len(companies) + 1 ELSE t.id
    OBVIOUS
  <2>2. t \in FormTx /\ t.step = "written" /\ TxRight(t)
    BY <1>1, <1>2
  <2> HIDE DEF t, c
  <2>3. t \in CompanyTx /\ CompanyRight(t) /\ DOMAIN t.inline \subseteq Nat
    BY <2>1, <2>2, CompanyCommitted
  <2>4. companies' \in Seq(CompanyRow) /\ DOMAIN companies' = DOMAIN companies \cup {c}
        /\ (c \in DOMAIN companies => t.id = c)
    BY <2>1, <2>2, CompanyCommitted
  <2>5. companies'[c].live /\ companies'[c].named
    BY <2>1, <2>2, CompanyCommitted, ZenonT(60)
  <2>6. companies'[c].who = t.new.who
    BY <2>1, <2>2, CompanyCommitted
  <2>7. \A d \in DOMAIN companies : d # c => companies'[d] = companies[d]
    BY <2>1, <2>2, CompanyCommitted
  <2> QED BY <2>3, <2>4, <2>5, <2>6, <2>7
<1>4. c \in Nat /\ t.id \in Nat
  <2>1. t.id \in Nat
    BY <1>3 DEF CompanyTx
  <2> QED BY <2>1 DEF CompaniesInv, CompaniesTyped
<1>5. /\ contacts' \in Seq(ContactRow)
      /\ DOMAIN contacts' = DOMAIN contacts \cup (IF 0 \in DOMAIN t.inline THEN {n} ELSE {})
      /\ \A i \in DOMAIN contacts \cap DOMAIN t.inline :
                /\ contacts'[i].firm = c /\ contacts'[i].who = t.new.who
                /\ contacts'[i].live /\ contacts'[i].person = t.inline[i].person
      /\ \A i \in DOMAIN contacts \ DOMAIN t.inline :
                /\ contacts'[i].firm = contacts[i].firm /\ contacts'[i].live = contacts[i].live
                /\ contacts'[i].person = contacts[i].person
                /\ i \in t.seen => contacts'[i].who = t.new.who
                /\ i \notin t.seen => contacts'[i] = contacts[i]
      /\ 0 \in DOMAIN t.inline =>
                /\ contacts'[n].firm = c /\ contacts'[n].who = t.new.who /\ ~contacts'[n].person
  <2> HIDE DEF t
  <2> QED BY <1>1, <1>3, <1>4, LinesCommitted DEF t
<1>6. /\ apart' = apart \cup (IF t.new.who # t.old.who THEN Of(t.id) \ t.there ELSE {})
                        \cup (IF t.id # 0 /\ companies[t.id].who # t.old.who THEN Of(t.id) ELSE {})
      /\ late' = late \cup Late(t.id, "contact", {<<"contact", i>> : i \in
                           (DOMAIN t.inline \ {0}) \cup IF 0 \in DOMAIN t.inline THEN {n} ELSE {}})
      /\ raced' = (raced \/ \E i \in DOMAIN t.inline : PersonBack(i, t.inline[i]))
  BY DEF CommitCompany
<1>7. /\ DOMAIN t.inline \subseteq DOMAIN contacts \cup {0}
      /\ t.seen = IF t.new.who # t.old.who THEN t.there ELSE {}
      /\ \A i \in t.seen : contacts[i].firm = t.id
      /\ t.locks = (C({t.id}) \cup P(t.seen \cup DOMAIN t.inline)) \ NewKeys
  BY <1>1, <1>3 DEF CompanyRight
<1>8. /\ DOMAIN contacts \subseteq Nat /\ 0 \notin DOMAIN contacts /\ 0 \notin DOMAIN companies
      /\ n \notin DOMAIN contacts
  BY RowsOf DEF CompaniesInv, CompaniesTyped
<1> HIDE DEF t, c, n
<1>9. CompaniesTyped'
  <2>1. raced' \in BOOLEAN
    BY <1>6 DEF CompaniesInv, CompaniesTyped
  <2> QED BY <1>1, <1>2, <1>3, <1>5, <2>1 DEF CompaniesInv, CompaniesTyped
<1>10. \A d \in Live(companies) : d \in Live(companies')
  BY <1>3 DEF Live
<1>11. Bystanders'
  <2>1. ASSUME NEW v \in Owners, tx'[v] = tx[v], NEW i \in DOMAIN contacts,
               <<"contact", i>> \in tx[v].locks
        PROVE  contacts'[i].firm = contacts[i].firm
    <3>1. <<"contact", i>> \notin t.locks
      BY <1>2, <2>1
    <3>2. <<"contact", i>> \notin NewKeys
      BY <1>8, KeyIn DEF NewKeys
    <3>3. <<"contact", i>> \notin P(t.seen \cup DOMAIN t.inline)
      BY <1>7, <3>1, <3>2
    <3>4. i \notin t.seen /\ i \notin DOMAIN t.inline
      BY <3>3, KeyIn
    <3> QED BY <1>5, <3>4
  <2> QED BY <1>2, <1>3, <1>5, <1>10, <2>1, HandsKept
<1>12. ViewRight' /\ MergeRight'
  BY <1>1, <1>3, <1>5, OthersKept DEF CompaniesInv
<1>13. Refs'
  <2>1. \A i \in DOMAIN contacts' : contacts'[i].firm \in DOMAIN companies'
    BY <1>3, <1>5 DEF CompaniesInv, Refs
  <2> QED BY <1>1, <1>3, <2>1 DEF CompaniesInv, Refs
<1>14. CompaniesTypeOK'
  <2>1. \A d \in DOMAIN companies' : companies'[d].who \in Teams \cup {Nobody}
    <3>2. companies' \in Seq(CompanyRow)
      BY <1>3
    <3>1. \A d \in DOMAIN companies' : companies'[d] \in CompanyRow
      BY <3>2
    <3> QED BY <3>1 DEF CompanyRow, Whos
  <2>2. \A i \in Live(contacts') : contacts'[i].firm \in Live(companies')
    BY <1>3, <1>5, <1>10 DEF CompaniesInv, CompaniesTypeOK, Live
  <2>3. \A p \in Papers : papers'[p].live => papers'[p].firm \in Live(companies')
    BY <1>1, <1>10 DEF CompaniesInv, CompaniesTypeOK
  <2>4. late' \subseteq P(DOMAIN contacts') \cup ({"paper"} \X Papers)
    <3>1. \A S : Late(t.id, "contact", S) \subseteq S
      BY DEF Late
    <3>2. late' \subseteq late \cup {<<"contact", i>> : i \in
                           (DOMAIN t.inline \ {0}) \cup IF 0 \in DOMAIN t.inline THEN {n} ELSE {}}
      BY <1>6, <3>1
    <3>3. (DOMAIN t.inline \ {0}) \cup (IF 0 \in DOMAIN t.inline THEN {n} ELSE {}) \subseteq DOMAIN contacts'
      BY <1>5, <1>7
    <3>4. late \subseteq P(DOMAIN contacts) \cup ({"paper"} \X Papers)
      BY DEF CompaniesInv, CompaniesTypeOK
    <3> QED BY <1>5, <3>2, <3>3, <3>4 DEF P
  <2> QED BY <2>1, <2>2, <2>3, <2>4 DEF CompaniesTypeOK
<1>15. MovedLate'
  <2> SUFFICES ASSUME merge # NoMerge PROVE MovedLate'
    BY <1>1 DEF MovedLate
  <2>1. merge \in Merging /\ merge.step # "none" /\ merge.dup \in DOMAIN companies
    BY DEF CompaniesInv, CompaniesTyped, MergeRight, Merging, MergeSteps
  <2>2. late \subseteq late'
    BY <1>6
  <2>3. ASSUME "contact" \in merge.moved, NEW i \in Of(merge.dup)' PROVE <<"contact", i>> \in late'
    <3>1. i \in DOMAIN contacts' /\ contacts'[i].live /\ contacts'[i].firm = merge.dup
      BY <1>1, <2>3 DEF Of, Live
    <3>2. CASE i \in DOMAIN contacts \ DOMAIN t.inline
      <4>1. i \in Of(merge.dup)
        BY <1>5, <3>1, <3>2 DEF Of, Live
      <4> QED BY <2>2, <2>3, <4>1 DEF CompaniesInv, MovedLate
    <3>3. CASE i \notin DOMAIN contacts \ DOMAIN t.inline
      <4>1. contacts'[i].firm = c /\ i \in (DOMAIN t.inline \ {0}) \cup IF 0 \in DOMAIN t.inline THEN {n} ELSE {}
        BY <1>5, <1>8, <3>1, <3>3
      <4>2. t.id = merge.dup
        BY <1>3, <2>1, <3>1, <4>1
      <4>3. Late(t.id, "contact", {<<"contact", j>> : j \in
                           (DOMAIN t.inline \ {0}) \cup IF 0 \in DOMAIN t.inline THEN {n} ELSE {}})
            = {<<"contact", j>> : j \in
                           (DOMAIN t.inline \ {0}) \cup IF 0 \in DOMAIN t.inline THEN {n} ELSE {}}
        BY <2>1, <2>3, <4>2 DEF Late
      <4> QED BY <1>6, <4>1, <4>3
    <3> QED BY <3>2, <3>3
  <2>4. \A p \in (PapersOf(merge.dup) \cap merge.moved)' : <<"paper", p>> \in late'
    BY <1>1, <2>2 DEF CompaniesInv, MovedLate, PapersOf
  <2>5. merge'.step = "collected" => merge'.gone \subseteq late'
    BY <1>1, <2>2 DEF CompaniesInv, MovedLate
  <2> QED BY <1>1, <2>3, <2>4, <2>5 DEF MovedLate
<1>16. Follows'
  <2> SUFFICES ASSUME NEW i \in Live(contacts') \ apart' PROVE Follow(i)' \/ Awaited(i)'
    BY DEF Follows
  <2>1. i \in DOMAIN contacts' /\ contacts'[i].live /\ i \notin apart
    BY <1>6 DEF Live
  <2>2. CASE i \notin DOMAIN contacts \ DOMAIN t.inline
    <3>1. contacts'[i].firm = c /\ contacts'[i].who = t.new.who
      BY <1>5, <2>1, <2>2
    <3> QED BY <1>3, <3>1 DEF Follow
  <2>3. CASE i \in DOMAIN contacts \ DOMAIN t.inline
    <3>1. contacts'[i].firm = contacts[i].firm /\ i \in Live(contacts)
      BY <1>5, <2>1, <2>3 DEF Live
    <3>2. Follow(i) \/ Awaited(i)
      BY <2>1, <3>1 DEF CompaniesInv, Follows
    <3>3. Awaited(i) => Awaited(i)'
      BY <1>1, <3>1 DEF Awaited
    <3>4. contacts[i].firm \in DOMAIN companies
      BY <2>3 DEF CompaniesInv, Refs
    <3>5. CASE contacts[i].firm # c
      <4>1. i \notin t.seen
        <5>1. t.id # 0 => t.id = c
          BY DEF c
        <5> QED BY <1>7, <1>8, <3>4, <3>5, <5>1
      <4>2. contacts'[i] = contacts[i] /\ companies'[contacts[i].firm] = companies[contacts[i].firm]
        BY <1>3, <1>5, <2>3, <3>4, <3>5, <4>1
      <4> QED BY <3>2, <3>3, <4>2 DEF Follow
    <3>6. CASE contacts[i].firm = c
      <4>1. t.id = c /\ t.id # 0 /\ i \in Of(t.id)
        BY <1>3, <1>8, <3>1, <3>4, <3>6 DEF Of
      <4>2. CASE t.new.who # t.old.who
        <5>1. i \in t.seen
          BY <1>6, <1>7, <4>1, <4>2
        <5>2. contacts'[i].who = t.new.who
          BY <1>5, <2>3, <5>1
        <5> QED BY <1>3, <3>1, <3>6, <5>2 DEF Follow
      <4>3. CASE t.new.who = t.old.who
        <5>1. contacts'[i] = contacts[i] /\ companies[c].who = t.old.who
          BY <1>5, <1>6, <1>7, <2>3, <4>1, <4>3
        <5> QED BY <1>3, <3>2, <3>3, <3>6, <4>3, <5>1 DEF Follow
      <4> QED BY <4>2, <4>3
    <3> QED BY <3>5, <3>6
  <2> QED BY <2>2, <2>3
<1>17. Alone'
  <2> SUFFICES ASSUME ~raced' PROVE Alone'
    BY DEF Alone
  <2>1. ~raced /\ \A i \in DOMAIN t.inline : t.inline[i].person => i \in Persons
    BY <1>6 DEF PersonBack
  <2>2. Persons' \subseteq Persons
    BY <1>5, <2>1 DEF Persons, Live
  <2>3. Nameless' \subseteq Nameless
    BY <1>3 DEF Nameless, Live
  <2> QED BY <1>1, <2>1, <2>2, <2>3 DEF CompaniesInv, Alone
<1>18. Keeps
  BY <1>1, <1>5 DEF Keeps
<1> QED BY <1>9, <1>11, <1>12, <1>13, <1>14, <1>15, <1>16, <1>17, <1>18 DEF CompaniesInv, Bystanders

\* A row of one contact is written: by a form, or by the view of superusers.
LEMMA OneContact ==
    ASSUME CompaniesInv, NEW i, NEW row, row.live,
           contacts' \in Seq(ContactRow), DOMAIN contacts' = DOMAIN contacts \cup {i},
           contacts'[i] = row, \A j \in DOMAIN contacts : j # i => contacts'[j] = contacts[j],
           row.firm \in Live(companies),
           apart \subseteq apart', i \notin apart' => companies[row.firm].who = row.who,
           late' = late \cup Late(row.firm, "contact", P({i})),
           UNCHANGED <<companies, papers, merge>>
    PROVE  /\ Refs' /\ CompaniesTypeOK' /\ MovedLate' /\ Keeps
           /\ \A j \in Live(contacts') \ apart' :
                Follow(j)' \/ /\ j # i /\ j \in Live(contacts) \ apart
                              /\ contacts'[j] = contacts[j] /\ Awaited(j)
           /\ Persons' \subseteq Persons \cup {i} /\ (~row.person => Persons' \subseteq Persons)
           /\ Nameless' = Nameless
<1>1. row.firm \in DOMAIN companies
  BY DEF Live
<1>2. Refs'
  BY <1>1 DEF CompaniesInv, Refs
<1>3. CompaniesTypeOK'
  <2>1. \A j \in Live(contacts') : contacts'[j].firm \in Live(companies')
    BY DEF CompaniesInv, CompaniesTypeOK, Live
  <2>2. late' \subseteq P(DOMAIN contacts') \cup ({"paper"} \X Papers)
    <3>1. Late(row.firm, "contact", P({i})) \subseteq P({i})
      BY DEF Late
    <3> QED BY <3>1 DEF CompaniesInv, CompaniesTypeOK, P
  <2>3. \A d \in DOMAIN companies' : companies'[d].who \in Teams \cup {Nobody}
    BY DEF CompaniesInv, CompaniesTypeOK
  <2>4. \A p \in Papers : papers'[p].live => papers'[p].firm \in Live(companies')
    BY DEF CompaniesInv, CompaniesTypeOK
  <2> QED BY <2>1, <2>2, <2>3, <2>4 DEF CompaniesTypeOK
<1>4. MovedLate'
  <2> SUFFICES ASSUME merge # NoMerge PROVE MovedLate'
    BY DEF MovedLate
  <2>1. merge.step # "none"
    BY DEF CompaniesInv, CompaniesTyped, Merging, MergeSteps
  <2>2. ASSUME "contact" \in merge.moved, NEW j \in Of(merge.dup)' PROVE <<"contact", j>> \in late'
    <3>1. j \in DOMAIN contacts' /\ contacts'[j].live /\ contacts'[j].firm = merge.dup
      BY <2>2 DEF Of, Live
    <3>2. CASE j # i
      <4>1. j \in Of(merge.dup)
        BY <3>1, <3>2 DEF Of, Live
      <4> QED BY <2>2, <4>1 DEF CompaniesInv, MovedLate
    <3>3. CASE j = i
      <4>1. Late(row.firm, "contact", P({i})) = P({i})
        BY <2>1, <2>2, <3>1, <3>3 DEF Late
      <4> QED BY <3>3, <4>1, KeyIn
    <3> QED BY <3>2, <3>3
  <2>3. \A p \in (PapersOf(merge.dup) \cap merge.moved)' : <<"paper", p>> \in late'
    BY DEF CompaniesInv, MovedLate, PapersOf
  <2>4. merge'.step = "collected" => merge'.gone \subseteq late'
    BY DEF CompaniesInv, MovedLate
  <2> QED BY <2>2, <2>3, <2>4 DEF MovedLate
<1>5. Keeps
  BY DEF Keeps
<1>6. ASSUME NEW j \in Live(contacts') \ apart'
      PROVE  Follow(j)' \/ /\ j # i /\ j \in Live(contacts) \ apart
                           /\ contacts'[j] = contacts[j] /\ Awaited(j)
  <2>1. CASE j = i
    BY <1>6, <2>1 DEF Follow
  <2>2. CASE j # i
    <3>1. j \in Live(contacts) \ apart /\ contacts'[j] = contacts[j]
      BY <1>6, <2>2 DEF Live
    <3>2. Follow(j) \/ Awaited(j)
      BY <3>1 DEF CompaniesInv, Follows
    <3>3. Follow(j) => Follow(j)'
      BY <3>1 DEF Follow
    <3> QED BY <2>2, <3>1, <3>2, <3>3
  <2> QED BY <2>1, <2>2
<1>7. Persons' \subseteq Persons \cup {i} /\ (~row.person => Persons' \subseteq Persons)
  BY DEF Persons, Live
<1>8. Nameless' = Nameless
  BY DEF Nameless, Live
<1> QED BY <1>2, <1>3, <1>4, <1>5, <1>6, <1>7, <1>8

LEMMA CommitContactInv ==
    ASSUME CompaniesInv, NEW u \in Owners, Commit(u, tx[u]), CommitContact(u, tx[u])
    PROVE  CompaniesInv' /\ Keeps
<1> DEFINE t == tx[u]
           i == IF t.id = 0 THEN Len(contacts) + 1 ELSE t.id
           row == Saved(t)
<1>1. t.step = "written" /\ tx' = [tx EXCEPT ![u] = Idle]
      /\ UNCHANGED <<import, view, merge, companies, papers>>
  BY DEF Commit, CommitContact
<1>2. /\ t \in FormTx /\ TxRight(t) /\ tx' \in [Owners -> FormTx \cup {Idle}]
      /\ \A v \in Owners : tx'[v] = tx[v] \/ tx'[v] = Idle
      /\ \A v \in Owners : tx'[v] = tx[v] => t.locks \cap tx[v].locks = {}
  BY <1>1, Committing
<1>3. t \in ContactTx /\ ContactRight(t)
  BY <1>2, OneKind DEF CommitContact, TxRight
<1>4. t.new \in ContactRow /\ t.firm \in CompanyRow
  BY <1>3 DEF ContactTx
<1>5. /\ row \in ContactRow /\ row.firm = t.new.firm /\ row.person = t.new.person
      /\ row.who = t.firm.who /\ row.live
  BY <1>4 DEF Saved, ContactRow, CompanyRow
<1>6. t.new.firm \in Live(companies) /\ t.locks = P({t.id}) \ NewKeys
      /\ t.id \in DOMAIN contacts \cup {0} /\ (t.new.person => t.seen \subseteq {t.id})
  BY <1>1, <1>3 DEF ContactRight
<1>7. contacts' = (IF t.id = 0 THEN Append(contacts, row) ELSE [contacts EXCEPT ![i] = row])
      /\ apart' = (IF companies[t.new.firm].who # t.firm.who THEN apart \cup {i} ELSE apart)
      /\ raced' = (raced \/ (t.new.person /\ ~(Persons \subseteq t.seen \cup {i})))
      /\ late' = late \cup Late(t.new.firm, "contact", P({i}))
  BY DEF CommitContact
<1>8. contacts \in Seq(ContactRow) /\ 0 \notin DOMAIN contacts /\ DOMAIN contacts \subseteq Nat
  BY RowsOf DEF CompaniesInv, CompaniesTyped
<1>9. (t.id # 0 => i = t.id) /\ (t.id = 0 => i \notin DOMAIN contacts)
  BY <1>8
<1> HIDE DEF row
<1>10. /\ contacts' \in Seq(ContactRow) /\ DOMAIN contacts' = DOMAIN contacts \cup {i}
       /\ contacts'[i] = row /\ \A j \in DOMAIN contacts : j # i => contacts'[j] = contacts[j]
  <2>1. CASE t.id = 0
    <3>1. contacts' = Append(contacts, row) /\ i = Len(contacts) + 1
      BY <1>7, <2>1
    <3> HIDE DEF i, t
    <3> QED BY <1>5, <1>8, <3>1, Appended
  <2>2. CASE t.id # 0
    <3>1. contacts' = [contacts EXCEPT ![i] = row] /\ i \in DOMAIN contacts
      BY <1>6, <1>7, <1>9, <2>2
    <3> HIDE DEF i, t
    <3>2. /\ contacts' \in Seq(ContactRow) /\ DOMAIN contacts' = DOMAIN contacts
          /\ contacts'[i] = row /\ \A j \in DOMAIN contacts : j # i => contacts'[j] = contacts[j]
      BY <1>5, <1>8, <3>1, Replaced
    <3> QED BY <3>1, <3>2
  <2> QED BY <2>1, <2>2
<1> HIDE DEF t, i
<1>11. CompaniesTyped'
  <2>1. raced' \in BOOLEAN
    BY <1>7 DEF CompaniesInv, CompaniesTyped
  <2> QED BY <1>1, <1>2, <1>10, <2>1 DEF CompaniesInv, CompaniesTyped
<1>12. Bystanders'
  <2>1. ASSUME NEW v \in Owners, tx'[v] = tx[v], NEW j \in DOMAIN contacts,
               <<"contact", j>> \in tx[v].locks
        PROVE  contacts'[j].firm = contacts[j].firm
    <3>1. <<"contact", j>> \notin t.locks /\ <<"contact", j>> \notin NewKeys /\ j # 0
      BY <1>2, <1>8, <2>1, KeyIn DEF NewKeys
    <3>2. j # t.id
      BY <1>6, <3>1, KeyIn
    <3>3. j # i
      BY <1>9, <2>1, <3>2
    <3> QED BY <1>10, <3>3
  <2> QED BY <1>1, <1>2, <1>10, <2>1, HandsKept
<1>13. ViewRight' /\ MergeRight'
  BY <1>1, <1>10, OthersKept DEF CompaniesInv
<1>14. /\ row.firm \in Live(companies) /\ apart \subseteq apart'
       /\ i \notin apart' => companies[row.firm].who = row.who
       /\ late' = late \cup Late(row.firm, "contact", P({i}))
  BY <1>5, <1>6, <1>7
<1>15. /\ Refs' /\ CompaniesTypeOK' /\ MovedLate' /\ Keeps
       /\ \A j \in Live(contacts') \ apart' :
                Follow(j)' \/ /\ j # i /\ j \in Live(contacts) \ apart
                              /\ contacts'[j] = contacts[j] /\ Awaited(j)
       /\ Persons' \subseteq Persons \cup {i} /\ (~row.person => Persons' \subseteq Persons)
       /\ Nameless' = Nameless
  BY <1>1, <1>5, <1>10, <1>14, OneContact
<1>16. Follows'
  BY <1>1, <1>15 DEF Follows, Awaited
<1>17. Alone'
  <2> SUFFICES ASSUME ~raced' PROVE Alone'
    BY DEF Alone
  <2>1. ~raced
    BY <1>7
  <2>2. \A j, k \in Persons' : j = k
    <3>1. CASE t.new.person
      <4>1. Persons \subseteq t.seen \cup {i} /\ t.seen \subseteq {t.id}
        BY <1>6, <1>7, <3>1
      <4>2. 0 \notin Persons
        BY <1>8 DEF Persons, Live
      <4>3. Persons \subseteq {i}
        BY <1>9, <4>1, <4>2
      <4> QED BY <1>15, <4>3
    <3>2. CASE ~t.new.person
      BY <1>5, <1>15, <2>1, <3>2 DEF CompaniesInv, Alone
    <3> QED BY <3>1, <3>2
  <2> QED BY <1>1, <1>15, <2>1, <2>2 DEF CompaniesInv, Alone
<1> QED BY <1>11, <1>12, <1>13, <1>15, <1>16, <1>17 DEF CompaniesInv, Bystanders

LEMMA CommitPaperInv ==
    ASSUME CompaniesInv, NEW u \in Owners, Commit(u, tx[u]), CommitPaper(u, tx[u])
    PROVE  CompaniesInv' /\ Keeps
<1> DEFINE t == tx[u]
           row == [t.new EXCEPT !.live = TRUE]
<1>1. t.step = "written" /\ tx' = [tx EXCEPT ![u] = Idle]
      /\ UNCHANGED <<import, view, merge, companies, contacts, apart, raced>>
  BY DEF Commit, CommitPaper
<1>2. /\ t \in FormTx /\ TxRight(t) /\ tx' \in [Owners -> FormTx \cup {Idle}]
      /\ \A v \in Owners : tx'[v] = tx[v] \/ tx'[v] = Idle
  BY <1>1, Committing
<1>3. t \in PaperTx /\ PaperRight(t)
  BY <1>2, OneKind DEF CommitPaper, TxRight
<1>4. t.new \in PaperRow /\ t.id \in Papers
  BY <1>3 DEF PaperTx
<1>5. row \in PaperRow /\ row.firm = t.new.firm /\ row.live
  BY <1>4 DEF PaperRow
<1>6. t.new.firm \in Live(companies)
  BY <1>1, <1>3 DEF PaperRight
<1>7. papers' = [papers EXCEPT ![t.id] = row]
      /\ late' = late \cup Late(t.new.firm, t.id, {<<"paper", t.id>>})
  BY DEF CommitPaper
<1> HIDE DEF row
<1>8. papers' \in [Papers -> PaperRow] /\ papers'[t.id] = row
      /\ \A p \in Papers : p # t.id => papers'[p] = papers[p]
  BY <1>4, <1>5, <1>7 DEF CompaniesInv, CompaniesTyped
<1> HIDE DEF t
<1>9. CompaniesTyped'
  BY <1>1, <1>2, <1>8 DEF CompaniesInv, CompaniesTyped
<1>10. Bystanders'
  BY <1>1, <1>2, HandsKept
<1>11. ViewRight' /\ MergeRight'
  BY <1>1, OthersKept DEF CompaniesInv
<1>12. Refs'
  BY <1>1, <1>5, <1>6, <1>8 DEF CompaniesInv, Refs, Live
<1>13. CompaniesTypeOK'
  <2>1. \A p \in Papers : papers'[p].live => papers'[p].firm \in Live(companies')
    <3>1. \A p \in Papers : papers[p].live => papers[p].firm \in Live(companies)
      BY DEF CompaniesInv, CompaniesTypeOK
    <3>2. Live(companies') = Live(companies)
      BY <1>1
    <3>3. ASSUME NEW p \in Papers, papers'[p].live PROVE papers'[p].firm \in Live(companies)
      <4>1. CASE p = t.id
        BY <1>5, <1>6, <1>8, <4>1
      <4>2. CASE p # t.id
        BY <1>8, <3>1, <3>3, <4>2
      <4> QED BY <4>1, <4>2
    <3> QED BY <3>2, <3>3
  <2>2. late' \subseteq P(DOMAIN contacts') \cup ({"paper"} \X Papers)
    <3>1. Late(t.new.firm, t.id, {<<"paper", t.id>>}) \subseteq {<<"paper", t.id>>}
      BY DEF Late
    <3>2. late \subseteq P(DOMAIN contacts) \cup ({"paper"} \X Papers)
      BY DEF CompaniesInv, CompaniesTypeOK
    <3>3. <<"paper", t.id>> \in {"paper"} \X Papers
      BY <1>4
    <3>4. DOMAIN contacts' = DOMAIN contacts
      BY <1>1
    <3> QED BY <1>7, <3>1, <3>2, <3>3, <3>4
  <2> QED BY <1>1, <2>1, <2>2 DEF CompaniesInv, CompaniesTypeOK, Live
<1>14. MovedLate'
  <2> SUFFICES ASSUME merge # NoMerge PROVE MovedLate'
    BY <1>1 DEF MovedLate
  <2>1. merge.step # "none"
    BY DEF CompaniesInv, CompaniesTyped, Merging, MergeSteps
  <2>2. ASSUME NEW p \in (PapersOf(merge.dup) \cap merge.moved)' PROVE <<"paper", p>> \in late'
    <3>1. p \in Papers /\ papers'[p].live /\ papers'[p].firm = merge.dup /\ p \in merge.moved
      BY <1>1, <2>2 DEF PapersOf
    <3>2. CASE p # t.id
      <4>1. p \in PapersOf(merge.dup) \cap merge.moved
        BY <1>8, <3>1, <3>2 DEF PapersOf
      <4> QED BY <1>7, <4>1 DEF CompaniesInv, MovedLate
    <3>3. CASE p = t.id
      <4>1. Late(t.new.firm, t.id, {<<"paper", t.id>>}) = {<<"paper", t.id>>}
        BY <1>5, <1>8, <2>1, <3>1, <3>3 DEF Late
      <4> QED BY <1>7, <3>3, <4>1
    <3> QED BY <3>2, <3>3
  <2>3. "contact" \in merge'.moved => \A i \in Of(merge.dup)' : <<"contact", i>> \in late'
    BY <1>1, <1>7 DEF CompaniesInv, MovedLate, Of, Live
  <2>4. merge'.step = "collected" => merge'.gone \subseteq late'
    BY <1>1, <1>7 DEF CompaniesInv, MovedLate
  <2> QED BY <1>1, <2>2, <2>3, <2>4 DEF MovedLate
<1>15. Follows' /\ Alone'
  BY <1>1 DEF CompaniesInv, Follows, Follow, Awaited, Alone, Persons, Nameless, Live
<1>16. Keeps
  BY <1>1, <1>5, <1>8 DEF Keeps
<1> QED BY <1>9, <1>10, <1>11, <1>12, <1>13, <1>14, <1>15, <1>16 DEF CompaniesInv, Bystanders
-----------------------------------------------------------------------------
(* The import, and the view of superusers.                                 *)

LEMMA FormsSame == ASSUME CompaniesInv, UNCHANGED <<rows, tx>> PROVE Bystanders' /\ Keeps
<1>1. TxRights'
  <2>1. \A v \in Owners : \A z : z = tx'[v] => TxRight(z)
    BY DEF CompaniesInv, TxRights
  <2>2. \A v \in Owners : \A z : z = tx'[v] => TxRight(z)'
    BY <2>1, RowsSame
  <2> QED BY <2>2 DEF TxRights
<1>2. LocksApart'
  BY DEF CompaniesInv, LocksApart
<1>3. Keeps
  BY DEF Keeps, rows
<1> QED BY <1>1, <1>2, <1>3 DEF Bystanders

LEMMA CheckInv == ASSUME CompaniesInv, NEW u \in Owners, Check(u) PROVE CompaniesInv' /\ Keeps
<1>1. /\ UNCHANGED <<rows, tx, view, merge, apart, raced, late>>
      /\ import' = [import EXCEPT ![u] = "new"] /\ Nameless = {}
  BY DEF Check, history, Known
<1>2. CompaniesTyped'
  BY <1>1 DEF CompaniesInv, CompaniesTyped, rows
<1>3. Alone'
  BY <1>1 DEF CompaniesInv, Alone, Persons, Nameless, Live, rows
<1> QED BY <1>1, <1>2, <1>3, RowsSame, FormsSame DEF CompaniesInv, Bystanders

\* A row of a company is written, or a new one; its contacts know.
LEMMA OneCompany ==
    ASSUME CompaniesInv, NEW c, NEW row, row \in CompanyRow, row.live,
           companies' \in Seq(CompanyRow), DOMAIN companies' = DOMAIN companies \cup {c},
           companies'[c] = row, \A d \in DOMAIN companies : d # c => companies'[d] = companies[d],
           apart \subseteq apart',
           UNCHANGED <<contacts, papers, tx, late>>
    PROVE  /\ Bystanders' /\ Refs' /\ CompaniesTypeOK' /\ Keeps
           /\ \A i \in Live(contacts') \ apart' :
                /\ i \in Live(contacts) \ apart
                /\ contacts[i].firm \in DOMAIN companies
                /\ contacts[i].firm # c => companies'[contacts[i].firm] = companies[contacts[i].firm]
           /\ Nameless' \subseteq Nameless \cup {c} /\ (row.named => Nameless' \subseteq Nameless)
           /\ Persons' = Persons
<1>1. \A d \in Live(companies) : d \in Live(companies')
  BY DEF Live
<1>2. Bystanders'
  BY <1>1, HandsKept
<1>3. Refs'
  BY DEF CompaniesInv, Refs
<1>4. CompaniesTypeOK'
  <2>1. \A d \in DOMAIN companies' : companies'[d].who \in Teams \cup {Nobody}
    <3>1. \A d \in DOMAIN companies' : companies'[d] \in CompanyRow
      BY ElementsOf
    <3> QED BY <3>1 DEF CompanyRow, Whos
  <2>2. \A i \in Live(contacts') : contacts'[i].firm \in Live(companies')
    BY <1>1 DEF CompaniesInv, CompaniesTypeOK
  <2>3. \A p \in Papers : papers'[p].live => papers'[p].firm \in Live(companies')
    BY <1>1 DEF CompaniesInv, CompaniesTypeOK
  <2>4. late' \subseteq P(DOMAIN contacts') \cup ({"paper"} \X Papers)
    BY DEF CompaniesInv, CompaniesTypeOK
  <2> QED BY <2>1, <2>2, <2>3, <2>4 DEF CompaniesTypeOK
<1>5. \A i \in Live(contacts') \ apart' :
                /\ i \in Live(contacts) \ apart
                /\ contacts[i].firm \in DOMAIN companies
                /\ contacts[i].firm # c => companies'[contacts[i].firm] = companies[contacts[i].firm]
  BY DEF CompaniesInv, Refs, Live
<1>6. Nameless' \subseteq Nameless \cup {c} /\ (row.named => Nameless' \subseteq Nameless)
  BY DEF Nameless, Live
<1>7. Persons' = Persons /\ Keeps
  BY DEF Persons, Keeps
<1> QED BY <1>2, <1>3, <1>4, <1>5, <1>6, <1>7

LEMMA SaveInv == ASSUME CompaniesInv, NEW u \in Owners, Save(u) PROVE CompaniesInv' /\ Keeps
<1> DEFINE c == Len(companies) + 1
           row == Company(Nobody, FALSE)
<1>1. /\ UNCHANGED <<contacts, papers, tx, view, merge, apart, late>>
      /\ import[u] = "new" /\ import' = [import EXCEPT ![u] = "none"]
      /\ companies' = Append(companies, row)
      /\ raced' = (raced \/ \E v \in Owners \ {u} : import[v] = "new")
  BY DEF Save
<1>2. row \in CompanyRow /\ row.live /\ companies \in Seq(CompanyRow)
  BY NewCompanyIn DEF Whos, CompaniesInv, CompaniesTyped
<1> HIDE DEF row
<1>3. /\ companies' \in Seq(CompanyRow) /\ DOMAIN companies' = DOMAIN companies \cup {c}
      /\ companies'[c] = row /\ c \notin DOMAIN companies
      /\ \A d \in DOMAIN companies : d # c => companies'[d] = companies[d]
  BY <1>1, <1>2, Appended
<1> HIDE DEF c
<1>4. CompaniesTyped'
  <2>1. raced' \in BOOLEAN
    BY <1>1 DEF CompaniesInv, CompaniesTyped
  <2> QED BY <1>1, <1>3, <2>1 DEF CompaniesInv, CompaniesTyped
<1>5. /\ Bystanders' /\ Refs' /\ CompaniesTypeOK' /\ Keeps
      /\ \A i \in Live(contacts') \ apart' :
                /\ i \in Live(contacts) \ apart
                /\ contacts[i].firm \in DOMAIN companies
                /\ contacts[i].firm # c => companies'[contacts[i].firm] = companies[contacts[i].firm]
      /\ Nameless' \subseteq Nameless \cup {c} /\ Persons' = Persons
  BY <1>1, <1>2, <1>3, OneCompany
<1>6. ViewRight' /\ MergeRight'
  BY <1>1, <1>3, OthersKept DEF CompaniesInv
<1>7. MovedLate'
  BY <1>1 DEF CompaniesInv, MovedLate, Of, PapersOf, Live
<1>8. Follows'
  BY <1>1, <1>3, <1>5 DEF CompaniesInv, Follows, Follow, Awaited
<1>9. Alone'
  <2> SUFFICES ASSUME ~raced' PROVE Alone'
    BY DEF Alone
  <2>1. ~raced /\ Nameless = {} /\ \A v \in Owners : v # u => import[v] # "new"
    BY <1>1 DEF CompaniesInv, Alone
  <2>2. \A v \in Owners : import'[v] # "new"
    BY <1>1, <2>1 DEF CompaniesInv, CompaniesTyped
  <2>3. \A d, e \in Nameless' : d = e
    BY <1>5, <2>1
  <2> QED BY <1>5, <2>1, <2>2, <2>3 DEF CompaniesInv, Alone
<1> QED BY <1>4, <1>5, <1>6, <1>7, <1>8, <1>9 DEF CompaniesInv, Bystanders

LEMMA StartViewInv == ASSUME CompaniesInv, StartView PROVE CompaniesInv' /\ Keeps
<1>1. PICK who \in Teams, S \in (SUBSET Live(companies)) \ {{}} :
    /\ view = NoView /\ Use
    /\ view' = [step |-> "companies", who |-> who, ids |-> S, todo |-> [c \in S |-> companies[c]]]
    /\ UNCHANGED <<rows, tx, import, merge, history>>
  BY DEF StartView
<1> DEFINE todo == [c \in S |-> companies[c]]
<1>2. S \subseteq DOMAIN companies /\ S \in Numbers /\ \A c \in S : companies[c].live
  BY RowsOf DEF CompaniesInv, Numbers, Live
<1>3. todo \in CompanyCopies /\ DOMAIN todo = S /\ \A c \in S : todo[c].live
  <2>1. /\ DOMAIN todo = S /\ todo = [c \in DOMAIN todo |-> todo[c]]
        /\ \A c \in S : todo[c] = companies[c]
    OBVIOUS
  <2> HIDE DEF todo
  <2> QED BY <1>2, <2>1, CopiesAre, RowsOf DEF CompanyCopies, CompaniesInv, Numbers
<1>4. view' = [step |-> "companies", who |-> who, ids |-> S, todo |-> todo]
  BY <1>1
<1> HIDE DEF todo
<1>5. /\ view' \in OfCompanies /\ view'.ids = S /\ view'.todo = todo /\ view' \notin OfContacts
      /\ view'.step = "companies"
  BY <1>2, <1>3, <1>4 DEF OfCompanies, OfContacts
<1>6. UNCHANGED <<rows, tx, import, merge, apart, raced, late>>
  BY <1>1 DEF history
<1>7. CompaniesTyped'
  BY <1>5, <1>6 DEF CompaniesInv, CompaniesTyped, rows
<1>8. ViewRight'
  BY <1>2, <1>3, <1>5, <1>6 DEF ViewRight, rows
<1>9. Follows'
  BY <1>1, <1>6 DEF CompaniesInv, Follows, Follow, Awaited, rows, Live
<1> QED BY <1>6, <1>7, <1>8, <1>9, RowsSame, FormsSame DEF CompaniesInv, Bystanders

LEMMA Viewing ==
    ASSUME CompaniesInv
    PROVE  /\ view # NoView <=> view \in OfCompanies \cup OfContacts
           /\ view.step = "companies" <=> view \in OfCompanies
           /\ view.step = "contacts" <=> view \in OfContacts
           /\ view \in OfCompanies => /\ view.todo \in Copies(CompanyRow) /\ view.who \in Teams
                                      /\ view.ids \in Numbers
           /\ view \in OfContacts => /\ view.todo \in Copies(ContactRow) /\ view.who \in Teams
                                     /\ view.ids \in Numbers
BY DEF CompaniesInv, CompaniesTyped, OfCompanies, OfContacts, NoView, CompanyCopies, ContactCopies

\* The view comes to the next row.
LEMMA NextToSee ==
    ASSUME NEW v, NEW todo, NEW w, w = [v EXCEPT !.todo = todo]
    PROVE  /\ v \in OfCompanies /\ todo \in CompanyCopies => w \in OfCompanies
           /\ v \in OfContacts /\ todo \in ContactCopies => w \in OfContacts
           /\ v \in OfCompanies \cup OfContacts =>
                w.todo = todo /\ w.ids = v.ids /\ w.step = v.step
BY DEF OfCompanies, OfContacts

LEMMA ViewCompanyInv == ASSUME CompaniesInv, ViewCompany PROVE CompaniesInv' /\ Keeps
<1> DEFINE c == First(view.todo)
           row == [view.todo[c] EXCEPT !.who = view.who]
<1>1. /\ view.step = "companies" /\ view.todo # <<>>
      /\ companies' = [companies EXCEPT ![c] = row]
      /\ view' = [view EXCEPT !.todo = Rest(view.todo)]
      /\ raced' = (raced \/ NamelessBack(c, view.todo[c]))
      /\ UNCHANGED <<contacts, papers, tx, import, merge, apart, late>>
  BY DEF ViewCompany
<1>2. view \in OfCompanies /\ view # NoView /\ view.todo \in Copies(CompanyRow) /\ view.who \in Teams
  BY <1>1, Viewing
<1>3. /\ view.ids \subseteq DOMAIN companies /\ DOMAIN view.todo \subseteq view.ids
      /\ \A i \in DOMAIN view.todo : view.todo[i].live
  BY <1>2 DEF CompaniesInv, ViewRight
<1>4. /\ c \in DOMAIN view.todo /\ Rest(view.todo) \in CompanyCopies
      /\ DOMAIN Rest(view.todo) = DOMAIN view.todo \ {c}
      /\ \A i \in DOMAIN Rest(view.todo) : Rest(view.todo)[i] = view.todo[i]
  BY <1>1, <1>2, FirstOf, RestOf DEF CompanyCopies
<1>5. view.todo[c] \in CompanyRow /\ view.todo[c].live
  BY <1>2, <1>3, <1>4, CopiesAre
<1>6. row \in CompanyRow /\ row.live /\ row.named = view.todo[c].named /\ c \in DOMAIN companies
  BY <1>2, <1>3, <1>4, <1>5 DEF CompanyRow, Whos
<1> HIDE DEF c, row
<1>7. /\ companies' \in Seq(CompanyRow) /\ DOMAIN companies' = DOMAIN companies
      /\ companies'[c] = row /\ \A d \in DOMAIN companies : d # c => companies'[d] = companies[d]
  <2>1. companies \in Seq(CompanyRow)
    BY DEF CompaniesInv, CompaniesTyped
  <2> QED BY <1>1, <1>6, <2>1, Replaced
<1>8. DOMAIN companies' = DOMAIN companies \cup {c}
  BY <1>6, <1>7
<1>9. view' \in OfCompanies
  BY <1>1, <1>2, <1>4, NextToSee
<1>10. view'.todo = Rest(view.todo) /\ view'.ids = view.ids /\ view'.step = view.step
  BY <1>1, <1>2, NextToSee
<1>11. CompaniesTyped'
  <2>1. raced' \in BOOLEAN
    BY <1>1, <1>5 DEF CompaniesInv, CompaniesTyped, NamelessBack, CompanyRow
  <2> QED BY <1>1, <1>7, <1>9, <2>1 DEF CompaniesInv, CompaniesTyped
<1>12. /\ Bystanders' /\ Refs' /\ CompaniesTypeOK' /\ Keeps
       /\ \A i \in Live(contacts') \ apart' :
                /\ i \in Live(contacts) \ apart
                /\ contacts[i].firm \in DOMAIN companies
                /\ contacts[i].firm # c => companies'[contacts[i].firm] = companies[contacts[i].firm]
       /\ Nameless' \subseteq Nameless \cup {c} /\ (row.named => Nameless' \subseteq Nameless)
       /\ Persons' = Persons
  BY <1>1, <1>6, <1>7, <1>8, OneCompany
<1>13. MergeRight' /\ MovedLate'
  <2>1. MergeRight'
    BY <1>1, <1>7, OthersKept DEF CompaniesInv
  <2>2. MovedLate'
    BY <1>1 DEF CompaniesInv, MovedLate, Of, PapersOf, Live
  <2> QED BY <2>1, <2>2
<1>14. ViewRight'
  <2>1. view' \notin OfContacts
    BY <1>9 DEF OfCompanies, OfContacts
  <2> QED BY <1>3, <1>4, <1>7, <1>10, <2>1 DEF ViewRight
<1>15. view' # NoView
  BY <1>1, <1>10 DEF NoView
<1>16. Follows'
  <2> SUFFICES ASSUME NEW i \in Live(contacts') \ apart' PROVE Follow(i)' \/ Awaited(i)'
    BY DEF Follows
  <2>1. CASE contacts[i].firm = c
    BY <1>1, <1>3, <1>4, <1>10, <1>15, <2>1 DEF Awaited
  <2>2. CASE contacts[i].firm # c
    <3>1. Follow(i) \/ Awaited(i)
      BY <1>12 DEF CompaniesInv, Follows
    <3>2. Follow(i) => Follow(i)'
      BY <1>1, <1>12, <2>2 DEF Follow
    <3>3. Awaited(i) => Awaited(i)'
      BY <1>1, <1>10, <1>15 DEF Awaited
    <3> QED BY <3>1, <3>2, <3>3
  <2> QED BY <2>1, <2>2
<1>17. Alone'
  <2> SUFFICES ASSUME ~raced' PROVE Alone'
    BY DEF Alone
  <2>1. ~raced /\ (row.named \/ c \in Nameless)
    BY <1>1, <1>6 DEF NamelessBack
  <2>2. Nameless' \subseteq Nameless
    BY <1>12, <2>1
  <2> QED BY <1>1, <1>12, <2>1, <2>2 DEF CompaniesInv, Alone
<1> QED BY <1>11, <1>12, <1>13, <1>14, <1>16, <1>17 DEF CompaniesInv, Bystanders

LEMMA LoadContactsInv == ASSUME CompaniesInv, LoadContacts PROVE CompaniesInv' /\ Keeps
<1> DEFINE todo == [i \in PersonsOf(view.ids) |-> contacts[i]]
<1>1. /\ view.step = "companies"
      /\ view' = [view EXCEPT !.step = "contacts", !.todo = todo]
      /\ UNCHANGED <<rows, tx, import, merge, apart, raced, late>>
  BY DEF LoadContacts, history
<1>2. view \in OfCompanies /\ view # NoView
  BY <1>1, Viewing
<1>3. PersonsOf(view.ids) \subseteq DOMAIN contacts /\ \A i \in PersonsOf(view.ids) : contacts[i].live
  BY DEF PersonsOf, Live
<1>4. todo \in ContactCopies /\ DOMAIN todo = PersonsOf(view.ids)
      /\ \A i \in DOMAIN todo : todo[i].live
  <2>1. /\ DOMAIN todo = PersonsOf(view.ids) /\ todo = [i \in DOMAIN todo |-> todo[i]]
        /\ \A i \in DOMAIN todo : todo[i] = contacts[i]
    OBVIOUS
  <2> HIDE DEF todo
  <2> QED BY <1>3, <2>1, CopiesAre, RowsOf DEF ContactCopies, CompaniesInv
<1> HIDE DEF todo
<1>5. view' \in OfContacts /\ view'.ids = view.ids /\ view'.todo = todo /\ view'.step = "contacts"
  BY <1>1, <1>2, <1>4 DEF OfCompanies, OfContacts
<1>6. view' \notin OfCompanies /\ view' # NoView
  BY <1>5 DEF OfCompanies, NoView
<1>7. CompaniesTyped'
  BY <1>1, <1>5 DEF CompaniesInv, CompaniesTyped, rows
<1>8. ViewRight'
  BY <1>1, <1>3, <1>4, <1>5, <1>6 DEF ViewRight, rows
<1>9. Follows'
  <2> SUFFICES ASSUME NEW i \in Live(contacts') \ apart' PROVE Follow(i)' \/ Awaited(i)'
    BY DEF Follows
  <2>1. i \in Live(contacts) \ apart /\ contacts' = contacts /\ companies' = companies
    BY <1>1 DEF rows
  <2>2. CASE Follow(i)
    BY <2>1, <2>2 DEF Follow
  <2>3. CASE Awaited(i)
    <3>1. i \in DOMAIN todo
      BY <1>4, <2>1, <2>3 DEF Awaited, PersonsOf
    <3> QED BY <1>5, <1>6, <2>1, <2>3, <3>1 DEF Awaited
  <2> QED BY <2>1, <2>2, <2>3 DEF CompaniesInv, Follows
<1> QED BY <1>1, <1>7, <1>8, <1>9, RowsSame, FormsSame DEF CompaniesInv, Bystanders

LEMMA ViewContactInv == ASSUME CompaniesInv, ViewContact PROVE CompaniesInv' /\ Keeps
<1> DEFINE i == First(view.todo)
           row == [view.todo[i] EXCEPT !.who = view.who]
<1>1. /\ view.step = "contacts" /\ view.todo # <<>> /\ Unlocked(P({i})) /\ row.firm \in Live(companies)
      /\ contacts' = [contacts EXCEPT ![i] = row]
      /\ view' = [view EXCEPT !.todo = Rest(view.todo)]
      /\ apart' = (IF contacts[i] # view.todo[i] \/ companies[row.firm].who # view.who
                THEN apart \cup {i} ELSE apart)
      /\ late' = late \cup Late(row.firm, "contact", P({i}))
      /\ raced' = (raced \/ PersonBack(i, row))
      /\ UNCHANGED <<companies, papers, tx, import, merge>>
  BY DEF ViewContact
<1>2. view \in OfContacts /\ view # NoView /\ view.todo \in Copies(ContactRow) /\ view.who \in Teams
  BY <1>1, Viewing
<1>3. DOMAIN view.todo \subseteq DOMAIN contacts /\ \A j \in DOMAIN view.todo : view.todo[j].live
  BY <1>2 DEF CompaniesInv, ViewRight
<1>4. /\ i \in DOMAIN view.todo /\ Rest(view.todo) \in ContactCopies
      /\ DOMAIN Rest(view.todo) = DOMAIN view.todo \ {i}
      /\ \A j \in DOMAIN Rest(view.todo) : Rest(view.todo)[j] = view.todo[j]
  BY <1>1, <1>2, FirstOf, RestOf DEF ContactCopies
<1>5. view.todo[i] \in ContactRow /\ view.todo[i].live
  BY <1>2, <1>3, <1>4, CopiesAre
<1>6. row \in ContactRow /\ row.live /\ row.who = view.who /\ row.firm = view.todo[i].firm
      /\ i \in DOMAIN contacts
  BY <1>2, <1>3, <1>4, <1>5 DEF ContactRow, Whos
<1> HIDE DEF i, row
<1>7. /\ contacts' \in Seq(ContactRow) /\ DOMAIN contacts' = DOMAIN contacts
      /\ contacts'[i] = row /\ \A j \in DOMAIN contacts : j # i => contacts'[j] = contacts[j]
  <2>1. contacts \in Seq(ContactRow)
    BY DEF CompaniesInv, CompaniesTyped
  <2> QED BY <1>1, <1>6, <2>1, Replaced
<1>8. DOMAIN contacts' = DOMAIN contacts \cup {i}
  BY <1>6, <1>7
<1>9. view' \in OfContacts
  BY <1>1, <1>2, <1>4, NextToSee
<1>10. view'.todo = Rest(view.todo) /\ view'.ids = view.ids /\ view'.step = view.step
  BY <1>1, <1>2, NextToSee
<1>11. view' # NoView /\ view' \notin OfCompanies
  BY <1>9 DEF NoView, OfContacts, OfCompanies
<1>12. CompaniesTyped'
  <2>1. raced' \in BOOLEAN
    BY <1>1, <1>6 DEF CompaniesInv, CompaniesTyped, PersonBack, ContactRow
  <2> QED BY <1>1, <1>7, <1>9, <2>1 DEF CompaniesInv, CompaniesTyped
<1>13. apart \subseteq apart' /\ (i \notin apart' => companies[row.firm].who = row.who)
  BY <1>1, <1>6
<1>14. /\ Refs' /\ CompaniesTypeOK' /\ MovedLate' /\ Keeps
       /\ \A j \in Live(contacts') \ apart' :
                Follow(j)' \/ /\ j # i /\ j \in Live(contacts) \ apart
                              /\ contacts'[j] = contacts[j] /\ Awaited(j)
       /\ Persons' \subseteq Persons \cup {i} /\ (~row.person => Persons' \subseteq Persons)
       /\ Nameless' = Nameless
  BY <1>1, <1>6, <1>7, <1>8, <1>13, OneContact
<1>15. Bystanders'
  <2>1. ASSUME NEW v \in Owners, NEW j \in DOMAIN contacts, <<"contact", j>> \in tx[v].locks
        PROVE  contacts'[j].firm = contacts[j].firm
    <3>1. <<"contact", j>> \notin P({i})
      BY <1>1, <2>1 DEF Unlocked
    <3>2. j # i
      BY <3>1, KeyIn
    <3> QED BY <1>7, <3>2
  <2> QED BY <1>1, <1>8, <2>1, HandsKept
<1>16. MergeRight'
  BY <1>1, <1>7, OthersKept DEF CompaniesInv
<1>17. ViewRight'
  BY <1>3, <1>4, <1>7, <1>10, <1>11 DEF ViewRight
<1>18. Follows'
  <2> SUFFICES ASSUME NEW j \in Live(contacts') \ apart', ~Follow(j)' PROVE Awaited(j)'
    BY DEF Follows
  <2>1. j # i /\ contacts'[j] = contacts[j] /\ Awaited(j)
    BY <1>14
  <2> QED BY <1>1, <1>4, <1>10, <1>11, <2>1 DEF Awaited
<1>19. Alone'
  <2> SUFFICES ASSUME ~raced' PROVE Alone'
    BY DEF Alone
  <2>1. ~raced /\ (row.person => i \in Persons)
    BY <1>1 DEF PersonBack
  <2>2. Persons' \subseteq Persons
    BY <1>14, <2>1
  <2> QED BY <1>1, <1>14, <2>1, <2>2 DEF CompaniesInv, Alone
<1> QED BY <1>12, <1>14, <1>15, <1>16, <1>17, <1>18, <1>19 DEF CompaniesInv, Bystanders

LEMMA EndViewInv == ASSUME CompaniesInv, EndView PROVE CompaniesInv' /\ Keeps
<1>1. /\ view.step = "contacts" /\ view' = NoView
      /\ apart' = (IF view.todo = <<>> THEN apart ELSE apart \cup DOMAIN view.todo)
      /\ UNCHANGED <<rows, tx, import, merge, raced, late>>
  BY DEF EndView
<1>2. NoView \notin OfCompanies /\ NoView \notin OfContacts
  BY DEF NoView, OfCompanies, OfContacts
<1>3. CompaniesTyped' /\ ViewRight'
  BY <1>1, <1>2 DEF CompaniesInv, CompaniesTyped, ViewRight, rows
<1>4. Follows'
  <2> SUFFICES ASSUME NEW i \in Live(contacts') \ apart' PROVE Follow(i)'
    BY DEF Follows
  <2>1. i \in Live(contacts) \ apart /\ contacts' = contacts /\ companies' = companies
    BY <1>1 DEF rows
  <2>2. ~Awaited(i)
    BY <1>1 DEF Awaited
  <2> QED BY <2>1, <2>2 DEF CompaniesInv, Follows, Follow
<1> QED BY <1>1, <1>3, <1>4, RowsSame, FormsSame DEF CompaniesInv, Bystanders
-----------------------------------------------------------------------------
(* The removal of a duplicate.                                             *)

\* The merge in progress, and its next kind of rows.
LEMMA Merges ==
    ASSUME CompaniesInv, merge.step # "none"
    PROVE  /\ merge \in Merging /\ merge # NoMerge /\ MovedLate
           /\ {merge.dup, merge.orig} \subseteq DOMAIN companies /\ merge.dup # merge.orig
           /\ merge.row \in CompanyRow /\ merge.from \in CompanyRow /\ merge.row.live
           /\ merge.moved \in Parts /\ (merge.step # "move" => merge.moved = All)
           /\ merge.orig \in Nat
<1>1. merge # NoMerge
  BY DEF NoMerge
<1> QED BY <1>1 DEF CompaniesInv, CompaniesTyped, MergeRight, Merging

LEMMA NextKindIs ==
    ASSUME merge.moved \in Parts
    PROVE  /\ merge.moved = {} => NextKind = "deal"
           /\ merge.moved = {"deal"} => NextKind = "contact"
           /\ merge.moved = {"deal", "contact"} => NextKind = "request"
           /\ merge.moved = All => NextKind = "none"
<1>1. Cardinality({}) = 0 /\ IsFiniteSet({})
  BY FS_EmptySet
<1>2. Cardinality({"deal"}) = 1 /\ IsFiniteSet({"deal"})
  BY FS_Singleton
<1>3. Cardinality({"deal", "contact"}) = 2 /\ IsFiniteSet({"deal", "contact"})
  <2>1. {"deal", "contact"} = {"deal"} \cup {"contact"} /\ "contact" \notin {"deal"}
    OBVIOUS
  <2> QED BY <1>2, <2>1, FS_AddElement
<1>4. Cardinality(All) = 3
  <2>1. All = {"deal", "contact"} \cup {"request"} /\ "request" \notin {"deal", "contact"}
    BY DEF All
  <2> QED BY <1>3, <2>1, FS_AddElement
<1>5. Len(Order) = 3 /\ Order[1] = "deal" /\ Order[2] = "contact" /\ Order[3] = "request"
  BY DEF Order
<1>6. ASSUME merge.moved = {} PROVE NextKind = "deal"
  BY <1>1, <1>5, <1>6 DEF NextKind
<1>7. ASSUME merge.moved = {"deal"} PROVE NextKind = "contact"
  BY <1>2, <1>5, <1>7 DEF NextKind
<1>8. ASSUME merge.moved = {"deal", "contact"} PROVE NextKind = "request"
  BY <1>3, <1>5, <1>8 DEF NextKind
<1>9. ASSUME merge.moved = All PROVE NextKind = "none"
  BY <1>4, <1>5, <1>9 DEF NextKind
<1> QED BY <1>6, <1>7, <1>8, <1>9

LEMMA StartMergeInv == ASSUME CompaniesInv, StartMerge PROVE CompaniesInv' /\ Keeps
<1>1. PICK d \in Live(companies), o \in Live(companies) :
    /\ merge = NoMerge /\ d # o /\ Use
    /\ merge' = [step |-> "move", dup |-> d, orig |-> o, row |-> companies[o],
                  from |-> companies[d], moved |-> {}, gone |-> {}]
    /\ UNCHANGED <<rows, tx, import, view, history>>
  BY DEF StartMerge
<1>2. /\ {d, o} \subseteq DOMAIN companies /\ {d, o} \subseteq Nat /\ companies[o].live
      /\ companies[o] \in CompanyRow /\ companies[d] \in CompanyRow
  BY RowsOf DEF CompaniesInv, Live
<1>3. {} \in Parts /\ {} \in KeySets
  BY DEF Parts, KeySets
<1>4. /\ merge' \in Merging /\ merge'.dup = d /\ merge'.orig = o /\ merge'.row.live
      /\ merge'.step = "move" /\ merge'.moved = {} /\ merge' # NoMerge
  <2>1. merge' \in Merging
    BY <1>1, <1>2, <1>3 DEF Merging, MergeSteps
  <2> QED BY <1>1, <1>2, <2>1 DEF NoMerge
<1>5. UNCHANGED <<rows, tx, import, view, apart, raced, late>>
  BY <1>1 DEF history
<1>6. CompaniesTyped'
  BY <1>4, <1>5 DEF CompaniesInv, CompaniesTyped, rows
<1>7. MergeRight' /\ MovedLate'
  BY <1>1, <1>2, <1>4, <1>5 DEF MergeRight, MovedLate, rows
<1> QED BY <1>5, <1>6, <1>7, RowsSame, FormsSame DEF CompaniesInv, Bystanders

LEMMA MoveInv == ASSUME CompaniesInv, Move PROVE CompaniesInv' /\ Keeps
<1> DEFINE k == NextKind
           cmoved(i) == [contacts[i] EXCEPT !.firm = merge.orig]
           pmoved(p) == [papers[p] EXCEPT !.firm = merge.orig]
<1>1. /\ merge.step = "move" /\ k # "none" /\ CanMove /\ Unlocked(Moves)
      /\ contacts' = [i \in DOMAIN contacts |-> IF <<"contact", i>> \in Moves THEN cmoved(i) ELSE contacts[i]]
      /\ papers' = [p \in Papers |-> IF <<"paper", p>> \in Moves THEN pmoved(p) ELSE papers[p]]
      /\ apart' = apart \cup {i \in DOMAIN contacts : <<"contact", i>> \in Moves}
      /\ merge' = [merge EXCEPT !.moved = merge.moved \cup {k}]
      /\ UNCHANGED <<companies, tx, import, view, raced, late>>
  BY DEF Move
<1>2. /\ merge \in Merging /\ merge # NoMerge /\ MovedLate
      /\ {merge.dup, merge.orig} \subseteq DOMAIN companies /\ merge.dup # merge.orig
      /\ merge.row.live /\ merge.moved \in Parts /\ merge.orig \in Nat
  BY <1>1, Merges
<1>3. /\ merge.moved \cup {k} \in Parts
      /\ k \in {"deal", "contact", "request"} /\ k \notin merge.moved
  <2>1. /\ merge.moved = {} => k = "deal"
        /\ merge.moved = {"deal"} => k = "contact"
        /\ merge.moved = {"deal", "contact"} => k = "request"
        /\ merge.moved = All => k = "none"
    BY <1>2, NextKindIs
  <2> HIDE DEF k
  <2> QED BY <1>1, <1>2, <2>1 DEF Parts, All
<1>4. /\ \A i : <<"contact", i>> \in Moves <=> k = "contact" /\ i \in Of(merge.dup)
      /\ \A p : <<"paper", p>> \in Moves <=> k # "contact" /\ p = k /\ p \in PapersOf(merge.dup)
  <2>1. ASSUME k = "contact" PROVE Moves = P(Of(merge.dup))
    BY <2>1 DEF Moves
  <2>2. ASSUME k # "contact" PROVE Moves = {<<"paper", p>> : p \in PapersOf(merge.dup) \cap {k}}
    BY <2>2 DEF Moves
  <2> HIDE DEF k
  <2>3. CASE k = "contact"
    BY <2>1, <2>3, KeyIn
  <2>4. CASE k # "contact"
    BY <2>2, <2>4
  <2> QED BY <2>3, <2>4
<1>5. \A i \in DOMAIN contacts : contacts[i] \in ContactRow
  BY RowsOf DEF CompaniesInv
<1>6. \A p \in Papers : papers[p] \in PaperRow
  BY RowsOf DEF CompaniesInv
<1>7. \A i \in DOMAIN contacts :
        /\ cmoved(i) \in ContactRow /\ cmoved(i).firm = merge.orig
        /\ cmoved(i).live = contacts[i].live /\ cmoved(i).person = contacts[i].person
  BY <1>2, <1>5 DEF ContactRow
<1>8. \A p \in Papers : pmoved(p) \in PaperRow /\ pmoved(p).firm = merge.orig /\ pmoved(p).live = papers[p].live
  BY <1>2, <1>6 DEF PaperRow
<1> HIDE DEF cmoved, pmoved
<1>9. /\ contacts' \in Seq(ContactRow) /\ DOMAIN contacts' = DOMAIN contacts
      /\ \A i \in DOMAIN contacts :
           contacts'[i] = IF <<"contact", i>> \in Moves THEN cmoved(i) ELSE contacts[i]
  <2>1. contacts \in Seq(ContactRow)
    BY DEF CompaniesInv, CompaniesTyped
  <2>2. \A i \in DOMAIN contacts :
           contacts'[i] = IF <<"contact", i>> \in Moves THEN cmoved(i) ELSE contacts[i]
    BY <1>1
  <2>3. contacts' = [i \in DOMAIN contacts |-> contacts'[i]]
    BY <1>1
  <2>4. \A i \in DOMAIN contacts : contacts'[i] \in ContactRow
    BY <1>5, <1>7, <2>2
  <2>5. contacts' \in Seq(ContactRow) /\ DOMAIN contacts' = DOMAIN contacts
    BY <2>1, <2>3, <2>4, Rewritten
  <2> QED BY <2>2, <2>5
<1>10. \A i \in DOMAIN contacts :
         /\ k = "contact" /\ i \in Of(merge.dup) =>
              contacts'[i].firm = merge.orig /\ i \in apart' /\ merge.orig \in Live(companies)
         /\ ~(k = "contact" /\ i \in Of(merge.dup)) => contacts'[i] = contacts[i]
         /\ contacts'[i].live = contacts[i].live /\ contacts'[i].person = contacts[i].person
  BY <1>1, <1>4, <1>7, <1>9 DEF CanMove
<1>11. /\ papers' \in [Papers -> PaperRow]
       /\ \A p \in Papers :
            /\ p = k /\ p \in PapersOf(merge.dup) =>
                 papers'[p].firm = merge.orig /\ merge.orig \in Live(companies)
            /\ ~(p = k /\ p \in PapersOf(merge.dup)) => papers'[p] = papers[p]
            /\ papers'[p].live = papers[p].live
  <2>1. \A p \in Papers : papers'[p] = IF <<"paper", p>> \in Moves THEN pmoved(p) ELSE papers[p]
    BY <1>1
  <2>2. \A p \in Papers : p # "contact"
    BY DEF Papers
  <2>3. papers' \in [Papers -> PaperRow]
    BY <1>1, <1>6, <1>8
  <2> QED BY <1>1, <1>4, <1>8, <2>1, <2>2, <2>3 DEF CanMove
<1>12. merge' \in Merging /\ merge'.moved = merge.moved \cup {k} /\ merge'.dup = merge.dup
       /\ merge'.orig = merge.orig /\ merge'.row = merge.row /\ merge'.step = "move" /\ merge' # NoMerge
  <2>1. merge' \in Merging /\ merge'.moved = merge.moved \cup {k} /\ merge'.dup = merge.dup
       /\ merge'.orig = merge.orig /\ merge'.row = merge.row /\ merge'.step = "move"
    <3> HIDE DEF k
    <3> QED BY <1>1, <1>2, <1>3 DEF Merging
  <2>2. NoMerge.step # "move"
    BY DEF NoMerge
  <2> QED BY <2>1, <2>2
<1>13. \A j \in DOMAIN contacts, v \in Owners : <<"contact", j>> \in tx[v].locks => <<"contact", j>> \notin Moves
  BY <1>1 DEF Unlocked
<1> HIDE DEF k
<1>14. CompaniesTyped'
  BY <1>1, <1>9, <1>11, <1>12 DEF CompaniesInv, CompaniesTyped
<1>15. Bystanders'
  <2>1. ASSUME NEW v \in Owners, NEW j \in DOMAIN contacts, <<"contact", j>> \in tx[v].locks
        PROVE  contacts'[j].firm = contacts[j].firm
    BY <1>4, <1>10, <1>13, <2>1
  <2> QED BY <1>1, <1>9, <2>1, HandsKept
<1>16. ViewRight'
  BY <1>1, <1>9, OthersKept DEF CompaniesInv
<1>17. MergeRight'
  BY <1>1, <1>2, <1>12 DEF MergeRight
<1>18. Refs'
  BY <1>1, <1>2, <1>9, <1>10, <1>11 DEF CompaniesInv, Refs
<1>19. CompaniesTypeOK'
  <2>1. \A i \in Live(contacts') : contacts'[i].firm \in Live(companies')
    <3>1. \A i \in Live(contacts) : contacts[i].firm \in Live(companies)
      BY DEF CompaniesInv, CompaniesTypeOK
    <3>2. Live(companies') = Live(companies)
      BY <1>1
    <3> QED BY <1>9, <1>10, <3>1, <3>2 DEF Live
  <2>2. \A p \in Papers : papers'[p].live => papers'[p].firm \in Live(companies')
    BY <1>1, <1>11 DEF CompaniesInv, CompaniesTypeOK
  <2> QED BY <1>1, <1>9, <2>1, <2>2 DEF CompaniesInv, CompaniesTypeOK
<1>20. MovedLate'
  <2>1. ASSUME "contact" \in merge'.moved, NEW i \in Of(merge.dup)' PROVE <<"contact", i>> \in late'
    <3>1. i \in DOMAIN contacts /\ contacts[i].live /\ contacts'[i].firm = merge.dup
      BY <1>9, <1>10, <1>12, <2>1 DEF Of, Live
    <3>2. contacts'[i] = contacts[i] /\ i \in Of(merge.dup)
      BY <1>2, <1>10, <3>1 DEF Of, Live
    <3>3. k # "contact"
      BY <1>2, <1>10, <3>1, <3>2
    <3>4. "contact" \in merge.moved
      BY <1>12, <2>1, <3>3
    <3> QED BY <1>1, <1>2, <3>2, <3>4 DEF MovedLate
  <2>2. ASSUME NEW p \in PapersOf(merge.dup)' \cap merge'.moved PROVE <<"paper", p>> \in late'
    <3>1. p \in Papers /\ papers[p].live /\ papers'[p].firm = merge.dup
      BY <1>11, <1>12, <2>2 DEF PapersOf
    <3>2. papers'[p] = papers[p] /\ p \in PapersOf(merge.dup)
      BY <1>2, <1>11, <3>1 DEF PapersOf
    <3>3. p # k
      BY <1>2, <1>11, <3>1, <3>2
    <3>4. p \in merge.moved
      BY <1>12, <2>2, <3>3
    <3> QED BY <1>1, <1>2, <3>2, <3>4 DEF MovedLate
  <2> QED BY <1>12, <2>1, <2>2 DEF MovedLate
<1>21. Follows'
  <2> SUFFICES ASSUME NEW i \in Live(contacts') \ apart' PROVE Follow(i)' \/ Awaited(i)'
    BY DEF Follows
  <2>1. i \in Live(contacts) \ apart /\ contacts'[i] = contacts[i]
    BY <1>1, <1>9, <1>10 DEF Live
  <2> QED BY <1>1, <2>1 DEF CompaniesInv, Follows, Follow, Awaited
<1>22. Alone'
  <2>1. Persons' = Persons
    BY <1>9, <1>10 DEF Persons, Live
  <2>2. Nameless' = Nameless
    BY <1>1 DEF Nameless, Live
  <2> QED BY <1>1, <2>1, <2>2 DEF CompaniesInv, Alone
<1>23. Keeps
  BY <1>9, <1>10, <1>11 DEF Keeps
<1> QED BY <1>14, <1>15, <1>16, <1>17, <1>18, <1>19, <1>20, <1>21, <1>22, <1>23 DEF CompaniesInv, Bystanders

LEMMA FillInv == ASSUME CompaniesInv, Fill PROVE CompaniesInv' /\ Keeps
<1> DEFINE c == merge.orig
           row == Filled
<1>1. /\ merge.step = "move" /\ NextKind = "none"
      /\ companies' = [companies EXCEPT ![c] = row]
      /\ raced' = (raced \/ NamelessBack(c, row))
      /\ apart' = (IF companies[c].who # merge.row.who THEN apart \cup Of(c) ELSE apart)
      /\ merge' = [merge EXCEPT !.step = "filled"]
      /\ UNCHANGED <<contacts, papers, tx, import, view, late>>
  BY DEF Fill
<1>2. /\ merge \in Merging /\ merge # NoMerge /\ MovedLate
      /\ {merge.dup, c} \subseteq DOMAIN companies /\ merge.dup # c
      /\ merge.row \in CompanyRow /\ merge.from \in CompanyRow /\ merge.row.live
      /\ merge.moved \in Parts
  BY <1>1, Merges
<1>3. row \in CompanyRow /\ row.live /\ row.who = merge.row.who
  BY <1>2 DEF Filled, CompanyRow
<1>4. merge.moved = All
  BY <1>1, <1>2, NextKindIs DEF Parts
<1>5. /\ merge' \in Merging /\ merge' # NoMerge /\ merge'.step = "filled" /\ merge'.moved = All
      /\ merge'.dup = merge.dup /\ merge'.orig = merge.orig /\ merge'.row = merge.row
  <2>1. /\ merge' \in Merging /\ merge'.step = "filled" /\ merge'.moved = All
        /\ merge'.dup = merge.dup /\ merge'.orig = merge.orig /\ merge'.row = merge.row
    BY <1>1, <1>2, <1>4 DEF Merging, MergeSteps
  <2> QED BY <2>1 DEF NoMerge
<1> HIDE DEF c, row
<1>6. /\ companies' \in Seq(CompanyRow) /\ DOMAIN companies' = DOMAIN companies
      /\ companies'[c] = row /\ \A d \in DOMAIN companies : d # c => companies'[d] = companies[d]
  <2>1. companies \in Seq(CompanyRow) /\ c \in DOMAIN companies
    BY <1>2 DEF CompaniesInv, CompaniesTyped
  <2> QED BY <1>1, <1>3, <2>1, Replaced
<1>7. DOMAIN companies' = DOMAIN companies \cup {c}
  BY <1>2, <1>6
<1>8. CompaniesTyped'
  <2>1. raced' \in BOOLEAN
    BY <1>1, <1>3 DEF CompaniesInv, CompaniesTyped, NamelessBack, CompanyRow
  <2> QED BY <1>1, <1>5, <1>6, <2>1 DEF CompaniesInv, CompaniesTyped
<1>9. apart \subseteq apart'
  BY <1>1
<1>10. /\ Bystanders' /\ Refs' /\ CompaniesTypeOK' /\ Keeps
       /\ \A i \in Live(contacts') \ apart' :
                /\ i \in Live(contacts) \ apart
                /\ contacts[i].firm \in DOMAIN companies
                /\ contacts[i].firm # c => companies'[contacts[i].firm] = companies[contacts[i].firm]
       /\ Nameless' \subseteq Nameless \cup {c} /\ (row.named => Nameless' \subseteq Nameless)
       /\ Persons' = Persons
  BY <1>1, <1>3, <1>6, <1>7, <1>9, OneCompany
<1>11. ViewRight'
  BY <1>1, <1>6, OthersKept DEF CompaniesInv
<1>12. MergeRight'
  BY <1>2, <1>5, <1>6 DEF MergeRight, c
<1>13. MovedLate'
  BY <1>1, <1>2, <1>4, <1>5 DEF MovedLate, Of, PapersOf, Live
<1>14. Follows'
  <2> SUFFICES ASSUME NEW i \in Live(contacts') \ apart' PROVE Follow(i)' \/ Awaited(i)'
    BY DEF Follows
  <2>1. i \in Live(contacts) \ apart /\ contacts' = contacts
    BY <1>1, <1>10
  <2>2. companies'[contacts[i].firm].who = companies[contacts[i].firm].who
    <3>1. CASE contacts[i].firm # c
      BY <1>10, <3>1
    <3>2. CASE contacts[i].firm = c
      <4>1. i \in Of(c)
        BY <2>1, <3>2 DEF Of
      <4>2. companies[c].who = merge.row.who
        BY <1>1, <4>1
      <4> QED BY <1>3, <1>6, <3>2, <4>2
    <3> QED BY <3>1, <3>2
  <2> QED BY <1>1, <2>1, <2>2 DEF CompaniesInv, Follows, Follow, Awaited
<1>15. Alone'
  <2> SUFFICES ASSUME ~raced' PROVE Alone'
    BY DEF Alone
  <2>1. ~raced /\ (row.named \/ c \in Nameless)
    BY <1>1 DEF NamelessBack
  <2>2. Nameless' \subseteq Nameless
    BY <1>10, <2>1
  <2> QED BY <1>1, <1>10, <2>1, <2>2 DEF CompaniesInv, Alone
<1> QED BY <1>8, <1>10, <1>11, <1>12, <1>13, <1>14, <1>15 DEF CompaniesInv, Bystanders

LEMMA ReferringIs ==
    /\ \A i : <<"contact", i>> \in Referring <=> i \in Of(merge.dup)
    /\ \A p : <<"paper", p>> \in Referring <=> p \in PapersOf(merge.dup)
<1>1. \A i : <<"contact", i>> \notin {<<"paper", p>> : p \in PapersOf(merge.dup)}
  OBVIOUS
<1> QED BY <1>1, KeyIn DEF Referring

LEMMA CollectInv == ASSUME CompaniesInv, Collect PROVE CompaniesInv' /\ Keeps
<1>1. /\ merge.step = "filled" /\ merge' = [merge EXCEPT !.step = "collected", !.gone = Referring]
      /\ UNCHANGED <<rows, tx, import, view, apart, raced, late>>
  BY DEF Collect, history
<1>2. /\ merge \in Merging /\ merge # NoMerge /\ MovedLate /\ merge.moved = All
  BY <1>1, Merges
<1>3. Referring \in KeySets
  <2>1. Of(merge.dup) \subseteq Nat
    BY RowsOf DEF CompaniesInv, Of, Live
  <2>2. PapersOf(merge.dup) \subseteq Papers
    BY DEF PapersOf
  <2> QED BY <2>1, <2>2 DEF Referring, KeySets, Keys, P
<1>4. Referring \subseteq late
  <2>1. \A i \in Of(merge.dup) : <<"contact", i>> \in late
    BY <1>2 DEF MovedLate, All
  <2>2. \A p \in PapersOf(merge.dup) : <<"paper", p>> \in late
    BY <1>2 DEF MovedLate, All, PapersOf, Papers
  <2> QED BY <2>1, <2>2 DEF Referring, P
<1>5. /\ merge' \in Merging /\ merge' # NoMerge /\ merge'.step = "collected" /\ merge'.moved = All
      /\ merge'.dup = merge.dup /\ merge'.orig = merge.orig /\ merge'.row = merge.row
      /\ merge'.gone = Referring
  <2>1. /\ merge' \in Merging /\ merge'.step = "collected" /\ merge'.moved = All
        /\ merge'.dup = merge.dup /\ merge'.orig = merge.orig /\ merge'.row = merge.row
        /\ merge'.gone = Referring
    BY <1>1, <1>2, <1>3 DEF Merging, MergeSteps
  <2> QED BY <2>1 DEF NoMerge
<1>6. CompaniesTyped'
  BY <1>1, <1>5 DEF CompaniesInv, CompaniesTyped, rows
<1>7. MergeRight'
  BY <1>1, <1>2, <1>5 DEF CompaniesInv, MergeRight, rows
<1>8. MovedLate'
  BY <1>1, <1>2, <1>4, <1>5 DEF MovedLate, Of, PapersOf, Live, rows
<1> QED BY <1>1, <1>6, <1>7, <1>8, RowsSame, FormsSame DEF CompaniesInv, Bystanders

LEMMA FailMergeInv == ASSUME CompaniesInv, FailMerge PROVE CompaniesInv' /\ Keeps
<1>1. merge' = NoMerge /\ UNCHANGED <<rows, tx, import, view, apart, raced, late>>
  BY DEF FailMerge, history
<1>2. CompaniesTyped' /\ MergeRight' /\ MovedLate'
  BY <1>1 DEF CompaniesInv, CompaniesTyped, rows, MergeRight, MovedLate
<1> QED BY <1>1, <1>2, RowsSame, FormsSame DEF CompaniesInv, Bystanders

LEMMA DeleteDuplicateInv == ASSUME CompaniesInv, DeleteDuplicate PROVE CompaniesInv' /\ Keeps
<1> DEFINE d == merge.dup
           cgone(i) == [contacts[i] EXCEPT !.live = FALSE]
           pgone(p) == [papers[p] EXCEPT !.live = FALSE]
           row == [companies[d] EXCEPT !.live = FALSE]
<1>1. /\ merge.step = "collected" /\ Referring \subseteq merge.gone
      /\ \A v \in Owners : ~Pending(v)
      /\ companies' = [companies EXCEPT ![d].live = FALSE]
      /\ contacts' = [i \in DOMAIN contacts |-> IF <<"contact", i>> \in merge.gone THEN cgone(i) ELSE contacts[i]]
      /\ papers' = [p \in Papers |-> IF <<"paper", p>> \in merge.gone THEN pgone(p) ELSE papers[p]]
      /\ merge' = NoMerge
      /\ UNCHANGED <<tx, import, view, apart, raced, late>>
  BY DEF DeleteDuplicate, history
<1>2. merge \in Merging /\ merge # NoMerge /\ MovedLate /\ d \in DOMAIN companies
  BY <1>1, Merges
<1>3. merge.gone \subseteq late
  BY <1>1, <1>2 DEF MovedLate
<1>4. companies[d] \in CompanyRow
  BY <1>2, RowsOf DEF CompaniesInv
<1>5. row \in CompanyRow /\ ~row.live /\ row.who = companies[d].who /\ row.named = companies[d].named
  BY <1>4 DEF CompanyRow
<1>6. companies' = [companies EXCEPT ![d] = row]
  BY <1>1
<1>7. \A i \in DOMAIN contacts : contacts[i] \in ContactRow
  BY RowsOf DEF CompaniesInv
<1>8. \A p \in Papers : papers[p] \in PaperRow
  BY RowsOf DEF CompaniesInv
<1>9. \A i \in DOMAIN contacts :
        /\ cgone(i) \in ContactRow /\ cgone(i).firm = contacts[i].firm /\ ~cgone(i).live
  BY <1>7 DEF ContactRow
<1>10. \A p \in Papers : pgone(p) \in PaperRow /\ pgone(p).firm = papers[p].firm /\ ~pgone(p).live
  BY <1>8 DEF PaperRow
<1> HIDE DEF cgone, pgone, row, d
<1>11. /\ companies' \in Seq(CompanyRow) /\ DOMAIN companies' = DOMAIN companies
       /\ companies'[d] = row /\ \A e \in DOMAIN companies : e # d => companies'[e] = companies[e]
  <2>1. companies \in Seq(CompanyRow)
    BY DEF CompaniesInv, CompaniesTyped
  <2> QED BY <1>2, <1>5, <1>6, <2>1, Replaced
<1>12. /\ contacts' \in Seq(ContactRow) /\ DOMAIN contacts' = DOMAIN contacts
       /\ \A i \in DOMAIN contacts :
            contacts'[i] = IF <<"contact", i>> \in merge.gone THEN cgone(i) ELSE contacts[i]
  <2>1. contacts \in Seq(ContactRow)
    BY DEF CompaniesInv, CompaniesTyped
  <2>2. \A i \in DOMAIN contacts :
            contacts'[i] = IF <<"contact", i>> \in merge.gone THEN cgone(i) ELSE contacts[i]
    BY <1>1
  <2>3. contacts' = [i \in DOMAIN contacts |-> contacts'[i]]
    BY <1>1
  <2>4. \A i \in DOMAIN contacts : contacts'[i] \in ContactRow
    BY <1>7, <1>9, <2>2
  <2>5. contacts' \in Seq(ContactRow) /\ DOMAIN contacts' = DOMAIN contacts
    BY <2>1, <2>3, <2>4, Rewritten
  <2> QED BY <2>2, <2>5
<1>13. /\ papers' \in [Papers -> PaperRow]
       /\ \A p \in Papers : papers'[p] = IF <<"paper", p>> \in merge.gone THEN pgone(p) ELSE papers[p]
  BY <1>1, <1>8, <1>10
<1>14. \A i \in DOMAIN contacts :
         /\ contacts'[i].firm = contacts[i].firm
         /\ contacts'[i].live => /\ contacts'[i] = contacts[i] /\ <<"contact", i>> \notin merge.gone
                                 /\ contacts[i].firm # d
  <2> SUFFICES ASSUME NEW i \in DOMAIN contacts
      PROVE  /\ contacts'[i].firm = contacts[i].firm
             /\ contacts'[i].live => /\ contacts'[i] = contacts[i] /\ <<"contact", i>> \notin merge.gone
                                     /\ contacts[i].firm # d
    OBVIOUS
  <2>1. contacts'[i].firm = contacts[i].firm
    BY <1>9, <1>12
  <2>2. ASSUME contacts'[i].live PROVE <<"contact", i>> \notin merge.gone /\ contacts'[i] = contacts[i]
    BY <1>9, <1>12, <2>2
  <2>3. ASSUME contacts'[i].live PROVE contacts[i].firm # d
    <3>1. i \notin Of(d)
      BY <1>1, <2>2, <2>3, ReferringIs DEF d
    <3> QED BY <2>2, <2>3, <3>1 DEF Of, Live
  <2> QED BY <2>1, <2>2, <2>3
<1>15. \A p \in Papers :
         /\ papers'[p].firm = papers[p].firm
         /\ papers'[p].live => papers'[p] = papers[p] /\ papers[p].firm # d
  <2> SUFFICES ASSUME NEW p \in Papers
      PROVE  /\ papers'[p].firm = papers[p].firm
             /\ papers'[p].live => papers'[p] = papers[p] /\ papers[p].firm # d
    OBVIOUS
  <2>1. papers'[p].firm = papers[p].firm
    BY <1>10, <1>13
  <2>2. ASSUME papers'[p].live PROVE <<"paper", p>> \notin merge.gone /\ papers'[p] = papers[p]
    BY <1>10, <1>13, <2>2
  <2>3. ASSUME papers'[p].live PROVE papers[p].firm # d
    <3>1. p \notin PapersOf(d)
      BY <1>1, <2>2, <2>3, ReferringIs DEF d
    <3> QED BY <2>2, <2>3, <3>1 DEF PapersOf
  <2> QED BY <2>1, <2>2, <2>3
<1>16. \A e \in Live(companies) : e # d => e \in Live(companies')
  BY <1>11 DEF Live
<1>17. CompaniesTyped'
  BY <1>1, <1>11, <1>12, <1>13 DEF CompaniesInv, CompaniesTyped
<1>18. Bystanders'
  <2>1. ASSUME NEW v \in Owners, tx[v] \notin CompanyTx, tx[v].step = "written",
               tx[v].new.firm \in Live(companies)
        PROVE  tx[v].new.firm \in Live(companies')
    <3>1. tx[v] \in FormTx
      <4>1. Idle.step # "written"
        BY DEF Idle
      <4> QED BY <2>1, <4>1 DEF CompaniesInv, CompaniesTyped
    <3>2. tx[v].kind # "company"
      BY <2>1, <3>1, OneKind
    <3>3. tx[v].new.firm # d
      BY <1>1, <2>1, <3>2 DEF Pending, d
    <3> QED BY <1>16, <2>1, <3>3
  <2> QED BY <1>1, <1>11, <1>12, <1>14, <2>1, HandsKept
<1>19. ViewRight'
  BY <1>1, <1>11, <1>12, OthersKept DEF CompaniesInv
<1>20. MergeRight' /\ MovedLate'
  BY <1>1 DEF MergeRight, MovedLate
<1>21. Refs'
  BY <1>11, <1>12, <1>14, <1>15 DEF CompaniesInv, Refs
<1>22. CompaniesTypeOK'
  <2>1. \A e \in DOMAIN companies' : companies'[e].who \in Teams \cup {Nobody}
    BY <1>2, <1>5, <1>11 DEF CompaniesInv, CompaniesTypeOK
  <2>2. \A i \in Live(contacts') : contacts'[i].firm \in Live(companies')
    BY <1>12, <1>14, <1>16 DEF CompaniesInv, CompaniesTypeOK, Live
  <2>3. \A p \in Papers : papers'[p].live => papers'[p].firm \in Live(companies')
    BY <1>15, <1>16 DEF CompaniesInv, CompaniesTypeOK
  <2> QED BY <1>1, <1>12, <2>1, <2>2, <2>3 DEF CompaniesInv, CompaniesTypeOK
<1>23. Follows'
  <2> SUFFICES ASSUME NEW i \in Live(contacts') \ apart' PROVE Follow(i)' \/ Awaited(i)'
    BY DEF Follows
  <2>1. i \in DOMAIN contacts /\ contacts'[i] = contacts[i] /\ contacts[i].firm # d
        /\ i \in Live(contacts) \ apart
    BY <1>1, <1>12, <1>14 DEF Live
  <2>2. companies'[contacts[i].firm] = companies[contacts[i].firm]
    BY <1>11, <2>1 DEF CompaniesInv, Refs
  <2> QED BY <1>1, <2>1, <2>2 DEF CompaniesInv, Follows, Follow, Awaited
<1>24. Alone'
  <2>1. Persons' \subseteq Persons
    BY <1>12, <1>14 DEF Persons, Live
  <2>2. Nameless' \subseteq Nameless
    BY <1>5, <1>11 DEF Nameless, Live
  <2> QED BY <1>1, <2>1, <2>2 DEF CompaniesInv, Alone
<1>25. Keeps
  <2>1. \A i \in DOMAIN contacts : contacts[i].live /\ ~contacts'[i].live => <<"contact", i>> \in merge.gone
    BY <1>12
  <2>2. \A p \in Papers : papers[p].live /\ ~papers'[p].live => <<"paper", p>> \in merge.gone
    BY <1>13
  <2> QED BY <1>3, <2>1, <2>2 DEF Keeps
<1> QED BY <1>17, <1>18, <1>19, <1>20, <1>21, <1>22, <1>23, <1>24, <1>25 DEF CompaniesInv, Bystanders
-----------------------------------------------------------------------------
(* The theorems.                                                           *)

LEMMA CompaniesStart == ASSUME CompaniesInit PROVE CompaniesInv
<1>1. PICK f \in [1..2 -> Teams] : companies = [c \in 1..2 |-> Company(f[c], TRUE)]
  BY DEF CompaniesInit
<1>2. \A c \in 1..2 : companies[c] \in CompanyRow /\ companies[c].live /\ companies[c].named
                      /\ companies[c].who = f[c]
  <2>1. \A c \in 1..2 : f[c] \in Whos
    BY DEF Whos
  <2> QED BY <1>1, <2>1, NewCompanyIn
<1>3. companies \in Seq(CompanyRow) /\ DOMAIN companies = 1..2
  <2>1. DOMAIN companies = 1..2 /\ companies = [c \in 1..2 |-> companies[c]]
    BY <1>1
  <2>2. companies \in [1..2 -> CompanyRow]
    BY <1>2, <2>1
  <2> QED BY <2>1, <2>2
<1> DEFINE row == [Contact(2, companies[2].who) EXCEPT !.person = FALSE]
<1>4. row \in ContactRow /\ row.firm = 2 /\ row.who = companies[2].who /\ ~row.person
  <2>1. companies[2] \in CompanyRow
    BY <1>2
  <2>2. companies[2].who \in Whos /\ 2 \in Nat
    BY <2>1 DEF CompanyRow
  <2> QED BY <2>2, NewContactIn
<1>5. contacts = <<row>> /\ papers = [p \in Papers |-> [firm |-> 2, live |-> TRUE]]
      /\ tx = [u \in Owners |-> Idle] /\ import = [u \in Owners |-> "none"]
      /\ view = NoView /\ merge = NoMerge /\ apart = {} /\ raced = FALSE /\ late = {}
  BY DEF CompaniesInit
<1> HIDE DEF row
<1>6. contacts \in Seq(ContactRow) /\ DOMAIN contacts = {1} /\ contacts[1] = row
  BY <1>4, <1>5
<1>7. CompaniesTyped
  BY <1>3, <1>5, <1>6 DEF CompaniesTyped, PaperRow
<1>8. Refs
  BY <1>3, <1>4, <1>5, <1>6 DEF Refs
<1>9. CompaniesTypeOK
  BY <1>2, <1>3, <1>4, <1>5, <1>6 DEF CompaniesTypeOK, Live
<1>10. TxRights /\ LocksApart
  <2>1. Idle.step = "idle" /\ Idle.locks = {}
    BY DEF Idle
  <2>2. Idle \notin CompanyTx /\ Idle \notin ContactTx /\ Idle \notin PaperTx
    BY <2>1 DEF CompanyTx, ContactTx, PaperTx, TxSteps
  <2>3. \A u \in Owners : tx[u] = Idle
    BY <1>5
  <2>4. TxRight(Idle)
    BY <2>1, <2>2 DEF TxRight
  <2> QED BY <2>1, <2>3, <2>4 DEF TxRights, LocksApart
<1>11. ViewRight
  BY <1>5 DEF ViewRight, NoView, OfCompanies, OfContacts
<1>12. MergeRight /\ MovedLate
  BY <1>5 DEF MergeRight, MovedLate
<1>13. Follows
  BY <1>4, <1>6 DEF Follows, Follow, Live
<1>14. Alone
  BY <1>2, <1>3, <1>5, <1>6 DEF Alone, Persons, Nameless, Live
<1> QED BY <1>7, <1>8, <1>9, <1>10, <1>11, <1>12, <1>13, <1>14 DEF CompaniesInv

LEMMA SameInv == ASSUME CompaniesInv, UNCHANGED companyVars PROVE CompaniesInv' /\ Keeps
<1>1. UNCHANGED <<rows, tx, import, view, merge, apart, raced, late>>
  BY DEF companyVars, history
<1>2. CompaniesTyped'
  BY <1>1 DEF CompaniesInv, CompaniesTyped, rows
<1> QED BY <1>1, <1>2, RowsSame, FormsSame DEF CompaniesInv, Bystanders

LEMMA FormsInv ==
    ASSUME CompaniesInv, NEW u \in Owners,
           \/ \E c \in Live(companies) \cup {0} : BeginCompany(u, c)
           \/ \E i \in Live(contacts) \cup {0} : BeginContact(u, i)
           \/ \E p \in Papers : BeginPaper(u, p)
           \/ Write(u, tx[u]) \/ Refuse(u, tx[u])
    PROVE  CompaniesInv' /\ Keeps
<1>1. UNCHANGED rows
  BY DEF BeginCompany, BeginContact, BeginPaper, Begin, Write, Refuse
<1>2. Keeps
  BY <1>1 DEF Keeps, rows
<1> QED BY <1>2, BeginCompanyInv, BeginContactInv, BeginPaperInv, WriteInv, RefuseInv

LEMMA StepInv == ASSUME CompaniesInv, [CompaniesNext]_companyVars PROVE CompaniesInv' /\ Keeps
<1>1. ASSUME NEW u \in Owners, Commit(u, tx[u]) PROVE CompaniesInv' /\ Keeps
  BY <1>1, CommitCompanyInv, CommitContactInv, CommitPaperInv DEF Commit
<1>2. CASE UNCHANGED companyVars
  BY <1>2, SameInv
<1>3. CASE CompaniesNext
  BY <1>1, <1>3, FormsInv, CheckInv, SaveInv, StartViewInv, ViewCompanyInv, LoadContactsInv,
     ViewContactInv, EndViewInv, StartMergeInv, MoveInv, FillInv, CollectInv,
     DeleteDuplicateInv, FailMergeInv DEF CompaniesNext
<1> QED BY <1>2, <1>3

LEMMA InvHolds == CompaniesSpec => []CompaniesInv
<1>1. CompaniesInit => CompaniesInv
  BY CompaniesStart
<1>2. CompaniesInv /\ [CompaniesNext]_companyVars => CompaniesInv'
  BY StepInv
<1> QED BY <1>1, <1>2, PTL DEF CompaniesSpec

LEMMA OneAtMost == ASSUME NEW S, \A x, y \in S : x = y PROVE Cardinality(S) <= 1
<1>1. CASE S = {}
  BY <1>1, FS_EmptySet
<1>2. CASE S # {}
  <2>1. PICK x : S = {x}
    BY <1>2
  <2> QED BY <2>1, FS_Singleton
<1> QED BY <1>1, <1>2

LEMMA InvSound == ASSUME CompaniesInv PROVE CompaniesSound
<1>1. OwnerFollows
  BY DEF CompaniesInv, Follows, Follow, Awaited, OwnerFollows
<1>2. NoTwins
  BY OneAtMost DEF CompaniesInv, Alone, NoTwins
<1> QED BY <1>1, <1>2 DEF CompaniesInv, CompaniesSound

(* Whatever the order of the statements of forms, of the view that gives    *)
(* companies another owner, of the removal of a duplicate and of imports,   *)
(* contacts and papers refer to companies that are there, a contact has the *)
(* owner of his company unless he is among those written from outdated rows *)
(* or the view still comes to him, and nobody is there twice unless two     *)
(* entered him at once or an outdated copy brought him back.                *)
THEOREM Consistent == CompaniesSpec => []CompaniesSound
<1>1. CompaniesInv => CompaniesSound
  BY InvSound
<1> QED BY <1>1, InvHolds, PTL

(* The removal of a duplicate takes no contact, deal or request with it but *)
(* those that were linked to the duplicate after their kind had been moved. *)
THEOREM MergeTakesNobody == CompaniesSpec => MergeKeeps
<1>1. CompaniesInv /\ [CompaniesNext]_companyVars =>
        [/\ \A i \in DOMAIN contacts : contacts[i].live /\ ~contacts'[i].live => <<"contact", i>> \in late
         /\ \A p \in Papers : papers[p].live /\ ~papers'[p].live => <<"paper", p>> \in late]_companyVars
  BY StepInv DEF Keeps
<1> QED BY <1>1, InvHolds, PTL DEF CompaniesSpec, MergeKeeps
==============================================================================
