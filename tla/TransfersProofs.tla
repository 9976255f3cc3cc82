-------------------------- MODULE TransfersProofs --------------------------
(* Theorems about departments that are copied, users who are transferred,  *)
(* companies that get another owner and forms of sites, for any users,     *)
(* departments, lists, rows and bounds.                                    *)
EXTENDS SiteForms, FiniteSetTheorems, SequenceTheorems, WellFoundedInduction, TLAPS

-----------------------------------------------------------------------------
(* The parts of the invariant.                                             *)

EntrySet == [kind : ListKinds, name : STRING, dept : Depts \cup {None}, key : Nat]
Known(l) == 1..Len(l)
RowOver(row, depts, l) == row \in RowSet /\ row.dept \in depts \cup {None} /\ Refers(row, l)
IsRow(row) == RowOver(row, made, entries)
Alike(a, b) == a.model = b.model
PartOf(f) == /\ DOMAIN f \subseteq Known(rows)
             /\ \A r \in DOMAIN f : IsRow(f[r]) /\ Alike(f[r], rows[r])

ListsInv ==
    /\ entries \in Seq(EntrySet)
    /\ \A e \in Known(entries) :
         /\ entries[e].dept \in made \cup {None} /\ entries[e].key \in Known(entries)
         /\ entries[e].kind # "source" => entries[e].dept # None
RowsInv == rows \in Seq(RowSet) /\ \A r \in Known(rows) : IsRow(rows[r])
SavedInv == \A r \in Known(rows) : ~Dangling(rows[r])
HomeInv == made \subseteq Depts /\ home \in [Users -> made \cup {None}]
FormInv ==
    /\ DOMAIN tx = Users
    /\ \A u \in Users : tx[u] # Idle =>
         /\ tx[u] = [at |-> tx[u].at, id |-> tx[u].id, row |-> tx[u].row]
         /\ IsRow(tx[u].row) /\ (tx[u].row.model = "contact" \/ tx[u].row.owner = u)
         /\ \/ tx[u].at = "edit" /\ tx[u].id \in Known(rows) /\ Alike(tx[u].row, rows[tx[u].id])
            \/ tx[u].at = "add" /\ tx[u].id = 0
Copying == copy.at \in {"load", "save"}
Copies == [at : {"load", "save", "done"}, of : made, to : made, i : 1..7,
           left : SUBSET Known(entries)]
SavesCopy ==
    copy.at = "save" =>
         /\ copy.left # {} /\ copy.i > 1
         /\ \A e \in copy.left : /\ entries[e].kind = Copied[copy.i - 1]
                                 /\ entries[e].kind # "source" => entries[e].dept = copy.of
CopyInv ==
    copy \in {Idle, [at |-> "died"]} \/ (copy \in Copies /\ copy.of # copy.to /\ SavesCopy)
Running == tr.at \in {"add", "update", "load", "rows", "lists"}
Transferring(t) ==
    /\ t = [at |-> t.at, user |-> t.user, dept |-> t.dept, i |-> t.i, left |-> t.left,
            cur |-> t.cur, before |-> t.before, known |-> t.known, sure |-> t.sure]
    /\ t.at \in {"add", "update", "load", "rows", "lists", "done", "error", "died"}
    /\ t.user \in Users /\ t.dept \in made /\ t.i \in 1..11 /\ t.known \in 0..Len(entries)
    /\ t.sure \in BOOLEAN /\ PartOf(t.left) /\ PartOf(t.before)
    /\ t.at \in {"load", "rows", "lists"} => t.i \in 1..10
    /\ IF t.at \in {"rows", "lists"}
       THEN \A r \in DOMAIN t.left : t.left[r].model = Objects[t.i].model
       ELSE t.left = <<>>
    /\ t.at = "lists" => t.cur \in DOMAIN t.left
    /\ t.at = "rows" => t.cur = 0
TransferInv == tr = Idle \/ Transferring(tr)
Changing == ch.at \in {"companies", "contacts", "done"}
ChangeOf(t) ==
    /\ t = [at |-> t.at, owner |-> t.owner, dept |-> t.dept, of |-> t.of, left |-> t.left,
            alone |-> t.alone, early |-> t.early]
    /\ t.at \in {"companies", "contacts", "done"} /\ t.alone \in BOOLEAN /\ t.early \subseteq Users
    /\ t.owner \in Users /\ t.dept \in made \cup {None} /\ t.of \subseteq Known(rows)
    /\ \A r \in t.of : rows[r].model = "company"
    /\ PartOf(t.left) /\ \A r \in DOMAIN t.left : rows[r].model \in {"company", "contact"}
    /\ t.at = "companies" => DOMAIN t.left \subseteq t.of
    /\ t.at = "done" => DOMAIN t.left = {}
ChangeInv == ch \in {Idle, [at |-> "died"]} \/ ChangeOf(ch)
SiteInv ==
    forms \in [Forms -> {Idle} \cup [at : {"refused", "lost"}, key : Nat]
                 \cup [at : {"found", "saved", "done", "failed"}, dept : made, owner : Users \cup {None},
                       source : {e \in Known(entries) : entries[e].kind = "source"}]]
TypesInv == /\ ListsInv /\ RowsInv /\ SavedInv /\ HomeInv /\ FormInv
            /\ CopyInv /\ TransferInv /\ ChangeInv /\ SiteInv
-----------------------------------------------------------------------------
(* Lists and rows.                                                         *)

\* What a step leaves of the lists and of the rows: entries stay what they
\* are, only sources and tags leave a department, rows stay of their model.
ListsGrow ==
    /\ made \subseteq made' /\ Len(entries) <= Len(entries')
    /\ \A e \in Known(entries) :
         /\ entries'[e].kind = entries[e].kind /\ entries'[e].name = entries[e].name
         /\ entries'[e].key = entries[e].key
         /\ entries[e].kind \notin {"source", "tag"} => entries'[e].dept = entries[e].dept
RowsGrow == /\ Len(rows) <= Len(rows')
            /\ \A r \in Known(rows) : Alike(rows'[r], rows[r])

LEMMA Departs == ASSUME HomeInv PROVE None \notin made /\ None \notin Users
  BY DepartmentsAssumption DEF HomeInv, DepartmentsAssumption

LEMMA EntryFacts == ASSUME ListsInv
    PROVE /\ Len(entries) \in Nat /\ DOMAIN entries = Known(entries)
          /\ \A e \in Known(entries) : entries[e] \in EntrySet
  BY LenProperties, ElementOfSeq DEF ListsInv, Known

LEMMA RowFacts == ASSUME RowsInv
    PROVE /\ Len(rows) \in Nat /\ DOMAIN rows = Known(rows)
          /\ \A r \in Known(rows) : rows[r] \in RowSet /\ IsRow(rows[r])
  BY LenProperties DEF RowsInv, Known, IsRow, RowOver

LEMMA MadeEntry ==
    ASSUME ListsInv, HomeInv, NEW x \in EntrySet, x.dept \in made, x.key \in 1..(Len(entries) + 1),
           entries' = Append(entries, x), made' = made
    PROVE ListsGrow /\ ListsInv' /\ Len(entries') = Len(entries) + 1 /\ entries'[Len(entries) + 1] = x
  <1>1. /\ entries' \in Seq(EntrySet) /\ Len(entries') = Len(entries) + 1
        /\ \A e \in 1..Len(entries) : entries'[e] = entries[e]
        /\ entries'[Len(entries) + 1] = x
    BY AppendProperties DEF ListsInv
  <1>2. \A e \in Known(entries') : e \in Known(entries) \/ e = Len(entries) + 1
    BY <1>1, EntryFacts DEF Known
  <1>3. ListsGrow
    BY <1>1, EntryFacts DEF ListsGrow, Known
  <1>4. ListsInv'
    <2> SUFFICES ASSUME NEW e \in Known(entries')
                 PROVE /\ entries'[e].dept \in made' \cup {None} /\ entries'[e].key \in Known(entries')
                       /\ entries'[e].kind # "source" => entries'[e].dept # None
      BY <1>1 DEF ListsInv
    <2>1. CASE e \in Known(entries)
      BY <1>1, <2>1, EntryFacts DEF ListsInv, Known
    <2>2. CASE e = Len(entries) + 1
      BY <1>1, <2>2, Departs, EntryFacts DEF Known
    <2> QED BY <1>2, <2>1, <2>2
  <1> QED BY <1>1, <1>3, <1>4

LEMMA ChangedEntries ==
    ASSUME ListsInv, made' = made, NEW E, NEW d \in made \cup {None}, made \subseteq Depts,
           entries' = [e \in DOMAIN entries |->
                         IF e \in E THEN [entries[e] EXCEPT !.dept = d] ELSE entries[e]],
           \A e \in E : e \in Known(entries) /\ entries[e].kind \in {"source", "tag"},
           \A e \in E : entries[e].kind = "tag" => d # None
    PROVE ListsGrow /\ ListsInv' /\ Len(entries') = Len(entries)
  <1>1. \A e \in Known(entries) :
          entries'[e] = IF e \in E THEN [entries[e] EXCEPT !.dept = d] ELSE entries[e]
    BY EntryFacts
  <1>2. \A e \in Known(entries) : /\ entries'[e] \in EntrySet
                                  /\ entries'[e].kind = entries[e].kind
                                  /\ entries'[e].name = entries[e].name
                                  /\ entries'[e].key = entries[e].key
                                  /\ entries'[e].dept = IF e \in E THEN d ELSE entries[e].dept
    BY <1>1, EntryFacts DEF EntrySet
  <1>3. entries' \in [1..Len(entries) -> EntrySet]
    BY <1>2, EntryFacts DEF Known
  <1>4. entries' \in Seq(EntrySet) /\ Len(entries') = Len(entries)
    BY <1>3, EntryFacts
  <1>5. ListsGrow
    BY <1>2, <1>4, EntryFacts DEF ListsGrow
  <1>6. ListsInv'
    BY <1>2, <1>4 DEF ListsInv, Known
  <1> QED BY <1>4, <1>5, <1>6

LEMMA CopyFrame == ASSUME CopyInv, copy.at = "save"
    PROVE /\ copy \in Copies /\ copy.left # {} /\ copy.left \subseteq Known(entries)
          /\ \A e \in copy.left : /\ entries[e].kind = Copied[copy.i - 1]
                                  /\ entries[e].kind # "source" => entries[e].dept = copy.of
  BY DEF SavesCopy, CopyInv, Idle, Copies

\* The least of a set of numbers.
LEMMA LeastOf == ASSUME NEW S \in SUBSET Nat, S # {} PROVE Min(S) \in S /\ \A y \in S : Min(S) <= y
  <1> DEFINE R == OpToRel(<, Nat)
  <1>1. \E x \in S : \A y \in S : <<y, x>> \notin R
    BY NatLessThanWellFounded, WFMin
  <1> HIDE DEF R
  <1>2. \A x, y \in S : <<y, x>> \notin R => x <= y
    <2> SUFFICES ASSUME NEW x \in S, NEW y \in S, y < x PROVE <<y, x>> \in R
      OBVIOUS
    <2> QED BY DEF R, OpToRel
  <1> QED BY <1>1, <1>2 DEF Min

\* Which steps change what.
DeleteStep == \E e \in DOMAIN entries : DeleteSource(e)
EntryStep == \/ TransferLists \/ CopySave
             \/ \E d \in made, a \in Addable : AddEntry(a[1], d, a[2])
             \/ DeleteStep
OwnRowStep == \/ UpdateDepartment \/ TransferLists \/ \E r \in DOMAIN rows : TransferRow(r)
OtherRowStep == (\E r \in DOMAIN rows : ChangeOwner(r)) \/ (\E u \in Users : Commit(u))
NewRowStep == \E f \in Forms : SaveRequest(f) \/ SaveMail(f)
RowStep == OwnRowStep \/ OtherRowStep \/ NewRowStep \/ DeleteStep
StartCopyStep == \E d, c \in Depts : StartCopy(d, c)
StartTransferStep == \E u \in Movable, d \in Depts : StartTransfer(u, d)
FormStep == \E u \in Users : \/ Commit(u)
                             \/ \E r \in DOMAIN rows : BeginEdit(u, r)
                             \/ \E m \in Adding : BeginAdd(u, m)
CopyStep == StartCopyStep \/ CopyLoad \/ CopySave \/ CopyDies
TransferStep == \/ StartTransferStep \/ AddGroup \/ UpdateDepartment \/ LoadInstances
                \/ TransferLists \/ TransferDies
                \/ \E r \in DOMAIN rows : TransferRow(r)
ChangeStep == \/ \E u \in Users, r \in DOMAIN rows : StartChange(u, {r})
              \/ LoadContacts \/ ChangeEnds \/ ChangeDies
              \/ \E r \in DOMAIN rows : ChangeOwner(r)
SiteStep == \E f \in Forms : \/ \E key \in Keys : PostForm(f, key)
                             \/ SaveRequest(f) \/ SaveMail(f)
AddStep == \E d \in made, a \in Addable : AddEntry(a[1], d, a[2])
Frames ==
    /\ EntryStep \/ UNCHANGED entries
    /\ RowStep \/ UNCHANGED rows
    /\ StartCopyStep \/ UNCHANGED made
    /\ StartTransferStep \/ AddGroup \/ UNCHANGED home
    /\ FormStep \/ UNCHANGED tx
    /\ CopyStep \/ UNCHANGED copy
    /\ CopyStep \/ AddStep \/ UNCHANGED fresh
    /\ TransferStep \/ OtherRowStep \/ AddStep \/ DeleteStep \/ UNCHANGED tr
    /\ ChangeStep \/ OwnRowStep \/ OtherRowStep \/ UNCHANGED ch
    /\ SiteStep \/ UNCHANGED forms

LEMMA StepFrames == ASSUME Next PROVE Frames
  <1> USE DEF Frames, views
  <1>1. CASE EntryStep
    <2>1. CASE TransferLists
      BY <2>1 DEF TransferLists, EntryStep, RowStep, OwnRowStep, TransferStep
    <2>2. CASE CopySave
      BY <2>2 DEF CopySave, EntryStep, CopyStep
    <2>3. CASE AddStep
      BY <2>3 DEF AddStep, AddEntry, EntryStep
    <2>4. CASE DeleteStep
      BY <2>4 DEF DeleteStep, DeleteSource, EntryStep, RowStep
    <2> QED BY <1>1, <2>1, <2>2, <2>3, <2>4 DEF EntryStep, AddStep
  <1>2. CASE RowStep
    <2>1. CASE UpdateDepartment
      BY <2>1 DEF UpdateDepartment, RowStep, OwnRowStep, TransferStep
    <2>2. ASSUME NEW r \in DOMAIN rows, TransferRow(r) PROVE Frames
      BY <2>2 DEF TransferRow, RowStep, OwnRowStep, TransferStep
    <2>3. ASSUME NEW r \in DOMAIN rows, ChangeOwner(r) PROVE Frames
      BY <2>3 DEF ChangeOwner, RowStep, OtherRowStep, ChangeStep
    <2>4. ASSUME NEW u \in Users, Commit(u) PROVE Frames
      BY <2>4 DEF Commit, RowStep, OtherRowStep, FormStep
    <2>5. ASSUME NEW f \in Forms, SaveRequest(f) \/ SaveMail(f) PROVE Frames
      BY <2>5 DEF SaveRequest, SaveMail, RowStep, NewRowStep, SiteStep
    <2> QED BY <1>1, <1>2, <2>1, <2>2, <2>3, <2>4, <2>5
        DEF RowStep, OwnRowStep, OtherRowStep, NewRowStep, EntryStep
  <1>3. CASE TransferStep
    <2>1. CASE StartTransferStep
      BY <2>1 DEF StartTransferStep, StartTransfer, TransferStep
    <2>2. CASE AddGroup
      BY <2>2 DEF AddGroup, TransferStep
    <2>3. CASE LoadInstances
      BY <2>3 DEF LoadInstances, TransferStep
    <2>4. CASE TransferDies
      BY <2>4 DEF TransferDies, TransferStep
    <2> QED BY <1>1, <1>2, <1>3, <2>1, <2>2, <2>3, <2>4 DEF TransferStep, RowStep, OwnRowStep
  <1>4. CASE ChangeStep
    <2>1. ASSUME NEW u \in Users, NEW r \in DOMAIN rows, StartChange(u, {r}) PROVE Frames
      BY <2>1 DEF StartChange, ChangeStep
    <2>2. CASE LoadContacts
      BY <2>2 DEF LoadContacts, ChangeStep
    <2>3. CASE ChangeEnds
      BY <2>3 DEF ChangeEnds, ChangeStep
    <2>4. CASE ChangeDies
      BY <2>4 DEF ChangeDies, ChangeStep
    <2> QED BY <1>2, <1>4, <2>1, <2>2, <2>3, <2>4 DEF ChangeStep, RowStep, OtherRowStep
  <1>5. CASE CopyStep
    <2>1. CASE StartCopyStep
      BY <2>1 DEF StartCopyStep, StartCopy, CopyStep
    <2>2. CASE CopyLoad
      BY <2>2 DEF CopyLoad, CopyStep
    <2>3. CASE CopyDies
      BY <2>3 DEF CopyDies, CopyStep
    <2> QED BY <1>1, <1>5, <2>1, <2>2, <2>3 DEF CopyStep, EntryStep
  <1>6. CASE FormStep
    <2>1. ASSUME NEW u \in Users, NEW r \in DOMAIN rows, BeginEdit(u, r) PROVE Frames
      BY <2>1 DEF BeginEdit, FormStep
    <2>2. ASSUME NEW u \in Users, NEW m \in Adding, BeginAdd(u, m) PROVE Frames
      BY <2>2 DEF BeginAdd, FormStep
    <2> QED BY <1>2, <1>6, <2>1, <2>2 DEF FormStep, RowStep, OtherRowStep
  <1>7. CASE SiteStep
    <2>1. ASSUME NEW f \in Forms, NEW key \in Keys, PostForm(f, key) PROVE Frames
      BY <2>1 DEF PostForm, SiteStep
    <2> QED BY <1>2, <1>7, <2>1 DEF SiteStep, RowStep, NewRowStep
  <1>8. EntryStep \/ RowStep \/ TransferStep \/ ChangeStep \/ CopyStep \/ FormStep \/ SiteStep
    BY SiteFormsAssumption
       DEF Next, Steps, SiteFormsAssumption, EntryStep, RowStep, OwnRowStep, OtherRowStep,
           DeleteStep, StartTransferStep, StartCopyStep, TransferStep, ChangeStep, CopyStep, FormStep,
           SiteStep
  <1> QED BY <1>1, <1>2, <1>3, <1>4, <1>5, <1>6, <1>7, <1>8

LEMMA ListsKept == ASSUME TypesInv, Next PROVE ListsGrow /\ ListsInv' /\ HomeInv'
  <1> USE DEF TypesInv
  <1>1. Frames
    BY StepFrames
  <1>2. HomeInv' /\ made \subseteq made'
    <2>1. CASE StartCopyStep
      BY <2>1 DEF StartCopyStep, StartCopy, HomeInv
    <2>2. CASE StartTransferStep
      BY <2>2, Departs DEF StartTransferStep, StartTransfer, HomeInv
    <2>3. CASE AddGroup
      <3>1. tr.user \in Users /\ tr.dept \in made
        BY <2>3 DEF AddGroup, TransferInv, Transferring, Idle
      <3> QED BY <2>3, <3>1 DEF AddGroup, HomeInv
    <2> QED BY <1>1, <2>1, <2>2, <2>3 DEF Frames, HomeInv
  <1>3. ASSUME UNCHANGED entries PROVE ListsGrow /\ ListsInv'
    BY <1>2, <1>3, EntryFacts DEF ListsGrow, ListsInv
  <1>4. ASSUME TransferLists PROVE ListsGrow /\ ListsInv'
    <2>1. tr.cur \in DOMAIN tr.left /\ tr.dept \in made /\ tr.cur \in Known(rows)
      BY <1>4 DEF TransferLists, TransferInv, Transferring, Idle, PartOf
    <2>2. rows[tr.cur].m2m \subseteq Known(entries)
      BY <2>1 DEF RowsInv, IsRow, RowOver, Refers, Known
    <2> DEFINE E == OfKind(rows[tr.cur].m2m, "tag")
    <2>3. \A e \in E : e \in Known(entries) /\ entries[e].kind = "tag"
      BY <2>2 DEF OfKind
    <2>4. entries' = [e \in DOMAIN entries |-> IF e \in E THEN [entries[e] EXCEPT !.dept = tr.dept]
                                                ELSE entries[e]]
      BY <1>4 DEF TransferLists
    <2>5. made' = made /\ tr.dept \in made \cup {None} /\ tr.dept # None /\ made \subseteq Depts
      BY <1>4, <2>1, Departs DEF TransferLists, HomeInv
    <2> HIDE DEF E
    <2> QED BY <2>3, <2>4, <2>5, ChangedEntries
  <1>5. ASSUME NEW e \in DOMAIN entries, DeleteSource(e) PROVE ListsGrow /\ ListsInv'
    <2>1. entries' = [x \in DOMAIN entries |-> IF x \in {e} THEN [entries[x] EXCEPT !.dept = None]
                                                ELSE entries[x]]
      BY <1>5 DEF DeleteSource
    <2>2. e \in Known(entries) /\ entries[e].kind = "source" /\ made' = made
      BY <1>5, EntryFacts DEF DeleteSource
    <2>3. made \subseteq Depts /\ None \in made \cup {None}
      BY DEF HomeInv
    <2> DEFINE E == {e}
    <2>4. \A x \in E : x \in Known(entries) /\ entries[x].kind = "source"
      BY <2>2
    <2>5. entries' = [x \in DOMAIN entries |-> IF x \in E THEN [entries[x] EXCEPT !.dept = None]
                                                ELSE entries[x]]
      BY <2>1
    <2> HIDE DEF E
    <2> QED BY <2>2, <2>3, <2>4, <2>5, ChangedEntries
  <1>6. ASSUME CopySave PROVE ListsGrow /\ ListsInv'
    <2>1. Min(copy.left) \in copy.left /\ copy.left \subseteq Known(entries) /\ copy \in Copies
      <3>1. copy.left \in SUBSET Nat /\ copy.left # {} /\ copy \in Copies /\ copy.left \subseteq Known(entries)
        BY <1>6, CopyFrame, EntryFacts DEF CopySave, Known
      <3> QED BY <3>1, LeastOf
    <2> DEFINE x == [entries[Min(copy.left)] EXCEPT !.dept = copy.to]
    <2>2. /\ x \in EntrySet /\ x.dept = copy.to /\ x.key = entries[Min(copy.left)].key
          /\ copy.to \in made
      <3>1. copy.to \in Depts /\ copy.to \in made
        BY <2>1 DEF Copies, HomeInv
      <3>2. entries[Min(copy.left)] \in EntrySet
        BY <2>1, EntryFacts
      <3> QED BY <3>1, <3>2 DEF EntrySet
    <2>3. entries' = Append(entries, x) /\ made' = made
      BY <1>6 DEF CopySave
    <2>4. x.key \in 1..(Len(entries) + 1)
      BY <2>1, <2>2, EntryFacts DEF ListsInv, Known
    <2> HIDE DEF x
    <2> QED BY <2>2, <2>3, <2>4, MadeEntry
  <1>7. ASSUME NEW d \in made, NEW a \in Addable, AddEntry(a[1], d, a[2])
        PROVE ListsGrow /\ ListsInv'
    <2> DEFINE x == [kind |-> a[1], name |-> a[2], dept |-> d, key |-> Len(entries) + 1]
    <2>1. entries' = Append(entries, x) /\ made' = made
      BY <1>7 DEF AddEntry
    <2>2. x \in EntrySet /\ x.dept \in made /\ x.key \in 1..(Len(entries) + 1)
      BY SiteFormsAssumption, EntryFacts DEF SiteFormsAssumption, EntrySet, HomeInv
    <2> HIDE DEF x
    <2> QED BY <2>1, <2>2, MadeEntry
  <1> QED BY <1>1, <1>2, <1>3, <1>4, <1>5, <1>6, <1>7 DEF Frames, EntryStep, DeleteStep

LEMMA RowStays ==
    ASSUME NEW row, IsRow(row), ListsInv, ListsGrow, ListsInv'
    PROVE IsRow(row)'
  <1>1. Len(entries) \in Nat /\ Len(entries') \in Nat
    BY EntryFacts, LenProperties DEF ListsInv
  <1>2. \A e \in 1..Len(entries) : e \in 1..Len(entries') /\ entries'[e].kind = entries[e].kind
    BY <1>1 DEF ListsGrow, Known
  <1>3. row.fk \in [FkOf(row.model) -> 0..Len(entries')]
    BY <1>1 DEF IsRow, RowOver, Refers, ListsGrow
  <1> QED BY <1>1, <1>2, <1>3 DEF IsRow, RowOver, Refers, ListsGrow

\* A row made by hand, and one whose columns are changed.
LEMMA NewRow ==
    ASSUME ListsInv, NEW m \in Models, NEW u \in Users \cup {None}, NEW d \in made \cup {None},
           HomeInv, NEW c \in Nat, c # 0 <=> m = "contact"
    PROVE IsRow(Row(m, u, d, c))
  <1>1. FkOf(m) \in {{}, {"source"}, {"type", "source"}, {"stage", "reason"}}
    BY DEF FkOf
  <1>2. Row(m, u, d, c) \in RowSet
    <2>1. PICK fk : fk = [k \in FkOf(m) |-> 0]
      OBVIOUS
    <2>2. fk \in [{} -> Nat] \cup [{"source"} -> Nat] \cup [{"type", "source"} -> Nat]
                \cup [{"stage", "reason"} -> Nat]
      BY <1>1, <2>1
    <2> QED BY <2>1, <2>2 DEF Row, RowSet, HomeInv
  <1>3. Len(entries) \in Nat
    BY EntryFacts
  <1> QED BY <1>2, <1>3 DEF IsRow, RowOver, Refers, Row

LEMMA GivenRow ==
    ASSUME NEW row, IsRow(row), HomeInv, NEW d \in made \cup {None}, NEW u \in Users \cup {None}
    PROVE /\ IsRow([row EXCEPT !.dept = d]) /\ IsRow([row EXCEPT !.owner = u, !.dept = d])
          /\ Alike([row EXCEPT !.dept = d], row) /\ Alike([row EXCEPT !.owner = u, !.dept = d], row)
  <1>1. row \in RowSet
    BY DEF IsRow, RowOver
  <1>2. [row EXCEPT !.dept = d] \in RowSet /\ [row EXCEPT !.owner = u, !.dept = d] \in RowSet
    BY <1>1 DEF RowSet, HomeInv
  <1> QED BY <1>1, <1>2 DEF IsRow, RowOver, Refers, RowSet, Alike

LEMMA ListedRow ==
    ASSUME NEW row, IsRow(row), ListsInv, NEW S, 
           \A e \in S : e \in Known(entries) /\ entries[e].kind \in ListsOf(row.model)
    PROVE /\ IsRow([row EXCEPT !.m2m = S]) /\ Alike([row EXCEPT !.m2m = S], row)
  <1>1. row \in RowSet /\ S \in SUBSET Nat
    BY EntryFacts DEF IsRow, RowOver, Known
  <1>2. [row EXCEPT !.m2m = S] \in RowSet
    BY <1>1 DEF RowSet
  <1> QED BY <1>1, <1>2 DEF IsRow, RowOver, Refers, RowSet, Alike, Known

LEMMA KeyedRow ==
    ASSUME NEW row, IsRow(row), ListsInv, NEW fk, fk \in [FkOf(row.model) -> 0..Len(entries)],
           \A k \in FkOf(row.model) : fk[k] = 0 \/ entries[fk[k]].kind = k
    PROVE /\ IsRow([row EXCEPT !.fk = fk]) /\ Alike([row EXCEPT !.fk = fk], row)
  <1>1. row \in RowSet
    BY DEF IsRow, RowOver
  <1>2. FkOf(row.model) \in {{}, {"source"}, {"type", "source"}, {"stage", "reason"}}
    BY DEF FkOf
  <1>3. fk \in [{} -> Nat] \cup [{"source"} -> Nat] \cup [{"type", "source"} -> Nat]
              \cup [{"stage", "reason"} -> Nat]
    <2>1. fk \in [FkOf(row.model) -> Nat]
      BY EntryFacts
    <2> QED BY <1>2, <2>1
  <1>4. [row EXCEPT !.fk = fk] \in RowSet
    BY <1>1, <1>3 DEF RowSet
  <1> QED BY <1>1, <1>4 DEF IsRow, RowOver, Refers, RowSet, Alike

\* One row is replaced, or one is added.
LEMMA RowReplaced ==
    ASSUME RowsInv, NEW r \in Known(rows), NEW x, IsRow(x), Alike(x, rows[r]),
           rows' = [rows EXCEPT ![r] = x], ListsInv, ListsGrow, ListsInv'
    PROVE RowsInv' /\ RowsGrow /\ Len(rows') = Len(rows)
  <1>1. x \in RowSet
    BY DEF IsRow, RowOver
  <1>2. /\ rows' \in Seq(RowSet) /\ Len(rows') = Len(rows)
        /\ \A q \in 1..Len(rows) : rows'[q] = IF q = r THEN x ELSE rows[q]
    BY <1>1, ExceptSeq DEF RowsInv, Known
  <1>3. \A q \in Known(rows) : RowOver(rows'[q], made', entries')
    <2>1. RowOver(x, made', entries')
      BY RowStays DEF IsRow
    <2>2. ASSUME NEW q \in Known(rows) PROVE RowOver(rows[q], made', entries')
      <3>1. PICK row : row = rows[q]
        OBVIOUS
      <3>2. IsRow(row)'
        BY <3>1, RowFacts, RowStays
      <3> QED BY <3>1, <3>2 DEF IsRow
    <2> QED BY <1>2, <2>1, <2>2 DEF Known
  <1>4. RowsInv'
    BY <1>2, <1>3 DEF RowsInv, Known, IsRow
  <1>5. RowsGrow
    BY <1>2, RowFacts DEF RowsGrow, Known, Alike
  <1> QED BY <1>2, <1>4, <1>5

LEMMA RowAdded ==
    ASSUME RowsInv, NEW x, IsRow(x), rows' = Append(rows, x), ListsInv, ListsGrow, ListsInv'
    PROVE RowsInv' /\ RowsGrow /\ Len(rows') = Len(rows) + 1 /\ rows'[Len(rows) + 1] = x
          /\ \A r \in Known(rows) : rows'[r] = rows[r]
  <1>1. x \in RowSet
    BY DEF IsRow, RowOver
  <1>2. /\ rows' \in Seq(RowSet) /\ Len(rows') = Len(rows) + 1
        /\ \A q \in 1..Len(rows) : rows'[q] = rows[q]
        /\ rows'[Len(rows) + 1] = x
    BY <1>1, AppendProperties DEF RowsInv
  <1>3. \A q \in Known(rows') : RowOver(rows'[q], made', entries')
    <2>1. RowOver(x, made', entries')
      BY RowStays DEF IsRow
    <2>2. ASSUME NEW q \in Known(rows) PROVE RowOver(rows[q], made', entries')
      <3>1. PICK row : row = rows[q]
        OBVIOUS
      <3>2. IsRow(row)'
        BY <3>1, RowFacts, RowStays
      <3> QED BY <3>1, <3>2 DEF IsRow
    <2> QED BY <1>2, <2>1, <2>2, RowFacts DEF Known
  <1>4. RowsInv'
    BY <1>2, <1>3 DEF RowsInv, IsRow
  <1>5. RowsGrow
    BY <1>2, RowFacts DEF RowsGrow, Known, Alike
  <1> QED BY <1>2, <1>4, <1>5 DEF Known

\* The models whose rows are transferred.
LEMMA ObjectsAre ==
    /\ Len(Objects) = 10 /\ DOMAIN Objects = 1..10
    /\ \A i \in 1..10 : /\ Objects[i].model \in Models /\ Objects[i].fk = FkOf(Objects[i].model) \ {"source"}
                        /\ ListsOf(Objects[i].model) = Objects[i].m2m
                        /\ Objects[i].m2m \subseteq {"product", "industry", "tag"}
                        /\ Objects[i].model = "deal" <=> i = 2
                        /\ Objects[i].model = "contact" => Objects[i].fk = {}
    /\ \A m \in Models : \E i \in 1..10 : Objects[i].model = m
    /\ \A i, j \in 1..10 : Objects[i].model = Objects[j].model => i = j
  <1>1. Len(Objects) = 10 /\ DOMAIN Objects = 1..10
    BY DEF Objects
  <1>2. /\ Objects[1] = [model |-> "request", fk |-> {}, m2m |-> {"product"}]
        /\ Objects[2] = [model |-> "deal", fk |-> {"stage", "reason"}, m2m |-> {"tag"}]
        /\ Objects[3] = [model |-> "company", fk |-> {"type"}, m2m |-> {"industry", "tag"}]
        /\ Objects[4] = [model |-> "contact", fk |-> {}, m2m |-> {"tag"}]
        /\ Objects[5] = [model |-> "lead", fk |-> {"type"}, m2m |-> {"industry", "tag"}]
        /\ Objects[6] = [model |-> "email", fk |-> {}, m2m |-> {}]
        /\ Objects[7] = [model |-> "account", fk |-> {}, m2m |-> {}]
        /\ Objects[8] = [model |-> "mailing", fk |-> {}, m2m |-> {}]
        /\ Objects[9] = [model |-> "signature", fk |-> {}, m2m |-> {}]
        /\ Objects[10] = [model |-> "message", fk |-> {}, m2m |-> {}]
    BY DEF Objects
  <1>3. \A i \in 1..10 : i \in {1, 2, 3, 4, 5, 6, 7, 8, 9, 10}
    OBVIOUS
  <1>4. \A i, j \in 1..10 : Objects[i].model = Objects[j].model => i = j
    BY <1>2, <1>3
  <1>5. \A i \in 1..10 : ListsOf(Objects[i].model) = Objects[i].m2m
    <2> SUFFICES ASSUME NEW i \in 1..10 PROVE ListsOf(Objects[i].model) = Objects[i].m2m
      OBVIOUS
    <2>1. {j \in DOMAIN Objects : Objects[j].model = Objects[i].model} = {i}
      BY <1>1, <1>4
    <2> QED BY <2>1 DEF ListsOf
  <1>6. \A i \in 1..10 : /\ Objects[i].model \in Models /\ Objects[i].fk = FkOf(Objects[i].model) \ {"source"}
                         /\ Objects[i].m2m \subseteq {"product", "industry", "tag"}
                         /\ Objects[i].model = "deal" <=> i = 2
                         /\ Objects[i].model = "contact" => Objects[i].fk = {}
    BY <1>2, <1>3 DEF Models, FkOf
  <1>7. \A m \in Models : \E i \in 1..10 : Objects[i].model = m
    BY <1>2 DEF Models
  <1> QED BY <1>1, <1>4, <1>5, <1>6, <1>7

\* What a transfer finds for the keys of a row.
LEMMA Looked ==
    ASSUME ListsInv, NEW row, IsRow(row), ~Fails(row), tr.i \in 1..10, row.model = Objects[tr.i].model
    PROVE /\ Renewed(row) \in [FkOf(row.model) -> 0..Len(entries)]
          /\ \A k \in FkOf(row.model) :
               /\ Renewed(row)[k] = 0 \/ entries[Renewed(row)[k]].kind = k
               /\ k # "source" /\ row.fk[k] # 0 /\ k \notin Missing(row) =>
                    Renewed(row)[k] \in Counterparts(k, row.fk[k], tr.dept)
               /\ k = "source" \/ row.fk[k] = 0 \/ k \in Missing(row) => Renewed(row)[k] = row.fk[k]
               /\ k \in Missing(row) => k = "type" /\ Counterparts(k, row.fk[k], tr.dept) = {}
  <1>1. DOMAIN row.fk = FkOf(row.model) /\ \A k \in FkOf(row.model) : row.fk[k] \in 0..Len(entries)
    BY DEF IsRow, RowOver, Refers
  <1>2. \A k, e : Counterparts(k, e, tr.dept) \subseteq {x \in Known(entries) : entries[x].kind = k}
    BY EntryFacts DEF Counterparts, EntriesOf
  <1>3. Objects[tr.i].fk = FkOf(row.model) \ {"source"}
    BY ObjectsAre
  <1>4. ASSUME NEW k \in FkOf(row.model), k # "source", row.fk[k] # 0, k \notin Missing(row)
        PROVE /\ Renewed(row)[k] \in Counterparts(k, row.fk[k], tr.dept)
              /\ Renewed(row)[k] \in Known(entries) /\ entries[Renewed(row)[k]].kind = k
    <2>1. k \in LookedUp(row)
      BY <1>3, <1>4 DEF LookedUp
    <2>2. Counterparts(k, row.fk[k], tr.dept) # {} /\ k \in Found(row)
      BY <1>4, <2>1 DEF Missing, Found
    <2> QED BY <1>1, <1>2, <1>4, <2>2 DEF Renewed
  <1>5. ASSUME NEW k \in FkOf(row.model), k = "source" \/ row.fk[k] = 0 \/ k \in Missing(row)
        PROVE Renewed(row)[k] = row.fk[k]
    <2>1. k \notin Found(row)
      BY <1>3, <1>5 DEF LookedUp, Found
    <2> QED BY <1>1, <2>1 DEF Renewed
  <1>6. ASSUME NEW k \in Missing(row)
        PROVE k = "type" /\ Counterparts(k, row.fk[k], tr.dept) = {}
    BY <1>6 DEF Missing, Fails
  <1>7. \A k \in FkOf(row.model) : Renewed(row)[k] \in 0..Len(entries)
    BY <1>1, <1>4, <1>5, EntryFacts DEF Known
  <1>8. Renewed(row) = [k \in FkOf(row.model) |-> Renewed(row)[k]]
    BY <1>1 DEF Renewed
  <1>9. \A k \in FkOf(row.model) : Renewed(row)[k] = 0 \/ entries[Renewed(row)[k]].kind = k
    <2>1. \A k \in FkOf(row.model) : row.fk[k] = 0 \/ entries[row.fk[k]].kind = k
      BY DEF IsRow, RowOver, Refers
    <2> QED BY <1>4, <1>5, <2>1
  <1> QED BY <1>4, <1>5, <1>6, <1>7, <1>8, <1>9

LEMMA RunningFacts ==
    ASSUME TransferInv, Running
    PROVE /\ tr # Idle
          /\ tr = [at |-> tr.at, user |-> tr.user, dept |-> tr.dept, i |-> tr.i, left |-> tr.left,
                   cur |-> tr.cur, before |-> tr.before, known |-> tr.known, sure |-> tr.sure]
          /\ tr.user \in Users /\ tr.dept \in made /\ tr.i \in 1..11 /\ tr.known \in 0..Len(entries)
          /\ tr.sure \in BOOLEAN /\ PartOf(tr.left) /\ PartOf(tr.before)
          /\ tr.at \in {"load", "rows", "lists"} => tr.i \in 1..10
          /\ tr.at \in {"rows", "lists"} =>
               \A r \in DOMAIN tr.left : tr.left[r].model = Objects[tr.i].model
          /\ tr.at \in {"add", "update", "load"} => tr.left = <<>>
          /\ tr.at = "lists" => tr.cur \in DOMAIN tr.left
          /\ tr.at = "rows" => tr.cur = 0
  BY DEF TransferInv, Transferring, Running, Idle

\* The row a transfer saves, and the lists it gives one.
Transferred(r) == [tr.left[r] EXCEPT !.fk = Renewed(tr.left[r]), !.m2m = rows[r].m2m]
LEMMA TransferredRow ==
    ASSUME TypesInv, NEW r \in DOMAIN tr.left, tr.at = "rows", ~Fails(tr.left[r])
    PROVE /\ IsRow(Transferred(r)) /\ Alike(Transferred(r), rows[r]) /\ r \in Known(rows)
          /\ Transferred(r).fk = Renewed(tr.left[r]) /\ Transferred(r).m2m = rows[r].m2m
          /\ Transferred(r).owner = tr.left[r].owner /\ Transferred(r).dept = tr.left[r].dept
  <1> USE DEF TypesInv
  <1>1. /\ r \in Known(rows) /\ IsRow(tr.left[r]) /\ Alike(tr.left[r], rows[r]) /\ IsRow(rows[r])
        /\ tr.i \in 1..10 /\ tr.left[r].model = Objects[tr.i].model
    BY RunningFacts, RowFacts DEF Running, PartOf
  <1> DEFINE one == [tr.left[r] EXCEPT !.fk = Renewed(tr.left[r])]
  <1>2. IsRow(one) /\ Alike(one, tr.left[r])
    BY <1>1, Looked, KeyedRow
  <1>3. \A e \in rows[r].m2m : e \in Known(entries) /\ entries[e].kind \in ListsOf(rows[r].model)
    BY <1>1 DEF IsRow, RowOver, Refers, Known
  <1>4. /\ Transferred(r) = [one EXCEPT !.m2m = rows[r].m2m] /\ one \in RowSet
        /\ tr.left[r] \in RowSet
    BY <1>1, <1>2 DEF Transferred, RowSet, IsRow, RowOver
  <1>5. one.model = rows[r].model
    BY <1>1, <1>2 DEF Alike
  <1>6. /\ Transferred(r).fk = Renewed(tr.left[r]) /\ Transferred(r).m2m = rows[r].m2m
        /\ Transferred(r).owner = tr.left[r].owner /\ Transferred(r).dept = tr.left[r].dept
    BY <1>4 DEF Transferred, RowSet
  <1>7. IsRow([one EXCEPT !.m2m = rows[r].m2m]) /\ Alike([one EXCEPT !.m2m = rows[r].m2m], one)
    <2> HIDE DEF one
    <2> QED BY <1>2, <1>3, <1>5, ListedRow
  <1> QED BY <1>1, <1>2, <1>4, <1>6, <1>7 DEF Alike

LEMMA ReplacedLists ==
    ASSUME TypesInv, tr.at = "lists"
    PROVE /\ tr.cur \in Known(rows)
          /\ \A e \in Replaced(rows[tr.cur].m2m) :
               e \in Known(entries) /\ entries[e].kind \in ListsOf(rows[tr.cur].model)
          /\ \A e \in rows[tr.cur].m2m :
               e \in Known(entries) /\ entries[e].kind \in ListsOf(rows[tr.cur].model)
          /\ rows[tr.cur].model = Objects[tr.i].model
          /\ ListsOf(rows[tr.cur].model) = Objects[tr.i].m2m /\ tr.i \in 1..10
  <1> USE DEF TypesInv
  <1>1. /\ tr.cur \in Known(rows) /\ rows[tr.cur].model = Objects[tr.i].model /\ tr.i \in 1..10
    BY RunningFacts DEF Running, PartOf, Alike
  <1>2. ListsOf(rows[tr.cur].model) = Objects[tr.i].m2m
    BY <1>1, ObjectsAre
  <1>3. \A e \in rows[tr.cur].m2m :
               e \in Known(entries) /\ entries[e].kind \in ListsOf(rows[tr.cur].model)
    BY <1>1, RowFacts DEF IsRow, RowOver, Refers, Known
  <1>4. \A e \in OfKind(rows[tr.cur].m2m, "tag") :
          e \in Known(entries) /\ entries[e].kind \in ListsOf(rows[tr.cur].model)
    BY <1>3 DEF OfKind
  <1>5. \A k \in Objects[tr.i].m2m \ {"tag"} : \A e \in SameNamed(rows[tr.cur].m2m, k, tr.dept) :
          e \in Known(entries) /\ entries[e].kind \in ListsOf(rows[tr.cur].model)
    BY <1>2, EntryFacts DEF SameNamed, Counterparts, EntriesOf
  <1> QED BY <1>1, <1>2, <1>3, <1>4, <1>5 DEF Replaced

LEMMA ChangingFacts ==
    ASSUME ChangeInv, "left" \in DOMAIN ch \/ Changing PROVE Changing /\ ChangeOf(ch)
  BY DEF ChangeInv, ChangeOf, Changing, Idle

HandedTo(r) == [Handed(ch.left[r]) EXCEPT !.m2m = rows[r].m2m]
LEMMA HandedRow ==
    ASSUME TypesInv, Changing, NEW r \in DOMAIN ch.left
    PROVE /\ IsRow(HandedTo(r)) /\ Alike(HandedTo(r), rows[r]) /\ r \in Known(rows)
          /\ HandedTo(r).owner = ch.owner /\ HandedTo(r).dept = ch.dept
  <1> USE DEF TypesInv
  <1>1. /\ r \in Known(rows) /\ IsRow(ch.left[r]) /\ Alike(ch.left[r], rows[r]) /\ IsRow(rows[r])
        /\ ch.owner \in Users \cup {None} /\ ch.dept \in made \cup {None}
    BY ChangingFacts, RowFacts DEF PartOf, ChangeOf
  <1>2. IsRow(Handed(ch.left[r])) /\ Alike(Handed(ch.left[r]), ch.left[r])
    BY <1>1, GivenRow DEF Handed
  <1>3. \A e \in rows[r].m2m : e \in Known(entries) /\ entries[e].kind \in ListsOf(rows[r].model)
    BY <1>1 DEF IsRow, RowOver, Refers, Known
  <1>4. Handed(ch.left[r]).model = rows[r].model
    BY <1>1, <1>2 DEF Alike
  <1>5. IsRow(HandedTo(r)) /\ Alike(HandedTo(r), Handed(ch.left[r]))
    BY <1>2, <1>3, <1>4, ListedRow DEF HandedTo
  <1>6. HandedTo(r).owner = ch.owner /\ HandedTo(r).dept = ch.dept
    BY <1>1 DEF HandedTo, Handed, IsRow, RowOver, RowSet
  <1> QED BY <1>1, <1>2, <1>5, <1>6 DEF Alike

\* The rows of a site form, and a row whose lead source is deleted.
LEMMA AskedRow ==
    ASSUME TypesInv, NEW f \in Forms, forms[f].at \in {"found", "saved"}
    PROVE /\ IsRow(Asked(f)) /\ IsRow(Saved(f, "email")) /\ ~Dangling(Saved(f, "email"))
          /\ Asked(f).company = 0 /\ Saved(f, "email").company = 0
          /\ forms[f].source \in Known(entries) /\ entries[forms[f].source].kind = "source"
          /\ Asked(f).model = "request" /\ Asked(f).fk = [k \in {"source"} |-> forms[f].source]
  <1> USE DEF TypesInv
  <1>1. /\ forms[f].owner \in Users \cup {None} /\ forms[f].dept \in made \cup {None}
        /\ forms[f].source \in Known(entries) /\ entries[forms[f].source].kind = "source"
    BY DEF SiteInv, Idle
  <1>2. /\ IsRow(Saved(f, "request")) /\ IsRow(Saved(f, "email"))
    BY <1>1, NewRow DEF Saved, Models
  <1>3. /\ Saved(f, "request").model = "request" /\ Saved(f, "request").fk = [k \in {"source"} |-> 0]
        /\ FkOf("request") = {"source"} /\ FkOf("email") = {} /\ Saved(f, "email").fk = [k \in {} |-> 0]
        /\ Saved(f, "request").company = 0 /\ Saved(f, "email").company = 0
    BY DEF Saved, Row, FkOf
  <1>4. PICK row : row = Saved(f, "request")
    OBVIOUS
  <1>5. PICK fk : fk = [k \in {"source"} |-> forms[f].source]
    OBVIOUS
  <1>6. /\ fk \in [FkOf(row.model) -> 0..Len(entries)]
        /\ \A k \in FkOf(row.model) : fk[k] = 0 \/ entries[fk[k]].kind = k
    BY <1>1, <1>3, <1>4, <1>5 DEF Known
  <1>7. Asked(f) = [row EXCEPT !.fk = fk]
    BY <1>3, <1>4, <1>5 DEF Asked
  <1>8. IsRow([row EXCEPT !.fk = fk])
    BY <1>2, <1>4, <1>6, KeyedRow
  <1>9. Asked(f).model = "request" /\ Asked(f).fk = fk /\ Asked(f).company = 0
    BY <1>2, <1>3, <1>4, <1>7 DEF IsRow, RowOver, RowSet
  <1> QED BY <1>1, <1>2, <1>3, <1>5, <1>7, <1>8, <1>9 DEF Dangling

Forgotten(row, e) == [row EXCEPT !.fk = [k \in DOMAIN row.fk |-> IF row.fk[k] = e THEN 0 ELSE row.fk[k]]]
LEMMA ForgottenRow ==
    ASSUME ListsInv, NEW row, IsRow(row), NEW e
    PROVE /\ IsRow(Forgotten(row, e)) /\ Alike(Forgotten(row, e), row)
          /\ Forgotten(row, e).owner = row.owner /\ Forgotten(row, e).dept = row.dept
          /\ Forgotten(row, e).m2m = row.m2m /\ Forgotten(row, e).company = row.company
          /\ DOMAIN Forgotten(row, e).fk = DOMAIN row.fk
          /\ \A k \in DOMAIN row.fk :
               Forgotten(row, e).fk[k] = IF row.fk[k] = e THEN 0 ELSE row.fk[k]
  <1>1. PICK fk : fk = [k \in DOMAIN row.fk |-> IF row.fk[k] = e THEN 0 ELSE row.fk[k]]
    OBVIOUS
  <1>2. /\ row.fk \in [FkOf(row.model) -> 0..Len(entries)] /\ Len(entries) \in Nat /\ row \in RowSet
        /\ \A k \in FkOf(row.model) : row.fk[k] = 0 \/ entries[row.fk[k]].kind = k
    BY EntryFacts DEF IsRow, RowOver, Refers
  <1>3. /\ fk \in [FkOf(row.model) -> 0..Len(entries)]
        /\ \A k \in FkOf(row.model) : fk[k] = 0 \/ entries[fk[k]].kind = k
    BY <1>1, <1>2
  <1>4. Forgotten(row, e) = [row EXCEPT !.fk = fk]
    BY <1>1 DEF Forgotten
  <1>5. IsRow([row EXCEPT !.fk = fk]) /\ Alike([row EXCEPT !.fk = fk], row)
    BY <1>3, KeyedRow
  <1> QED BY <1>1, <1>2, <1>4, <1>5 DEF RowSet

LEMMA DeletedSource ==
    ASSUME TypesInv, NEW e, e \in DOMAIN entries, DeleteSource(e)
    PROVE /\ e \in Known(entries) /\ entries[e].kind = "source" /\ UNCHANGED <<made, home, tx, copy, ch>>
          /\ DOMAIN rows' = DOMAIN rows /\ rows' = [r \in DOMAIN rows |-> Forgotten(rows[r], e)]
          /\ \A r \in Known(rows) : rows'[r] = Forgotten(rows[r], e)
          /\ DOMAIN entries' = DOMAIN entries /\ entries'[e].dept = None
          /\ \A x \in Known(entries) : x # e => entries'[x] = entries[x]
  <1>1. ListsInv /\ RowsInv
    BY DEF TypesInv
  <1>2. rows' = [r \in DOMAIN rows |-> Forgotten(rows[r], e)]
    BY DEF DeleteSource, Forgotten
  <1> QED BY <1>1, <1>2, EntryFacts, RowFacts DEF DeleteSource, EntrySet

\* All rows are replaced.
LEMMA RowsEach ==
    ASSUME RowsInv, ListsInv, ListsGrow, ListsInv', rows' = [r \in DOMAIN rows |-> rows'[r]],
           \A r \in Known(rows) : IsRow(rows'[r]) /\ Alike(rows'[r], rows[r])
    PROVE RowsInv' /\ RowsGrow
  <1>1. rows' \in Seq(RowSet) /\ Len(rows') = Len(rows)
    <2>1. rows' \in [1..Len(rows) -> RowSet]
      BY RowFacts DEF IsRow, RowOver, Known
    <2> QED BY <2>1, RowFacts
  <1>2. \A r \in Known(rows') : RowOver(rows'[r], made', entries')
    <2> SUFFICES ASSUME NEW r \in Known(rows) PROVE RowOver(rows'[r], made', entries')
      BY <1>1 DEF Known
    <2>1. PICK row : row = rows'[r]
      OBVIOUS
    <2>2. IsRow(row)'
      BY <2>1, RowStays
    <2> QED BY <2>1, <2>2 DEF IsRow
  <1>3. RowsInv'
    BY <1>1, <1>2 DEF RowsInv, IsRow
  <1> QED BY <1>1, <1>3, RowFacts DEF RowsGrow

LEMMA RowsKept == ASSUME TypesInv, Next PROVE RowsInv' /\ RowsGrow
  <1> USE DEF TypesInv
  <1>1. Frames /\ ListsGrow /\ ListsInv' /\ HomeInv'
    BY StepFrames, ListsKept
  <1>2. ASSUME UNCHANGED rows PROVE RowsInv' /\ RowsGrow
    <2>1. ASSUME NEW q \in Known(rows) PROVE RowOver(rows[q], made', entries')
      <3>1. PICK row : row = rows[q]
        OBVIOUS
      <3>2. IsRow(row)'
        BY <1>1, <3>1, RowFacts, RowStays
      <3> QED BY <3>1, <3>2 DEF IsRow
    <2> QED BY <1>2, <2>1, RowFacts DEF RowsInv, RowsGrow, Alike, IsRow
  <1>3. ASSUME NEW r \in Known(rows), NEW x, IsRow(x), Alike(x, rows[r]),
               rows' = [rows EXCEPT ![r] = x]
        PROVE RowsInv' /\ RowsGrow
    BY <1>1, <1>3, RowReplaced
  <1>4. ASSUME NEW x, IsRow(x), rows' = Append(rows, x) PROVE RowsInv' /\ RowsGrow
    BY <1>1, <1>4, RowAdded
  <1>5. ASSUME UpdateDepartment PROVE RowsInv' /\ RowsGrow
    <2>1. CASE Later = {}
      BY <1>2, <1>5, <2>1 DEF UpdateDepartment
    <2>2. CASE Later # {}
      <3> DEFINE S == OwnedOf(Min(Later))
      <3>1. /\ rows' = [r \in DOMAIN rows |-> IF r \in S THEN [rows[r] EXCEPT !.dept = tr.dept]
                                              ELSE rows[r]]
            /\ tr.dept \in made /\ UNCHANGED <<made, entries>>
        BY <1>5, <2>2, RunningFacts DEF UpdateDepartment, Running
      <3> HIDE DEF S
      <3>2. \A r \in Known(rows) : IsRow(rows'[r]) /\ Alike(rows'[r], rows[r])
        <4> SUFFICES ASSUME NEW r \in Known(rows) PROVE IsRow(rows'[r]) /\ Alike(rows'[r], rows[r])
          OBVIOUS
        <4>1. PICK row : row = rows[r]
          OBVIOUS
        <4>2. IsRow(row) /\ IsRow([row EXCEPT !.dept = tr.dept]) /\ Alike([row EXCEPT !.dept = tr.dept], row)
          <5>1. IsRow(row) /\ tr.dept \in made \cup {None}
            BY <3>1, <4>1, RowFacts
          <5> QED BY <5>1, GivenRow
        <4>3. rows'[r] = row \/ rows'[r] = [row EXCEPT !.dept = tr.dept]
          BY <3>1, <4>1, RowFacts
        <4> QED BY <4>1, <4>2, <4>3 DEF Alike
      <3>3. rows' = [r \in DOMAIN rows |-> rows'[r]]
        BY <3>1
      <3> QED BY <1>1, <3>2, <3>3, RowsEach
    <2> QED BY <2>1, <2>2
  <1>6. ASSUME TransferLists PROVE RowsInv' /\ RowsGrow
    <2>1. tr.at = "lists" /\ tr.cur \in Known(rows)
      BY <1>6, ReplacedLists DEF TransferLists
    <2>2. PICK row, S : row = rows[tr.cur] /\ S = Replaced(rows[tr.cur].m2m)
      OBVIOUS
    <2>3. rows' = [rows EXCEPT ![tr.cur] = [row EXCEPT !.m2m = S]]
      BY <1>6, <2>1, <2>2 DEF TransferLists
    <2>4. IsRow([row EXCEPT !.m2m = S]) /\ Alike([row EXCEPT !.m2m = S], row)
      BY <2>1, <2>2, RowFacts, ReplacedLists, ListedRow
    <2> QED BY <1>3, <2>1, <2>2, <2>3, <2>4
  <1>7. ASSUME NEW r \in DOMAIN rows, TransferRow(r) PROVE RowsInv' /\ RowsGrow
    <2>1. CASE ~Fails(tr.left[r]) /\ Saves(tr.left[r])
      <3>1. tr.at = "rows" /\ r \in DOMAIN tr.left /\ rows' = [rows EXCEPT ![r] = Transferred(r)]
        BY <1>7, <2>1 DEF TransferRow, Transferred, Written
      <3> QED BY <1>3, <2>1, <3>1, TransferredRow
    <2>2. CASE Fails(tr.left[r]) \/ ~Saves(tr.left[r])
      BY <1>2, <1>7, <2>2 DEF TransferRow
    <2> QED BY <2>1, <2>2
  <1>8. ASSUME NEW r \in DOMAIN rows, ChangeOwner(r) PROVE RowsInv' /\ RowsGrow
    <2>1. CASE Dangling(ch.left[r])
      BY <1>2, <1>8, <2>1 DEF ChangeOwner
    <2>2. CASE ~Dangling(ch.left[r])
      <3>1. Changing /\ r \in DOMAIN ch.left /\ rows' = [rows EXCEPT ![r] = HandedTo(r)]
        BY <1>8, <2>2 DEF ChangeOwner, Changing, HandedTo
      <3> QED BY <1>3, <3>1, HandedRow
    <2> QED BY <2>1, <2>2
  <1>9. ASSUME NEW u \in Users, Commit(u) PROVE RowsInv' /\ RowsGrow
    <2>1. CASE Dangling(tx[u].row)
      BY <1>2, <1>9, <2>1 DEF Commit
    <2>2. CASE ~Dangling(tx[u].row) /\ tx[u].at = "add"
      BY <1>4, <1>9, <2>2 DEF Commit, FormInv
    <2>3. CASE ~Dangling(tx[u].row) /\ tx[u].at # "add"
      BY <1>3, <1>9, <2>3 DEF Commit, FormInv
    <2> QED BY <2>1, <2>2, <2>3
  <1>10. ASSUME NEW f \in Forms, SaveRequest(f) \/ SaveMail(f) PROVE RowsInv' /\ RowsGrow
    <2>1. forms[f].at \in {"found", "saved"}
      BY <1>10 DEF SaveRequest, SaveMail
    <2>2. \/ rows' = rows \/ rows' = Append(rows, Asked(f)) \/ rows' = Append(rows, Saved(f, "email"))
      BY <1>10 DEF SaveRequest, SaveMail
    <2> QED BY <1>2, <1>4, <2>1, <2>2, AskedRow
  <1>11. ASSUME NEW e \in DOMAIN entries, DeleteSource(e) PROVE RowsInv' /\ RowsGrow
    <2>1. /\ rows' = [r \in DOMAIN rows |-> rows'[r]]
          /\ \A r \in Known(rows) : rows'[r] = Forgotten(rows[r], e)
      BY <1>11, DeletedSource
    <2>2. \A r \in Known(rows) : IsRow(rows'[r]) /\ Alike(rows'[r], rows[r])
      BY <2>1, RowFacts, ForgottenRow
    <2> QED BY <1>1, <2>1, <2>2, RowsEach
  <1> QED BY <1>1, <1>2, <1>5, <1>6, <1>7, <1>8, <1>9, <1>10, <1>11
      DEF Frames, RowStep, OwnRowStep, OtherRowStep, NewRowStep, DeleteStep

\* What is known of part of the rows stays known.
LEMMA PartStays ==
    ASSUME NEW f, PartOf(f), ListsInv, RowsInv, ListsGrow, ListsInv', RowsInv', RowsGrow
    PROVE PartOf(f)'
  <1>1. Known(rows) \subseteq Known(rows')
    BY RowFacts, LenProperties DEF RowsGrow, RowsInv, Known
  <1> SUFFICES ASSUME NEW r \in DOMAIN f
               PROVE r \in Known(rows') /\ RowOver(f[r], made', entries') /\ Alike(f[r], rows'[r])
    BY DEF PartOf, IsRow
  <1>2. PICK row : row = f[r]
    OBVIOUS
  <1>3. IsRow(row)'
    BY <1>2, RowStays DEF PartOf
  <1> QED BY <1>1, <1>2, <1>3 DEF PartOf, IsRow, RowsGrow, Alike

LEMMA PartRestrict ==
    ASSUME NEW f, PartOf(f), NEW S PROVE PartOf(Restrict(f, DOMAIN f \ S))
  BY DEF PartOf, Restrict

LEMMA PartOfRows ==
    ASSUME RowsInv, NEW S, S \subseteq Known(rows) PROVE PartOf(Restrict(rows, S))
  BY RowFacts DEF PartOf, Restrict, Alike

\* A form of a contact takes owner and department of a company; a row that is
\* added.
LEMMA PlacedRow ==
    ASSUME RowsInv, HomeInv, NEW base, IsRow(base), NEW new, new \in Placed(base)
    PROVE /\ IsRow(new) /\ Alike(new, base) /\ (new.model = "contact" \/ new = base)
          /\ new.fk = base.fk /\ new.m2m = base.m2m
          /\ new.model = "contact" =>
               /\ new.company \in Companies
               /\ new.owner = rows[new.company].owner /\ new.dept = rows[new.company].dept
  <1>1. base \in RowSet
    BY DEF IsRow, RowOver
  <1>2. CASE base.model # "contact"
    BY <1>2 DEF Placed, Alike
  <1>3. CASE base.model = "contact"
    <2>1. PICK c \in Companies : new = [base EXCEPT !.company = c, !.owner = rows[c].owner, !.dept = rows[c].dept]
      BY <1>3 DEF Placed
    <2>2. /\ c \in Nat /\ c # 0 /\ rows[c].owner \in Users \cup {None}
          /\ rows[c].dept \in made \cup {None} /\ rows[c].dept \in Depts \cup {None}
      BY RowFacts DEF Companies, Known, RowSet, IsRow, RowOver
    <2>3. new \in RowSet
      BY <1>1, <2>1, <2>2 DEF RowSet
    <2>4. /\ new.model = base.model /\ new.fk = base.fk /\ new.m2m = base.m2m /\ new.company = c
          /\ new.dept = rows[c].dept /\ new.owner = rows[c].owner
      BY <1>1, <2>1 DEF RowSet
    <2> QED BY <1>3, <2>2, <2>3, <2>4 DEF IsRow, RowOver, Refers, Alike
  <1> QED BY <1>2, <1>3

LEMMA AddedRow ==
    ASSUME TypesInv, NEW u \in Users, NEW m \in Adding, BeginAdd(u, m)
    PROVE \E new : /\ tx' = [tx EXCEPT ![u] = [at |-> "add", id |-> 0, row |-> new]]
                   /\ IsRow(new) /\ (new.model = "contact" \/ new.owner = u)
                   /\ new.model = "contact" =>
                        /\ new.company \in Companies
                        /\ new.owner = rows[new.company].owner /\ new.dept = rows[new.company].dept
                   /\ \A k \in DOMAIN new.fk : new.fk[k] \in Offered(k, home[u])
  <1> USE DEF TypesInv
  <1>1. m \in Models /\ home[u] \in made \cup {None} /\ u \in Users \cup {None}
    BY SiteFormsAssumption DEF SiteFormsAssumption, HomeInv
  <1>2. PICK fk \in [FkOf(m) -> {0} \cup DOMAIN entries] :
          /\ \A k \in DOMAIN fk : fk[k] \in Offered(k, home[u])
          /\ \E new \in Placed([Row(m, u, home[u], 0) EXCEPT !.fk = fk]) :
               tx' = [tx EXCEPT ![u] = [at |-> "add", id |-> 0, row |-> new]]
    BY DEF BeginAdd
  <1>3. PICK c \in Nat : c = IF m = "contact" THEN 1 ELSE 0
    OBVIOUS
  <1> DEFINE row == Row(m, u, home[u], c)
             one == [row EXCEPT !.fk = fk]
  <1>4. IsRow(row) /\ row.model = m
    <2>1. c # 0 <=> m = "contact"
      BY <1>3
    <2>2. row.model = m
      BY DEF Row
    <2> QED BY <1>1, <2>1, <2>2, NewRow
  <1>5. Placed([Row(m, u, home[u], 0) EXCEPT !.fk = fk]) \subseteq Placed(one)
    <2>1. PICK a : a = [Row(m, u, home[u], 0) EXCEPT !.fk = fk]
      OBVIOUS
    <2>2. a = [model |-> m, owner |-> u, dept |-> home[u], company |-> 0, fk |-> fk, m2m |-> {}]
      BY <2>1 DEF Row
    <2>3. one = [model |-> m, owner |-> u, dept |-> home[u], company |-> c, fk |-> fk, m2m |-> {}]
      BY DEF Row
    <2>4. CASE m # "contact"
      BY <1>3, <2>1, <2>2, <2>3, <2>4
    <2>5. CASE m = "contact"
      <3>1. a.model = m /\ one.model = m
        BY <2>2, <2>3
      <3> HIDE DEF one
      <3>2. SUFFICES ASSUME NEW new, new \in Placed(a) PROVE new \in Placed(one)
        BY <2>1
      <3>3. PICK x \in Companies : new = [a EXCEPT !.company = x, !.owner = rows[x].owner, !.dept = rows[x].dept]
        BY <2>5, <3>1, <3>2 DEF Placed
      <3>4. PICK y, z : y = rows[x].owner /\ z = rows[x].dept
        OBVIOUS
      <3>5. new = [model |-> m, owner |-> y, dept |-> z, company |-> x, fk |-> fk, m2m |-> {}]
        BY <2>2, <3>3, <3>4
      <3>6. PICK b : b = one
        OBVIOUS
      <3>7. b = [model |-> m, owner |-> u, dept |-> home[u], company |-> c, fk |-> fk, m2m |-> {}]
        BY <2>3, <3>6
      <3>8. new = [b EXCEPT !.company = x, !.owner = y, !.dept = z]
        <4>1. PICK w : w = [b EXCEPT !.company = x, !.owner = y, !.dept = z]
          OBVIOUS
        <4>2. w = [model |-> m, owner |-> y, dept |-> z, company |-> x, fk |-> fk, m2m |-> {}]
          BY <3>7, <4>1
        <4> QED BY <3>5, <4>1, <4>2
      <3>9. new \in Placed(b)
        BY <2>5, <3>1, <3>4, <3>6, <3>8 DEF Placed
      <3> QED BY <3>6, <3>9
    <2> QED BY <2>4, <2>5
  <1>6. PICK new \in Placed(one) : tx' = [tx EXCEPT ![u] = [at |-> "add", id |-> 0, row |-> new]]
    BY <1>2, <1>5
  <1>7. one.owner = u /\ one.fk = fk
    BY DEF Row
  <1> HIDE DEF row
  <1>8. IsRow(one)
    <2>1. fk \in [FkOf(m) -> 0..Len(entries)]
      BY <1>2, EntryFacts DEF Known
    <2>2. \A k \in FkOf(m) : fk[k] = 0 \/ entries[fk[k]].kind = k
      BY <1>2 DEF Offered, EntriesOf
    <2> QED BY <1>4, <2>1, <2>2, KeyedRow
  <1> HIDE DEF one
  <1>9. /\ IsRow(new) /\ (new.model = "contact" \/ new = one) /\ new.fk = one.fk
        /\ new.model = "contact" =>
               /\ new.company \in Companies
               /\ new.owner = rows[new.company].owner /\ new.dept = rows[new.company].dept
    BY <1>6, <1>8, PlacedRow
  <1> QED BY <1>2, <1>6, <1>7, <1>9

LEMMA EditedRow ==
    ASSUME TypesInv, NEW u \in Users, NEW r \in DOMAIN rows, BeginEdit(u, r)
    PROVE \E new : /\ tx' = [tx EXCEPT ![u] = [at |-> "edit", id |-> r, row |-> new]]
                   /\ IsRow(new) /\ Alike(new, rows[r]) /\ (new.model = "contact" \/ new.owner = u)
                   /\ new.model = "contact" =>
                        /\ new.company \in Companies
                        /\ new.owner = rows[new.company].owner /\ new.dept = rows[new.company].dept
                   /\ \A k \in DOMAIN new.fk : new.fk[k] = rows[r].fk[k] \/ new.fk[k] \in Offered(k, home[u])
  <1> USE DEF TypesInv
  <1>1. PICK row : row = rows[r]
    OBVIOUS
  <1>2. IsRow(row) /\ row \in RowSet /\ r \in Known(rows)
    BY <1>1, RowFacts
  <1> DEFINE S == {e \in row.m2m : entries[e].dept = home[u]}
  <1>3. PICK fk \in [DOMAIN rows[r].fk -> {0} \cup DOMAIN entries] :
          /\ \A k \in DOMAIN fk : LET now == rows[r].fk[k]
                                  IN  IF now \in Offered(k, home[u]) THEN fk[k] = now
                                      ELSE fk[k] \in Offered(k, home[u])
          /\ \E new \in Placed([rows[r] EXCEPT !.fk = fk, !.m2m = {e \in @ : entries[e].dept = home[u]}]) :
               tx' = [tx EXCEPT ![u] = [at |-> "edit", id |-> r, row |-> new]]
    BY DEF BeginEdit
  <1>4. /\ fk \in [FkOf(row.model) -> 0..Len(entries)]
        /\ \A k \in FkOf(row.model) : fk[k] = 0 \/ entries[fk[k]].kind = k
    <2>1. DOMAIN fk = FkOf(row.model) /\ fk = [k \in DOMAIN fk |-> fk[k]]
      BY <1>1, <1>2, <1>3 DEF IsRow, RowOver, Refers
    <2>2. ASSUME NEW k \in FkOf(row.model)
          PROVE fk[k] \in 0..Len(entries) /\ (fk[k] = 0 \/ entries[fk[k]].kind = k)
      <3>1. fk[k] = row.fk[k] \/ fk[k] \in Offered(k, home[u])
        BY <1>1, <1>3, <2>1, <2>2
      <3>2. row.fk[k] \in 0..Len(entries) /\ (row.fk[k] = 0 \/ entries[row.fk[k]].kind = k)
        BY <1>2 DEF IsRow, RowOver, Refers
      <3> QED BY <3>1, <3>2, EntryFacts DEF Offered, EntriesOf, Known
    <2> QED BY <2>1, <2>2
  <1> DEFINE one == [row EXCEPT !.fk = fk]
             two == [one EXCEPT !.m2m = S]
  <1>5. PICK new \in Placed(two) : tx' = [tx EXCEPT ![u] = [at |-> "edit", id |-> r, row |-> new]]
    <2>1. two = [rows[r] EXCEPT !.fk = fk, !.m2m = {e \in @ : entries[e].dept = home[u]}]
      BY <1>1, <1>2 DEF RowSet
    <2> QED BY <1>3, <2>1
  <1>6. IsRow(one) /\ Alike(one, row)
    BY <1>2, <1>4, KeyedRow
  <1>7. IsRow(two) /\ Alike(two, one) /\ two.owner = row.owner /\ two.fk = fk
    <2>1. \A e \in S : e \in Known(entries) /\ entries[e].kind \in ListsOf(one.model)
      BY <1>2, <1>6 DEF IsRow, RowOver, Refers, Known, Alike
    <2>2. two.owner = row.owner /\ two.fk = fk
      BY <1>2 DEF RowSet
    <2> HIDE DEF S, one
    <2> QED BY <1>6, <2>1, <2>2, ListedRow
  <1> HIDE DEF two
  <1>8. row.owner = u
    BY <1>1 DEF BeginEdit, RowsOf
  <1>9. /\ IsRow(new) /\ Alike(new, two) /\ (new.model = "contact" \/ new = two) /\ new.fk = two.fk
        /\ new.model = "contact" =>
             /\ new.company \in Companies
             /\ new.owner = rows[new.company].owner /\ new.dept = rows[new.company].dept
    BY <1>5, <1>7, PlacedRow
  <1>10. \A k \in DOMAIN new.fk : new.fk[k] = rows[r].fk[k] \/ new.fk[k] \in Offered(k, home[u])
    BY <1>3, <1>7, <1>9
  <1> QED BY <1>1, <1>5, <1>6, <1>7, <1>8, <1>9, <1>10 DEF Alike

LEMMA FormsKept == ASSUME TypesInv, Next PROVE FormInv'
  <1> USE DEF TypesInv
  <1>1. Frames /\ ListsGrow /\ ListsInv' /\ RowsInv' /\ RowsGrow
    BY StepFrames, ListsKept, RowsKept
  <1>2. Known(rows) \subseteq Known(rows')
    BY <1>1, RowFacts, LenProperties DEF RowsGrow, RowsInv, Known
  <1>3. ASSUME NEW u \in Users, tx[u] # Idle, tx'[u] = tx[u]
        PROVE (/\ tx[u] = [at |-> tx[u].at, id |-> tx[u].id, row |-> tx[u].row]
               /\ IsRow(tx[u].row) /\ (tx[u].row.model = "contact" \/ tx[u].row.owner = u)
               /\ \/ tx[u].at = "edit" /\ tx[u].id \in Known(rows) /\ Alike(tx[u].row, rows[tx[u].id])
                  \/ tx[u].at = "add" /\ tx[u].id = 0)'
    <2>1. PICK t : t = tx[u]
      OBVIOUS
    <2>2. IsRow(t.row)'
      <3>1. PICK row : row = t.row
        OBVIOUS
      <3>2. IsRow(row)
        BY <1>3, <2>1, <3>1 DEF FormInv
      <3> QED BY <1>1, <3>1, <3>2, RowStays
    <2> QED BY <1>1, <1>2, <1>3, <2>1, <2>2 DEF FormInv, RowsGrow, Alike, IsRow
  <1>4. ASSUME NEW u \in Users, NEW t, tx' = [tx EXCEPT ![u] = t], UNCHANGED <<made, entries, rows>>,
               /\ t = [at |-> t.at, id |-> t.id, row |-> t.row]
               /\ IsRow(t.row) /\ (t.row.model = "contact" \/ t.row.owner = u)
               /\ \/ t.at = "edit" /\ t.id \in Known(rows) /\ Alike(t.row, rows[t.id])
                  \/ t.at = "add" /\ t.id = 0
        PROVE FormInv'
    <2>1. DOMAIN tx' = Users /\ tx'[u] = t /\ \A v \in Users \ {u} : tx'[v] = tx[v]
      BY <1>4 DEF FormInv
    <2> SUFFICES ASSUME NEW v \in Users, tx'[v] # Idle
                 PROVE (/\ tx[v] = [at |-> tx[v].at, id |-> tx[v].id, row |-> tx[v].row]
                        /\ IsRow(tx[v].row) /\ (tx[v].row.model = "contact" \/ tx[v].row.owner = v)
                        /\ \/ tx[v].at = "edit" /\ tx[v].id \in Known(rows) /\ Alike(tx[v].row, rows[tx[v].id])
                           \/ tx[v].at = "add" /\ tx[v].id = 0)'
      BY <2>1 DEF FormInv
    <2>2. CASE v = u
      BY <1>4, <2>1, <2>2 DEF IsRow
    <2>3. CASE v # u
      BY <1>3, <2>1, <2>3
    <2> QED BY <2>2, <2>3
  <1>5. ASSUME NEW u \in Users, Commit(u) PROVE FormInv'
    <2>1. DOMAIN tx' = Users /\ tx'[u] = Idle /\ \A v \in Users \ {u} : tx'[v] = tx[v]
      BY <1>5 DEF Commit, FormInv
    <2> QED BY <1>3, <2>1 DEF FormInv
  <1>6. ASSUME NEW u \in Users, NEW r \in DOMAIN rows, BeginEdit(u, r) PROVE FormInv'
    <2>1. PICK new : /\ tx' = [tx EXCEPT ![u] = [at |-> "edit", id |-> r, row |-> new]]
                     /\ IsRow(new) /\ Alike(new, rows[r]) /\ (new.model = "contact" \/ new.owner = u)
      BY <1>6, EditedRow
    <2>2. PICK t : t = [at |-> "edit", id |-> r, row |-> new]
      OBVIOUS
    <2>3. t = [at |-> t.at, id |-> t.id, row |-> t.row] /\ t.at = "edit" /\ t.id = r /\ t.row = new
      BY <2>2
    <2>4. tx' = [tx EXCEPT ![u] = t] /\ UNCHANGED <<made, entries, rows>> /\ r \in Known(rows)
      BY <1>6, <2>1, <2>2, RowFacts DEF BeginEdit
    <2> QED BY <1>4, <2>1, <2>3, <2>4
  <1>7. ASSUME NEW u \in Users, NEW m \in Adding, BeginAdd(u, m) PROVE FormInv'
    <2>1. PICK new : /\ tx' = [tx EXCEPT ![u] = [at |-> "add", id |-> 0, row |-> new]]
                     /\ IsRow(new) /\ (new.model = "contact" \/ new.owner = u)
      BY <1>7, AddedRow
    <2>2. PICK t : t = [at |-> "add", id |-> 0, row |-> new]
      OBVIOUS
    <2>3. t = [at |-> t.at, id |-> t.id, row |-> t.row] /\ t.at = "add" /\ t.id = 0 /\ t.row = new
      BY <2>2
    <2>4. tx' = [tx EXCEPT ![u] = t] /\ UNCHANGED <<made, entries, rows>>
      BY <1>7, <2>1, <2>2 DEF BeginAdd
    <2> QED BY <1>4, <2>1, <2>3, <2>4
  <1>8. ASSUME UNCHANGED tx PROVE FormInv'
    BY <1>3, <1>8 DEF FormInv
  <1> QED BY <1>1, <1>5, <1>6, <1>7, <1>8 DEF Frames, FormStep

LEMMA CopyKept == ASSUME TypesInv, Next PROVE CopyInv'
  <1> USE DEF TypesInv
  <1>1. Frames /\ ListsGrow /\ ListsInv'
    BY StepFrames, ListsKept
  <1>2. Known(entries) \subseteq Known(entries') /\ made \subseteq made'
    BY <1>1, EntryFacts, LenProperties DEF ListsGrow, ListsInv, Known
  <1>3. ASSUME NEW e \in Known(entries)
        PROVE /\ entries'[e].kind = entries[e].kind
              /\ entries[e].kind \notin {"source", "tag"} => entries'[e].dept = entries[e].dept
    BY <1>1 DEF ListsGrow
  <1>4. ASSUME UNCHANGED copy PROVE CopyInv'
    <2>1. CASE copy \in {Idle, [at |-> "died"]}
      BY <1>4, <2>1 DEF SavesCopy, CopyInv
    <2>2. CASE copy \in Copies /\ copy.at # "save" /\ copy.of # copy.to
      <3>1. copy' \in Copies'
        BY <1>2, <1>4, <2>2 DEF Copies
      <3> QED BY <1>4, <2>2, <3>1 DEF SavesCopy, CopyInv
    <2>3. CASE copy \in Copies /\ copy.at = "save" /\ copy.of # copy.to
      <3>1. copy' \in Copies'
        BY <1>2, <1>4, <2>3 DEF Copies
      <3>2. copy.left \subseteq Known(entries) /\ copy.i \in 1..7 /\ copy.i > 1 /\ copy.left # {}
        BY <2>3 DEF SavesCopy, CopyInv, Copies, Idle
      <3>3. Copied[copy.i - 1] # "tag"
        BY <3>2 DEF Copied
      <3>4. \A e \in copy.left : /\ entries[e].kind = Copied[copy.i - 1]
                                 /\ entries[e].kind # "source" => entries[e].dept = copy.of
        BY <2>3, CopyFrame
      <3> QED BY <1>3, <1>4, <2>3, <3>1, <3>2, <3>3, <3>4 DEF SavesCopy, CopyInv
    <2> QED BY <2>1, <2>2, <2>3 DEF SavesCopy, CopyInv
  <1>5. ASSUME NEW d \in Depts, NEW c \in Depts, StartCopy(d, c) PROVE CopyInv'
    BY <1>5, EntryFacts DEF StartCopy, SavesCopy, CopyInv, Copies
  <1>6. ASSUME CopyDies PROVE CopyInv'
    BY <1>6 DEF CopyDies, CopyInv
  <1>7. ASSUME CopyLoad PROVE CopyInv'
    <2>1. copy \in Copies /\ copy.of # copy.to /\ copy.at = "load" /\ UNCHANGED <<made, entries>>
      BY <1>7 DEF CopyLoad, CopyInv, Idle
    <2>2. CASE Uncopied(copy.i) = {}
      BY <1>7, <2>1, <2>2 DEF CopyLoad, SavesCopy, CopyInv, Copies
    <2>3. CASE Uncopied(copy.i) # {}
      <3>1. Min(Uncopied(copy.i)) \in Uncopied(copy.i)
        <4>1. Uncopied(copy.i) \in SUBSET Nat
          BY <2>1 DEF Uncopied, Copies, Copied
        <4> QED BY <2>3, <4>1, LeastOf
      <3>2. PICK i \in 1..6 : i = Min(Uncopied(copy.i)) /\ EntriesOf(Copied[i], copy.of) # {}
        BY <2>1, <3>1 DEF Uncopied, Copies, Copied
      <3>3. copy' = [copy EXCEPT !.at = "save", !.i = i + 1, !.left = EntriesOf(Copied[i], copy.of)]
        BY <1>7, <2>3, <3>2 DEF CopyLoad
      <3>4. EntriesOf(Copied[i], copy.of) \subseteq Known(entries)
        BY EntryFacts DEF EntriesOf
      <3>5. copy' \in Copies
        <4>1. i + 1 \in 1..7
          OBVIOUS
        <4>2. PICK S \in SUBSET Known(entries) : S = EntriesOf(Copied[i], copy.of)
          BY <3>4
        <4> QED BY <2>1, <3>3, <4>1, <4>2 DEF Copies
      <3>6. /\ copy'.left = EntriesOf(Copied[i], copy.of) /\ copy'.i = i + 1 /\ copy'.of = copy.of
            /\ copy'.to = copy.to
        BY <2>1, <3>3 DEF Copies
      <3>7. \A e \in copy'.left : entries[e].kind = Copied[copy'.i - 1] /\ entries[e].dept = copy'.of
        BY <3>6 DEF EntriesOf
      <3>8. Copies' = Copies
        BY <2>1 DEF Copies
      <3> QED BY <2>1, <3>2, <3>5, <3>6, <3>7, <3>8 DEF SavesCopy, CopyInv
    <2> QED BY <2>2, <2>3
  <1>8. ASSUME CopySave PROVE CopyInv'
    <2>1. copy \in Copies /\ copy.of # copy.to /\ copy.at = "save" /\ UNCHANGED made /\ copy.i > 1
      BY <1>8 DEF CopySave, SavesCopy, CopyInv, Idle
    <2>2. PICK e : e = Min(copy.left)
      OBVIOUS
    <2>3. copy' = [copy EXCEPT !.left = @ \ {e}, !.at = IF copy.left = {e} THEN "load" ELSE "save"]
      BY <1>8, <2>2 DEF CopySave
    <2>4. /\ copy' \in Copies /\ copy'.left = copy.left \ {e} /\ copy'.of = copy.of /\ copy'.i = copy.i
          /\ copy'.to = copy.to /\ copy'.at = IF copy.left = {e} THEN "load" ELSE "save"
      BY <2>1, <2>3 DEF Copies
    <2>5. copy' \in Copies'
      BY <1>2, <2>1, <2>4 DEF Copies
    <2>6. copy.left \subseteq Known(entries) /\ copy.i \in 1..7
      BY <2>1 DEF Copies
    <2>7. Copied[copy.i - 1] # "tag"
      BY <2>1, <2>6 DEF Copied
    <2>8. copy'.at = "save" =>
              /\ copy'.left # {}
              /\ \A x \in copy'.left :
                   /\ entries'[x].kind = Copied[copy'.i - 1]
                   /\ entries'[x].kind # "source" => entries'[x].dept = copy'.of
      BY <1>3, <2>1, <2>4, <2>6, <2>7, CopyFrame
    <2>9. copy'.at = "save" => copy'.i > 1
      BY <2>1, <2>4
    <2>10. copy'.of # copy'.to
      BY <2>1, <2>4
    <2>11. SavesCopy'
      <3>1. Copied[copy'.i - 1] = (Copied[copy.i - 1])'
        BY DEF Copied
      <3> QED BY <2>8, <2>9, <3>1 DEF SavesCopy
    <2> QED BY <2>5, <2>10, <2>11 DEF SavesCopy, CopyInv
  <1> QED BY <1>1, <1>4, <1>5, <1>6, <1>7, <1>8 DEF Frames, CopyStep, StartCopyStep

LEMMA SitesKept == ASSUME TypesInv, Next PROVE SiteInv'
  <1> USE DEF TypesInv
  <1>1. Frames /\ ListsGrow /\ ListsInv'
    BY StepFrames, ListsKept
  <1>2. /\ made \subseteq made'
        /\ {e \in Known(entries) : entries[e].kind = "source"}
             \subseteq {e \in Known(entries') : entries'[e].kind = "source"}
    <2>1. Known(entries) \subseteq Known(entries')
      BY <1>1, EntryFacts, LenProperties DEF ListsGrow, ListsInv, Known
    <2> QED BY <1>1, <2>1 DEF ListsGrow
  <1>3. ASSUME UNCHANGED forms PROVE SiteInv'
    BY <1>2, <1>3 DEF SiteInv
  <1>4. ASSUME NEW f \in Forms, NEW key \in Keys, PostForm(f, key) PROVE SiteInv'
    <2>1. key \in Nat
      BY EntryFacts DEF Keys, ListsInv, Known
    <2>2. CASE Cardinality(SourcesOf(key)) # 1
      <3> DEFINE a == IF SourcesOf(key) = {} THEN "refused" ELSE "lost"
      <3>1. forms' = [forms EXCEPT ![f] = [at |-> a, key |-> key]] /\ a \in {"refused", "lost"}
        BY <1>4, <2>2 DEF PostForm
      <3> HIDE DEF a
      <3> QED BY <1>2, <2>1, <3>1 DEF SiteInv
    <2>3. CASE Cardinality(SourcesOf(key)) = 1
      <3>1. PICK e : e = CHOOSE x \in SourcesOf(key) : TRUE
        OBVIOUS
      <3>2. SourcesOf(key) # {}
        BY <2>3, FS_EmptySet
      <3>3. entries[e].dept \in made /\ e \in Known(entries) /\ entries[e].kind = "source"
        <4>1. e \in SourcesOf(key)
          BY <3>1, <3>2
        <4> QED BY <4>1, EntryFacts DEF SourcesOf, ListsInv
      <3>4. PICK u \in {None} \cup {rows[c].owner : c \in {r \in DOMAIN rows : rows[r].model = "contact"}} :
              forms' = [forms EXCEPT ![f] =
                [at |-> "found", source |-> e, dept |-> entries[e].dept, owner |-> u]]
        BY <1>4, <2>3, <3>1 DEF PostForm
      <3>5. u \in Users \cup {None}
        BY RowFacts DEF RowSet
      <3> QED BY <1>2, <3>3, <3>4, <3>5 DEF SiteInv
    <2> QED BY <2>2, <2>3
  <1>5. ASSUME NEW f \in Forms, SaveRequest(f) \/ SaveMail(f) PROVE SiteInv'
    <2> DEFINE G == [at : {"found", "saved", "done", "failed"}, dept : made, owner : Users \cup {None},
                     source : {e \in Known(entries) : entries[e].kind = "source"}]
    <2>1. forms[f] \in G
      BY <1>5 DEF SaveRequest, SaveMail, SiteInv, Idle
    <2>2. PICK a \in {"saved", "done", "failed"} : forms' = [forms EXCEPT ![f].at = a]
      BY <1>5 DEF SaveRequest, SaveMail
    <2>3. /\ [forms[f] EXCEPT !.at = a] \in G
          /\ forms' = [forms EXCEPT ![f] = [forms[f] EXCEPT !.at = a]]
      BY <2>1, <2>2 DEF SiteInv
    <2> QED BY <1>2, <2>3 DEF SiteInv
  <1> QED BY <1>1, <1>3, <1>4, <1>5 DEF Frames, SiteStep

\* What is known of a transfer, when the lists and rows grow, when it is given
\* up, and when rows are no longer its own.
LEMMA TransferStays ==
    ASSUME NEW t, Transferring(t), ListsInv, RowsInv, ListsGrow, ListsInv', RowsInv', RowsGrow
    PROVE Transferring(t)'
  <1>1. PartOf(t.left)' /\ PartOf(t.before)'
    <2>1. PICK f, g : f = t.left /\ g = t.before
      OBVIOUS
    <2>2. PartOf(f)' /\ PartOf(g)'
      BY <2>1, PartStays DEF Transferring
    <2> QED BY <2>1, <2>2
  <1>2. t.dept \in made' /\ t.known \in 0..Len(entries')
    BY EntryFacts, LenProperties DEF Transferring, ListsGrow, ListsInv
  <1>3. \A r \in DOMAIN t.left : t.left[r].model = Objects[t.i].model <=> t.left[r].model = (Objects[t.i].model)'
    BY DEF Objects
  <1> QED BY <1>1, <1>2, <1>3 DEF Transferring

LEMMA NothingLeft == PartOf(<<>>)
  BY DEF PartOf

LEMMA TransferWaits ==
    ASSUME Transferring(tr), NEW a \in {"update", "load", "done", "error", "died"}, NEW i \in 1..11,
           a = "load" => i \in 1..10, NEW c
    PROVE Transferring([tr EXCEPT !.at = a, !.i = i, !.left = <<>>, !.cur = c])
  <1>1. PICK b : b = [tr EXCEPT !.at = a, !.i = i, !.left = <<>>, !.cur = c]
    OBVIOUS
  <1>2. Transferring(b)
    BY <1>1, NothingLeft DEF Transferring
  <1> QED BY <1>1, <1>2

LEMMA TransferSaves ==
    ASSUME Transferring(tr), NEW a \in {"rows", "lists"}, NEW i \in 1..10, NEW f, PartOf(f),
           \A r \in DOMAIN f : f[r].model = Objects[i].model, NEW c,
           a = "lists" => c \in DOMAIN f, a = "rows" => c = 0
    PROVE Transferring([tr EXCEPT !.at = a, !.i = i, !.left = f, !.cur = c])
  <1>1. PICK b : b = [tr EXCEPT !.at = a, !.i = i, !.left = f, !.cur = c]
    OBVIOUS
  <1>2. /\ b = [at |-> a, user |-> tr.user, dept |-> tr.dept, i |-> i, left |-> f,
                cur |-> c, before |-> tr.before, known |-> tr.known, sure |-> tr.sure]
        /\ b.at = a /\ b.user = tr.user /\ b.dept = tr.dept /\ b.i = i /\ b.left = f
        /\ b.cur = c /\ b.before = tr.before /\ b.known = tr.known /\ b.sure = tr.sure
    BY <1>1 DEF Transferring
  <1>3. i \in 1..11
    OBVIOUS
  <1>4. Transferring(b)
    BY <1>2, <1>3 DEF Transferring
  <1> QED BY <1>1, <1>4

LEMMA TransferForgot ==
    ASSUME TransferInv, NEW S, NEW b, b = TransferForgets(S)
    PROVE b = Idle \/ Transferring(b)
  <1>1. CASE tr = Idle
    BY <1>1 DEF TransferForgets, Idle
  <1>2. CASE Transferring(tr)
    <2>1. b = [tr EXCEPT !.before = Restrict(tr.before, DOMAIN tr.before \ S)]
      BY <1>2 DEF Transferring, TransferForgets
    <2>2. PICK f : f = Restrict(tr.before, DOMAIN tr.before \ S)
      OBVIOUS
    <2>3. PartOf(f)
      BY <1>2, <2>2, PartRestrict DEF Transferring
    <2> QED BY <1>2, <2>1, <2>2, <2>3 DEF Transferring
  <1> QED BY <1>1, <1>2 DEF TransferInv

\* After a row the next one, after the rows of a model the next model.
LEMMA TransferGoes ==
    ASSUME Transferring(tr), tr.i \in 1..10, NEW f, PartOf(f),
           \A r \in DOMAIN f : f[r].model = Objects[tr.i].model
    PROVE LET t == [tr EXCEPT !.left = f]
          IN /\ Transferring(Next1(t)) /\ Transferring(NextModel(t))
             /\ NextModel(t) = [tr EXCEPT !.at = "update", !.i = tr.i + 1, !.left = <<>>, !.cur = 0]
             /\ Next1(t) = IF DOMAIN f = {} THEN NextModel(t)
                           ELSE [tr EXCEPT !.at = "rows", !.i = tr.i, !.left = f, !.cur = 0]
  <1> DEFINE t == [tr EXCEPT !.left = f]
             x == [tr EXCEPT !.at = "update", !.i = tr.i + 1, !.left = <<>>, !.cur = 0]
             y == [tr EXCEPT !.at = "rows", !.i = tr.i, !.left = f, !.cur = 0]
  <1>1. NextModel(t) = x
    BY DEF Transferring, NextModel
  <1>2. Next1(t) = IF DOMAIN f = {} THEN NextModel(t) ELSE y
    BY DEF Transferring, Next1
  <1>3. tr.i + 1 \in 1..11 /\ tr.i \in 1..11
    OBVIOUS
  <1>4. Transferring(x)
    BY <1>3, TransferWaits
  <1>5. Transferring(y)
    BY TransferSaves
  <1> HIDE DEF x, y, t
  <1>6. Transferring(Next1(t)) /\ Transferring(NextModel(t))
    BY <1>1, <1>2, <1>4, <1>5
  <1> QED BY <1>1, <1>2, <1>6 DEF t, x, y

LEMMA TransferKept == ASSUME TypesInv, Next PROVE TransferInv'
  <1> USE DEF TypesInv
  <1>1. Frames /\ ListsGrow /\ ListsInv' /\ HomeInv' /\ RowsInv' /\ RowsGrow
    BY StepFrames, ListsKept, RowsKept
  <1>2. ASSUME NEW t, tr' = t, t = Idle \/ Transferring(t) PROVE TransferInv'
    <2>1. CASE t = Idle
      BY <1>2, <2>1 DEF TransferInv, Idle
    <2>2. CASE Transferring(t)
      <3>1. Transferring(t)'
        BY <1>1, <2>2, TransferStays
      <3> QED BY <1>2, <3>1 DEF TransferInv, Transferring
    <2> QED BY <1>2, <2>1, <2>2
  <1>3. ASSUME NEW u \in Movable, NEW d \in Depts, StartTransfer(u, d) PROVE TransferInv'
    <2>1. PICK f, b : /\ f = Restrict(rows, RowsOf(u)) /\ b \in BOOLEAN
                      /\ b = Sure(u, d)
      BY DEF Sure
    <2>2. u \in Users /\ d \in made /\ Len(entries) \in 0..Len(entries)
      BY <1>3, EntryFacts, SiteFormsAssumption DEF StartTransfer, SiteFormsAssumption
    <2>3. PartOf(f) /\ PartOf(<<>>)
      BY <2>1, RowFacts, PartOfRows, NothingLeft DEF RowsOf
    <2>4. PICK t : t = [at |-> "add", user |-> u, dept |-> d, i |-> 1, left |-> <<>>, cur |-> 0,
                        before |-> f, known |-> Len(entries), sure |-> b]
      OBVIOUS
    <2>5. Transferring(t)
      BY <2>1, <2>2, <2>3, <2>4 DEF Transferring
    <2>6. tr' = t
      BY <1>3, <2>1, <2>4 DEF StartTransfer
    <2> QED BY <1>2, <2>5, <2>6
  <1>4. CASE AddGroup
    <2>1. tr.at = "add" /\ Transferring(tr) /\ tr' = [tr EXCEPT !.at = "update"]
      BY <1>4 DEF AddGroup, TransferInv, Idle
    <2>2. PICK t : t = tr'
      OBVIOUS
    <2>3. t = [tr EXCEPT !.at = "update", !.i = tr.i, !.left = <<>>, !.cur = tr.cur]
      BY <2>1, <2>2 DEF Transferring
    <2>4. Transferring(t)
      <3>1. tr.i \in 1..11
        BY <2>1 DEF Transferring
      <3> QED BY <2>1, <2>3, <3>1, TransferWaits
    <2> QED BY <1>2, <2>2, <2>4
  <1>5. CASE UpdateDepartment
    <2>1. tr.at = "update" /\ Transferring(tr) /\ tr.i \in 1..11 /\ tr.left = <<>>
      BY <1>5 DEF UpdateDepartment, TransferInv, Transferring, Idle
    <2>2. PICK t : t = tr'
      OBVIOUS
    <2>3. CASE Later = {}
      <3>1. t = [tr EXCEPT !.at = "done", !.i = tr.i, !.left = <<>>, !.cur = tr.cur]
        BY <1>5, <2>1, <2>2, <2>3 DEF UpdateDepartment, Transferring
      <3> QED BY <1>2, <2>1, <2>2, <3>1, TransferWaits
    <2>4. CASE Later # {}
      <3>1. Later \in SUBSET Nat /\ \A i \in Later : i \in 1..10
        BY <2>1, ObjectsAre DEF Later
      <3>2. Min(Later) \in 1..10
        BY <2>4, <3>1, LeastOf
      <3>3. PICK i \in 1..10 : i = Min(Later)
        BY <3>2
      <3>4. t = [tr EXCEPT !.at = "load", !.i = i, !.left = <<>>, !.cur = tr.cur]
        BY <1>5, <2>1, <2>2, <2>4, <3>3 DEF UpdateDepartment, Transferring
      <3>5. i \in 1..11
        OBVIOUS
      <3>6. Transferring(t)
        BY <2>1, <3>4, <3>5, TransferWaits
      <3> QED BY <1>2, <2>2, <3>6
    <2> QED BY <2>3, <2>4
  <1>6. CASE LoadInstances
    <2>1. tr.at = "load" /\ Transferring(tr) /\ tr.i \in 1..10 /\ tr.left = <<>>
      BY <1>6 DEF LoadInstances, TransferInv, Transferring, Idle
    <2>2. PICK f : f = Restrict(rows, OwnedOf(tr.i))
      OBVIOUS
    <2>3. PartOf(f) /\ \A r \in DOMAIN f : f[r].model = Objects[tr.i].model
      BY <2>2, RowFacts, PartOfRows DEF OwnedOf, RowsOf, Restrict
    <2>4. PICK t : t = [tr EXCEPT !.left = f]
      OBVIOUS
    <2>5. tr = [tr EXCEPT !.left = <<>>]
      BY <2>1 DEF Transferring
    <2>6. tr' \in {NextModel(tr), Next1(t)}
      BY <1>6, <2>2, <2>4 DEF LoadInstances
    <2>7. Transferring(Next1(t))
      BY <2>1, <2>3, <2>4, TransferGoes
    <2>8. Transferring(NextModel(tr))
      <3>1. Transferring(NextModel([tr EXCEPT !.left = <<>>]))
        <4>1. PICK g : g = <<>>
          OBVIOUS
        <4>2. PartOf(g) /\ DOMAIN g = {}
          BY <4>1, NothingLeft
        <4>3. Transferring(NextModel([tr EXCEPT !.left = g]))
          BY <2>1, <4>2, TransferGoes
        <4> QED BY <4>1, <4>3
      <3> QED BY <2>5, <3>1
    <2> QED BY <1>2, <2>6, <2>7, <2>8
  <1>7. ASSUME NEW r \in DOMAIN rows, TransferRow(r) PROVE TransferInv'
    <2>1. /\ tr.at = "rows" /\ Transferring(tr) /\ tr.i \in 1..10 /\ PartOf(tr.left)
          /\ r \in DOMAIN tr.left /\ tr.i \in 1..11 /\ \A q \in DOMAIN tr.left : tr.left[q].model = Objects[tr.i].model
      BY <1>7 DEF TransferRow, TransferInv, Transferring, Idle
    <2>2. PICK t : t = tr'
      OBVIOUS
    <2>3. CASE Fails(tr.left[r])
      <3>1. t = [tr EXCEPT !.at = "error", !.i = tr.i, !.left = <<>>, !.cur = tr.cur]
        BY <1>7, <2>1, <2>2, <2>3 DEF TransferRow, Transferring
      <3> QED BY <1>2, <2>1, <2>2, <3>1, TransferWaits
    <2>4. CASE ~Fails(tr.left[r])
      <3>1. PICK f : f = tr.left
        OBVIOUS
      <3>2. t = [tr EXCEPT !.at = "lists", !.i = tr.i, !.left = f, !.cur = r]
        BY <1>7, <2>1, <2>2, <2>4, <3>1 DEF TransferRow, Transferring
      <3>3. Transferring(t)
        BY <2>1, <3>1, <3>2, TransferSaves
      <3> QED BY <1>2, <2>2, <3>3
    <2> QED BY <2>3, <2>4
  <1>8. CASE TransferLists
    <2>1. /\ tr.at = "lists" /\ Transferring(tr) /\ tr.i \in 1..10 /\ PartOf(tr.left)
          /\ \A q \in DOMAIN tr.left : tr.left[q].model = Objects[tr.i].model
      BY <1>8 DEF TransferLists, TransferInv, Transferring, Idle
    <2>2. PICK f, g : g = tr.left /\ f = Restrict(g, DOMAIN g \ {tr.cur})
      OBVIOUS
    <2>3. PartOf(f)
      BY <2>1, <2>2, PartRestrict
    <2>4. \A q \in DOMAIN f : f[q].model = Objects[tr.i].model
      BY <2>1, <2>2 DEF Restrict
    <2>5. PICK t : t = [tr EXCEPT !.left = f]
      OBVIOUS
    <2>6. tr' = Next1(t)
      BY <1>8, <2>1, <2>2, <2>5 DEF TransferLists, Transferring
    <2>7. Transferring(Next1(t))
      BY <2>1, <2>3, <2>4, <2>5, TransferGoes
    <2> QED BY <1>2, <2>6, <2>7
  <1>9. CASE TransferDies
    <2>1. Transferring(tr) /\ tr.i \in 1..11
      BY <1>9 DEF TransferDies, TransferInv, Transferring, Idle, Free
    <2>2. PICK t : t = tr'
      OBVIOUS
    <2>3. t = [tr EXCEPT !.at = "died", !.i = tr.i, !.left = <<>>, !.cur = tr.cur]
      BY <1>9, <2>1, <2>2 DEF TransferDies, Transferring
    <2> QED BY <1>2, <2>1, <2>2, <2>3, TransferWaits
  <1>10. CASE OtherRowStep
    <2>1. tr' = tr \/ \E S : tr' = TransferForgets(S)
      BY <1>10 DEF OtherRowStep, ChangeOwner, Commit
    <2>2. ASSUME NEW S, tr' = TransferForgets(S) PROVE TransferInv'
      BY <1>2, <2>2, TransferForgot
    <2> QED BY <1>2, <2>1, <2>2 DEF TransferInv
  <1>11. CASE AddStep \/ DeleteStep
    <2>1. tr' = IF "sure" \in DOMAIN tr THEN [tr EXCEPT !.sure = FALSE] ELSE tr
      BY <1>11 DEF AddStep, AddEntry, DeleteStep, DeleteSource, Unsure
    <2>2. tr' = Idle \/ Transferring(tr')
      <3>1. PICK t : t = tr'
        OBVIOUS
      <3>2. CASE tr = Idle
        BY <2>1, <3>1, <3>2 DEF Idle
      <3>3. CASE Transferring(tr)
        <4>1. t = [tr EXCEPT !.sure = FALSE]
          BY <2>1, <3>1, <3>3 DEF Transferring
        <4>2. Transferring(t)
          BY <3>3, <4>1 DEF Transferring
        <4> QED BY <3>1, <4>2
      <3> QED BY <3>2, <3>3 DEF TransferInv
    <2> QED BY <1>2, <2>2
  <1>12. ASSUME UNCHANGED tr PROVE TransferInv'
    BY <1>2, <1>12 DEF TransferInv
  <1> QED BY <1>1, <1>3, <1>4, <1>5, <1>6, <1>7, <1>8, <1>9, <1>10, <1>11, <1>12
      DEF Frames, TransferStep, StartTransferStep

\* Only who deletes a lead source leaves rows without: it is gone from them at
\* once, and no row is saved with it later.
LEMMA SourceLasts ==
    ASSUME TypesInv, Next, ~DeleteStep, NEW row, IsRow(row), ~Dangling(row), NEW x, IsRow(x)',
           x.model = row.model, "source" \in DOMAIN row.fk => x.fk["source"] = row.fk["source"]
    PROVE ~Dangling(x)'
  <1> USE DEF TypesInv
  <1>1. Frames /\ ListsInv' /\ ListsGrow
    BY StepFrames, ListsKept
  <1>2. /\ DOMAIN row.fk = FkOf(row.model) /\ DOMAIN x.fk = FkOf(row.model)
        /\ \A k \in FkOf(row.model) : /\ row.fk[k] # 0 => row.fk[k] \in Known(entries)
                                      /\ x.fk[k] # 0 => /\ x.fk[k] \in Known(entries')
                                                        /\ entries'[x.fk[k]].kind = k
    BY EntryFacts DEF IsRow, RowOver, Refers, Known
  <1>3. ASSUME NEW e \in Known(entries), entries[e].dept # None PROVE entries'[e].dept # None
    <2>1. CASE UNCHANGED entries
      BY <1>3, <2>1
    <2>2. CASE TransferLists
      <3>1. tr.dept # None /\ e \in DOMAIN entries
        BY <1>3, <2>2, RunningFacts, Departs, EntryFacts DEF TransferLists, Running
      <3>2. entries'[e].dept \in {entries[e].dept, tr.dept}
        BY <1>3, <2>2, <3>1, EntryFacts DEF TransferLists, EntrySet
      <3> QED BY <1>3, <3>1, <3>2
    <2>3. CASE CopySave
      BY <1>3, <2>3, EntryFacts DEF CopySave, ListsInv, Known
    <2>4. CASE AddStep
      BY <1>3, <2>4, EntryFacts DEF AddStep, AddEntry, ListsInv, Known
    <2> QED BY <1>1, <2>1, <2>2, <2>3, <2>4 DEF Frames, EntryStep, AddStep
  <1>4. ASSUME NEW k \in FkOf(row.model), x.fk[k] # 0 PROVE entries'[x.fk[k]].dept # None
    <2>1. CASE k # "source"
      BY <1>1, <1>2, <1>4, <2>1 DEF ListsInv
    <2>2. CASE k = "source"
      <3>1. x.fk[k] = row.fk[k] /\ row.fk[k] \in Known(entries) /\ entries[row.fk[k]].dept # None
        BY <1>2, <1>4, <2>2 DEF Dangling
      <3> QED BY <1>3, <3>1
    <2> QED BY <2>1, <2>2
  <1> QED BY <1>2, <1>4 DEF Dangling

\* What a step leaves of the source of a row is that of a row that may be saved.
LEMMA WhatIsSaved ==
    ASSUME TypesInv, Next, ~DeleteStep, NEW r, r \in Known(rows')
    PROVE \E row : /\ IsRow(row) /\ ~Dangling(row) /\ rows'[r].model = row.model
                   /\ "source" \in DOMAIN row.fk => rows'[r].fk["source"] = row.fk["source"]
  <1> USE DEF TypesInv
  <1> DEFINE Goal == \E row : /\ IsRow(row) /\ ~Dangling(row) /\ rows'[r].model = row.model
                              /\ "source" \in DOMAIN row.fk => rows'[r].fk["source"] = row.fk["source"]
  <1>1. Frames
    BY StepFrames
  <1>2. ASSUME r \in Known(rows), rows'[r].model = rows[r].model, rows'[r].fk = rows[r].fk PROVE Goal
    <2>1. PICK row : row = rows[r]
      OBVIOUS
    <2>2. IsRow(row) /\ ~Dangling(row)
      BY <1>2, <2>1, RowFacts DEF SavedInv
    <2> QED BY <1>2, <2>1, <2>2
  <1>3. ASSUME NEW row, IsRow(row), ~Dangling(row), rows'[r] = row PROVE Goal
    BY <1>3
  <1>4. ASSUME UNCHANGED rows PROVE Goal
    BY <1>2, <1>4 DEF Known
  <1>5. CASE UpdateDepartment
    BY <1>2, <1>5, RowFacts DEF UpdateDepartment, RowSet, Known
  <1>6. CASE TransferLists
    <2>1. r \in Known(rows) /\ rows'[r].model = rows[r].model /\ rows'[r].fk = rows[r].fk
      BY <1>6, RowFacts DEF TransferLists, RowSet, Known, RowsInv
    <2> QED BY <1>2, <2>1
  <1>7. ASSUME NEW q \in DOMAIN rows, TransferRow(q) PROVE Goal
    <2>1. CASE Fails(tr.left[q]) \/ ~Saves(tr.left[q])
      BY <1>4, <1>7, <2>1 DEF TransferRow
    <2>2. CASE ~Fails(tr.left[q]) /\ Saves(tr.left[q])
      <3>1. tr.at = "rows" /\ q \in DOMAIN tr.left /\ rows' = [rows EXCEPT ![q] = Transferred(q)]
        BY <1>7, <2>2 DEF TransferRow, Transferred, Written
      <3>2. DOMAIN rows = Known(rows) /\ r \in Known(rows) /\ q \in Known(rows)
            /\ rows'[r] = IF r = q THEN Transferred(q) ELSE rows[r]
        BY <3>1, RowFacts DEF Known, RowsInv
      <3>3. CASE r # q
        BY <1>2, <3>2, <3>3
      <3>4. CASE r = q
        <4>1. PICK row : row = tr.left[q]
          OBVIOUS
        <4>2. /\ IsRow(row) /\ tr.i \in 1..10 /\ row.model = Objects[tr.i].model
              /\ row.model = rows[q].model
          BY <3>1, <4>1, RunningFacts DEF Running, PartOf, Alike
        <4>3. ~Dangling(row) /\ ~Fails(row)
          BY <2>2, <4>1 DEF Fails
        <4>4. /\ rows'[r].model = row.model /\ rows'[r].fk = Renewed(row)
          BY <2>2, <3>1, <3>2, <3>4, <4>1, <4>2, TransferredRow DEF Alike
        <4>5. DOMAIN row.fk = FkOf(row.model)
          BY <4>2 DEF IsRow, RowOver, Refers
        <4>6. "source" \in DOMAIN row.fk => Renewed(row)["source"] = row.fk["source"]
          BY <4>2, <4>3, <4>5, Looked
        <4> QED BY <4>2, <4>3, <4>4, <4>6
      <3> QED BY <3>3, <3>4
    <2> QED BY <2>1, <2>2
  <1>8. ASSUME NEW q \in DOMAIN rows, ChangeOwner(q) PROVE Goal
    <2>1. CASE Dangling(ch.left[q])
      BY <1>4, <1>8, <2>1 DEF ChangeOwner
    <2>2. CASE ~Dangling(ch.left[q])
      <3>1. Changing /\ q \in DOMAIN ch.left /\ rows' = [rows EXCEPT ![q] = HandedTo(q)]
        BY <1>8, <2>2 DEF ChangeOwner, Changing, HandedTo
      <3>2. DOMAIN rows = Known(rows) /\ r \in Known(rows) /\ q \in Known(rows)
            /\ rows'[r] = IF r = q THEN HandedTo(q) ELSE rows[r]
        BY <3>1, RowFacts DEF Known, RowsInv
      <3>3. CASE r # q
        BY <1>2, <3>2, <3>3
      <3>4. CASE r = q
        <4>1. PICK row : row = ch.left[q]
          OBVIOUS
        <4>2. IsRow(row) /\ ~Dangling(row) /\ row \in RowSet
          BY <2>2, <3>1, <4>1, ChangingFacts DEF ChangeOf, PartOf, IsRow, RowOver
        <4>3. HandedTo(q).model = row.model /\ HandedTo(q).fk = row.fk
          BY <4>1, <4>2 DEF HandedTo, Handed, RowSet
        <4> QED BY <3>2, <3>4, <4>2, <4>3
      <3> QED BY <3>3, <3>4
    <2> QED BY <2>1, <2>2
  <1>9. ASSUME NEW x, IsRow(x), ~Dangling(x), rows' = Append(rows, x) PROVE Goal
    <2>1. /\ Len(rows') = Len(rows) + 1 /\ rows'[Len(rows) + 1] = x /\ Len(rows) \in Nat
          /\ \A q \in 1..Len(rows) : rows'[q] = rows[q]
      BY <1>9, AppendProperties, RowFacts DEF RowsInv, IsRow, RowOver
    <2>2. CASE r \in Known(rows)
      BY <1>2, <2>1, <2>2 DEF Known
    <2>3. CASE r \notin Known(rows)
      <3>1. rows'[r] = x
        BY <2>1, <2>3 DEF Known
      <3> QED BY <1>3, <1>9, <3>1
    <2> QED BY <2>2, <2>3
  <1>10. ASSUME NEW u \in Users, Commit(u) PROVE Goal
    <2>1. PICK row : row = tx[u].row
      OBVIOUS
    <2>2. IsRow(row)
      BY <1>10, <2>1 DEF Commit, FormInv
    <2>3. CASE Dangling(row)
      BY <1>4, <1>10, <2>1, <2>3 DEF Commit
    <2>4. CASE ~Dangling(row) /\ tx[u].at = "add"
      BY <1>9, <1>10, <2>1, <2>2, <2>4 DEF Commit
    <2>5. CASE ~Dangling(row) /\ tx[u].at # "add"
      <3>1. tx[u].id \in Known(rows) /\ rows' = [rows EXCEPT ![tx[u].id] = row]
        BY <1>10, <2>1, <2>5 DEF Commit, FormInv
      <3>2. r \in Known(rows) /\ rows'[r] = IF r = tx[u].id THEN row ELSE rows[r]
        BY <3>1, RowFacts DEF Known, RowsInv
      <3> QED BY <1>2, <1>3, <2>2, <2>5, <3>2
    <2> QED BY <2>3, <2>4, <2>5
  <1>11. ASSUME NEW f \in Forms, SaveRequest(f) \/ SaveMail(f) PROVE Goal
    <2>1. forms[f].at \in {"found", "saved"}
      BY <1>11 DEF SaveRequest, SaveMail
    <2>2. \/ rows' = rows
          \/ rows' = Append(rows, Asked(f)) /\ ~Dangling(Asked(f))
          \/ rows' = Append(rows, Saved(f, "email"))
      BY <1>11 DEF SaveRequest, SaveMail
    <2> QED BY <1>4, <1>9, <2>1, <2>2, AskedRow
  <1> QED BY <1>1, <1>4, <1>5, <1>6, <1>7, <1>8, <1>10, <1>11
      DEF Frames, RowStep, OwnRowStep, OtherRowStep, NewRowStep

LEMMA SavedKept == ASSUME TypesInv, Next PROVE SavedInv'
  <1>1. RowsInv' /\ ListsInv' /\ ListsGrow
    BY RowsKept, ListsKept
  <1> SUFFICES ASSUME NEW r, r \in Known(rows') PROVE ~(Dangling(rows[r])')
    BY DEF SavedInv
  <1>2. PICK x : x = rows'[r]
    OBVIOUS
  <1>3. IsRow(x)'
    BY <1>1, <1>2 DEF RowsInv, IsRow
  <1>4. CASE ~DeleteStep
    <2>1. PICK row : /\ IsRow(row) /\ ~Dangling(row) /\ rows'[r].model = row.model
                     /\ "source" \in DOMAIN row.fk => rows'[r].fk["source"] = row.fk["source"]
      BY <1>4, WhatIsSaved
    <2>2. ~Dangling(x)'
      BY <1>2, <1>3, <1>4, <2>1, SourceLasts
    <2> QED BY <1>2, <2>2 DEF Dangling
  <1>5. ASSUME NEW e \in DOMAIN entries, DeleteSource(e) PROVE ~(Dangling(rows[r])')
    <2>1. ListsInv /\ RowsInv /\ SavedInv
      BY DEF TypesInv
    <2>2. /\ DOMAIN rows' = DOMAIN rows /\ \A q \in Known(rows) : rows'[q] = Forgotten(rows[q], e)
          /\ \A y \in Known(entries) : y # e => entries'[y] = entries[y]
      BY <1>5, DeletedSource
    <2>3. r \in Known(rows)
      <3>1. Known(rows') = DOMAIN rows' /\ Known(rows) = DOMAIN rows
        BY <1>1, <2>1, RowFacts, LenProperties DEF RowsInv, Known
      <3> QED BY <2>2, <3>1
    <2>4. PICK row : row = rows[r]
      OBVIOUS
    <2>5. /\ IsRow(row) /\ ~Dangling(row) /\ x = Forgotten(row, e)
          /\ DOMAIN row.fk = FkOf(row.model)
          /\ \A k \in DOMAIN row.fk : row.fk[k] = 0 \/ row.fk[k] \in Known(entries)
      BY <1>2, <2>1, <2>2, <2>3, <2>4, RowFacts, EntryFacts
         DEF SavedInv, IsRow, RowOver, Refers, Known
    <2>6. /\ DOMAIN x.fk = DOMAIN row.fk
          /\ \A k \in DOMAIN row.fk : x.fk[k] = IF row.fk[k] = e THEN 0 ELSE row.fk[k]
      BY <2>1, <2>5, ForgottenRow
    <2>7. \A k \in DOMAIN x.fk : x.fk[k] = 0 \/ entries'[x.fk[k]].dept # None
      BY <2>2, <2>5, <2>6 DEF Dangling
    <2> QED BY <1>2, <2>7 DEF Dangling
  <1> QED BY <1>4, <1>5 DEF DeleteStep

LEMMA ContactsAre ==
    ASSUME RowsInv, NEW S, S \subseteq Known(rows)
    PROVE ContactsOf(S) \subseteq Known(rows) /\ \A r \in ContactsOf(S) : rows[r].model = "contact"
  <1>1. 0 \notin S
    BY RowFacts DEF Known
  <1> QED BY <1>1, RowFacts DEF ContactsOf, IsRow, RowOver, Refers

LEMMA ChangeStays ==
    ASSUME TypesInv, Next, NEW t, ChangeOf(t)
    PROVE ChangeOf(t)'
  <1> USE DEF TypesInv
  <1>1. ListsGrow /\ ListsInv' /\ RowsInv' /\ RowsGrow
    BY ListsKept, RowsKept
  <1>2. PartOf(t.left)'
    <2>1. PICK f : f = t.left
      OBVIOUS
    <2>2. PartOf(f)'
      BY <1>1, <2>1, PartStays DEF ChangeOf
    <2> QED BY <2>1, <2>2
  <1>3. Known(rows) \subseteq Known(rows') /\ made \subseteq made'
    BY <1>1, RowFacts, LenProperties DEF RowsGrow, RowsInv, Known, ListsGrow
  <1>4. /\ \A r \in DOMAIN t.left : rows'[r].model = rows[r].model
        /\ \A r \in t.of : rows'[r].model = rows[r].model
    BY <1>1 DEF ChangeOf, PartOf, RowsGrow, Alike
  <1> QED BY <1>2, <1>3, <1>4 DEF ChangeOf

LEMMA ChangeForgot ==
    ASSUME ChangeInv, NEW S
    PROVE LET b == ChangeForgets(S) IN b \in {Idle, [at |-> "died"]} \/ ChangeOf(b)
  <1>1. CASE ch \in {Idle, [at |-> "died"]}
    BY <1>1 DEF ChangeForgets, Idle
  <1>2. CASE ChangeOf(ch)
    <2>1. PICK b \in BOOLEAN : b = (ch.alone /\ S \cap Family(ch.of) = {})
      OBVIOUS
    <2>2. PICK t : t = ChangeForgets(S)
      OBVIOUS
    <2>3. t = [ch EXCEPT !.alone = b]
      BY <1>2, <2>1, <2>2 DEF ChangeForgets, ChangeOf
    <2>4. ChangeOf(t)
      BY <1>2, <2>3 DEF ChangeOf
    <2> QED BY <2>2, <2>4
  <1> QED BY <1>1, <1>2 DEF ChangeInv

LEMMA ChangeMissed ==
    ASSUME ChangeInv, NEW u, NEW r
    PROVE LET b == ChangeMisses(u, r) IN b \in {Idle, [at |-> "died"]} \/ ChangeOf(b)
  <1>1. CASE ch \in {Idle, [at |-> "died"]}
    BY <1>1 DEF ChangeMisses, Idle
  <1>2. CASE ChangeOf(ch)
    <2>1. PICK b \in BOOLEAN : b = (ch.alone /\ r \notin Family(ch.of) /\ (u \in ch.early => ch.at = "companies"))
      OBVIOUS
    <2>2. PICK t, E : t = ChangeMisses(u, r) /\ E = ch.early \ {u}
      OBVIOUS
    <2>3. t = [ch EXCEPT !.alone = b, !.early = E] /\ E \subseteq Users
      BY <1>2, <2>1, <2>2 DEF ChangeMisses, ChangeOf
    <2>4. /\ t = [at |-> ch.at, owner |-> ch.owner, dept |-> ch.dept, of |-> ch.of, left |-> ch.left,
                  alone |-> b, early |-> E]
      BY <1>2, <2>3 DEF ChangeOf
    <2>5. ChangeOf(t)
      BY <1>2, <2>3, <2>4 DEF ChangeOf
    <2> QED BY <2>2, <2>5
  <1> QED BY <1>1, <1>2 DEF ChangeInv

LEMMA ChangeKept == ASSUME TypesInv, Next PROVE ChangeInv'
  <1> USE DEF TypesInv
  <1>1. Frames
    BY StepFrames
  <1>2. ASSUME NEW t, ch' = t, t \in {Idle, [at |-> "died"]} \/ ChangeOf(t) PROVE ChangeInv'
    <2>1. CASE t \in {Idle, [at |-> "died"]}
      BY <1>2, <2>1 DEF ChangeInv, Idle
    <2>2. CASE ChangeOf(t)
      <3>1. ChangeOf(t)'
        BY <2>2, ChangeStays
      <3> QED BY <1>2, <3>1 DEF ChangeInv, ChangeOf
    <2> QED BY <1>2, <2>1, <2>2
  <1>3. ASSUME NEW u \in Users, NEW r \in DOMAIN rows, StartChange(u, {r}) PROVE ChangeInv'
    <2>1. PICK f, S : S = {r} /\ f = Restrict(rows, S)
      OBVIOUS
    <2>2. PICK t : t = [at |-> "companies", owner |-> u, dept |-> home[u], of |-> S,
              left |-> f, alone |-> TRUE, early |-> {}]
      OBVIOUS
    <2>3. rows[r].model = "company" /\ ch' = t
      BY <1>3, <2>1, <2>2 DEF StartChange
    <2>4. PartOf(f) /\ DOMAIN f = S /\ S \subseteq Known(rows)
      BY <2>1, RowFacts, PartOfRows DEF Restrict
    <2>5. home[u] \in made \cup {None}
      BY DEF HomeInv
    <2>6. ChangeOf(t)
      BY <2>1, <2>2, <2>3, <2>4, <2>5 DEF ChangeOf
    <2> QED BY <1>2, <2>3, <2>6
  <1>4. CASE LoadContacts
    <2>1. ch.at = "companies" /\ ChangeOf(ch)
      BY <1>4 DEF LoadContacts, ChangeInv, Idle
    <2>2. PICK f, S, t : /\ S = ContactsOf(ch.of) /\ f = Restrict(rows, S)
                         /\ t = [ch EXCEPT !.at = "contacts", !.left = f]
      OBVIOUS
    <2>3. ch' = t
      BY <1>4, <2>2 DEF LoadContacts
    <2>4. S \subseteq Known(rows) /\ \A r \in S : rows[r].model = "contact"
      BY <2>1, <2>2, ContactsAre DEF ChangeOf
    <2>5. PartOf(f) /\ DOMAIN f = S
      BY <2>2, <2>4, PartOfRows, RowFacts DEF Restrict
    <2>6. /\ t = [at |-> "contacts", owner |-> ch.owner, dept |-> ch.dept, of |-> ch.of, left |-> f,
                  alone |-> ch.alone, early |-> ch.early]
      BY <2>1, <2>2 DEF ChangeOf
    <2>7. ChangeOf(t)
      BY <2>1, <2>2, <2>4, <2>5, <2>6 DEF ChangeOf
    <2> QED BY <1>2, <2>3, <2>7
  <1>5. ASSUME NEW r \in DOMAIN rows, ChangeOwner(r) PROVE ChangeInv'
    <2> SUFFICES ASSUME ~Dangling(ch.left[r]) PROVE ChangeInv'
      BY <1>2, <1>5 DEF ChangeOwner
    <2>1. ch.at \in {"companies", "contacts"} /\ ChangeOf(ch)
      BY <1>5 DEF ChangeOwner, ChangeInv, Idle
    <2>2. PICK f, g, E, t : f = ch.left /\ g = Restrict(f, DOMAIN f \ {r}) /\ E = ch.early \cup HaveRead(r)
                            /\ t = [ch EXCEPT !.left = g, !.early = E]
      OBVIOUS
    <2>3. ch' = t /\ E \subseteq Users
      BY <1>5, <2>1, <2>2 DEF ChangeOwner, HaveRead, ChangeOf
    <2>4. PartOf(g) /\ DOMAIN g \subseteq DOMAIN f
      <3>1. PartOf(f)
        BY <2>1, <2>2 DEF ChangeOf
      <3>2. PartOf(g)
        BY <2>2, <3>1, PartRestrict
      <3> QED BY <2>2, <3>2 DEF Restrict
    <2>5. t = [at |-> ch.at, owner |-> ch.owner, dept |-> ch.dept, of |-> ch.of, left |-> g,
               alone |-> ch.alone, early |-> E]
      BY <2>1, <2>2 DEF ChangeOf
    <2>6. ChangeOf(t)
      BY <2>1, <2>2, <2>3, <2>4, <2>5 DEF ChangeOf
    <2> QED BY <1>2, <2>3, <2>6
  <1>6. CASE ChangeEnds
    <2>1. ch.at = "contacts" /\ DOMAIN ch.left = {} /\ ChangeOf(ch)
      BY <1>6 DEF ChangeEnds, ChangeInv, Idle
    <2>2. PICK t : t = [ch EXCEPT !.at = "done"]
      OBVIOUS
    <2>3. ChangeOf(t) /\ ch' = t
      BY <1>6, <2>1, <2>2 DEF ChangeOf, ChangeEnds
    <2> QED BY <1>2, <2>3
  <1>7. CASE ChangeDies
    BY <1>2, <1>7 DEF ChangeDies
  <1>8. CASE OwnRowStep \/ OtherRowStep \/ UNCHANGED ch
    <2>1. ASSUME NEW S, ch' = ChangeForgets(S) PROVE ChangeInv'
      BY <1>2, <2>1, ChangeForgot
    <2>2. ASSUME UNCHANGED ch PROVE ChangeInv'
      BY <1>2, <2>2 DEF ChangeInv
    <2>3. ASSUME NEW u, NEW r, ch' = ChangeMisses(u, r) PROVE ChangeInv'
      BY <1>2, <2>3, ChangeMissed
    <2> QED BY <1>5, <1>8, <2>1, <2>2, <2>3
        DEF OwnRowStep, OtherRowStep, UpdateDepartment, TransferLists, TransferRow, Commit
  <1> QED BY <1>1, <1>3, <1>4, <1>5, <1>6, <1>7, <1>8 DEF Frames, ChangeStep

LEMMA TypesKept == ASSUME TypesInv, Next PROVE TypesInv'
  BY ListsKept, RowsKept, SavedKept, FormsKept, CopyKept, TransferKept, ChangeKept, SitesKept DEF TypesInv
-----------------------------------------------------------------------------
(* A change of owner: what is behind it has its owner and department.      *)

Given(r) == rows[r].owner = ch.owner /\ rows[r].dept = ch.dept
Reached(c) == c \notin DOMAIN ch.left \/ ch.at # "companies"
ReachedThen(c) == c \notin DOMAIN ch'.left \/ ch'.at # "companies"
TogetherInv ==
    Changing /\ ch.alone =>
       /\ \A r \in ch.of : Reached(r) => Given(r)
       /\ ch.at # "companies" => \A r \in ContactsOf(ch.of) : r \notin DOMAIN ch.left => Given(r)
       /\ \A u \in Users : tx[u] # Idle /\ tx[u].row.company \in ch.of =>
            \/ u \in ch.early \/ ~Reached(tx[u].row.company)
            \/ tx[u].row.owner = ch.owner /\ tx[u].row.dept = ch.dept

LEMMA FamilyIs ==
    ASSUME TypesInv, ChangeOf(ch)
    PROVE /\ Family(ch.of) = ch.of \cup ContactsOf(ch.of) /\ Family(ch.of) \subseteq Known(rows)
          /\ ch.of \subseteq Known(rows) /\ 0 \notin ch.of
  BY RowFacts DEF TypesInv, ChangeOf, Family, ContactsOf, Known

\* Only forms give a row a company.
LEMMA CompaniesStay ==
    ASSUME TypesInv, Next, ~ChangeStep, ~\E u \in Users : Commit(u), NEW r, r \in Known(rows')
    PROVE rows'[r].company = 0 \/ (r \in Known(rows) /\ rows'[r].company = rows[r].company)
  <1> USE DEF TypesInv
  <1> DEFINE Goal == rows'[r].company = 0 \/ (r \in Known(rows) /\ rows'[r].company = rows[r].company)
  <1>1. Frames /\ RowsInv'
    BY StepFrames, RowsKept
  <1>2. DOMAIN rows = Known(rows) /\ DOMAIN rows' = Known(rows')
    BY <1>1, RowFacts, LenProperties DEF RowsInv, Known
  <1>3. ASSUME UNCHANGED rows PROVE Goal
    BY <1>2, <1>3
  <1>4. CASE UpdateDepartment
    BY <1>2, <1>4, RowFacts DEF UpdateDepartment, RowSet
  <1>5. CASE TransferLists
    BY <1>2, <1>5, RowFacts DEF TransferLists, RowSet
  <1>6. ASSUME NEW q \in DOMAIN rows, TransferRow(q) PROVE Goal
    <2>1. CASE Fails(tr.left[q]) \/ ~Saves(tr.left[q])
      BY <1>3, <1>6, <2>1 DEF TransferRow
    <2>2. CASE ~Fails(tr.left[q]) /\ Saves(tr.left[q])
      <3>1. tr.at = "rows" /\ q \in DOMAIN tr.left /\ rows' = [rows EXCEPT ![q] = Transferred(q)]
        BY <1>6, <2>2 DEF TransferRow, Transferred, Written
      <3>2. /\ IsRow(tr.left[q]) /\ tr.i \in 1..10 /\ tr.left[q].model = Objects[tr.i].model
            /\ tr.left[q].model = rows[q].model
        BY <3>1, RunningFacts DEF Running, PartOf, Alike
      <3>3. tr.left[q].model # "contact"
        BY <2>2, <3>2, ObjectsAre DEF Saves, Found, LookedUp
      <3>4. IsRow(Transferred(q)) /\ Transferred(q).model # "contact"
        BY <2>2, <3>1, <3>2, <3>3, TransferredRow DEF Alike
      <3>5. Transferred(q).company = 0
        BY <3>4 DEF IsRow, RowOver, Refers
      <3> QED BY <1>2, <3>1, <3>5
    <2> QED BY <2>1, <2>2
  <1>7. ASSUME NEW x, x \in RowSet, x.company = 0, rows' = Append(rows, x) PROVE Goal
    <2>1. /\ Len(rows') = Len(rows) + 1 /\ rows'[Len(rows) + 1] = x /\ Len(rows) \in Nat
          /\ \A q \in 1..Len(rows) : rows'[q] = rows[q]
      BY <1>7, AppendProperties, RowFacts DEF RowsInv
    <2> QED BY <1>7, <2>1 DEF Known
  <1>8. ASSUME NEW f \in Forms, SaveRequest(f) \/ SaveMail(f) PROVE Goal
    <2>1. forms[f].at \in {"found", "saved"}
      BY <1>8 DEF SaveRequest, SaveMail
    <2>2. \/ rows' = rows \/ rows' = Append(rows, Asked(f))
          \/ rows' = Append(rows, Saved(f, "email"))
      BY <1>8 DEF SaveRequest, SaveMail
    <2> QED BY <1>3, <1>7, <2>1, <2>2, AskedRow DEF IsRow, RowOver
  <1>9. ASSUME NEW e \in DOMAIN entries, DeleteSource(e) PROVE Goal
    BY <1>2, <1>9, DeletedSource, ForgottenRow, RowFacts
  <1> QED BY <1>1, <1>3, <1>4, <1>5, <1>6, <1>8, <1>9
      DEF Frames, RowStep, OwnRowStep, OtherRowStep, NewRowStep, ChangeStep, DeleteStep

\* What others do to its rows is no longer its own.
LEMMA ChangeAlone ==
    ASSUME TypesInv, Next, ~ChangeStep, ~\E u \in Users : Commit(u), Changing', ch'.alone
    PROVE /\ ch' = ch /\ ChangeOf(ch)
          /\ \A r \in Family(ch.of) : rows'[r].owner = rows[r].owner /\ rows'[r].dept = rows[r].dept
          /\ ContactsOf(ch.of)' \subseteq ContactsOf(ch.of)
  <1> USE DEF TypesInv
  <1> DEFINE Same2(r) == rows'[r].owner = rows[r].owner /\ rows'[r].dept = rows[r].dept
  <1>1. Frames
    BY StepFrames
  <1>2. ChangeOf(ch)
    <2>1. ch' = ch \/ \E S : ch' = ChangeForgets(S)
      BY <1>1 DEF Frames, OwnRowStep, OtherRowStep, ChangeStep, UpdateDepartment, TransferLists,
                  TransferRow
    <2>2. ch \notin {Idle, [at |-> "died"]}
      BY <2>1 DEF ChangeForgets, Changing, Idle
    <2> QED BY <2>2 DEF ChangeInv
  <1>3. Family(ch.of) \subseteq Known(rows)
    BY <1>2, FamilyIs
  <1>4. ASSUME NEW S, ch' = ChangeForgets(S) PROVE ch' = ch /\ S \cap Family(ch.of) = {}
    <2>1. PICK b \in BOOLEAN : b = (ch.alone /\ S \cap Family(ch.of) = {})
      OBVIOUS
    <2>2. ch' = [ch EXCEPT !.alone = b]
      BY <1>2, <1>4, <2>1 DEF ChangeForgets, ChangeOf
    <2>3. b = TRUE
      BY <1>2, <2>2 DEF ChangeOf
    <2> QED BY <1>2, <2>1, <2>2, <2>3 DEF ChangeOf
  <1>5. ASSUME UpdateDepartment PROVE ch' = ch /\ \A q \in Family(ch.of) : Same2(q)
    <2>1. CASE Later = {}
      BY <1>2, <1>5, <2>1 DEF UpdateDepartment
    <2>2. CASE Later # {}
      <3>1. PICK S : S = OwnedOf(Min(Later))
        OBVIOUS
      <3>2. /\ ch' = ChangeForgets(S)
            /\ \A r \in Known(rows) : r \notin S => rows'[r] = rows[r]
        BY <1>5, <2>2, <3>1, RowFacts DEF UpdateDepartment
      <3> QED BY <1>2, <1>3, <1>4, <3>2
    <2> QED BY <2>1, <2>2
  <1>6. ASSUME TransferLists PROVE ch' = ch /\ \A q \in Family(ch.of) : Same2(q)
    <2>1. PICK S : rows' = [rows EXCEPT ![tr.cur].m2m = S] /\ UNCHANGED ch
      BY <1>6 DEF TransferLists
    <2>2. \A r \in Known(rows) : Same2(r)
      BY <2>1, RowFacts DEF RowSet
    <2> QED BY <1>2, <1>3, <2>1, <2>2
  <1>7. ASSUME NEW r \in DOMAIN rows, TransferRow(r)
        PROVE ch' = ch /\ \A q \in Family(ch.of) : Same2(q)
    <2>1. CASE UNCHANGED <<rows, ch>>
      BY <2>1
    <2>2. CASE ~UNCHANGED <<rows, ch>>
      <3>1. ch' = ChangeForgets({r}) /\ \A q \in Known(rows) : q # r => rows'[q] = rows[q]
        BY <1>7, <2>2, RowFacts DEF TransferRow
      <3> QED BY <1>3, <1>4, <3>1
    <2> QED BY <2>1, <2>2
  <1>8. ASSUME NewRowStep \/ UNCHANGED rows, UNCHANGED ch
        PROVE \A q \in Family(ch.of) : Same2(q)
    <2>1. ASSUME NEW x, rows' = Append(rows, x)
          PROVE \A q \in Known(rows) : rows'[q] = rows[q]
      BY <2>1, AppendProperties, RowFacts DEF RowsInv, Known
    <2> QED BY <1>3, <1>8, <2>1 DEF NewRowStep, SaveRequest, SaveMail
  <1>9. NewRowStep => UNCHANGED ch
    BY DEF NewRowStep, SaveRequest, SaveMail
  <1>10. ASSUME NEW e \in DOMAIN entries, DeleteSource(e)
         PROVE ch' = ch /\ \A q \in Family(ch.of) : Same2(q)
    BY <1>3, <1>10, DeletedSource, ForgottenRow, RowFacts
  <1>11. ch' = ch /\ \A q \in Family(ch.of) : Same2(q)
    BY <1>1, <1>2, <1>5, <1>6, <1>7, <1>8, <1>9, <1>10
       DEF Frames, RowStep, OwnRowStep, OtherRowStep, ChangeStep, DeleteStep
  <1>12. ContactsOf(ch.of)' \subseteq ContactsOf(ch.of)
    <2> SUFFICES ASSUME NEW r \in DOMAIN rows', rows'[r].company \in ch.of PROVE r \in ContactsOf(ch.of)
      BY <1>11 DEF ContactsOf
    <2>1. r \in Known(rows') /\ DOMAIN rows = Known(rows)
      BY RowsKept, RowFacts, LenProperties DEF RowsInv, Known
    <2> QED BY <1>2, <2>1, CompaniesStay, FamilyIs DEF ContactsOf
  <1> QED BY <1>2, <1>11, <1>12

\* A form that is opened takes owner and department of its company, which are
\* the new ones if the change has reached it.
LEMMA OpenedForm ==
    ASSUME TypesInv, NEW u \in Users,
           \/ \E r \in DOMAIN rows : BeginEdit(u, r)
           \/ \E m \in Adding : BeginAdd(u, m)
    PROVE /\ UNCHANGED <<rows, ch>> /\ \A v \in Users \ {u} : tx'[v] = tx[v]
          /\ tx'[u].row.company # 0 =>
               /\ tx'[u].row.company \in Companies
               /\ tx'[u].row.owner = rows[tx'[u].row.company].owner
               /\ tx'[u].row.dept = rows[tx'[u].row.company].dept
  <1> USE DEF TypesInv
  <1> DEFINE Same3(new) == new.company # 0 => /\ new.company \in Companies
                                              /\ new.owner = rows[new.company].owner
                                              /\ new.dept = rows[new.company].dept
  <1>1. UNCHANGED <<rows, ch>>
    BY DEF BeginEdit, BeginAdd, views
  <1>2. ASSUME NEW m \in Adding, BeginAdd(u, m)
        PROVE \E new, a, i : tx' = [tx EXCEPT ![u] = [at |-> a, id |-> i, row |-> new]] /\ Same3(new)
    <2>1. PICK new : /\ tx' = [tx EXCEPT ![u] = [at |-> "add", id |-> 0, row |-> new]]
                     /\ IsRow(new)
                     /\ new.model = "contact" =>
                          /\ new.company \in Companies
                          /\ new.owner = rows[new.company].owner /\ new.dept = rows[new.company].dept
      BY <1>2, AddedRow
    <2>2. Same3(new)
      BY <2>1 DEF IsRow, RowOver, Refers
    <2> HIDE DEF Same3
    <2> QED BY <2>1, <2>2
  <1>3. ASSUME NEW r \in DOMAIN rows, BeginEdit(u, r)
        PROVE \E new, a, i : tx' = [tx EXCEPT ![u] = [at |-> a, id |-> i, row |-> new]] /\ Same3(new)
    <2>1. PICK new : /\ tx' = [tx EXCEPT ![u] = [at |-> "edit", id |-> r, row |-> new]]
                     /\ IsRow(new)
                     /\ new.model = "contact" =>
                          /\ new.company \in Companies
                          /\ new.owner = rows[new.company].owner /\ new.dept = rows[new.company].dept
      BY <1>3, EditedRow
    <2>2. Same3(new)
      BY <2>1 DEF IsRow, RowOver, Refers
    <2> HIDE DEF Same3
    <2> QED BY <2>1, <2>2
  <1>4. PICK new, a, i : tx' = [tx EXCEPT ![u] = [at |-> a, id |-> i, row |-> new]] /\ Same3(new)
    BY <1>2, <1>3
  <1>5. tx'[u].row = new /\ \A v \in Users \ {u} : tx'[v] = tx[v]
    BY <1>4 DEF FormInv
  <1> QED BY <1>1, <1>4, <1>5

LEMMA TogetherKept == ASSUME TypesInv, Next, TogetherInv PROVE TogetherInv'
  <1> USE DEF TypesInv
  <1>1. ASSUME ~ChangeStep, ~\E u \in Users : Commit(u), Changing', ch'.alone PROVE TogetherInv'
    <2>1. /\ ch' = ch /\ ChangeOf(ch)
          /\ \A r \in Family(ch.of) : rows'[r].owner = rows[r].owner /\ rows'[r].dept = rows[r].dept
          /\ ContactsOf(ch.of)' \subseteq ContactsOf(ch.of)
      BY <1>1, ChangeAlone
    <2>2. Changing /\ ch.alone /\ Family(ch.of) = ch.of \cup ContactsOf(ch.of) /\ 0 \notin ch.of
      BY <1>1, <2>1, FamilyIs DEF Changing
    <2>3. /\ \A r \in ch.of : ReachedThen(r) => Given(r)'
          /\ ch'.at # "companies" => \A r \in ContactsOf(ch.of)' : r \notin DOMAIN ch'.left => Given(r)'
      BY <2>1, <2>2 DEF TogetherInv, Given, Reached, ReachedThen
    <2>4. ASSUME NEW v \in Users, tx'[v] = tx[v], tx'[v] # Idle, tx'[v].row.company \in ch.of
          PROVE \/ v \in ch'.early \/ ~ReachedThen(tx'[v].row.company)
                \/ tx'[v].row.owner = ch'.owner /\ tx'[v].row.dept = ch'.dept
      BY <2>1, <2>2, <2>4 DEF TogetherInv, Reached, ReachedThen
    <2>5. ASSUME NEW v \in Users, tx'[v] # Idle, tx'[v].row.company \in ch.of, tx'[v] # tx[v]
          PROVE \/ v \in ch'.early \/ ~ReachedThen(tx'[v].row.company)
                \/ tx'[v].row.owner = ch'.owner /\ tx'[v].row.dept = ch'.dept
      <3>1. FormStep
        BY <2>5, StepFrames DEF Frames
      <3>2. PICK u \in Users : \/ \E r \in DOMAIN rows : BeginEdit(u, r)
                               \/ \E m \in Adding : BeginAdd(u, m)
        BY <1>1, <3>1 DEF FormStep
      <3>3. u = v
        BY <2>5, <3>2, OpenedForm
      <3>4. PICK c : c = tx'[v].row.company
        OBVIOUS
      <3>5. c # 0 /\ tx'[v].row.owner = rows[c].owner /\ tx'[v].row.dept = rows[c].dept
        BY <2>2, <2>5, <3>2, <3>3, <3>4, OpenedForm
      <3>6. ReachedThen(c) <=> Reached(c)
        BY <2>1 DEF Reached, ReachedThen
      <3>7. Reached(c) => Given(c)
        BY <2>2, <2>5, <3>4 DEF TogetherInv, Reached, ReachedThen
      <3>8. ReachedThen(tx'[v].row.company) <=> Reached(c)
        BY <3>4, <3>6 DEF Reached, ReachedThen
      <3> QED BY <2>1, <3>5, <3>7, <3>8 DEF Given
    <2> QED BY <2>1, <2>3, <2>4, <2>5 DEF TogetherInv, Reached, ReachedThen
  <1>2. ASSUME NEW u \in Users, Commit(u), Changing', ch'.alone PROVE TogetherInv'
    <2>1. PICK row, id : row = tx[u].row /\ id = tx[u].id
      OBVIOUS
    <2>2. ch' = ch \/ ch' = ChangeMisses(u, id)
      BY <1>2, <2>1 DEF Commit
    <2>3. ChangeOf(ch)
      <3>1. ch \notin {Idle, [at |-> "died"]}
        BY <1>2, <2>2 DEF ChangeMisses, Changing, Idle
      <3> QED BY <3>1 DEF ChangeInv
    <2>4. \A v \in Users : tx'[v] = IF v = u THEN Idle ELSE tx[v]
      BY <1>2 DEF Commit, FormInv
    <2>5. CASE UNCHANGED <<rows, ch>>
      <3>1. Changing /\ ch.alone /\ ContactsOf(ch.of)' = ContactsOf(ch.of)
        BY <1>2, <2>5 DEF Changing, ContactsOf
      <3> QED BY <2>4, <2>5, <3>1 DEF TogetherInv, Given, Reached, ReachedThen
    <2>6. CASE ~UNCHANGED <<rows, ch>>
      <3>1. ~Dangling(row) /\ ch' = ChangeMisses(u, id) /\ IsRow(row) /\ tx[u] # Idle
        BY <1>2, <2>1, <2>6 DEF Commit, FormInv
      <3>2. PICK b, E : /\ b = (ch.alone /\ id \notin Family(ch.of) /\ (u \in ch.early => ch.at = "companies"))
                        /\ E = ch.early \ {u}
        OBVIOUS
      <3>3. ch' = [ch EXCEPT !.alone = b, !.early = E]
        BY <2>3, <3>1, <3>2 DEF ChangeMisses, ChangeOf
      <3>4. /\ ch'.of = ch.of /\ ch'.at = ch.at /\ ch'.left = ch.left /\ ch'.alone = b /\ ch'.early = E
            /\ ch'.owner = ch.owner /\ ch'.dept = ch.dept
        BY <2>3, <3>3 DEF ChangeOf
      <3>5. ch.alone /\ id \notin Family(ch.of) /\ (u \in ch.early => ch.at = "companies") /\ Changing
        BY <1>2, <3>2, <3>4 DEF Changing
      <3>6. \A r \in Known(rows') : (r \in Known(rows) /\ rows'[r] = rows[r]) \/ rows'[r] = row
        <4>1. CASE tx[u].at = "add"
          <5>1. rows' = Append(rows, row) /\ id = 0 /\ row \in RowSet
            BY <1>2, <2>1, <3>1, <4>1 DEF Commit, FormInv, IsRow, RowOver
          <5>2. /\ Len(rows') = Len(rows) + 1 /\ rows'[Len(rows) + 1] = row /\ Len(rows) \in Nat
                /\ \A q \in 1..Len(rows) : rows'[q] = rows[q]
            BY <5>1, AppendProperties, RowFacts DEF RowsInv
          <5> QED BY <5>1, <5>2 DEF Known
        <4>2. CASE tx[u].at # "add"
          <5>1. id \in Known(rows) /\ rows' = [rows EXCEPT ![id] = row]
            BY <1>2, <2>1, <3>1, <4>2 DEF Commit, FormInv
          <5> QED BY <5>1, RowFacts DEF Known, RowsInv
        <4> QED BY <4>1, <4>2
      <3>7. /\ Family(ch.of) = ch.of \cup ContactsOf(ch.of) /\ ch.of \subseteq Known(rows)
            /\ DOMAIN rows' = Known(rows') /\ DOMAIN rows = Known(rows) /\ Known(rows) \subseteq Known(rows')
        BY <2>3, FamilyIs, RowsKept, RowFacts, LenProperties DEF RowsInv, RowsGrow, Known
      <3>8. \A r \in ch.of : rows'[r] = rows[r]
        <4> SUFFICES ASSUME NEW r \in ch.of PROVE rows'[r] = rows[r]
          OBVIOUS
        <4>1. r \in Known(rows) /\ r # id
          BY <3>5, <3>7
        <4>2. CASE tx[u].at = "add"
          <5>1. rows' = Append(rows, row) /\ row \in RowSet
            BY <1>2, <2>1, <3>1, <4>2 DEF Commit, IsRow, RowOver
          <5> QED BY <4>1, <5>1, AppendProperties, RowFacts DEF RowsInv, Known
        <4>3. CASE tx[u].at # "add"
          BY <1>2, <2>1, <3>1, <4>1, <4>3, RowFacts DEF Commit, FormInv
        <4> QED BY <4>2, <4>3
      <3>9. \A r \in ch.of : ReachedThen(r) => Given(r)'
        BY <3>4, <3>5, <3>8 DEF TogetherInv, Reached, ReachedThen, Given
      <3>10. ASSUME ch.at # "companies", row.company \in ch.of
             PROVE row.owner = ch.owner /\ row.dept = ch.dept
        BY <2>1, <3>1, <3>5, <3>10 DEF TogetherInv, Reached, ReachedThen
      <3>11. ASSUME NEW r \in DOMAIN rows', rows'[r].company \in ch.of, ch.at # "companies", r \notin DOMAIN ch.left
             PROVE Given(r)'
        <4>1. CASE rows'[r] = row
          BY <3>4, <3>10, <3>11, <4>1 DEF Given
        <4>2. CASE rows'[r] # row
          <5>1. r \in Known(rows) /\ rows'[r] = rows[r]
            BY <3>6, <3>7, <3>11, <4>2
          <5>2. r \in ContactsOf(ch.of)
            BY <3>7, <3>11, <5>1 DEF ContactsOf
          <5>3. Given(r)
            BY <3>5, <3>11, <5>2 DEF TogetherInv, Reached, ReachedThen
          <5> QED BY <3>4, <5>1, <5>3 DEF Given
        <4> QED BY <4>1, <4>2
      <3>12. ch'.at # "companies" => \A r \in ContactsOf(ch.of)' : r \notin DOMAIN ch'.left => Given(r)'
        BY <3>4, <3>11 DEF ContactsOf
      <3>13. ASSUME NEW v \in Users, tx'[v] # Idle, tx'[v].row.company \in ch.of
             PROVE \/ v \in ch'.early \/ ~ReachedThen(tx'[v].row.company)
                   \/ tx'[v].row.owner = ch'.owner /\ tx'[v].row.dept = ch'.dept
        <4>1. v # u /\ tx'[v] = tx[v]
          BY <2>4, <3>13
        <4>2. ReachedThen(tx'[v].row.company) <=> Reached(tx[v].row.company)
          BY <3>4, <4>1 DEF Reached, ReachedThen
        <4> QED BY <3>2, <3>4, <3>5, <3>13, <4>1, <4>2 DEF TogetherInv, Reached, ReachedThen
      <3> QED BY <3>4, <3>9, <3>12, <3>13 DEF TogetherInv, Reached, ReachedThen
    <2> QED BY <2>5, <2>6
  <1>3. ASSUME NEW u \in Users, NEW r \in DOMAIN rows, StartChange(u, {r}) PROVE TogetherInv'
    <2>1. /\ ch'.at = "companies" /\ DOMAIN ch'.left = {r} /\ ch'.of = {r} /\ UNCHANGED tx
      BY <1>3 DEF StartChange, Restrict
    <2> QED BY <2>1 DEF TogetherInv, Reached, ReachedThen
  <1>4. CASE LoadContacts
    <2>1. ch.at = "companies" /\ ChangeOf(ch) /\ DOMAIN ch.left = {}
      BY <1>4 DEF LoadContacts, ChangeInv, Idle
    <2>2. PICK S, f : S = ContactsOf(ch.of) /\ f = Restrict(rows, S)
      OBVIOUS
    <2>3. /\ ch' = [ch EXCEPT !.at = "contacts", !.left = f]
          /\ UNCHANGED <<rows, tx>> /\ DOMAIN f = S
      BY <1>4, <2>2 DEF LoadContacts, Restrict
    <2>4. /\ ch'.of = ch.of /\ ch'.at = "contacts" /\ ch'.left = f /\ ch'.alone = ch.alone
          /\ ch'.owner = ch.owner /\ ch'.dept = ch.dept /\ ch'.early = ch.early
      BY <2>1, <2>3 DEF ChangeOf
    <2>5. ContactsOf(ch.of)' = S
      BY <2>2, <2>3, <2>4 DEF ContactsOf
    <2>6. Changing
      BY <2>1 DEF Changing
    <2>7. \A c : Reached(c)
      BY <2>1 DEF Reached, ReachedThen
    <2> QED BY <2>1, <2>3, <2>4, <2>5, <2>6, <2>7 DEF TogetherInv, Given
  <1>5. ASSUME NEW r \in DOMAIN rows, ChangeOwner(r) PROVE TogetherInv'
    <2> SUFFICES ASSUME ~Dangling(ch.left[r]) PROVE TogetherInv'
      BY <1>5 DEF ChangeOwner, TogetherInv, Changing
    <2>1. /\ ch.at \in {"companies", "contacts"} /\ ChangeOf(ch) /\ Changing /\ r \in DOMAIN ch.left
      BY <1>5 DEF ChangeOwner, ChangeInv, Idle, Changing
    <2>2. PICK f, E : f = Restrict(ch.left, DOMAIN ch.left \ {r}) /\ E = ch.early \cup HaveRead(r)
      OBVIOUS
    <2>3. ch' = [ch EXCEPT !.left = f, !.early = E] /\ DOMAIN f = DOMAIN ch.left \ {r} /\ UNCHANGED tx
      BY <1>5, <2>2 DEF ChangeOwner, Restrict
    <2>4. /\ ch'.of = ch.of /\ ch'.at = ch.at /\ ch'.left = f /\ ch'.alone = ch.alone
          /\ ch'.owner = ch.owner /\ ch'.dept = ch.dept /\ ch'.early = E
      BY <2>1, <2>3 DEF ChangeOf
    <2>5. rows' = [rows EXCEPT ![r] = HandedTo(r)]
      BY <1>5 DEF ChangeOwner, HandedTo
    <2>6. \A q \in Known(rows) : rows'[q] = IF q = r THEN HandedTo(r) ELSE rows[q]
      BY <2>5, RowFacts
    <2>7. HandedTo(r).owner = ch.owner /\ HandedTo(r).dept = ch.dept
      BY <2>1, HandedRow
    <2>8. DOMAIN rows' = Known(rows) /\ ch.of \subseteq Known(rows) /\ DOMAIN rows = Known(rows)
      BY <2>1, <2>5, FamilyIs, RowFacts
    <2>9. \A q \in ch.of : ReachedThen(q) /\ q # r => Reached(q)
      BY <2>3, <2>4 DEF Reached, ReachedThen
    <2>10. ASSUME ch.alone
           PROVE \A q \in ch.of : ReachedThen(q) => Given(q)'
      BY <2>1, <2>4, <2>6, <2>7, <2>8, <2>9, <2>10 DEF TogetherInv, Given
    <2>11. ASSUME ch.alone, ch.at # "companies", NEW q \in Known(rows), rows'[q].company \in ch.of,
                  q \notin DOMAIN f
           PROVE Given(q)'
      <3>1. CASE q = r
        BY <2>4, <2>6, <2>7, <3>1 DEF Given
      <3>2. CASE q # r
        <4>1. q \in ContactsOf(ch.of) /\ q \notin DOMAIN ch.left /\ rows'[q] = rows[q]
          BY <2>3, <2>6, <2>8, <2>11, <3>2 DEF ContactsOf
        <4> QED BY <2>1, <2>4, <2>11, <4>1 DEF TogetherInv, Given
      <3> QED BY <3>1, <3>2
    <2>12. ASSUME ch.alone, NEW v \in Users, tx[v] # Idle, tx[v].row.company \in ch.of
           PROVE \/ v \in E \/ ~ReachedThen(tx[v].row.company)
                 \/ tx[v].row.owner = ch.owner /\ tx[v].row.dept = ch.dept
      <3>1. PICK c : c = tx[v].row.company
        OBVIOUS
      <3>2. CASE c = r
        BY <2>2, <2>12, <3>1, <3>2 DEF HaveRead
      <3>3. CASE c # r
        <4>1. ReachedThen(c) => Reached(c)
          BY <2>9, <2>12, <3>1, <3>3
        <4>2. ReachedThen(c) <=> ReachedThen(tx[v].row.company)
          BY <2>3, <3>1 DEF Reached, ReachedThen
        <4>3. v \in ch.early \/ ~Reached(c) \/ (tx[v].row.owner = ch.owner /\ tx[v].row.dept = ch.dept)
          BY <2>1, <2>12, <3>1 DEF TogetherInv, Reached, ReachedThen
        <4> QED BY <2>2, <4>1, <4>2, <4>3
      <3> QED BY <3>2, <3>3
    <2>13. ch.alone /\ ch.at # "companies" =>
             \A q \in ContactsOf(ch.of)' : q \notin DOMAIN f => Given(q)'
      BY <2>4, <2>8, <2>11 DEF ContactsOf
    <2>14. \A v \in Users : ReachedThen(tx[v].row.company) <=> ReachedThen(tx'[v].row.company)
      BY <2>3 DEF Reached, ReachedThen
    <2> QED BY <2>1, <2>3, <2>4, <2>10, <2>12, <2>13, <2>14 DEF TogetherInv, Reached, ReachedThen
  <1>6. CASE ChangeEnds
    <2>1. ch.at = "contacts" /\ DOMAIN ch.left = {} /\ ChangeOf(ch) /\ Changing /\ UNCHANGED <<rows, tx>>
          /\ ch' = [ch EXCEPT !.at = "done"]
      BY <1>6 DEF ChangeEnds, ChangeInv, Idle, Changing
    <2>2. /\ ch'.of = ch.of /\ ch'.at = "done" /\ ch'.left = ch.left /\ ch'.alone = ch.alone
          /\ ch'.owner = ch.owner /\ ch'.dept = ch.dept /\ ch'.early = ch.early
      BY <2>1 DEF ChangeOf
    <2>3. ContactsOf(ch.of)' = ContactsOf(ch.of) /\ \A c : Reached(c)
      BY <2>1, <2>2 DEF ContactsOf, Reached, ReachedThen
    <2> QED BY <2>1, <2>2, <2>3 DEF TogetherInv, Given
  <1>7. CASE ChangeDies
    BY <1>7 DEF ChangeDies, TogetherInv, Changing
  <1>8. CASE ~(Changing' /\ ch'.alone)
    BY <1>8 DEF TogetherInv, Reached, ReachedThen
  <1> QED BY <1>1, <1>2, <1>3, <1>4, <1>5, <1>6, <1>7, <1>8 DEF ChangeStep

LEMMA TogetherHolds == ASSUME TypesInv, TogetherInv PROVE Together
  <1>1. ASSUME ch.at = "done", ch.alone PROVE Changing /\ ChangeOf(ch)
    BY <1>1 DEF TypesInv, ChangeInv, Changing, Idle
  <1>2. RowsInv
    BY DEF TypesInv
  <1> QED BY <1>1, <1>2, FamilyIs DEF TogetherInv, Together, Given, ChangeOf, Reached
-----------------------------------------------------------------------------
(* A transfer: how far each row is that nobody else has saved.  Its model  *)
(* is the one before, after or at which the transfer is; within a model a  *)
(* row is loaded, has its keys looked up, and then its lists replaced.     *)

Like(l, e, x, d) == l[x].name = l[e].name /\ l[x].dept = d
Among(l, e, d, n) == \E x \in 1..n : l[x].kind = l[e].kind /\ Like(l, e, x, d)
KeysFollow(old, now, t, l) ==
    \A k \in DOMAIN old.fk : old.fk[k] # 0 =>
        \/ k # "source" /\ now.fk[k] # 0 /\ Like(l, old.fk[k], now.fk[k], t.dept)
        \/ k = "source" /\ now.fk[k] \in {0, old.fk[k]}
        \/ k = "type" /\ now.fk[k] = old.fk[k] /\ ~Among(l, old.fk[k], t.dept, t.known)
ListsFollow(old, now, t, l) ==
    /\ \A e \in old.m2m :
         \/ e \in now.m2m /\ l[e].dept = t.dept
         \/ l[e].kind # "tag" /\ \E x \in now.m2m : Like(l, e, x, t.dept)
         \/ l[e].kind # "tag" /\ ~Among(l, e, t.dept, t.known)
    /\ \A x \in now.m2m : l[x].dept = t.dept
\* A row that is the same but for the department, and perhaps its lead source,
\* which is no more.
Akin(now, old, d) ==
    /\ now.model = old.model /\ now.owner = old.owner /\ now.m2m = old.m2m /\ now.dept = d
    /\ DOMAIN now.fk = DOMAIN old.fk
    /\ \A k \in DOMAIN old.fk : now.fk[k] = old.fk[k] \/ (k = "source" /\ now.fk[k] = 0)
Half(old, now, t, l) ==
    now.owner = t.user /\ now.dept = t.dept /\ now.m2m = old.m2m /\ KeysFollow(old, now, t, l)
Through(old, now, t, l) ==
    /\ now.owner = t.user /\ now.dept = t.dept
    /\ KeysFollow(old, now, t, l) /\ ListsFollow(old, now, t, l)
Place(m) == CHOOSE j \in 1..10 : Objects[j].model = m
Before(j, t) == j > t.i \/ (j = t.i /\ t.at \in {"add", "update"})
Loaded(j, r, t) == j = t.i /\ (t.at = "load" \/ (t.at \in {"rows", "lists"} /\ r \in DOMAIN t.left \ {t.cur}))
Behind(j, r, t) == j < t.i \/ (j = t.i /\ t.at \in {"rows", "lists"} /\ r \notin DOMAIN t.left)
Going == {"add", "update", "load", "rows", "lists"}
Progress(r, old, now, t, l) ==
    /\ old.owner = t.user
    /\ t.at \in Going => LET j == Place(old.model)
                         IN  /\ Before(j, t) => Akin(now, old, old.dept)
                             /\ Loaded(j, r, t) => /\ Akin(now, old, t.dept)
                                                   /\ t.at # "load" => Akin(t.left[r], old, t.dept)
                             /\ j = t.i /\ t.at = "lists" /\ r = t.cur => Half(old, now, t, l)
                             /\ Behind(j, r, t) => Through(old, now, t, l)
    /\ t.at = "done" => Through(old, now, t, l)
MovedInv == tr # Idle =>
    \A r \in DOMAIN tr.before : Progress(r, tr.before[r], rows[r], tr, entries)

LEMMA PlaceOf ==
    \A m \in Models : /\ Place(m) \in 1..10 /\ Objects[Place(m)].model = m
                      /\ \A j \in 1..10 : Objects[j].model = m => j = Place(m)
  BY ObjectsAre DEF Place

LEMMA KindsOfRow ==
    ASSUME NEW row, IsRow(row), ListsInv
    PROVE /\ \A k \in FkOf(row.model) : /\ row.fk[k] # 0 => row.fk[k] \in Known(entries)
                                        /\ row.fk[k] # 0 => entries[row.fk[k]].kind = k
          /\ DOMAIN row.fk = FkOf(row.model) /\ FkOf(row.model) \subseteq {"stage", "reason", "type", "source"}
          /\ \A e \in row.m2m : /\ e \in Known(entries)
                                /\ entries[e].kind \in ListsOf(row.model)
                                /\ entries[e].kind \in {"product", "industry", "tag"}
          /\ row.model \in Models
  <1>1. row.model \in Models
    BY DEF IsRow, RowOver, RowSet
  <1>2. ListsOf(row.model) \subseteq {"product", "industry", "tag"}
    BY <1>1, ObjectsAre
  <1> QED BY <1>1, <1>2, EntryFacts DEF IsRow, RowOver, Refers, FkOf, Known

\* Of the lists a row can have, only tags change their department, and only
\* to that of the transfer.
MovesTo(d) == \A e \in Known(entries) : entries[e].kind # "source" =>
                  entries'[e].dept = entries[e].dept \/ (entries[e].kind = "tag" /\ entries'[e].dept = d)
LEMMA EntriesMove ==
    ASSUME TypesInv, Next
    PROVE MovesTo(tr.dept) /\ (~TransferStep => \A d : MovesTo(d))
  <1> USE DEF TypesInv
  <1>1. Frames
    BY StepFrames
  <1>2. ASSUME NEW x, entries' = Append(entries, x) PROVE \A d : MovesTo(d)
    BY <1>2, AppendProperties, EntryFacts DEF ListsInv, Known, MovesTo
  <1>3. CASE CopySave \/ AddStep
    BY <1>2, <1>3 DEF CopySave, AddStep, AddEntry
  <1>4. ASSUME NEW e \in DOMAIN entries, DeleteSource(e) PROVE \A d : MovesTo(d)
    BY <1>4, EntryFacts DEF DeleteSource, MovesTo
  <1>5. ASSUME UNCHANGED entries PROVE \A d : MovesTo(d)
    BY <1>5 DEF MovesTo
  <1>6. CASE TransferLists
    <2>1. MovesTo(tr.dept)
      BY <1>6, EntryFacts DEF TransferLists, MovesTo, EntrySet, OfKind
    <2> QED BY <1>6, <2>1 DEF TransferStep
  <1> QED BY <1>1, <1>3, <1>4, <1>5, <1>6 DEF Frames, EntryStep, AddStep, DeleteStep

LEMMA FollowStays ==
    ASSUME ListsInv, ListsInv', ListsGrow, NEW old, NEW now, NEW t, IsRow(old), IsRow(now),
           old.model = now.model, t.known \in 0..Len(entries), MovesTo(t.dept),
           NEW new, Akin(new, now, now.dept)
    PROVE /\ KeysFollow(old, now, t, entries) => KeysFollow(old, new, t, entries')
          /\ ListsFollow(old, now, t, entries) => ListsFollow(old, new, t, entries')
  <1>1. \A e \in Known(entries) : /\ entries'[e].kind = entries[e].kind
                                  /\ entries'[e].name = entries[e].name
                                  /\ entries[e].kind \notin {"source", "tag"} => entries'[e].dept = entries[e].dept
                                  /\ entries[e].kind # "source" /\ entries[e].dept = t.dept => entries'[e].dept = t.dept
    BY DEF ListsGrow, MovesTo
  <1>2. 1..t.known \subseteq Known(entries)
    BY EntryFacts DEF Known
  <1>3. ASSUME NEW e \in Known(entries), entries[e].kind \notin {"source", "tag"},
               ~Among(entries, e, t.dept, t.known)
        PROVE ~Among(entries', e, t.dept, t.known)
    BY <1>1, <1>2, <1>3 DEF Among, Like
  <1>4. ASSUME NEW e \in Known(entries), NEW x \in Known(entries), entries[x].kind # "source",
               Like(entries, e, x, t.dept)
        PROVE Like(entries', e, x, t.dept)
    BY <1>1, <1>4 DEF Like
  <1>5. ASSUME KeysFollow(old, now, t, entries) PROVE KeysFollow(old, new, t, entries')
    <2> SUFFICES ASSUME NEW k \in DOMAIN old.fk, old.fk[k] # 0
                 PROVE \/ k # "source" /\ new.fk[k] # 0 /\ Like(entries', old.fk[k], new.fk[k], t.dept)
                       \/ k = "source" /\ new.fk[k] \in {0, old.fk[k]}
                       \/ k = "type" /\ new.fk[k] = old.fk[k] /\ ~Among(entries', old.fk[k], t.dept, t.known)
      BY DEF KeysFollow
    <2>1. /\ old.fk[k] \in Known(entries) /\ entries[old.fk[k]].kind = k /\ k \in {"stage", "reason", "type", "source"}
          /\ now.fk[k] # 0 => now.fk[k] \in Known(entries) /\ entries[now.fk[k]].kind = k
      <3>0. DOMAIN old.fk = FkOf(old.model) /\ FkOf(old.model) \subseteq {"stage", "reason", "type", "source"}
        BY KindsOfRow
      <3>1. k \in FkOf(old.model) /\ k \in FkOf(now.model) /\ k \in {"stage", "reason", "type", "source"}
        BY <3>0
      <3>2. old.fk[k] \in Known(entries) /\ entries[old.fk[k]].kind = k
        BY <3>1, KindsOfRow
      <3>3. now.fk[k] # 0 => now.fk[k] \in Known(entries) /\ entries[now.fk[k]].kind = k
        BY <3>1, KindsOfRow
      <3> QED BY <3>1, <3>2, <3>3
    <2>2. new.fk[k] = now.fk[k] \/ (k = "source" /\ new.fk[k] = 0)
      <3>1. DOMAIN now.fk = DOMAIN old.fk
        BY KindsOfRow
      <3> QED BY <3>1 DEF Akin
    <2>3. CASE k # "source" /\ now.fk[k] # 0 /\ Like(entries, old.fk[k], now.fk[k], t.dept)
      BY <1>4, <2>1, <2>2, <2>3
    <2>4. CASE k = "source" /\ now.fk[k] \in {0, old.fk[k]}
      BY <2>2, <2>4
    <2>5. CASE k = "type" /\ now.fk[k] = old.fk[k] /\ ~Among(entries, old.fk[k], t.dept, t.known)
      BY <1>3, <2>1, <2>2, <2>5
    <2> QED BY <1>5, <2>3, <2>4, <2>5 DEF KeysFollow
  <1>6. ASSUME ListsFollow(old, now, t, entries) PROVE ListsFollow(old, new, t, entries')
    <2>0. new.m2m = now.m2m
      BY DEF Akin
    <2>1. ASSUME NEW e \in old.m2m
          PROVE \/ e \in now.m2m /\ entries'[e].dept = t.dept
                \/ entries'[e].kind # "tag" /\ \E x \in now.m2m : Like(entries', e, x, t.dept)
                \/ entries'[e].kind # "tag" /\ ~Among(entries', e, t.dept, t.known)
      <3>1. e \in Known(entries) /\ entries[e].kind \in {"product", "industry", "tag"}
        BY KindsOfRow
      <3>2. CASE e \in now.m2m /\ entries[e].dept = t.dept
        BY <1>1, <3>1, <3>2
      <3>3. ASSUME entries[e].kind # "tag", NEW x \in now.m2m, Like(entries, e, x, t.dept)
            PROVE entries'[e].kind # "tag" /\ Like(entries', e, x, t.dept)
        BY <1>1, <1>4, <3>1, <3>3, KindsOfRow
      <3>4. CASE entries[e].kind # "tag" /\ ~Among(entries, e, t.dept, t.known)
        BY <1>1, <1>3, <3>1, <3>4
      <3> QED BY <1>6, <3>2, <3>3, <3>4 DEF ListsFollow
    <2>2. \A x \in now.m2m : entries'[x].dept = t.dept
      BY <1>1, <1>6, KindsOfRow DEF ListsFollow
    <2> QED BY <2>0, <2>1, <2>2 DEF ListsFollow
  <1> QED BY <1>5, <1>6

\* As far as the rows are concerned, two states of a transfer are the same.
Agree(t, b) == /\ b.at = t.at /\ b.user = t.user /\ b.dept = t.dept /\ b.i = t.i /\ b.left = t.left
               /\ b.cur = t.cur /\ b.known = t.known
LEMMA AkinTwice ==
    ASSUME NEW old, NEW now, NEW new, NEW d, Akin(now, old, d), Akin(new, now, d) PROVE Akin(new, old, d)
  BY DEF Akin

LEMMA ProgressStays ==
    ASSUME ListsInv, ListsInv', ListsGrow, NEW r, NEW old, NEW now, NEW t, NEW b, IsRow(old), IsRow(now),
           old.model = now.model, t.known \in 0..Len(entries), MovesTo(t.dept), Agree(t, b),
           Progress(r, old, now, t, entries), NEW new, Akin(new, now, now.dept)
    PROVE Progress(r, old, new, b, entries')
  <1>1. /\ KeysFollow(old, now, t, entries) => KeysFollow(old, new, t, entries')
        /\ ListsFollow(old, now, t, entries) => ListsFollow(old, new, t, entries')
    BY FollowStays
  <1>2. /\ KeysFollow(old, new, t, entries') <=> KeysFollow(old, new, b, entries')
        /\ ListsFollow(old, new, t, entries') <=> ListsFollow(old, new, b, entries')
    BY DEF KeysFollow, ListsFollow, Agree
  <1>3. new.owner = now.owner /\ new.dept = now.dept /\ new.m2m = now.m2m
    BY DEF Akin
  <1>4. /\ Through(old, now, t, entries) => Through(old, new, b, entries')
        /\ Half(old, now, t, entries) => Half(old, new, b, entries')
    BY <1>1, <1>2, <1>3 DEF Through, Half, Agree
  <1>5. \A j : /\ Before(j, t) <=> Before(j, b)
               /\ Loaded(j, r, t) <=> Loaded(j, r, b)
               /\ Behind(j, r, t) <=> Behind(j, r, b)
    BY DEF Before, Loaded, Behind, Agree
  <1>6. \A d : Akin(now, old, d) => Akin(new, old, d)
    <2> SUFFICES ASSUME NEW d, Akin(now, old, d) PROVE Akin(new, old, d)
      OBVIOUS
    <2>1. now.dept = d
      BY DEF Akin
    <2> QED BY <2>1, AkinTwice
  <1> QED BY <1>4, <1>5, <1>6 DEF Progress, Agree

LEMMA ThroughSame ==
    ASSUME NEW t, NEW b, b.user = t.user, b.dept = t.dept, b.known = t.known, NEW old, NEW now, NEW l
    PROVE /\ KeysFollow(old, now, t, l) <=> KeysFollow(old, now, b, l)
          /\ ListsFollow(old, now, t, l) <=> ListsFollow(old, now, b, l)
          /\ Through(old, now, t, l) <=> Through(old, now, b, l)
          /\ Half(old, now, t, l) <=> Half(old, now, b, l)
  <1>1. /\ KeysFollow(old, now, t, l) <=> KeysFollow(old, now, b, l)
        /\ ListsFollow(old, now, t, l) <=> ListsFollow(old, now, b, l)
    BY DEF KeysFollow, ListsFollow
  <1> QED BY <1>1 DEF Through, Half

LEMMA BeforeFacts ==
    ASSUME TypesInv, MovedInv, Transferring(tr), NEW r \in DOMAIN tr.before
    PROVE /\ r \in Known(rows) /\ IsRow(tr.before[r]) /\ IsRow(rows[r])
          /\ tr.before[r].model = rows[r].model /\ tr.before[r].model \in Models
          /\ tr.before[r] \in RowSet /\ rows[r] \in RowSet
          /\ Place(rows[r].model) \in 1..10 /\ Objects[Place(rows[r].model)].model = rows[r].model
          /\ \A j \in 1..10 : Objects[j].model = rows[r].model => j = Place(rows[r].model)
          /\ tr.before[r].owner = tr.user
          /\ Progress(r, tr.before[r], rows[r], tr, entries)
          /\ tr.known \in 0..Len(entries)
  <1>1. r \in Known(rows) /\ IsRow(tr.before[r]) /\ Alike(tr.before[r], rows[r])
    BY DEF Transferring, PartOf
  <1>2. IsRow(rows[r])
    BY <1>1, RowFacts DEF TypesInv
  <1>3. rows[r].model \in Models
    BY <1>2, KindsOfRow DEF TypesInv
  <1>4. tr # Idle
    BY DEF Transferring, Idle
  <1>5. Progress(r, tr.before[r], rows[r], tr, entries)
    BY <1>4 DEF MovedInv
  <1> QED BY <1>1, <1>2, <1>3, <1>5, PlaceOf DEF Progress, Alike, Transferring, IsRow, RowOver

LEMMA AkinSame == ASSUME NEW row PROVE Akin(row, row, row.dept)
  BY DEF Akin

\* The rows of others do not matter, nor what a deleted source takes from one.
LEMMA MovedFrame ==
    ASSUME TypesInv, Next, ~TransferStep, Transferring(tr), NEW r \in DOMAIN tr'.before
    PROVE /\ r \in DOMAIN tr.before /\ tr'.before[r] = tr.before[r]
          /\ Akin(rows'[r], rows[r], rows[r].dept) /\ Agree(tr, tr')
  <1> USE DEF TypesInv
  <1> DEFINE Goal == /\ r \in DOMAIN tr.before /\ tr'.before[r] = tr.before[r]
                     /\ Akin(rows'[r], rows[r], rows[r].dept) /\ Agree(tr, tr')
  <1>1. Frames
    BY StepFrames
  <1>2. ASSUME NEW S, tr' = TransferForgets(S), \A q \in Known(rows) \ S : rows'[q] = rows[q]
        PROVE Goal
    <2>1. PICK f : f = Restrict(tr.before, DOMAIN tr.before \ S)
      OBVIOUS
    <2>2. tr' = [tr EXCEPT !.before = f]
      BY <1>2, <2>1 DEF TransferForgets, Transferring
    <2>3. tr'.before = f /\ Agree(tr, tr')
      BY <2>2 DEF Transferring, Agree
    <2>4. r \in DOMAIN tr.before \ S /\ f[r] = tr.before[r]
      BY <2>1, <2>3 DEF Restrict
    <2>5. r \in Known(rows)
      BY <2>4 DEF Transferring, PartOf
    <2> QED BY <1>2, <2>3, <2>4, <2>5, AkinSame
  <1>3. ASSUME UNCHANGED tr, \A q \in Known(rows) : rows'[q] = rows[q]
        PROVE Goal
    BY <1>3, AkinSame DEF Agree, Transferring, PartOf
  <1>4. ASSUME NEW x, rows' = Append(rows, x) PROVE \A q \in Known(rows) : rows'[q] = rows[q]
    BY <1>4, AppendProperties, RowFacts DEF RowsInv, Known
  <1>5. ASSUME NEW q \in DOMAIN rows, ChangeOwner(q) PROVE Goal
    <2>1. CASE Dangling(ch.left[q])
      BY <1>3, <1>5, <2>1 DEF ChangeOwner
    <2>2. CASE ~Dangling(ch.left[q])
      <3>1. tr' = TransferForgets({q}) /\ \A x \in Known(rows) \ {q} : rows'[x] = rows[x]
        BY <1>5, <2>2, RowFacts DEF ChangeOwner
      <3> QED BY <1>2, <3>1
    <2> QED BY <2>1, <2>2
  <1>6. ASSUME NEW u \in Users, Commit(u) PROVE Goal
    <2>1. CASE Dangling(tx[u].row)
      BY <1>3, <1>6, <2>1 DEF Commit
    <2>2. CASE ~Dangling(tx[u].row)
      <3>1. tr' = TransferForgets({tx[u].id}) /\ \A x \in Known(rows) \ {tx[u].id} : rows'[x] = rows[x]
        <4>1. CASE tx[u].at = "add"
          BY <1>4, <1>6, <2>2, <4>1 DEF Commit
        <4>2. CASE tx[u].at # "add"
          BY <1>6, <2>2, <4>2, RowFacts DEF Commit
        <4> QED BY <4>1, <4>2
      <3> QED BY <1>2, <3>1
    <2> QED BY <2>1, <2>2
  <1>7. CASE NewRowStep
    <2>1. UNCHANGED tr /\ (UNCHANGED rows \/ \E x : rows' = Append(rows, x))
      BY <1>7 DEF NewRowStep, SaveRequest, SaveMail
    <2> QED BY <1>3, <1>4, <2>1
  <1>8. CASE AddStep
    <2>1. tr' = [tr EXCEPT !.sure = FALSE] /\ UNCHANGED rows
      BY <1>8 DEF AddStep, AddEntry, Unsure, Transferring
    <2> QED BY <2>1, AkinSame DEF Agree, Transferring
  <1>9. ASSUME NEW e \in DOMAIN entries, DeleteSource(e) PROVE Goal
    <2>1. tr' = [tr EXCEPT !.sure = FALSE]
      BY <1>9 DEF DeleteSource, Unsure, Transferring
    <2>2. r \in DOMAIN tr.before /\ tr'.before[r] = tr.before[r] /\ Agree(tr, tr')
      BY <2>1 DEF Agree, Transferring
    <2>3. r \in Known(rows)
      BY <2>2 DEF Transferring, PartOf
    <2>4. rows'[r] = Forgotten(rows[r], e)
      BY <1>9, <2>3, DeletedSource
    <2>5. PICK row : row = rows[r]
      OBVIOUS
    <2>6. IsRow(row)
      BY <2>3, <2>5, RowFacts
    <2>7. entries[e].kind = "source" /\ e \in Known(entries)
      BY <1>9, DeletedSource
    <2>8. \A k \in DOMAIN row.fk : row.fk[k] = e => k = "source"
      BY <2>6, <2>7, KindsOfRow, EntryFacts DEF Known
    <2>9. Akin(Forgotten(row, e), row, row.dept)
      <3>1. /\ Forgotten(row, e).model = row.model /\ Forgotten(row, e).owner = row.owner
            /\ Forgotten(row, e).m2m = row.m2m /\ Forgotten(row, e).dept = row.dept
            /\ DOMAIN Forgotten(row, e).fk = DOMAIN row.fk
            /\ \A k \in DOMAIN row.fk : Forgotten(row, e).fk[k] = IF row.fk[k] = e THEN 0 ELSE row.fk[k]
        BY <2>6, ForgottenRow DEF Alike
      <3> HIDE DEF Forgotten
      <3> QED BY <2>8, <3>1 DEF Akin
    <2> QED BY <2>2, <2>4, <2>5, <2>9
  <1>10. CASE UNCHANGED <<tr, rows>>
    BY <1>3, <1>10
  <1>11. RowStep => TransferStep \/ OtherRowStep \/ NewRowStep \/ DeleteStep
    BY DEF RowStep, OwnRowStep, TransferStep
  <1>12. OtherRowStep \/ AddStep \/ DeleteStep \/ UNCHANGED tr
    BY <1>1 DEF Frames
  <1> QED BY <1>1, <1>5, <1>6, <1>7, <1>8, <1>9, <1>10, <1>11, <1>12
      DEF Frames, OtherRowStep, DeleteStep

LEMMA MovedByStart ==
    ASSUME TypesInv, NEW u, NEW d, StartTransfer(u, d) PROVE MovedInv'
  <1>1. PICK f, b : f = Restrict(rows, RowsOf(u)) /\ b = Sure(u, d)
    OBVIOUS
  <1>2. /\ tr' = [at |-> "add", user |-> u, dept |-> d, i |-> 1, left |-> <<>>, cur |-> 0,
                  before |-> f, known |-> Len(entries), sure |-> b]
        /\ UNCHANGED rows
    BY <1>1 DEF StartTransfer
  <1>3. \A r \in DOMAIN f : r \in Known(rows) /\ f[r] = rows[r] /\ rows[r].owner = u
    BY <1>1, RowFacts DEF TypesInv, Restrict, RowsOf
  <1>4. \A r \in DOMAIN f : Place(f[r].model) \in 1..10
    BY <1>3, RowFacts, PlaceOf DEF TypesInv, RowSet
  <1> SUFFICES ASSUME NEW r \in DOMAIN f PROVE Progress(r, f[r], rows[r], tr', entries')
    BY <1>2 DEF MovedInv
  <1>5. PICK j \in 1..10 : j = Place(f[r].model)
    BY <1>4
  <1>6. ~Loaded(j, r, tr') /\ ~Behind(j, r, tr')
    BY <1>2 DEF Loaded, Behind
  <1> QED BY <1>2, <1>3, <1>5, <1>6, AkinSame DEF Progress

LEMMA MovedByGroup ==
    ASSUME TypesInv, MovedInv, AddGroup PROVE MovedInv'
  <1>1. tr.at = "add" /\ Transferring(tr) /\ tr' = [tr EXCEPT !.at = "update"] /\ UNCHANGED <<rows, entries>>
    BY DEF AddGroup, TypesInv, TransferInv, Idle
  <1>2. PICK t : t = tr'
    OBVIOUS
  <1>3. /\ t.at = "update" /\ t.user = tr.user /\ t.dept = tr.dept /\ t.i = tr.i /\ t.left = tr.left
        /\ t.cur = tr.cur /\ t.known = tr.known /\ t.before = tr.before
    BY <1>1, <1>2 DEF Transferring
  <1> SUFFICES ASSUME NEW r \in DOMAIN tr.before
               PROVE Progress(r, tr.before[r], rows[r], t, entries)
    BY <1>1, <1>2, <1>3 DEF MovedInv
  <1>4. Progress(r, tr.before[r], rows[r], tr, entries)
    BY <1>1, BeforeFacts
  <1>5. \A j : /\ Before(j, t) <=> Before(j, tr)
               /\ ~Loaded(j, r, t)
               /\ Behind(j, r, t) <=> Behind(j, r, tr)
    BY <1>1, <1>3 DEF Before, Loaded, Behind
  <1> QED BY <1>1, <1>3, <1>4, <1>5, ThroughSame DEF Progress, Going

LEMMA AkinMoved ==
    ASSUME NEW now, now \in RowSet, NEW old, NEW c, Akin(now, old, c), NEW d
    PROVE Akin([now EXCEPT !.dept = d], old, d)
  <1>1. PICK new : new = [now EXCEPT !.dept = d]
    OBVIOUS
  <1>2. /\ new.model = now.model /\ new.owner = now.owner /\ new.m2m = now.m2m /\ new.dept = d
        /\ new.fk = now.fk
    BY <1>1 DEF RowSet
  <1>3. Akin(new, old, d)
    BY <1>2 DEF Akin
  <1> QED BY <1>1, <1>3

\* The models that are passed over have no rows of the user that are followed.
LEMMA MovedByUpdate ==
    ASSUME TypesInv, MovedInv, UpdateDepartment PROVE MovedInv'
  <1>1. /\ tr.at = "update" /\ Transferring(tr) /\ tr.i \in 1..11 /\ UNCHANGED entries
        /\ tr.user \in Users
    BY DEF UpdateDepartment, TypesInv, TransferInv, Transferring, Idle
  <1>2. PICK t : t = tr'
    OBVIOUS
  <1>3. t.user = tr.user /\ t.dept = tr.dept /\ t.known = tr.known /\ t.before = tr.before
    BY <1>1, <1>2 DEF UpdateDepartment, Transferring
  <1> SUFFICES ASSUME NEW r \in DOMAIN tr.before
               PROVE Progress(r, tr.before[r], rows'[r], t, entries)
    BY <1>1, <1>2, <1>3 DEF MovedInv
  <1>4. PICK old, now, j :
           old = tr.before[r] /\ now = rows[r] /\ j = Place(rows[r].model)
    OBVIOUS
  <1> j \in 1..10
    BY <1>1, <1>4, BeforeFacts
  <1>5. /\ r \in Known(rows) /\ r \in DOMAIN rows /\ old.owner = tr.user /\ old.model = now.model
        /\ Objects[j].model = now.model
        /\ j < tr.i => Through(old, now, tr, entries)
        /\ j >= tr.i => Akin(now, old, old.dept) /\ now.owner = tr.user
        /\ now \in RowSet
    <2>1. Progress(r, old, now, tr, entries)
      BY <1>1, <1>4, BeforeFacts
    <2>2. /\ old.model = now.model /\ Objects[j].model = now.model /\ old.owner = tr.user
          /\ r \in Known(rows) /\ now \in RowSet
      BY <1>1, <1>4, BeforeFacts
    <2>3. j < tr.i => Behind(j, r, tr)
      BY DEF Behind
    <2>4. j >= tr.i => Before(j, tr)
      BY <1>1 DEF Before
    <2>5. tr.at \in Going /\ j = Place(old.model)
      BY <1>1, <1>4, <2>2 DEF Going
    <2>6. j >= tr.i => Akin(now, old, old.dept)
      BY <2>1, <2>4, <2>5 DEF Progress
    <2>7. j < tr.i => Through(old, now, tr, entries)
      BY <2>1, <2>3, <2>5 DEF Progress
    <2>8. Akin(now, old, old.dept) => now.owner = tr.user
      BY <2>2 DEF Akin
    <2> QED BY <2>2, <2>6, <2>7, <2>8, RowFacts DEF TypesInv
  <1>6. j >= tr.i => r \in OwnedOf(j) /\ j \in Later
    BY <1>1, <1>4, <1>5, ObjectsAre DEF OwnedOf, RowsOf, Later
  <1>7. CASE Later = {}
    <2>1. t.at = "done" /\ rows' = rows
      BY <1>1, <1>2, <1>7 DEF UpdateDepartment, Transferring
    <2>2. Through(old, now, t, entries)
      BY <1>1, <1>3, <1>5, <1>6, <1>7, ThroughSame
    <2> QED BY <1>3, <1>4, <1>5, <2>1, <2>2 DEF Progress, Going
  <1>8. CASE Later # {}
    <2>1. Later \in SUBSET Nat /\ \A x \in Later : x \in 1..10 /\ x >= tr.i
      BY <1>1, ObjectsAre DEF Later
    <2>2. PICK i \in 1..10 : i = Min(Later) /\ i >= tr.i /\ \A y \in Later : i <= y
      BY <1>8, <2>1, LeastOf
    <2>3. /\ t.at = "load" /\ t.i = i
          /\ rows'[r] = IF r \in OwnedOf(i) THEN [now EXCEPT !.dept = tr.dept] ELSE now
      BY <1>1, <1>2, <1>4, <1>5, <1>8, <2>2 DEF UpdateDepartment, Transferring
    <2>4. j < i => j < tr.i
      BY <1>1, <1>6, <2>2
    <2>5. r \in OwnedOf(i) => j = i
      <3>1. r \in OwnedOf(i) => Objects[i].model = rows[r].model
        BY DEF OwnedOf
      <3> QED BY <1>1, <1>4, <3>1, BeforeFacts
    <2>6. CASE j < i
      <3>1. rows'[r] = now /\ Through(old, now, t, entries)
        BY <1>3, <1>5, <2>3, <2>4, <2>5, <2>6, ThroughSame
      <3>2. ~Before(j, t) /\ ~Loaded(j, r, t)
        BY <2>3, <2>6 DEF Before, Loaded
      <3> QED BY <1>3, <1>4, <1>5, <2>3, <2>6, <3>1, <3>2 DEF Progress
    <2>7. CASE j = i
      <3>1. Akin(rows'[r], old, t.dept)
        <4>1. rows'[r] = [now EXCEPT !.dept = t.dept] /\ Akin(now, old, old.dept)
          BY <1>3, <1>5, <1>6, <2>2, <2>3, <2>7
        <4> QED BY <1>5, <4>1, AkinMoved
      <3>2. ~Before(j, t) /\ ~Behind(j, r, t)
        BY <2>3, <2>7 DEF Before, Behind
      <3> QED BY <1>3, <1>4, <1>5, <2>3, <3>1, <3>2 DEF Progress
    <2>8. CASE j > i
      <3>1. rows'[r] = now /\ Akin(now, old, old.dept)
        BY <1>1, <1>5, <2>2, <2>3, <2>5, <2>8
      <3>2. ~Loaded(j, r, t) /\ ~Behind(j, r, t)
        BY <2>3, <2>8 DEF Loaded, Behind
      <3> QED BY <1>3, <1>4, <1>5, <2>3, <2>8, <3>1, <3>2 DEF Progress
    <2> QED BY <2>6, <2>7, <2>8
  <1> QED BY <1>7, <1>8

\* The next row or model of a transfer: only the rows of this model that are
\* left are not behind.
LEMMA NextOne ==
    ASSUME Transferring(tr), tr.i \in 1..10, NEW f, PartOf(f), RowsInv, NEW t,
           \A r \in DOMAIN f : f[r].model = Objects[tr.i].model,
           t = Next1([tr EXCEPT !.left = f])
    PROVE /\ t.user = tr.user /\ t.dept = tr.dept /\ t.known = tr.known /\ t.before = tr.before
          /\ t.at \in {"update", "rows"}
          /\ t.at = "rows" => t.left = f
          /\ \A r, j \in Nat : /\ j < tr.i => Behind(j, r, t) /\ ~Before(j, t)
                               /\ j > tr.i => ~Behind(j, r, t)
                               /\ j # tr.i => ~Loaded(j, r, t)
                               /\ j = tr.i => ~Before(j, t)
                               /\ j = tr.i /\ r \in DOMAIN f => t.at = "rows" /\ ~Behind(j, r, t)
                               /\ j = tr.i /\ r \notin DOMAIN f => ~Loaded(j, r, t)
  <1>1. t = IF DOMAIN f = {}
            THEN [tr EXCEPT !.at = "update", !.i = tr.i + 1, !.left = <<>>, !.cur = 0]
            ELSE [tr EXCEPT !.at = "rows", !.i = tr.i, !.left = f, !.cur = 0]
    BY TransferGoes
  <1>2. /\ t.user = tr.user /\ t.dept = tr.dept /\ t.known = tr.known /\ t.before = tr.before
        /\ t.at = IF DOMAIN f = {} THEN "update" ELSE "rows"
        /\ t.i = IF DOMAIN f = {} THEN tr.i + 1 ELSE tr.i
        /\ t.cur = 0 /\ (DOMAIN f # {} => t.left = f)
    BY <1>1 DEF Transferring
  <1>3. CASE DOMAIN f = {}
    <2>1. t.at = "update" /\ t.i = tr.i + 1
      BY <1>2, <1>3
    <2> QED BY <1>2, <1>3, <2>1 DEF Behind, Before, Loaded
  <1>4. CASE DOMAIN f # {}
    <2>1. t.at = "rows" /\ t.i = tr.i /\ t.left = f
      BY <1>2, <1>4
    <2> QED BY <1>2, <1>4, <2>1 DEF Behind, Before, Loaded
  <1> QED BY <1>3, <1>4

LEMMA MovedByLoad ==
    ASSUME TypesInv, MovedInv, LoadInstances PROVE MovedInv'
  <1>1. /\ tr.at = "load" /\ Transferring(tr) /\ tr.i \in 1..10 /\ UNCHANGED <<entries, rows>>
        /\ tr.left = <<>> /\ tr.user \in Users /\ RowsInv /\ ListsInv
    BY DEF LoadInstances, TypesInv, TransferInv, Transferring, Idle
  <1>2. PICK t, f : t = tr' /\ f = IF Objects[tr.i].fk \cup Objects[tr.i].m2m = {} THEN <<>>
                                   ELSE Restrict(rows, OwnedOf(tr.i))
    OBVIOUS
  <1>3. PartOf(f) /\ \A r \in DOMAIN f : f[r].model = Objects[tr.i].model
    <2>1. PartOf(Restrict(rows, OwnedOf(tr.i)))
      BY <1>1, RowFacts, PartOfRows DEF OwnedOf, RowsOf
    <2>2. \A r \in OwnedOf(tr.i) : Restrict(rows, OwnedOf(tr.i))[r].model = Objects[tr.i].model
      BY DEF OwnedOf, Restrict
    <2> QED BY <1>2, <2>1, <2>2, NothingLeft DEF Restrict
  <1>4. t = Next1([tr EXCEPT !.left = f])
    <2>1. CASE Objects[tr.i].fk \cup Objects[tr.i].m2m = {}
      <3>1. tr = [tr EXCEPT !.left = f] /\ DOMAIN tr.left = {}
        BY <1>1, <1>2, <2>1 DEF Transferring
      <3> QED BY <1>2, <2>1, <3>1 DEF LoadInstances, Next1
    <2>2. CASE Objects[tr.i].fk \cup Objects[tr.i].m2m # {}
      BY <1>2, <2>2 DEF LoadInstances
    <2> QED BY <2>1, <2>2
  <1>5. /\ t.user = tr.user /\ t.dept = tr.dept /\ t.known = tr.known /\ t.before = tr.before
        /\ t.at \in {"update", "rows"}
        /\ t.at = "rows" => t.left = f
    BY <1>1, <1>3, <1>4, NextOne
  <1> SUFFICES ASSUME NEW r \in DOMAIN tr.before
               PROVE Progress(r, tr.before[r], rows[r], t, entries)
    BY <1>1, <1>2, <1>5 DEF MovedInv
  <1>6. PICK old, now, j :
           old = tr.before[r] /\ now = rows[r] /\ j = Place(rows[r].model)
    OBVIOUS
  <1>7. /\ r \in Known(rows) /\ r \in DOMAIN rows /\ old.owner = tr.user /\ old.model = now.model
        /\ Objects[j].model = now.model /\ j \in 1..10 /\ IsRow(old) /\ old \in RowSet
        /\ Progress(r, old, now, tr, entries) /\ r \in Nat
    BY <1>1, <1>6, BeforeFacts, RowFacts DEF Known
  <1>8. /\ j < tr.i => Behind(j, r, t) /\ ~Before(j, t)
        /\ j > tr.i => ~Behind(j, r, t)
        /\ j # tr.i => ~Loaded(j, r, t)
        /\ j = tr.i => ~Before(j, t)
        /\ j = tr.i /\ r \in DOMAIN f => t.at = "rows" /\ ~Behind(j, r, t)
        /\ j = tr.i /\ r \notin DOMAIN f => ~Loaded(j, r, t)
    BY <1>1, <1>3, <1>4, <1>7, NextOne
  <1>9. tr.at \in Going /\ j = Place(old.model)
    BY <1>1, <1>6, <1>7 DEF Going
  <1>10. CASE j < tr.i
    <2>1. Through(old, now, tr, entries)
      BY <1>7, <1>9, <1>10 DEF Progress, Behind
    <2> QED BY <1>5, <1>6, <1>7, <1>8, <1>9, <1>10, <2>1, ThroughSame DEF Progress
  <1>11. CASE j > tr.i
    <2>1. Akin(now, old, old.dept)
      BY <1>7, <1>9, <1>11 DEF Progress, Before
    <2> QED BY <1>5, <1>6, <1>7, <1>8, <1>9, <1>11, <2>1 DEF Progress
  <1>12. CASE j = tr.i
    <2>1. Akin(now, old, tr.dept)
      BY <1>1, <1>7, <1>9, <1>12 DEF Progress, Loaded
    <2>2. now.owner = tr.user /\ now.m2m = old.m2m /\ now.dept = tr.dept
      BY <1>7, <2>1 DEF Akin
    <2>3. r \in OwnedOf(tr.i)
      BY <1>6, <1>7, <1>12, <2>2 DEF OwnedOf, RowsOf
    <2>4. CASE Objects[tr.i].fk \cup Objects[tr.i].m2m = {}
      <3>1. FkOf(old.model) \subseteq {"source"} /\ ListsOf(old.model) = {}
        BY <1>7, <1>12, <2>4, ObjectsAre
      <3>2. DOMAIN old.fk \subseteq {"source"} /\ old.m2m = {}
        BY <1>1, <1>7, <3>1, KindsOfRow
      <3>3. Through(old, now, t, entries)
        <4>1. KeysFollow(old, now, t, entries)
          BY <2>1, <3>2 DEF KeysFollow, Akin
        <4> QED BY <1>5, <2>2, <3>2, <4>1 DEF Through, ListsFollow
      <3>4. r \notin DOMAIN f /\ t.at # "rows"
        <4>1. DOMAIN f = {}
          BY <1>2, <2>4
        <4>2. t = NextModel([tr EXCEPT !.left = f])
          BY <1>1, <1>3, <1>4, <4>1, TransferGoes
        <4>3. t.at = "update"
          BY <1>1, <4>2 DEF NextModel, Transferring
        <4> QED BY <4>1, <4>3
      <3> QED BY <1>5, <1>6, <1>7, <1>8, <1>12, <3>3, <3>4 DEF Progress
    <2>5. CASE Objects[tr.i].fk \cup Objects[tr.i].m2m # {}
      <3>1. r \in DOMAIN f /\ f[r] = now
        BY <1>2, <1>6, <2>3, <2>5 DEF Restrict
      <3> QED BY <1>5, <1>6, <1>7, <1>8, <1>12, <2>1, <3>1 DEF Progress
    <2> QED BY <2>4, <2>5
  <1> QED BY <1>1, <1>7, <1>10, <1>11, <1>12

\* What is looked up for the keys of a row follows them.
LEMMA RenewedFollows ==
    ASSUME TypesInv, Transferring(tr), NEW row, IsRow(row), ~Fails(row), NEW now, now.fk = Renewed(row),
           tr.i \in 1..10, row.model = Objects[tr.i].model
    PROVE KeysFollow(row, now, tr, entries)
  <1> USE DEF TypesInv
  <1> SUFFICES ASSUME NEW k \in DOMAIN row.fk, row.fk[k] # 0
               PROVE \/ k # "source" /\ now.fk[k] # 0 /\ Like(entries, row.fk[k], now.fk[k], tr.dept)
                     \/ k = "source" /\ now.fk[k] \in {0, row.fk[k]}
                     \/ k = "type" /\ now.fk[k] = row.fk[k] /\ ~Among(entries, row.fk[k], tr.dept, tr.known)
    BY DEF KeysFollow
  <1>1. k \in FkOf(row.model) /\ row.fk[k] \in Known(entries) /\ entries[row.fk[k]].kind = k
    <2>1. k \in FkOf(row.model)
      BY KindsOfRow
    <2> QED BY <2>1, KindsOfRow
  <1>2. 1..tr.known \subseteq Known(entries)
    BY EntryFacts DEF Transferring, Known
  <1>3. CASE k = "source"
    BY <1>1, <1>3, Looked
  <1>4. CASE k # "source" /\ k \notin Missing(row)
    <2>1. now.fk[k] \in Counterparts(k, row.fk[k], tr.dept)
      BY <1>1, <1>4, Looked
    <2>2. now.fk[k] \in Known(entries) /\ Like(entries, row.fk[k], now.fk[k], tr.dept)
      BY <2>1, EntryFacts DEF Counterparts, EntriesOf, Like
    <2> QED BY <1>4, <2>2, EntryFacts DEF Known
  <1>5. CASE k \in Missing(row)
    <2>1. k = "type" /\ Counterparts(k, row.fk[k], tr.dept) = {} /\ now.fk[k] = row.fk[k]
      BY <1>1, <1>5, Looked
    <2>2. ~Among(entries, row.fk[k], tr.dept, tr.known)
      BY <1>1, <1>2, <2>1, EntryFacts DEF Among, Like, Counterparts, EntriesOf
    <2> QED BY <2>1, <2>2
  <1> QED BY <1>3, <1>4, <1>5

LEMMA KeysAkin ==
    ASSUME NEW old, NEW row, NEW d, Akin(row, old, d), NEW x, NEW y, NEW t, NEW l, KeysFollow(row, x, t, l),
           \A k \in DOMAIN old.fk : IF k = "source" THEN y.fk[k] \in {0, old.fk[k]} ELSE y.fk[k] = x.fk[k]
    PROVE KeysFollow(old, y, t, l)
  <1> SUFFICES ASSUME NEW k \in DOMAIN old.fk, old.fk[k] # 0
               PROVE \/ k # "source" /\ y.fk[k] # 0 /\ Like(l, old.fk[k], y.fk[k], t.dept)
                     \/ k = "source" /\ y.fk[k] \in {0, old.fk[k]}
                     \/ k = "type" /\ y.fk[k] = old.fk[k] /\ ~Among(l, old.fk[k], t.dept, t.known)
    BY DEF KeysFollow
  <1>1. CASE k = "source"
    BY <1>1
  <1>2. CASE k # "source"
    <2>1. row.fk[k] = old.fk[k] /\ k \in DOMAIN row.fk /\ y.fk[k] = x.fk[k]
      BY <1>2 DEF Akin
    <2> QED BY <1>2, <2>1 DEF KeysFollow
  <1> QED BY <1>1, <1>2

LEMMA MovedByRow ==
    ASSUME TypesInv, MovedInv, NEW q \in DOMAIN rows, TransferRow(q) PROVE MovedInv'
  <1>1. /\ tr.at = "rows" /\ Transferring(tr) /\ tr.i \in 1..10 /\ UNCHANGED entries
        /\ q \in DOMAIN tr.left /\ PartOf(tr.left) /\ tr.cur = 0 /\ ListsInv
        /\ \A r \in DOMAIN tr.left : tr.left[r].model = Objects[tr.i].model
    BY DEF TransferRow, TypesInv, TransferInv, Transferring, Idle
  <1>2. PICK t : t = tr'
    OBVIOUS
  <1>3. t.user = tr.user /\ t.dept = tr.dept /\ t.known = tr.known /\ t.before = tr.before /\ t.i = tr.i
    BY <1>1, <1>2 DEF TransferRow, Transferring
  <1> SUFFICES ASSUME NEW r \in DOMAIN tr.before
               PROVE Progress(r, tr.before[r], rows'[r], t, entries)
    BY <1>1, <1>2, <1>3 DEF MovedInv
  <1>4. PICK old, now, j : old = tr.before[r] /\ now = rows[r] /\ j = Place(rows[r].model)
    OBVIOUS
  <1>5. /\ r \in Known(rows) /\ r \in DOMAIN rows /\ old.owner = tr.user /\ old.model = now.model
        /\ Objects[j].model = now.model /\ j \in 1..10 /\ IsRow(old) /\ old \in RowSet /\ IsRow(now)
        /\ Progress(r, old, now, tr, entries) /\ r \in Nat /\ r # 0
        /\ \A i \in 1..10 : Objects[i].model = now.model => i = j
    BY <1>1, <1>4, BeforeFacts, RowFacts DEF Known
  <1>6. tr.at \in Going /\ j = Place(old.model)
    BY <1>1, <1>4, <1>5 DEF Going
  <1>7. CASE Fails(tr.left[q])
    <2>1. t.at = "error"
      BY <1>1, <1>2, <1>7 DEF TransferRow, Transferring
    <2> QED BY <1>3, <1>4, <1>5, <2>1 DEF Progress, Going
  <1>8. CASE ~Fails(tr.left[q])
    <2>1. t.at = "lists" /\ t.cur = q /\ t.left = tr.left
      BY <1>1, <1>2, <1>8 DEF TransferRow, Transferring
    <2>2. \/ rows' = rows /\ ~Saves(tr.left[q])
          \/ rows' = [rows EXCEPT ![q] = Transferred(q)]
      BY <1>8 DEF TransferRow, Transferred, Written
    <2>3. CASE r = q
      <3>1. j = tr.i
        BY <1>1, <1>4, <1>5, <2>3 DEF PartOf, Alike
      <3>2. PICK row : row = tr.left[q]
        OBVIOUS
      <3>3. /\ Akin(now, old, tr.dept) /\ Akin(row, old, tr.dept) /\ IsRow(row) /\ ~Fails(row)
            /\ row.model = Objects[tr.i].model
        BY <1>1, <1>5, <1>6, <1>8, <2>3, <3>1, <3>2 DEF Progress, Loaded, PartOf
      <3>4. Half(old, rows'[r], tr, entries)
        <4>1. now.owner = tr.user /\ now.m2m = old.m2m /\ now.dept = tr.dept /\ row.owner = tr.user /\ row.dept = tr.dept
          BY <1>5, <3>3 DEF Akin
        <4>2. /\ Renewed(row) \in [FkOf(row.model) -> 0..Len(entries)]
              /\ \A k \in FkOf(row.model) : k = "source" \/ row.fk[k] = 0 \/ k \in Missing(row) =>
                   Renewed(row)[k] = row.fk[k]
          BY <1>1, <3>3, Looked
        <4>3. /\ DOMAIN old.fk = FkOf(row.model) /\ DOMAIN row.fk = FkOf(row.model)
              /\ Objects[tr.i].fk = FkOf(row.model) \ {"source"}
          BY <1>1, <1>5, <3>3, KindsOfRow, ObjectsAre DEF Akin
        <4>4. PICK x : x = [row EXCEPT !.fk = Renewed(row)]
          OBVIOUS
        <4>5. x.fk = Renewed(row)
          BY <3>3, <4>4 DEF IsRow, RowOver, RowSet
        <4>6. KeysFollow(row, x, tr, entries)
          BY <1>1, <3>3, <4>5, RenewedFollows
        <4>7. CASE rows' = rows /\ ~Saves(tr.left[q])
          <5>1. \A k \in FkOf(row.model) : k = "source" \/ row.fk[k] = 0 \/ k \in Missing(row)
            BY <3>2, <4>3, <4>7 DEF Saves, Found, LookedUp
          <5>2. \A k \in FkOf(row.model) : x.fk[k] = row.fk[k]
            BY <4>2, <4>5, <5>1
          <5>3. \A k \in DOMAIN old.fk : IF k = "source" THEN now.fk[k] \in {0, old.fk[k]} ELSE now.fk[k] = x.fk[k]
            BY <3>3, <4>3, <5>2 DEF Akin
          <5>4. KeysFollow(old, now, tr, entries)
            BY <3>3, <4>6, <5>3, KeysAkin
          <5> QED BY <1>4, <4>1, <4>7, <5>4 DEF Half
        <4>8. CASE rows' = [rows EXCEPT ![q] = Transferred(q)]
          <5>1. PICK y : y = rows'[r]
            OBVIOUS
          <5>2. y = Transferred(q)
            BY <1>5, <2>3, <4>8, <5>1
          <5>3. /\ y.fk = Renewed(row) /\ y.m2m = now.m2m
                /\ y.owner = row.owner /\ y.dept = row.dept
            BY <1>1, <1>4, <1>8, <2>3, <3>2, <5>2, TransferredRow
          <5>4. \A k \in DOMAIN old.fk : IF k = "source" THEN y.fk[k] \in {0, old.fk[k]} ELSE y.fk[k] = x.fk[k]
            BY <3>3, <4>2, <4>3, <4>5, <5>3 DEF Akin
          <5>5. KeysFollow(old, y, tr, entries)
            BY <3>3, <4>6, <5>4, KeysAkin
          <5> QED BY <4>1, <5>1, <5>3, <5>5 DEF Half
        <4> QED BY <2>2, <4>7, <4>8
      <3>5. ~Before(j, t) /\ ~Loaded(j, r, t) /\ ~Behind(j, r, t)
        BY <1>1, <1>3, <1>5, <2>1, <2>3, <3>1 DEF Before, Loaded, Behind
      <3> QED BY <1>3, <1>4, <1>5, <1>6, <2>1, <3>4, <3>5, ThroughSame DEF Progress
    <2>4. CASE r # q
      <3>1. rows'[r] = now
        BY <1>4, <1>5, <2>2, <2>4
      <3>2. /\ Before(j, t) <=> Before(j, tr)
            /\ Loaded(j, r, t) <=> Loaded(j, r, tr)
            /\ Behind(j, r, t) <=> Behind(j, r, tr)
        BY <1>1, <1>3, <1>5, <2>1, <2>4 DEF Before, Loaded, Behind
      <3> QED BY <1>1, <1>3, <1>4, <1>5, <1>6, <2>1, <2>4, <3>1, <3>2, ThroughSame DEF Progress
    <2> QED BY <2>3, <2>4
  <1> QED BY <1>7, <1>8

\* What replaces the lists of a row follows them: the tags come along, of the
\* others there are those that are in the department.
LEMMA ReplacedFollows ==
    ASSUME TypesInv, tr.at = "lists", Transferring(tr), TransferLists, ListsGrow, NEW old, NEW now,
           old.m2m = rows[tr.cur].m2m, now.m2m = Replaced(old.m2m)
    PROVE ListsFollow(old, now, tr, entries')
  <1> USE DEF TypesInv
  <1>1. PICK S, T : S = old.m2m /\ T = OfKind(S, "tag")
    OBVIOUS
  <1>2. /\ \A e \in S : e \in Known(entries) /\ entries[e].kind \in Objects[tr.i].m2m
        /\ tr.i \in 1..10 /\ Objects[tr.i].m2m \subseteq {"product", "industry", "tag"}
    BY <1>1, ReplacedLists, ObjectsAre
  <1>3. /\ \A e \in Known(entries) :
             /\ entries'[e].dept = IF e \in T THEN tr.dept ELSE entries[e].dept
             /\ entries'[e].kind = entries[e].kind /\ entries'[e].name = entries[e].name
        /\ \A e \in T : e \in S /\ e \in Known(entries) /\ entries[e].kind = "tag"
        /\ \A e \in S : entries[e].kind = "tag" => e \in T
    <2>1. \A e \in T : e \in S /\ e \in Known(entries) /\ entries[e].kind = "tag"
      BY <1>1, <1>2 DEF OfKind
    <2>2. entries' = [e \in DOMAIN entries |-> IF e \in T THEN [entries[e] EXCEPT !.dept = tr.dept]
                                               ELSE entries[e]]
      BY <1>1 DEF TransferLists
    <2>3. \A e \in Known(entries) : entries'[e].dept = IF e \in T THEN tr.dept ELSE entries[e].dept
      BY <2>2, EntryFacts DEF EntrySet
    <2> QED BY <1>1, <2>1, <2>3 DEF ListsGrow, OfKind
  <1>4. now.m2m = T \cup UNION {SameNamed(S, k, tr.dept) : k \in Objects[tr.i].m2m \ {"tag"}}
    BY <1>1 DEF Replaced
  <1>5. \A k, e : \A x \in Counterparts(k, e, tr.dept) :
           /\ x \in Known(entries) /\ entries[x].kind = k /\ Like(entries, e, x, tr.dept)
    BY EntryFacts DEF Counterparts, EntriesOf, Like
  <1>6. 1..tr.known \subseteq Known(entries)
    BY EntryFacts DEF Transferring, Known
  <1>7. ASSUME NEW e \in S
        PROVE \/ e \in now.m2m /\ entries'[e].dept = tr.dept
              \/ entries'[e].kind # "tag" /\ \E x \in now.m2m : Like(entries', e, x, tr.dept)
              \/ entries'[e].kind # "tag" /\ ~Among(entries', e, tr.dept, tr.known)
    <2>1. CASE entries[e].kind = "tag"
      BY <1>2, <1>3, <1>4, <2>1
    <2>2. ASSUME entries[e].kind # "tag", NEW x \in Counterparts(entries[e].kind, e, tr.dept)
          PROVE entries'[e].kind # "tag" /\ x \in now.m2m /\ Like(entries', e, x, tr.dept)
      <3>1. entries[e].kind \in Objects[tr.i].m2m \ {"tag"} /\ e \in OfKind(S, entries[e].kind)
        BY <1>2, <2>2 DEF OfKind
      <3>2. x \in SameNamed(S, entries[e].kind, tr.dept)
        BY <2>2, <3>1 DEF SameNamed
      <3>3. x \in now.m2m
        BY <1>4, <3>1, <3>2
      <3>4. x \in Known(entries) /\ entries[x].kind = entries[e].kind /\ Like(entries, e, x, tr.dept)
        BY <1>5, <2>2
      <3>5. x \notin T
        BY <1>3, <2>2, <3>4
      <3> QED BY <1>2, <1>3, <2>2, <3>3, <3>4, <3>5 DEF Like
    <2>3. CASE entries[e].kind # "tag" /\ Counterparts(entries[e].kind, e, tr.dept) = {}
      <3>1. ASSUME NEW x \in Known(entries), entries'[x].kind = entries'[e].kind, Like(entries', e, x, tr.dept)
            PROVE FALSE
        <4>1. x \notin T /\ entries[x].kind = entries[e].kind
          BY <1>2, <1>3, <2>3, <3>1
        <4>2. x \in Counterparts(entries[e].kind, e, tr.dept)
          BY <1>2, <1>3, <3>1, <4>1, EntryFacts DEF Like, Counterparts, EntriesOf
        <4> QED BY <2>3, <4>2
      <3> QED BY <1>2, <1>3, <1>6, <2>3, <3>1 DEF Among
    <2> QED BY <2>1, <2>2, <2>3
  <1>8. ASSUME NEW x \in now.m2m PROVE entries'[x].dept = tr.dept
    <2>1. CASE x \in T
      BY <1>3, <2>1
    <2>2. CASE x \notin T
      <3>1. PICK k \in Objects[tr.i].m2m \ {"tag"} : x \in SameNamed(S, k, tr.dept)
        BY <1>4, <1>8, <2>2
      <3>2. PICK e : x \in Counterparts(k, e, tr.dept)
        BY <3>1 DEF SameNamed
      <3> QED BY <1>3, <1>5, <2>2, <3>2 DEF Like
    <2> QED BY <2>1, <2>2
  <1> QED BY <1>1, <1>7, <1>8 DEF ListsFollow

LEMMA MovedByLists ==
    ASSUME TypesInv, Next, MovedInv, TransferLists PROVE MovedInv'
  <1>1. /\ tr.at = "lists" /\ Transferring(tr) /\ tr.i \in 1..10
        /\ tr.cur \in DOMAIN tr.left /\ PartOf(tr.left) /\ ListsInv /\ RowsInv
        /\ \A r \in DOMAIN tr.left : tr.left[r].model = Objects[tr.i].model
    BY DEF TransferLists, TypesInv, TransferInv, Transferring, Idle
  <1>2. PICK t, c, f, g : t = tr' /\ c = tr.cur /\ g = tr.left /\ f = Restrict(g, DOMAIN g \ {c})
    OBVIOUS
  <1>3. /\ PartOf(f) /\ DOMAIN f = DOMAIN tr.left \ {c}
        /\ \A r \in DOMAIN f : f[r].model = Objects[tr.i].model
        /\ \A r \in DOMAIN f : f[r] = tr.left[r]
    <2>1. PartOf(f)
      BY <1>1, <1>2, PartRestrict
    <2> QED BY <1>1, <1>2, <2>1 DEF Restrict
  <1>4. t = Next1([tr EXCEPT !.left = f])
    BY <1>1, <1>2 DEF TransferLists, Transferring
  <1>5. /\ t.user = tr.user /\ t.dept = tr.dept /\ t.known = tr.known /\ t.before = tr.before
        /\ t.at \in {"update", "rows"}
        /\ t.at = "rows" => t.left = f
    BY <1>1, <1>3, <1>4, NextOne
  <1>6. ListsInv' /\ ListsGrow /\ MovesTo(tr.dept)
    BY ListsKept, EntriesMove
  <1> SUFFICES ASSUME NEW r \in DOMAIN tr.before
               PROVE Progress(r, tr.before[r], rows'[r], t, entries')
    BY <1>1, <1>2, <1>5 DEF MovedInv
  <1>7. PICK old, now, j : old = tr.before[r] /\ now = rows[r] /\ j = Place(rows[r].model)
    OBVIOUS
  <1>8. /\ r \in Known(rows) /\ r \in DOMAIN rows /\ old.owner = tr.user /\ old.model = now.model
        /\ Objects[j].model = now.model /\ j \in 1..10 /\ IsRow(old) /\ old \in RowSet /\ IsRow(now)
        /\ Progress(r, old, now, tr, entries) /\ r \in Nat /\ now \in RowSet
        /\ \A i \in 1..10 : Objects[i].model = now.model => i = j
        /\ tr.known \in 0..Len(entries)
    BY <1>1, <1>7, BeforeFacts, RowFacts DEF Known
  <1>9. tr.at \in Going /\ j = Place(old.model)
    BY <1>1, <1>7, <1>8 DEF Going
  <1>10. /\ j < tr.i => Behind(j, r, t) /\ ~Before(j, t)
         /\ j > tr.i => ~Behind(j, r, t)
         /\ j # tr.i => ~Loaded(j, r, t)
         /\ j = tr.i => ~Before(j, t)
         /\ j = tr.i /\ r \in DOMAIN f => t.at = "rows" /\ ~Behind(j, r, t)
         /\ j = tr.i /\ r \notin DOMAIN f => ~Loaded(j, r, t)
    <2>1. \A q \in DOMAIN f : f[q].model = Objects[tr.i].model
      BY <1>3
    <2>2. j \in Nat /\ r \in Nat
      BY <1>8
    <2>3. Transferring(tr) /\ tr.i \in 1..10 /\ PartOf(f) /\ RowsInv
      BY <1>1, <1>3
    <2> QED BY <1>4, <2>1, <2>2, <2>3, NextOne
  <1>11. CASE r = c
    <2>1. j = tr.i
      BY <1>1, <1>2, <1>7, <1>8, <1>11 DEF PartOf, Alike
    <2>2. Half(old, now, tr, entries)
      BY <1>1, <1>2, <1>8, <1>9, <1>11, <2>1 DEF Progress
    <2>3. KeysFollow(old, now, tr, entries')
      BY <1>1, <1>6, <1>8, <2>2, AkinSame, FollowStays DEF Half
    <2>4. rows'[r] = [now EXCEPT !.m2m = Replaced(now.m2m)]
      BY <1>2, <1>7, <1>8, <1>11 DEF TransferLists
    <2>5. PICK new : new = rows'[r]
      OBVIOUS
    <2>6. /\ new.m2m = Replaced(old.m2m) /\ new.fk = now.fk /\ new.owner = tr.user
          /\ new.dept = tr.dept /\ old.m2m = rows[tr.cur].m2m
      <3>1. now.m2m = old.m2m /\ now.owner = tr.user /\ now.dept = tr.dept
        BY <2>2 DEF Half
      <3>2. now = rows[tr.cur]
        BY <1>2, <1>7, <1>11
      <3>3. new = [now EXCEPT !.m2m = Replaced(now.m2m)]
        BY <2>4, <2>5
      <3> QED BY <1>8, <3>1, <3>2, <3>3 DEF RowSet
    <2>7. ListsFollow(old, new, tr, entries')
      <3>1. TypesInv /\ tr.at = "lists" /\ Transferring(tr) /\ TransferLists /\ ListsGrow
        BY <1>1, <1>6
      <3>2. old.m2m = rows[tr.cur].m2m /\ new.m2m = Replaced(old.m2m)
        BY <2>6
      <3> QED BY <3>1, <3>2, ReplacedFollows
    <2>8. KeysFollow(old, new, tr, entries')
      BY <2>3, <2>6 DEF KeysFollow
    <2>9. Through(old, new, t, entries')
      BY <1>5, <2>6, <2>7, <2>8, ThroughSame DEF Through
    <2> QED BY <1>3, <1>5, <1>7, <1>8, <1>10, <1>11, <2>1, <2>5, <2>9 DEF Progress
  <1>12. CASE r # c
    <2>1. rows'[r] = now
      BY <1>2, <1>7, <1>8, <1>12 DEF TransferLists
    <2>2. Progress(r, old, now, tr, entries')
      <3>1. Agree(tr, tr)
        BY DEF Agree
      <3> QED BY <1>1, <1>6, <1>8, <3>1, AkinSame, ProgressStays
    <2>3. CASE j < tr.i
      <3>1. Through(old, now, tr, entries')
        BY <1>8, <1>9, <2>2, <2>3 DEF Progress, Behind
      <3> QED BY <1>5, <1>7, <1>8, <1>10, <2>1, <2>3, <3>1, ThroughSame DEF Progress
    <2>4. CASE j > tr.i
      <3>1. Akin(now, old, old.dept)
        BY <1>8, <1>9, <2>2, <2>4 DEF Progress, Before
      <3> QED BY <1>5, <1>7, <1>8, <1>10, <2>1, <2>4, <3>1 DEF Progress
    <2>5. CASE j = tr.i /\ r \in DOMAIN f
      <3>1. Akin(now, old, tr.dept) /\ Akin(tr.left[r], old, tr.dept)
        BY <1>1, <1>2, <1>3, <1>8, <1>9, <1>12, <2>2, <2>5 DEF Progress, Loaded
      <3> QED BY <1>3, <1>5, <1>7, <1>8, <1>10, <2>1, <2>5, <3>1 DEF Progress
    <2>6. CASE j = tr.i /\ r \notin DOMAIN f
      <3>1. Through(old, now, tr, entries')
        BY <1>1, <1>2, <1>3, <1>8, <1>9, <1>12, <2>2, <2>6 DEF Progress, Behind
      <3> QED BY <1>5, <1>7, <1>8, <1>10, <2>1, <2>6, <3>1, ThroughSame DEF Progress
    <2> QED BY <1>1, <1>8, <2>3, <2>4, <2>5, <2>6
  <1> QED BY <1>11, <1>12

LEMMA MovedKept == ASSUME TypesInv, Next, MovedInv PROVE MovedInv'
  <1> USE DEF TypesInv
  <1>1. ASSUME ~TransferStep PROVE MovedInv'
    <2>1. CASE tr' = Idle
      BY <2>1 DEF MovedInv
    <2>2. CASE tr' # Idle
      <3>1. Transferring(tr)
        <4>1. tr' = tr \/ (\E S : tr' = TransferForgets(S)) \/ AddStep \/ DeleteStep
          <5>1. Frames
            BY StepFrames
          <5> QED BY <1>1, <5>1 DEF Frames, OtherRowStep, ChangeOwner, Commit
        <4>2. tr # Idle
          BY <2>2, <4>1 DEF TransferForgets, AddStep, AddEntry, DeleteStep, DeleteSource, Unsure, Idle
        <4> QED BY <4>2 DEF TransferInv
      <3> SUFFICES ASSUME NEW r \in DOMAIN tr'.before
                   PROVE Progress(r, tr'.before[r], rows'[r], tr', entries')
        BY DEF MovedInv
      <3>2. PICK old, now, new, b : old = tr'.before[r] /\ now = rows[r] /\ new = rows'[r] /\ b = tr'
        OBVIOUS
      <3>3. r \in DOMAIN tr.before /\ old = tr.before[r] /\ Akin(new, now, now.dept) /\ Agree(tr, b)
        BY <1>1, <3>1, <3>2, MovedFrame
      <3>4. /\ IsRow(old) /\ IsRow(now) /\ old.model = now.model /\ tr.known \in 0..Len(entries)
            /\ Progress(r, old, now, tr, entries)
        BY <3>1, <3>2, <3>3, BeforeFacts
      <3>5. ListsInv' /\ ListsGrow /\ MovesTo(tr.dept)
        BY ListsKept, EntriesMove
      <3> QED BY <3>2, <3>3, <3>4, <3>5, ProgressStays
    <2> QED BY <2>1, <2>2
  <1>2. CASE TransferDies
    <2>1. Transferring(tr) /\ tr' = [tr EXCEPT !.at = "died", !.left = <<>>] /\ UNCHANGED rows
      BY <1>2 DEF TransferDies, TransferInv, Transferring, Idle, Free
    <2>2. tr'.at = "died" /\ tr'.before = tr.before /\ tr'.user = tr.user
      BY <2>1 DEF Transferring
    <2>3. \A r \in DOMAIN tr.before : tr.before[r].owner = tr.user
      BY <2>1, BeforeFacts
    <2> QED BY <2>1, <2>2, <2>3 DEF MovedInv, Progress, Going
  <1> QED BY <1>1, <1>2, MovedByStart, MovedByGroup, MovedByUpdate, MovedByLoad, MovedByRow, MovedByLists
      DEF TransferStep, StartTransferStep

LEMMA MovedHolds == ASSUME TypesInv, MovedInv PROVE Moved
  <1>1. \A e, x : Same(e, x, tr.dept) <=> Like(entries, e, x, tr.dept)
    BY DEF Same, Like
  <1>2. \A e : There(e, tr.dept, tr.known) <=> Among(entries, e, tr.dept, tr.known)
    BY <1>1 DEF There, Among
  <1>3. ASSUME tr.at = "done" PROVE tr # Idle
    BY <1>3 DEF Idle
  <1>4. ASSUME tr.at = "done", NEW r \in DOMAIN tr.before
        PROVE Through(tr.before[r], rows[r], tr, entries) /\ tr.before[r].owner = tr.user
    BY <1>3, <1>4 DEF MovedInv, Progress
  <1> SUFFICES ASSUME tr.at = "done", NEW r \in DOMAIN tr.before, NEW old, NEW now,
                      old = tr.before[r], now = rows[r]
               PROVE /\ now.owner = tr.user /\ now.dept = tr.dept
                     /\ \A k \in DOMAIN old.fk : old.fk[k] # 0 =>
                         \/ k # "source" /\ Same(old.fk[k], now.fk[k], tr.dept)
                         \/ k = "source" /\ now.fk[k] \in {0, old.fk[k]}
                         \/ k = "type" /\ now.fk[k] = old.fk[k] /\ ~There(old.fk[k], tr.dept, tr.known)
                     /\ \A e \in old.m2m :
                         \/ e \in now.m2m /\ entries[e].dept = tr.dept
                         \/ entries[e].kind # "tag" /\ \E x \in now.m2m : Same(e, x, tr.dept)
                         \/ entries[e].kind # "tag" /\ ~There(e, tr.dept, tr.known)
                     /\ \A x \in now.m2m : entries[x].dept = tr.dept
    BY DEF Moved
  <1> QED BY <1>1, <1>2, <1>4 DEF Through, KeysFollow, ListsFollow
-----------------------------------------------------------------------------
(* Copies: departments and their copies to which nothing was added have    *)
(* the same stages, reasons, types, industries and products; while one is  *)
(* copied, those that have been saved are there.                           *)

Copyable == {"product", "stage", "reason", "type", "industry"}
Twin(e, d) == \E x \in Known(entries) : /\ entries[x].kind = entries[e].kind
                                        /\ entries[x].name = entries[e].name /\ entries[x].dept = d
Complete(a, b) == \A e \in Known(entries) : entries[e].dept = a /\ entries[e].kind \in Copyable => Twin(e, b)
SavedKinds == {Copied[j] : j \in 1..(copy.i - 1)}
Unsaved == IF copy.at = "save" THEN copy.left ELSE {}
FreshInv ==
    /\ \A p \in fresh : \E a, b \in made : a # b /\ p = {a, b}
    /\ \A a, b \in made : {a, b} \in fresh /\ a # b /\ ~(Copying /\ copy.of = a /\ copy.to = b)
                          => Complete(a, b)
    /\ Copying => /\ \A p \in fresh : copy.to \in p => p = {copy.of, copy.to}
                  /\ {copy.of, copy.to} \in fresh =>
                       \A e \in Known(entries) \ Unsaved :
                          /\ entries[e].dept = copy.of /\ entries[e].kind \in Copyable \cap SavedKinds
                          => Twin(e, copy.to)

LEMMA TwinStays ==
    ASSUME ListsInv, ListsGrow, ListsInv', NEW e \in Known(entries), entries[e].kind \in Copyable,
           NEW d, Twin(e, d)
    PROVE Twin(e, d)'
  <1>1. PICK x \in Known(entries) : /\ entries[x].kind = entries[e].kind
                                    /\ entries[x].name = entries[e].name /\ entries[x].dept = d
    BY DEF Twin
  <1>2. x \in Known(entries')
    BY <1>1, EntryFacts, LenProperties DEF ListsGrow, ListsInv, Known
  <1> QED BY <1>1, <1>2 DEF Twin, ListsGrow, Copyable

\* An entry that is not in a department of a copy stays out, and what is copied
\* of a department stays there.
LEMMA CompleteStays ==
    ASSUME ListsInv, ListsGrow, ListsInv', NEW a, NEW b, Complete(a, b),
           \A e \in Known(entries') \ Known(entries) :
               entries'[e].dept = a /\ entries'[e].kind \in Copyable => Twin(e, b)'
    PROVE Complete(a, b)'
  <1>1. \A e \in Known(entries) : /\ entries'[e].kind = entries[e].kind
                                  /\ entries'[e].kind \in Copyable => entries'[e].dept = entries[e].dept
    BY DEF ListsGrow, Copyable
  <1> SUFFICES ASSUME NEW e \in Known(entries'), entries'[e].dept = a, entries'[e].kind \in Copyable
               PROVE Twin(e, b)'
    BY DEF Complete
  <1>2. CASE e \in Known(entries)
    <2>1. entries[e].dept = a /\ entries[e].kind \in Copyable
      BY <1>1, <1>2
    <2>2. Twin(e, b)
      BY <1>2, <2>1 DEF Complete
    <2> QED BY <1>2, <2>1, <2>2, TwinStays
  <1>3. CASE e \notin Known(entries)
    BY <1>3
  <1> QED BY <1>2, <1>3

LEMMA FreshFrame ==
    ASSUME TypesInv, Next, FreshInv, UNCHANGED <<copy, made>>, fresh' \subseteq fresh,
           \A e \in Known(entries') \ Known(entries) : \A p \in fresh' : entries'[e].dept \notin p
    PROVE FreshInv'
  <1>1. ListsInv /\ ListsInv' /\ ListsGrow
    BY ListsKept DEF TypesInv
  <1>2. \A p \in fresh' : \E a, b \in made' : a # b /\ p = {a, b}
    BY DEF FreshInv
  <1>3. ASSUME NEW a \in made, NEW b \in made, {a, b} \in fresh', a # b,
               ~(Copying /\ copy.of = a /\ copy.to = b)
        PROVE Complete(a, b)'
    <2>1. Complete(a, b)
      BY <1>3 DEF FreshInv
    <2>2. \A e \in Known(entries') \ Known(entries) : entries'[e].dept # a
      BY <1>3
    <2> QED BY <1>1, <2>1, <2>2, CompleteStays
  <1>4. ASSUME Copying, {copy.of, copy.to} \in fresh', NEW e \in Known(entries') \ Unsaved,
               entries'[e].dept = copy.of, entries'[e].kind \in Copyable \cap SavedKinds
        PROVE Twin(e, copy.to)'
    <2>1. e \in Known(entries)
      BY <1>4
    <2>2. entries[e].dept = copy.of /\ entries[e].kind \in Copyable \cap SavedKinds
      BY <1>1, <1>4, <2>1 DEF ListsGrow, Copyable
    <2>3. Twin(e, copy.to)
      BY <1>4, <2>1, <2>2 DEF FreshInv
    <2>4. PICK d : d = copy.to
      OBVIOUS
    <2>5. Twin(e, d)'
      BY <1>1, <2>1, <2>2, <2>3, <2>4, TwinStays
    <2> QED BY <2>4, <2>5
  <1>5. /\ Copying' = Copying /\ copy' = copy /\ Unsaved' = Unsaved /\ SavedKinds' = SavedKinds
        /\ made' = made
    BY DEF Copying, Unsaved, SavedKinds, Copied
  <1>6. Copying' => \A p \in fresh' : copy.to \in p => p = {copy.of, copy.to}
    BY <1>5 DEF FreshInv
  <1>7. \A a, b \in made' : {a, b} \in fresh' /\ a # b /\ ~(Copying' /\ copy'.of = a /\ copy'.to = b)
                          => Complete(a, b)'
    BY <1>3, <1>5
  <1>8. Copying' /\ {copy'.of, copy'.to} \in fresh' =>
          \A e \in Known(entries') \ Unsaved' :
             /\ entries'[e].dept = copy'.of /\ entries'[e].kind \in Copyable \cap SavedKinds'
             => Twin(e, copy.to)'
    BY <1>4, <1>5
  <1> QED BY <1>2, <1>5, <1>6, <1>7, <1>8 DEF FreshInv

LEMMA FreshByStart ==
    ASSUME TypesInv, Next, FreshInv, NEW d \in Depts, NEW c \in Depts, StartCopy(d, c)
    PROVE FreshInv'
  <1> USE DEF TypesInv
  <1>1. /\ ~Copying /\ d \in made /\ c \notin made /\ made' = made \cup {c} /\ UNCHANGED entries
        /\ copy' = [at |-> "load", of |-> d, to |-> c, i |-> 1, left |-> {}]
        /\ fresh' = fresh \cup {{d, c}}
    BY DEF StartCopy, Copying
  <1>2. /\ \A p \in fresh : \E a, b \in made : a # b /\ p = {a, b}
        /\ \A a, b \in made : {a, b} \in fresh /\ a # b => Complete(a, b)
    BY <1>1 DEF FreshInv
  <1>3. \A p \in fresh' : \E a, b \in made' : a # b /\ p = {a, b}
    BY <1>1, <1>2
  <1>4. \A p \in fresh : c \notin p
    BY <1>1, <1>2
  <1>5. Copying' /\ copy'.of = d /\ copy'.to = c /\ SavedKinds' = {}
    BY <1>1 DEF Copying, SavedKinds
  <1>6. \A e \in Known(entries) : entries[e].dept # c
    BY <1>1, Departs, SiteFormsAssumption, DepartmentsAssumption DEF ListsInv, DepartmentsAssumption
  <1>7. ASSUME NEW a \in made', NEW b \in made', {a, b} \in fresh', a # b, ~(d = a /\ c = b)
        PROVE Complete(a, b)'
    <2>1. CASE {a, b} \in fresh
      <3>1. a \in made /\ b \in made
        BY <1>1, <1>4, <2>1
      <3> QED BY <1>1, <1>2, <1>7, <2>1, <3>1 DEF Complete, Twin
    <2>2. CASE {a, b} = {d, c}
      BY <1>1, <1>6, <1>7, <2>2 DEF Complete, Twin
    <2> QED BY <1>1, <1>7, <2>1, <2>2
  <1>8. \A p \in fresh' : c \in p => p = {d, c}
    BY <1>1, <1>4
  <1> QED BY <1>3, <1>5, <1>7, <1>8 DEF FreshInv

LEMMA FreshByLoad ==
    ASSUME TypesInv, Next, FreshInv, CopyLoad PROVE FreshInv'
  <1> USE DEF TypesInv
  <1>1. /\ copy \in Copies /\ copy.at = "load" /\ Copying /\ UNCHANGED <<entries, made, fresh>>
        /\ copy.of # copy.to /\ copy.i \in 1..7 /\ copy.of \in made /\ copy.to \in made
    BY DEF CopyLoad, CopyInv, Copies, Idle, Copying
  <1>2. PICK of, to : of = copy.of /\ to = copy.to
    OBVIOUS
  <1>3. /\ \A p \in fresh : \E a, b \in made : a # b /\ p = {a, b}
        /\ \A a, b \in made : {a, b} \in fresh /\ a # b /\ ~(of = a /\ to = b) => Complete(a, b)
        /\ \A p \in fresh : to \in p => p = {of, to}
    BY <1>1, <1>2 DEF FreshInv
  <1>4. ASSUME {of, to} \in fresh, NEW e \in Known(entries), entries[e].dept = of,
               entries[e].kind \in Copyable, NEW j \in 1..6, entries[e].kind = Copied[j], j < copy.i
        PROVE Twin(e, to)
    <2>1. entries[e].kind \in SavedKinds
      BY <1>1, <1>4 DEF SavedKinds
    <2>2. Unsaved = {}
      BY <1>1 DEF Unsaved
    <2> QED BY <1>1, <1>2, <1>4, <2>1, <2>2 DEF FreshInv
  <1>6. CASE Uncopied(copy.i) = {}
    <2>1. copy' = [copy EXCEPT !.at = "done"]
      BY <1>6 DEF CopyLoad
    <2>2. ~Copying'
      BY <1>1, <2>1 DEF Copying, Copies
    <2>3. ASSUME {of, to} \in fresh, NEW e \in Known(entries), entries[e].dept = of,
                 entries[e].kind \in Copyable
          PROVE Twin(e, to)
      <3>1. PICK j \in 1..6 : entries[e].kind = Copied[j]
        BY <2>3 DEF Copyable, Copied
      <3>2. j < copy.i
        <4>1. ASSUME j >= copy.i PROVE j \in Uncopied(copy.i)
          BY <1>1, <1>2, <2>3, <3>1, <4>1, EntryFacts DEF Uncopied, EntriesOf, Copied
        <4> QED BY <1>1, <1>6, <4>1
      <3> QED BY <1>4, <2>3, <3>1, <3>2
    <2>4. ASSUME NEW a \in made, NEW b \in made, {a, b} \in fresh, a # b PROVE Complete(a, b)
      <3>1. CASE a = of /\ b = to
        BY <2>3, <2>4, <3>1 DEF Complete
      <3> QED BY <1>3, <2>4, <3>1
    <2>5. \A a, b : Complete(a, b)' = Complete(a, b)
      BY <1>1 DEF Complete, Twin
    <2> QED BY <1>1, <1>3, <2>2, <2>4, <2>5 DEF FreshInv
  <1>7. CASE Uncopied(copy.i) # {}
    <2>1. /\ Min(Uncopied(copy.i)) \in Uncopied(copy.i)
          /\ \A y \in Uncopied(copy.i) : Min(Uncopied(copy.i)) <= y
      <3>1. Uncopied(copy.i) \in SUBSET Nat
        BY <1>1 DEF Uncopied, Copied
      <3> QED BY <1>7, <3>1, LeastOf
    <2>2. PICK i \in 1..6 : i = Min(Uncopied(copy.i)) /\ i >= copy.i
      BY <1>1, <2>1 DEF Uncopied, Copied
    <2>3. PICK S : S = EntriesOf(Copied[i], copy.of)
      OBVIOUS
    <2>4. copy' = [copy EXCEPT !.at = "save", !.i = i + 1, !.left = S]
      BY <1>7, <2>2, <2>3 DEF CopyLoad
    <2>5. /\ copy'.at = "save" /\ copy'.of = of /\ copy'.to = to /\ copy'.i = i + 1 /\ copy'.left = S
          /\ Copying'
      BY <1>1, <1>2, <2>4 DEF Copies, Copying
    <2>6. Unsaved' = S /\ SavedKinds' = {Copied[j] : j \in 1..i}
      BY <2>5 DEF Unsaved, SavedKinds, Copied
    <2>7. ASSUME {of, to} \in fresh, NEW e \in Known(entries) \ S, entries[e].dept = of,
                 entries[e].kind \in Copyable, NEW j \in 1..i, entries[e].kind = Copied[j]
          PROVE Twin(e, to)
      <3>1. j \in 1..6 /\ j # i
        BY <1>2, <2>3, <2>7, EntryFacts DEF EntriesOf
      <3>2. j < copy.i
        <4>1. ASSUME j >= copy.i PROVE j \in Uncopied(copy.i)
          BY <1>1, <1>2, <2>7, <3>1, <4>1, EntryFacts DEF Uncopied, EntriesOf, Copied
        <4> QED BY <1>1, <2>1, <2>2, <2>7, <3>1, <4>1
      <3> QED BY <1>4, <2>7, <3>1, <3>2
    <2>8. \A a, b, e : /\ Complete(a, b)' = Complete(a, b)
                       /\ Twin(e, b)' = Twin(e, b)
      BY <1>1 DEF Complete, Twin
    <2>9. Copying' =>
            /\ \A p \in fresh' : copy'.to \in p => p = {copy'.of, copy'.to}
            /\ {copy'.of, copy'.to} \in fresh' =>
                 \A e \in Known(entries') \ Unsaved' :
                    entries'[e].dept = copy'.of /\ entries'[e].kind \in Copyable \cap SavedKinds'
                    => Twin(e, copy.to)'
      <3>1. \A e : Twin(e, copy.to)' = Twin(e, to)
        BY <1>1, <2>5 DEF Twin
      <3> QED BY <1>1, <1>3, <2>5, <2>6, <2>7, <3>1
    <2> QED BY <1>1, <1>3, <2>5, <2>8, <2>9 DEF FreshInv
  <1> QED BY <1>6, <1>7

LEMMA FreshBySave ==
    ASSUME TypesInv, Next, FreshInv, CopySave PROVE FreshInv'
  <1> USE DEF TypesInv
  <1>1. /\ copy \in Copies /\ copy.at = "save" /\ Copying /\ UNCHANGED <<made, fresh>>
        /\ copy.of # copy.to /\ copy.i \in 2..7 /\ copy.of \in made /\ copy.to \in made
        /\ copy.left \subseteq Known(entries) /\ copy.left # {}
        /\ \A e \in copy.left : /\ entries[e].kind = Copied[copy.i - 1]
                                /\ entries[e].kind # "source" => entries[e].dept = copy.of
    BY CopyFrame DEF CopySave, CopyInv, SavesCopy, Copies, Idle, Copying
  <1>2. PICK of, to, one : of = copy.of /\ to = copy.to /\ one = Min(copy.left)
    OBVIOUS
  <1>3. one \in copy.left /\ one \in Known(entries)
    <2>1. copy.left \in SUBSET Nat
      BY <1>1, EntryFacts DEF Known
    <2> QED BY <1>1, <1>2, <2>1, LeastOf
  <1>4. PICK n, x : n = Len(entries) + 1 /\ x = [entries[one] EXCEPT !.dept = to]
    OBVIOUS
  <1>5. /\ entries' = Append(entries, x) /\ x.kind = entries[one].kind /\ x.name = entries[one].name
        /\ x.dept = to
    BY <1>2, <1>3, <1>4, EntryFacts DEF CopySave, EntrySet
  <1>6. /\ ListsInv' /\ ListsGrow /\ entries'[n] = x /\ \A e \in Known(entries') : e \in Known(entries) \/ e = n
        /\ \A e \in Known(entries) : e \in Known(entries') /\ entries'[e] = entries[e]
        /\ n \in Known(entries')
    <2>1. ListsInv' /\ ListsGrow
      BY ListsKept
    <2>2. entries \in Seq(EntrySet) /\ Len(entries) \in Nat
      BY EntryFacts DEF ListsInv
    <2>3. Len(entries') = Len(entries) + 1 /\ entries'[n] = x /\ \A e \in 1..Len(entries) : entries'[e] = entries[e]
      BY <1>4, <1>5, <2>2, AppendProperties
    <2> QED BY <1>4, <2>1, <2>2, <2>3 DEF Known
  <1>7. /\ copy'.of = of /\ copy'.to = to /\ copy'.i = copy.i /\ copy'.left = copy.left \ {one}
        /\ copy'.at = (IF copy.left = {one} THEN "load" ELSE "save") /\ Copying'
    BY <1>1, <1>2 DEF CopySave, Copies, Copying
  <1>8. SavedKinds' = SavedKinds
    BY <1>7 DEF SavedKinds, Copied
  <1>9. Unsaved = copy.left /\ Unsaved' = copy.left \ {one}
    BY <1>1, <1>7 DEF Unsaved
  <1>10. /\ \A p \in fresh : \E a, b \in made : a # b /\ p = {a, b}
         /\ \A a, b \in made : {a, b} \in fresh /\ a # b /\ ~(of = a /\ to = b) => Complete(a, b)
         /\ \A p \in fresh : to \in p => p = {of, to}
         /\ {of, to} \in fresh => \A e \in Known(entries) \ copy.left :
                          /\ entries[e].dept = of /\ entries[e].kind \in Copyable \cap SavedKinds
                          => Twin(e, to)
    BY <1>1, <1>2, <1>9 DEF FreshInv
  \* What is saved has its original in the department that is copied.
  <1>11. entries[one].kind \in Copyable => entries[one].dept = of
    BY <1>1, <1>2, <1>3 DEF Copyable
  <1>12. ASSUME NEW a \in made, NEW b \in made, {a, b} \in fresh, a # b, ~(of = a /\ to = b)
         PROVE Complete(a, b)'
    <2>1. Complete(a, b)
      BY <1>10, <1>12
    <2>2. ASSUME x.dept = a, x.kind \in Copyable PROVE Twin(n, b)'
      <3>1. b = of
        <4>1. a = to
          BY <1>5, <2>2
        <4>2. to \in {a, b}
          BY <4>1
        <4>3. {a, b} = {of, to}
          BY <1>10, <1>12, <4>2
        <4> QED BY <1>12, <4>1, <4>3
      <3> QED BY <1>3, <1>5, <1>6, <1>11, <2>2, <3>1 DEF Twin
    <2> QED BY <1>6, <2>1, <2>2, CompleteStays
  <1>13. ASSUME {of, to} \in fresh, NEW e \in Known(entries') \ Unsaved',
                entries'[e].dept = of, entries'[e].kind \in Copyable \cap SavedKinds
         PROVE Twin(e, to)'
    <2>1. e \in Known(entries)
      BY <1>1, <1>2, <1>5, <1>6, <1>13
    <2>2. CASE e = one
      BY <1>5, <1>6, <2>1, <2>2 DEF Twin
    <2>3. CASE e # one
      <3>1. Twin(e, to) /\ entries[e].kind \in Copyable
        BY <1>6, <1>9, <1>10, <1>13, <2>1, <2>3
      <3> QED BY <1>6, <2>1, <3>1, TwinStays
    <2> QED BY <2>2, <2>3
  <1>14. \A e : Twin(e, copy.to)' <=> \E y \in Known(entries') : /\ entries'[y].kind = entries'[e].kind
                                        /\ entries'[y].name = entries'[e].name /\ entries'[y].dept = to
    BY <1>7 DEF Twin
  <1>15. \A e : Twin(e, to)' <=> \E y \in Known(entries') : /\ entries'[y].kind = entries'[e].kind
                                        /\ entries'[y].name = entries'[e].name /\ entries'[y].dept = to
    BY DEF Twin
  <1>16. Copying' =>
            /\ \A p \in fresh' : copy'.to \in p => p = {copy'.of, copy'.to}
            /\ {copy'.of, copy'.to} \in fresh' =>
                 \A e \in Known(entries') \ Unsaved' :
                    entries'[e].dept = copy'.of /\ entries'[e].kind \in Copyable \cap SavedKinds'
                    => Twin(e, copy.to)'
    BY <1>1, <1>7, <1>8, <1>10, <1>13, <1>14, <1>15
  <1> QED BY <1>1, <1>7, <1>10, <1>12, <1>16 DEF FreshInv

LEMMA FreshKept == ASSUME TypesInv, Next, FreshInv PROVE FreshInv'
  <1> USE DEF TypesInv
  <1>1. Frames
    BY StepFrames
  <1>2. CASE CopyDies
    <2>1. /\ Copying /\ UNCHANGED <<made, entries>> /\ fresh' = fresh \ {{copy.of, copy.to}}
          /\ copy' = [at |-> "died"]
      BY <1>2 DEF CopyDies, Copying
    <2>2. ~Copying'
      BY <2>1 DEF Copying
    <2>3. \A a, b : Complete(a, b)' = Complete(a, b)
      BY <2>1 DEF Complete, Twin
    <2> QED BY <2>1, <2>2, <2>3 DEF FreshInv
  <1>3. CASE AddStep
    <2>1. PICK d, x : /\ entries' = Append(entries, x) /\ x.dept = d /\ fresh' = {p \in fresh : d \notin p}
                      /\ UNCHANGED <<copy, made>>
      BY <1>3 DEF AddStep, AddEntry
    <2>2. \A e \in Known(entries') \ Known(entries) : entries'[e].dept = d
      BY <2>1, AppendProperties, EntryFacts DEF ListsInv, Known
    <2> QED BY <2>1, <2>2, FreshFrame
  <1>4. CASE ~CopyStep /\ ~AddStep
    <2>1. UNCHANGED <<copy, fresh, made>>
      BY <1>1, <1>4 DEF Frames, CopyStep
    <2>2. DOMAIN entries' = DOMAIN entries
      BY <1>1, <1>4 DEF Frames, EntryStep, CopyStep, AddStep, TransferLists, DeleteStep, DeleteSource
    <2>3. Known(entries') = Known(entries)
      BY <2>2, EntryFacts, ListsKept, LenProperties DEF ListsInv, Known
    <2> QED BY <2>1, <2>3, FreshFrame
  <1> QED BY <1>2, <1>3, <1>4, FreshByStart, FreshByLoad, FreshBySave DEF CopyStep, StartCopyStep
-----------------------------------------------------------------------------
(* A transfer to a copy finds every stage and reason, once.                *)

HasLike(l, e, d) == \E x \in Known(l) : l[x].kind = l[e].kind /\ Like(l, e, x, d)
Findable(row, d, l) == \A k \in DOMAIN row.fk : row.fk[k] = 0 \/ HasLike(l, row.fk[k], d)
DealFound(row, d, l) == row.model = "deal" => Findable(row, d, l)
OneEach(l, d) == \A e, x \in Known(l) :
    /\ l[e].kind \in {"stage", "reason", "type"} /\ l[x].kind = l[e].kind
    /\ l[e].dept = d /\ Like(l, e, x, d)
    => e = x
SureInv ==
    Running /\ tr.sure =>
       /\ OneEach(entries, tr.dept)
       /\ home[tr.user] \in {None, tr.dept}
       /\ ~(Copying /\ copy.to = tr.dept)
       /\ \A r \in Known(rows) : rows[r].owner = tr.user => DealFound(rows[r], tr.dept, entries)
       /\ tx[tr.user] # Idle => DealFound(tx[tr.user].row, tr.dept, entries)
       /\ \A r \in DOMAIN tr.left : DealFound(tr.left[r], tr.dept, entries) /\ ~Dangling(tr.left[r])

LEMMA FoundStays ==
    ASSUME ListsInv, ListsGrow, ListsInv', NEW row, IsRow(row), NEW d, DealFound(row, d, entries)
    PROVE DealFound(row, d, entries')
  <1> SUFFICES ASSUME row.model = "deal", NEW k \in DOMAIN row.fk, row.fk[k] # 0
               PROVE HasLike(entries', row.fk[k], d)
    BY DEF DealFound, Findable
  <1>1. k \in {"stage", "reason"} /\ row.fk[k] \in Known(entries) /\ entries[row.fk[k]].kind = k
    <2>1. k \in FkOf(row.model)
      BY KindsOfRow
    <2>2. row.fk[k] \in Known(entries) /\ entries[row.fk[k]].kind = k
      BY <2>1, KindsOfRow
    <2> QED BY <2>1, <2>2 DEF FkOf
  <1>2. PICK x \in Known(entries) : entries[x].kind = k /\ Like(entries, row.fk[k], x, d)
    BY <1>1 DEF DealFound, Findable, HasLike
  <1>3. x \in Known(entries')
    BY EntryFacts, LenProperties DEF ListsGrow, ListsInv, Known
  <1> QED BY <1>1, <1>2, <1>3 DEF ListsGrow, HasLike, Like

LEMMA OneStays ==
    ASSUME TypesInv, Next, ~AddStep, NEW d, ~(Copying /\ copy.to = d), OneEach(entries, d)
    PROVE OneEach(entries', d)
  <1> USE DEF TypesInv
  <1>1. Frames /\ ListsInv' /\ ListsGrow
    BY StepFrames, ListsKept
  <1>2. \A e \in Known(entries) : /\ entries'[e].kind = entries[e].kind /\ entries'[e].name = entries[e].name
                                  /\ entries[e].kind \in {"stage", "reason", "type"} =>
                                       entries'[e].dept = entries[e].dept
    BY <1>1 DEF ListsGrow
  <1>3. \A e \in Known(entries') \ Known(entries) : entries'[e].dept # d
    <2>1. CASE CopySave
      <3>1. copy \in Copies /\ copy.left \subseteq Known(entries) /\ copy.left # {} /\ Copying
        BY <2>1, CopyFrame DEF CopySave, Copying
      <3>2. PICK one : one = Min(copy.left)
        OBVIOUS
      <3>3. one \in Known(entries)
        <4>1. copy.left \in SUBSET Nat
          BY <3>1, EntryFacts DEF Known
        <4> QED BY <3>1, <3>2, <4>1, LeastOf
      <3>4. PICK x : x = [entries[one] EXCEPT !.dept = copy.to]
        OBVIOUS
      <3>5. entries' = Append(entries, x) /\ x.dept = copy.to
        BY <2>1, <3>2, <3>3, <3>4, EntryFacts DEF CopySave, EntrySet
      <3>6. \A e \in Known(entries') \ Known(entries) : entries'[e] = x
        BY <3>5, AppendProperties, EntryFacts DEF ListsInv, Known
      <3> QED BY <3>1, <3>5, <3>6
    <2>2. CASE ~CopySave
      <3>1. DOMAIN entries' = DOMAIN entries
        BY <1>1, <2>2 DEF Frames, EntryStep, AddStep, TransferLists, DeleteStep, DeleteSource
      <3>2. Known(entries') = Known(entries)
        BY <1>1, <3>1, EntryFacts, LenProperties DEF ListsInv, Known
      <3> QED BY <3>2
    <2> QED BY <2>1, <2>2
  <1> SUFFICES ASSUME NEW e \in Known(entries'), NEW x \in Known(entries'),
                      entries'[e].kind \in {"stage", "reason", "type"}, entries'[x].kind = entries'[e].kind,
                      entries'[e].dept = d, Like(entries', e, x, d)
               PROVE e = x
    BY DEF OneEach
  <1>4. e \in Known(entries) /\ x \in Known(entries)
    BY <1>3 DEF Like
  <1> QED BY <1>2, <1>4 DEF OneEach, Like

LEMMA StillSure ==
    ASSUME TypesInv, Next, ~StartTransferStep, Running', tr'.sure
    PROVE /\ Running /\ tr.sure /\ tr'.user = tr.user /\ tr'.dept = tr.dept /\ ~AddStep /\ ~DeleteStep
          /\ tr'.left = tr.left \/ LoadInstances \/ TransferLists \/ tr'.left = <<>>
  <1> USE DEF TypesInv
  <1>1. Frames
    BY StepFrames
  <1>2. tr # Idle => Transferring(tr)
    BY DEF TransferInv
  <1>3. ~AddStep /\ ~DeleteStep
    <2> SUFFICES ASSUME tr' = Unsure PROVE FALSE
      BY DEF AddStep, AddEntry, DeleteStep, DeleteSource
    <2>1. tr # Idle
      BY DEF Unsure, Running, Idle
    <2>2. tr' = [tr EXCEPT !.sure = FALSE]
      BY <1>2, <2>1 DEF Unsure, Transferring
    <2> QED BY <1>2, <2>1, <2>2 DEF Transferring
  <1>4. CASE OtherRowStep
    <2>1. PICK f : \/ tr' = tr
                   \/ tr' = (IF "before" \in DOMAIN tr THEN [tr EXCEPT !.before = f] ELSE tr)
      <3>1. \/ tr' = tr
            \/ \E S : tr' = TransferForgets(S)
        BY <1>4 DEF OtherRowStep, ChangeOwner, Commit
      <3> QED BY <3>1 DEF TransferForgets
    <2>2. tr # Idle
      BY <2>1 DEF Running, Idle
    <2>3. tr' = tr \/ tr' = [tr EXCEPT !.before = f]
      BY <1>2, <2>1, <2>2 DEF Transferring
    <2> QED BY <1>2, <1>3, <2>2, <2>3 DEF Transferring, Running
  <1>5. ASSUME tr.at \in {"add", "update", "load", "rows", "lists"}
        PROVE Transferring(tr) /\ tr = [at |-> tr.at, user |-> tr.user, dept |-> tr.dept, i |-> tr.i, left |-> tr.left,
             cur |-> tr.cur, before |-> tr.before, known |-> tr.known, sure |-> tr.sure]
    BY <1>2, <1>5 DEF Transferring, Idle
  <1>6. CASE AddGroup
    BY <1>3, <1>5, <1>6 DEF AddGroup, Running
  <1>7. CASE UpdateDepartment
    BY <1>3, <1>5, <1>7 DEF UpdateDepartment, Running
  <1>8. CASE LoadInstances
    BY <1>3, <1>5, <1>8 DEF LoadInstances, NextModel, Next1, Running
  <1>9. ASSUME NEW r \in DOMAIN rows, TransferRow(r)
        PROVE /\ Running /\ tr.sure /\ tr'.user = tr.user /\ tr'.dept = tr.dept
              /\ tr'.left = tr.left \/ LoadInstances \/ TransferLists \/ tr'.left = <<>>
    BY <1>5, <1>9 DEF TransferRow, Running
  <1>10. CASE TransferLists
    BY <1>3, <1>5, <1>10 DEF TransferLists, NextModel, Next1, Running
  <1>11. CASE TransferDies
    BY <1>5, <1>11 DEF TransferDies, Running, Free
  <1>12. CASE UNCHANGED tr
    BY <1>3, <1>12 DEF Running
  <1> QED BY <1>1, <1>3, <1>4, <1>6, <1>7, <1>8, <1>9, <1>10, <1>11, <1>12 DEF Frames, TransferStep

\* At the start all that the user has chosen was copied, or is there already.
LEMMA SureAtStart ==
    ASSUME TypesInv, FreshInv, NEW u \in Users, NEW d, StartTransfer(u, d) PROVE SureInv'
  <1> USE DEF TypesInv
  <1> SUFFICES ASSUME Sure(u, d) PROVE SureInv'
    <2>1. tr'.sure = Sure(u, d)
      BY DEF StartTransfer
    <2> QED BY <2>1 DEF SureInv
  <1>1. /\ tr'.user = u /\ tr'.dept = d /\ tr'.left = <<>> /\ UNCHANGED <<entries, rows, tx, copy>>
        /\ d \in made /\ home' = [home EXCEPT ![u] = None]
    BY DEF StartTransfer
  <1>2. /\ {home[u], d} \in fresh /\ home[u] # d /\ copy.at = "done" /\ Distinct(d)
        /\ \A row \in Chosen(u) : \A k \in DOMAIN row.fk \ {"source"} :
              row.fk[k] = 0 \/ entries[row.fk[k]].dept \in {home[u], d}
    BY DEF Sure
  <1>3. ~Copying
    BY <1>2 DEF Copying
  <1>4. Complete(home[u], d)
    <2>1. PICK a, b \in made : {home[u], d} = {a, b}
      BY <1>2 DEF FreshInv
    <2> QED BY <1>1, <1>2, <1>3, <2>1 DEF FreshInv
  <1>5. OneEach(entries, d)
    BY <1>2, EntryFacts DEF OneEach, Distinct, EntriesOf, Like, ListKinds
  <1>6. ASSUME NEW row, row \in Chosen(u), IsRow(row) PROVE DealFound(row, d, entries)
    <2> SUFFICES ASSUME row.model = "deal", NEW k \in DOMAIN row.fk, row.fk[k] # 0
                 PROVE HasLike(entries, row.fk[k], d)
      BY DEF DealFound, Findable
    <2>1. k \in {"stage", "reason"} /\ row.fk[k] \in Known(entries) /\ entries[row.fk[k]].kind = k
      <3>1. k \in FkOf(row.model)
        BY <1>6, KindsOfRow
      <3>2. row.fk[k] \in Known(entries) /\ entries[row.fk[k]].kind = k
        BY <1>6, <3>1, KindsOfRow
      <3> QED BY <3>1, <3>2 DEF FkOf
    <2>2. CASE entries[row.fk[k]].dept = d
      BY <2>1, <2>2 DEF HasLike, Like
    <2>3. CASE entries[row.fk[k]].dept = home[u]
      BY <1>4, <2>1, <2>3 DEF Complete, Twin, Copyable, HasLike, Like
    <2>4. k \in DOMAIN row.fk \ {"source"}
      BY <2>1
    <2> QED BY <1>2, <1>6, <2>2, <2>3, <2>4
  <1>7. \A r \in Known(rows) : rows[r].owner = u => DealFound(rows[r], d, entries)
    BY <1>6, RowFacts DEF Chosen, RowsOf
  <1>8. tx[u] # Idle => DealFound(tx[u].row, d, entries)
    BY <1>6 DEF Chosen, FormInv
  <1>9. home'[u] = None
    BY <1>1 DEF HomeInv
  <1> QED BY <1>1, <1>3, <1>5, <1>7, <1>8, <1>9 DEF SureInv, Copying

LEMMA SureRows ==
    ASSUME TypesInv, Next, SureInv, Running, tr.sure, Running', ~DeleteStep, tr'.dept = tr.dept, tr'.user = tr.user,
           NEW r \in Known(rows'), rows'[r].owner = tr.user
    PROVE DealFound(rows'[r], tr.dept, entries')
  <1> USE DEF TypesInv
  <1>1. Frames /\ ListsInv' /\ ListsGrow
    BY StepFrames, ListsKept
  <1>2. PICK d : d = tr.dept
    OBVIOUS
  <1>3. ASSUME NEW row, IsRow(row), DealFound(row, d, entries) PROVE DealFound(row, d, entries')
    BY <1>1, <1>3, FoundStays
  <1>4. \A q \in Known(rows) : rows[q].owner = tr.user => DealFound(rows[q], d, entries)
    BY <1>2 DEF SureInv
  <1>5. ASSUME r \in Known(rows), rows'[r] = rows[r] PROVE DealFound(rows'[r], d, entries')
    <2>1. PICK row : row = rows[r]
      OBVIOUS
    <2>2. IsRow(row) /\ row.owner = tr.user /\ DealFound(row, d, entries)
      BY <1>4, <1>5, <2>1, RowFacts
    <2> QED BY <1>3, <1>5, <2>1, <2>2
  <1>6. ASSUME NEW x, rows' = Append(rows, x)
        PROVE (r \in Known(rows) /\ rows'[r] = rows[r]) \/ rows'[r] = x
    BY <1>6, AppendProperties, RowFacts DEF RowsInv, Known
  <1>7. ASSUME DOMAIN rows' = DOMAIN rows PROVE r \in Known(rows)
    BY <1>7, RowFacts, RowsKept DEF RowsInv, Known
  <1>8. CASE UpdateDepartment
    <2>1. r \in Known(rows)
      BY <1>7, <1>8 DEF UpdateDepartment
    <2>2. rows'[r] = rows[r] \/ rows'[r] = [rows[r] EXCEPT !.dept = tr.dept]
      BY <1>8, <2>1, RowFacts DEF UpdateDepartment
    <2>3. /\ rows'[r].fk = rows[r].fk /\ rows'[r].model = rows[r].model /\ rows[r].owner = tr.user
      BY <2>1, <2>2, RowFacts DEF RowSet
    <2>4. DealFound(rows[r], d, entries')
      BY <1>3, <1>4, <2>1, <2>3, RowFacts
    <2> QED BY <1>2, <2>3, <2>4 DEF DealFound, Findable
  <1>9. CASE TransferLists
    <2>1. r \in Known(rows)
      BY <1>7, <1>9 DEF TransferLists
    <2>2. PICK S : rows' = [rows EXCEPT ![tr.cur].m2m = S]
      BY <1>9 DEF TransferLists
    <2>3. /\ rows'[r].fk = rows[r].fk /\ rows'[r].model = rows[r].model /\ rows[r].owner = tr.user
      BY <2>1, <2>2, RowFacts DEF RowSet
    <2>4. DealFound(rows[r], d, entries')
      BY <1>3, <1>4, <2>1, <2>3, RowFacts
    <2> QED BY <1>2, <2>3, <2>4 DEF DealFound, Findable
  <1>10. ASSUME NEW q \in DOMAIN rows, TransferRow(q) PROVE DealFound(rows'[r], d, entries')
    <2>1. r \in Known(rows)
      BY <1>7, <1>10 DEF TransferRow
    <2>2. CASE rows'[r] = rows[r]
      BY <1>5, <2>1, <2>2
    <2>3. CASE rows'[r] # rows[r]
      <3>1. /\ r = q /\ tr.at = "rows" /\ q \in DOMAIN tr.left /\ ~Fails(tr.left[q]) /\ UNCHANGED entries
            /\ rows' = [rows EXCEPT ![q] = Transferred(q)]
        BY <1>10, <2>1, <2>3, RowFacts DEF TransferRow, Transferred, Written
      <3>2. PICK row, new : row = tr.left[q] /\ new = rows'[r]
        OBVIOUS
      <3>5. tr.i \in 1..10 /\ row.model = Objects[tr.i].model
        BY <3>1, <3>2, RunningFacts
      <3>3. IsRow(row) /\ Alike(row, rows[q]) /\ IsRow(new) /\ Alike(new, rows[q]) /\ new.fk = Renewed(row)
        <4>1. IsRow(row) /\ Alike(row, rows[q])
          BY <3>1, <3>2, RunningFacts DEF PartOf
        <4>2. new = Transferred(q)
          BY <2>1, <3>1, <3>2, RowFacts
        <4> QED BY <3>1, <3>2, <4>1, <4>2, TransferredRow
      <3>4. ASSUME NEW k \in DOMAIN new.fk, new.fk[k] # 0, new.model = "deal"
            PROVE HasLike(entries, new.fk[k], d)
        <4>1. /\ k \in FkOf(new.model) /\ k \in FkOf(row.model) /\ k \in {"stage", "reason"}
          <5>1. k \in FkOf(new.model)
            BY <3>3, <3>4, KindsOfRow
          <5> QED BY <3>3, <3>4, <5>1 DEF Alike, FkOf
        <4>2. row.fk[k] # 0 /\ k \notin Missing(row)
          BY <3>1, <3>2, <3>3, <3>4, <3>5, <4>1, Looked
        <4>3. new.fk[k] \in Counterparts(k, row.fk[k], tr.dept)
          BY <3>1, <3>2, <3>3, <3>5, <4>1, <4>2, Looked
        <4> QED BY <1>2, <4>3, EntryFacts DEF Counterparts, EntriesOf, HasLike, Like
      <3> QED BY <3>1, <3>2, <3>4 DEF DealFound, Findable
    <2> QED BY <2>2, <2>3
  <1>11. ASSUME NEW q \in DOMAIN rows, ChangeOwner(q) PROVE DealFound(rows'[r], d, entries')
    <2>1. r \in Known(rows)
      BY <1>7, <1>11 DEF ChangeOwner
    <2>2. Changing /\ q \in DOMAIN ch.left /\ (rows' = rows \/ rows' = [rows EXCEPT ![q] = HandedTo(q)])
      BY <1>11 DEF ChangeOwner, Changing, HandedTo
    <2>5. CASE rows'[r] = rows[r]
      BY <1>5, <2>1, <2>5
    <2>3. CASE r = q /\ rows' # rows
      <3>1. rows'[r] = HandedTo(q)
        BY <2>1, <2>2, <2>3, RowFacts
      <3>2. rows'[r].model = rows[q].model /\ rows[q].model \in {"company", "contact"}
        BY <2>2, <3>1, HandedRow, ChangingFacts DEF Alike, ChangeOf
      <3> QED BY <3>2 DEF DealFound
    <2>4. CASE r # q
      BY <1>5, <2>1, <2>2, <2>4, RowFacts
    <2> QED BY <2>3, <2>4, <2>5
  <1>12. ASSUME NEW u \in Users, Commit(u) PROVE DealFound(rows'[r], d, entries')
    <2>1. /\ tx[u] # Idle /\ IsRow(tx[u].row) /\ (tx[u].row.model = "contact" \/ tx[u].row.owner = u)
      BY <1>12 DEF Commit, FormInv
    <2>2. u = tr.user => DealFound(tx[u].row, d, entries)
      BY <1>2, <2>1 DEF SureInv
    <2>3. (r \in Known(rows) /\ rows'[r] = rows[r]) \/ rows'[r] = tx[u].row
      <3>0. CASE Dangling(tx[u].row)
        <4>1. rows' = rows
          BY <1>12, <3>0 DEF Commit
        <4> QED BY <1>7, <4>1
      <3>1. CASE ~Dangling(tx[u].row) /\ tx[u].at = "add"
        BY <1>6, <1>12, <3>1 DEF Commit
      <3>2. CASE ~Dangling(tx[u].row) /\ tx[u].at # "add"
        <4>1. rows' = [rows EXCEPT ![tx[u].id] = tx[u].row] /\ r \in Known(rows)
          BY <1>7, <1>12, <3>2 DEF Commit
        <4> QED BY <4>1, RowFacts
      <3> QED BY <3>0, <3>1, <3>2
    <2>4. CASE rows'[r] = tx[u].row
      <3>1. CASE tx[u].row.model = "contact"
        BY <2>4, <3>1 DEF DealFound
      <3>2. CASE tx[u].row.model # "contact"
        BY <1>3, <2>1, <2>2, <2>4, <3>2
      <3> QED BY <3>1, <3>2
    <2> QED BY <1>5, <2>3, <2>4
  <1>13. CASE NewRowStep
    <2>1. PICK f \in Forms : SaveRequest(f) \/ SaveMail(f)
      BY <1>13 DEF NewRowStep
    <2>2. PICK x, y : x = Asked(f) /\ y = Saved(f, "email")
      OBVIOUS
    <2>3. x.model = "request" /\ y.model = "email"
      BY <2>1, <2>2, AskedRow DEF Saved, Row, SaveRequest, SaveMail
    <2>4. rows' = rows \/ rows' = Append(rows, x) \/ rows' = Append(rows, y)
      BY <2>1, <2>2 DEF SaveRequest, SaveMail
    <2>5. CASE rows'[r] \in {x, y}
      BY <2>3, <2>5 DEF DealFound
    <2>6. CASE r \in Known(rows) /\ rows'[r] = rows[r]
      BY <1>2, <1>5, <2>6
    <2>7. rows' = rows => r \in Known(rows) /\ rows'[r] = rows[r]
      OBVIOUS
    <2> QED BY <1>2, <1>6, <2>4, <2>5, <2>6, <2>7
  <1>14. CASE UNCHANGED rows
    <2>1. r \in Known(rows) /\ rows'[r] = rows[r]
      BY <1>7, <1>14
    <2> QED BY <1>2, <1>5, <2>1
  <1> QED BY <1>1, <1>2, <1>8, <1>9, <1>10, <1>11, <1>12, <1>13, <1>14
      DEF Frames, RowStep, OwnRowStep, OtherRowStep

LEMMA SureForm ==
    ASSUME TypesInv, Next, SureInv, Running, tr.sure, NEW u \in Users, u = tr.user, tx'[u] # Idle
    PROVE DealFound(tx'[u].row, tr.dept, entries')
  <1> USE DEF TypesInv
  <1>1. Frames /\ ListsInv' /\ ListsGrow
    BY StepFrames, ListsKept
  <1>2. PICK d : d = tr.dept
    OBVIOUS
  <1>3. /\ home[u] \in {None, d} /\ \A r \in Known(rows) : rows[r].owner = u => DealFound(rows[r], d, entries)
        /\ tx[u] # Idle => DealFound(tx[u].row, d, entries)
    BY <1>2 DEF SureInv
  <1>4. CASE tx'[u] = tx[u]
    <2>1. PICK row : row = tx[u].row
      OBVIOUS
    <2>2. IsRow(row) /\ DealFound(row, d, entries)
      BY <1>3, <1>4, <2>1 DEF FormInv
    <2>3. DealFound(row, d, entries')
      BY <1>1, <2>2, FoundStays
    <2> QED BY <1>2, <1>4, <2>1, <2>3
  <1>5. ASSUME NEW v \in Users, Commit(v) PROVE tx'[u] = tx[u]
    BY <1>5 DEF Commit, FormInv
  <1>6. ASSUME NEW k \in {"stage", "reason"}, NEW e, e # 0, e \in Offered(k, home[u])
        PROVE HasLike(entries, e, d)
    <2>1. e \in Known(entries) /\ entries[e].kind = k /\ entries[e].dept = home[u]
      BY <1>6, EntryFacts DEF Offered, EntriesOf
    <2>2. home[u] = d
      BY <1>3, <1>6, <2>1 DEF ListsInv
    <2> QED BY <2>1, <2>2 DEF HasLike, Like
  <1>7. ASSUME NEW v \in Users, NEW m \in Adding, BeginAdd(v, m), tx'[u] # tx[u]
        PROVE DealFound(tx'[u].row, d, entries')
    <2>1. v = u /\ entries' = entries
      BY <1>7 DEF BeginAdd, FormInv
    <2>2. PICK new : /\ tx' = [tx EXCEPT ![u] = [at |-> "add", id |-> 0, row |-> new]] /\ IsRow(new)
                     /\ \A k \in DOMAIN new.fk : new.fk[k] \in Offered(k, home[u])
      BY <1>7, <2>1, AddedRow
    <2>3. tx'[u].row = new
      BY <2>2 DEF FormInv
    <2>4. new.model = "deal" => DOMAIN new.fk = {"stage", "reason"}
      BY <2>2 DEF IsRow, RowOver, Refers, FkOf
    <2> QED BY <1>6, <2>1, <2>2, <2>3, <2>4 DEF DealFound, Findable
  <1>8. ASSUME NEW v \in Users, NEW r \in DOMAIN rows, BeginEdit(v, r), tx'[u] # tx[u]
        PROVE DealFound(tx'[u].row, d, entries')
    <2>1. v = u /\ entries' = entries /\ r \in Known(rows) /\ rows[r].owner = u
      BY <1>8, RowFacts DEF BeginEdit, FormInv, RowsOf
    <2>2. PICK row : row = rows[r]
      OBVIOUS
    <2>3. IsRow(row) /\ DealFound(row, d, entries)
      BY <1>3, <2>1, <2>2, RowFacts
    <2>4. PICK new : /\ tx' = [tx EXCEPT ![u] = [at |-> "edit", id |-> r, row |-> new]]
                     /\ IsRow(new) /\ Alike(new, row)
                     /\ \A k \in DOMAIN new.fk : new.fk[k] = row.fk[k] \/ new.fk[k] \in Offered(k, home[u])
      BY <1>8, <2>1, <2>2, EditedRow
    <2>5. tx'[u].row = new
      BY <2>4 DEF FormInv
    <2>6. new.model = "deal" => DOMAIN new.fk = {"stage", "reason"} /\ DOMAIN row.fk = {"stage", "reason"}
      BY <2>3, <2>4 DEF IsRow, RowOver, Refers, FkOf, Alike
    <2> SUFFICES ASSUME new.model = "deal", NEW k \in {"stage", "reason"}, new.fk[k] # 0
                 PROVE HasLike(entries, new.fk[k], d)
      BY <2>1, <2>5, <2>6 DEF DealFound, Findable
    <2>7. CASE new.fk[k] = row.fk[k]
      BY <2>3, <2>4, <2>6, <2>7 DEF DealFound, Findable, Alike
    <2>8. CASE new.fk[k] \in Offered(k, home[u])
      BY <1>6, <2>8
    <2> QED BY <2>4, <2>6, <2>7, <2>8
  <1> QED BY <1>1, <1>2, <1>4, <1>5, <1>7, <1>8 DEF Frames, FormStep

LEMMA SureLeft ==
    ASSUME TypesInv, Next, SureInv, Running, tr.sure, ~DeleteStep,
           tr'.left = tr.left \/ LoadInstances \/ TransferLists \/ tr'.left = <<>>,
           NEW r \in DOMAIN tr'.left
    PROVE DealFound(tr'.left[r], tr.dept, entries') /\ ~(Dangling(tr.left[r])')
  <1> USE DEF TypesInv
  <1>1. ListsInv' /\ ListsGrow
    BY ListsKept
  <1> DEFINE Goal == DealFound(tr'.left[r], tr.dept, entries') /\ ~(Dangling(tr.left[r])')
  <1>2. PICK d : d = tr.dept
    OBVIOUS
  <1>3. ASSUME r \in DOMAIN tr.left, tr'.left[r] = tr.left[r] PROVE Goal
    <2>1. PICK row : row = tr.left[r]
      OBVIOUS
    <2>2. IsRow(row) /\ DealFound(row, d, entries) /\ ~Dangling(row)
      BY <1>2, <1>3, <2>1, RunningFacts DEF PartOf, SureInv
    <2>3. IsRow(row)'
      BY <1>1, <2>2, RowStays
    <2>4. ~Dangling(row)'
      BY <2>2, <2>3, SourceLasts
    <2>5. ~(Dangling(tr.left[r])')
      BY <1>3, <2>1, <2>4 DEF Dangling
    <2>6. DealFound(row, d, entries')
      BY <1>1, <2>2, FoundStays
    <2> QED BY <1>2, <1>3, <2>1, <2>5, <2>6
  <1>4. CASE tr'.left = tr.left
    BY <1>2, <1>3, <1>4
  <1>5. CASE TransferLists
    <2>1. PICK f, t : f = Restrict(tr.left, DOMAIN tr.left \ {tr.cur}) /\ t = [tr EXCEPT !.left = f]
      OBVIOUS
    <2>2. tr' = Next1(t) /\ t.left = f
      BY <1>5, <2>1, RunningFacts DEF TransferLists
    <2>3. tr'.left = f
      BY <2>1, <2>2, RunningFacts DEF Next1, NextModel
    <2> QED BY <1>2, <1>3, <2>1, <2>3 DEF Restrict
  <1>6. CASE LoadInstances
    <2>1. PICK f, t : f = Restrict(rows, OwnedOf(tr.i)) /\ t = [tr EXCEPT !.left = f]
      OBVIOUS
    <2>2. tr' = NextModel(tr) \/ (tr' = Next1(t) /\ t.left = f)
      BY <1>6, <2>1, RunningFacts DEF LoadInstances
    <2>3. tr'.left = <<>> \/ tr'.left = f
      BY <2>1, <2>2, RunningFacts DEF Next1, NextModel
    <2>4. tr'.left[r] = rows[r] /\ r \in Known(rows) /\ rows[r].owner = tr.user
      BY <2>1, <2>3, RowFacts DEF Restrict, OwnedOf, RowsOf
    <2>5. UNCHANGED entries
      BY <1>6 DEF LoadInstances
    <2>6. ~Dangling(rows[r])
      BY <2>4 DEF SavedInv
    <2> QED BY <2>4, <2>5, <2>6 DEF SureInv, Dangling
  <1>7. CASE tr'.left = <<>>
    BY <1>7
  <1> QED BY <1>4, <1>5, <1>6, <1>7

LEMMA SureKept == ASSUME TypesInv, Next, FreshInv, SureInv PROVE SureInv'
  <1> USE DEF TypesInv
  <1>1. CASE StartTransferStep
    BY <1>1, SiteFormsAssumption, SureAtStart DEF StartTransferStep, SiteFormsAssumption
  <1>2. ASSUME ~StartTransferStep, Running', tr'.sure
        PROVE /\ OneEach(entries', tr'.dept)
              /\ home'[tr'.user] \in {None, tr'.dept}
              /\ ~(Copying' /\ copy'.to = tr'.dept)
              /\ \A r \in Known(rows') : rows'[r].owner = tr'.user => DealFound(rows'[r], tr'.dept, entries')
              /\ tx'[tr'.user] # Idle => DealFound(tx'[tr'.user].row, tr'.dept, entries')
              /\ \A r \in DOMAIN tr'.left : DealFound(tr'.left[r], tr'.dept, entries') /\ ~(Dangling(tr.left[r])')
    <2>1. /\ Running /\ tr.sure /\ tr'.user = tr.user /\ tr'.dept = tr.dept /\ ~AddStep /\ ~DeleteStep
          /\ tr'.left = tr.left \/ LoadInstances \/ TransferLists \/ tr'.left = <<>>
      BY <1>2, StillSure
    <2>2. Frames /\ tr.user \in Users /\ tr.dept \in made
      BY <2>1, StepFrames, RunningFacts
    <2>3. OneEach(entries', tr.dept)
      <3>1. PICK d : d = tr.dept
        OBVIOUS
      <3> QED BY <2>1, <3>1, OneStays DEF SureInv
    <2>4. home'[tr.user] \in {None, tr.dept}
      BY <1>2, <2>1, <2>2 DEF Frames, AddGroup, SureInv, HomeInv
    <2>5. ~(Copying' /\ copy'.to = tr.dept)
      <3>1. CASE StartCopyStep
        BY <2>2, <3>1 DEF StartCopyStep, StartCopy
      <3>2. CASE CopyLoad
        BY <2>1, <3>2 DEF CopyLoad, SureInv, Copying, CopyInv, Copies, Idle
      <3>3. CASE CopySave
        BY <2>1, <3>3 DEF CopySave, SureInv, Copying, CopyInv, Copies, Idle
      <3>4. CASE CopyDies
        BY <3>4 DEF CopyDies, Copying
      <3>5. CASE UNCHANGED copy
        BY <2>1, <3>5 DEF SureInv, Copying
      <3> QED BY <2>2, <3>1, <3>2, <3>3, <3>4, <3>5 DEF Frames, CopyStep
    <2>6. \A r \in Known(rows') : rows'[r].owner = tr.user => DealFound(rows'[r], tr.dept, entries')
      BY <1>2, <2>1, SureRows
    <2>7. tx'[tr.user] # Idle => DealFound(tx'[tr.user].row, tr.dept, entries')
      BY <2>1, <2>2, SureForm
    <2>8. \A r \in DOMAIN tr'.left : DealFound(tr'.left[r], tr.dept, entries') /\ ~(Dangling(tr.left[r])')
      BY <2>1, SureLeft
    <2> QED BY <2>1, <2>3, <2>4, <2>5, <2>6, <2>7, <2>8
  <1> QED BY <1>1, <1>2 DEF SureInv

\* A deal whose keys are all found does not fail.
LEMMA NeverFails ==
    ASSUME TypesInv, SureInv, Running, tr.sure, NEW r \in DOMAIN tr.left, tr.at = "rows"
    PROVE ~Fails(tr.left[r])
  <1> USE DEF TypesInv
  <1>1. PICK row, d : row = tr.left[r] /\ d = tr.dept
    OBVIOUS
  <1>2. IsRow(row) /\ DealFound(row, d, entries) /\ OneEach(entries, d) /\ ~Dangling(row)
    BY <1>1, RunningFacts DEF PartOf, SureInv
  <1>3. /\ DOMAIN row.fk = FkOf(row.model) /\ \A k \in DOMAIN row.fk : row.fk[k] # 0 => entries[row.fk[k]].kind = k
        /\ LookedUp(row) \subseteq FkOf(row.model) \ {"source"}
    <2>1. Objects[tr.i].fk = FkOf(row.model) \ {"source"}
      BY <1>1, RunningFacts, ObjectsAre
    <2> QED BY <1>2, <2>1, KindsOfRow DEF LookedUp
  <1>4. ASSUME NEW k \in Missing(row) \ {"type"} PROVE FALSE
    <2>1. k \in DOMAIN row.fk \ {"source"} /\ row.fk[k] # 0 /\ Counterparts(k, row.fk[k], d) = {}
      BY <1>1, <1>3 DEF Missing, LookedUp
    <2>2. row.model = "deal"
      BY <1>3, <2>1 DEF FkOf
    <2>3. HasLike(entries, row.fk[k], d)
      BY <1>2, <2>1, <2>2 DEF DealFound, Findable
    <2>4. entries[row.fk[k]].kind = k
      BY <1>3, <2>1
    <2> QED BY <2>1, <2>3, <2>4, EntryFacts DEF HasLike, Counterparts, EntriesOf, Like
  <1>5. ASSUME NEW k \in Ambiguous(row) PROVE FALSE
    <2>1. k \in DOMAIN row.fk \ {"source"} /\ row.fk[k] # 0 /\ Cardinality(Counterparts(k, row.fk[k], d)) > 1
      BY <1>1, <1>3 DEF Ambiguous, LookedUp
    <2>2. k \in {"stage", "reason", "type"}
      BY <1>3, <2>1 DEF FkOf
    <2>3. PICK C : C = Counterparts(k, row.fk[k], d)
      OBVIOUS
    <2>4. \A e, x \in C : e = x
      BY <1>2, <2>2, <2>3, EntryFacts DEF Counterparts, EntriesOf, OneEach, Like
    <2>5. CASE C = {}
      BY <2>1, <2>3, <2>5, FS_EmptySet
    <2>6. ASSUME NEW x \in C PROVE FALSE
      <3>1. C = {x}
        BY <2>4, <2>6
      <3>2. Cardinality(C) = 1
        BY <3>1, FS_Singleton
      <3> QED BY <2>1, <2>3, <3>2
    <2> QED BY <2>5, <2>6
  <1> QED BY <1>1, <1>2, <1>4, <1>5 DEF Fails

LEMMA ErrorKept == ASSUME TypesInv, Next, SureInv, CopyTakesAll PROVE CopyTakesAll'
  <1> USE DEF TypesInv
  <1>1. Frames
    BY StepFrames
  <1>2. ASSUME NEW r \in DOMAIN rows, TransferRow(r) PROVE CopyTakesAll'
    <2>1. Running /\ tr.at = "rows" /\ r \in DOMAIN tr.left
      BY <1>2 DEF TransferRow, Running
    <2>2. CASE Fails(tr.left[r])
      <3>1. ~tr.sure
        BY <2>1, <2>2, NeverFails
      <3> QED BY <1>2, <2>1, <3>1, RunningFacts DEF TransferRow, CopyTakesAll
    <2>3. CASE ~Fails(tr.left[r])
      <3>1. tr' = [tr EXCEPT !.at = "lists", !.cur = r]
        BY <1>2, <2>3 DEF TransferRow
      <3> QED BY <2>1, <3>1, RunningFacts DEF CopyTakesAll
    <2> QED BY <2>2, <2>3
  <1>3. CASE StartTransferStep
    BY <1>3 DEF StartTransferStep, StartTransfer, CopyTakesAll
  <1>4. CASE AddGroup
    BY <1>4, RunningFacts DEF AddGroup, CopyTakesAll, Running
  <1>5. CASE UpdateDepartment
    <2>1. \/ tr' = [tr EXCEPT !.at = "done", !.left = <<>>]
          \/ \E i : tr' = [tr EXCEPT !.i = i, !.at = "load"]
      BY <1>5 DEF UpdateDepartment
    <2>2. tr'.at \in {"done", "load"}
      <3>1. Running
        BY <1>5 DEF UpdateDepartment, Running
      <3> QED BY <2>1, <3>1, RunningFacts
    <2> QED BY <2>2 DEF CopyTakesAll
  <1>6. CASE LoadInstances
    BY <1>6, RunningFacts DEF LoadInstances, Next1, NextModel, CopyTakesAll, Running
  <1>7. CASE TransferLists
    BY <1>7, RunningFacts DEF TransferLists, Next1, NextModel, CopyTakesAll, Running
  <1>8. CASE TransferDies
    BY <1>8 DEF TransferDies, TransferInv, Transferring, CopyTakesAll
  <1>9. CASE OtherRowStep
    <2>1. tr' = tr \/ \E S : tr' = TransferForgets(S)
      BY <1>9 DEF OtherRowStep, ChangeOwner, Commit
    <2>2. PICK f : tr' = tr \/ tr' = (IF "before" \in DOMAIN tr THEN [tr EXCEPT !.before = f] ELSE tr)
      BY <2>1 DEF TransferForgets
    <2> QED BY <2>2 DEF TransferInv, Transferring, Idle, CopyTakesAll
  <1>10. CASE AddStep \/ DeleteStep
    <2>1. tr' = Unsure
      BY <1>10 DEF AddStep, AddEntry, DeleteStep, DeleteSource
    <2> QED BY <2>1 DEF Unsure, TransferInv, Transferring, Idle, CopyTakesAll
  <1>11. CASE UNCHANGED tr
    BY <1>11 DEF CopyTakesAll
  <1> QED BY <1>1, <1>2, <1>3, <1>4, <1>5, <1>6, <1>7, <1>8, <1>9, <1>10, <1>11 DEF Frames, TransferStep
-----------------------------------------------------------------------------
(* Keys: two sources have the same one only after a copy.                  *)

Homes == {Home[u] : u \in Users}
KeysInv ==
    /\ Homes \subseteq made
    /\ Copying => copy.to \notin Homes
    /\ \A e, x \in Known(entries) : e # x /\ entries[e].key = entries[x].key => made \ Homes # {}

LEMMA KeysKept == ASSUME TypesInv, Next, KeysInv PROVE KeysInv'
  <1> USE DEF TypesInv
  <1>1. Frames /\ ListsInv' /\ ListsGrow /\ DOMAIN entries = Known(entries) /\ Len(entries) \in Nat
    BY StepFrames, ListsKept, EntryFacts
  <1>2. Homes' = Homes
    BY DEF Homes
  <1>3. Homes \subseteq made' /\ (made \ Homes # {} => made' \ Homes # {})
    BY <1>1 DEF KeysInv, ListsGrow
  <1>4. Copying' => copy'.to \notin Homes
    <2>1. CASE StartCopyStep
      BY <2>1 DEF StartCopyStep, StartCopy, KeysInv
    <2>2. CASE CopyLoad
      BY <2>2 DEF CopyLoad, KeysInv, Copying, CopyInv, Copies, Idle
    <2>3. CASE CopySave
      BY <2>3 DEF CopySave, KeysInv, Copying, CopyInv, Copies, Idle
    <2>4. CASE CopyDies
      BY <2>4 DEF CopyDies, Copying
    <2>5. CASE UNCHANGED copy
      BY <2>5 DEF KeysInv, Copying
    <2> QED BY <1>1, <2>1, <2>2, <2>3, <2>4, <2>5 DEF Frames, CopyStep
  <1>5. ASSUME NEW e \in Known(entries'), NEW x \in Known(entries'), e # x, entries'[e].key = entries'[x].key
        PROVE made' \ Homes # {}
    <2>1. CASE CopySave
      <3>1. Copying /\ copy.to \in made
        BY <2>1, CopyFrame DEF CopySave, Copying, Copies
      <3> QED BY <1>3, <3>1 DEF KeysInv
    <2>2. CASE AddStep
      <3>1. PICK y : entries' = Append(entries, y) /\ y.key = Len(entries) + 1
        BY <2>2 DEF AddStep, AddEntry
      <3>2. \A z \in Known(entries') : \/ z \in Known(entries) /\ entries'[z] = entries[z]
                                       \/ z = Len(entries) + 1 /\ entries'[z] = y
        BY <3>1, AppendProperties DEF ListsInv, Known
      <3>3. \A z \in Known(entries) : entries[z].key \in Known(entries)
        BY DEF ListsInv
      <3>4. e \in Known(entries) /\ x \in Known(entries)
        BY <1>1, <1>5, <3>1, <3>2, <3>3 DEF Known
      <3> QED BY <1>1, <1>3, <1>5, <3>4 DEF KeysInv, ListsGrow
    <2>3. CASE ~CopySave /\ ~AddStep
      <3>1. DOMAIN entries' = DOMAIN entries
        BY <1>1, <2>3 DEF Frames, EntryStep, AddStep, TransferLists, DeleteStep, DeleteSource
      <3>2. Known(entries') = Known(entries)
        BY <1>1, <3>1, LenProperties DEF ListsInv, Known
      <3> QED BY <1>1, <1>3, <1>5, <3>2 DEF KeysInv, ListsGrow
    <2> QED BY <2>1, <2>2, <2>3
  <1> QED BY <1>2, <1>3, <1>4, <1>5 DEF KeysInv

LEMMA LostKept == ASSUME TypesInv, Next, KeysInv, LostByCopy PROVE LostByCopy'
  <1> USE DEF TypesInv
  <1>1. Frames /\ ListsInv' /\ ListsGrow /\ DOMAIN entries = Known(entries)
    BY StepFrames, ListsKept, EntryFacts
  <1>2. Known(entries) \subseteq DOMAIN entries' /\ made \subseteq made'
    BY <1>1, EntryFacts, LenProperties DEF ListsGrow, ListsInv, Known
  <1>3. ASSUME NEW f \in Forms, NEW key, made \ Homes # {},
               \E e, x \in Known(entries) : e # x /\ entries[e].key = key /\ entries[x].key = key
        PROVE /\ made' \ {Home[u] : u \in Users} # {}
              /\ \E e, x \in DOMAIN entries' : e # x /\ entries'[e].key = key /\ entries'[x].key = key
    BY <1>1, <1>2, <1>3 DEF ListsGrow, Homes
  <1>4. ASSUME NEW f \in Forms, forms'[f] = forms[f], forms'[f].at = "lost"
        PROVE /\ made' \ {Home[u] : u \in Users} # {}
              /\ \E e, x \in DOMAIN entries' :
                   e # x /\ entries'[e].key = forms'[f].key /\ entries'[x].key = forms'[f].key
    <2>1. PICK key : key = forms[f].key
      OBVIOUS
    <2>2. /\ made \ Homes # {}
          /\ \E e, x \in Known(entries) : e # x /\ entries[e].key = key /\ entries[x].key = key
      BY <1>1, <1>4, <2>1 DEF LostByCopy, Homes
    <2> QED BY <1>3, <1>4, <2>1, <2>2
  <1>5. CASE UNCHANGED forms
    BY <1>4, <1>5 DEF LostByCopy
  <1>6. ASSUME NEW f \in Forms, SaveRequest(f) \/ SaveMail(f) PROVE LostByCopy'
    <2>1. \A g \in Forms : forms'[g] = forms[g] \/ forms'[g].at # "lost"
      BY <1>6 DEF SaveRequest, SaveMail, SiteInv, Idle
    <2> QED BY <1>4, <2>1 DEF LostByCopy
  <1>7. ASSUME NEW f \in Forms, NEW key \in Keys, PostForm(f, key) PROVE LostByCopy'
    <2>1. \A g \in Forms \ {f} : forms'[g] = forms[g]
      BY <1>7 DEF PostForm, SiteInv
    <2>2. ASSUME forms'[f].at = "lost"
          PROVE /\ forms'[f].key = key /\ made \ Homes # {}
                /\ \E e, x \in Known(entries) : e # x /\ entries[e].key = key /\ entries[x].key = key
      <3>1. /\ Cardinality(SourcesOf(key)) # 1
            /\ forms' = [forms EXCEPT ![f] =
                 [at |-> IF SourcesOf(key) = {} THEN "refused" ELSE "lost", key |-> key]]
        BY <1>7, <2>2 DEF PostForm, SiteInv
      <3>2. SourcesOf(key) # {} /\ forms'[f].key = key
        BY <2>2, <3>1 DEF SiteInv
      <3>3. PICK e : e \in SourcesOf(key)
        BY <3>2
      <3>4. SourcesOf(key) # {e}
        BY <3>1, FS_Singleton
      <3>5. PICK x : x \in SourcesOf(key) /\ x # e
        BY <3>3, <3>4
      <3>6. e \in Known(entries) /\ x \in Known(entries) /\ entries[e].key = key /\ entries[x].key = key
        BY <1>1, <3>3, <3>5 DEF SourcesOf
      <3> QED BY <3>2, <3>5, <3>6 DEF KeysInv
    <2>3. ASSUME NEW g \in Forms, forms'[g].at = "lost"
          PROVE /\ made' \ {Home[u] : u \in Users} # {}
                /\ \E e, x \in DOMAIN entries' :
                     e # x /\ entries'[e].key = forms'[g].key /\ entries'[x].key = forms'[g].key
      <3>1. CASE g = f
        BY <1>3, <2>2, <2>3, <3>1
      <3>2. CASE g # f
        BY <1>4, <2>1, <2>3, <3>2
      <3> QED BY <3>1, <3>2
    <2> QED BY <2>3 DEF LostByCopy
  <1> QED BY <1>1, <1>5, <1>6, <1>7 DEF Frames, SiteStep
-----------------------------------------------------------------------------
(* What holds at first and always, and what it says.                       *)

SitesInv ==
    /\ TypesInv /\ TogetherInv /\ MovedInv /\ FreshInv /\ SureInv /\ CopyTakesAll
    /\ KeysInv /\ LostByCopy

LEMMA AtFirst == Init => SitesInv
  <1> SUFFICES ASSUME Init PROVE SitesInv
    OBVIOUS
  <1>1. /\ home = Home /\ made = {Home[u] : u \in Users} /\ entries \in Lists /\ rows \in Owned
        /\ tx = [u \in Users |-> Idle] /\ copy = Idle /\ tr = Idle /\ ch = Idle
        /\ forms = [f \in Forms |-> Idle] /\ fresh = {}
    BY DEF Init
  <1>2. HomeInv
    BY <1>1, DepartmentsAssumption DEF DepartmentsAssumption, HomeInv
  <1>3. /\ entries \in Seq([kind : ListKinds, name : STRING, dept : made, key : Nat])
        /\ \A e \in DOMAIN entries : entries[e].key = e
        /\ rows \in Seq(RowSet)
        /\ \A r \in DOMAIN rows : rows[r].dept \in made \cup {None} /\ Refers(rows[r], entries)
    BY <1>1, SiteFormsAssumption DEF SiteFormsAssumption
  <1>4. /\ DOMAIN entries = Known(entries) /\ Len(entries) \in Nat /\ entries \in Seq(EntrySet)
        /\ \A e \in Known(entries) : entries[e].dept \in made /\ entries[e].key = e
    <2>1. /\ DOMAIN entries = Known(entries) /\ Len(entries) \in Nat
          /\ \A e \in Known(entries) : entries[e] \in [kind : ListKinds, name : STRING, dept : made, key : Nat]
      BY <1>3, LenProperties, ElementOfSeq DEF Known
    <2>2. \A e \in Known(entries) : entries[e] \in EntrySet
      BY <1>2, <2>1 DEF EntrySet, HomeInv
    <2>3. entries = [e \in 1..Len(entries) |-> entries[e]]
      BY <1>3, <2>1 DEF Known
    <2>4. entries \in [1..Len(entries) -> EntrySet]
      BY <2>2, <2>3 DEF Known
    <2>5. entries \in Seq(EntrySet)
      BY <2>1, <2>4
    <2>6. \A e \in Known(entries) : entries[e].dept \in made
      BY <2>1
    <2> QED BY <1>3, <2>1, <2>5, <2>6
  <1>5. ListsInv
    BY <1>2, <1>4, Departs DEF ListsInv
  <1>6. RowsInv
    BY <1>3, LenProperties DEF RowsInv, IsRow, RowOver, Known
  <1>7. FormInv /\ CopyInv /\ TransferInv /\ ChangeInv /\ SiteInv
    BY <1>1 DEF FormInv, CopyInv, TransferInv, ChangeInv, SiteInv
  <1>8. TypesInv
    <2>1. ASSUME NEW r \in Known(rows) PROVE ~Dangling(rows[r])
      <3>1. PICK row : row = rows[r]
        OBVIOUS
      <3>2. IsRow(row)
        BY <1>6, <2>1, <3>1, RowFacts
      <3>3. \A k \in DOMAIN row.fk : row.fk[k] # 0 => entries[row.fk[k]].dept # None
        BY <1>2, <1>4, <1>5, <3>2, KindsOfRow, Departs
      <3> QED BY <3>1, <3>3 DEF Dangling
    <2> QED BY <1>2, <1>5, <1>6, <1>7, <2>1 DEF TypesInv, SavedInv
  <1>9. ~Copying /\ ~Changing /\ ~Running
    BY <1>1 DEF Copying, Changing, Running, Idle
  <1>10. TogetherInv /\ MovedInv /\ SureInv /\ CopyTakesAll
    BY <1>1, <1>9 DEF TogetherInv, MovedInv, SureInv, CopyTakesAll, Idle
  <1>11. FreshInv /\ KeysInv
    BY <1>1, <1>4, <1>9 DEF FreshInv, KeysInv, Homes
  <1>12. LostByCopy
    BY <1>1 DEF LostByCopy, Idle
  <1> QED BY <1>8, <1>10, <1>11, <1>12 DEF SitesInv

LEMMA Standing == ASSUME SitesInv, UNCHANGED vars PROVE SitesInv'
  <1> USE DEF vars
  <1>1. ListsInv' = ListsInv
    BY DEF ListsInv, Known
  <1>2. RowsInv' = RowsInv
    BY DEF RowsInv, IsRow, RowOver, Known
  <1>3. HomeInv' = HomeInv /\ FormInv' = FormInv
    BY DEF HomeInv, FormInv, IsRow, RowOver, Known
  <1>4. CopyInv' = CopyInv
    BY DEF CopyInv, Copies, SavesCopy, Known, Copied
  <1>5. \A t : Transferring(t)' = Transferring(t) /\ ChangeOf(t)' = ChangeOf(t)
    BY DEF Transferring, ChangeOf, PartOf, IsRow, RowOver, Known, ContactsOf, Objects
  <1>6. TransferInv' = TransferInv /\ ChangeInv' = ChangeInv /\ SiteInv' = SiteInv
    BY <1>5 DEF TransferInv, ChangeInv, SiteInv
  <1>7. TogetherInv' = TogetherInv
    BY DEF TogetherInv, Changing, Given, Reached, Family, ContactsOf, Known
  <1>8. MovedInv' = MovedInv
    BY DEF MovedInv
  <1>9. FreshInv' = FreshInv
    BY DEF FreshInv, Copying, Complete, Twin, Unsaved, SavedKinds, Copied, Known
  <1>10. SureInv' = SureInv /\ CopyTakesAll' = CopyTakesAll /\ SavedInv' = SavedInv
    BY DEF SureInv, CopyTakesAll, Running, Copying, Known, Dangling, SavedInv
  <1>11. KeysInv' = KeysInv /\ LostByCopy' = LostByCopy
    BY DEF KeysInv, LostByCopy, Copying, Homes, Known
  <1> QED BY <1>1, <1>2, <1>3, <1>4, <1>6, <1>7, <1>8, <1>9, <1>10, <1>11 DEF SitesInv, TypesInv

LEMMA SitesAlways == Spec => []SitesInv
  <1>1. SitesInv /\ [Next]_vars => SitesInv'
    <2> SUFFICES ASSUME SitesInv, [Next]_vars PROVE SitesInv'
      OBVIOUS
    <2>1. CASE Next
      BY <2>1, TypesKept, TogetherKept, MovedKept, FreshKept, SureKept, ErrorKept, KeysKept, LostKept
         DEF SitesInv
    <2> QED BY <2>1, Standing
  <1> QED BY <1>1, AtFirst, PTL DEF Spec

LEMMA TypesHold == ASSUME TypesInv PROVE TypeOK
  <1> USE DEF TypesInv
  <1>1. made \subseteq Depts /\ home \in [Users -> Depts \cup {None}]
    BY DEF HomeInv
  <1>2. \A e \in DOMAIN entries : /\ entries[e].kind \in ListKinds /\ entries[e].dept \in Depts \cup {None}
                                  /\ entries[e].key \in DOMAIN entries
    BY EntryFacts DEF EntrySet, ListsInv
  <1>3. \A r \in DOMAIN rows : /\ rows[r].model \in Models /\ rows[r].owner \in Users \cup {None}
                               /\ rows[r].dept \in made \cup {None}
                               /\ \A k \in DOMAIN rows[r].fk :
                                    rows[r].fk[k] = 0 \/ entries[rows[r].fk[k]].kind = k
                               /\ rows[r].m2m \subseteq DOMAIN entries
    <2> SUFFICES ASSUME NEW r \in DOMAIN rows, NEW row, row = rows[r]
                 PROVE /\ row.model \in Models /\ row.owner \in Users \cup {None}
                       /\ row.dept \in made \cup {None}
                       /\ \A k \in DOMAIN row.fk : row.fk[k] = 0 \/ entries[row.fk[k]].kind = k
                       /\ row.m2m \subseteq DOMAIN entries
      OBVIOUS
    <2>1. IsRow(row) /\ row \in RowSet
      BY RowFacts
    <2> QED BY <2>1, KindsOfRow, EntryFacts DEF RowSet, IsRow, RowOver
  <1>4. tr.at \in Free \cup {"add", "update", "load", "rows", "lists"}
    BY DEF TransferInv, Transferring, Idle, Free
  <1> QED BY <1>1, <1>2, <1>3, <1>4 DEF TypeOK

\* Whatever users and other administrators do meanwhile, and wherever a view
\* dies before: a transfer that ends without an error has moved the rows nobody
\* else has saved with their stages, types and lists (not with their lead
\* sources), a transfer to a copy ends without one, a change of owner leaves
\* companies together with their contacts, those that join them meanwhile from a
\* form that knows the new owner included, and a site form is lost only after a
\* copy (common/views/user_transfer.py,
\* copy_department.py, change_owner_companies.py, contact_form.py).
THEOREM MovesWhole == Spec => []TransfersSound
  <1>1. SitesInv => TransfersSound
    BY TypesHold, MovedHolds, TogetherHolds DEF SitesInv, TransfersSound
  <1> QED BY <1>1, SitesAlways, PTL

==============================================================================
