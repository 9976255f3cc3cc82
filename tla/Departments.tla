---------------------------- MODULE Departments ----------------------------
(***************************************************************************)
(* Departments: their lists (stages, reasons for closing, types,           *)
(* industries, products, tags, lead sources), the users who belong to      *)
(* them, the rows users own, the copying of a department                   *)
(* (common/views/copy_department.py) and the forms by which an owner       *)
(* changes a row or adds one (crm/site/crmmodeladmin.py,                   *)
(* common/site/basemodeladmin.py).                                         *)
(*                                                                         *)
(* The views of an administrator commit every statement by itself; a form  *)
(* is a transaction, which loads its row and saves the whole of it.  A row *)
(* keeps, of its columns, those that name a department, a list or, of a    *)
(* contact, the company, whose owner and department the form of a contact  *)
(* takes.                                                                  *)
(***************************************************************************)
EXTENDS Integers, FiniteSets, Sequences, SequencesExt, FiniteSetsExt, Functions

CONSTANTS Users,
          Depts,        \* departments there are, or are made by copying
          Home,         \* the department of each user at first
          MaxOps,       \* bound: forms, copies, transfers and additions begun
          MaxFailures   \* bound: views that die between two statements

None == "none"
ListKinds == {"product", "stage", "reason", "type", "industry", "source", "tag"}
\* MODELS: what a copy of a department copies, in this order.
Copied == <<"product", "stage", "reason", "type", "industry", "source">>
\* objects: the models that are transferred, in this order, with the foreign
\* keys and the many-to-many fields that are translated.
Objects ==
    << [model |-> "request", fk |-> {},                  m2m |-> {"product"}],
       [model |-> "deal",    fk |-> {"stage", "reason"}, m2m |-> {"tag"}],
       [model |-> "company", fk |-> {"type"},            m2m |-> {"industry", "tag"}],
       [model |-> "contact", fk |-> {},                  m2m |-> {"tag"}],
       [model |-> "lead",    fk |-> {"type"},            m2m |-> {"industry", "tag"}],
       [model |-> "email",   fk |-> {},                  m2m |-> {}],
       [model |-> "account", fk |-> {},                  m2m |-> {}],
       [model |-> "mailing", fk |-> {},                  m2m |-> {}],
       [model |-> "signature", fk |-> {},                m2m |-> {}],
       [model |-> "message", fk |-> {},                  m2m |-> {}] >>
Models == {"request", "deal", "company", "contact", "lead", "email",
           "account", "mailing", "signature", "message"}
\* All keys to lists: the lead source is none of those that are translated.
FkOf(m) == IF m = "deal" THEN {"stage", "reason"}
           ELSE IF m \in {"company", "lead"} THEN {"type", "source"}
           ELSE IF m \in {"request", "contact"} THEN {"source"} ELSE {}
ListsOf(m) == UNION {Objects[i].m2m : i \in {j \in DOMAIN Objects : Objects[j].model = m}}
RowSet == [model : Models, owner : Users \cup {None}, dept : Depts \cup {None}, company : Nat,
           fk : [{} -> Nat] \cup [{"source"} -> Nat] \cup [{"type", "source"} -> Nat]
                \cup [{"stage", "reason"} -> Nat],
           m2m : SUBSET Nat]

ASSUME DepartmentsAssumption ==
    /\ IsFiniteSet(Users) /\ IsFiniteSet(Depts) /\ None \notin Users \cup Depts
    /\ Home \in [Users -> Depts]
    /\ MaxOps \in Nat /\ MaxFailures \in Nat

VARIABLES
    made,      \* the departments there are
    home,      \* the department of each user
    entries,   \* the entries of all lists, by id
    rows,      \* the rows users own, by id
    tx,        \* the form each user is in the middle of
    copy,      \* the copying of a department
    tr,        \* the transfer of a user
    ch,        \* the change of the owner of companies
    forms,     \* forms of other sites
    ops, failures,
    fresh,     \* history: departments whose lists nobody has added to since
               \*          they were copied, each with its copy
    crossed    \* history: rows that a form has saved between the two statements
               \*          of a transfer, or that a transfer has left halfway

vars == <<made, home, entries, rows, tx, copy, tr, ch, forms, ops, failures, fresh, crossed>>
views == <<copy, tr, ch, forms>>

Idle == [at |-> "idle"]
-----------------------------------------------------------------------------
EntriesOf(k, d) == {e \in DOMAIN entries : entries[e].kind = k /\ entries[e].dept = d}
Row(m, u, d, firm) == [model |-> m, owner |-> u, dept |-> d, company |-> firm,
                       fk |-> [k \in FkOf(m) |-> 0], m2m |-> {}]
RowsOf(u) == {r \in DOMAIN rows : rows[r].owner = u}
\* Entries of one list have different names, in a department.
Distinct(d) ==
    \A k \in ListKinds : \A e, f \in EntriesOf(k, d) :
        entries[e].name = entries[f].name => e = f

\* Rows that somebody else saves are no longer those a transfer or a change of
\* owner knows.
TransferForgets(S) ==
    IF "before" \in DOMAIN tr THEN [tr EXCEPT !.before = Restrict(@, DOMAIN @ \ S)] ELSE tr
Family(S) == {r \in DOMAIN rows : r \in S \/ rows[r].company \in S}
ChangeForgets(S) ==
    IF "of" \in DOMAIN ch
    THEN [ch EXCEPT !.alone = @ /\ S \cap Family(ch.of) = {}] ELSE ch
\* Nor is a contact that joins a company after its contacts were loaded, by a
\* form that had read the company before it was saved.
ChangeMisses(u, r) ==
    IF "of" \in DOMAIN ch
    THEN [ch EXCEPT !.alone = @ /\ r \notin Family(ch.of) /\ (u \in ch.early => ch.at = "companies"),
                    !.early = @ \ {u}] ELSE ch
-----------------------------------------------------------------------------
(* The administrator adds an entry to a list.                              *)
Unsure == IF "sure" \in DOMAIN tr THEN [tr EXCEPT !.sure = FALSE] ELSE tr
AddEntry(k, d, name) ==
    /\ ops < MaxOps /\ ops' = ops + 1
    /\ d \in made
    /\ entries' = Append(entries, [kind |-> k, name |-> name, dept |-> d,
                                   key |-> Len(entries) + 1])
    /\ fresh' = {p \in fresh : d \notin p}
    /\ tr' = Unsure
    /\ UNCHANGED <<made, home, rows, tx, copy, ch, forms, failures, crossed>>

\* A lead source is deleted, the original or a copy of it: rows lose the key.
DeleteSource(e) ==
    /\ ops < MaxOps /\ ops' = ops + 1
    /\ e \in DOMAIN entries /\ entries[e].kind = "source" /\ entries[e].dept # None
    /\ entries' = [entries EXCEPT ![e].dept = None]
    /\ rows' = [r \in DOMAIN rows |-> [rows[r] EXCEPT !.fk =
                  [k \in DOMAIN @ |-> IF @[k] = e THEN 0 ELSE @[k]]]]
    /\ tr' = Unsure
    /\ UNCHANGED <<made, home, tx, copy, ch, forms, failures, fresh, crossed>>
\* A row with the key of a deleted entry cannot be saved.
Dangling(row) == \E k \in DOMAIN row.fk : row.fk[k] # 0 /\ entries[row.fk[k]].dept = None

\* The copy of a department has a name of its own (it cannot be copied a second
\* time before the first copy is renamed; one is made here).
StartCopy(d, c) ==
    /\ copy.at \in {"idle", "done", "died"} /\ ops < MaxOps /\ ops' = ops + 1
    /\ d \in made /\ c \in Depts \ made
    /\ made' = made \cup {c}
    /\ copy' = [at |-> "load", of |-> d, to |-> c, i |-> 1, left |-> {}]
    /\ fresh' = fresh \cup {{d, c}}
    /\ UNCHANGED <<home, entries, rows, tx, tr, ch, forms, failures, crossed>>

\* The rows of one model are loaded, and saved again one by one without an id
\* of their own: all other columns stay, the key of a lead source too.
Uncopied(i) == {j \in i..Len(Copied) : EntriesOf(Copied[j], copy.of) # {}}

CopyLoad ==
    /\ copy.at = "load"
    /\ copy' = IF Uncopied(copy.i) = {} THEN [copy EXCEPT !.at = "done"]
               ELSE LET i == Min(Uncopied(copy.i))
                    IN  [copy EXCEPT !.at = "save", !.i = i + 1,
                                     !.left = EntriesOf(Copied[i], copy.of)]
    /\ UNCHANGED <<made, home, entries, rows, tx, tr, ch, forms, ops, failures, fresh, crossed>>

CopySave ==
    /\ copy.at = "save"
    /\ LET e == Min(copy.left)
       IN  /\ entries' = Append(entries, [entries[e] EXCEPT !.dept = copy.to])
           /\ copy' = [copy EXCEPT !.left = @ \ {e},
                                   !.at = IF copy.left = {e} THEN "load" ELSE "save"]
    /\ UNCHANGED <<made, home, rows, tx, tr, ch, forms, ops, failures, fresh, crossed>>

CopyDies ==
    /\ copy.at \in {"load", "save"} /\ failures < MaxFailures /\ failures' = failures + 1
    /\ copy' = [at |-> "died"]
    /\ fresh' = fresh \ {{copy.of, copy.to}}
    /\ UNCHANGED <<made, home, entries, rows, tx, tr, ch, forms, ops, crossed>>
-----------------------------------------------------------------------------
(* The forms of a user.  His department is that of the beginning of the    *)
(* request: it is what he sees, and what he can choose from.               *)

Offered(k, d) == EntriesOf(k, d) \cup {0}
\* The row as it is saved: a contact belongs to whom its company, any of them,
\* belongs when the form is checked.
Companies == {r \in DOMAIN rows : rows[r].model = "company"}
Placed(row) ==
    IF row.model # "contact" THEN {row}
    ELSE {[row EXCEPT !.company = c, !.owner = rows[c].owner, !.dept = rows[c].dept] : c \in Companies}

\* He keeps what is offered, and has to choose again what is not.
BeginEdit(u, r) ==
    /\ tx[u] = Idle /\ ops < MaxOps /\ ops' = ops + 1
    /\ r \in RowsOf(u) /\ home[u] \in {None, rows[r].dept}
    /\ \E fk \in [DOMAIN rows[r].fk -> {0} \cup DOMAIN entries] :
         /\ \A k \in DOMAIN fk : LET now == rows[r].fk[k]
                                 IN  IF now \in Offered(k, home[u]) THEN fk[k] = now
                                     ELSE fk[k] \in Offered(k, home[u])
         /\ \E row \in Placed([rows[r] EXCEPT !.fk = fk, !.m2m = {e \in @ : entries[e].dept = home[u]}]) :
              tx' = [tx EXCEPT ![u] = [at |-> "edit", id |-> r, row |-> row]]
    /\ UNCHANGED <<made, home, entries, rows, views, failures, fresh, crossed>>

\* A new row gets the department its owner has when it is saved.
BeginAdd(u, m) ==
    /\ tx[u] = Idle /\ ops < MaxOps /\ ops' = ops + 1
    /\ \E fk \in [FkOf(m) -> {0} \cup DOMAIN entries] :
         /\ \A k \in DOMAIN fk : fk[k] \in Offered(k, home[u])
         /\ \E row \in Placed([Row(m, u, home[u], 0) EXCEPT !.fk = fk]) :
              tx' = [tx EXCEPT ![u] = [at |-> "add", id |-> 0, row |-> row]]
    /\ UNCHANGED <<made, home, entries, rows, views, failures, fresh, crossed>>

\* Between the two statements of a transfer a row of the user is saved.
Crosses(row) == tr.at = "load" /\ row.owner = tr.user /\ row.model = Objects[tr.i].model
Commit(u) ==
    /\ tx[u] # Idle /\ tx' = [tx EXCEPT ![u] = Idle]
    /\ LET id == tx[u].id
           row == tx[u].row
       IN  IF Dangling(row) THEN UNCHANGED <<rows, tr, ch, crossed>>
           ELSE /\ rows' = IF tx[u].at = "add" THEN Append(rows, row) ELSE [rows EXCEPT ![id] = row]
                /\ tr' = TransferForgets({id})
                /\ ch' = ChangeMisses(u, id)
                /\ crossed' = crossed \cup {r \in DOMAIN rows' : Crosses(row)
                                            /\ r = (IF id = 0 THEN Len(rows') ELSE id)}
    /\ UNCHANGED <<made, home, entries, copy, forms, ops, failures, fresh>>
=============================================================================
