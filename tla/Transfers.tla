----------------------------- MODULE Transfers -----------------------------
(***************************************************************************)
(* The transfer of a user to another department with what he owns          *)
(* (common/views/user_transfer.py), and the change of the owner of         *)
(* companies and their contacts (crm/views/change_owner_companies.py).     *)
(*                                                                         *)
(* Neither view is a transaction: every statement below is committed by    *)
(* itself, an error or the end of the process leaves what was done, and    *)
(* the administrator may start again.                                      *)
(***************************************************************************)
EXTENDS Departments

Free == {"idle", "done", "error", "died"}
Counterparts(k, e, d) == {x \in EntriesOf(k, d) : entries[x].name = entries[e].name}

\* Nothing can be missing: the department is a copy of the one the user is in,
\* and all he has chosen, in an open form too, is in the lists that were copied.
Chosen(u) == {rows[r] : r \in RowsOf(u)} \cup (IF tx[u] = Idle THEN {} ELSE {tx[u].row})
Sure(u, d) ==
    /\ {home[u], d} \in fresh /\ home[u] # d
    /\ copy.at = "done" /\ Distinct(d) /\ Distinct(home[u])
    /\ \A row \in Chosen(u) : \A k \in DOMAIN row.fk \ {"source"} :
         row.fk[k] = 0 \/ entries[row.fk[k]].dept \in {home[u], d}

StartTransfer(u, d) ==
    /\ tr.at \in Free /\ ops < MaxOps /\ ops' = ops + 1
    /\ d \in made
    /\ tr' = [at |-> "add", user |-> u, dept |-> d, i |-> 1, left |-> <<>>, cur |-> 0,
              before |-> Restrict(rows, RowsOf(u)), known |-> Len(entries), sure |-> Sure(u, d)]
    /\ home' = [home EXCEPT ![u] = None]
    /\ UNCHANGED <<made, entries, rows, tx, copy, ch, forms, failures, fresh, crossed>>

AddGroup ==
    /\ tr.at = "add"
    /\ home' = [home EXCEPT ![tr.user] = tr.dept]
    /\ tr' = [tr EXCEPT !.at = "update"]
    /\ UNCHANGED <<made, entries, rows, tx, copy, ch, forms, ops, failures, fresh, crossed>>

\* The next model of which the user owns rows; of the others nothing changes.
OwnedOf(i) == {r \in RowsOf(tr.user) : rows[r].model = Objects[i].model}
Later == {i \in tr.i..Len(Objects) : OwnedOf(i) # {}}

UpdateDepartment ==
    /\ tr.at = "update"
    /\ IF Later = {}
       THEN /\ tr' = [tr EXCEPT !.at = "done", !.left = <<>>]
            /\ UNCHANGED <<rows, ch>>
       ELSE LET i == Min(Later)
            IN  /\ rows' = [r \in DOMAIN rows |->
                     IF r \in OwnedOf(i) THEN [rows[r] EXCEPT !.dept = tr.dept] ELSE rows[r]]
                /\ ch' = ChangeForgets(OwnedOf(i))
                /\ tr' = [tr EXCEPT !.i = i, !.at = "load"]
    /\ UNCHANGED <<made, home, entries, tx, copy, forms, ops, failures, fresh, crossed>>

NextModel(t) == [t EXCEPT !.at = "update", !.i = @ + 1, !.left = <<>>, !.cur = 0]
Next1(t) == IF DOMAIN t.left = {} THEN NextModel(t) ELSE [t EXCEPT !.at = "rows", !.cur = 0]

LoadInstances ==
    /\ tr.at = "load"
    /\ tr' = IF Objects[tr.i].fk \cup Objects[tr.i].m2m = {} THEN NextModel(tr)
             ELSE Next1([tr EXCEPT !.left = Restrict(rows, OwnedOf(tr.i))])
    /\ UNCHANGED <<made, home, entries, rows, tx, copy, ch, forms, ops, failures, fresh, crossed>>

\* The keys that are looked up.
LookedUp(row) == {k \in Objects[tr.i].fk : row.fk[k] # 0}
Missing(row) == {k \in LookedUp(row) : Counterparts(k, row.fk[k], tr.dept) = {}}
Ambiguous(row) == {k \in LookedUp(row) : Cardinality(Counterparts(k, row.fk[k], tr.dept)) > 1}
\* An instance is saved, whole and as it was loaded, when a key was found.
Found(row) == LookedUp(row) \ Missing(row)
Saves(row) == Found(row) # {}
Renewed(row) == [k \in DOMAIN row.fk |->
    IF k \in Found(row) THEN CHOOSE x \in Counterparts(k, row.fk[k], tr.dept) : TRUE ELSE row.fk[k]]
\* Only the absence of a type is caught.
Fails(row) == \/ Missing(row) \ {"type"} # {} \/ Ambiguous(row) # {}
              \/ Saves(row) /\ Dangling(row)
\* Mutant: only the keys are saved, to spare the other columns.
Mutant_Written(r, row) == [rows[r] EXCEPT !.fk = Renewed(row)]
Written(r, row) == [row EXCEPT !.fk = Renewed(row), !.m2m = rows[r].m2m]
\* What a transfer that ends halfway leaves.
Halfway == {r \in RowsOf(tr.user) : rows[r].model = Objects[tr.i].model}

TransferRow(r) ==
    /\ tr.at = "rows" /\ r \in DOMAIN tr.left
    /\ LET row == tr.left[r]
       IN  IF Fails(row)
           THEN /\ tr' = [tr EXCEPT !.at = "error", !.left = <<>>]
                /\ crossed' = crossed \cup Halfway
                /\ UNCHANGED <<rows, ch>>
           ELSE /\ rows' = IF Saves(row) THEN [rows EXCEPT ![r] = Written(r, row)] ELSE rows
                /\ ch' = IF Saves(row) THEN ChangeForgets({r}) ELSE ch
                /\ tr' = [tr EXCEPT !.at = "lists", !.cur = r]
                /\ crossed' = IF r \in DOMAIN tr.before THEN crossed \ {r} ELSE crossed
    /\ UNCHANGED <<made, home, entries, tx, copy, forms, ops, failures, fresh>>

\* The tags of the row are moved; the other lists are replaced by entries of
\* the same names, or emptied.
OfKind(S, k) == {e \in S : entries[e].kind = k}
SameNamed(S, k, d) == UNION {Counterparts(k, e, d) : e \in OfKind(S, k)}
Replaced(S) == OfKind(S, "tag") \cup
    UNION {SameNamed(S, k, tr.dept) : k \in Objects[tr.i].m2m \ {"tag"}}

TransferLists ==
    /\ tr.at = "lists"
    /\ rows' = [rows EXCEPT ![tr.cur].m2m = Replaced(@)]
    /\ entries' = [e \in DOMAIN entries |->
         IF e \in OfKind(rows[tr.cur].m2m, "tag") THEN [entries[e] EXCEPT !.dept = tr.dept]
         ELSE entries[e]]
    /\ tr' = Next1([tr EXCEPT !.left = Restrict(@, DOMAIN @ \ {tr.cur})])
    /\ UNCHANGED <<made, home, tx, copy, ch, forms, ops, failures, fresh, crossed>>

TransferDies ==
    /\ tr.at \notin Free /\ failures < MaxFailures /\ failures' = failures + 1
    /\ tr' = [tr EXCEPT !.at = "died", !.left = <<>>]
    /\ crossed' = crossed \cup Halfway
    /\ UNCHANGED <<made, home, entries, rows, tx, copy, ch, forms, ops, fresh>>
-----------------------------------------------------------------------------
(* The companies are loaded and saved one after the other, then the        *)
(* contacts of all of them.                                                *)

\* Mutant: only the contacts whose owner is that of the company.
Mutant_ContactsOf(S) == {r \in DOMAIN rows : rows[r].company \in S /\
                                              rows[r].owner = rows[rows[r].company].owner}
ContactsOf(S) == {r \in DOMAIN rows : rows[r].company \in S}

StartChange(u, S) ==
    /\ ch.at \in Free /\ ops < MaxOps /\ ops' = ops + 1
    /\ S # {} /\ \A r \in S : rows[r].model = "company"
    /\ ch' = [at |-> "companies", owner |-> u, dept |-> home[u], of |-> S,
              left |-> Restrict(rows, S), alone |-> TRUE, early |-> {}]
    /\ UNCHANGED <<made, home, entries, rows, tx, copy, tr, forms, failures, fresh, crossed>>

LoadContacts ==
    /\ ch.at = "companies" /\ DOMAIN ch.left = {}
    /\ ch' = [ch EXCEPT !.at = "contacts", !.left = Restrict(rows, ContactsOf(ch.of))]
    /\ UNCHANGED <<made, home, entries, rows, tx, copy, tr, forms, ops, failures, fresh, crossed>>

Handed(row) == [row EXCEPT !.owner = ch.owner, !.dept = ch.dept]

\* Users with a form open that has read the company r.
HaveRead(r) == {v \in Users : tx[v] # Idle /\ tx[v].row.company = r}

ChangeOwner(r) ==
    /\ ch.at \in {"companies", "contacts"} /\ r \in DOMAIN ch.left
    /\ IF Dangling(ch.left[r])
       THEN ch' = [at |-> "died"] /\ UNCHANGED <<rows, tr>>
       ELSE /\ rows' = [rows EXCEPT ![r] = [Handed(ch.left[r]) EXCEPT !.m2m = rows[r].m2m]]
            /\ ch' = [ch EXCEPT !.left = Restrict(@, DOMAIN @ \ {r}), !.early = @ \cup HaveRead(r)]
            /\ tr' = TransferForgets({r})
    /\ UNCHANGED <<made, home, entries, tx, copy, forms, ops, failures, fresh, crossed>>

ChangeEnds ==
    /\ ch.at = "contacts" /\ DOMAIN ch.left = {}
    /\ ch' = [ch EXCEPT !.at = "done"]
    /\ UNCHANGED <<made, home, entries, rows, tx, copy, tr, forms, ops, failures, fresh, crossed>>

ChangeDies ==
    /\ ch.at \notin Free /\ failures < MaxFailures /\ failures' = failures + 1
    /\ ch' = [at |-> "died"]
    /\ UNCHANGED <<made, home, entries, rows, tx, copy, tr, forms, ops, fresh, crossed>>
-----------------------------------------------------------------------------
Steps ==
    \/ AddGroup \/ UpdateDepartment \/ LoadInstances \/ TransferLists \/ TransferDies
    \/ \E r \in DOMAIN rows : TransferRow(r)
    \/ LoadContacts \/ ChangeEnds \/ ChangeDies
    \/ \E r \in DOMAIN rows : ChangeOwner(r)
    \/ CopyLoad \/ CopySave \/ CopyDies
    \/ \E u \in Users : Commit(u)
=============================================================================
