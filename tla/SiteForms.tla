----------------------------- MODULE SiteForms -----------------------------
(***************************************************************************)
(* The form of another site makes a request and the mail of it             *)
(* (crm/views/contact_form.py, crm/views/add_request.py,                   *)
(* crm/utils/create_form_request.py), while departments are copied and     *)
(* users transferred.                                                      *)
(*                                                                         *)
(* The lead source is found by the key in the form.  Not modelled: the     *)
(* countries and cities, stop phrases and banned companies, which turn a   *)
(* form away before anything is saved; how a client is found (Requests).   *)
(***************************************************************************)
EXTENDS Transfers

CONSTANTS Forms,    \* forms posted
          Lists,    \* the entries of the lists at first
          Owned,    \* the rows at first
          Addable,  \* entries an administrator adds: their list and name
          Adding,   \* models of which a user adds rows
          Movable   \* users who are transferred, and who post forms

\* At first the lists are of departments with users, each source has a key of
\* its own, a row refers to entries of the lists its model has, and only
\* contacts have a company.
Refers(row, l) ==
    /\ row.fk \in [FkOf(row.model) -> 0..Len(l)]
    /\ \A k \in FkOf(row.model) : row.fk[k] = 0 \/ l[row.fk[k]].kind = k
    /\ \A e \in row.m2m : e \in 1..Len(l) /\ l[e].kind \in ListsOf(row.model)
    /\ row.company # 0 <=> row.model = "contact"
ASSUME SiteFormsAssumption ==
    /\ Addable \subseteq ListKinds \X STRING
    /\ Adding \subseteq Models /\ Movable \subseteq Users
    /\ \A l \in Lists :
         /\ l \in Seq([kind : ListKinds, name : STRING, dept : {Home[u] : u \in Users}, key : Nat])
         /\ \A e \in DOMAIN l : l[e].key = e
    /\ \A o \in Owned :
         /\ o \in Seq(RowSet)
         /\ \A r \in DOMAIN o : /\ o[r].dept \in {Home[u] : u \in Users} \cup {None}
                                /\ \A l \in Lists : Refers(o[r], l)
                                /\ o[r].company # 0 => /\ o[r].company \in DOMAIN o
                                                       /\ o[o[r].company].model = "company"

Init ==
    /\ home = Home
    /\ made = {Home[u] : u \in Users}
    /\ entries \in Lists /\ rows \in Owned
    /\ tx = [u \in Users |-> Idle]
    /\ copy = Idle /\ tr = Idle /\ ch = Idle
    /\ forms = [f \in Forms |-> Idle]
    /\ ops = 0 /\ failures = 0 /\ fresh = {} /\ crossed = {}

Keys == {entries[e].key : e \in {x \in DOMAIN entries : entries[x].kind = "source"}}
SourcesOf(key) == {e \in DOMAIN entries : /\ entries[e].kind = "source" /\ entries[e].dept # None
                                          /\ entries[e].key = key}

\* The owner is that of the contact that is found; a key of several sources is
\* an error nobody catches, a key of none is refused.
PostForm(f, key) ==
    /\ forms[f] = Idle /\ ops < MaxOps /\ ops' = ops + 1
    /\ IF Cardinality(SourcesOf(key)) # 1
       THEN forms' = [forms EXCEPT ![f] =
              [at |-> IF SourcesOf(key) = {} THEN "refused" ELSE "lost", key |-> key]]
       ELSE LET e == CHOOSE e \in SourcesOf(key) : TRUE
            IN  \E u \in {None} \cup {rows[c].owner : c \in {r \in DOMAIN rows :
                                                            rows[r].model = "contact"}} :
                  forms' = [forms EXCEPT ![f] =
                    [at |-> "found", source |-> e, dept |-> entries[e].dept, owner |-> u]]
    /\ UNCHANGED <<made, home, entries, rows, tx, copy, tr, ch, failures, fresh, crossed>>

Saved(f, m) == Row(m, forms[f].owner, forms[f].dept, 0)
Asked(f) == [Saved(f, "request") EXCEPT !.fk["source"] = forms[f].source]

\* The source may have been deleted, an error that nobody catches.
SaveRequest(f) ==
    /\ forms[f].at = "found"
    /\ rows' = IF Dangling(Asked(f)) THEN rows ELSE Append(rows, Asked(f))
    /\ forms' = [forms EXCEPT ![f].at = IF Dangling(Asked(f)) THEN "failed" ELSE "saved"]
    /\ UNCHANGED <<made, home, entries, tx, copy, tr, ch, ops, failures, fresh, crossed>>

SaveMail(f) ==
    /\ forms[f].at = "saved"
    /\ rows' = Append(rows, Saved(f, "email"))
    /\ forms' = [forms EXCEPT ![f].at = "done"]
    /\ UNCHANGED <<made, home, entries, tx, copy, tr, ch, ops, failures, fresh, crossed>>
-----------------------------------------------------------------------------
Next ==
    \/ Steps
    \/ \E d \in made, a \in Addable : AddEntry(a[1], d, a[2])
    \/ \E e \in DOMAIN entries : DeleteSource(e)
    \/ \E d, c \in Depts : StartCopy(d, c)
    \/ \E u \in Movable : \/ \E r \in DOMAIN rows : BeginEdit(u, r)
                          \/ \E m \in Adding : BeginAdd(u, m)
                          \/ \E d \in Depts : StartTransfer(u, d)
    \/ \E u \in Users, r \in DOMAIN rows : StartChange(u, {r})
    \/ \E f \in Forms : \/ \E key \in Keys : PostForm(f, key)
                        \/ SaveRequest(f) \/ SaveMail(f)

Spec == Init /\ [][Next]_vars
-----------------------------------------------------------------------------
TypeOK ==
    /\ made \subseteq Depts /\ home \in [Users -> Depts \cup {None}]
    /\ \A e \in DOMAIN entries : /\ entries[e].kind \in ListKinds
                                 /\ entries[e].dept \in Depts \cup {None}
                                 /\ entries[e].key \in DOMAIN entries
    /\ \A r \in DOMAIN rows : /\ rows[r].model \in Models
                              /\ rows[r].owner \in Users \cup {None}
                              /\ rows[r].dept \in made \cup {None}
                              /\ \A k \in DOMAIN rows[r].fk :
                                   rows[r].fk[k] = 0 \/ entries[rows[r].fk[k]].kind = k
                              /\ rows[r].m2m \subseteq DOMAIN entries
    /\ tr.at \in Free \cup {"add", "update", "load", "rows", "lists"}

\* A transfer that ended without an error has moved every row of the user that
\* nobody else saved meanwhile, though an earlier one ended halfway: the row is
\* in the new department, its stage and reason for closing are those of the
\* same names there, its type too if there was one, its tags are there, and
\* of its industries and products it has those that are there.  Its lead source
\* stays that of the old department, until somebody deletes it.
Same(e, x, d) == entries[x].name = entries[e].name /\ entries[x].dept = d
There(e, d, n) == {x \in 1..n : entries[x].kind = entries[e].kind /\ Same(e, x, d)} # {}
Moved ==
    tr.at = "done" => \A r \in DOMAIN tr.before :
        LET old == tr.before[r]
            now == rows[r]
            d == tr.dept
        IN  /\ now.owner = tr.user /\ now.dept = d
            /\ \A k \in DOMAIN old.fk : old.fk[k] # 0 =>
                 \/ k # "source" /\ Same(old.fk[k], now.fk[k], d)
                 \/ k = "source" /\ now.fk[k] \in {0, old.fk[k]}
                 \/ k = "type" /\ now.fk[k] = old.fk[k] /\ ~There(old.fk[k], d, tr.known)
            /\ \A e \in old.m2m :
                 \/ e \in now.m2m /\ entries[e].dept = d
                 \/ entries[e].kind # "tag" /\ \E x \in now.m2m : Same(e, x, d)
                 \/ entries[e].kind # "tag" /\ ~There(e, d, tr.known)
            /\ \A x \in now.m2m : entries[x].dept = d

\* A transfer to a copy of the user's department, of lists that have not changed
\* since, never stops at a stage or a reason it does not find.
CopyTakesAll == tr.at = "error" => ~tr.sure

\* When a change of owner has ended, and nobody else saved these rows meanwhile,
\* a company and its contacts have the new owner and his department, though
\* an earlier change ended between the company and the contacts, and contacts
\* join the company meanwhile: but for one that joins after the contacts were
\* loaded by a form that had read the company before it was saved.
Together ==
    ch.at = "done" /\ ch.alone =>
        \A r \in Family(ch.of) : rows[r].owner = ch.owner /\ rows[r].dept = ch.dept

\* A form is lost only when a department has been copied, and its source with
\* it: sources of the same name in other departments do not matter.
LostByCopy ==
    \A f \in Forms : forms[f].at = "lost" =>
        /\ made \ {Home[u] : u \in Users} # {}
        /\ \E e, x \in DOMAIN entries :
             e # x /\ entries[e].key = forms[f].key /\ entries[x].key = forms[f].key

\* What a transfer, a copy and a change of owner leave, and that site forms
\* still find their department.
TransfersSound ==
    /\ TypeOK
    /\ Moved
    /\ CopyTakesAll
    /\ Together
    /\ LostByCopy

\* Though a transfer saves deals over what their owner has saved meanwhile, and
\* he saves forms that he opened before it, a deal has a stage and a reason for
\* closing of its own department, unless the transfer is at it, has ended at
\* it halfway, or a form of it was saved between the two statements of the
\* transfer.
AtDeal(r) == /\ tr.at \in {"load", "rows"} /\ Objects[tr.i].model = "deal"
             /\ rows[r].owner = tr.user /\ (tr.at = "rows" => r \in DOMAIN tr.left)
StagesFit ==
    \A r \in DOMAIN rows : rows[r].model = "deal" /\ r \notin crossed /\ ~AtDeal(r) =>
        \A k \in DOMAIN rows[r].fk :
            rows[r].fk[k] # 0 => entries[rows[r].fk[k]].dept = rows[r].dept
=============================================================================
