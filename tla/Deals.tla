-------------------------------- MODULE Deals --------------------------------
(***************************************************************************)
(* A deal from its request to its closing: the form of the sales managers  *)
(* and chiefs, the lead behind the deal, its payments and its shipment,    *)
(* and everything else that writes the same row: mails sent from the CRM,  *)
(* imported replies, memos, the telephone exchange, the request            *)
(* (crm/site/dealadmin.py, crm/site/shipmentadmin.py,                      *)
(* crm/site/crmemailadmin.py, crm/utils/send_email.py,                     *)
(* voip/views/voipwebhook.py, tasks/site/memoadmin.py).                    *)
(*                                                                         *)
(* A request of the admin site is a transaction that loads rows, then      *)
(* saves them; Model.save() updates every column of the row, or inserts    *)
(* it when it is gone, unless it is told the columns to update.  The       *)
(* request of the telephone exchange commits every statement by itself.    *)
(* A form posts what its page showed when it was opened, and a field has   *)
(* changed when it differs from the row loaded by the post.                *)
(*                                                                         *)
(* Entries of the workflow are numbered in the order they were committed.  *)
(* Not modelled: the form of the superusers, which edits every column,     *)
(* the other fields, files and tags.                                       *)
(***************************************************************************)
EXTENDS Integers, FiniteSets, Functions

CONSTANTS Managers,   \* sales managers: owners and co-owners of the deal
          Chiefs,     \* users that see all deals and change the next step
          Payments,   \* ids of payments (bound)
          MaxFlight,  \* bound: requests in progress at a time
          MaxPages,   \* bound: forms open at a time
          MaxOps      \* bound: requests

Exchange == "exchange"
Colleague == "colleague"   \* a storekeeper, or somebody who writes a memo
Nothing == "nothing"

ASSUME DealsAssumption ==
    /\ IsFiniteSet(Managers) /\ Cardinality(Managers) > 1 /\ IsFiniteSet(Chiefs)
    /\ {Exchange, Colleague} \cap (Managers \cup Chiefs) = {}
    /\ Managers \cap Chiefs = {}
    /\ MaxFlight \in Nat /\ MaxPages \in Nat /\ MaxOps \in Nat

VARIABLES
    deal,     \* the row of the deal
    lead,     \* the row of its lead
    pay,      \* its payments: the status, by id
    shipped,  \* the product of the deal has an actual shipping date
    mail,     \* a mail of the deal, and how often the mail server took it
    page,     \* the form each user has open
    tx,       \* the request each user and other has in progress
    written,  \* number of workflow entries ever committed
    ops       \* requests used, bounded by MaxOps

vars == <<deal, lead, pay, shipped, mail, page, tx, written, ops>>
-----------------------------------------------------------------------------
Users == Managers \cup Chiefs
Reasons == {"none", "lost", "won"}
Stages == {"request", "analysis", "payment", "shipment", "success"}
\* The first payment is a conditional success.
Success == {"payment", "success"}

\* The fields of the form, and those a user may change.
Values == [relevant |-> BOOLEAN, reason |-> Reasons, stage |-> Stages,
           amount |-> {0, 1}, step |-> {1, 2}, owner |-> Managers]
Fields(u) == IF u \in Chiefs THEN {"step"} ELSE DOMAIN Values

Expected == "expected"
Received == "received"
Claims(p) == {i \in DOMAIN p : p[i] # Received}

MayChange(u) == u \in Chiefs \/ u \in {deal.owner, deal.coowner}
Idle == [kind |-> Nothing]
\* g, where f says nothing else.
Over(f, g) == [x \in DOMAIN f \cup DOMAIN g |-> IF x \in DOMAIN f THEN f[x] ELSE g[x]]
Flying == {p \in DOMAIN tx : tx[p].kind # Nothing}
\* Saving the mail has locked its row until the request ends.
MailLocked == \E p \in Flying : tx[p].kind = "delivered"

Begin(p, t) == /\ tx[p] = Idle /\ Cardinality(Flying) < MaxFlight
               /\ ops < MaxOps /\ ops' = ops + 1
               /\ tx' = [tx EXCEPT ![p] = t]
End(p) == tx' = [tx EXCEPT ![p] = Idle]

Init ==
    /\ \E m \in Managers : \E c \in Managers \ {m} :
         /\ deal = [there |-> TRUE, lead |-> TRUE, relevant |-> TRUE,
                    active |-> TRUE, reason |-> "none", stage |-> "request",
                    amount |-> 0, closed |-> FALSE, won |-> FALSE,
                    last |-> "request", step |-> 1, owner |-> m,
                    coowner |-> c, new |-> TRUE, flow |-> {1}]
         /\ lead = [there |-> TRUE, owner |-> m, note |-> 0]
         /\ mail = [there |-> TRUE, owner |-> m, sent |-> FALSE, delivered |-> 0]
    /\ pay = <<>> /\ shipped = FALSE
    /\ page = [u \in Users |-> Idle]
    /\ tx = [p \in Users \cup {Exchange, Colleague} |-> Idle]
    /\ written = 1 /\ ops = 0
-----------------------------------------------------------------------------
(* The form of the deal. *)

Open(u, what, shown) ==
    /\ page[u] = Idle /\ Cardinality({v \in Users : page[v] # Idle}) < MaxPages
    /\ ops < MaxOps
    /\ page' = [page EXCEPT ![u] = [kind |-> what, shown |-> shown]]
    /\ UNCHANGED <<deal, lead, pay, shipped, mail, tx, written, ops>>
OpenDeal(u) == /\ deal.there /\ MayChange(u)
               /\ Open(u, "deal", Restrict(deal, Fields(u)))

Edit(form) == UNION {{[form EXCEPT ![f] = v] : v \in Values[f]} :
                     f \in DOMAIN form}
\* The user changes a field of the page, and the reason of closing if it has one.
Edits(form) == UNION {Edit(g) : g \in IF "reason" \notin DOMAIN form THEN {form}
                               ELSE {[form EXCEPT !.reason = r] : r \in Reasons}}

\* A deal closed with success needs an amount, if the form has these fields.
Clean(form) == "reason" \in DOMAIN form =>
                  ~(form.reason = "won" /\ form.amount = 0)

Changed(row, form) == {f \in DOMAIN form : form[f] # row[f]}
At(row, stage) == [row EXCEPT !.stage = stage, !.last = stage]
ReasonGiven(row, ch) ==
    IF "reason" \notin ch THEN row
    ELSE IF row.reason = "none"
         THEN [row EXCEPT !.active = TRUE, !.closed = FALSE]
         ELSE LET shut == [row EXCEPT !.active = FALSE, !.closed = TRUE]
              IN IF row.reason = "won"
                 THEN [At(shut, "success") EXCEPT !.won = TRUE] ELSE shut
StageMoved(row, ch) ==
    IF "stage" \notin ch THEN row
    ELSE [row EXCEPT !.last = row.stage, !.won = @ \/ row.stage \in Success]
Mutant_Dropped(row, ch) ==  \* without the date of closing
    IF "relevant" \in ch /\ ~row.relevant THEN [row EXCEPT !.active = FALSE] ELSE row
Dropped(row, ch) ==
    IF "relevant" \in ch /\ ~row.relevant
    THEN [row EXCEPT !.active = FALSE, !.closed = TRUE] ELSE row
SecondStage(row) == IF row.stage = "request"
                    THEN [row EXCEPT !.stage = "analysis"] ELSE row
Seen(row, u) == [row EXCEPT !.new = @ /\ row.owner # u]
\* What is made of the loaded row; an entry of a changed step comes on top.
SaveModel(u, row, form) ==
    LET ch == Changed(row, form)
    IN Seen(SecondStage(Dropped(StageMoved(ReasonGiven(
         Over(form, row), ch), ch), ch)), u)

\* With it go the payments entered in the form: SetPayment does the same
\* where the deal is not lost.  The lead is kept if it will be saved.
LoadPost(u) ==
    /\ page[u].kind = "deal" /\ deal.there /\ MayChange(u)
    /\ \E form \in Edits(page[u].shown), adds \in BOOLEAN :
         LET ch == Changed(deal, form)
         IN /\ Clean(form)
            /\ adds => "reason" \in ch /\ form.reason = "lost"
            /\ Begin(u, [kind |-> "post", row |-> SaveModel(u, deal, form),
                         ch |-> ch \cap {"step", "reason", "owner"},
                         lead |-> IF "owner" \in ch THEN lead ELSE Idle,
                         adds |-> adds])
    /\ page' = [page EXCEPT ![u] = Idle]
    /\ UNCHANGED <<deal, lead, pay, shipped, mail, written>>

\* The reason is removed while the deal is marked as not relevant: the
\* attribute of no reason is read, and the transaction is rolled back.
Raises(t) == "reason" \in t.ch /\ ~t.row.active /\ t.row.reason = "none"

\* Payments entered in the form, if there is a free id.
Added(t) == IF t.adds /\ Payments # DOMAIN pay
            THEN UNION {[{i} -> {Expected, Received}] : i \in Payments \ DOMAIN pay}
            ELSE {<<>>}
\* The payments of the form are saved first; a lost deal keeps the received.
PaymentsSaved(t, added) ==
    LET all == Over(added, pay)
    IN IF "reason" \in t.ch /\ t.row.reason = "lost"
       THEN Restrict(all, DOMAIN all \ Claims(all)) ELSE all

\* A new owner of the deal is given the lead too: the whole row as loaded.
LeadSaved(t) == IF "owner" \in t.ch /\ t.row.lead
                THEN [t.lead EXCEPT !.owner = t.row.owner] ELSE lead
\* The deal refers to a lead that is gone.
KeyRefused(t) == t.row.lead /\ ~LeadSaved(t).there

CommitPost(u) ==
    /\ tx[u].kind = "post" /\ End(u)
    /\ LET t == tx[u]  noted == "step" \in t.ch
       IN /\ ~Raises(t) /\ ~KeyRefused(t)
          /\ deal' = IF noted THEN [t.row EXCEPT !.flow = @ \cup {written + 1}]
                     ELSE t.row
          /\ lead' = LeadSaved(t)
          /\ \E added \in Added(t) : pay' = PaymentsSaved(t, added)
          /\ written' = IF noted THEN written + 1 ELSE written
    /\ UNCHANGED <<shipped, mail, page, ops>>

AbortPost(u) ==
    /\ tx[u].kind = "post" /\ End(u)
    /\ Raises(tx[u]) \/ KeyRefused(tx[u])
    /\ UNCHANGED <<deal, lead, pay, shipped, mail, page, written, ops>>
-----------------------------------------------------------------------------
(* Other columns and rows: payments, shipments, the lead, the request. *)

Use == ops < MaxOps /\ ops' = ops + 1

SetPayment(u, i, s) ==
    /\ deal.there /\ MayChange(u) /\ Use
    /\ pay' = Over([j \in {i} |-> s], pay)
    /\ UNCHANGED <<deal, lead, shipped, mail, page, tx, written>>
DeletePayment(u, i) ==
    /\ i \in DOMAIN pay /\ MayChange(u) /\ Use
    /\ pay' = Restrict(pay, DOMAIN pay \ {i})
    /\ UNCHANGED <<deal, lead, shipped, mail, page, tx, written>>

LoadShipment ==
    /\ deal.there /\ ~shipped /\ Begin(Colleague, [kind |-> "ship", row |-> deal])
    /\ UNCHANGED <<deal, lead, pay, shipped, mail, page, written>>
\* The whole deal is saved, and only if it is at another stage.
CommitShipment ==
    /\ tx[Colleague].kind = "ship" /\ End(Colleague)
    /\ LET row == tx[Colleague].row
       IN IF ~deal.there \/ (row.lead /\ ~lead.there)
          THEN UNCHANGED <<deal, shipped>>     \* a key is refused
          ELSE /\ shipped' = TRUE
               /\ deal' = IF row.stage = "shipment" THEN deal
                          ELSE [At(row, "shipment") EXCEPT !.step = 2]
    /\ UNCHANGED <<lead, pay, mail, page, written, ops>>

LoadLead(u) ==
    /\ lead.there /\ u = lead.owner /\ Begin(u, [kind |-> "lead", lead |-> lead])
    /\ UNCHANGED <<deal, lead, pay, shipped, mail, page, written>>
\* The form of the lead: a note, and the owner its page showed.
CommitLead(u) ==
    /\ tx[u].kind = "lead" /\ End(u)
    /\ lead' = [tx[u].lead EXCEPT !.note = 1]
    /\ UNCHANGED <<deal, pay, shipped, mail, page, written, ops>>

Gone == /\ deal' = [deal EXCEPT !.there = FALSE] /\ pay' = <<>>
        /\ shipped' = FALSE /\ mail' = [mail EXCEPT !.there = FALSE]
\* Deleting the deal, or the lead of a deal, deletes all that refers to it.
Delete(u) ==
    /\ deal.there /\ MayChange(u) /\ Use /\ ~MailLocked /\ Gone
    /\ UNCHANGED <<lead, page, tx, written>>
DeleteLead(u) ==
    /\ lead.there /\ u = lead.owner /\ Use /\ ~MailLocked
    /\ lead' = [lead EXCEPT !.there = FALSE]
    /\ IF deal.there /\ deal.lead THEN Gone ELSE UNCHANGED <<deal, pay, shipped, mail>>
    /\ UNCHANGED <<page, tx, written>>
\* The deal of a converted lead refers to the contact made of it.
ConvertLead(u) ==
    /\ lead.there /\ u = lead.owner /\ Use
    /\ lead' = [lead EXCEPT !.there = FALSE]
    /\ deal' = [deal EXCEPT !.lead = FALSE]
    /\ UNCHANGED <<pay, shipped, mail, page, tx, written>>

\* A change of the owner in the request of the deal: the one column.
RequestOwner(m) ==
    /\ deal.there /\ Use /\ deal' = [deal EXCEPT !.owner = m]
    /\ UNCHANGED <<lead, pay, shipped, mail, page, tx, written>>
-----------------------------------------------------------------------------
(* Entries of the workflow. *)

\* A form that refers to the deal, of a mail or a memo, loads it.
OpenMail(u) == /\ mail.there /\ ~mail.sent /\ u \in {mail.owner} \cup Chiefs
               /\ Open(u, "mail", FALSE)
LoadMail(u, send) ==
    /\ page[u].kind = "mail" /\ deal.there /\ mail.there
    /\ Begin(u, [kind |-> "mail", row |-> deal, sent |-> mail.sent, send |-> send])
    /\ page' = [page EXCEPT ![u] = Idle]
    /\ UNCHANGED <<deal, lead, pay, shipped, mail, written>>
\* The mail is saved as loaded; without the button Send that is all.
SaveMail(u) ==
    /\ tx[u].kind = "mail" /\ ~tx[u].send /\ ~MailLocked /\ End(u)
    /\ mail' = IF mail.there THEN [mail EXCEPT !.sent = tx[u].sent] ELSE mail
    /\ UNCHANGED <<deal, lead, pay, shipped, page, written, ops>>
\* The mail server takes the mail, or refuses it; the row is locked already.
Deliver(u) ==
    /\ tx[u].kind = "mail" /\ tx[u].send /\ ~MailLocked /\ mail.there
    /\ mail' = [mail EXCEPT !.delivered = @ + 1]
    /\ tx' = [tx EXCEPT ![u].kind = "delivered"]
    /\ UNCHANGED <<deal, lead, pay, shipped, page, written, ops>>
Refuse(u) ==
    /\ tx[u].kind = "mail" /\ tx[u].send /\ ~MailLocked /\ End(u)
    /\ mail' = IF mail.there THEN [mail EXCEPT !.sent = tx[u].sent] ELSE mail
    /\ UNCHANGED <<deal, lead, pay, shipped, page, written, ops>>

Mutant_Noted(p) ==  \* the entry replaces the text
    /\ deal' = [deal EXCEPT !.flow = {written + 1}] /\ written' = written + 1
\* The one column is updated, from the deal as loaded before.
Noted(p) == /\ deal' = [deal EXCEPT !.flow = tx[p].row.flow \cup {written + 1}]
            /\ written' = written + 1
CommitMail(u) ==
    /\ tx[u].kind = "delivered" /\ End(u)
    /\ Noted(u) /\ mail' = [mail EXCEPT !.sent = TRUE]
    /\ UNCHANGED <<lead, pay, shipped, page, ops>>

LoadMemo ==
    /\ deal.there /\ Begin(Colleague, [kind |-> "memo", row |-> deal])
    /\ UNCHANGED <<deal, lead, pay, shipped, mail, page, written>>
CommitMemo ==
    /\ tx[Colleague].kind = "memo" /\ End(Colleague)
    /\ IF deal.there THEN Noted(Colleague) ELSE UNCHANGED <<deal, written>>
    /\ UNCHANGED <<lead, pay, shipped, mail, page, ops>>

\* An imported reply is put in front by the database.
Reply ==
    /\ deal.there /\ Use
    /\ deal' = [deal EXCEPT !.flow = @ \cup {written + 1}]
    /\ written' = written + 1
    /\ UNCHANGED <<lead, pay, shipped, mail, page, tx>>

\* A call has ended: its lead is touched, then its active deal gets an entry.
LoadCall ==
    /\ lead.there
    /\ Begin(Exchange, [kind |-> "call", lead |-> lead, row |-> deal])
    /\ UNCHANGED <<deal, lead, pay, shipped, mail, page, written>>
TouchLead ==
    /\ tx[Exchange].kind = "call" /\ lead' = tx[Exchange].lead
    /\ LET row == tx[Exchange].row
       IN IF row.there /\ row.lead /\ row.active
          THEN tx' = [tx EXCEPT ![Exchange].kind = "touched"] ELSE End(Exchange)
    /\ UNCHANGED <<deal, pay, shipped, mail, page, written, ops>>
SaveCall ==
    /\ tx[Exchange].kind = "touched" /\ End(Exchange)
    /\ IF lead.there
       THEN /\ deal' = [tx[Exchange].row EXCEPT !.flow = @ \cup {written + 1}]
            /\ written' = written + 1
       ELSE UNCHANGED <<deal, written>>
    /\ UNCHANGED <<lead, pay, shipped, mail, page, ops>>
-----------------------------------------------------------------------------
Next ==
    \/ \E u \in Users :
         \/ OpenDeal(u) \/ OpenMail(u) \/ CommitPost(u) \/ AbortPost(u)
         \/ LoadPost(u)
         \/ \E i \in Payments, s \in {Expected, Received} : SetPayment(u, i, s)
         \/ \E i \in Payments : DeletePayment(u, i)
         \/ LoadLead(u) \/ CommitLead(u) \/ DeleteLead(u) \/ ConvertLead(u)
         \/ Delete(u)
         \/ \E send \in BOOLEAN : LoadMail(u, send)
         \/ SaveMail(u) \/ Deliver(u) \/ Refuse(u) \/ CommitMail(u)
    \/ \E m \in Managers : RequestOwner(m)
    \/ LoadShipment \/ CommitShipment \/ LoadMemo \/ CommitMemo
    \/ Reply \/ LoadCall \/ TouchLead \/ SaveCall

Spec == Init /\ [][Next]_vars
-----------------------------------------------------------------------------
(* Rows, pages and requests are what they should be. *)
Row == [there : BOOLEAN, lead : BOOLEAN, relevant : BOOLEAN, active : BOOLEAN,
        reason : Reasons, stage : Stages, amount : {0, 1}, closed : BOOLEAN,
        won : BOOLEAN, last : Stages, step : {1, 2}, owner : Managers,
        coowner : Managers, new : BOOLEAN, flow : SUBSET (1..MaxOps + 1)]
TypeOK ==
    /\ deal \in Row
    /\ lead \in [there : BOOLEAN, owner : Managers, note : {0, 1}]
    /\ DOMAIN pay \subseteq Payments
    /\ \A i \in DOMAIN pay : pay[i] \in {Expected, Received}
    /\ mail \in [there : BOOLEAN, owner : Managers, sent : BOOLEAN, delivered : 0..MaxOps]
    /\ \A u \in Users : page[u].kind \in {Nothing, "deal", "mail"}
    /\ \A p \in Flying : tx[p].kind # "lead" => tx[p].row \in Row
    /\ written \in 1..MaxOps + 1 /\ ops \in 0..MaxOps

(* Whoever saves the deal, from whatever old copy: a deal with a closing  *)
(* reason is not active, and a deal has a closing date exactly when it is *)
(* not active (crm/site/dealadmin.py:410-444).                            *)
ClosedRight == /\ deal.reason # "none" => ~deal.active
               /\ deal.closed <=> ~deal.active

(* A deal closed with success has an amount, and one that was closed with *)
(* success or reached a stage of success has the date of winning.         *)
WonRight == /\ deal.reason = "won" => deal.amount > 0 /\ deal.won
            /\ deal.stage \in Success => deal.won

(* The dates of the stages end with the stage of the deal; only the step  *)
(* from the default stage to the second is not noted.                     *)
StageLogged == \/ deal.last = deal.stage
               \/ /\ deal.last = "request"
                  /\ deal.stage = "analysis"

(* Only a mail the mail server has taken is in the mailbox of sent mails. *)
SentWasDelivered == mail.sent => mail.delivered > 0

\* Stage, closing reason, dates, amount and mails of a deal fit each other,
\* whoever saves the deal from whatever old copy.
DealSound ==
    /\ TypeOK
    /\ ClosedRight
    /\ WonRight
    /\ StageLogged
    /\ SentWasDelivered

(* An entry of the workflow is lost only when a request ends that loaded  *)
(* the deal before the entry was committed.                               *)
FlowKept == [][\A e \in deal.flow \ deal'.flow : \E p \in Flying :
                 /\ tx[p].kind # "lead" /\ e \notin tx[p].row.flow
                 /\ tx'[p] = Idle]_vars

(* A note in the lead is undone, or a lead that was deleted or converted  *)
(* inserted again, only by the form of the lead, by a call, or by a deal  *)
(* that gets another owner: never by any other post of a deal.            *)
LeadKept == [][lead'.note < lead.note \/ (lead'.there /\ ~lead.there) =>
                 \E p \in Flying :
                    \/ tx[p].kind \in {"lead", "call"}
                    \/ tx[p].kind = "post" /\ "owner" \in tx[p].ch]_vars

(* Closing a deal as lost leaves none of its payments that was not        *)
(* received, not even one entered in the same form; no post of a deal     *)
(* deletes a received payment (crm/site/dealadmin.py:470-480).            *)
PaymentsOfLost ==
    [][\A u \in Users : CommitPost(u) =>
         /\ DOMAIN pay \ Claims(pay) \subseteq DOMAIN pay' \ Claims(pay')
         /\ "reason" \in tx[u].ch /\ deal'.reason = "lost"
              => Claims(pay') = {}]_vars

\* A save of a deal undoes nothing but what came after the copy it was made
\* from, and deletes no payment but the claims of a lost deal.
DealKept ==
    /\ FlowKept
    /\ LeadKept
    /\ PaymentsOfLost
==============================================================================
