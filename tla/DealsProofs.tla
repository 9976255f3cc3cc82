----------------------------- MODULE DealsProofs -----------------------------
(* Theorems about deals, and about memos and projects, for any users,       *)
(* employees, ids and bounds.                                              *)
EXTENDS Deals, Memos, FiniteSetTheorems, TLAPS

Parties == Users \cup {Exchange, Colleague}
Lead == [there : BOOLEAN, owner : Managers, note : {0, 1}]

(* What a request holds.  The rows in it are copies, read at some time.  *)
Request == {Idle}
    \cup {t \in [kind : {"post"}, row : Row, ch : SUBSET DOMAIN Values,
                lead : Lead \cup {Idle}, adds : BOOLEAN] : "owner" \in t.ch => t.lead \in Lead}
    \cup [kind : {"ship", "memo"}, row : Row]
    \cup [kind : {"lead"}, lead : Lead]
    \cup [kind : {"mail", "delivered"}, row : Row, sent : BOOLEAN, send : BOOLEAN]
    \cup [kind : {"call", "touched"}, lead : Lead, row : Row]

(* A form of user u, as it is shown or as it is posted. *)
FormOf(u, form) == /\ DOMAIN form = Fields(u)
                   /\ \A f \in Fields(u) : form[f] \in Values[f]

Types ==
    /\ deal \in Row /\ lead \in Lead
    /\ DOMAIN pay \subseteq Payments
    /\ \A i \in DOMAIN pay : pay[i] \in {Expected, Received}
    /\ mail \in [there : BOOLEAN, owner : Managers, sent : BOOLEAN, delivered : Nat]
    /\ DOMAIN page = Users /\ DOMAIN tx = Parties
    /\ \A u \in Users : \/ page[u].kind \in {Nothing, "mail"}
                        \/ page[u].kind = "deal" /\ FormOf(u, page[u].shown)
    /\ \A p \in Parties : tx[p] \in Request
    /\ written \in Nat \ {0} /\ ops \in Nat

(* The properties of a deal are those of any copy of it. *)
Right(row) ==
    /\ row.reason # "none" => ~row.active
    /\ row.closed <=> ~row.active
    /\ row.reason = "won" => row.amount > 0 /\ row.won
    /\ row.stage \in Success => row.won
    /\ row.last = row.stage \/ (row.last = "request" /\ row.stage = "analysis")
Copies == /\ Right(deal)
          /\ \A p \in Flying : tx[p].kind # "lead" => Right(tx[p].row)

(* A mail is marked as sent only after the server took it, whatever copy  *)
(* of it a request writes back.                                           *)
Taken == /\ mail.sent => mail.delivered > 0
         /\ \A p \in Flying : tx[p].kind = "mail" /\ tx[p].sent => mail.delivered > 0
         /\ \A p \in Flying : tx[p].kind = "delivered" => mail.delivered > 0

(* An entry or a delivery is owed to a request that was counted. *)
Sending == {p \in DOMAIN tx : tx[p].kind = "mail"}
Counted == /\ written + Cardinality(Flying) <= ops + 1
           /\ mail.delivered + Cardinality(Sending) <= ops
           /\ ops <= MaxOps

Inv == Types /\ Copies /\ Taken /\ Counted
------------------------------------------------------------------------------
(* Edits of a form give a form. *)
LEMMA EditsGiveForms ==
    ASSUME NEW u \in Users, NEW shown, FormOf(u, shown), NEW form \in Edits(shown)
    PROVE  FormOf(u, form)
<1> DEFINE R(r) == [shown EXCEPT !.reason = r]
<1>1. Fields(u) \subseteq DOMAIN Values
  BY DEF Fields, Values
<1>2. PICK g : /\ form \in Edit(g)
               /\ \/ "reason" \notin DOMAIN shown /\ g = shown
                  \/ "reason" \in DOMAIN shown /\ \E r \in Reasons : g = R(r)
  BY DEF Edits
<1>3. FormOf(u, g)
  <2>1. CASE "reason" \notin DOMAIN shown /\ g = shown
    BY <2>1
  <2>2. CASE "reason" \in DOMAIN shown /\ \E r \in Reasons : g = R(r)
    <3>1. PICK r \in Reasons : g = R(r)
      BY <2>2
    <3>2. "reason" \in Fields(u) /\ Values["reason"] = Reasons
      BY <2>2 DEF FormOf, Values
    <3> QED BY <3>1, <3>2 DEF FormOf
  <2> QED BY <1>2, <2>1, <2>2
<1>4. PICK f \in DOMAIN g : \E v \in Values[f] : form = [g EXCEPT ![f] = v]
  BY <1>2 DEF Edit
<1> QED BY <1>3, <1>4 DEF FormOf

(* What a form makes of a sound copy of the deal is a sound copy. *)
LEMMA PostIsRight ==
    ASSUME NEW u \in Users, NEW row \in Row, Right(row),
           NEW form, FormOf(u, form), Clean(form)
    PROVE  SaveModel(u, row, form) \in Row /\ Right(SaveModel(u, row, form))
<1> DEFINE ch == Changed(row, form)
           r0 == Over(form, row)
           r1 == ReasonGiven(r0, ch)
           r2 == StageMoved(r1, ch)
           r3 == Dropped(r2, ch)
           r4 == SecondStage(r3)
<1>1. /\ r0 \in Row
      /\ \A f \in {"there", "lead", "active", "closed", "won", "last", "coowner", "new", "flow"} :
            r0[f] = row[f]
      /\ \A f \in {"relevant", "reason", "stage", "amount", "step", "owner"} :
            r0[f] = row[f] \/ (f \in ch /\ r0[f] = form[f])
      /\ "reason" \notin ch => r0.reason = row.reason
      /\ "stage" \notin ch => r0.stage = row.stage
      /\ r0.reason = "won" => r0.amount > 0
  <2>1. CASE u \in Chiefs
    <3>1. DOMAIN form = {"step"} /\ form["step"] \in {1, 2}
      BY <2>1 DEF FormOf, Fields, Values
    <3>2. \A f \in DOMAIN row : r0[f] = IF f = "step" THEN form["step"] ELSE row[f]
      BY <3>1 DEF Over
    <3>3. r0 = [row EXCEPT !.step = form["step"]]
      BY <3>1 DEF Over, Row
    <3> QED BY <3>1, <3>3 DEF Row, Right, Changed
  <2>2. CASE u \notin Chiefs
    <3>1. DOMAIN form = {"relevant", "reason", "stage", "amount", "step", "owner"}
      BY <2>2 DEF FormOf, Fields, Values
    <3>2. /\ form["relevant"] \in BOOLEAN /\ form["reason"] \in Reasons
          /\ form["stage"] \in Stages /\ form["amount"] \in {0, 1}
          /\ form["step"] \in {1, 2} /\ form["owner"] \in Managers
      BY <3>1 DEF FormOf, Values
    <3>3. r0 = [row EXCEPT !.relevant = form["relevant"], !.reason = form["reason"],
                           !.stage = form["stage"], !.amount = form["amount"],
                           !.step = form["step"], !.owner = form["owner"]]
      BY <3>1 DEF Over, Row
    <3>4. form["reason"] = "won" => form["amount"] > 0
      BY <3>1, <3>2 DEF Clean
    <3>5. r0 \in Row
      BY <3>2, <3>3 DEF Row
    <3> QED BY <3>1, <3>3, <3>4, <3>5 DEF Row, Changed
  <2> QED BY <2>1, <2>2
<1> HIDE DEF ch, r0
<1>2. /\ r1 \in Row
      /\ r1.reason # "none" => ~r1.active
      /\ r1.closed <=> ~r1.active
      /\ r1.reason = "won" => r1.amount > 0 /\ r1.won
      /\ "stage" \notin ch => (r1.stage \in Success => r1.won)
      /\ "stage" \notin ch => (r1.last = r1.stage \/ (r1.last = "request" /\ r1.stage = "analysis"))
  <2>1. CASE "reason" \notin ch
    BY <1>1, <2>1 DEF ReasonGiven, Right, Row
  <2>2. CASE "reason" \in ch /\ r0.reason = "none"
    BY <1>1, <2>2 DEF ReasonGiven, Right, Row
  <2>3. CASE "reason" \in ch /\ r0.reason = "lost"
    BY <1>1, <2>3 DEF ReasonGiven, Right, Row
  <2>4. CASE "reason" \in ch /\ r0.reason = "won"
    <3>1. r1 = [r0 EXCEPT !.active = FALSE, !.closed = TRUE, !.stage = "success",
                          !.last = "success", !.won = TRUE]
      BY <2>4 DEF ReasonGiven, At
    <3>2. r1 \in Row
      BY <1>1, <3>1 DEF Row, Stages
    <3>3. /\ r1.active = FALSE /\ r1.closed = TRUE /\ r1.won = TRUE /\ r1.last = r1.stage
          /\ r1.amount = r0.amount
      BY <1>1, <3>1 DEF Row
    <3> QED BY <1>1, <2>4, <3>2, <3>3
  <2>5. r0.reason \in Reasons
    BY <1>1 DEF Row
  <2> QED BY <2>1, <2>2, <2>3, <2>4, <2>5 DEF Reasons
<1> HIDE DEF r1
<1>3. r2 \in Row /\ Right(r2)
  <2>1. CASE "stage" \in ch
    BY <1>2, <2>1 DEF StageMoved, Right, Row
  <2>2. CASE "stage" \notin ch
    BY <1>2, <2>2 DEF StageMoved, Right
  <2> QED BY <2>1, <2>2
<1> HIDE DEF r2
<1>4. r3 \in Row /\ Right(r3)
  <2>1. CASE r3 = r2
    BY <1>3, <2>1
  <2>2. CASE r3 = [r2 EXCEPT !.active = FALSE, !.closed = TRUE]
    <3>1. r3 \in Row
      BY <1>3, <2>2 DEF Row
    <3>2. Right(r3)
      BY <1>3, <2>2 DEF Right, Row
    <3> QED BY <3>1, <3>2
  <2> QED BY <2>1, <2>2 DEF Dropped
<1> HIDE DEF r3
<1>5. r4 \in Row /\ Right(r4)
  <2>1. CASE r3.stage = "request"
    <3>1. r4 = [r3 EXCEPT !.stage = "analysis"]
      BY <2>1 DEF SecondStage
    <3>2. r4 \in Row
      BY <1>4, <3>1 DEF Row, Stages
    <3>3. Right(r4)
      BY <1>4, <2>1, <3>1 DEF Right, Row, Success
    <3> QED BY <3>2, <3>3
  <2>2. CASE r3.stage # "request"
    BY <1>4, <2>2 DEF SecondStage
  <2> QED BY <2>1, <2>2
<1> HIDE DEF r4
<1>6. Seen(r4, u) \in Row /\ Right(Seen(r4, u))
  BY <1>5 DEF Seen, Right, Row
<1> QED BY <1>6 DEF SaveModel, r0, r1, r2, r3, r4, ch
------------------------------------------------------------------------------
LEMMA PartiesFinite == IsFiniteSet(Parties)
<1>1. IsFiniteSet(Users)
  BY FS_Union, DealsAssumption DEF Users
<1>2. IsFiniteSet({Exchange}) /\ IsFiniteSet({Exchange} \cup {Colleague})
  BY FS_EmptySet, FS_Singleton, FS_AddElement
<1> QED BY <1>1, <1>2, FS_Union DEF Parties

LEMMA FlyingFinite ==
    Types => /\ IsFiniteSet(Flying) /\ IsFiniteSet(Sending) /\ Flying \subseteq Parties
             /\ Cardinality(Flying) \in Nat /\ Cardinality(Sending) \in Nat
<1> SUFFICES ASSUME Types PROVE /\ IsFiniteSet(Flying) /\ IsFiniteSet(Sending)
                                /\ Flying \subseteq Parties
  BY FS_CardinalityType
<1>1. Flying \subseteq Parties /\ Sending \subseteq Parties
  BY DEF Types, Flying, Sending
<1> QED BY <1>1, PartiesFinite, FS_Subset

(* A request begins: one more is in progress. *)
LEMMA Begins ==
    ASSUME Types, Counted, NEW p \in Parties, NEW t \in Request, t.kind # Nothing, Begin(p, t)
    PROVE  /\ written' = written /\ mail' = mail => Counted'
           /\ DOMAIN tx' = Parties /\ \A q \in Parties : tx'[q] \in Request
           /\ \A q \in Parties : tx'[q] = IF q = p THEN t ELSE tx[q]
           /\ Flying' = Flying \cup {p}
           /\ ops' \in Nat
<1>1. /\ DOMAIN tx' = Parties
      /\ \A q \in Parties : tx'[q] = IF q = p THEN t ELSE tx[q]
      /\ ops < MaxOps /\ ops' = ops + 1 /\ ops \in Nat /\ tx[p] = Idle
  BY DEF Begin, Types
<1>2. Flying' = Flying \cup {p} /\ p \notin Flying
  BY <1>1 DEF Flying, Idle, Types
<1>3. Sending' = Sending \cup {p} \/ Sending' = Sending
  <2>1. \A q \in Parties : q # p => (q \in Sending' <=> q \in Sending)
    BY <1>1 DEF Sending, Types
  <2>2. Sending \subseteq Parties /\ Sending' \subseteq Parties /\ p \notin Sending
    BY <1>1 DEF Sending, Types, Idle, Nothing
  <2> QED BY <2>1, <2>2
<1>4. Cardinality(Flying') = Cardinality(Flying) + 1
  BY <1>2, FlyingFinite, FS_AddElement
<1>5. Cardinality(Sending') <= Cardinality(Sending) + 1 /\ Cardinality(Sending') \in Nat
  <2>1. CASE Sending' = Sending
    BY <2>1, FlyingFinite
  <2>2. CASE Sending' = Sending \cup {p}
    <3>1. Cardinality(Sending') = IF p \in Sending THEN Cardinality(Sending)
                                  ELSE Cardinality(Sending) + 1
      BY <2>2, FlyingFinite, FS_AddElement
    <3> QED BY <3>1, FlyingFinite
  <2> QED BY <1>3, <2>1, <2>2
<1>6. Cardinality(Flying) \in Nat /\ Cardinality(Sending) \in Nat
  BY FlyingFinite
<1>7. written' = written /\ mail' = mail => Counted'
  <2> SUFFICES ASSUME written' = written, mail' = mail PROVE Counted'
    OBVIOUS
  <2>1. written \in Nat /\ mail.delivered \in Nat /\ MaxOps \in Nat
    BY DealsAssumption DEF Types
  <2> QED BY <1>1, <1>4, <1>5, <1>6, <2>1 DEF Counted
<1> QED BY <1>1, <1>2, <1>7 DEF Types

(* A request ends: what it was counted for may be written. *)
LEMMA Ends ==
    ASSUME Types, Counted, NEW p \in Flying, End(p)
    PROVE  /\ DOMAIN tx' = Parties /\ \A q \in Parties : tx'[q] \in Request
           /\ \A q \in Parties : tx'[q] = IF q = p THEN Idle ELSE tx[q]
           /\ Flying' = Flying \ {p}
           /\ written' \in {written, written + 1} /\ ops' = ops
              /\ mail'.delivered = mail.delivered => Counted'
           /\ written + 1 <= MaxOps + 1
<1>1. /\ DOMAIN tx' = Parties
      /\ \A q \in Parties : tx'[q] = IF q = p THEN Idle ELSE tx[q]
  BY DEF End, Types
<1>2. Flying' = Flying \ {p}
  BY <1>1 DEF Flying, Idle, Types
<1>3. Sending' \subseteq Sending
  BY <1>1 DEF Sending, Types, Idle, Nothing
<1>4. Cardinality(Flying') = Cardinality(Flying) - 1 /\ Cardinality(Flying') \in Nat
  BY <1>2, FlyingFinite, FS_RemoveElement, FS_CardinalityType
<1>5. Cardinality(Sending') <= Cardinality(Sending) /\ Cardinality(Sending') \in Nat
  BY <1>3, FlyingFinite, FS_Subset, FS_CardinalityType
<1>6. Cardinality(Flying) \in Nat /\ Cardinality(Sending) \in Nat
  BY FlyingFinite
<1>7. written \in Nat /\ mail.delivered \in Nat /\ MaxOps \in Nat /\ ops \in Nat
  BY DealsAssumption DEF Types
<1>8. written' \in {written, written + 1} /\ ops' = ops
      /\ mail'.delivered = mail.delivered => Counted'
  BY <1>4, <1>5, <1>6, <1>7 DEF Counted
<1>9. written + 1 <= MaxOps + 1
  BY <1>4, <1>6, <1>7 DEF Counted
<1>10. \A q \in Parties : tx'[q] \in Request
  BY <1>1 DEF Types, Request
<1> QED BY <1>1, <1>2, <1>8, <1>9, <1>10

(* A request goes on under another kind: nobody begins or ends. *)
LEMMA GoesOn ==
    ASSUME Types, NEW p \in Flying, NEW t \in Request, t.kind \notin {Nothing, "mail"},
           tx' = [tx EXCEPT ![p] = t]
    PROVE  /\ DOMAIN tx' = Parties /\ \A q \in Parties : tx'[q] \in Request
           /\ \A q \in Parties : tx'[q] = IF q = p THEN t ELSE tx[q]
           /\ Flying' = Flying /\ Sending' = Sending \ {p}
<1>1. /\ DOMAIN tx' = Parties /\ p \in Parties
      /\ \A q \in Parties : tx'[q] = IF q = p THEN t ELSE tx[q]
  BY DEF Types, Flying
<1>2. tx'[p].kind = t.kind
  BY <1>1
<1>3. \A q \in Parties : tx'[q] \in Request
  BY <1>1 DEF Types
<1>4. Flying' = Flying
  BY <1>1, <1>2 DEF Flying, Types
<1>5. Sending' = Sending \ {p}
  BY <1>1, <1>2 DEF Sending, Types
<1> QED BY <1>1, <1>3, <1>4, <1>5
------------------------------------------------------------------------------
(* The rows and pages of a state. *)
Mail == [there : BOOLEAN, owner : Managers, sent : BOOLEAN, delivered : Nat]
Pays == DOMAIN pay \subseteq Payments /\ \A i \in DOMAIN pay : pay[i] \in {Expected, Received}
Pages == /\ DOMAIN page = Users
         /\ \A u \in Users : \/ page[u].kind \in {Nothing, "mail"}
                             \/ page[u].kind = "deal" /\ FormOf(u, page[u].shown)

(* A step in which a request begins keeps the invariant. *)
LEMMA BeginKeeps ==
    ASSUME Inv, NEW p \in Parties, NEW t \in Request, t.kind \notin {Nothing, "delivered"},
           Begin(p, t), UNCHANGED <<deal, lead, pay, mail, written>>, Pages',
           t.kind # "lead" => Right(t.row),
           t.kind = "mail" /\ t.sent => mail.delivered > 0
    PROVE  Inv'
<1>1. /\ written' = written /\ mail' = mail => Counted'
      /\ DOMAIN tx' = Parties /\ \A q \in Parties : tx'[q] \in Request
      /\ \A q \in Parties : tx'[q] = IF q = p THEN t ELSE tx[q]
      /\ Flying' = Flying \cup {p} /\ ops' \in Nat
  BY Begins DEF Inv
<1>2. Counted' /\ Types'
  BY <1>1 DEF Inv, Types, Pages
<1>3. Flying \subseteq Parties
  BY FlyingFinite DEF Inv
<1>4. Copies'
  BY <1>1, <1>3 DEF Inv, Copies
<1>5. Taken'
  BY <1>1, <1>3 DEF Inv, Taken
<1> QED BY <1>2, <1>4, <1>5 DEF Inv

(* A step in which a request ends keeps it if the rows stay sound. *)
LEMMA EndKeeps ==
    ASSUME Inv, NEW p \in Flying, End(p), UNCHANGED <<page, ops>>,
           deal' \in Row, Right(deal'), lead' \in Lead, Pays',
           mail' \in Mail, mail'.delivered = mail.delivered,
           mail'.sent => mail.delivered > 0, written' \in {written, written + 1}
    PROVE  Inv'
<1>1. /\ DOMAIN tx' = Parties /\ \A q \in Parties : tx'[q] \in Request
      /\ \A q \in Parties : tx'[q] = IF q = p THEN Idle ELSE tx[q]
      /\ Flying' = Flying \ {p} /\ Counted'
  BY Ends DEF Inv
<1>2. written' \in Nat \ {0} /\ ops' \in Nat
  BY DEF Inv, Types
<1>3. Types'
  BY <1>1, <1>2 DEF Inv, Types, Pays, Mail
<1>4. Flying \subseteq Parties
  BY FlyingFinite DEF Inv
<1>5. Copies'
  BY <1>1, <1>4 DEF Inv, Copies
<1>6. Taken'
  BY <1>1, <1>4 DEF Inv, Taken
<1> QED BY <1>1, <1>3, <1>5, <1>6 DEF Inv

(* So does a step that leaves the requests alone. *)
LEMMA OtherKeeps ==
    ASSUME Inv, UNCHANGED tx, Pages',
           deal' \in Row, Right(deal'), lead' \in Lead, Pays',
           mail' \in Mail, mail'.delivered = mail.delivered, mail'.sent = mail.sent,
           \/ written' = written /\ ops' = ops
           \/ written' \in {written, written + 1} /\ Use
    PROVE  Inv'
<1>1. Flying' = Flying /\ Sending' = Sending
  BY DEF Flying, Sending
<1>2. written \in Nat /\ ops \in Nat /\ mail.delivered \in Nat /\ MaxOps \in Nat
  BY DealsAssumption DEF Inv, Types
<1>3. Types'
  BY <1>2 DEF Inv, Types, Pays, Mail, Pages, Use
<1>4. Cardinality(Flying) \in Nat /\ Cardinality(Sending) \in Nat
  BY FlyingFinite DEF Inv
<1>5. Counted'
  BY <1>1, <1>2, <1>4 DEF Inv, Counted, Use
<1>6. Copies'
  BY <1>1 DEF Inv, Copies
<1>7. Taken'
  BY <1>1 DEF Inv, Taken
<1> QED BY <1>3, <1>5, <1>6, <1>7 DEF Inv

(* The parts of the invariant as the steps use them. *)
LEMMA Parts ==
    ASSUME Inv
    PROVE  /\ deal \in Row /\ Right(deal) /\ lead \in Lead /\ Pays /\ Pages /\ mail \in Mail
           /\ mail.sent => mail.delivered > 0
           /\ Users \subseteq Parties /\ {Exchange, Colleague} \subseteq Parties
           /\ Managers \subseteq Users
           /\ \A p \in Parties : tx[p].kind # Nothing => p \in Flying
           /\ \A p \in Flying : p \in Parties /\ tx[p] \in Request
           /\ written + 1 \in Nat /\ MaxOps \in Nat
BY DealsAssumption DEF Inv, Types, Copies, Taken, Pays, Pages, Mail, Parties, Users, Flying

(* A new entry is within the bound. *)
LEMMA EntryFits ==
    ASSUME Inv, Flying # {} \/ ops < MaxOps, NEW row \in Row, Right(row), NEW copy \in Row,
           NEW new, new = [row EXCEPT !.flow = copy.flow \cup {written + 1}]
    PROVE  new \in Row /\ Right(new)
<1>1. written + 1 \in 1..MaxOps + 1
  <2>1. written \in Nat /\ ops \in Nat /\ MaxOps \in Nat
    BY DealsAssumption DEF Inv, Types
  <2>2. Cardinality(Flying) \in Nat /\ (Flying # {} => Cardinality(Flying) # 0)
    BY FlyingFinite, FS_EmptySet DEF Inv
  <2> QED BY <2>1, <2>2 DEF Inv, Counted
<1>2. copy.flow \cup {written + 1} \in SUBSET (1..MaxOps + 1)
  BY <1>1 DEF Row
<1>3. new \in Row
  BY <1>2 DEF Row
<1>4. Right(new)
  BY DEF Right, Row
<1> QED BY <1>3, <1>4
(* What a request in progress holds. *)
LEMMA Holds ==
    ASSUME Inv, NEW p \in Parties, tx[p].kind # Nothing
    PROVE  /\ p \in Flying
           /\ tx[p].kind # "lead" => tx[p].row \in Row /\ Right(tx[p].row)
           /\ tx[p].kind = "post" /\ "owner" \in tx[p].ch => tx[p].lead \in Lead
           /\ tx[p].kind \in {"lead", "call", "touched"} => tx[p].lead \in Lead
           /\ tx[p].kind \in {"mail", "delivered"} =>
                 tx[p].sent \in BOOLEAN /\ tx[p].send \in BOOLEAN
           /\ tx[p].kind = "mail" /\ tx[p].sent => mail.delivered > 0
           /\ tx[p].kind = "delivered" => mail.delivered > 0
<1>1. p \in Flying /\ tx[p] \in Request
  BY DEF Inv, Types, Flying
<1>2. tx[p].kind # "lead" => tx[p].row \in Row
  BY <1>1 DEF Request, Idle, Nothing
<1>3. /\ tx[p].kind = "post" /\ "owner" \in tx[p].ch => tx[p].lead \in Lead
      /\ tx[p].kind \in {"lead", "call", "touched"} => tx[p].lead \in Lead
      /\ tx[p].kind \in {"mail", "delivered"} => tx[p].sent \in BOOLEAN /\ tx[p].send \in BOOLEAN
  BY <1>1 DEF Request, Idle, Nothing
<1> QED BY <1>1, <1>2, <1>3 DEF Inv, Copies, Taken
------------------------------------------------------------------------------
(* Pages. *)
LEMMA OpenKeeps ==
    ASSUME Inv, NEW u \in Users, OpenDeal(u) \/ OpenMail(u)
    PROVE  Inv'
<1>1. Pages'
  <2>1. CASE OpenDeal(u)
    <3> DEFINE shown == Restrict(deal, Fields(u))
    <3>1. page' = [page EXCEPT ![u] = [kind |-> "deal", shown |-> shown]]
      BY <2>1 DEF OpenDeal, Open
    <3>2. deal \in Row
      BY Parts
    <3>3. DOMAIN shown = Fields(u) /\ \A f \in Fields(u) : shown[f] = deal[f]
      BY DEF Restrict
    <3>4. \A f \in Fields(u) : deal[f] \in Values[f]
      BY <3>2 DEF Row, Fields, Values
    <3>5. FormOf(u, shown)
      BY <3>3, <3>4 DEF FormOf
    <3> HIDE DEF shown
    <3> QED BY <3>1, <3>5, Parts DEF Pages, FormOf
  <2>2. CASE OpenMail(u)
    <3>1. page' = [page EXCEPT ![u] = [kind |-> "mail", shown |-> FALSE]]
      BY <2>2 DEF OpenMail, Open
    <3> QED BY <3>1, Parts DEF Pages, FormOf
  <2> QED BY <2>1, <2>2
<1>2. UNCHANGED <<deal, lead, pay, shipped, mail, tx, written, ops>>
  BY DEF OpenDeal, OpenMail, Open
<1>3. deal' \in Row /\ Right(deal') /\ lead' \in Lead /\ Pays' /\ mail' \in Mail
  BY <1>2, Parts DEF Pays
<1> QED BY <1>1, <1>2, <1>3, OtherKeeps

(* Closing a page leaves the others. *)
LEMMA PageCloses ==
    ASSUME Pages, NEW u \in Users, page' = [page EXCEPT ![u] = Idle] PROVE Pages'
BY DEF Pages, FormOf, Idle

LEMMA LoadPostKeeps ==
    ASSUME Inv, NEW u \in Users, LoadPost(u) PROVE Inv'
<1> DEFINE Posting(form, adds) ==
             LET ch == Changed(deal, form)
             IN  [kind |-> "post", row |-> SaveModel(u, deal, form),
                  ch |-> ch \cap {"step", "reason", "owner"},
                  lead |-> IF "owner" \in ch THEN lead ELSE Idle, adds |-> adds]
<1>1. PICK form \in Edits(page[u].shown), adds \in BOOLEAN :
         Clean(form) /\ Begin(u, Posting(form, adds))
  BY DEF LoadPost
<1>2. FormOf(u, page[u].shown)
  BY Parts DEF LoadPost, Pages, Nothing
<1>3. FormOf(u, form)
  BY <1>1, <1>2, EditsGiveForms
<1>4. SaveModel(u, deal, form) \in Row /\ Right(SaveModel(u, deal, form))
  BY <1>1, <1>3, PostIsRight, Parts
<1>5. Posting(form, adds) \in Request
  <2>1. Changed(deal, form) \cap {"step", "reason", "owner"} \subseteq DOMAIN Values
    BY DEF Values
  <2>2. lead \in Lead
    BY Parts
  <2> QED BY <1>1, <1>4, <2>1, <2>2 DEF Request
<1>6. Pages' /\ UNCHANGED <<deal, lead, pay, mail, written>>
  BY PageCloses, Parts DEF LoadPost
<1>7. Posting(form, adds).kind = "post" /\ Posting(form, adds).row = SaveModel(u, deal, form)
  OBVIOUS
<1>8. u \in Parties
  BY Parts
<1> HIDE DEF Posting
<1> QED BY <1>1, <1>4, <1>5, <1>6, <1>7, <1>8, BeginKeeps DEF Nothing

(* The other requests that begin. *)
LEMMA LoadsKeep ==
    ASSUME Inv,
           \/ LoadShipment \/ LoadMemo \/ LoadCall
           \/ \E u \in Users : LoadLead(u) \/ \E send \in BOOLEAN : LoadMail(u, send)
    PROVE  Inv'
<1> USE DEF Request, Nothing
<1>1. /\ deal \in Row /\ Right(deal) /\ lead \in Lead /\ mail.sent \in BOOLEAN
      /\ Users \subseteq Parties /\ Exchange \in Parties /\ Colleague \in Parties
      /\ mail.sent => mail.delivered > 0
  BY Parts DEF Mail
<1>2. UNCHANGED page => Pages'
  BY Parts DEF Pages, FormOf
<1>3. CASE LoadShipment
  <2> DEFINE t == [kind |-> "ship", row |-> deal]
  <2>1. t \in Request /\ t.kind = "ship" /\ t.row = deal /\ Begin(Colleague, t)
        /\ UNCHANGED <<deal, lead, pay, mail, written, page>>
    BY <1>1, <1>3 DEF LoadShipment
  <2> HIDE DEF t
  <2> QED BY <1>1, <1>2, <2>1, BeginKeeps
<1>4. CASE LoadMemo
  <2> DEFINE t == [kind |-> "memo", row |-> deal]
  <2>1. t \in Request /\ t.kind = "memo" /\ t.row = deal /\ Begin(Colleague, t)
        /\ UNCHANGED <<deal, lead, pay, mail, written, page>>
    BY <1>1, <1>4 DEF LoadMemo
  <2> HIDE DEF t
  <2> QED BY <1>1, <1>2, <2>1, BeginKeeps
<1>5. CASE LoadCall
  <2> DEFINE t == [kind |-> "call", lead |-> lead, row |-> deal]
  <2>1. t \in Request /\ t.kind = "call" /\ t.row = deal /\ Begin(Exchange, t)
        /\ UNCHANGED <<deal, lead, pay, mail, written, page>>
    BY <1>1, <1>5 DEF LoadCall
  <2> HIDE DEF t
  <2> QED BY <1>1, <1>2, <2>1, BeginKeeps
<1>6. ASSUME NEW u \in Users, LoadLead(u) PROVE Inv'
  <2> DEFINE t == [kind |-> "lead", lead |-> lead]
  <2>1. t \in Request /\ t.kind = "lead" /\ Begin(u, t)
        /\ UNCHANGED <<deal, lead, pay, mail, written, page>>
    BY <1>1, <1>6 DEF LoadLead
  <2> HIDE DEF t
  <2> QED BY <1>1, <1>2, <2>1, BeginKeeps
<1>7. ASSUME NEW u \in Users, NEW send \in BOOLEAN, LoadMail(u, send) PROVE Inv'
  <2> DEFINE t == [kind |-> "mail", row |-> deal, sent |-> mail.sent, send |-> send]
  <2>1. t \in Request /\ t.kind = "mail" /\ t.row = deal /\ t.sent = mail.sent /\ Begin(u, t)
        /\ UNCHANGED <<deal, lead, pay, mail, written>>
    BY <1>1, <1>7 DEF LoadMail
  <2>2. Pages'
    BY <1>7, PageCloses, Parts DEF LoadMail
  <2> HIDE DEF t
  <2> QED BY <1>1, <2>1, <2>2, BeginKeeps
<1> QED BY <1>3, <1>4, <1>5, <1>6, <1>7
------------------------------------------------------------------------------
(* The payments of a form that is saved. *)
LEMMA PaymentsAreRight ==
    ASSUME Pays, NEW t, NEW added \in Added(t), NEW all, all = PaymentsSaved(t, added)
    PROVE  /\ DOMAIN all \subseteq Payments
           /\ \A i \in DOMAIN all : all[i] \in {Expected, Received}
           /\ DOMAIN pay \ Claims(pay) \subseteq DOMAIN all \ Claims(all)
           /\ "reason" \in t.ch /\ t.row.reason = "lost" => Claims(all) = {}
<1> DEFINE both == Over(added, pay)
<1>1. /\ DOMAIN added \subseteq Payments \ DOMAIN pay
      /\ \A i \in DOMAIN added : added[i] \in {Expected, Received}
  <2>1. CASE added = <<>>
    BY <2>1
  <2>2. CASE added # <<>>
    <3>1. PICK i \in Payments \ DOMAIN pay : added \in [{i} -> {Expected, Received}]
      BY <2>2 DEF Added
    <3> QED BY <3>1
  <2> QED BY <2>1, <2>2
<1>2. /\ DOMAIN both = DOMAIN added \cup DOMAIN pay
      /\ \A i \in DOMAIN added : both[i] = added[i]
      /\ \A i \in DOMAIN pay : both[i] = pay[i]
  BY <1>1 DEF Over
<1>3. /\ DOMAIN both \subseteq Payments
      /\ \A i \in DOMAIN both : both[i] \in {Expected, Received}
      /\ DOMAIN pay \ Claims(pay) \subseteq DOMAIN both \ Claims(both)
  BY <1>1, <1>2 DEF Pays, Claims
<1> HIDE DEF both
<1>4. CASE "reason" \in t.ch /\ t.row.reason = "lost"
  <2>1. all = Restrict(both, DOMAIN both \ Claims(both))
    BY <1>4 DEF PaymentsSaved, both
  <2>2. /\ DOMAIN all = DOMAIN both \ Claims(both)
        /\ \A i \in DOMAIN all : all[i] = both[i]
    BY <2>1 DEF Restrict
  <2> QED BY <1>3, <2>2 DEF Claims
<1>5. CASE ~("reason" \in t.ch /\ t.row.reason = "lost")
  <2>1. all = both
    BY <1>5 DEF PaymentsSaved, both
  <2> QED BY <1>3, <1>5, <2>1
<1> QED BY <1>4, <1>5

LEMMA CommitPostKeeps ==
    ASSUME Inv, NEW u \in Users, CommitPost(u) PROVE Inv'
<1> DEFINE t == tx[u]
           noted == [t.row EXCEPT !.flow = @ \cup {written + 1}]
<1>1. /\ u \in Flying /\ t.row \in Row /\ Right(t.row)
      /\ "owner" \in t.ch => t.lead \in Lead
  BY Parts, Holds DEF CommitPost, Nothing
<1>2. /\ deal' \in {t.row, noted} /\ lead' = LeadSaved(t) /\ ~KeyRefused(t) /\ ~Raises(t)
      /\ \E added \in Added(t) : pay' = PaymentsSaved(t, added)
      /\ written' \in {written, written + 1} /\ End(u)
      /\ UNCHANGED <<shipped, mail, page, ops>>
  BY DEF CommitPost
<1>3. deal' \in Row /\ Right(deal')
  BY <1>1, <1>2, EntryFits
<1>4. lead' \in Lead
  <2>1. CASE "owner" \in t.ch /\ t.row.lead
    <3>1. lead' = [t.lead EXCEPT !.owner = t.row.owner]
      BY <1>2, <2>1 DEF LeadSaved
    <3> QED BY <1>1, <2>1, <3>1 DEF Lead, Row
  <2>2. CASE ~("owner" \in t.ch /\ t.row.lead)
    BY <1>2, <2>2, Parts DEF LeadSaved
  <2> QED BY <2>1, <2>2
<1>5. Pays'
  BY <1>2, PaymentsAreRight, Parts DEF Pays
<1> HIDE DEF t, noted
<1> QED BY <1>1, <1>2, <1>3, <1>4, <1>5, Parts, EndKeeps
------------------------------------------------------------------------------
(* The other requests that end. *)
LEMMA EndsKeep ==
    ASSUME Inv, NEW p \in Parties, tx[p].kind # Nothing, End(p), UNCHANGED <<page, ops, pay>>,
           \/ /\ tx[p].kind # "lead"
              /\ \/ deal' = [deal EXCEPT !.flow = tx[p].row.flow \cup {written + 1}]
                 \/ deal' = [tx[p].row EXCEPT !.flow = @ \cup {written + 1}]
                 \/ deal' = [At(tx[p].row, "shipment") EXCEPT !.step = 2]
           \/ deal' = deal,
           lead' \in Lead,
           \/ mail' = mail
           \/ tx[p].kind = "mail" /\ mail' = [mail EXCEPT !.sent = tx[p].sent]
           \/ tx[p].kind = "delivered" /\ mail' = [mail EXCEPT !.sent = TRUE],
           written' \in {written, written + 1}
    PROVE  Inv'
<1>1. /\ p \in Flying /\ deal \in Row /\ Right(deal) /\ mail \in Mail
      /\ tx[p].kind # "lead" => tx[p].row \in Row /\ Right(tx[p].row)
  BY Parts, Holds
<1>2. deal' \in Row /\ Right(deal')
  <2>1. CASE deal' = deal
    BY <1>1, <2>1
  <2>2. CASE /\ tx[p].kind # "lead"
             /\ deal' = [deal EXCEPT !.flow = tx[p].row.flow \cup {written + 1}]
    BY <1>1, <2>2, EntryFits
  <2>4. CASE /\ tx[p].kind # "lead"
             /\ deal' = [tx[p].row EXCEPT !.flow = @ \cup {written + 1}]
    BY <1>1, <2>4, EntryFits
  <2>3. CASE tx[p].kind # "lead" /\ deal' = [At(tx[p].row, "shipment") EXCEPT !.step = 2]
    <3> DEFINE row == tx[p].row
    <3>1. deal' = [row EXCEPT !.stage = "shipment", !.last = "shipment", !.step = 2]
      BY <2>3 DEF At
    <3>2. row \in Row /\ Right(row)
      BY <1>1, <2>3
    <3> HIDE DEF row
    <3>3. deal' \in Row
      BY <3>1, <3>2 DEF Row, Stages
    <3>4. Right(deal')
      BY <3>1, <3>2 DEF Row, Right, Success
    <3> QED BY <3>3, <3>4
  <2> QED BY <2>1, <2>2, <2>3, <2>4
<1>3. /\ mail' \in Mail /\ mail'.delivered = mail.delivered
      /\ mail'.sent => mail.delivered > 0
  BY <1>1, Holds, Parts DEF Mail
<1>4. Pays'
  BY Parts DEF Pays
<1> QED BY <1>1, <1>2, <1>3, <1>4, EndKeeps

LEMMA CommitsKeep ==
    ASSUME Inv,
           \/ CommitShipment \/ CommitMemo \/ SaveCall
           \/ TouchLead /\ End(Exchange)
           \/ \E u \in Users : \/ AbortPost(u) \/ CommitLead(u)
                               \/ SaveMail(u) \/ Refuse(u) \/ CommitMail(u)
    PROVE  Inv'
<1> USE DEF Nothing
<1>1. /\ lead \in Lead /\ Users \subseteq Parties /\ Exchange \in Parties /\ Colleague \in Parties
  BY Parts
<1>2. CASE CommitShipment
  <2>1. tx[Colleague].kind = "ship" /\ UNCHANGED <<lead, pay, mail, page, written, ops>>
        /\ End(Colleague)
        /\ (deal' = deal \/ deal' = [At(tx[Colleague].row, "shipment") EXCEPT !.step = 2])
    BY <1>2 DEF CommitShipment
  <2> QED BY <1>1, <2>1, EndsKeep
<1>3. CASE CommitMemo
  <2>1. tx[Colleague].kind = "memo" /\ UNCHANGED <<lead, pay, mail, page, ops>>
        /\ End(Colleague) /\ written' \in {written, written + 1}
        /\ (deal' = deal
            \/ deal' = [deal EXCEPT !.flow = tx[Colleague].row.flow \cup {written + 1}])
    BY <1>3 DEF CommitMemo, Noted
  <2> QED BY <1>1, <2>1, EndsKeep
<1>4. CASE SaveCall
  <2>1. tx[Exchange].kind = "touched" /\ UNCHANGED <<lead, pay, mail, page, ops>>
        /\ End(Exchange) /\ written' \in {written, written + 1}
        /\ (deal' = deal
            \/ deal' = [tx[Exchange].row EXCEPT !.flow = @ \cup {written + 1}])
    BY <1>4 DEF SaveCall
  <2> QED BY <1>1, <2>1, EndsKeep
<1>5. CASE TouchLead /\ End(Exchange)
  <2>1. tx[Exchange].kind = "call" /\ lead' = tx[Exchange].lead /\ End(Exchange)
        /\ UNCHANGED <<deal, pay, mail, page, written, ops>>
    BY <1>5 DEF TouchLead
  <2>2. lead' \in Lead
    BY <1>1, <2>1, Holds
  <2> QED BY <1>1, <2>1, <2>2, EndsKeep
<1>6. ASSUME NEW u \in Users, AbortPost(u) PROVE Inv'
  <2>1. tx[u].kind = "post" /\ End(u) /\ UNCHANGED <<deal, lead, pay, mail, page, written, ops>>
    BY <1>6 DEF AbortPost
  <2> QED BY <1>1, <2>1, EndsKeep
<1>7. ASSUME NEW u \in Users, CommitLead(u) PROVE Inv'
  <2>1. tx[u].kind = "lead" /\ End(u) /\ UNCHANGED <<deal, pay, mail, page, written, ops>>
        /\ lead' = [tx[u].lead EXCEPT !.note = 1]
    BY <1>7 DEF CommitLead
  <2>2. tx[u].lead \in Lead
    BY <1>1, <2>1, Holds
  <2>3. lead' \in Lead
    BY <2>1, <2>2 DEF Lead
  <2> QED BY <1>1, <2>1, <2>3, EndsKeep
<1>8. ASSUME NEW u \in Users, SaveMail(u) \/ Refuse(u) PROVE Inv'
  <2>1. tx[u].kind = "mail" /\ End(u) /\ UNCHANGED <<deal, lead, pay, page, written, ops>>
        /\ (mail' = mail \/ mail' = [mail EXCEPT !.sent = tx[u].sent])
    BY <1>8 DEF SaveMail, Refuse
  <2> QED BY <1>1, <2>1, EndsKeep
<1>9. ASSUME NEW u \in Users, CommitMail(u) PROVE Inv'
  <2>1. tx[u].kind = "delivered" /\ End(u) /\ UNCHANGED <<lead, pay, page, ops>>
        /\ mail' = [mail EXCEPT !.sent = TRUE] /\ written' = written + 1
        /\ deal' = [deal EXCEPT !.flow = tx[u].row.flow \cup {written + 1}]
    BY <1>9 DEF CommitMail, Noted
  <2> QED BY <1>1, <2>1, EndsKeep
<1> QED BY <1>2, <1>3, <1>4, <1>5, <1>6, <1>7, <1>8, <1>9
------------------------------------------------------------------------------
(* The requests that go on: the mail server takes the mail, the exchange  *)
(* has touched the lead.                                                  *)
LEMMA DeliverKeeps ==
    ASSUME Inv, NEW u \in Users, Deliver(u) PROVE Inv'
<1>1. /\ u \in Flying /\ u \in Parties /\ tx[u].kind = "mail" /\ mail \in Mail
      /\ tx[u].row \in Row /\ Right(tx[u].row) /\ tx[u] \in Request
  BY Parts, Holds DEF Deliver, Nothing
<1>2. /\ tx' = [tx EXCEPT ![u].kind = "delivered"]
      /\ mail' = [mail EXCEPT !.delivered = @ + 1]
      /\ UNCHANGED <<deal, lead, pay, shipped, page, written, ops>>
  BY DEF Deliver
<1> DEFINE t == [tx[u] EXCEPT !.kind = "delivered"]
<1>3. t \in Request /\ tx' = [tx EXCEPT ![u] = t]
  BY <1>1, <1>2 DEF Request, Idle, Nothing
<1>a. t.kind = "delivered" /\ t.row = tx[u].row
  BY <1>1 DEF Request, Idle, Nothing
<1> HIDE DEF t
<1>4. /\ DOMAIN tx' = Parties /\ \A q \in Parties : tx'[q] \in Request
      /\ \A q \in Parties : tx'[q] = IF q = u THEN t ELSE tx[q]
      /\ Flying' = Flying /\ Sending' = Sending \ {u}
  BY <1>1, <1>3, <1>a, GoesOn DEF Inv, Nothing
<1>5. mail' \in Mail /\ mail'.delivered = mail.delivered + 1 /\ mail.delivered \in Nat
  BY <1>1, <1>2 DEF Mail
<1>6. Types'
  BY <1>2, <1>4, <1>5 DEF Inv, Types, Mail, FormOf
<1>7. Flying \subseteq Parties
  BY FlyingFinite DEF Inv
<1>8. tx'[u].kind = "delivered" /\ tx'[u].row = tx[u].row
  BY <1>1, <1>4, <1>a
<1>9. Copies'
  BY <1>1, <1>2, <1>4, <1>7, <1>8 DEF Inv, Copies
<1>10. Taken'
  BY <1>1, <1>2, <1>4, <1>5, <1>7, <1>8 DEF Inv, Taken
<1>11. Counted'
  <2>1. u \in Sending
    BY <1>1 DEF Sending, Inv, Types
  <2>2. Cardinality(Sending') = Cardinality(Sending) - 1
    BY <1>4, <2>1, FlyingFinite, FS_RemoveElement DEF Inv
  <2>3. Cardinality(Sending) \in Nat /\ Cardinality(Flying') = Cardinality(Flying)
    BY <1>4, FlyingFinite DEF Inv
  <2>4. written' = written /\ ops' = ops /\ ops \in Nat
    BY <1>2 DEF Inv, Types
  <2> QED BY <1>5, <2>2, <2>3, <2>4 DEF Inv, Counted
<1> QED BY <1>6, <1>9, <1>10, <1>11 DEF Inv

LEMMA TouchKeeps ==
    ASSUME Inv, TouchLead PROVE Inv'
<1> DEFINE t == tx[Exchange]
<1>1. CASE End(Exchange)
  BY <1>1, CommitsKeep
<1>2. CASE tx' = [tx EXCEPT ![Exchange].kind = "touched"]
  <2>1. /\ Exchange \in Flying /\ Exchange \in Parties /\ t.kind = "call" /\ t \in Request
        /\ t.row \in Row /\ Right(t.row) /\ t.lead \in Lead
    BY Parts, Holds DEF TouchLead, Nothing
  <2>2. lead' = t.lead /\ UNCHANGED <<deal, pay, shipped, mail, page, written, ops>>
    BY DEF TouchLead
  <2> DEFINE n == [t EXCEPT !.kind = "touched"]
  <2>3. n \in Request /\ tx' = [tx EXCEPT ![Exchange] = n]
    BY <1>2, <2>1 DEF Request, Idle, Nothing
  <2>a. n.kind = "touched" /\ n.row = t.row
    BY <2>1 DEF Request, Idle, Nothing
  <2> HIDE DEF n
  <2>4. /\ DOMAIN tx' = Parties /\ \A q \in Parties : tx'[q] \in Request
        /\ \A q \in Parties : tx'[q] = IF q = Exchange THEN n ELSE tx[q]
        /\ Flying' = Flying /\ Sending' = Sending \ {Exchange}
    BY <2>1, <2>3, <2>a, GoesOn DEF Inv, Nothing
  <2>5. Sending' = Sending
    BY <2>1, <2>4 DEF Sending
  <2>6. Types'
    BY <2>1, <2>2, <2>4 DEF Inv, Types, FormOf
  <2>7. Flying \subseteq Parties
    BY FlyingFinite DEF Inv
  <2>8. tx'[Exchange].kind = "touched" /\ tx'[Exchange].row = t.row
    BY <2>1, <2>4, <2>a
  <2>9. Copies'
    BY <2>1, <2>2, <2>4, <2>7, <2>8 DEF Inv, Copies
  <2>10. Taken'
    BY <2>2, <2>4, <2>7, <2>8 DEF Inv, Taken
  <2>11. Counted'
    BY <2>2, <2>4, <2>5 DEF Inv, Counted
  <2> QED BY <2>6, <2>9, <2>10, <2>11 DEF Inv
<1> QED BY <1>1, <1>2 DEF TouchLead
------------------------------------------------------------------------------
(* The steps that are one statement. *)
LEMMA OthersKeep ==
    ASSUME Inv,
           \/ Reply \/ \E m \in Managers : RequestOwner(m)
           \/ \E u \in Users : \/ Delete(u) \/ DeleteLead(u) \/ ConvertLead(u)
                 \/ \E i \in Payments : \/ DeletePayment(u, i)
                                        \/ \E s \in {Expected, Received} : SetPayment(u, i, s)
    PROVE  Inv'
<1>1. /\ deal \in Row /\ Right(deal) /\ lead \in Lead /\ Pays /\ mail \in Mail
      /\ UNCHANGED page => Pages'
  BY Parts DEF Pages, FormOf
<1>2. CASE Reply
  <2>1. deal' = [deal EXCEPT !.flow = @ \cup {written + 1}] /\ Use /\ written' = written + 1
        /\ UNCHANGED <<lead, pay, mail, page, tx>>
    BY <1>2 DEF Reply
  <2>2. deal' \in Row /\ Right(deal')
    BY <1>1, <2>1, EntryFits DEF Use
  <2>3. Pays'
    BY <1>1, <2>1 DEF Pays
  <2> QED BY <1>1, <2>1, <2>2, <2>3, OtherKeeps
<1>3. ASSUME NEW m \in Managers, RequestOwner(m) PROVE Inv'
  <2>1. deal' = [deal EXCEPT !.owner = m] /\ Use
        /\ UNCHANGED <<lead, pay, mail, page, tx, written>>
    BY <1>3 DEF RequestOwner
  <2>2. deal' \in Row /\ Right(deal')
    BY <1>1, <2>1 DEF Row, Right
  <2>3. Pays'
    BY <1>1, <2>1 DEF Pays
  <2> QED BY <1>1, <2>1, <2>2, <2>3, OtherKeeps
<1>4. ASSUME Gone PROVE /\ deal' \in Row /\ Right(deal') /\ Pays' /\ mail' \in Mail
                        /\ mail'.delivered = mail.delivered /\ mail'.sent = mail.sent
  <2>1. /\ deal' = [deal EXCEPT !.there = FALSE] /\ pay' = <<>>
        /\ mail' = [mail EXCEPT !.there = FALSE]
    BY <1>4 DEF Gone
  <2>2. deal' \in Row /\ Right(deal')
    BY <1>1, <2>1 DEF Row, Right
  <2>3. Pays'
    BY <2>1 DEF Pays
  <2>4. mail' \in Mail /\ mail'.delivered = mail.delivered /\ mail'.sent = mail.sent
    BY <1>1, <2>1 DEF Mail
  <2> QED BY <2>2, <2>3, <2>4
<1>5. ASSUME NEW u \in Users, Delete(u) PROVE Inv'
  <2>1. Gone /\ Use /\ UNCHANGED <<lead, page, tx, written>>
    BY <1>5 DEF Delete
  <2> QED BY <1>1, <1>4, <2>1, OtherKeeps
<1>6. ASSUME NEW u \in Users, DeleteLead(u) PROVE Inv'
  <2>1. /\ lead' = [lead EXCEPT !.there = FALSE] /\ Use
        /\ (Gone \/ UNCHANGED <<deal, pay, mail>>)
        /\ UNCHANGED <<page, tx, written>>
    BY <1>6 DEF DeleteLead
  <2>2. lead' \in Lead
    BY <1>1, <2>1 DEF Lead
  <2>3. UNCHANGED pay => Pays'
    BY <1>1 DEF Pays
  <2>4. /\ deal' \in Row /\ Right(deal') /\ Pays' /\ mail' \in Mail
        /\ mail'.delivered = mail.delivered /\ mail'.sent = mail.sent
    BY <1>1, <1>4, <2>1, <2>3
  <2> QED BY <1>1, <2>1, <2>2, <2>4, OtherKeeps
<1>7. ASSUME NEW u \in Users, ConvertLead(u) PROVE Inv'
  <2>1. /\ lead' = [lead EXCEPT !.there = FALSE] /\ deal' = [deal EXCEPT !.lead = FALSE] /\ Use
        /\ UNCHANGED <<pay, mail, page, tx, written>>
    BY <1>7 DEF ConvertLead
  <2>2. lead' \in Lead
    BY <1>1, <2>1 DEF Lead
  <2>3. deal' \in Row /\ Right(deal')
    BY <1>1, <2>1 DEF Row, Right
  <2>4. Pays'
    BY <1>1, <2>1 DEF Pays
  <2> QED BY <1>1, <2>1, <2>2, <2>3, <2>4, OtherKeeps
<1>8. ASSUME NEW u \in Users, NEW i \in Payments,
             \/ DeletePayment(u, i)
             \/ \E s \in {Expected, Received} : SetPayment(u, i, s)
      PROVE  Inv'
  <2>1. Use /\ UNCHANGED <<deal, lead, mail, page, tx, written>>
    BY <1>8 DEF DeletePayment, SetPayment
  <2>2. CASE DeletePayment(u, i)
    <3>1. pay' = Restrict(pay, DOMAIN pay \ {i})
      BY <2>2 DEF DeletePayment
    <3>2. Pays'
      BY <1>1, <3>1 DEF Pays, Restrict
    <3> QED BY <1>1, <2>1, <3>2, OtherKeeps
  <2>3. ASSUME NEW s \in {Expected, Received}, SetPayment(u, i, s) PROVE Inv'
    <3>1. pay' = Over([j \in {i} |-> s], pay)
      BY <2>3 DEF SetPayment
    <3>2. Pays'
      BY <1>1, <3>1 DEF Pays, Over
    <3> QED BY <1>1, <2>1, <3>2, OtherKeeps
  <2> QED BY <1>8, <2>2, <2>3
<1> QED BY <1>2, <1>3, <1>5, <1>6, <1>7, <1>8

LEMMA StutterKeeps == Inv /\ UNCHANGED vars => Inv'
<1> SUFFICES ASSUME Inv, UNCHANGED vars PROVE Inv'
  OBVIOUS
<1>1. Pays' /\ Pages'
  BY Parts DEF vars, Pays, Pages, FormOf
<1> QED BY <1>1, OtherKeeps, Parts DEF vars

LEMMA StepKeeps == Inv /\ [Next]_vars => Inv'
<1> SUFFICES ASSUME Inv, Next \/ UNCHANGED vars PROVE Inv'
  OBVIOUS
<1>1. CASE UNCHANGED vars
  BY <1>1, StutterKeeps
<1>2. ASSUME NEW u \in Users, \/ OpenDeal(u) \/ OpenMail(u) \/ CommitPost(u)
                              \/ LoadPost(u) \/ Deliver(u)
      PROVE  Inv'
  BY <1>2, OpenKeeps, CommitPostKeeps, LoadPostKeeps, DeliverKeeps
<1>3. CASE TouchLead
  BY <1>3, TouchKeeps
<1>4. CASE \/ LoadShipment \/ LoadMemo \/ LoadCall
           \/ \E u \in Users : LoadLead(u) \/ \E send \in BOOLEAN : LoadMail(u, send)
  BY <1>4, LoadsKeep
<1>5. CASE \/ CommitShipment \/ CommitMemo \/ SaveCall
           \/ \E u \in Users : \/ AbortPost(u) \/ CommitLead(u)
                               \/ SaveMail(u) \/ Refuse(u) \/ CommitMail(u)
  BY <1>5, CommitsKeep
<1>6. CASE \/ Reply \/ \E m \in Managers : RequestOwner(m)
           \/ \E u \in Users : \/ Delete(u) \/ DeleteLead(u) \/ ConvertLead(u)
                 \/ \E i \in Payments : \/ DeletePayment(u, i)
                                        \/ \E s \in {Expected, Received} : SetPayment(u, i, s)
  BY <1>6, OthersKeep
<1> QED BY <1>1, <1>2, <1>3, <1>4, <1>5, <1>6 DEF Next

LEMMA StartsRight == Init => Inv
<1> SUFFICES ASSUME Init PROVE Inv
  OBVIOUS
<1>0. PICK m \in Managers : \E c \in Managers \ {m} :
         /\ deal = [there |-> TRUE, lead |-> TRUE, relevant |-> TRUE,
                    active |-> TRUE, reason |-> "none", stage |-> "request",
                    amount |-> 0, closed |-> FALSE, won |-> FALSE,
                    last |-> "request", step |-> 1, owner |-> m,
                    coowner |-> c, new |-> TRUE, flow |-> {1}]
         /\ lead = [there |-> TRUE, owner |-> m, note |-> 0]
         /\ mail = [there |-> TRUE, owner |-> m, sent |-> FALSE, delivered |-> 0]
  BY DEF Init
<1>1. PICK c \in Managers :
         /\ deal = [there |-> TRUE, lead |-> TRUE, relevant |-> TRUE,
                    active |-> TRUE, reason |-> "none", stage |-> "request",
                    amount |-> 0, closed |-> FALSE, won |-> FALSE,
                    last |-> "request", step |-> 1, owner |-> m,
                    coowner |-> c, new |-> TRUE, flow |-> {1}]
         /\ lead = [there |-> TRUE, owner |-> m, note |-> 0]
         /\ mail = [there |-> TRUE, owner |-> m, sent |-> FALSE, delivered |-> 0]
  BY <1>0
<1>2. MaxOps \in Nat /\ 1 \in 1..MaxOps + 1
  BY DealsAssumption
<1>3. deal \in Row /\ Right(deal) /\ lead \in Lead /\ mail \in Mail
  BY <1>1, <1>2 DEF Row, Right, Lead, Mail, Reasons, Stages, Success
<1>4. /\ DOMAIN tx = Parties /\ \A p \in Parties : tx[p] = Idle
      /\ DOMAIN page = Users /\ \A u \in Users : page[u] = Idle
      /\ pay = <<>> /\ written = 1 /\ ops = 0
  BY DEF Init, Parties
<1>5. Types
  BY <1>3, <1>4 DEF Types, Mail, Request, Idle
<1>6. Flying = {} /\ Sending = {}
  BY <1>4 DEF Flying, Sending, Idle, Nothing
<1>7. Counted
  BY <1>1, <1>2, <1>4, <1>6, FS_EmptySet DEF Counted
<1> QED BY <1>1, <1>3, <1>5, <1>6, <1>7 DEF Inv, Copies, Taken
------------------------------------------------------------------------------
(* The invariant is one. *)
THEOREM InvHolds == Spec => []Inv
BY StartsRight, StepKeeps, PTL DEF Spec

(* The stage, the closing reason, the dates, the amount and the mail of a *)
(* deal fit each other whatever form, mail, memo, call or shipment saves  *)
(* the deal, and from whatever old copy of it: a copy that was sound when *)
(* it was read is sound when it is written back.                          *)
THEOREM DealIsSound == Spec => []DealSound
<1>1. Inv => DealSound
  <2> SUFFICES ASSUME Inv PROVE DealSound
    OBVIOUS
  <2>1. Cardinality(Flying) \in Nat /\ Cardinality(Sending) \in Nat
    BY FlyingFinite DEF Inv
  <2>2. mail.delivered \in Nat /\ written \in Nat \ {0} /\ ops \in Nat /\ MaxOps \in Nat
    BY DealsAssumption DEF Inv, Types
  <2>3. mail.delivered \in 0..MaxOps /\ written \in 1..MaxOps + 1 /\ ops \in 0..MaxOps
    BY <2>1, <2>2 DEF Inv, Counted
  <2>4. mail \in [there : BOOLEAN, owner : Managers, sent : BOOLEAN, delivered : 0..MaxOps]
    BY <2>3 DEF Inv, Types
  <2>5. \A p \in Flying : tx[p].kind # "lead" => tx[p].row \in Row
    BY Holds, FlyingFinite DEF Inv, Flying
  <2>6. TypeOK
    BY <2>3, <2>4, <2>5 DEF Inv, Types, TypeOK, Lead
  <2>7. ClosedRight /\ WonRight /\ StageLogged
    BY DEF Inv, Copies, Right, ClosedRight, WonRight, StageLogged
  <2>8. SentWasDelivered
    BY DEF Inv, Taken, SentWasDelivered
  <2> QED BY <2>6, <2>7, <2>8 DEF DealSound
<1> QED BY <1>1, InvHolds, PTL
------------------------------------------------------------------------------
(* A step keeps the entries of the deal, or those of the copy of a        *)
(* request that ends with it.                                             *)
LEMMA FlowGrows ==
    ASSUME Inv, Next
    PROVE  \/ deal.flow \subseteq deal'.flow
           \/ \E p \in Flying : /\ tx[p].kind # "lead" /\ tx'[p] = Idle
                                /\ tx[p].row.flow \subseteq deal'.flow
<1> DEFINE Own == \E p \in Flying : /\ tx[p].kind # "lead" /\ tx'[p] = Idle
                                    /\ tx[p].row.flow \subseteq deal'.flow
<1>1. deal \in Row /\ Users \subseteq Parties /\ Exchange \in Parties /\ Colleague \in Parties
  BY Parts
<1>2. ASSUME NEW p \in Parties, tx[p].kind \notin {Nothing, "lead"}, End(p),
             NEW row \in Row, row.flow = tx[p].row.flow, NEW E,
             \/ deal' = row \/ deal' = [row EXCEPT !.flow = @ \cup {E}]
             \/ deal' = [deal EXCEPT !.flow = row.flow \cup {E}]
      PROVE  Own
  <2>1. p \in Flying /\ tx'[p] = Idle
    BY <1>2, Holds DEF End, Inv, Types
  <2>2. row.flow \subseteq deal'.flow
    BY <1>1, <1>2 DEF Row
  <2> QED BY <1>2, <2>1, <2>2
<1>3. ASSUME NEW u \in Users, CommitPost(u) PROVE Own
  <2>1. /\ tx[u].kind = "post" /\ End(u) /\ u \in Parties
        /\ deal' = tx[u].row \/ deal' = [tx[u].row EXCEPT !.flow = @ \cup {written + 1}]
    BY <1>1, <1>3 DEF CommitPost
  <2>2. tx[u].row \in Row
    BY <2>1, Holds DEF Nothing
  <2> HIDE DEF Own
  <2> QED BY <1>2, <2>1, <2>2 DEF Nothing
<1>4. ASSUME NEW p \in Parties, tx[p].kind \notin {Nothing, "lead"}, End(p), Noted(p)
      PROVE  Own
  <2>1. deal' = [deal EXCEPT !.flow = tx[p].row.flow \cup {written + 1}] /\ tx[p].row \in Row
    BY <1>4, Holds DEF Noted
  <2> HIDE DEF Own
  <2> QED BY <1>2, <1>4, <2>1
<1>5. CASE CommitShipment
  <2>1. tx[Colleague].kind = "ship" /\ End(Colleague)
        /\ (deal' = deal \/ deal' = [At(tx[Colleague].row, "shipment") EXCEPT !.step = 2])
    BY <1>5 DEF CommitShipment
  <2> DEFINE row == [At(tx[Colleague].row, "shipment") EXCEPT !.step = 2]
  <2>2. tx[Colleague].row \in Row
    BY <1>1, <2>1, Holds DEF Nothing
  <2>3. row \in Row /\ row.flow = tx[Colleague].row.flow
    BY <2>2 DEF At, Row, Stages
  <2>4. CASE deal' = deal
    BY <2>4
  <2>5. CASE deal' = row
    <3> HIDE DEF Own, row
    <3>1. Own
      BY <1>1, <1>2, <2>1, <2>3, <2>5 DEF Nothing
    <3> QED BY <3>1 DEF Own
  <2> QED BY <2>1, <2>4, <2>5
<1>6. ASSUME NEW u \in Users, CommitMail(u) PROVE Own
  <2> HIDE DEF Own
  <2> QED BY <1>1, <1>4, <1>6 DEF CommitMail, Nothing
<1>7. CASE CommitMemo
  <2>1. CASE deal.there
    <3>1. tx[Colleague].kind = "memo" /\ End(Colleague) /\ Noted(Colleague)
      BY <1>7, <2>1 DEF CommitMemo
    <3>2. Own
      <4> HIDE DEF Own
      <4> QED BY <1>1, <1>4, <3>1 DEF Nothing
    <3> QED BY <3>2
  <2>2. CASE ~deal.there
    BY <1>7, <2>2 DEF CommitMemo
  <2> QED BY <2>1, <2>2
<1>8. CASE SaveCall
  <2>1. CASE lead.there
    <3>1. /\ tx[Exchange].kind = "touched" /\ End(Exchange)
          /\ deal' = [tx[Exchange].row EXCEPT !.flow = @ \cup {written + 1}]
      BY <1>8, <2>1 DEF SaveCall
    <3>2. tx[Exchange].row \in Row
      BY <1>1, <3>1, Holds DEF Nothing
    <3>3. Own
      <4> HIDE DEF Own
      <4> QED BY <1>1, <1>2, <3>1, <3>2 DEF Nothing
    <3> QED BY <3>3
  <2>2. CASE ~lead.there
    BY <1>8, <2>2 DEF SaveCall
  <2> QED BY <2>1, <2>2
<1>9. ASSUME Gone PROVE deal'.flow = deal.flow
  BY <1>1, <1>9 DEF Gone, Row
<1>10. CASE Reply \/ \E m \in Managers : RequestOwner(m)
  BY <1>1, <1>10 DEF Reply, RequestOwner, Row
<1>11. ASSUME NEW u \in Users,
              Delete(u) \/ DeleteLead(u) \/ ConvertLead(u)
       PROVE  deal'.flow = deal.flow
  BY <1>1, <1>9, <1>11 DEF Delete, DeleteLead, ConvertLead, Row
<1>12. ASSUME NEW u \in Users,
              \/ OpenDeal(u) \/ OpenMail(u) \/ AbortPost(u) \/ LoadPost(u)
              \/ \E i \in Payments, s \in {Expected, Received} : SetPayment(u, i, s)
              \/ \E i \in Payments : DeletePayment(u, i)
              \/ LoadLead(u) \/ CommitLead(u)
              \/ \E send \in BOOLEAN : LoadMail(u, send)
              \/ SaveMail(u) \/ Deliver(u) \/ Refuse(u)
       PROVE  deal' = deal
  BY <1>12 DEF OpenDeal, OpenMail, Open, AbortPost, LoadPost, SetPayment, DeletePayment,
               LoadLead, CommitLead, LoadMail, SaveMail, Deliver, Refuse
<1>13. CASE LoadShipment \/ LoadMemo \/ LoadCall \/ TouchLead
  BY <1>13 DEF LoadShipment, LoadMemo, LoadCall, TouchLead
<1> HIDE DEF Own
<1>14. deal.flow \subseteq deal'.flow \/ Own
  BY <1>3, <1>5, <1>6, <1>7, <1>8, <1>10, <1>11, <1>12, <1>13 DEF Next, Own
<1> QED BY <1>14 DEF Own
(* A step keeps the note of the lead and inserts no lead again, unless a  *)
(* request that saves a copy of the lead ends.                            *)
LEMMA LeadStays ==
    ASSUME Inv, Next
    PROVE  \/ lead'.note = lead.note /\ (lead'.there => lead.there)
           \/ \E p \in Flying : \/ tx[p].kind \in {"lead", "call"}
                                \/ tx[p].kind = "post" /\ "owner" \in tx[p].ch
<1> DEFINE Kept == lead'.note = lead.note /\ (lead'.there => lead.there)
           Own == \E p \in Flying : \/ tx[p].kind \in {"lead", "call"}
                                    \/ tx[p].kind = "post" /\ "owner" \in tx[p].ch
<1>1. lead \in Lead /\ Users \subseteq Parties /\ Exchange \in Parties /\ Colleague \in Parties
  BY Parts
<1>2. ASSUME NEW u \in Users, CommitPost(u) PROVE Kept \/ Own
  <2>1. u \in Flying /\ tx[u].kind = "post" /\ lead' = LeadSaved(tx[u])
    BY <1>1, <1>2, Holds DEF CommitPost, Nothing
  <2> QED BY <2>1 DEF LeadSaved
<1>3. ASSUME NEW u \in Users, CommitLead(u) PROVE Own
  BY <1>1, <1>3, Holds DEF CommitLead, Nothing
<1>4. CASE TouchLead
  <2>1. Own
    BY <1>1, <1>4, Holds DEF TouchLead, Nothing
  <2> QED BY <2>1
<1>5. ASSUME NEW u \in Users, DeleteLead(u) \/ ConvertLead(u) PROVE Kept
  BY <1>1, <1>5 DEF DeleteLead, ConvertLead, Lead
<1>6. ASSUME NEW u \in Users,
             \/ OpenDeal(u) \/ OpenMail(u) \/ AbortPost(u) \/ LoadPost(u)
             \/ \E i \in Payments, s \in {Expected, Received} : SetPayment(u, i, s)
             \/ \E i \in Payments : DeletePayment(u, i)
             \/ LoadLead(u) \/ Delete(u)
             \/ \E send \in BOOLEAN : LoadMail(u, send)
             \/ SaveMail(u) \/ Deliver(u) \/ Refuse(u) \/ CommitMail(u)
      PROVE  Kept
  BY <1>6 DEF OpenDeal, OpenMail, Open, AbortPost, LoadPost, SetPayment, DeletePayment,
              LoadLead, Delete, LoadMail, SaveMail, Deliver, Refuse, CommitMail
<1>7. CASE \/ LoadShipment \/ CommitShipment \/ LoadMemo \/ CommitMemo \/ LoadCall
           \/ Reply \/ SaveCall \/ \E m \in Managers : RequestOwner(m)
  BY <1>7 DEF LoadShipment, CommitShipment, LoadMemo, CommitMemo, LoadCall,
              Reply, SaveCall, RequestOwner
<1> HIDE DEF Kept, Own
<1>8. Kept \/ Own
  BY <1>2, <1>3, <1>4, <1>5, <1>6, <1>7 DEF Next, Kept, Own
<1> QED BY <1>8 DEF Kept, Own

(* A post of a deal keeps the received payments, and a lost deal has no   *)
(* other.                                                                 *)
LEMMA LostHasNoClaims ==
    ASSUME Inv, NEW u \in Users, CommitPost(u)
    PROVE  /\ DOMAIN pay \ Claims(pay) \subseteq DOMAIN pay' \ Claims(pay')
           /\ "reason" \in tx[u].ch /\ deal'.reason = "lost" => Claims(pay') = {}
<1>1. /\ tx[u].row \in Row
      /\ deal' = tx[u].row \/ deal' = [tx[u].row EXCEPT !.flow = @ \cup {written + 1}]
      /\ \E added \in Added(tx[u]) : pay' = PaymentsSaved(tx[u], added)
  BY Holds, Parts DEF CommitPost, Nothing
<1>2. deal'.reason = tx[u].row.reason
  BY <1>1 DEF Row
<1> QED BY <1>1, <1>2, PaymentsAreRight, Parts

(* A save of a deal undoes nothing but what came after the copy it was    *)
(* made from: entries of the workflow, the lead and payments.             *)
THEOREM DealIsKept == Spec => DealKept
<1>1. Inv /\ [Next]_vars =>
        [\A e \in deal.flow \ deal'.flow : \E p \in Flying :
                 /\ tx[p].kind # "lead" /\ e \notin tx[p].row.flow
                 /\ tx'[p] = Idle]_vars
  BY FlowGrows
<1>2. Inv /\ [Next]_vars =>
        [lead'.note < lead.note \/ (lead'.there /\ ~lead.there) =>
                 \E p \in Flying :
                    \/ tx[p].kind \in {"lead", "call"}
                    \/ tx[p].kind = "post" /\ "owner" \in tx[p].ch]_vars
  <2>1. Inv => lead.note \in {0, 1}
    BY Parts DEF Lead
  <2> QED BY <2>1, LeadStays
<1>3. Inv /\ [Next]_vars =>
        [\A u \in Users : CommitPost(u) =>
         /\ DOMAIN pay \ Claims(pay) \subseteq DOMAIN pay' \ Claims(pay')
         /\ "reason" \in tx[u].ch /\ deal'.reason = "lost"
              => Claims(pay') = {}]_vars
  BY LostHasNoClaims
<1> QED BY <1>1, <1>2, <1>3, InvHolds, PTL DEF Spec, DealKept, FlowKept, LeadKept, PaymentsOfLost
-----------------------------------------------------------------------------
(* Projects: what the variables hold.                                      *)
People == [Roles -> SUBSET Employees]
ProjectRow == [owner : Employees, stage : ProjectStages, active : BOOLEAN, closed : BOOLEAN,
               people : People, notified : People]
ProjectForm == [on : Ids, copy : ProjectRow, people : People, stage : ProjectStages,
                completed : BOOLEAN, assigns : BOOLEAN]
Counts == [Ids -> [Roles -> [Employees -> Nat]]]
ProjectTypes ==
    /\ project \in [Ids -> ProjectRow \cup {NoProject}]
    /\ editing \in [Employees -> ProjectForm \cup {NoForm}]
    /\ told \in Counts /\ joined \in Counts /\ closings \in [Ids -> Nat]
    /\ left \in [Kinds -> Nat]
    /\ \A p \in Existing : project[p].active = Active(project[p].stage)

(* Who is to be told that he is on a project: not its owner that he is     *)
(* responsible.                                                            *)
Concerned(row, r, u) == u \in row.people[r] /\ ~(r = "responsible" /\ u = row.owner)

(* A form was made from the project as it was, by its owner, and everybody *)
(* in it was told; it changes the responsible only if it may.              *)
FormFits(f) ==
    /\ f.on \in Existing /\ f.copy.owner = project[f.on].owner
    /\ \A r \in Roles, u \in Employees : Concerned(f.copy, r, u) => told[f.on][r][u] > 0
    /\ ~f.assigns => f.people["responsible"] = f.copy.people["responsible"]
FormsFit == \A u \in Employees : editing[u] # NoForm => FormFits(editing[u])

(* Who is remembered as told was told; who is on a project and not         *)
(* remembered was told less often than he was put on it.                   *)
Remembering ==
    \A p \in Existing, r \in Roles : \A u \in project[p].notified[r] : told[p][r][u] > 0
Exempt(r, u) == r = "subscribers" /\ u \in Mailless
Joining == \A p \in Ids, r \in Roles, u \in Employees : ~Exempt(r, u) =>
    /\ told[p][r][u] <= joined[p][r][u]
    /\ p \in Existing /\ Concerned(project[p], r, u) /\ u \notin project[p].notified[r] =>
           told[p][r][u] < joined[p][r][u]

ProjectInv == ProjectTypes /\ FormsFit /\ Remembering /\ Joining /\ AllTold

(* Memos: what the variables hold.                                         *)
MemoStages == {"pending", "postponed", "reviewed"}
MemoRow == [stage : MemoStages, draft : BOOLEAN, notified : BOOLEAN, subs : SUBSET Employees,
            told : SUBSET Employees, project : Ids \cup {None}, reviewed : BOOLEAN]
MemoForm == [on : {"memo"}, copy : MemoRow, stage : MemoStages, draft : BOOLEAN,
             subs : SUBSET Employees, project : Ids \cup {None}, make : {None, "task"}]
FromMemoForm == [on : {"project"}, copy : MemoRow, project : Ids \cup {None}, people : People]
MemoTypes ==
    /\ memo \in MemoRow \cup {NoMemo}
    /\ writing \in [Employees -> MemoForm \cup FromMemoForm \cup {NoForm}]
    /\ toldOf \in [Employees \cup {"to"} -> Nat] /\ reviews \in Nat
    /\ last \in Ids \cup {None} /\ stale \in BOOLEAN /\ deleted \in BOOLEAN

(* The memo was written once; it is back after its deletion only from an   *)
(* old copy.                                                               *)
WrittenOnce ==
    /\ ~There /\ ~deleted => /\ \A u \in Employees : writing[u] = NoForm
                             /\ \A x \in DOMAIN toldOf : toldOf[x] = 0
                             /\ last = None
    /\ deleted /\ There => stale

(* A row that is published or remembers that the recipient was told, in    *)
(* the table or in a form.                                                 *)
RowFits(row) ==
    /\ ~row.draft \/ row.notified => toldOf["to"] > 0
    /\ row.stage = "reviewed" => row.reviewed
CopyFits(u, f) ==
    /\ RowFits(f.copy)
    /\ f \in MemoForm /\ f.draft # f.copy.draft => u = Author
    /\ There /\ ~stale /\ ~f.copy.draft => f.copy.subs \subseteq memo.told \cup Mailless
CopiesFit == \A u \in Employees : writing[u] # NoForm => CopyFits(u, writing[u])

(* What the memo remembers is what happened, unless an old copy was saved. *)
MemoFits ==
    There => /\ RowFits(memo)
             /\ ~stale => /\ ~memo.draft => memo.subs \subseteq memo.told \cup Mailless
                          /\ ~memo.notified => toldOf["to"] = 0
                          /\ \A x \in Employees \ (Mailless \cup memo.told) : toldOf[x] = 0
                          /\ memo.project = last

OfficeInv == ProjectInv /\ MemoTypes /\ WrittenOnce /\ CopiesFit /\ MemoFits /\ ToldOnce
-----------------------------------------------------------------------------
LEMMA ProjectsApart ==
    /\ NoProject \notin ProjectRow /\ NoForm \notin ProjectForm /\ NoForm \notin MemoForm \cup FromMemoForm
    /\ NoMemo \notin MemoRow /\ MemoForm \cap FromMemoForm = {}
    /\ \A f \in MemoForm : f.on = "memo"
    /\ \A f \in FromMemoForm : f.on = "project"
    /\ NoForm.on = None /\ None \notin {"memo", "project"}
<1>1. None \notin Employees /\ None \notin Ids
  BY ProjectsAssumption
<1>2. NoProject \notin ProjectRow /\ NoForm \notin ProjectForm
  BY <1>1 DEF NoProject, ProjectRow, NoForm, ProjectForm
<1>3. NoMemo \notin MemoRow
  BY DEF NoMemo, MemoRow, MemoStages, None
<1>4. NoForm \notin MemoForm \cup FromMemoForm /\ MemoForm \cap FromMemoForm = {}
  BY DEF NoForm, MemoForm, FromMemoForm, None
<1> QED BY <1>2, <1>3, <1>4 DEF MemoForm, FromMemoForm, NoForm, None

(* Nobody is forgotten, no project goes or changes its owner.              *)
TellingGrows ==
    /\ \A p \in Ids, r \in Roles, u \in Employees : told[p][r][u] > 0 => told'[p][r][u] > 0
    /\ \A p \in Existing : p \in Existing' /\ project'[p].owner = project[p].owner

LEMMA FormFitsKept ==
    ASSUME TellingGrows, NEW f \in ProjectForm, FormFits(f) PROVE FormFits(f)'
<1>1. f.on \in Ids
  BY DEF ProjectForm
<1> QED BY <1>1 DEF FormFits, TellingGrows, Concerned

LEMMA FormsFitKept ==
    ASSUME TellingGrows, ProjectTypes, FormsFit, \A u \in Employees : editing'[u] \in {editing[u], NoForm}
    PROVE  FormsFit'
<1> SUFFICES ASSUME NEW u \in Employees, editing'[u] # NoForm PROVE FormFits(editing[u])'
  BY DEF FormsFit, NoForm
<1>1. PICK f : f = editing'[u] /\ f = editing[u]
  OBVIOUS
<1>2. f \in ProjectForm /\ FormFits(f)
  BY <1>1 DEF ProjectTypes, FormsFit
<1>3. FormFits(f)'
  BY <1>2, FormFitsKept
<1> QED BY <1>1, <1>3 DEF FormFits, Concerned

(* What Staff does to the counts.                                          *)
CountedAs(p, owner, before, people, notified, changed) ==
    /\ told' \in Counts /\ joined' \in Counts
    /\ \A q \in Ids \ {p} : told'[q] = told[q] /\ joined'[q] = joined[q]
    /\ \A r \in Roles, u \in Employees :
         /\ joined'[p][r][u] = joined[p][r][u] + IF u \in people[r] \ before[r] THEN 1 ELSE 0
         /\ told'[p][r][u] = told[p][r][u] +
                IF r \in changed /\ u \in New(r, owner, people[r], notified[r]) THEN 1 ELSE 0
LEMMA StaffCounts ==
    ASSUME told \in Counts, joined \in Counts, NEW p \in Ids, NEW owner, NEW before \in People, NEW people \in People,
           NEW notified \in People, NEW changed \in SUBSET Roles,
           Staff(p, owner, before, people, notified, changed)
    PROVE  CountedAs(p, owner, before, people, notified, changed)
<1> DEFINE J == [r \in Roles |-> [u \in Employees |->
                   joined[p][r][u] + IF u \in people[r] \ before[r] THEN 1 ELSE 0]]
           T == [r \in Roles |-> [u \in Employees |->
                   told[p][r][u] + IF r \in changed /\ u \in New(r, owner, people[r], notified[r])
                                   THEN 1 ELSE 0]]
<1>1. joined' = [joined EXCEPT ![p] = J] /\ told' = [told EXCEPT ![p] = T]
  BY DEF Staff
<1>2. \A r \in Roles, u \in Employees : joined[p][r][u] \in Nat /\ told[p][r][u] \in Nat
  BY DEF Counts
<1>3. J \in [Roles -> [Employees -> Nat]] /\ T \in [Roles -> [Employees -> Nat]]
  BY <1>2
<1>4. \A r \in Roles, u \in Employees :
        /\ J[r][u] = joined[p][r][u] + IF u \in people[r] \ before[r] THEN 1 ELSE 0
        /\ T[r][u] = told[p][r][u] +
              IF r \in changed /\ u \in New(r, owner, people[r], notified[r]) THEN 1 ELSE 0
  OBVIOUS
<1> HIDE DEF J, T
<1> QED BY <1>1, <1>3, <1>4 DEF Counts, CountedAs

(* Setting the people of a project: who is new is told, who is not was told. *)
LEMMA Staffed ==
    ASSUME ProjectInv, NEW p \in Ids, NEW row \in ProjectRow, NEW before \in People,
           NEW notified \in People, NEW changed \in SUBSET Roles,
           project' = [project EXCEPT ![p] = row], row.active = Active(row.stage),
           Staff(p, row.owner, before, row.people, notified, changed),
           row.notified = NotifiedAfter(row.owner, row.people, notified, changed),
           p \in Existing => /\ before = project[p].people /\ notified = project[p].notified
                             /\ row.owner = project[p].owner,
           p \notin Existing => before = Nobody /\ notified = Nobody,
           \A r \in Roles \ changed, u \in Employees : Concerned(row, r, u) => told[p][r][u] > 0,
           closings' \in [Ids -> Nat], left' \in [Kinds -> Nat],
           editing' \in [Employees -> ProjectForm \cup {NoForm}]
    PROVE  ProjectTypes' /\ TellingGrows /\ Remembering' /\ Joining' /\ AllTold'
<1>1. /\ told \in Counts /\ joined \in Counts /\ project \in [Ids -> ProjectRow \cup {NoProject}]
      /\ row \in ProjectRow /\ row.people \in People /\ row.notified \in People
  BY DEF ProjectInv, ProjectTypes, ProjectRow
<1>2. /\ told' \in Counts /\ joined' \in Counts
      /\ \A q \in Ids \ {p} : told'[q] = told[q] /\ joined'[q] = joined[q]
      /\ \A r \in Roles, u \in Employees :
           /\ joined'[p][r][u] = joined[p][r][u] + IF u \in row.people[r] \ before[r] THEN 1 ELSE 0
           /\ told'[p][r][u] = told[p][r][u] +
                  IF r \in changed /\ u \in New(r, row.owner, row.people[r], notified[r]) THEN 1 ELSE 0
  <2>1. CountedAs(p, row.owner, before, row.people, notified, changed)
    BY <1>1, StaffCounts
  <2> QED BY <2>1 DEF CountedAs
<1>3. \A q \in Ids, r \in Roles, u \in Employees : told[q][r][u] \in Nat /\ joined[q][r][u] \in Nat
  BY <1>1 DEF Counts
<1>4. /\ project'[p] = row /\ \A q \in Ids \ {p} : project'[q] = project[q]
      /\ project' \in [Ids -> ProjectRow \cup {NoProject}]
  BY <1>1
<1>5. Existing' = Existing \cup {p}
  BY <1>1, <1>4, ProjectsApart DEF Existing
<1>6. \A r \in Roles :
        /\ r \in changed => row.notified[r] = Remembered(r, row.owner, row.people[r], notified[r])
        /\ r \notin changed => row.notified[r] = notified[r]
  BY DEF NotifiedAfter
<1>7. \A r \in Roles : \A u \in notified[r] : told[p][r][u] > 0
  <2>1. CASE p \in Existing
    BY <2>1 DEF ProjectInv, Remembering
  <2>2. CASE p \notin Existing
    BY <2>2 DEF Nobody
  <2> QED BY <2>1, <2>2
<1>8. \A r \in Roles, u \in Employees : told'[p][r][u] >= told[p][r][u] /\ joined'[p][r][u] >= joined[p][r][u]
  BY <1>2, <1>3
<1>9. ProjectTypes'
  <2>1. \A q \in Existing' : project'[q].active = Active(project'[q].stage)
    BY <1>4, <1>5 DEF ProjectInv, ProjectTypes
  <2> QED BY <1>2, <1>4, <2>1 DEF ProjectTypes
<1>10. TellingGrows
  <2>1. \A q \in Ids, r \in Roles, u \in Employees : told[q][r][u] > 0 => told'[q][r][u] > 0
    <3> SUFFICES ASSUME NEW q \in Ids, NEW r \in Roles, NEW u \in Employees, told[q][r][u] > 0
                 PROVE  told'[q][r][u] > 0
      OBVIOUS
    <3>1. told'[q][r][u] >= told[q][r][u]
      BY <1>2, <1>3, <1>8
    <3>2. told'[q][r][u] \in Nat
      BY <1>2 DEF Counts
    <3> QED BY <1>3, <3>1, <3>2
  <2>2. \A q \in Existing : q \in Existing' /\ project'[q].owner = project[q].owner
    BY <1>4, <1>5 DEF Existing
  <2> QED BY <2>1, <2>2 DEF TellingGrows
<1>11. \A r \in Roles : \A u \in row.notified[r] : told'[p][r][u] > 0
  <2> SUFFICES ASSUME NEW r \in Roles, NEW u \in row.notified[r] PROVE told'[p][r][u] > 0
    OBVIOUS
  <2>1. u \in Employees
    BY <1>1 DEF People
  <2>2. CASE u \in notified[r]
    BY <1>3, <1>7, <1>8, <1>2, <2>1, <2>2
  <2>3. CASE u \notin notified[r]
    <3>1. r \in changed /\ u \in New(r, row.owner, row.people[r], notified[r])
      BY <1>6, <2>3 DEF Remembered
    <3> QED BY <1>2, <1>3, <2>1, <3>1
  <2> QED BY <2>2, <2>3
<1>12. Remembering'
  <2>1. \A q \in Existing \ {p}, r \in Roles : \A u \in project'[q].notified[r] : told'[q][r][u] > 0
    BY <1>2, <1>4 DEF ProjectInv, Remembering, Existing
  <2> QED BY <1>4, <1>5, <1>11, <2>1 DEF Remembering
<1>13. \A r \in Roles, u \in Employees : Concerned(row, r, u) => told'[p][r][u] > 0
  <2> SUFFICES ASSUME NEW r \in Roles, NEW u \in Employees, Concerned(row, r, u)
               PROVE  told'[p][r][u] > 0
    OBVIOUS
  <2>1. CASE r \notin changed
    BY <1>2, <1>3, <1>8, <2>1
  <2>2. CASE r \in changed /\ u \in notified[r]
    BY <1>2, <1>3, <1>7, <1>8, <2>2
  <2>3. CASE r \in changed /\ u \notin notified[r]
    <3>1. u \in New(r, row.owner, row.people[r], notified[r])
      BY <2>3 DEF New, Concerned
    <3> QED BY <1>2, <1>3, <2>3, <3>1
  <2> QED BY <2>1, <2>2, <2>3
<1>14. AllTold'
  <2>1. \A q \in Existing \ {p}, r \in Roles, u \in Employees :
            u \in project'[q].people[r] /\ ~(r = "responsible" /\ u = project'[q].owner) => told'[q][r][u] > 0
    BY <1>2, <1>4 DEF ProjectInv, AllTold, Existing
  <2> QED BY <1>4, <1>5, <1>13, <2>1 DEF AllTold, Concerned
<1>15. \A r \in Roles, u \in Employees : ~Exempt(r, u) =>
         /\ told'[p][r][u] <= joined'[p][r][u]
         /\ Concerned(row, r, u) /\ u \notin row.notified[r] => told'[p][r][u] < joined'[p][r][u]
  <2> SUFFICES ASSUME NEW r \in Roles, NEW u \in Employees, ~Exempt(r, u)
               PROVE  /\ told'[p][r][u] <= joined'[p][r][u]
                      /\ Concerned(row, r, u) /\ u \notin row.notified[r] => told'[p][r][u] < joined'[p][r][u]
    OBVIOUS
  <2>1. told[p][r][u] \in Nat /\ joined[p][r][u] \in Nat /\ told[p][r][u] <= joined[p][r][u]
    BY <1>3 DEF ProjectInv, Joining
  <2>2. Concerned(row, r, u) /\ u \in before[r] /\ u \notin notified[r] => told[p][r][u] < joined[p][r][u]
    <3>1. CASE p \in Existing
      BY <3>1 DEF ProjectInv, Joining, Concerned
    <3>2. CASE p \notin Existing
      BY <3>2 DEF Nobody
    <3> QED BY <3>1, <3>2
  <2>3. r \in changed /\ u \in New(r, row.owner, row.people[r], notified[r]) =>
            Concerned(row, r, u) /\ u \notin notified[r] /\ u \in row.notified[r]
    <3>1. ASSUME u \in New(r, row.owner, row.people[r], notified[r])
          PROVE  Concerned(row, r, u) /\ u \notin notified[r]
      BY <3>1 DEF New, Concerned
    <3>2. ASSUME r \in changed, u \in New(r, row.owner, row.people[r], notified[r])
          PROVE  u \in row.notified[r]
      BY <1>6, <3>2 DEF Remembered, Exempt
    <3> QED BY <3>1, <3>2
  <2>4. Concerned(row, r, u) /\ u \notin row.notified[r] => u \notin notified[r] /\ r \notin changed
    <3>1. ASSUME r \in changed, Concerned(row, r, u) PROVE u \in row.notified[r]
      BY <1>6, <3>1 DEF Remembered, Exempt, Concerned, New
    <3> QED BY <1>6, <3>1
  <2>5. Concerned(row, r, u) => u \in row.people[r]
    BY DEF Concerned
  <2> DEFINE j == IF u \in row.people[r] \ before[r] THEN 1 ELSE 0
             t == IF r \in changed /\ u \in New(r, row.owner, row.people[r], notified[r]) THEN 1 ELSE 0
  <2>6. joined'[p][r][u] = joined[p][r][u] + j /\ told'[p][r][u] = told[p][r][u] + t
    BY <1>2
  <2>7. j \in {0, 1} /\ t \in {0, 1} /\ (j = 1 <=> u \in row.people[r] \ before[r])
        /\ (t = 1 <=> r \in changed /\ u \in New(r, row.owner, row.people[r], notified[r]))
    OBVIOUS
  <2> HIDE DEF j, t
  <2>8. t = 1 => j = 1 \/ told[p][r][u] < joined[p][r][u]
    BY <2>2, <2>3, <2>5, <2>7
  <2>9. Concerned(row, r, u) /\ u \notin row.notified[r] =>
            t = 0 /\ (j = 1 \/ told[p][r][u] < joined[p][r][u])
    BY <2>2, <2>4, <2>5, <2>7
  <2> QED BY <2>1, <2>6, <2>7, <2>8, <2>9
<1>16. Joining'
  <2>1. \A q \in Ids \ {p}, r \in Roles, u \in Employees : ~Exempt(r, u) =>
          /\ told'[q][r][u] <= joined'[q][r][u]
          /\ q \in Existing /\ Concerned(project'[q], r, u) /\ u \notin project'[q].notified[r] =>
                told'[q][r][u] < joined'[q][r][u]
    BY <1>2, <1>4 DEF ProjectInv, Joining
  <2> QED BY <1>4, <1>5, <1>15, <2>1 DEF Joining
<1> QED BY <1>9, <1>10, <1>12, <1>14, <1>16

LEMMA RememberedFits ==
    ASSUME NEW owner, NEW people \in People, NEW notified \in People, NEW changed
    PROVE  NotifiedAfter(owner, people, notified, changed) \in People
<1>1. \A r \in Roles : Remembered(r, owner, people[r], notified[r]) \subseteq Employees
  BY DEF Remembered, New, People
<1> QED BY <1>1 DEF NotifiedAfter, People

LEMMA CreateInv ==
    ASSUME ProjectInv, NEW u \in Employees, NEW p \in Free, NEW people \in People,
           Create(u, p, people), UNCHANGED editing, left' \in [Kinds -> Nat]
    PROVE  ProjectInv'
<1> DEFINE changed == Changes(Nobody, people)
           row == [owner |-> u, stage |-> "pending", active |-> TRUE, closed |-> FALSE, people |-> people,
                   notified |-> NotifiedAfter(u, people, Nobody, changed)]
<1>1. Nobody \in People /\ changed \in SUBSET Roles
  BY DEF Nobody, People, Changes
<1>2. row \in ProjectRow
  BY <1>1, RememberedFits DEF ProjectRow, ProjectStages
<1>3. p \in Ids /\ p \notin Existing
  BY DEF Free, Existing
<1>4. row.active = Active(row.stage)
  BY DEF Active
<1>5. \A r \in Roles \ changed, v \in Employees : Concerned(row, r, v) => told[p][r][v] > 0
  BY DEF Concerned, Changes, Nobody
<1>6. project' = [project EXCEPT ![p] = row] /\ Staff(p, u, Nobody, people, Nobody, changed)
  BY DEF Create
<1>7. closings' \in [Ids -> Nat] /\ editing' \in [Employees -> ProjectForm \cup {NoForm}]
  BY DEF Create, ProjectInv, ProjectTypes
<1>8. row.owner = u /\ row.people = people /\ row.notified = NotifiedAfter(u, people, Nobody, changed)
  OBVIOUS
<1> HIDE DEF row, changed
<1>9. ProjectTypes' /\ TellingGrows /\ Remembering' /\ Joining' /\ AllTold'
  BY <1>1, <1>2, <1>3, <1>4, <1>5, <1>6, <1>7, <1>8, Staffed
<1>10. FormsFit'
  BY <1>9, FormsFitKept DEF ProjectInv
<1> QED BY <1>9, <1>10 DEF ProjectInv

LEMMA Counting == ASSUME left \in [Kinds -> Nat], NEW k \in Kinds, Count(k) PROVE left' \in [Kinds -> Nat]
BY DEF Count

LEMMA AddProjectInv == ASSUME ProjectInv, NEW u \in Employees, AddProject(u) PROVE ProjectInv'
<1>1. PICK p \in Free, people \in [Roles -> Teams] : Create(u, p, people)
  BY DEF AddProject
<1>2. people \in People
  BY ProjectsAssumption DEF People
<1>3. left' \in [Kinds -> Nat] /\ UNCHANGED editing
  BY Counting DEF AddProject, ProjectInv, ProjectTypes, Kinds
<1> QED BY <1>1, <1>2, <1>3, CreateInv

LEMMA FormsFitWith ==
    ASSUME TellingGrows, ProjectTypes, FormsFit, NEW u \in Employees, NEW f \in ProjectForm, FormFits(f),
           editing' = [editing EXCEPT ![u] = f]
    PROVE  FormsFit'
<1> SUFFICES ASSUME NEW v \in Employees, editing'[v] # NoForm PROVE FormFits(editing[v])'
  BY DEF FormsFit, NoForm
<1>1. PICK g : g = editing'[v] /\ g = IF v = u THEN f ELSE editing[v]
  BY DEF ProjectTypes
<1>2. g \in ProjectForm /\ FormFits(g)
  BY <1>1 DEF ProjectTypes, FormsFit
<1>3. FormFits(g)'
  BY <1>2, FormFitsKept
<1> QED BY <1>1, <1>3 DEF FormFits, Concerned

LEMMA PostInv == ASSUME ProjectInv, NEW u \in Employees, NEW p \in Ids, Post(u, p) PROVE ProjectInv'
<1>1. p \in Existing /\ UNCHANGED <<project, told, joined, closings>> /\ left' \in [Kinds -> Nat]
  BY Counting DEF Post, ProjectInv, ProjectTypes, Kinds
<1>2. PICK people \in [Roles -> Teams], stage \in ProjectStages, completed \in BOOLEAN :
        /\ ~MayAssign(u, p) => people["responsible"] = project[p].people["responsible"]
        /\ editing' = [editing EXCEPT ![u] =
              [on |-> p, copy |-> project[p], people |-> people, stage |-> stage,
               completed |-> completed, assigns |-> MayAssign(u, p)]]
  BY DEF Post
<1>3. people \in People /\ project[p] \in ProjectRow /\ MayAssign(u, p) \in BOOLEAN
  BY <1>1, ProjectsAssumption DEF People, ProjectInv, ProjectTypes, Existing, MayAssign
<1>4. PICK f : f = [on |-> p, copy |-> project[p], people |-> people, stage |-> stage,
                    completed |-> completed, assigns |-> MayAssign(u, p)]
  OBVIOUS
<1>5. f \in ProjectForm
  BY <1>3, <1>4 DEF ProjectForm
<1>6. FormFits(f)
  <2>1. \A r \in Roles, v \in Employees : Concerned(f.copy, r, v) => told[f.on][r][v] > 0
    BY <1>1, <1>4 DEF ProjectInv, AllTold, Concerned
  <2> QED BY <1>1, <1>2, <1>4, <2>1 DEF FormFits
<1>7. TellingGrows
  BY <1>1 DEF TellingGrows, Existing
<1>8. FormsFit' /\ editing' \in [Employees -> ProjectForm \cup {NoForm}]
  BY <1>2, <1>4, <1>5, <1>6, <1>7, FormsFitWith DEF ProjectInv, ProjectTypes
<1>9. ProjectTypes'
  BY <1>1, <1>8 DEF ProjectInv, ProjectTypes, Existing
<1>10. Remembering' /\ Joining' /\ AllTold'
  BY <1>1 DEF ProjectInv, Remembering, Joining, AllTold, Existing
<1> QED BY <1>8, <1>9, <1>10 DEF ProjectInv

LEMMA SaveInv == ASSUME ProjectInv, NEW u \in Employees, Save(u) PROVE ProjectInv'
<1>0. PICK f : f = editing[u]
  OBVIOUS
<1>1. f \in ProjectForm /\ FormFits(f) /\ f # NoForm
  BY <1>0 DEF Save, ProjectInv, ProjectTypes, FormsFit
<1> DEFINE p == f.on
           was == project[p]
           people == IF f.assigns THEN f.people
                     ELSE [f.people EXCEPT !["responsible"] = was.people["responsible"]]
           changed == Changes(f.copy.people, f.people)
           row == [owner |-> f.copy.owner, stage |-> StageOf(f), active |-> ActiveOf(f),
                   closed |-> f.copy.closed \/ f.completed, people |-> people,
                   notified |-> NotifiedAfter(was.owner, people, was.notified, changed)]
<1>2. /\ project' = [project EXCEPT ![p] = row]
      /\ Staff(p, was.owner, was.people, people, was.notified, changed)
      /\ closings' = [closings EXCEPT ![p] = @ + IF Closes(f) THEN 1 ELSE 0]
      /\ editing' = [editing EXCEPT ![u] = NoForm] /\ UNCHANGED left
  BY <1>0 DEF Save
<1>3. p \in Ids /\ p \in Existing /\ f.copy.owner = was.owner /\ f.copy \in ProjectRow /\ was \in ProjectRow
  BY <1>1 DEF FormFits, ProjectForm, ProjectInv, ProjectTypes, Existing
<1>4. people \in People /\ changed \in SUBSET Roles
  BY <1>1, <1>3 DEF ProjectForm, ProjectRow, People, Changes, Roles
<1>5. row \in ProjectRow
  <2>1. StageOf(f) \in ProjectStages /\ ActiveOf(f) \in BOOLEAN
    BY <1>1 DEF StageOf, ActiveOf, Active, ProjectForm, ProjectStages
  <2>2. NotifiedAfter(was.owner, people, was.notified, changed) \in People
    BY <1>3, <1>4, RememberedFits DEF ProjectRow
  <2>3. f.copy.owner \in Employees /\ (f.copy.closed \/ f.completed) \in BOOLEAN
    BY <1>1, <1>3 DEF ProjectForm, ProjectRow
  <2> QED BY <1>4, <2>1, <2>2, <2>3 DEF ProjectRow
<1>6. row.active = Active(row.stage)
  BY DEF ActiveOf
<1>7. \A r \in Roles \ changed, v \in Employees : Concerned(row, r, v) => told[p][r][v] > 0
  <2> SUFFICES ASSUME NEW r \in Roles \ changed, NEW v \in Employees, Concerned(row, r, v)
               PROVE  told[p][r][v] > 0
    OBVIOUS
  <2>1. f.people[r] = f.copy.people[r]
    BY DEF Changes
  <2>2. CASE people[r] = f.people[r]
    <3>1. Concerned(f.copy, r, v)
      BY <2>1, <2>2 DEF Concerned
    <3> QED BY <1>1, <3>1 DEF FormFits
  <2>3. CASE people[r] # f.people[r]
    <3>1. people[r] = was.people[r]
      BY <1>1, <2>3 DEF ProjectForm, People
    <3> QED BY <1>3, <3>1 DEF ProjectInv, AllTold, Concerned
  <2> QED BY <2>2, <2>3
<1>8. closings' \in [Ids -> Nat] /\ left' \in [Kinds -> Nat]
      /\ editing' \in [Employees -> ProjectForm \cup {NoForm}]
  BY <1>2, <1>3 DEF ProjectInv, ProjectTypes
<1>9. /\ row.owner = was.owner /\ row.people = people
      /\ row.notified = NotifiedAfter(was.owner, people, was.notified, changed)
      /\ was.people \in People /\ was.notified \in People
  BY <1>3 DEF ProjectRow
<1> HIDE DEF row, changed, people
<1>10. ProjectTypes' /\ TellingGrows /\ Remembering' /\ Joining' /\ AllTold'
  <2>1. PICK q, r, b, n, c : q = p /\ r = row /\ b = was.people /\ n = was.notified /\ c = changed
    OBVIOUS
  <2>2. q \in Ids /\ r \in ProjectRow /\ b \in People /\ n \in People /\ c \in SUBSET Roles
    BY <1>3, <1>4, <1>5, <1>9, <2>1
  <2>3. project' = [project EXCEPT ![q] = r] /\ r.active = Active(r.stage)
    BY <1>2, <1>6, <2>1
  <2>4. Staff(q, r.owner, b, r.people, n, c) /\ r.notified = NotifiedAfter(r.owner, r.people, n, c)
    BY <1>2, <1>9, <2>1
  <2>5. q \in Existing /\ b = project[q].people /\ n = project[q].notified /\ r.owner = project[q].owner
    BY <1>3, <1>9, <2>1
  <2>6. \A s \in Roles \ c, v \in Employees : Concerned(r, s, v) => told[q][s][v] > 0
    BY <1>7, <2>1
  <2> HIDE DEF was, p
  <2> QED BY <1>8, <2>2, <2>3, <2>4, <2>5, <2>6, Staffed
<1>11. FormsFit'
  <2>1. \A v \in Employees : editing'[v] \in {editing[v], NoForm}
    BY <1>2 DEF ProjectInv, ProjectTypes
  <2> QED BY <1>10, <2>1, FormsFitKept DEF ProjectInv
<1> QED BY <1>10, <1>11 DEF ProjectInv

(* A project that is closed is closed by a form.                           *)
ClosedTold == \A p \in Existing :
    Active(project[p].stage) /\ ~Active(project'[p].stage) =>
        \/ closings'[p] > closings[p]
        \/ \E u \in Employees : /\ editing[u].on = p /\ editing'[u] = NoForm
                              /\ ~Active(editing[u].copy.stage)

LEMMA ClosedBySave == ASSUME ProjectInv, NEW u \in Employees, Save(u) PROVE ClosedTold
<1> SUFFICES ASSUME NEW p \in Existing, Active(project[p].stage), ~Active(project'[p].stage)
             PROVE  closings'[p] > closings[p] \/ (/\ editing[u].on = p /\ editing'[u] = NoForm
                                                  /\ ~Active(editing[u].copy.stage))
  BY DEF ClosedTold
<1>0. PICK f : f = editing[u]
  OBVIOUS
<1>1. f \in ProjectForm /\ project \in [Ids -> ProjectRow \cup {NoProject}] /\ closings \in [Ids -> Nat]
      /\ editing \in [Employees -> ProjectForm \cup {NoForm}] /\ p \in Ids
  BY <1>0 DEF Save, ProjectInv, ProjectTypes, Existing
<1>2. f.on \in Ids
  BY <1>1 DEF ProjectForm
<1>3. f.on = p
  BY <1>0, <1>1 DEF Save
<1>4. project'[p].stage = StageOf(f) /\ editing'[u] = NoForm
      /\ closings' = [closings EXCEPT ![p] = @ + IF Closes(f) THEN 1 ELSE 0]
  BY <1>0, <1>1, <1>3 DEF Save
<1>5. CASE Closes(f)
  BY <1>1, <1>4, <1>5
<1>6. CASE ~Closes(f)
  BY <1>0, <1>3, <1>4, <1>6 DEF Closes, StageOf
<1> QED BY <1>5, <1>6

LEMMA NotClosed ==
    ASSUME ProjectInv, \A p \in Existing : project'[p] = project[p] PROVE ClosedTold
BY DEF ClosedTold

LEMMA CreateCloses == ASSUME ProjectInv, NEW u, NEW p \in Free, NEW people, Create(u, p, people) PROVE ClosedTold
<1>1. \A q \in Existing : q # p /\ q \in Ids
  BY DEF Free, Existing
<1>2. \A q \in Existing : project'[q] = project[q]
  BY <1>1 DEF Create, ProjectInv, ProjectTypes
<1> QED BY <1>2, NotClosed

LEMMA ProjectStep == ASSUME ProjectInv, ProjectsNext PROVE ProjectInv' /\ ClosedTold
<1>1. ASSUME NEW u \in Employees, AddProject(u) PROVE ProjectInv' /\ ClosedTold
  BY <1>1, AddProjectInv, CreateCloses DEF AddProject
<1>2. ASSUME NEW u \in Employees, Save(u) PROVE ProjectInv' /\ ClosedTold
  BY <1>2, SaveInv, ClosedBySave
<1>3. ASSUME NEW u \in Employees, NEW p \in Ids, Post(u, p) PROVE ProjectInv' /\ ClosedTold
  BY <1>3, PostInv, NotClosed DEF Post
<1> QED BY <1>1, <1>2, <1>3 DEF ProjectsNext
-----------------------------------------------------------------------------
MemoInv == MemoTypes /\ WrittenOnce /\ CopiesFit /\ MemoFits /\ ToldOnce

LEMMA MemoIsRow == ASSUME MemoTypes PROVE There <=> memo \in MemoRow
BY ProjectsApart DEF MemoTypes, There

(* What a notice leaves in the row, and in the counts.                     *)
LEMMA ToldRow ==
    ASSUME NEW u \in Employees, NEW row \in MemoRow, NEW changed
    PROVE  /\ Told(u, row, changed) \in MemoRow
           /\ Told(u, row, changed).stage = row.stage /\ Told(u, row, changed).draft = row.draft
           /\ Told(u, row, changed).subs = row.subs /\ Told(u, row, changed).project = row.project
           /\ Told(u, row, changed).reviewed = row.reviewed
           /\ Told(u, row, changed).notified <=> row.notified \/ TellsRecipient(u, row)
           /\ Told(u, row, changed).told = row.told \cup (TellsSubs(row, changed) \ Mailless)
<1>1. TellsSubs(row, changed) \subseteq Employees
  BY DEF TellsSubs, MemoRow
<1>2. TellsRecipient(u, row) \in BOOLEAN
  BY DEF TellsRecipient
<1> QED BY <1>1, <1>2 DEF Told, MemoRow

LEMMA ToldCounts ==
    ASSUME MemoTypes, NEW u, NEW row, NEW changed, Tell(u, row, changed)
    PROVE  /\ toldOf' \in [Employees \cup {"to"} -> Nat]
           /\ \A x \in Employees \cup {"to"} : toldOf[x] > 0 => toldOf'[x] > 0
           /\ TellsRecipient(u, row) => toldOf'["to"] = toldOf["to"] + 1
           /\ ~TellsRecipient(u, row) => toldOf'["to"] = toldOf["to"] \/ "to" \in TellsSubs(row, changed)
           /\ \A x \in Employees : x \in TellsSubs(row, changed) => toldOf'[x] = toldOf[x] + 1
           /\ \A x \in Employees : x \notin TellsSubs(row, changed) => toldOf'[x] = toldOf[x]
<1> DEFINE n(x) == IF (x = "to" /\ TellsRecipient(u, row)) \/ x \in TellsSubs(row, changed) THEN 1 ELSE 0
<1>1. toldOf' = [x \in Employees \cup {"to"} |-> toldOf[x] + n(x)]
  BY DEF Tell, MemoTypes
<1>2. \A x \in Employees \cup {"to"} : toldOf[x] \in Nat /\ n(x) \in {0, 1}
  BY DEF MemoTypes
<1>3. "to" \notin Employees
  BY MemosAssumption
<1>4. /\ TellsRecipient(u, row) => n("to") = 1
      /\ ~TellsRecipient(u, row) => n("to") = 0 \/ "to" \in TellsSubs(row, changed)
      /\ \A x \in Employees : x \in TellsSubs(row, changed) => n(x) = 1
      /\ \A x \in Employees : x \notin TellsSubs(row, changed) => n(x) = 0
  BY <1>3
<1> HIDE DEF n
<1> QED BY <1>1, <1>2, <1>4

LEMMA RowFitsKept ==
    ASSUME MemoTypes, toldOf' \in [Employees \cup {"to"} -> Nat], toldOf["to"] > 0 => toldOf'["to"] > 0,
           NEW row, RowFits(row)
    PROVE  RowFits(row)'
BY DEF RowFits

LEMMA WriteMemoInv == ASSUME MemoInv, WriteMemo PROVE MemoInv' /\ There'
<1>1. ~There /\ ~deleted /\ UNCHANGED <<writing, reviews, stale, deleted>>
  BY DEF WriteMemo
<1>0. PICK draft \in BOOLEAN, subs \in Teams, p \in {None} \cup Existing : \E row, changed :
        /\ row = [stage |-> "pending", draft |-> draft, notified |-> FALSE, subs |-> subs,
                  told |-> {}, project |-> p, reviewed |-> FALSE]
        /\ changed = {x \in {"subs", "draft"} : IF x = "subs" THEN subs # {} ELSE draft}
        /\ memo' = Told(Author, row, changed) /\ Tell(Author, row, changed) /\ last' = p
  BY DEF WriteMemo
<1>2. PICK row, changed :
        /\ row = [stage |-> "pending", draft |-> draft, notified |-> FALSE, subs |-> subs,
                  told |-> {}, project |-> p, reviewed |-> FALSE]
        /\ changed = {x \in {"subs", "draft"} : IF x = "subs" THEN subs # {} ELSE draft}
        /\ memo' = Told(Author, row, changed) /\ Tell(Author, row, changed) /\ last' = p
  BY <1>0
<1>3. Author \in Employees /\ row \in MemoRow
  BY <1>2, ProjectsAssumption, MemosAssumption DEF MemoRow, MemoStages, Existing
<1>4. /\ \A u \in Employees : writing[u] = NoForm
      /\ toldOf["to"] = 0 /\ \A x \in Employees : toldOf[x] = 0
      /\ last' \in Ids \cup {None}
  BY <1>1, <1>2 DEF MemoInv, WrittenOnce, MemoTypes, Existing
<1> DEFINE subscribers == TellsSubs(row, changed)
<1>5. subscribers \subseteq subs /\ (~draft => subscribers = subs)
  BY <1>2 DEF TellsSubs
<1>6. "to" \notin subscribers
  BY <1>3, <1>5, MemosAssumption, ProjectsAssumption
<1>7. /\ memo' \in MemoRow /\ memo'.draft = draft /\ memo'.subs = subs /\ memo'.stage = "pending"
      /\ memo'.project = last' /\ memo'.told = subscribers \ Mailless
      /\ memo'.notified <=> ~draft
  <2> PICK r : r = Told(Author, row, changed)
    OBVIOUS
  <2>1. /\ r \in MemoRow /\ r.draft = row.draft /\ r.subs = row.subs /\ r.stage = row.stage
        /\ r.project = row.project /\ r.told = row.told \cup (subscribers \ Mailless)
        /\ r.notified <=> row.notified \/ TellsRecipient(Author, row)
    BY <1>3, ToldRow
  <2>2. TellsRecipient(Author, row) <=> ~draft
    BY <1>2 DEF TellsRecipient
  <2> HIDE DEF subscribers
  <2> QED BY <1>2, <2>1, <2>2
<1>8. /\ toldOf' \in [Employees \cup {"to"} -> Nat]
      /\ ~draft => toldOf'["to"] = 1
      /\ draft => toldOf'["to"] = 0
      /\ \A x \in Employees : toldOf'[x] \in {0, 1} /\ (x \notin subscribers => toldOf'[x] = 0)
  <2>1. TellsRecipient(Author, row) <=> ~draft
    BY <1>2 DEF TellsRecipient
  <2>2. MemoTypes /\ Tell(Author, row, changed)
    BY <1>2 DEF MemoInv
  <2>3. /\ toldOf' \in [Employees \cup {"to"} -> Nat]
        /\ TellsRecipient(Author, row) => toldOf'["to"] = toldOf["to"] + 1
        /\ ~TellsRecipient(Author, row) => toldOf'["to"] = toldOf["to"] \/ "to" \in subscribers
        /\ \A x \in Employees : x \in subscribers => toldOf'[x] = toldOf[x] + 1
        /\ \A x \in Employees : x \notin subscribers => toldOf'[x] = toldOf[x]
    BY <2>2, ToldCounts
  <2> HIDE DEF subscribers
  <2> QED BY <1>4, <1>6, <2>1, <2>3
<1> HIDE DEF subscribers
<1>9. MemoTypes'
  BY <1>1, <1>4, <1>7, <1>8 DEF MemoInv, MemoTypes
<1>10. There'
  BY <1>7, <1>9, MemoIsRow, ProjectsApart DEF There
<1>11. RowFits(memo)'
  BY <1>7, <1>8 DEF RowFits
<1>12. MemoFits'
  BY <1>1, <1>4, <1>5, <1>7, <1>8, <1>11 DEF MemoFits
<1>13. ToldOnce'
  BY <1>7, <1>8 DEF ToldOnce
<1>14. WrittenOnce' /\ CopiesFit'
  BY <1>1, <1>4, <1>10 DEF WrittenOnce, CopiesFit
<1> QED BY <1>9, <1>10, <1>12, <1>13, <1>14 DEF MemoInv

(* A form that loads the memo fits.                                        *)
LEMMA LoadedFits ==
    ASSUME MemoInv, UNCHANGED <<memo, toldOf, reviews, last, stale, deleted>>, There,
           NEW u \in Employees, NEW f \in MemoForm \cup FromMemoForm, f.copy = memo,
           f \in MemoForm /\ f.draft # memo.draft => u = Author,
           writing' = [writing EXCEPT ![u] = f]
    PROVE  MemoInv'
<1>1. MemoTypes'
  BY DEF MemoInv, MemoTypes
<1>2. WrittenOnce' /\ MemoFits' /\ ToldOnce'
  BY DEF MemoInv, WrittenOnce, MemoFits, ToldOnce, There, RowFits
<1>3. \A v \in Employees : writing'[v] = IF v = u THEN f ELSE writing[v]
  BY DEF MemoInv, MemoTypes
<1>4. CopyFits(u, f)
  BY DEF CopyFits, MemoInv, MemoFits
<1>5. \A v \in Employees : writing'[v] # NoForm => CopyFits(v, writing'[v])
  BY <1>3, <1>4 DEF MemoInv, CopiesFit
<1>6. CopiesFit'
  BY <1>5 DEF CopiesFit, CopyFits, RowFits, There
<1> QED BY <1>1, <1>2, <1>6 DEF MemoInv

LEMMA PostMemoInv == ASSUME MemoInv, NEW u \in Employees, PostMemo(u) PROVE MemoInv'
<1>1. There /\ memo \in MemoRow
  BY MemoIsRow DEF MemoInv, PostMemo, MayWrite
<1>2. UNCHANGED <<memo, toldOf, reviews, last, stale, deleted>>
  BY DEF PostMemo
<1>3. PICK f \in [on : {"memo"}, copy : {memo}, stage : {"pending", "postponed", "reviewed"},
                 draft : BOOLEAN, subs : Teams, project : {None, memo.project} \cup Existing,
                 make : {None, "task"}] :
        /\ ~SetsDraft(u) => f.draft = memo.draft
        /\ writing' = [writing EXCEPT ![u] = f]
  BY DEF PostMemo
<1>4. f \in MemoForm
  BY <1>1, <1>3, ProjectsAssumption DEF MemoForm, MemoRow, MemoStages, Existing
<1>5. f.copy = memo /\ (f.draft # memo.draft => u = Author)
  BY <1>3 DEF SetsDraft
<1> QED BY <1>1, <1>2, <1>3, <1>4, <1>5, LoadedFits

LEMMA PostFromMemoInv == ASSUME MemoInv, NEW u \in Employees, PostFromMemo(u) PROVE MemoInv'
<1>1. There /\ memo \in MemoRow
  BY MemoIsRow DEF MemoInv, PostFromMemo
<1>2. UNCHANGED <<memo, toldOf, reviews, last, stale, deleted>>
  BY DEF PostFromMemo
<1>3. PICK p \in {None, memo.project} : writing' = [writing EXCEPT ![u] =
         [on |-> "project", copy |-> memo, project |-> p, people |->
            [r \in Roles |-> {IF r = "responsible" THEN u ELSE Author}]]]
  BY DEF PostFromMemo
<1>4. PICK f : f = [on |-> "project", copy |-> memo, project |-> p, people |->
                      [r \in Roles |-> {IF r = "responsible" THEN u ELSE Author}]]
  OBVIOUS
<1>5. [r \in Roles |-> {IF r = "responsible" THEN u ELSE Author}] \in People
  BY MemosAssumption DEF People
<1>6. p \in Ids \cup {None}
  BY <1>1 DEF MemoRow
<1>7. f \in FromMemoForm
  BY <1>1, <1>4, <1>5, <1>6 DEF FromMemoForm
<1>8. f.copy = memo /\ f \notin MemoForm
  BY <1>4, <1>7, ProjectsApart
<1> QED BY <1>1, <1>2, <1>3, <1>4, <1>7, <1>8, LoadedFits

LEMMA DeleteMemoInv == ASSUME MemoInv, NEW u, DeleteMemo(u) PROVE MemoInv'
<1>1. memo' = NoMemo /\ deleted' = TRUE /\ UNCHANGED <<writing, toldOf, reviews, last, stale>>
  BY DEF DeleteMemo
<1>2. ~There'
  BY <1>1 DEF There
<1>3. MemoTypes' /\ WrittenOnce' /\ MemoFits' /\ ToldOnce'
  BY <1>1, <1>2 DEF MemoInv, MemoTypes, WrittenOnce, MemoFits, ToldOnce
<1>4. CopiesFit'
  BY <1>1, <1>2 DEF MemoInv, CopiesFit, CopyFits, RowFits
<1> QED BY <1>3, <1>4 DEF MemoInv

(* A copy saved over the row it was made of, and one saved later.          *)
LEMMA Overwriting ==
    ASSUME MemoTypes, NEW f \in MemoForm \cup FromMemoForm, ~Overwrites(f)
    PROVE  /\ There /\ memo \in MemoRow /\ f.copy \in MemoRow
           /\ memo.stage = f.copy.stage /\ memo.draft = f.copy.draft /\ memo.notified = f.copy.notified
           /\ memo.project = f.copy.project /\ memo.reviewed = f.copy.reviewed
<1>1. There /\ SameRow(memo, f.copy) /\ memo \in MemoRow /\ f.copy \in MemoRow
  BY MemoIsRow DEF Overwrites, MemoForm, FromMemoForm
<1>2. PICK a, b : a = memo /\ b = f.copy
  OBVIOUS
<1>3. /\ [a EXCEPT !.subs = {}, !.told = {}] = [b EXCEPT !.subs = {}, !.told = {}]
      /\ a \in MemoRow /\ b \in MemoRow
  BY <1>1, <1>2 DEF SameRow
<1>4. a.stage = b.stage /\ a.draft = b.draft /\ a.notified = b.notified
      /\ a.project = b.project /\ a.reviewed = b.reviewed
  BY <1>3 DEF MemoRow
<1> QED BY <1>1, <1>2, <1>4

(* What a saved copy may do to the memo.                                   *)
LEMMA CopiesKept ==
    ASSUME MemoInv, MemoTypes', There', UNCHANGED deleted,
           NEW u \in Employees, writing' = [writing EXCEPT ![u] = NoForm],
           NEW f \in MemoForm \cup FromMemoForm, stale' = (stale \/ Overwrites(f)),
           toldOf["to"] > 0 => toldOf'["to"] > 0,
           There => memo.told \subseteq memo'.told
    PROVE  WrittenOnce' /\ CopiesFit'
<1>1. WrittenOnce'
  BY DEF MemoInv, WrittenOnce, Overwrites
<1> SUFFICES ASSUME NEW v \in Employees, writing'[v] # NoForm PROVE CopyFits(v, writing[v])'
  BY <1>1 DEF CopiesFit
<1>3. PICK g : g = writing[v] /\ g = writing'[v] /\ g # NoForm
  BY DEF MemoInv, MemoTypes
<1>4. CopyFits(v, g)
  BY <1>3 DEF MemoInv, CopiesFit
<1>5. RowFits(g.copy)'
  BY <1>4 DEF CopyFits, RowFits
<1>6. ~stale' => There /\ ~stale
  BY DEF Overwrites, MemoInv, MemoTypes
<1>7. CopyFits(v, g)'
  BY <1>4, <1>5, <1>6 DEF CopyFits
<1> QED BY <1>3, <1>7 DEF CopyFits, RowFits

LEMMA SaveMemoInv == ASSUME MemoInv, NEW u \in Employees, SaveMemo(u) PROVE MemoInv'
<1>0. PICK f : f = writing[u]
  OBVIOUS
<1>1. f \in MemoForm /\ f # NoForm /\ f.copy \in MemoRow
  <2>1. f \in MemoForm \cup FromMemoForm \cup {NoForm} /\ f.on = "memo"
    BY <1>0 DEF SaveMemo, MemoInv, MemoTypes
  <2>2. f \in MemoForm
    BY <2>1, ProjectsApart
  <2> QED BY <2>2, ProjectsApart DEF MemoForm
<1>2. PICK changed, row :
        /\ changed = {x \in {"subs", "draft"} : f[x] # f.copy[x]}
        /\ row = [f.copy EXCEPT !.stage = ReviewStage(f), !.draft = f.draft, !.subs = f.subs,
                                !.project = f.project, !.told = IF There THEN memo.told ELSE {}, !.reviewed = ReviewDate(f)]
        /\ memo' = Told(u, row, changed) /\ Tell(u, row, changed)
        /\ reviews' = reviews + Notices(f) /\ stale' = (stale \/ Overwrites(f))
        /\ writing' = [writing EXCEPT ![u] = NoForm]
        /\ last' = IF f.project = f.copy.project THEN last ELSE f.project
        /\ UNCHANGED <<deleted, left>>
  BY <1>0 DEF SaveMemo
<1>3. /\ row \in MemoRow /\ row.stage = ReviewStage(f) /\ row.draft = f.draft /\ row.subs = f.subs
      /\ row.told = (IF There THEN memo.told ELSE {}) /\ row.reviewed = ReviewDate(f)
      /\ row.notified = f.copy.notified /\ row.project = f.project
  <2>1. There => memo \in MemoRow
    BY MemoIsRow DEF MemoInv
  <2>2. ReviewStage(f) \in MemoStages /\ ReviewDate(f) \in BOOLEAN
    BY <1>1 DEF ReviewStage, ReviewDate, MemoForm, MemoRow, MemoStages
  <2>3. (IF There THEN memo.told ELSE {}) \in SUBSET Employees
    BY <2>1 DEF MemoRow
  <2>4. f.draft \in BOOLEAN /\ f.subs \in SUBSET Employees /\ f.project \in Ids \cup {None}
    BY <1>1 DEF MemoForm
  <2> QED BY <1>1, <1>2, <2>2, <2>3, <2>4 DEF MemoRow
<1> DEFINE subscribers == TellsSubs(row, changed)
           recipient == TellsRecipient(u, row)
<1>4. /\ memo' \in MemoRow /\ memo'.stage = ReviewStage(f) /\ memo'.draft = f.draft /\ memo'.subs = f.subs
      /\ memo'.project = f.project /\ memo'.reviewed = ReviewDate(f)
      /\ memo'.notified <=> f.copy.notified \/ recipient
      /\ memo'.told = (IF There THEN memo.told ELSE {}) \cup (subscribers \ Mailless)
  <2>1. PICK r : r = Told(u, row, changed)
    OBVIOUS
  <2>2. /\ r \in MemoRow /\ r.draft = row.draft /\ r.subs = row.subs /\ r.stage = row.stage
        /\ r.project = row.project /\ r.told = row.told \cup (subscribers \ Mailless)
        /\ r.reviewed = row.reviewed
        /\ r.notified <=> row.notified \/ recipient
    BY <1>3, <2>1, ToldRow
  <2> HIDE DEF subscribers, recipient
  <2> QED BY <1>2, <1>3, <2>1, <2>2
<1>5. subscribers \subseteq Employees /\ "to" \notin subscribers
      /\ \A x \in subscribers : x \notin row.told
  BY <1>3, MemosAssumption DEF TellsSubs, MemoRow
<1>6. /\ toldOf' \in [Employees \cup {"to"} -> Nat] /\ (toldOf["to"] > 0 => toldOf'["to"] > 0)
      /\ recipient => toldOf'["to"] = toldOf["to"] + 1
      /\ ~recipient => toldOf'["to"] = toldOf["to"]
      /\ \A x \in Employees : x \in subscribers => toldOf'[x] = toldOf[x] + 1
      /\ \A x \in Employees : x \notin subscribers => toldOf'[x] = toldOf[x]
  <2>1. MemoTypes /\ Tell(u, row, changed)
    BY <1>2 DEF MemoInv
  <2>2. /\ toldOf' \in [Employees \cup {"to"} -> Nat]
        /\ \A x \in Employees \cup {"to"} : toldOf[x] > 0 => toldOf'[x] > 0
        /\ recipient => toldOf'["to"] = toldOf["to"] + 1
        /\ ~recipient => toldOf'["to"] = toldOf["to"] \/ "to" \in subscribers
        /\ \A x \in Employees : x \in subscribers => toldOf'[x] = toldOf[x] + 1
        /\ \A x \in Employees : x \notin subscribers => toldOf'[x] = toldOf[x]
    BY <2>1, ToldCounts
  <2> HIDE DEF subscribers, recipient
  <2> QED BY <1>5, <2>2
<1>7. recipient <=> u = Author /\ ~f.draft /\ ~f.copy.notified
  BY <1>3 DEF TellsRecipient
<1>8. \A x \in f.subs : ~f.draft /\ x \notin subscribers =>
        x \in row.told \/ (f.subs = f.copy.subs /\ f.draft = f.copy.draft)
  BY <1>2, <1>3 DEF TellsSubs
<1>9. CopyFits(u, f) /\ MemoTypes
  BY <1>0, <1>1 DEF MemoInv, CopiesFit
<1> HIDE DEF subscribers, recipient
<1>10. MemoTypes'
  <2>1. reviews' \in Nat /\ stale' \in BOOLEAN /\ last' \in Ids \cup {None}
    BY <1>1, <1>2, <1>9 DEF MemoTypes, Notices, Overwrites, MemoForm
  <2> QED BY <1>2, <1>4, <1>6, <1>9, <2>1 DEF MemoTypes
<1>11. There'
  BY <1>4, <1>10, MemoIsRow, ProjectsApart DEF There
<1>12. RowFits(memo)'
  <2>1. ~f.draft \/ memo'.notified => toldOf'["to"] > 0
    <3>1. toldOf["to"] \in Nat
      BY <1>9 DEF MemoTypes
    <3>2. recipient => toldOf'["to"] > 0
      BY <1>6, <3>1
    <3>3. f.copy.notified \/ ~f.copy.draft => toldOf'["to"] > 0
      BY <1>6, <1>9 DEF CopyFits, RowFits
    <3>4. ~f.draft => recipient \/ f.copy.notified \/ ~f.copy.draft
      BY <1>1, <1>7, <1>9 DEF CopyFits, MemoForm
    <3> QED BY <1>4, <3>2, <3>3, <3>4
  <2>2. ReviewStage(f) = "reviewed" => ReviewDate(f)
    BY <1>9 DEF ReviewDate, CopyFits, RowFits
  <2> QED BY <1>4, <2>1, <2>2 DEF RowFits
<1>13. WrittenOnce' /\ CopiesFit'
  <2>1. There => memo.told \subseteq memo'.told
    BY <1>4
  <2> QED BY <1>1, <1>2, <1>6, <1>10, <1>11, <2>1, CopiesKept
<1>14. CASE stale'
  BY <1>10, <1>12, <1>13, <1>14 DEF MemoFits, ToldOnce, MemoInv
<1>15. CASE ~stale'
  <2>1. /\ ~stale /\ There /\ memo \in MemoRow
        /\ memo.notified = f.copy.notified /\ memo.project = f.copy.project
    BY <1>1, <1>2, <1>9, <1>15, Overwriting DEF MemoTypes
  <2>2. /\ ~memo.notified => toldOf["to"] = 0
        /\ \A x \in Employees \ (Mailless \cup memo.told) : toldOf[x] = 0
        /\ memo.project = last
    BY <2>1 DEF MemoInv, MemoFits
  <2>3. toldOf["to"] <= 1 /\ \A x \in Employees \ Mailless : toldOf[x] <= 1
    BY <2>1 DEF MemoInv, ToldOnce
  <2>4. row.told = memo.told /\ memo'.told = memo.told \cup (subscribers \ Mailless)
    BY <1>3, <1>4, <2>1
  <2>5. ~f.draft => f.subs \subseteq memo'.told \cup Mailless
    <3> SUFFICES ASSUME ~f.draft, NEW x \in f.subs, x \notin subscribers, x \notin memo.told PROVE x \in Mailless
      BY <2>4
    <3>1. f.subs = f.copy.subs /\ f.draft = f.copy.draft
      BY <1>8, <2>4
    <3> QED BY <1>9, <2>1, <3>1 DEF CopyFits
  <2>6. ~memo'.notified => toldOf'["to"] = 0
    BY <1>4, <1>6, <2>1, <2>2
  <2>7. \A x \in Employees \ (Mailless \cup memo'.told) : toldOf'[x] = 0
    BY <1>6, <2>2, <2>4
  <2>8. memo'.project = last'
    BY <1>2, <1>4, <2>1, <2>2
  <2>9. MemoFits'
    BY <1>4, <1>12, <2>5, <2>6, <2>7, <2>8 DEF MemoFits
  <2>10. toldOf'["to"] <= 1
    BY <1>6, <1>7, <2>1, <2>2, <2>3
  <2>11. \A x \in Employees \ Mailless : toldOf'[x] <= 1
    <3> SUFFICES ASSUME NEW x \in Employees \ Mailless PROVE toldOf'[x] <= 1
      OBVIOUS
    <3>1. CASE x \in subscribers
      BY <1>5, <1>6, <2>2, <2>4, <3>1
    <3>2. CASE x \notin subscribers
      BY <1>6, <2>3, <3>2
    <3> QED BY <3>1, <3>2
  <2> QED BY <1>10, <1>13, <2>9, <2>10, <2>11 DEF MemoInv, ToldOnce
<1> QED BY <1>14, <1>15

LEMMA SaveFromMemoInv == ASSUME MemoInv, NEW u \in Employees, SaveFromMemo(u) PROVE MemoInv'
<1>0. PICK f : f = writing[u]
  OBVIOUS
<1>1. f \in FromMemoForm /\ f # NoForm /\ f.copy \in MemoRow
  <2>1. f \in MemoForm \cup FromMemoForm \cup {NoForm} /\ f.on = "project"
    BY <1>0 DEF SaveFromMemo, MemoInv, MemoTypes
  <2>2. f \in FromMemoForm
    BY <2>1, ProjectsApart
  <2> QED BY <2>2, ProjectsApart DEF FromMemoForm
<1>2. PICK p \in IF f.project = None THEN Free ELSE {f.project} :
         IF Links(f)
         THEN /\ memo' = MadeOf(f, p)
              /\ reviews' = reviews + 1 /\ last' = p
              /\ stale' = (stale \/ Overwrites(f))
         ELSE UNCHANGED <<memo, reviews, last, stale>>
  BY <1>0 DEF SaveFromMemo
<1>3. UNCHANGED <<toldOf, deleted>> /\ writing' = [writing EXCEPT ![u] = NoForm]
  BY <1>0 DEF SaveFromMemo
<1>4. p \in Ids
  BY <1>1, <1>2 DEF Free, FromMemoForm
<1>5. CASE ~Links(f)
  <2>1. UNCHANGED <<memo, reviews, last, stale>>
    BY <1>2, <1>5
  <2>2. MemoTypes'
    BY <1>3, <2>1 DEF MemoInv, MemoTypes
  <2>3. MemoFits' /\ ToldOnce'
    BY <1>3, <2>1 DEF MemoInv, MemoFits, ToldOnce, RowFits, There
  <2>4. \A v \in Employees : writing'[v] \in {writing[v], NoForm}
    BY <1>3 DEF MemoInv, MemoTypes
  <2>5. WrittenOnce'
    BY <1>3, <2>1, <2>4 DEF MemoInv, WrittenOnce, There
  <2>6. \A v \in Employees : writing'[v] # NoForm => CopyFits(v, writing'[v])
    BY <2>4 DEF MemoInv, CopiesFit
  <2>7. CopiesFit'
    BY <1>3, <2>1, <2>6 DEF CopiesFit, CopyFits, RowFits, There
  <2> QED BY <2>2, <2>3, <2>5, <2>7 DEF MemoInv
<1>6. CASE Links(f)
  <2>1. memo' = MadeOf(f, p) /\ reviews' = reviews + 1 /\ last' = p /\ stale' = (stale \/ Overwrites(f))
    BY <1>2, <1>6
  <2>2. There => memo \in MemoRow
    BY MemoIsRow DEF MemoInv
  <2>3. /\ memo' \in MemoRow /\ memo'.stage = "reviewed" /\ memo'.reviewed /\ memo'.project = p
        /\ memo'.draft = f.copy.draft /\ memo'.notified = f.copy.notified
        /\ memo'.subs = (IF There THEN memo.subs ELSE {}) /\ memo'.told = (IF There THEN memo.told ELSE {})
    <3>1. (IF There THEN memo.subs ELSE {}) \in SUBSET Employees /\ (IF There THEN memo.told ELSE {}) \in SUBSET Employees
      BY <2>2 DEF MemoRow
    <3> QED BY <1>1, <1>4, <2>1, <3>1 DEF MadeOf, MemoRow, MemoStages
  <2>4. MemoTypes'
    BY <1>3, <1>4, <2>1, <2>3 DEF MemoInv, MemoTypes, Overwrites
  <2>5. There'
    BY <2>3, <2>4, MemoIsRow, ProjectsApart DEF There
  <2>6. WrittenOnce' /\ CopiesFit'
    BY <1>1, <1>3, <2>1, <2>3, <2>4, <2>5, CopiesKept
  <2>7. CopyFits(u, f) /\ MemoTypes
    BY <1>0, <1>1 DEF MemoInv, CopiesFit
  <2>8. RowFits(memo)'
    BY <1>3, <2>3, <2>7 DEF RowFits, CopyFits
  <2>9. CASE stale'
    BY <2>4, <2>6, <2>8, <2>9 DEF MemoFits, ToldOnce, MemoInv
  <2>10. CASE ~stale'
    <3>1. ~stale /\ There /\ memo.draft = f.copy.draft /\ memo.notified = f.copy.notified
      BY <1>1, <2>1, <2>7, <2>10, Overwriting DEF MemoTypes
    <3>2. MemoFits'
      BY <1>3, <2>1, <2>3, <2>8, <3>1 DEF MemoInv, MemoFits
    <3>3. ToldOnce'
      BY <1>3, <3>1 DEF MemoInv, ToldOnce
    <3> QED BY <2>4, <2>6, <3>2, <3>3 DEF MemoInv
  <2> QED BY <2>9, <2>10
<1> QED BY <1>5, <1>6
-----------------------------------------------------------------------------
LEMMA OfficeInitInv == ASSUME OfficeInit PROVE OfficeInv
<1>1. \A p \in Ids : project[p] = NoProject
  BY DEF OfficeInit, InitProjects
<1>2. Existing = {} /\ ~There
  BY <1>1 DEF Existing, OfficeInit, InitMemos, There
<1>3. /\ told \in Counts /\ joined \in Counts
      /\ \A p \in Ids, r \in Roles, u \in Employees : told[p][r][u] = 0 /\ joined[p][r][u] = 0
  BY DEF OfficeInit, InitProjects, Counts
<1>4. left \in [Kinds -> Nat] /\ closings \in [Ids -> Nat]
  BY ProjectsAssumption DEF OfficeInit, InitProjects, Kinds
<1>5. ProjectTypes
  BY <1>2, <1>3, <1>4 DEF OfficeInit, InitProjects, ProjectTypes
<1>6. FormsFit /\ Remembering /\ AllTold
  BY <1>2 DEF FormsFit, Remembering, AllTold, OfficeInit, InitProjects
<1>7. Joining
  BY <1>2, <1>3 DEF Joining
<1>8. MemoTypes /\ CopiesFit /\ MemoFits /\ ToldOnce /\ WrittenOnce
  <2>1. InitMemos
    BY DEF OfficeInit
  <2>2. MemoTypes
    BY <2>1 DEF InitMemos, MemoTypes
  <2>3. \A u \in Employees : writing[u] = NoForm
    BY <2>1 DEF InitMemos
  <2>4. toldOf["to"] = 0 /\ \A x \in DOMAIN toldOf : toldOf[x] = 0
    BY <2>1 DEF InitMemos
  <2>5. \A x \in Employees : toldOf[x] = 0
    BY <2>1 DEF InitMemos
  <2> QED BY <1>2, <2>1, <2>2, <2>3, <2>4, <2>5
       DEF InitMemos, CopiesFit, MemoFits, ToldOnce, WrittenOnce
<1> QED BY <1>5, <1>6, <1>7, <1>8 DEF OfficeInv, ProjectInv

LEMMA MemoStep == ASSUME MemoInv, MemoNext PROVE MemoInv'
BY WriteMemoInv, PostMemoInv, SaveMemoInv, DeleteMemoInv, PostFromMemoInv DEF MemoNext

LEMMA MemoUntouched == ASSUME MemoInv, UNCHANGED memoVars PROVE MemoInv'
BY DEF memoVars, MemoInv, MemoTypes, WrittenOnce, CopiesFit, CopyFits, MemoFits, RowFits, ToldOnce, There

LEMMA ProjectUntouched ==
    ASSUME ProjectInv, UNCHANGED projectVars, left' \in [Kinds -> Nat] PROVE ProjectInv' /\ ClosedTold
<1>1. ProjectTypes' /\ FormsFit'
  BY DEF projectVars, ProjectInv, ProjectTypes, Existing, FormsFit, FormFits, Concerned
<1>2. Remembering' /\ Joining' /\ AllTold'
  BY DEF projectVars, ProjectInv, Remembering, Joining, AllTold, Existing, Concerned
<1>3. ClosedTold
  BY NotClosed DEF projectVars
<1> QED BY <1>1, <1>2, <1>3 DEF ProjectInv

(* The memo is made reviewed by who is told of it, or by a copy of one     *)
(* that was reviewed.                                                      *)
ReviewNoticed == There /\ memo.stage # "reviewed" /\ memo'.stage = "reviewed" =>
    \/ reviews' > reviews
    \/ \E u \in Employees : writing[u] # writing'[u] /\ writing[u].copy.stage = "reviewed"

LEMMA SaveMemoNotices == ASSUME MemoInv, NEW u \in Employees, SaveMemo(u) PROVE ReviewNoticed
<1> SUFFICES ASSUME memo'.stage = "reviewed", writing[u].copy.stage # "reviewed" \/ writing[u] = writing'[u]
             PROVE  reviews' > reviews
  BY DEF ReviewNoticed
<1>0. PICK f : f = writing[u]
  OBVIOUS
<1>1. f.on = "memo" /\ writing'[u] = NoForm
  BY <1>0 DEF SaveMemo, MemoInv, MemoTypes
<1>2. f.copy.stage # "reviewed"
  BY <1>0, <1>1, ProjectsApart
<1>3. f \in MemoForm
  BY <1>0, <1>1, ProjectsApart DEF MemoInv, MemoTypes
<1>4. PICK row, changed : memo' = Told(u, row, changed) /\ row.stage = ReviewStage(f) /\ row \in MemoRow
      /\ reviews' = reviews + Notices(f)
  <2> DEFINE changed == {x \in {"subs", "draft"} : f[x] # f.copy[x]}
             row == [f.copy EXCEPT !.stage = ReviewStage(f), !.draft = f.draft, !.subs = f.subs,
                                   !.project = f.project, !.told = IF There THEN memo.told ELSE {}, !.reviewed = ReviewDate(f)]
  <2>1. memo' = Told(u, row, changed) /\ reviews' = reviews + Notices(f)
    BY <1>0 DEF SaveMemo
  <2>2. There => memo \in MemoRow
    BY MemoIsRow DEF MemoInv
  <2>3. ReviewStage(f) \in MemoStages /\ ReviewDate(f) \in BOOLEAN
    BY <1>3 DEF ReviewStage, ReviewDate, MemoForm, MemoRow, MemoStages
  <2>4. (IF There THEN memo.told ELSE {}) \in SUBSET Employees
    BY <2>2 DEF MemoRow
  <2>5. row \in MemoRow /\ row.stage = ReviewStage(f)
    BY <1>3, <2>3, <2>4 DEF MemoForm, MemoRow
  <2> QED BY <2>1, <2>5
<1>5. ReviewStage(f) = "reviewed"
  BY <1>4, ToldRow
<1>6. Notices(f) = 1
  BY <1>2, <1>5 DEF Notices
<1> QED BY <1>4, <1>6 DEF MemoInv, MemoTypes

LEMMA MemoNotices == ASSUME MemoInv, MemoNext PROVE ReviewNoticed
<1>1. WriteMemo => ReviewNoticed
  BY DEF WriteMemo, ReviewNoticed
<1>2. \A u \in Employees : PostMemo(u) \/ PostFromMemo(u) => ReviewNoticed
  BY DEF PostMemo, PostFromMemo, ReviewNoticed
<1>3. \A u \in Employees : DeleteMemo(u) => ReviewNoticed
  BY DEF DeleteMemo, ReviewNoticed, NoMemo, None
<1> QED BY <1>1, <1>2, <1>3, SaveMemoNotices DEF MemoNext

LEMMA FromMemoNotices == ASSUME MemoInv, NEW u \in Employees, SaveFromMemo(u) PROVE ReviewNoticed
<1>1. \/ UNCHANGED memo
      \/ reviews' = reviews + 1
  BY DEF SaveFromMemo
<1> QED BY <1>1 DEF ReviewNoticed, MemoInv, MemoTypes

LEMMA FromMemoProject == ASSUME ProjectInv, MemoInv, NEW u \in Employees, SaveFromMemo(u)
                         PROVE  ProjectInv' /\ ClosedTold
<1>0. PICK f : f = writing[u]
  OBVIOUS
<1>1. f \in FromMemoForm /\ f.people \in People
  BY <1>0, ProjectsApart DEF SaveFromMemo, MemoInv, MemoTypes, FromMemoForm
<1>2. UNCHANGED <<editing, left>> /\ left' \in [Kinds -> Nat]
  BY DEF SaveFromMemo, ProjectInv, ProjectTypes
<1>3. CASE f.project = None
  <2>1. PICK p \in Free : Create(u, p, f.people)
    BY <1>0, <1>3 DEF SaveFromMemo
  <2> QED BY <1>1, <1>2, <2>1, CreateInv, CreateCloses
<1>4. CASE f.project # None
  <2>1. UNCHANGED projectVars
    BY <1>0, <1>2, <1>4 DEF SaveFromMemo, projectVars
  <2> QED BY <1>2, <2>1, ProjectUntouched
<1> QED BY <1>3, <1>4

LEMMA OfficeStep ==
    ASSUME OfficeInv, [OfficeNext]_officeVars PROVE OfficeInv' /\ ClosedTold /\ ReviewNoticed
<1>0. ProjectInv /\ MemoInv
  BY DEF OfficeInv, MemoInv
<1>1. CASE MemoNext /\ UNCHANGED projectVars
  <2>1. left' \in [Kinds -> Nat]
    BY <1>0, <1>1, Counting DEF MemoNext, WriteMemo, PostMemo, SaveMemo, DeleteMemo, PostFromMemo, Kinds,
       ProjectInv, ProjectTypes
  <2> QED BY <1>0, <1>1, <2>1, MemoStep, MemoNotices, ProjectUntouched DEF OfficeInv, MemoInv
<1>2. ASSUME NEW u \in Employees, SaveFromMemo(u) PROVE OfficeInv' /\ ClosedTold /\ ReviewNoticed
  BY <1>0, <1>2, SaveFromMemoInv, FromMemoNotices, FromMemoProject DEF OfficeInv, MemoInv
<1>3. CASE ProjectsNext /\ UNCHANGED memoVars
  <2>1. ReviewNoticed
    BY <1>3 DEF ReviewNoticed, memoVars
  <2> QED BY <1>0, <1>3, <2>1, ProjectStep, MemoUntouched DEF OfficeInv, MemoInv
<1>4. CASE UNCHANGED officeVars
  <2>1. UNCHANGED <<projectVars, memoVars, left>>
    BY <1>4 DEF officeVars
  <2>2. left' \in [Kinds -> Nat]
    BY <1>0, <2>1 DEF ProjectInv, ProjectTypes
  <2>3. ReviewNoticed
    BY <2>1 DEF ReviewNoticed, memoVars
  <2> QED BY <1>0, <2>1, <2>2, <2>3, ProjectUntouched, MemoUntouched DEF OfficeInv, MemoInv
<1> QED BY <1>1, <1>2, <1>3, <1>4 DEF OfficeNext

LEMMA OfficeInvHolds == OfficeSpec => []OfficeInv
<1>1. OfficeInit => OfficeInv
  BY OfficeInitInv
<1>2. OfficeInv /\ [OfficeNext]_officeVars => OfficeInv'
  BY OfficeStep
<1> QED BY <1>1, <1>2, PTL DEF OfficeSpec

(* For any employees, ids and requests: everybody on a project was told of *)
(* it, and no more often than he was put on it; a published memo is known  *)
(* to its recipient and its subscribers, who were told once; it has the    *)
(* date of its review and names the project made of it, or what a form     *)
(* sent of that, stale copies apart (tasks/site/tasksbasemodeladmin.py:597,*)
(* tasks/site/memoadmin.py:341).                                           *)
THEOREM PeopleAreTold == OfficeSpec => []PeopleTold
<1>1. ASSUME OfficeInv PROVE PeopleTold
  <2> USE <1>1
  <2>1. \A p \in Existing : project[p] \in ProjectRow
    BY DEF OfficeInv, ProjectInv, ProjectTypes, Existing
  <2>2. \A p \in Existing, r \in Roles : project[p].notified[r] \subseteq Employees
    BY <2>1 DEF ProjectRow, People
  <2>3. ProjectsTypeOK
    BY <2>1, <2>2 DEF ProjectsTypeOK, OfficeInv, ProjectInv, ProjectTypes, ProjectRow
  <2>4. There => memo \in MemoRow
    BY MemoIsRow DEF OfficeInv
  <2>5. MemosTypeOK
    BY <2>3, <2>4 DEF MemosTypeOK, MemoRow, MemoStages, OfficeInv, ProjectInv, ProjectTypes
  <2>6. ToldOnJoining
    BY DEF ToldOnJoining, OfficeInv, ProjectInv, Joining, Exempt
  <2>7. Published /\ ReviewDated
    BY DEF Published, ReviewDated, OfficeInv, MemoFits, RowFits
  <2>8. NamesProject
    BY DEF NamesProject, OfficeInv, MemoFits
  <2> QED BY <2>5, <2>6, <2>7, <2>8 DEF PeopleTold, OfficeInv, ProjectInv
<1> QED BY <1>1, OfficeInvHolds, PTL

(* The end of a project and the review of a memo are told in the step that *)
(* makes them, except by copies of what had ended or was reviewed          *)
(* (tasks/site/projectadmin.py:69, tasks/site/memoadmin.py:341).           *)
THEOREM EndsAreTold == OfficeSpec => EndsTold
<1>1. OfficeInv /\ [OfficeNext]_officeVars => ClosedTold /\ ReviewNoticed
  BY OfficeStep
<1>2. OfficeSpec => [][ClosedTold]_projectVars /\ [][ReviewNoticed]_memoVars
  BY <1>1, OfficeInvHolds, PTL DEF OfficeSpec
<1> QED BY <1>2, PTL DEF EndsTold, ClosingTold, ReviewTold, ClosedTold, ReviewNoticed
=============================================================================
