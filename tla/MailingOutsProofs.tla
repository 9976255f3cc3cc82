-------------------------- MODULE MailingOutsProofs --------------------------
(***************************************************************************)
(* For any sets of mailings, recipients, accounts and users: type          *)
(* correctness, nobody falls off the lists (NobodyIsLost), recording       *)
(* cannot fail (RecordingIsSafe), exclusion excludes (ExclusionHolds), and *)
(* nobody is sent a message more often than he was put on a mailing: the   *)
(* table and the thread implement Delivery (SentAtMostOnce, PromiseIsKept).*)
(* Then the notices, the reminders and the chat, of any users, requests and *)
(* rows: nothing rings twice or hangs in the air (AlertsAlwaysSound), and   *)
(* nothing is forgotten on the way (NothingIsForgotten).                    *)
(***************************************************************************)
EXTENDS MailingOuts, Alerts, FiniteSetTheorems, TLAPS

LEMMA SizeType ==
    ASSUME NEW l \in Ids
    PROVE  Size(l) \in Nat
<1> DEFINE piece == [r \in Recipients |-> {r} \X (1 .. l[r])]
           pieces == {{r} \X (1 .. l[r]) : r \in Recipients}
<1>1. piece \in Surjection(Recipients, pieces)
  BY DEF Surjection
<1>2. IsFiniteSet(pieces)
  BY <1>1, FS_Surjection, MailingAssumption
<1>3. \A T \in pieces : IsFiniteSet(T)
  <2> TAKE T \in pieces
  <2>1. PICK r \in Recipients : T = {r} \X (1 .. l[r])
    OBVIOUS
  <2>2. IsFiniteSet({r})
    BY FS_Singleton
  <2>3. 1 \in Int /\ l[r] \in Int
    BY DEF Ids
  <2>4. IsFiniteSet(1 .. l[r])
    BY <2>3, FS_Interval
  <2> QED BY <2>1, <2>2, <2>4, FS_Product
<1>4. IsFiniteSet(UNION pieces)
  BY <1>2, <1>3, FS_UNION
<1> QED BY <1>4, FS_CardinalityType DEF Size

LEMMA IdsType ==
    /\ NoIds \in Ids
    /\ \A S : OnceEach(S) \in Ids
    /\ \A l, k \in Ids : Joined(l, k) \in Ids
    /\ \A l \in Ids : \A S : Keep(l, S) \in Ids
    /\ \A l \in Ids, r \in Recipients : Add(l, r) \in Ids
    /\ \A l \in Ids, r \in Recipients : l[r] > 0 => Drop(l, r) \in Ids
BY DEF Ids, NoIds, OnceEach, Joined, Keep, Add, Drop

LEMMA RowType ==
    /\ Blank \in Row
    /\ \A st \in Status : \A S : NewRow(st, S) \in Row
<1>1. Blank \in Row
  BY IdsType DEF Blank, Row, Status
<1>2. ASSUME NEW st \in Status, NEW S PROVE NewRow(st, S) \in Row
  <2>1. OnceEach(S) \in Ids /\ Size(OnceEach(S)) \in Int
    BY IdsType, SizeType
  <2> QED BY <2>1, <1>1 DEF NewRow, Row
<1> QED BY <1>1, <1>2

LEMMA SaveRowType ==
    ASSUME TypeOK, NEW m \in Mailings, NEW row \in Row, SaveRow(m, row)
    PROVE  /\ live' \subseteq Mailings /\ used' \subseteq Mailings
           /\ mo' \in [Mailings -> Row]
BY DEF TypeOK, SaveRow

LEMMA ForgetType ==
    ASSUME Forget
    PROVE  /\ pc' = "idle" /\ todo' \subseteq Mailings
           /\ local' \in [Mailings -> Row]
           /\ cur' \in Mailings \cup {NoMail}
           /\ rids' \subseteq Recipients /\ eas' \subseteq Accounts
           /\ target' \in Pairs \cup {Nobody}
BY RowType DEF Forget

\* The parts of TypeOK that the sender's own variables make up.
SenderType ==
    /\ pc \in {"idle", "mailing", "accounts", "send", "sent", "count"}
    /\ todo \subseteq Mailings
    /\ local \in [Mailings -> Row]
    /\ cur \in Mailings \cup {NoMail}
    /\ pc \in {"accounts", "send", "sent", "count"} => cur \in Mailings
    /\ rids \subseteq Recipients /\ eas \subseteq Accounts
    /\ target \in Pairs \cup {Nobody}
    /\ pc \in {"send", "sent", "count"} => target \in Pairs
DbType == live \subseteq Mailings /\ used \subseteq Mailings /\ mo \in [Mailings -> Row]
PeopleType ==
    /\ mc \in [Recipients -> Accounts \cup {NoMail}]
    /\ unsub \subseteq Recipients /\ exists \subseteq Recipients
    /\ on \subseteq Accounts /\ full \subseteq Accounts
OtherType ==
    /\ web = NoWeb \/ web \in Requests
    /\ merge \in [Mailings -> Merges \cup {NoMerge}]
    /\ since \subseteq Recipients
    /\ ops \in Nat
    /\ sent \in Ids /\ due \in Ids
    /\ lists \subseteq Recipients
    /\ disturbed \in BOOLEAN

LEMMA TypeParts == TypeOK <=> SenderType /\ DbType /\ PeopleType /\ OtherType
BY Zenon DEF TypeOK, SenderType, DbType, PeopleType, OtherType

LEMMA TypeInit == Init => TypeOK
<1> SUFFICES ASSUME Init PROVE TypeOK
  OBVIOUS
<1> USE DEF Init
<1>1. SenderType
  BY RowType DEF SenderType, NoMail, Nobody, Pairs
<1>2. DbType
  <2>1. \A m \in Mailings : NewRow("A", Recipients) \in Row /\ Blank \in Row
    BY RowType DEF Status
  <2> QED BY <2>1, MailingAssumption DEF DbType
<1>3. PeopleType
  BY DEF PeopleType
<1>4. OtherType
  <2>1. Cardinality(Initial) \in Nat
    BY MailingAssumption, FS_CardinalityType
  <2>2. merge \in [Mailings -> Merges \cup {NoMerge}]
    OBVIOUS
  <2> QED BY <2>1, <2>2, IdsType DEF OtherType, Ids
<1> QED BY <1>1, <1>2, <1>3, <1>4, TypeParts

LEMMA RoundType ==
    ASSUME TypeOK, Round
    PROVE  TypeOK'
<1> USE DEF TypeOK
<1>1. CASE StartRound
  <2>1. local' \in [Mailings -> Row]
    BY <1>1, RowType DEF StartRound
  <2> QED BY <1>1, <2>1 DEF StartRound, db, env, requests, history, CheckOwners
<1>2. CASE EndRound
  BY <1>2, ForgetType DEF EndRound, db, env, requests, history
<1>3. ASSUME NEW m \in Mailings, SuccessReport(m) PROVE TypeOK'
  <2>1. [local[m] EXCEPT !.status = "D"] \in Row
    BY DEF Row, Status
  <2>2. local' \in [Mailings -> Row]
    BY <1>3, RowType DEF SuccessReport
  <2>3. DbType'
    BY <1>3, <2>1, SaveRowType DEF SuccessReport, DbType
  <2> QED BY <1>3, <2>2, <2>3 DEF SuccessReport, DbType, env, requests, history
<1>4. ASSUME NEW m \in Mailings, BeginMailing(m) PROVE TypeOK'
  <2>1. mc' \in [Recipients -> Accounts \cup {NoMail}]
    BY <1>4 DEF BeginMailing, FixMassContacts
  <2> QED BY <1>4, <2>1 DEF BeginMailing, db, env, requests, history, Members
<1>5. ASSUME NEW a \in Accounts, SkipAccount(a) PROVE TypeOK'
  BY <1>5 DEF SkipAccount, NextAccount, db, env, requests, history
<1>6. ASSUME NEW a \in Accounts, NEW r \in Recipients, DropGone(a, r) PROVE TypeOK'
  <2> DEFINE row == [local[cur] EXCEPT !.rcpt = Drop(@, r), !.num = @ - 1]
  <2>1. CASE local[cur].rcpt[r] > 0 /\ Saves(row)
    <3>1. row \in Row
      <4>1. local[cur] \in Row /\ local[cur].rcpt \in Ids /\ local[cur].num \in Int
        BY <1>6 DEF DropGone, Row
      <4>2. Drop(local[cur].rcpt, r) \in Ids
        BY <4>1, <2>1, IdsType
      <4>3. local[cur].num - 1 \in Int
        BY <4>1
      <4> HIDE DEF TypeOK
      <4> QED BY <4>1, <4>2, <4>3 DEF Row
    <3>2. SaveRow(cur, row) /\ local' = [local EXCEPT ![cur] = row] /\ cur \in Mailings
      BY <1>6, <2>1 DEF DropGone
    <3>3. DbType'
      BY <3>1, <3>2, SaveRowType DEF DbType
    <3>4. SenderType'
      BY <1>6, <2>1, <3>1, <3>2 DEF DropGone, SenderType, NextAccount
    <3>5. PeopleType' /\ OtherType'
      BY <1>6, <2>1 DEF DropGone, PeopleType, OtherType, env, requests, history
    <3> QED BY <3>3, <3>4, <3>5 DEF SenderType, DbType, PeopleType, OtherType
  <2>2. CASE ~(local[cur].rcpt[r] > 0 /\ Saves(row))
    <3>1. Forget /\ UNCHANGED <<db, mc, disturbed, env, on, full, requests, ops, sent, history>>
      BY <1>6, <2>2 DEF DropGone
    <3> QED BY <3>1, ForgetType DEF db, env, requests, history
  <2> QED BY <2>1, <2>2
<1>7. ASSUME NEW a \in Accounts, NEW r \in Recipients, Pick(a, r) PROVE TypeOK'
  BY <1>7 DEF Pick, db, env, requests, history, Pairs
<1>8. CASE EndMailing
  <2>1. local' \in [Mailings -> Row]
    BY <1>8, RowType DEF EndMailing
  <2> QED BY <1>8, <2>1 DEF EndMailing, db, env, requests, history
<1>9. CASE Deliver
  <2>1. sent' \in Ids
    BY <1>9, IdsType DEF Deliver, Pairs
  <2> QED BY <1>9, <2>1 DEF Deliver, db, env, requests, history
<1>10. CASE Record
  <2> DEFINE r == target[2]
             row == [local[cur] EXCEPT !.rcpt = Drop(@, r), !.succ = Add(@, r)]
  <2>0. r \in Recipients /\ cur \in Mailings
    BY <1>10 DEF Record, Pairs
  <2>1. CASE local[cur].rcpt[r] > 0
    <3>1. row \in Row
      <4>1. local[cur].rcpt \in Ids /\ local[cur].succ \in Ids
        BY <2>0 DEF Row
      <4>2. Drop(local[cur].rcpt, r) \in Ids /\ Add(local[cur].succ, r) \in Ids
        BY <4>1, <2>0, <2>1, IdsType
      <4> QED BY <2>0, <4>2 DEF Row
    <3>2. SaveRow(cur, row) /\ local' = [local EXCEPT ![cur] = row]
      BY <1>10, <2>1 DEF Record
    <3>3. DbType'
      BY <2>0, <3>1, <3>2, SaveRowType DEF DbType
    <3>4. SenderType'
      BY <1>10, <2>0, <2>1, <3>1, <3>2 DEF Record, SenderType
    <3>5. PeopleType' /\ OtherType'
      BY <1>10, <2>0, <2>1 DEF Record, Noted, PeopleType, OtherType, env, history
    <3> QED BY <3>3, <3>4, <3>5 DEF SenderType, DbType, PeopleType, OtherType
  <2>2. CASE ~(local[cur].rcpt[r] > 0)
    <3>1. Forget /\ UNCHANGED <<db, disturbed, mc, env, on, full, web, merge, ops, sent, history>>
      BY <1>10, <2>2 DEF Record
    <3>2. since' \subseteq Recipients
      BY <1>10, <2>0 DEF Record, Noted
    <3> QED BY <3>1, <3>2, ForgetType DEF db, env, history
  <2> QED BY <2>1, <2>2
<1>11. CASE CounterIncrement
  <2>1. cur \in Mailings /\ target \in Pairs
    BY <1>11 DEF CounterIncrement
  <2>2. DbType'
    BY <1>11, <2>1, SaveRowType DEF CounterIncrement, DbType
  <2> QED BY <1>11, <2>1, <2>2 DEF CounterIncrement, DbType, NextAccount, env, requests, history, Pairs
<1> QED
  BY <1>1, <1>2, <1>3, <1>4, <1>5, <1>6, <1>7, <1>8, <1>9, <1>10, <1>11 DEF Round

LEMMA FailureType ==
    ASSUME TypeOK, Failure
    PROVE  TypeOK'
<1> USE DEF TypeOK
<1>1. CASE AuthError
  <2> DEFINE row == [local[cur] EXCEPT !.status = "E"]
  <2>1. cur \in Mailings /\ target \in Pairs /\ row \in Row
    BY <1>1 DEF AuthError, Row, Status
  <2>2. DbType'
    BY <1>1, <2>1, SaveRowType DEF AuthError, DbType
  <2>3. SenderType'
    BY <1>1, <2>1 DEF AuthError, SenderType, NextAccount
  <2>4. PeopleType' /\ OtherType'
    BY <1>1 DEF AuthError, PeopleType, OtherType, env, requests, history
  <2> QED BY <2>2, <2>3, <2>4 DEF SenderType, DbType, PeopleType, OtherType
<1>2. CASE SendError
  <2> DEFINE r == target[2]
             row == [local[cur] EXCEPT !.status = "E", !.rcpt = Drop(@, r),
                                       !.failed = Add(@, r)]
  <2>0. r \in Recipients /\ cur \in Mailings
    BY <1>2 DEF SendError, Pairs
  <2>1. sent' \in Ids /\ disturbed' \in BOOLEAN
    <3>1. Add(sent, r) \in Ids
      BY <2>0, IdsType
    <3> QED BY <1>2, <3>1 DEF SendError
  <2>2. OtherType' /\ PeopleType'
    BY <1>2, <2>1 DEF SendError, OtherType, PeopleType, env, requests, history
  <2>3. CASE local[cur].rcpt[r] > 0
    <3>1. row \in Row
      <4>1. local[cur] \in Row /\ local[cur].rcpt \in Ids /\ local[cur].failed \in Ids
        BY <2>0 DEF Row
      <4>2. Drop(local[cur].rcpt, r) \in Ids /\ Add(local[cur].failed, r) \in Ids
        BY <4>1, <2>0, <2>3, IdsType
      <4> HIDE DEF TypeOK
      <4> QED BY <4>1, <4>2 DEF Row, Status
    <3>2. /\ SaveRow(cur, row) /\ local' = [local EXCEPT ![cur] = row]
          /\ NextAccount(target[1]) /\ UNCHANGED <<todo, cur, rids>>
      BY <1>2, <2>3 DEF SendError
    <3>3. DbType'
      BY <2>0, <3>1, <3>2, SaveRowType DEF DbType
    <3>4. SenderType'
      BY <2>0, <3>1, <3>2 DEF SenderType, NextAccount
    <3> QED BY <2>2, <3>3, <3>4 DEF SenderType, DbType, PeopleType, OtherType
  <2>4. CASE ~(local[cur].rcpt[r] > 0)
    <3>1. Forget /\ UNCHANGED db
      BY <1>2, <2>4 DEF SendError
    <3>2. SenderType' /\ DbType'
      BY <3>1, ForgetType DEF SenderType, DbType, db
    <3> QED BY <2>2, <3>2 DEF SenderType, DbType, PeopleType, OtherType
  <2> QED BY <2>3, <2>4
<1>3. CASE Crash
  BY <1>3, ForgetType DEF Crash, db, env, requests, history
<1> QED BY <1>1, <1>2, <1>3 DEF Failure

LEMMA HeldRow ==
    ASSUME TypeOK, SaveRequest
    PROVE  /\ web \in Requests /\ web # NoWeb /\ web.m \in Mailings /\ web.row \in Row
           /\ web.kind = "looked" => web.out \subseteq Recipients
<1>1. web.kind \in {"change", "failed", "exclude", "looked"}
  BY Zenon DEF SaveRequest, SaveModel, SendFailedRecipients, LookForSent, SaveExcluded
<1>2. NoWeb.kind = "none"
  BY DEF NoWeb
<1>3. web # NoWeb /\ web \in Requests
  BY <1>1, <1>2 DEF TypeOK
<1> QED BY <1>3 DEF Requests

LEMMA SaveRequestType ==
    ASSUME TypeOK, SaveRequest
    PROVE  TypeOK'
<1> USE DEF TypeOK
<1>0. web \in Requests /\ web.m \in Mailings /\ web.row \in Row
      /\ (web.kind = "looked" => web.out \subseteq Recipients)
  BY HeldRow
<1>r. ASSUME Reply PROVE SenderType' /\ PeopleType'
             /\ (DbType' /\ lists' \subseteq Recipients /\ disturbed' \in BOOLEAN => TypeOK')
  BY <1>r DEF Reply, SenderType, PeopleType, DbType, env, sender
<1>1. ASSUME NEW st \in Status, SaveModel(st) PROVE TypeOK'
  <2> DEFINE usable == \E a \in on : AccountOwner[a] = MailingOwner[web.m]
             new == IF st = "A" /\ web.row.status # "A" /\ ~usable THEN "P" ELSE st
  <2>1. [web.row EXCEPT !.status = new] \in Row
    BY <1>0 DEF Row, Status
  <2>2. SaveRow(web.m, [web.row EXCEPT !.status = new])
    BY <1>1 DEF SaveModel
  <2>3. DbType'
    BY <1>0, <2>1, <2>2, SaveRowType DEF DbType
  <2> QED BY <1>1, <1>r, <2>3 DEF SaveModel
<1>2. CASE SendFailedRecipients
  <2> DEFINE row == [web.row EXCEPT !.status = "A", !.rcpt = Joined(@, web.row.failed),
                                    !.failed = NoIds]
  <2>1. row \in Row
    <3>1. web.row.rcpt \in Ids /\ web.row.failed \in Ids
      BY <1>0 DEF Row
    <3>2. Joined(web.row.rcpt, web.row.failed) \in Ids /\ NoIds \in Ids
      BY <3>1, IdsType
    <3> QED BY <1>0, <3>2 DEF Row, Status
  <2>2. SaveRow(web.m, row)
    BY <1>2 DEF SendFailedRecipients
  <2>3. DbType'
    BY <1>0, <2>1, <2>2, SaveRowType DEF DbType
  <2> QED BY <1>2, <1>r, <2>3 DEF SendFailedRecipients
<1>3. CASE LookForSent
  <2>1. web' \in Requests
    <3>1. Excluded(web.row.rcpt) \subseteq Recipients
      BY DEF Excluded, Members
    <3> QED BY <1>0, <1>3, <3>1 DEF LookForSent, Requests
  <2> QED BY <1>3, <2>1 DEF LookForSent, db, env, sender, history
<1>4. CASE SaveExcluded
  <2> DEFINE rest == Keep(web.row.rcpt, web.out)
  <2>1. rest \in Ids /\ Size(rest) \in Int
    <3>1. web.row.rcpt \in Ids
      BY <1>0 DEF Row
    <3>2. rest \in Ids
      BY <3>1, IdsType
    <3>3. Size(rest) \in Nat
      BY <3>2, SizeType
    <3> QED BY <3>2, <3>3
  <2>2. \/ /\ mo' = [mo EXCEPT ![web.m].rcpt = rest, ![web.m].num = Size(rest)]
           /\ UNCHANGED <<live, used>>
        \/ UNCHANGED db
    BY <1>4 DEF SaveExcluded
  <2>3. DbType'
    <3> HIDE DEF rest
    <3>1. CASE mo' = [mo EXCEPT ![web.m].rcpt = rest, ![web.m].num = Size(rest)]
      <4>1. mo[web.m] \in Row
        BY <1>0 DEF DbType
      <4>2. [mo[web.m] EXCEPT !.rcpt = rest, !.num = Size(rest)] \in Row
        BY <2>1, <4>1 DEF Row
      <4>3. mo' = [mo EXCEPT ![web.m] = [mo[web.m] EXCEPT !.rcpt = rest, !.num = Size(rest)]]
        BY <1>0, <3>1 DEF DbType
      <4> QED BY <1>0, <2>2, <3>1, <4>2, <4>3 DEF DbType, db
    <3> QED BY <1>0, <2>2, <3>1 DEF DbType, db
  <2>4. lists' \subseteq Recipients /\ disturbed' \in BOOLEAN
    BY <1>4 DEF SaveExcluded
  <2> QED BY <1>4, <1>r, <2>3, <2>4 DEF SaveExcluded
<1> QED BY <1>1, <1>2, <1>3, <1>4 DEF SaveRequest

LEMMA NewMailingType ==
    ASSUME TypeOK, NEW m \in Mailings, NEW S \in SUBSET Recipients, NewMailing(m, S)
    PROVE  TypeOK'
<1>1. NewRow("P", S) \in Row /\ Joined(due, OnceEach(S)) \in Ids
  BY RowType, IdsType DEF TypeOK, Status
<1> QED BY <1>1 DEF NewMailing, Operation, TypeOK, env, sender, requests

LEMMA UnitedType ==
    ASSUME NEW x \in Row, NEW y \in Row
    PROVE  United(x, y) \in Row
<1>1. x.num + y.num \in Int
  BY DEF Row
<1>2. Joined(x.succ, y.succ) \in Ids /\ Joined(x.failed, y.failed) \in Ids
  BY IdsType DEF Row
<1>3. OnceEach(Members(x.rcpt) \cup Members(y.rcpt)) \in Ids
  BY IdsType
<1> QED BY <1>1, <1>2, <1>3 DEF United, Row

LEMMA MergeHas ==
    ASSUME TypeOK, NEW m \in Mailings, merge[m].stage \in {"read", "united"}
    PROVE  merge[m] \in Merges
BY DEF TypeOK, NoMerge

LEMMA MergeType ==
    ASSUME TypeOK, NEW m \in Mailings,
           \/ \E a, b \in Mailings : ReadForMerge(a, b, m)
           \/ InsertUnited(m) \/ DeleteMerged(m) \/ BreakMerge(m)
    PROVE  TypeOK'
<1> USE DEF TypeOK
<1>1. ASSUME NEW a \in Mailings, NEW b \in Mailings, ReadForMerge(a, b, m) PROVE TypeOK'
  <2>1. merge' \in [Mailings -> Merges \cup {NoMerge}]
    <3> DEFINE entry == [stage |-> "read", a |-> a, b |-> b, ra |-> mo[a], rb |-> mo[b]]
    <3>1. entry \in Merges /\ merge' = [merge EXCEPT ![m] = entry]
      BY <1>1 DEF ReadForMerge, Merges
    <3> HIDE DEF entry
    <3> QED BY <3>1
  <2> QED BY <1>1, <2>1 DEF ReadForMerge, Operation, env, sender, history
<1>2. CASE InsertUnited(m)
  <2>1. merge[m] \in Merges
    BY <1>2, MergeHas DEF InsertUnited
  <2>2. United(merge[m].ra, merge[m].rb) \in Row
    BY <2>1, UnitedType DEF Merges
  <2>3. DbType'
    BY <1>2, <2>2, SaveRowType DEF InsertUnited, DbType
  <2>4. merge' \in [Mailings -> Merges \cup {NoMerge}]
    <3>1. [merge[m] EXCEPT !.stage = "united"] \in Merges
      BY <2>1 DEF Merges
    <3> QED BY <1>2, <3>1 DEF InsertUnited
  <2> QED BY <1>2, <2>3, <2>4 DEF InsertUnited, DbType, env, sender, history
<1>3. CASE DeleteMerged(m)
  <2>1. mo' \in [Mailings -> Row] /\ merge' \in [Mailings -> Merges \cup {NoMerge}]
    BY <1>3, RowType DEF DeleteMerged
  <2> QED BY <1>3, <2>1 DEF DeleteMerged, env, sender, history
<1>4. CASE BreakMerge(m)
  <2>1. merge' \in [Mailings -> Merges \cup {NoMerge}]
    BY <1>4 DEF BreakMerge
  <2> QED BY <1>4, <2>1 DEF BreakMerge, Operation, db, env, sender, history
<1> QED BY <1>1, <1>2, <1>3, <1>4

LEMMA WebType ==
    ASSUME TypeOK, Web
    PROVE  TypeOK'
<1>1. ASSUME NEW m \in Mailings, NEW k \in {"change", "failed", "exclude"}, Load(k, m)
      PROVE  TypeOK'
  <2>1. web' \in Requests
    BY <1>1 DEF Load, Requests, TypeOK
  <2> QED BY <1>1, <2>1 DEF Load, Operation, TypeOK, db, env, sender, requests, history
<1>2. ASSUME NEW m \in Mailings, DeleteMailing(m) PROVE TypeOK'
  BY <1>2, RowType DEF DeleteMailing, Operation, TypeOK, env, sender, requests
<1>3. ASSUME NEW r \in Recipients, Unsubscribe(r) \/ DeleteRecipient(r) PROVE TypeOK'
  BY <1>3 DEF Unsubscribe, DeleteRecipient, Operation, TypeOK, db, sender, requests, history
<1>4. ASSUME NEW a \in Accounts, NEW r \in Recipients,
              SpecifyVip(a, r) \/ ChangeMassConts(a, r)
       PROVE TypeOK'
  <2>1. mc' \in [Recipients -> Accounts \cup {NoMail}]
    BY <1>4 DEF SpecifyVip, ChangeMassConts, MoveContact, TypeOK
  <2>2. unsub' \subseteq Recipients /\ ops' \in Nat
    BY <1>4 DEF SpecifyVip, ChangeMassConts, MoveContact, Operation, TypeOK
  <2>4. disturbed' \in BOOLEAN
    <3>1. disturbed' = (disturbed \/ (pc # "idle" /\ r \in rids))
      BY <1>4, Zenon DEF SpecifyVip, ChangeMassConts, MoveContact
    <3> QED BY <3>1
  <2>3. UNCHANGED <<db, exists, on, full, sender, requests, sent, history>>
    BY <1>4, Zenon DEF SpecifyVip, ChangeMassConts, MoveContact
  <2> QED BY <2>1, <2>2, <2>3, <2>4 DEF TypeOK, db, sender, requests, history
<1>5. ASSUME NEW a \in Accounts, SwitchAccount(a) PROVE TypeOK'
  BY <1>5 DEF SwitchAccount, Operation, TypeOK, db, env, sender, requests, history
<1> QED
  BY <1>1, <1>2, <1>3, <1>4, <1>5, SaveRequestType, NewMailingType, MergeType DEF Web, Merging, MakeMailingOut, MakeMassmail

LEMMA TypeNext == TypeOK /\ [Next]_vars => TypeOK'
<1> SUFFICES ASSUME TypeOK, [Next]_vars PROVE TypeOK'
  OBVIOUS
<1>1. CASE NewDay
  BY <1>1 DEF NewDay, TypeOK, db, env, sender, requests, history
<1>2. CASE UNCHANGED vars
  BY <1>2 DEF vars, TypeOK, db, env, sender, requests, history
<1> QED BY <1>1, <1>2, RoundType, FailureType, WebType DEF Next

\* Every reachable state of the mass mailing is well typed: no list ever holds
\* a recipient a negative number of times, and the sender never holds a mailing
\* or a recipient it has not picked.
THEOREM TypeCorrect == Spec => []TypeOK
BY TypeInit, TypeNext, PTL DEF Spec
-----------------------------------------------------------------------------
(* Nothing is lost.  The invariant is inductive together with the types and *)
(* with the fact that a row in anybody's hands has an id that was given out *)
(* before: a new mailing can then not take the place of an existing one.    *)

Given == used \ {m \in Mailings : merge[m].stage = "read"}
IdsUsed ==
    /\ live \subseteq Given
    /\ todo \subseteq Given
    /\ pc \in {"accounts", "send", "sent", "count"} => cur \in Given
    /\ web # NoWeb => web.m \in Given
    /\ \A m \in Mailings : merge[m] # NoMerge =>
          /\ m \in used
          /\ merge[m].a \in Given /\ merge[m].b \in Given /\ merge[m].a # merge[m].b

IInv == TypeOK /\ IdsUsed /\ NothingLost

\* Threads and most requests give out no id.
LEMMA SenderGives ==
    ASSUME Round \/ Failure
    PROVE  UNCHANGED <<used, web, merge>>
<1>1. ASSUME NEW a \in Accounts, NEW r \in Recipients, DropGone(a, r) PROVE UNCHANGED <<used, web, merge>>
  BY <1>1 DEF DropGone, db, SaveRow, requests
<1>2. CASE Record
  BY <1>2 DEF Record, db, SaveRow
<1>3. CASE SendError
  BY <1>3 DEF SendError, db, SaveRow, requests
<1> QED
  BY <1>1, <1>2, <1>3 DEF Round, Failure, StartRound, EndRound, SuccessReport, BeginMailing,
     SkipAccount, Pick, EndMailing, Deliver, CounterIncrement, AuthError, Crash, SaveRow, db, requests

LEMMA SenderIds ==
    ASSUME TypeOK, IdsUsed, Round \/ Failure
    PROVE  /\ live' \subseteq Given /\ todo' \subseteq Given
           /\ pc' \in {"accounts", "send", "sent", "count"} => cur' \in Given
<1> USE DEF IdsUsed
<1>f. ASSUME Forget PROVE /\ todo' \subseteq Given
                          /\ pc' \notin {"accounts", "send", "sent", "count"}
  BY <1>f DEF Forget
<1>1. CASE StartRound
  BY <1>1 DEF StartRound, SendingFor, CheckOwners, db
<1>2. CASE EndRound \/ Crash
  BY <1>2, <1>f DEF EndRound, Crash, db
<1>3. ASSUME NEW m \in Mailings, SuccessReport(m)
      PROVE  live' \subseteq Given /\ todo' \subseteq Given /\ pc' = "mailing"
  BY <1>3 DEF SuccessReport, SaveRow
<1>4. ASSUME NEW m \in Mailings, BeginMailing(m)
      PROVE  live' \subseteq Given /\ todo' \subseteq Given /\ cur' \in Given
  BY <1>4 DEF BeginMailing, db
<1>5. ASSUME NEW a \in Accounts, SkipAccount(a)
      PROVE  live' \subseteq Given /\ todo' \subseteq Given /\ cur' \in Given
  BY <1>5 DEF SkipAccount, NextAccount, db
<1>6. ASSUME NEW a \in Accounts, NEW r \in Recipients, DropGone(a, r)
      PROVE  /\ live' \subseteq Given /\ todo' \subseteq Given
             /\ pc' \in {"accounts", "send", "sent", "count"} => cur' \in Given
  <2>1. \/ \E row \in {[local[cur] EXCEPT !.rcpt = Drop(@, r), !.num = @ - 1]} :
             SaveRow(cur, row) /\ NextAccount(a) /\ UNCHANGED <<todo, cur>>
        \/ Forget /\ UNCHANGED db
    BY <1>6, Zenon DEF DropGone
  <2>2. pc = "accounts"
    BY <1>6 DEF DropGone
  <2> QED BY <2>1, <2>2, <1>f DEF SaveRow, NextAccount, db
<1>7. ASSUME NEW a \in Accounts, NEW r \in Recipients, Pick(a, r)
      PROVE  live' \subseteq Given /\ todo' \subseteq Given /\ cur' \in Given
  BY <1>7 DEF Pick, db
<1>8. CASE EndMailing
  BY <1>8 DEF EndMailing, db
<1>9. CASE Deliver
  BY <1>9 DEF Deliver, db
<1>10. CASE Record
  <2>1. pc = "sent"
    BY <1>10 DEF Record
  <2>2. \/ live' = live \cup {cur} /\ cur' = cur /\ todo' = todo
        \/ Forget /\ UNCHANGED db
    BY <1>10 DEF Record, SaveRow
  <2> QED BY <2>1, <2>2, <1>f DEF db
<1>11. CASE CounterIncrement
  BY <1>11 DEF CounterIncrement, SaveRow, NextAccount
<1>12. CASE AuthError
  BY <1>12 DEF AuthError, SaveRow, NextAccount
<1>13. CASE SendError
  <2>1. pc = "send"
    BY <1>13 DEF SendError
  <2>2. \/ live' = live \cup {cur} /\ cur' = cur /\ todo' = todo
        \/ Forget /\ UNCHANGED db
    BY <1>13 DEF SendError, SaveRow
  <2> QED BY <2>1, <2>2, <1>f DEF db
<1> QED
  BY <1>1, <1>2, <1>3, <1>4, <1>5, <1>6, <1>7, <1>8, <1>9, <1>10, <1>11, <1>12, <1>13 DEF Round, Failure

\* The steps of a merge: an id is given out when the union is inserted, or when
\* the merge breaks off before (it is then given to nobody).
LEMMA MergeIds ==
    ASSUME TypeOK, IdsUsed, NEW m \in Mailings,
           \/ \E a, b \in Mailings : ReadForMerge(a, b, m)
           \/ InsertUnited(m) \/ DeleteMerged(m) \/ BreakMerge(m)
    PROVE  IdsUsed'
<1> USE DEF IdsUsed
<1>k. ASSUME Given \subseteq Given', used \subseteq used', UNCHANGED <<sender, web>>, live' \subseteq Given',
             \A k \in Mailings : k # m => merge'[k] = merge[k],
             merge'[m] # NoMerge =>
                /\ m \in used'
                /\ merge'[m].a \in Given /\ merge'[m].b \in Given /\ merge'[m].a # merge'[m].b
      PROVE  IdsUsed'
  <2>1. \A k \in Mailings : merge'[k] # NoMerge =>
          /\ k \in used'
          /\ merge'[k].a \in Given' /\ merge'[k].b \in Given' /\ merge'[k].a # merge'[k].b
    BY <1>k
  <2> QED BY <1>k, <2>1 DEF sender
<1>1. ASSUME NEW a \in Mailings, NEW b \in Mailings, ReadForMerge(a, b, m) PROVE IdsUsed'
  <2> DEFINE entry == [stage |-> "read", a |-> a, b |-> b, ra |-> mo[a], rb |-> mo[b]]
  <2>1. /\ merge' = [merge EXCEPT ![m] = entry] /\ used' = used \cup {m} /\ m \notin used
        /\ a \in live /\ b \in live \ {a} /\ UNCHANGED <<sender, web, live>>
    BY <1>1 DEF ReadForMerge
  <2>2. entry.a = a /\ entry.b = b /\ entry.stage = "read"
    OBVIOUS
  <2> HIDE DEF entry
  <2>3. merge'[m] = entry /\ \A k \in Mailings : k # m => merge'[k] = merge[k]
    BY <2>1 DEF TypeOK
  <2>4. Given' = Given
    BY <2>1, <2>2, <2>3 DEF Given
  <2> QED BY <1>k, <2>1, <2>2, <2>3, <2>4
<1>2. CASE InsertUnited(m)
  <2>1. /\ merge[m].stage = "read" /\ merge' = [merge EXCEPT ![m].stage = "united"]
        /\ live' = live \cup {m} /\ used' = used /\ UNCHANGED <<sender, web>>
    BY <1>2 DEF InsertUnited, SaveRow
  <2>2. merge[m] \in Merges
    BY <2>1, MergeHas
  <2>3. /\ merge'[m].stage = "united" /\ merge'[m].a = merge[m].a /\ merge'[m].b = merge[m].b
        /\ \A k \in Mailings : k # m => merge'[k] = merge[k]
    BY <2>1, <2>2 DEF TypeOK, Merges
  <2>4. merge[m] # NoMerge
    BY <2>1 DEF NoMerge
  <2>5. Given' = Given \cup {m}
    BY <2>1, <2>3, <2>4 DEF Given
  <2> QED BY <1>k, <2>1, <2>3, <2>4, <2>5
<1>3. CASE DeleteMerged(m) \/ BreakMerge(m)
  <2>1. merge' = [merge EXCEPT ![m] = NoMerge] /\ used' = used /\ live' \subseteq live /\ UNCHANGED <<sender, web>>
    BY <1>3 DEF DeleteMerged, BreakMerge, db
  <2>2. merge'[m] = NoMerge /\ \A k \in Mailings : k # m => merge'[k] = merge[k]
    BY <2>1 DEF TypeOK
  <2>3. Given \subseteq Given'
    BY <2>1, <2>2 DEF Given, NoMerge
  <2> QED BY <1>k, <2>1, <2>2, <2>3
<1> QED BY <1>1, <1>2, <1>3

LEMMA IdsUsedNext == TypeOK /\ IdsUsed /\ [Next]_vars => IdsUsed'
<1> SUFFICES ASSUME TypeOK, IdsUsed, [Next]_vars PROVE IdsUsed'
  OBVIOUS
<1> USE DEF IdsUsed
<1>g. ASSUME UNCHANGED <<used, merge>> PROVE Given' = Given
  BY <1>g DEF Given
<1>1. CASE Round \/ Failure
  <2>1. UNCHANGED <<used, web, merge>> /\ Given' = Given
    BY <1>1, <1>g, SenderGives
  <2>2. /\ live' \subseteq Given /\ todo' \subseteq Given
        /\ pc' \in {"accounts", "send", "sent", "count"} => cur' \in Given
    BY <1>1, SenderIds
  <2> QED BY <2>1, <2>2
<1>2. CASE SaveRequest
  <2>1. web # NoWeb /\ web.m \in Given
    BY <1>2, HeldRow
  <2>2. web' = NoWeb \/ web'.m = web.m
    <3>1. CASE LookForSent
      BY <3>1 DEF LookForSent
    <3> QED BY <1>2, <3>1 DEF SaveRequest, SaveModel, SendFailedRecipients, SaveExcluded, Reply
  <2>3. UNCHANGED <<used, merge, sender>> /\ (live' = live \cup {web.m} \/ live' = live)
    BY <1>2 DEF SaveRequest, SaveModel, SendFailedRecipients, LookForSent, SaveExcluded, Reply, SaveRow, db
  <2> QED BY <2>1, <2>2, <2>3, <1>g DEF sender
<1>3. ASSUME NEW m \in Mailings, NEW S \in SUBSET Recipients, NewMailing(m, S) PROVE IdsUsed'
  <2>1. m \notin used /\ used' = used \cup {m} /\ live' = live \cup {m} /\ UNCHANGED <<sender, web, merge>>
    BY <1>3 DEF NewMailing, requests
  <2>2. merge[m].stage # "read"
    BY <2>1 DEF NoMerge
  <2>3. Given' = Given \cup {m}
    BY <2>1, <2>2 DEF Given
  <2> QED BY <2>1, <2>3 DEF sender
<1>4. ASSUME NEW m \in Mailings, NEW k \in {"change", "failed", "exclude"}, Load(k, m) PROVE IdsUsed'
  BY <1>4, <1>g DEF Load, db, sender
<1>5. ASSUME NEW m \in Mailings,
             \/ \E a, b \in Mailings : ReadForMerge(a, b, m)
             \/ InsertUnited(m) \/ DeleteMerged(m) \/ BreakMerge(m)
      PROVE  IdsUsed'
  BY <1>5, MergeIds
<1>6. ASSUME NEW m \in Mailings, DeleteMailing(m) PROVE IdsUsed'
  BY <1>6, <1>g DEF DeleteMailing, sender, requests
<1>7. ASSUME UNCHANGED <<db, sender, requests>> PROVE IdsUsed'
  BY <1>7, <1>g DEF db, sender, requests
<1>8. ASSUME NEW a \in Accounts, NEW r \in Recipients,
             SpecifyVip(a, r) \/ ChangeMassConts(a, r)
      PROVE  IdsUsed'
  BY <1>8, <1>7 DEF SpecifyVip, ChangeMassConts, MoveContact
<1>9. ASSUME NEW r \in Recipients, Unsubscribe(r) \/ DeleteRecipient(r) PROVE IdsUsed'
  BY <1>9, <1>7 DEF Unsubscribe, DeleteRecipient
<1>10. ASSUME NEW a \in Accounts, SwitchAccount(a) PROVE IdsUsed'
  BY <1>10, <1>7 DEF SwitchAccount
<1>11. CASE NewDay \/ UNCHANGED vars
  BY <1>11, <1>7 DEF NewDay, vars
<1> QED
  BY <1>1, <1>2, <1>3, <1>4, <1>5, <1>6, <1>8, <1>9, <1>10, <1>11
  DEF Next, Web, Merging, MakeMailingOut, MakeMassmail

LEMMA ListsOfRow ==
    /\ \A row, st : OnLists([row EXCEPT !.status = st]) \subseteq OnLists(row)
    /\ OnLists(Blank) = {}
    /\ \A S \in SUBSET Recipients : S \subseteq OnLists(NewRow("P", S))
BY DEF OnLists, Members, Blank, NewRow, NoIds, OnceEach

LEMMA KeptSame == ASSUME UNCHANGED <<live, merge>> PROVE Kept' = Kept /\ Doomed' = Doomed
BY DEF Kept, Doomed

LEMMA KeptType == ASSUME TypeOK PROVE Kept \subseteq live /\ Kept \subseteq Mailings
BY DEF Kept, TypeOK

\* A save over an unchanged row that keeps the recipients of the row keeps
\* everybody covered.
LEMMA CoverSave ==
    ASSUME TypeOK, NEW m \in Mailings, NEW row, SaveRow(m, row), ~Stale(m, mo[m]), merge' = merge,
           NEW S, OnLists(mo[m]) \cap S \subseteq OnLists(row)
    PROVE  Covered(Kept, mo) \cap S \subseteq Covered(Kept', mo')
<1> SUFFICES ASSUME NEW r \in S, NEW k \in Kept, r \in OnLists(mo[k])
             PROVE  \E j \in Kept' : r \in OnLists(mo'[j])
  BY DEF Covered
<1>0. m \in Kept /\ Kept' = Kept
  <2>1. m \in Kept
    BY DEF Stale
  <2>2. live' = live
    BY <2>1 DEF SaveRow, Kept
  <2> QED BY <2>1, <2>2, KeptSame
<1>1. mo'[m] = row /\ (k # m => mo'[k] = mo[k])
  BY KeptType DEF SaveRow, TypeOK
<1> QED BY <1>0, <1>1

LEMMA NothingLostSave ==
    ASSUME TypeOK, NothingLost, NEW m \in Mailings, NEW base, NEW row, SaveRow(m, row),
           OnLists(base) \cap exists \subseteq OnLists(row),
           disturbed' \/ ~(disturbed \/ Stale(m, base)), lists' = lists, exists' = exists,
           merge' = merge
    PROVE  NothingLost'
<1> SUFFICES ASSUME ~disturbed' PROVE lists \cap exists \subseteq Covered(Kept', mo')
  BY DEF NothingLost
<1>1. ~disturbed /\ base = mo[m] /\ ~Stale(m, mo[m])
  BY DEF Stale
<1>2. Covered(Kept, mo) \cap exists \subseteq Covered(Kept', mo')
  BY <1>1, CoverSave
<1> QED BY <1>1, <1>2 DEF NothingLost

LEMMA NothingLostSame ==
    ASSUME NothingLost, UNCHANGED <<live, mo, lists>>, exists' \subseteq exists,
           merge' = merge \/ disturbed' \/ Doomed' = Doomed, disturbed => disturbed'
    PROVE  NothingLost'
<1>1. CASE disturbed'
  BY <1>1 DEF NothingLost
<1>2. CASE Kept' = Kept
  BY <1>2 DEF NothingLost, Covered
<1>3. CASE merge' = merge
  BY <1>2, <1>3, KeptSame
<1>4. CASE Doomed' = Doomed
  BY <1>2, <1>4 DEF Kept
<1> QED BY <1>1, <1>3, <1>4

\* Moving r between the lists keeps him on them.
LEMMA MoveOnLists ==
    ASSUME NEW row \in Row, NEW r \in Recipients, row.rcpt[r] > 0
    PROVE  /\ OnLists(row) \subseteq OnLists([row EXCEPT !.rcpt = Drop(@, r), !.succ = Add(@, r)])
           /\ OnLists(row) \subseteq
                OnLists([row EXCEPT !.status = "E", !.rcpt = Drop(@, r), !.failed = Add(@, r)])
           /\ OnLists(row) \ {r} \subseteq
                OnLists([row EXCEPT !.rcpt = Drop(@, r), !.num = @ - 1])
BY DEF OnLists, Members, Row, Ids, Drop, Add

LEMMA NothingLostRound ==
    ASSUME TypeOK, NothingLost, Round \/ Failure
    PROVE  NothingLost'
<1>m. merge' = merge
  BY SenderGives
<1>1. CASE StartRound \/ EndRound \/ EndMailing \/ Deliver \/ Crash
  <2>1. UNCHANGED <<db, env, history>>
    BY <1>1 DEF StartRound, EndRound, EndMailing, Deliver, Crash
  <2>2. disturbed => disturbed'
    BY <1>1, Zenon DEF StartRound, EndRound, EndMailing, Deliver, Crash
  <2> QED BY <2>2, <2>1, <1>m, NothingLostSame DEF db, env, requests, history
<1>2. ASSUME NEW m \in Mailings, SuccessReport(m) PROVE NothingLost'
  <2> DEFINE row == [local[m] EXCEPT !.status = "D"]
  <2>1. OnLists(local[m]) \subseteq OnLists(row)
    BY DEF OnLists, TypeOK, Row
  <2>2. SaveRow(m, row) /\ disturbed' = (disturbed \/ Stale(m, local[m]))
        /\ UNCHANGED <<env, history>>
    BY <1>2 DEF SuccessReport
  <2> HIDE DEF row
  <2> QED BY <2>1, <2>2, <1>m, NothingLostSave DEF env, requests, history
<1>3. ASSUME NEW m \in Mailings, BeginMailing(m) PROVE NothingLost'
  BY <1>3, <1>m, NothingLostSame DEF BeginMailing, db, env, requests, history
<1>4. ASSUME NEW a \in Accounts, SkipAccount(a) PROVE NothingLost'
  BY <1>4, <1>m, NothingLostSame DEF SkipAccount, db, env, requests, history
<1>5. ASSUME NEW a \in Accounts, NEW r \in Recipients, Pick(a, r) PROVE NothingLost'
  BY <1>5, <1>m, NothingLostSame DEF Pick, db, env, requests, history
<1>6. ASSUME NEW a \in Accounts, NEW r \in Recipients, DropGone(a, r) PROVE NothingLost'
  <2> DEFINE row == [local[cur] EXCEPT !.rcpt = Drop(@, r), !.num = @ - 1]
  <2>0. cur \in Mailings /\ local[cur] \in Row /\ r \notin exists
    BY <1>6 DEF DropGone, TypeOK
  <2>1. CASE local[cur].rcpt[r] > 0 /\ Saves(row)
    <3>1. OnLists(local[cur]) \cap exists \subseteq OnLists(row)
      BY <2>0, <2>1, MoveOnLists
    <3>2. SaveRow(cur, row) /\ disturbed' = (disturbed \/ Stale(cur, local[cur]))
      BY <1>6, <2>1 DEF DropGone
    <3>3. lists' = lists /\ exists' = exists
      BY <1>6 DEF DropGone, env, requests, history
    <3> HIDE DEF row
    <3> QED BY <2>0, <3>1, <3>2, <3>3, <1>m, NothingLostSave
  <2>2. CASE ~(local[cur].rcpt[r] > 0 /\ Saves(row))
    <3>1. UNCHANGED <<db, disturbed, env, history>>
      BY <1>6, <2>2 DEF DropGone
    <3> QED BY <3>1, <1>m, NothingLostSame DEF db, env, requests, history
  <2> QED BY <2>1, <2>2
<1>7. CASE Record
  <2> DEFINE r == target[2]
             row == [local[cur] EXCEPT !.rcpt = Drop(@, r), !.succ = Add(@, r)]
  <2>0. cur \in Mailings /\ local[cur] \in Row /\ r \in Recipients
    BY <1>7 DEF Record, TypeOK, Pairs
  <2>1. CASE local[cur].rcpt[r] > 0
    <3>1. OnLists(local[cur]) \cap exists \subseteq OnLists(row)
      BY <2>0, <2>1, MoveOnLists
    <3>2. SaveRow(cur, row) /\ disturbed' = (disturbed \/ Stale(cur, local[cur]))
      BY <1>7, <2>1 DEF Record
    <3>3. lists' = lists /\ exists' = exists
      BY <1>7 DEF Record, env, requests, history
    <3> HIDE DEF row
    <3> QED BY <2>0, <3>1, <3>2, <3>3, <1>m, NothingLostSave
  <2>2. CASE ~(local[cur].rcpt[r] > 0)
    <3>1. UNCHANGED <<db, disturbed, env, history>>
      BY <1>7, <2>2 DEF Record
    <3> QED BY <3>1, <1>m, NothingLostSame DEF db, env, requests, history
  <2> QED BY <2>1, <2>2
<1>8. CASE CounterIncrement
  BY <1>8, <1>m, NothingLostSave DEF CounterIncrement, TypeOK, env, requests, history
<1>9. CASE AuthError
  <2>1. cur \in Mailings
    BY <1>9 DEF AuthError, TypeOK
  <2> DEFINE row == [local[cur] EXCEPT !.status = "E"]
  <2>2. OnLists(local[cur]) \subseteq OnLists(row)
    BY <2>1 DEF OnLists, TypeOK, Row
  <2>3. SaveRow(cur, row) /\ disturbed' = (disturbed \/ Stale(cur, local[cur]))
        /\ UNCHANGED <<env, history>>
    BY <1>9 DEF AuthError
  <2> HIDE DEF row
  <2> QED BY <2>1, <2>2, <2>3, <1>m, NothingLostSave DEF env, requests, history
<1>10. CASE SendError
  <2> DEFINE r == target[2]
             row == [local[cur] EXCEPT !.status = "E", !.rcpt = Drop(@, r),
                                       !.failed = Add(@, r)]
  <2>0. cur \in Mailings /\ local[cur] \in Row /\ r \in Recipients
    BY <1>10 DEF SendError, TypeOK, Pairs
  <2>1. lists' = lists /\ exists' = exists
    BY <1>10 DEF SendError, env, requests, history
  <2>2. CASE local[cur].rcpt[r] > 0
    <3>1. OnLists(local[cur]) \cap exists \subseteq OnLists(row)
      BY <2>0, <2>2, MoveOnLists
    <3>2. SaveRow(cur, row) /\ (disturbed' \/ ~(disturbed \/ Stale(cur, local[cur])))
      BY <1>10, <2>2 DEF SendError
    <3> HIDE DEF row
    <3> QED BY <2>0, <2>1, <3>1, <3>2, <1>m, NothingLostSave
  <2>3. CASE ~(local[cur].rcpt[r] > 0)
    <3>1. UNCHANGED db /\ (disturbed => disturbed')
      BY <1>10, <2>3 DEF SendError
    <3> QED BY <2>1, <3>1, <1>m, NothingLostSame DEF db
  <2> QED BY <2>2, <2>3
<1> QED
  BY <1>1, <1>2, <1>3, <1>4, <1>5, <1>6, <1>7, <1>8, <1>9, <1>10 DEF Round, Failure

LEMMA NothingLostSaveRequest ==
    ASSUME TypeOK, NothingLost, SaveRequest
    PROVE  NothingLost'
<1>0. web \in Requests /\ web.m \in Mailings /\ web.row \in Row
  BY HeldRow
<1>1. merge' = merge /\ exists' = exists
  BY DEF SaveRequest, SaveModel, SendFailedRecipients, LookForSent, SaveExcluded, Reply, env
<1>2. ASSUME NEW st \in Status, SaveModel(st) PROVE NothingLost'
  <2>1. PICK new : SaveRow(web.m, [web.row EXCEPT !.status = new])
    BY <1>2 DEF SaveModel
  <2>2. OnLists(web.row) \subseteq OnLists([web.row EXCEPT !.status = new])
    BY <1>0 DEF OnLists, Row
  <2>3. (disturbed' \/ ~(disturbed \/ Stale(web.m, web.row))) /\ lists' = lists
    BY <1>2 DEF SaveModel
  <2> QED BY <1>0, <1>1, <2>1, <2>2, <2>3, NothingLostSave
<1>3. CASE SendFailedRecipients
  <2> DEFINE row == [web.row EXCEPT !.status = "A", !.rcpt = Joined(@, web.row.failed),
                                    !.failed = NoIds]
  <2>1. OnLists(web.row) \subseteq OnLists(row)
    BY <1>0 DEF OnLists, Members, Joined, Row, Ids
  <2>2. SaveRow(web.m, row) /\ (disturbed' \/ ~(disturbed \/ Stale(web.m, web.row))) /\ lists' = lists
    BY <1>3 DEF SendFailedRecipients
  <2> HIDE DEF row
  <2> QED BY <1>0, <1>1, <2>1, <2>2, NothingLostSave
<1>4. CASE LookForSent
  BY <1>1, <1>4, NothingLostSame DEF LookForSent, db, history
<1>5. CASE SaveExcluded
  <2> DEFINE rest == Keep(web.row.rcpt, web.out)
  <2>1. CASE web.out # {} /\ web.m \in live
    <3>1. /\ mo' = [mo EXCEPT ![web.m].rcpt = rest, ![web.m].num = Size(rest)]
          /\ live' = live /\ disturbed' = (disturbed \/ Stale(web.m, web.row))
          /\ lists' = lists \ (web.out \ Covered(Kept, mo'))
      BY <1>5, <2>1 DEF SaveExcluded
    <3>0. Kept' = Kept
      BY <1>1, <3>1, KeptSame
    <3> SUFFICES ASSUME ~disturbed', NEW r \in lists' \cap exists
                 PROVE  r \in Covered(Kept, mo')
      BY <1>1, <3>0 DEF NothingLost
    <3>2. ~disturbed /\ mo[web.m] = web.row
      BY <3>1 DEF Stale
    <3>3. PICK k \in Kept : r \in OnLists(mo[k])
      BY <3>1, <3>2 DEF NothingLost, Covered
    <3>4. k # web.m => mo'[k] = mo[k]
      BY <3>1, KeptType DEF TypeOK
    <3>5. mo'[web.m].succ = web.row.succ /\ mo'[web.m].failed = web.row.failed
          /\ mo'[web.m].rcpt = rest
      <4>1. mo[web.m] \in Row
        BY <1>0 DEF TypeOK
      <4> HIDE DEF rest
      <4> QED BY <1>0, <3>1, <3>2, <4>1 DEF TypeOK, Row
    <3>6. CASE r \in web.out
      BY <3>1, <3>6
    <3>7. CASE r \notin web.out /\ k = web.m
      <4>1. Members(web.row.rcpt) \ web.out \subseteq Members(rest)
        BY DEF Members, Keep
      <4>2. r \in OnLists(mo'[k])
        BY <4>1, <3>2, <3>3, <3>5, <3>7 DEF OnLists
      <4> QED BY <4>2 DEF Covered
    <3>8. CASE k # web.m
      BY <3>3, <3>4, <3>8 DEF Covered
    <3> QED BY <3>6, <3>7, <3>8
  <2>2. CASE ~(web.out # {} /\ web.m \in live)
    <3>1. UNCHANGED <<db, lists, disturbed>>
      BY <1>5, <2>2 DEF SaveExcluded
    <3> QED BY <1>1, <3>1, NothingLostSame DEF db
  <2> QED BY <2>1, <2>2
<1> QED BY <1>2, <1>3, <1>4, <1>5 DEF SaveRequest

LEMMA DoomedStep ==
    ASSUME TypeOK, NEW m \in Mailings, \A k \in Mailings : k # m => merge'[k] = merge[k]
    PROVE  /\ merge[m].stage # "united" /\ merge'[m].stage # "united" => Doomed' = Doomed
           /\ merge[m].stage # "united" /\ merge'[m].stage = "united"
                => Doomed' = Doomed \cup {merge'[m].a, merge'[m].b}
           /\ merge[m].stage = "united"
                => Doomed \subseteq Doomed' \cup {merge[m].a, merge[m].b}
           /\ merge[m].stage = "united" /\ merge'[m].stage # "united" => Doomed' \subseteq Doomed
BY DEF Doomed

\* What a merge leaves to be kept: the union for the originals, once it is there.
LEMMA KeptByMerge ==
    ASSUME TypeOK, IdsUsed, NEW m \in Mailings
    PROVE  /\ (\E a, b \in Mailings : ReadForMerge(a, b, m)) => Kept' = Kept /\ UNCHANGED <<live, mo>>
           /\ DeleteMerged(m) => Kept' = Kept /\ \A k \in Kept : mo'[k] = mo[k]
           /\ BreakMerge(m) => UNCHANGED <<live, mo>> /\ (disturbed' \/ Doomed' = Doomed)
           /\ InsertUnited(m) =>
                 LET a == merge[m].a
                     b == merge[m].b
                     union == United(merge[m].ra, merge[m].rb) IN
                 /\ a \in Mailings /\ b \in Mailings \ {a} /\ m \in Mailings \ {a, b}
                 /\ m \notin live /\ union \in Row
                 /\ mo' = [mo EXCEPT ![m] = union] /\ live' = live \cup {m}
                 /\ ~disturbed' =>
                       /\ a \in Kept /\ b \in Kept
                       /\ merge[m].ra = mo[a] /\ merge[m].rb = mo[b]
                       /\ Kept' \ {m} = Kept \ {a, b}
                       /\ m \in Kept'
<1>1. ASSUME NEW a \in Mailings, NEW b \in Mailings, ReadForMerge(a, b, m)
      PROVE  Kept' = Kept /\ UNCHANGED <<live, mo>>
  <2> DEFINE entry == [stage |-> "read", a |-> a, b |-> b, ra |-> mo[a], rb |-> mo[b]]
  <2>1. merge' = [merge EXCEPT ![m] = entry] /\ m \notin used /\ UNCHANGED <<live, mo>>
    BY <1>1 DEF ReadForMerge
  <2>2. entry.stage = "read"
    OBVIOUS
  <2> HIDE DEF entry
  <2>3. /\ merge'[m].stage = "read" /\ merge[m].stage = "none"
        /\ \A k \in Mailings : k # m => merge'[k] = merge[k]
    BY <2>1, <2>2 DEF TypeOK, IdsUsed, NoMerge
  <2>4. Doomed' = Doomed
    BY <2>3, DoomedStep
  <2> QED BY <2>1, <2>4 DEF Kept
<1>2. ASSUME DeleteMerged(m) PROVE Kept' = Kept /\ \A k \in Kept : mo'[k] = mo[k]
  <2>1. /\ merge[m].stage = "united" /\ merge' = [merge EXCEPT ![m] = NoMerge]
        /\ live' = live \ {merge[m].a, merge[m].b}
        /\ mo' = [mo EXCEPT ![merge[m].a] = Blank, ![merge[m].b] = Blank]
    BY <1>2 DEF DeleteMerged
  <2>2. merge'[m].stage = "none" /\ \A k \in Mailings : k # m => merge'[k] = merge[k]
    BY <2>1 DEF TypeOK, NoMerge
  <2>3. Doomed \subseteq Doomed' \cup {merge[m].a, merge[m].b} /\ Doomed' \subseteq Doomed
    BY <2>1, <2>2, DoomedStep
  <2>4. merge[m].a \in Doomed /\ merge[m].b \in Doomed
    BY <2>1 DEF Doomed
  <2>5. Kept' = Kept
    BY <2>1, <2>3, <2>4 DEF Kept
  <2>6. \A k \in Kept : mo'[k] = mo[k]
    BY <2>1, <2>4, KeptType DEF Kept, TypeOK
  <2> QED BY <2>5, <2>6
<1>3. ASSUME BreakMerge(m) PROVE UNCHANGED <<live, mo>> /\ (disturbed' \/ Doomed' = Doomed)
  <2>1. /\ merge' = [merge EXCEPT ![m] = NoMerge] /\ UNCHANGED <<live, mo>>
        /\ disturbed' = (disturbed \/ merge[m].stage = "united")
    BY <1>3 DEF BreakMerge, db
  <2>2. merge'[m].stage = "none" /\ \A k \in Mailings : k # m => merge'[k] = merge[k]
    BY <2>1 DEF TypeOK, NoMerge
  <2>3. merge[m].stage # "united" => Doomed' = Doomed
    BY <2>2, DoomedStep
  <2> QED BY <2>1, <2>3
<1>4. ASSUME InsertUnited(m)
      PROVE  LET a == merge[m].a
                 b == merge[m].b
                 union == United(merge[m].ra, merge[m].rb) IN
             /\ a \in Mailings /\ b \in Mailings \ {a} /\ m \in Mailings \ {a, b}
             /\ m \notin live /\ union \in Row
             /\ mo' = [mo EXCEPT ![m] = union] /\ live' = live \cup {m}
             /\ ~disturbed' =>
                   /\ a \in Kept /\ b \in Kept
                   /\ merge[m].ra = mo[a] /\ merge[m].rb = mo[b]
                   /\ Kept' \ {m} = Kept \ {a, b}
                   /\ m \in Kept'
  <2> DEFINE a == merge[m].a
             b == merge[m].b
             union == United(merge[m].ra, merge[m].rb)
  <2>1. /\ merge[m].stage = "read" /\ merge' = [merge EXCEPT ![m].stage = "united"]
        /\ mo' = [mo EXCEPT ![m] = union] /\ live' = live \cup {m}
        /\ disturbed' = (disturbed \/ Stale(a, merge[m].ra) \/ Stale(b, merge[m].rb))
    BY <1>4 DEF InsertUnited, SaveRow
  <2>2. merge[m] \in Merges /\ merge[m] # NoMerge
    BY <2>1, MergeHas DEF NoMerge
  <2>3. a \in Mailings /\ b \in Mailings /\ union \in Row
    BY <2>2, UnitedType DEF Merges
  <2>4. a # b /\ a \in Given /\ b \in Given /\ m \notin Given /\ m \notin live
    BY <2>1, <2>2 DEF IdsUsed, Given
  <2>5. /\ merge'[m].stage = "united" /\ merge'[m].a = a /\ merge'[m].b = b
        /\ \A k \in Mailings : k # m => merge'[k] = merge[k]
    BY <2>1, <2>2 DEF TypeOK, Merges
  <2>6. Doomed' = Doomed \cup {a, b}
    BY <2>1, <2>5, DoomedStep
  <2>7. m \notin Doomed
    BY <2>4 DEF Doomed, IdsUsed, NoMerge
  <2>8. ~disturbed' => a \in Kept /\ b \in Kept /\ merge[m].ra = mo[a] /\ merge[m].rb = mo[b]
    BY <2>1 DEF Stale
  <2> HIDE DEF a, b, union
  <2>9. Kept' \ {m} = Kept \ {a, b} /\ m \in Kept'
    BY <2>1, <2>4, <2>6, <2>7 DEF Kept
  <2> QED BY <2>1, <2>3, <2>4, <2>8, <2>9 DEF a, b, union
<1> QED BY <1>1, <1>2, <1>3, <1>4

LEMMA ListsOfUnited ==
    ASSUME NEW x \in Row, NEW y \in Row
    PROVE  /\ OnLists(x) \subseteq OnLists(United(x, y))
           /\ OnLists(y) \subseteq OnLists(United(x, y))
BY DEF OnLists, Members, United, OnceEach, Joined, Row, Ids

MergeStep(m) == \/ \E a, b \in Mailings : ReadForMerge(a, b, m)
                \/ InsertUnited(m) \/ DeleteMerged(m) \/ BreakMerge(m)

\* What the steps of a merge leave alone.
LEMMA MergeLeaves ==
    ASSUME NEW m, \/ \E a, b \in Mailings : ReadForMerge(a, b, m)
                  \/ InsertUnited(m) \/ DeleteMerged(m) \/ BreakMerge(m)
    PROVE  UNCHANGED <<mc, env, exists, sender, pc, todo, local, cur, rids, eas, target, web, since,
                       sent, due, lists>>
           /\ (disturbed => disturbed')
<1>1. ASSUME NEW a, NEW b, ReadForMerge(a, b, m)
      PROVE  UNCHANGED <<mc, env, sender, web, since, sent, history, disturbed>>
  BY <1>1 DEF ReadForMerge
<1>2. CASE InsertUnited(m)
  <2>1. UNCHANGED <<mc, env, sender, web, since, sent, history>>
    BY <1>2 DEF InsertUnited
  <2>2. disturbed => disturbed'
    BY <1>2 DEF InsertUnited
  <2> QED BY <2>1, <2>2 DEF env, sender, history
<1>3. CASE DeleteMerged(m)
  BY <1>3 DEF DeleteMerged, env, sender, history
<1>4. CASE BreakMerge(m)
  <2>1. UNCHANGED <<mc, env, sender, web, since, sent, history>>
    BY <1>4 DEF BreakMerge
  <2>2. disturbed => disturbed'
    BY <1>4 DEF BreakMerge
  <2> QED BY <2>1, <2>2 DEF env, sender, history
<1> QED BY <1>1, <1>2, <1>3, <1>4 DEF env, sender, history

LEMMA NothingLostMerge ==
    ASSUME TypeOK, IdsUsed, NothingLost, NEW m \in Mailings,
           \/ \E a, b \in Mailings : ReadForMerge(a, b, m)
           \/ InsertUnited(m) \/ DeleteMerged(m) \/ BreakMerge(m)
    PROVE  NothingLost'
<1>0. UNCHANGED <<lists, exists>> /\ (disturbed => disturbed')
  BY MergeLeaves
<1>1. CASE \E a, b \in Mailings : ReadForMerge(a, b, m)
  BY <1>0, <1>1, KeptByMerge DEF NothingLost, Covered
<1>2. CASE DeleteMerged(m)
  BY <1>0, <1>2, KeptByMerge DEF NothingLost, Covered
<1>3. CASE BreakMerge(m)
  <2>1. UNCHANGED <<live, mo>> /\ (disturbed' \/ Doomed' = Doomed)
    BY <1>3, KeptByMerge
  <2> QED BY <1>0, <2>1, NothingLostSame
<1>4. CASE InsertUnited(m)
  <2> SUFFICES ASSUME ~disturbed', NEW r \in lists \cap exists
               PROVE  \E j \in Kept' : r \in OnLists(mo'[j])
    BY <1>0 DEF NothingLost, Covered
  <2> DEFINE a == merge[m].a
             b == merge[m].b
             union == United(merge[m].ra, merge[m].rb)
  <2>1. /\ a \in Kept /\ b \in Kept /\ merge[m].ra = mo[a] /\ merge[m].rb = mo[b]
        /\ m \notin live /\ mo' = [mo EXCEPT ![m] = union]
        /\ Kept' \ {m} = Kept \ {a, b} /\ m \in Kept'
    BY <1>4, KeptByMerge DEF IdsUsed, Doomed, Kept
  <2>2. PICK k \in Kept : r \in OnLists(mo[k])
    BY <1>0 DEF NothingLost, Covered
  <2>3. mo'[m] = union /\ mo[a] \in Row /\ mo[b] \in Row
    BY <2>1, KeptType DEF TypeOK
  <2>4. CASE k \notin {a, b}
    <3>1. k # m /\ k \in Kept' /\ mo'[k] = mo[k]
      <4> HIDE DEF a, b, union
      <4> QED BY <2>1, <2>4, KeptType DEF TypeOK
    <3> QED BY <2>2, <3>1
  <2>5. CASE k \in {a, b}
    <3>1. OnLists(mo[a]) \subseteq OnLists(union) /\ OnLists(mo[b]) \subseteq OnLists(union)
      BY <2>1, <2>3, ListsOfUnited
    <3> HIDE DEF a, b, union
    <3> QED BY <2>1, <2>2, <2>3, <2>5, <3>1
  <2> QED BY <2>4, <2>5
<1> QED BY <1>1, <1>2, <1>3, <1>4

LEMMA NewIsKept ==
    ASSUME TypeOK, IdsUsed, NEW m \in Mailings, m \notin used, live' = live \cup {m}, merge' = merge
    PROVE  Kept' = Kept \cup {m} /\ m \notin Kept
<1>1. m \notin Doomed /\ m \notin live
  BY DEF Doomed, IdsUsed, Given, NoMerge
<1> QED BY <1>1 DEF Kept, Doomed

LEMMA NothingLostWeb ==
    ASSUME TypeOK, IdsUsed, NothingLost, Web
    PROVE  NothingLost'
<1>1. ASSUME NEW m \in Mailings, NEW k \in {"change", "failed", "exclude"}, Load(k, m)
      PROVE  NothingLost'
  BY <1>1, NothingLostSame DEF Load, db, env, history
<1>2. ASSUME NEW m \in Mailings, NEW S \in SUBSET Recipients, NewMailing(m, S)
      PROVE  NothingLost'
  <2> SUFFICES ASSUME ~disturbed, NEW r \in (lists \cup S) \cap exists
               PROVE  \E j \in Kept' : r \in OnLists(mo'[j])
    BY <1>2 DEF NewMailing, NothingLost, Covered, env
  <2>1. m \in Kept' /\ mo'[m] = NewRow("P", S) /\ \A k \in Kept : k \in Kept' /\ mo'[k] = mo[k]
    <3>1. /\ m \notin used /\ live' = live \cup {m} /\ mo' = [mo EXCEPT ![m] = NewRow("P", S)]
          /\ merge' = merge
      BY <1>2 DEF NewMailing, requests
    <3>2. Kept' = Kept \cup {m} /\ m \notin Kept
      BY <3>1, NewIsKept
    <3> QED BY <3>1, <3>2, KeptType DEF TypeOK
  <2>2. CASE r \in S
    BY <2>1, <2>2, ListsOfRow
  <2>3. CASE r \in lists
    <3>1. PICK k \in Kept : r \in OnLists(mo[k])
      BY <2>3 DEF NothingLost, Covered
    <3> QED BY <2>1, <3>1
  <2> QED BY <2>2, <2>3
<1>3. ASSUME NEW m \in Mailings, DeleteMailing(m) PROVE NothingLost'
  <2>1. /\ live' = live \ {m} /\ mo' = [mo EXCEPT ![m] = Blank] /\ merge' = merge
        /\ lists' = lists \cap Covered(Kept \ {m}, mo')
    BY <1>3 DEF DeleteMailing, requests
  <2>2. Kept' = Kept \ {m}
    BY <2>1 DEF Kept, Doomed
  <2> QED BY <2>1, <2>2 DEF NothingLost
<1>4. ASSUME NEW r \in Recipients, Unsubscribe(r) \/ DeleteRecipient(r) PROVE NothingLost'
  BY <1>4, NothingLostSame DEF Unsubscribe, DeleteRecipient, db, requests, history
<1>5. ASSUME NEW a \in Accounts, NEW r \in Recipients,
              SpecifyVip(a, r) \/ ChangeMassConts(a, r)
       PROVE NothingLost'
  BY <1>5, NothingLostSame DEF SpecifyVip, ChangeMassConts, MoveContact, db, requests, history
<1>6. ASSUME NEW a \in Accounts, SwitchAccount(a) PROVE NothingLost'
  BY <1>6, NothingLostSame DEF SwitchAccount, db, env, requests, history
<1> QED
  BY <1>1, <1>2, <1>3, <1>4, <1>5, <1>6, NothingLostSaveRequest, NothingLostMerge DEF Web, Merging, MakeMailingOut, MakeMassmail

LEMMA IInvInit == Init => IInv
<1> SUFFICES ASSUME Init PROVE IInv
  OBVIOUS
<1>1. IdsUsed
  BY DEF Init, IdsUsed, Given, NoMerge, NoWeb
<1>2. NothingLost
  <2> SUFFICES ASSUME NEW r \in lists PROVE \E k \in live : r \in OnLists(mo[k])
    <3>1. Doomed = {}
      BY DEF Init, Doomed, NoMerge
    <3> QED BY <3>1 DEF NothingLost, Covered, Kept, Init
  <2>1. PICK k \in Initial : k \in Mailings
    BY MailingAssumption DEF Init
  <2>3. mo[k] = NewRow("A", Recipients)
    BY <2>1 DEF Init
  <2>2. r \in Members(mo[k].rcpt)
    <3>1. mo[k].rcpt = OnceEach(Recipients)
      BY <2>3 DEF NewRow, Blank
    <3>2. r \in Recipients
      BY DEF Init
    <3> QED BY <3>1, <3>2 DEF Members, OnceEach
  <2> QED BY <2>1, <2>2 DEF Init, OnLists
<1> QED BY <1>1, <1>2, TypeInit DEF IInv

LEMMA IInvNext == IInv /\ [Next]_vars => IInv'
<1> SUFFICES ASSUME IInv, [Next]_vars PROVE IInv'
  OBVIOUS
<1>1. TypeOK' /\ IdsUsed'
  BY TypeNext, IdsUsedNext DEF IInv
<1>2. NothingLost'
  <2>1. CASE NewDay
    BY <2>1, NothingLostSame DEF IInv, NewDay, db, env, requests, history
  <2>2. CASE UNCHANGED vars
    BY <2>2, NothingLostSame DEF IInv, vars, db, env, requests, history
  <2> QED BY <2>1, <2>2, NothingLostRound, NothingLostWeb DEF IInv, Next
<1> QED BY <1>1, <1>2 DEF IInv

\* Without a lost write, a recipient somebody put on a mailing is on one of
\* the three lists of some mailing for ever after, whatever the order in which
\* the sender, retries, exclusions, merges and restarts come.
THEOREM NobodyIsLost == Spec => []NothingLost
<1>1. IInv => NothingLost
  BY DEF IInv
<1> QED BY IInvInit, IInvNext, <1>1, PTL DEF Spec
-----------------------------------------------------------------------------
(* Recording a delivery cannot raise.  While the sender is at a mailing, a  *)
(* recipient of its snapshot whose contact is on an account still to be     *)
(* visited is still on the list in hand: each account is visited once, and  *)
(* a recipient leaves the list only when his own account is visited.        *)

Held(E) == \A r \in rids : mc[r] \in E => local[cur].rcpt[r] > 0
InHand ==
    /\ pc \in {"accounts", "send", "sent"} => Held(eas)
    /\ pc = "count" => Held(eas \ {target[1]})
    /\ pc \in {"send", "sent"} =>
          /\ target[2] \in rids /\ target[1] \in eas
          /\ mc[target[2]] \in {target[1], NoMail}
          /\ local[cur].rcpt[target[2]] > 0
HandInv == ~disturbed => InHand

LEMMA HandSame ==
    ASSUME HandInv, UNCHANGED <<sender, mc>>, disturbed => disturbed'
    PROVE  HandInv'
BY DEF HandInv, InHand, Held, sender

LEMMA HandForget ==
    ASSUME Forget
    PROVE  HandInv'
BY DEF Forget, HandInv, InHand

LEMMA HandMove ==
    ASSUME TypeOK, HandInv, NEW b, NEW r \in Recipients, MoveContact(b, r)
    PROVE  HandInv'
<1>1. CASE pc # "idle" /\ r \in rids
  BY <1>1 DEF MoveContact, HandInv
<1>2. CASE pc = "idle"
  BY <1>2 DEF MoveContact, HandInv, InHand, sender
<1>3. CASE r \notin rids
  <2>1. \A q \in rids : mc'[q] = mc[q]
    BY <1>3 DEF MoveContact, TypeOK
  <2>2. UNCHANGED sender /\ (disturbed => disturbed')
    BY DEF MoveContact
  <2> QED BY <2>1, <2>2 DEF HandInv, InHand, Held, sender
<1> QED BY <1>1, <1>2, <1>3

LEMMA HandNext == TypeOK /\ HandInv /\ [Next]_vars => HandInv'
<1> SUFFICES ASSUME TypeOK, HandInv, [Next]_vars PROVE HandInv'
  OBVIOUS
<1>1. CASE StartRound
  BY <1>1 DEF StartRound, HandInv, InHand
<1>2. CASE EndRound \/ Crash
  BY <1>2, HandForget DEF EndRound, Crash
<1>3. ASSUME NEW m \in Mailings, SuccessReport(m) PROVE HandInv'
  BY <1>3 DEF SuccessReport, HandInv, InHand
<1>4. ASSUME NEW m \in Mailings, BeginMailing(m) PROVE HandInv'
  BY <1>4 DEF BeginMailing, HandInv, InHand, Held, Members
<1>5. ASSUME NEW a \in Accounts, SkipAccount(a) PROVE HandInv'
  BY <1>5 DEF SkipAccount, NextAccount, HandInv, InHand, Held
<1>6. ASSUME NEW a \in Accounts, NEW r \in Recipients, DropGone(a, r) PROVE HandInv'
  <2> DEFINE row == [local[cur] EXCEPT !.rcpt = Drop(@, r), !.num = @ - 1]
  <2>0. /\ pc = "accounts" /\ mc[r] = a /\ r \in rids /\ a \in Accounts
        /\ cur \in Mailings /\ local[cur] \in Row
    BY <1>6 DEF DropGone, TypeOK, Eligible
  <2>1. CASE local[cur].rcpt[r] > 0 /\ Saves(row)
    <3>1. /\ local' = [local EXCEPT ![cur] = row] /\ mc' = [mc EXCEPT ![r] = NoMail]
          /\ NextAccount(a) /\ UNCHANGED <<cur, rids>>
          /\ disturbed' = (disturbed \/ Stale(cur, local[cur]))
      BY <1>6, <2>1 DEF DropGone
    <3>2. \A q \in Recipients \ {r} : mc'[q] = mc[q] /\ local'[cur].rcpt[q] = local[cur].rcpt[q]
      BY <2>0, <3>1 DEF TypeOK, Row, Ids, Drop
    <3>3. mc'[r] \notin eas'
      BY <2>0, <3>1, MailingAssumption DEF TypeOK, NextAccount, NoMail
    <3> QED BY <2>0, <3>1, <3>2, <3>3 DEF HandInv, InHand, Held, NextAccount, TypeOK
  <2>2. CASE ~(local[cur].rcpt[r] > 0 /\ Saves(row))
    BY <1>6, <2>2, HandForget DEF DropGone
  <2> QED BY <2>1, <2>2
<1>7. ASSUME NEW a \in Accounts, NEW r \in Recipients, Pick(a, r) PROVE HandInv'
  BY <1>7 DEF Pick, HandInv, InHand, Held, Eligible
<1>8. CASE EndMailing
  BY <1>8 DEF EndMailing, HandInv, InHand
<1>9. CASE Deliver
  BY <1>9 DEF Deliver, HandInv, InHand, Held
<1>10. CASE Record
  <2> DEFINE r == target[2]
             row == [local[cur] EXCEPT !.rcpt = Drop(@, r), !.succ = Add(@, r)]
  <2>0. pc = "sent" /\ cur \in Mailings /\ local[cur] \in Row /\ r \in Recipients
    BY <1>10 DEF Record, TypeOK, Pairs
  <2>1. CASE local[cur].rcpt[r] > 0
    <3>1. /\ local' = [local EXCEPT ![cur] = row] /\ pc' = "count"
          /\ UNCHANGED <<mc, cur, rids, eas, target>>
          /\ disturbed' = (disturbed \/ Stale(cur, local[cur]))
      BY <1>10, <2>1 DEF Record
    <3>2. \A q \in Recipients \ {r} : local'[cur].rcpt[q] = local[cur].rcpt[q]
      BY <2>0, <3>1 DEF TypeOK, Row, Ids, Drop
    <3>3. NoMail \notin eas
      BY MailingAssumption DEF TypeOK, NoMail
    <3> QED BY <2>0, <3>1, <3>2, <3>3 DEF HandInv, InHand, Held, TypeOK
  <2>2. CASE ~(local[cur].rcpt[r] > 0)
    BY <1>10, <2>2, HandForget DEF Record
  <2> QED BY <2>1, <2>2
<1>11. CASE CounterIncrement
  BY <1>11 DEF CounterIncrement, NextAccount, HandInv, InHand, Held
<1>12. CASE AuthError
  <2>1. cur \in Mailings /\ local'[cur].rcpt = local[cur].rcpt
    BY <1>12 DEF AuthError, TypeOK, Row
  <2> QED BY <1>12, <2>1 DEF AuthError, NextAccount, HandInv, InHand, Held
<1>13. CASE SendError
  <2> DEFINE r == target[2]
             row == [local[cur] EXCEPT !.status = "E", !.rcpt = Drop(@, r),
                                       !.failed = Add(@, r)]
  <2>0. pc = "send" /\ cur \in Mailings /\ local[cur] \in Row /\ r \in Recipients
    BY <1>13 DEF SendError, TypeOK, Pairs
  <2>1. CASE local[cur].rcpt[r] > 0
    <3>1. /\ local' = [local EXCEPT ![cur] = row]
          /\ NextAccount(target[1]) /\ UNCHANGED <<mc, cur, rids>>
      BY <1>13, <2>1 DEF SendError
    <3>2. disturbed => disturbed'
      BY <1>13 DEF SendError
    <3>3. \A q \in Recipients \ {r} : local'[cur].rcpt[q] = local[cur].rcpt[q]
      BY <2>0, <3>1 DEF TypeOK, Row, Ids, Drop
    <3>4. NoMail \notin eas
      BY MailingAssumption DEF TypeOK, NoMail
    <3> QED BY <2>0, <3>1, <3>2, <3>3, <3>4 DEF HandInv, InHand, Held, NextAccount, TypeOK
  <2>2. CASE ~(local[cur].rcpt[r] > 0)
    BY <1>13, <2>2, HandForget DEF SendError
  <2> QED BY <2>1, <2>2
<1>14. ASSUME NEW a \in Accounts, NEW r \in Recipients,
              SpecifyVip(a, r) \/ ChangeMassConts(a, r)
       PROVE HandInv'
  <2>0. PICK b : MoveContact(b, r)
    BY <1>14 DEF SpecifyVip, ChangeMassConts
  <2> QED BY <2>0, HandMove
<1>15. CASE SaveRequest
  <2>1. UNCHANGED <<sender, mc>>
    BY <1>15 DEF SaveRequest, SaveModel, SendFailedRecipients, LookForSent, SaveExcluded, Reply
  <2>2. disturbed => disturbed'
    BY <1>15, Zenon DEF SaveRequest, SaveModel, SendFailedRecipients, LookForSent, SaveExcluded
  <2> QED BY <2>1, <2>2, HandSame
<1>16. CASE NewDay \/ UNCHANGED vars
  BY <1>16, HandSame DEF NewDay, vars
<1>17. ASSUME NEW r \in Recipients, DeleteRecipient(r) PROVE HandInv'
  <2>1. CASE mc' = mc
    BY <1>17, <2>1, HandSame DEF DeleteRecipient
  <2>2. CASE mc' = [mc EXCEPT ![r] = NoMail]
    <3>1. UNCHANGED <<sender, disturbed>>
      BY <1>17 DEF DeleteRecipient
    <3>2. \A q \in Recipients : mc'[q] = mc[q] \/ mc'[q] \notin Accounts
      BY <2>2, MailingAssumption DEF TypeOK, NoMail
    <3>3. pc \in {"send", "sent"} => mc'[target[2]] \in {mc[target[2]], NoMail}
      BY <2>2 DEF TypeOK, Pairs
    <3> QED BY <3>1, <3>2, <3>3 DEF HandInv, InHand, Held, sender, TypeOK
  <2> QED BY <1>17, <2>1, <2>2 DEF DeleteRecipient
<1>18. ASSUME Web, ~SaveRequest,
              ~\E a \in Accounts, r \in Recipients : SpecifyVip(a, r) \/ ChangeMassConts(a, r),
              ~\E r \in Recipients : DeleteRecipient(r)
       PROVE  HandInv'
  <2>1. CASE UNCHANGED <<sender, mc, disturbed>>
    BY <2>1, HandSame
  <2>2. ASSUME NEW m \in Mailings, \/ \E a, b \in Mailings : ReadForMerge(a, b, m)
                                  \/ InsertUnited(m) \/ DeleteMerged(m) \/ BreakMerge(m)
        PROVE  HandInv'
    BY <2>2, MergeLeaves, HandSame
  <2> QED BY <1>18, <2>1, <2>2 DEF Web, Merging, MakeMailingOut, MakeMassmail, NewMailing, Load,
             DeleteMailing, Unsubscribe, SwitchAccount
<1> QED
  BY <1>1, <1>2, <1>3, <1>4, <1>5, <1>6, <1>7, <1>8, <1>9, <1>10, <1>11, <1>12, <1>13, <1>14,
     <1>15, <1>16, <1>17, <1>18 DEF Next, Round, Failure

\* Whatever the mailing, the recipient in hand is on its list until his
\* delivery is recorded, unless his contact was moved during the round.
THEOREM RecordingIsSafe == Spec => []RecordCannotRaise
<1>1. Init => HandInv
  BY DEF Init, HandInv, InHand
<1>2. TypeOK /\ HandInv => RecordCannotRaise
  BY DEF TypeOK, HandInv, InHand, Held, RecordCannotRaise
<1> QED BY <1>1, <1>2, HandNext, TypeCorrect, PTL DEF Spec

(* Exclusion.  While exclude has looked and not saved, whoever it found    *)
(* nothing about is on no list of successful ids but for what was recorded  *)
(* since: only Record puts anybody on one, and a merge moves the lists.     *)

Seen == Members(web.row.rcpt) \ web.out
Looked == web.kind = "looked" /\ ~disturbed =>
    \A k \in live : Members(mo[k].succ) \cap Seen \subseteq since

LEMMA LookedSame ==
    ASSUME Looked, UNCHANGED web, since \subseteq since', disturbed => disturbed',
           \A k \in live' : \E j \in live : Members(mo'[k].succ) \subseteq Members(mo[j].succ)
    PROVE  Looked'
BY DEF Looked, Seen

\* The sender saves what it has in hand, with other recipients at most.
LEMMA LookedSaved ==
    ASSUME TypeOK, Looked, NEW m \in Mailings, NEW row, SaveRow(m, row), UNCHANGED web,
           since \subseteq since', disturbed' \/ ~(disturbed \/ Stale(m, local[m])),
           Members(row.succ) \subseteq Members(local[m].succ) \cup since'
    PROVE  Looked'
<1> SUFFICES ASSUME web.kind = "looked", ~disturbed', NEW k \in live'
             PROVE  Members(mo'[k].succ) \cap Seen \subseteq since'
  BY DEF Looked, Seen
<1>1. ~disturbed /\ m \in live /\ mo[m] = local[m]
  BY DEF Stale, Kept
<1>2. k \in live /\ mo'[k] = IF k = m THEN row ELSE mo[k]
  BY <1>1 DEF SaveRow, TypeOK
<1> QED BY <1>1, <1>2 DEF Looked

LEMMA LookedRound ==
    ASSUME TypeOK, Looked, Round \/ Failure
    PROVE  Looked'
<1>t. pc \in {"accounts", "send", "sent", "count"} => cur \in Mailings /\ local[cur] \in Row
  BY DEF TypeOK
<1>s. CASE UNCHANGED <<web, since, live, mo>> /\ (disturbed => disturbed')
  BY <1>s, LookedSame
<1>1. ASSUME NEW m \in Mailings, SuccessReport(m) PROVE Looked'
  <2>1. /\ SaveRow(m, [local[m] EXCEPT !.status = "D"]) /\ UNCHANGED <<web, since>>
        /\ disturbed' = (disturbed \/ Stale(m, local[m])) /\ local[m] \in Row
    BY <1>1 DEF SuccessReport, requests, TypeOK
  <2>2. [local[m] EXCEPT !.status = "D"].succ = local[m].succ
    BY <2>1 DEF Row
  <2> QED BY <2>1, <2>2, LookedSaved
<1>2. ASSUME NEW a \in Accounts, NEW r \in Recipients, DropGone(a, r) PROVE Looked'
  <2> DEFINE row == [local[cur] EXCEPT !.rcpt = Drop(@, r), !.num = @ - 1]
  <2>1. UNCHANGED <<web, since>> /\ cur \in Mailings /\ local[cur] \in Row
    BY <1>2, <1>t DEF DropGone, requests
  <2>2. CASE local[cur].rcpt[r] > 0 /\ Saves(row)
    <3>1. SaveRow(cur, row) /\ disturbed' = (disturbed \/ Stale(cur, local[cur]))
      BY <1>2, <2>2 DEF DropGone
    <3>2. row.succ = local[cur].succ
      BY <2>1 DEF Row
    <3> QED BY <2>1, <3>1, <3>2, LookedSaved
  <2>3. CASE ~(local[cur].rcpt[r] > 0 /\ Saves(row))
    BY <1>2, <1>s, <2>1, <2>3 DEF DropGone, db
  <2> QED BY <2>2, <2>3
<1>3. CASE Record
  <2> DEFINE r == target[2]
             row == [local[cur] EXCEPT !.rcpt = Drop(@, r), !.succ = Add(@, r)]
  <2>1. UNCHANGED web /\ cur \in Mailings /\ local[cur] \in Row /\ r \in Recipients /\ Noted
    BY <1>3, <1>t DEF Record, TypeOK, Pairs
  <2>2. since \subseteq since' /\ (web.kind = "looked" => r \in since')
    BY <2>1 DEF Noted
  <2>3. CASE local[cur].rcpt[r] > 0
    <3>1. SaveRow(cur, row) /\ disturbed' = (disturbed \/ Stale(cur, local[cur]))
      BY <1>3, <2>3 DEF Record
    <3>2. Members(row.succ) \subseteq Members(local[cur].succ) \cup {r}
      BY <2>1 DEF Row, Ids, Members, Add
    <3>3. CASE web.kind = "looked"
      BY <2>1, <2>2, <3>1, <3>2, <3>3, LookedSaved
    <3>4. CASE web.kind # "looked"
      BY <2>1, <3>4 DEF Looked
    <3> QED BY <3>3, <3>4
  <2>4. CASE ~(local[cur].rcpt[r] > 0)
    <3>1. UNCHANGED <<live, mo, disturbed>>
      BY <1>3, <2>4 DEF Record, db
    <3> QED BY <2>1, <2>2, <3>1, LookedSame
  <2> QED BY <2>3, <2>4
<1>4. CASE CounterIncrement
  <2>1. /\ SaveRow(cur, local[cur]) /\ UNCHANGED <<web, since>> /\ cur \in Mailings
        /\ disturbed' = (disturbed \/ Stale(cur, local[cur]))
    BY <1>4, <1>t DEF CounterIncrement, requests
  <2> QED BY <2>1, LookedSaved
<1>5. CASE AuthError
  <2> DEFINE row == [local[cur] EXCEPT !.status = "E"]
  <2>1. /\ SaveRow(cur, row) /\ UNCHANGED <<web, since>> /\ cur \in Mailings /\ local[cur] \in Row
        /\ disturbed' = (disturbed \/ Stale(cur, local[cur]))
    BY <1>5, <1>t DEF AuthError, requests
  <2>2. row.succ = local[cur].succ
    BY <2>1 DEF Row
  <2> QED BY <2>1, <2>2, LookedSaved
<1>6. CASE SendError
  <2> DEFINE r == target[2]
             row == [local[cur] EXCEPT !.status = "E", !.rcpt = Drop(@, r), !.failed = Add(@, r)]
  <2>1. UNCHANGED <<web, since>> /\ cur \in Mailings /\ local[cur] \in Row
    BY <1>6, <1>t DEF SendError, requests
  <2>2. disturbed => disturbed'
    BY <1>6 DEF SendError
  <2>3. CASE local[cur].rcpt[r] > 0
    <3>1. SaveRow(cur, row) /\ (disturbed' \/ ~(disturbed \/ Stale(cur, local[cur])))
      BY <1>6, <2>3 DEF SendError
    <3>2. row.succ = local[cur].succ
      BY <2>1 DEF Row
    <3> QED BY <2>1, <3>1, <3>2, LookedSaved
  <2>4. CASE ~(local[cur].rcpt[r] > 0)
    <3>1. UNCHANGED <<live, mo>>
      BY <1>6, <2>4 DEF SendError, db
    <3> QED BY <1>s, <2>1, <2>2, <3>1
  <2> QED BY <2>3, <2>4
<1>7. CASE StartRound \/ EndRound \/ EndMailing \/ Deliver \/ Crash
  <2>1. UNCHANGED <<db, requests>>
    BY <1>7 DEF StartRound, EndRound, EndMailing, Deliver, Crash
  <2>2. disturbed => disturbed'
    BY <1>7, Zenon DEF StartRound, EndRound, EndMailing, Deliver, Crash
  <2> QED BY <1>s, <2>1, <2>2 DEF db, requests
<1>8. ASSUME NEW m \in Mailings, BeginMailing(m) PROVE Looked'
  BY <1>8, <1>s DEF BeginMailing, db, requests
<1>9. ASSUME NEW a \in Accounts, SkipAccount(a) PROVE Looked'
  BY <1>9, <1>s DEF SkipAccount, db, requests
<1>10. ASSUME NEW a \in Accounts, NEW r \in Recipients, Pick(a, r) PROVE Looked'
  BY <1>10, <1>s DEF Pick, db, requests
<1> QED BY <1>1, <1>2, <1>3, <1>4, <1>5, <1>6, <1>7, <1>8, <1>9, <1>10 DEF Round, Failure

LEMMA LookedWeb ==
    ASSUME TypeOK, IdsUsed, Looked, Web
    PROVE  Looked'
<1>1. CASE SaveRequest
  <2>1. CASE LookForSent
    <3>1. /\ web' = [kind |-> "looked", m |-> web.m, row |-> web.row, out |-> Excluded(web.row.rcpt)]
          /\ UNCHANGED <<live, mo>>
      BY <2>1 DEF LookForSent, db
    <3>2. \A k \in live : Members(mo[k].succ) \cap Members(web.row.rcpt) \subseteq Excluded(web.row.rcpt)
      BY DEF Excluded
    <3> QED BY <3>1, <3>2 DEF Looked, Seen
  <2>2. CASE web' = NoWeb
    BY <2>2 DEF Looked, NoWeb
  <2> QED BY <1>1, <2>1, <2>2 DEF SaveRequest, SaveModel, SendFailedRecipients, SaveExcluded, Reply
<1>2. ASSUME NEW m \in Mailings, NEW k \in {"change", "failed", "exclude"}, Load(k, m) PROVE Looked'
  BY <1>2 DEF Load, Looked
<1>3. ASSUME NEW m \in Mailings, NEW S \in SUBSET Recipients, NewMailing(m, S) PROVE Looked'
  <2>1. /\ m \notin live /\ live' = live \cup {m} /\ mo' = [mo EXCEPT ![m] = NewRow("P", S)]
        /\ UNCHANGED <<web, since, disturbed>>
    BY <1>3 DEF NewMailing, IdsUsed, Given, requests
  <2>2. Members(NewRow("P", S).succ) = {}
    BY DEF Members, NewRow, Blank, NoIds
  <2>3. \A k \in live' : mo'[k] = IF k = m THEN NewRow("P", S) ELSE mo[k]
    BY <2>1 DEF TypeOK
  <2>4. \A k \in live' : k = m \/ k \in live
    BY <2>1
  <2> QED BY <2>1, <2>2, <2>3, <2>4 DEF Looked, Seen
<1>4. ASSUME NEW m \in Mailings, DeleteMailing(m) PROVE Looked'
  <2>1. /\ live' = live \ {m} /\ mo' = [mo EXCEPT ![m] = Blank] /\ UNCHANGED <<web, since, disturbed>>
    BY <1>4 DEF DeleteMailing, requests
  <2>2. \A k \in live' : k \in live /\ mo'[k] = mo[k]
    BY <2>1 DEF TypeOK
  <2> QED BY <2>1, <2>2 DEF Looked, Seen
<1>5. ASSUME NEW m \in Mailings, InsertUnited(m) PROVE Looked'
  <2> DEFINE a == merge[m].a
             b == merge[m].b
             x == merge[m].ra
             y == merge[m].rb
  <2>0. UNCHANGED <<web, since>> /\ (disturbed => disturbed')
    BY <1>5, MergeLeaves
  <2> SUFFICES ASSUME web.kind = "looked", ~disturbed', NEW k \in live'
               PROVE  Members(mo'[k].succ) \cap Seen \subseteq since
    BY <2>0 DEF Looked, Seen
  <2>1. /\ live' = live \cup {m} /\ mo' = [mo EXCEPT ![m] = United(x, y)]
        /\ a \in live /\ b \in live /\ mo[a] = x /\ mo[b] = y
    BY <1>5 DEF InsertUnited, SaveRow, Stale, Kept
  <2>2. Members(United(x, y).succ) \subseteq Members(mo[a].succ) \cup Members(mo[b].succ)
    <3>1. mo[a].succ \in Ids /\ mo[b].succ \in Ids
      BY <2>1 DEF TypeOK, Row
    <3>2. United(x, y).succ = Joined(mo[a].succ, mo[b].succ)
      BY <2>1 DEF United
    <3> HIDE DEF a, b, x, y
    <3> QED BY <3>1, <3>2 DEF Members, Joined, Ids
  <2>3. mo'[k] = (IF k = m THEN United(x, y) ELSE mo[k]) /\ (k = m \/ k \in live)
    BY <2>1 DEF TypeOK
  <2> HIDE DEF a, b, x, y
  <2>4. \A j \in live : Members(mo[j].succ) \cap Seen \subseteq since
    BY <2>0 DEF Looked
  <2> QED BY <2>1, <2>2, <2>3, <2>4
<1>6. ASSUME NEW m \in Mailings, DeleteMerged(m) PROVE Looked'
  <2>1. /\ live' = live \ {merge[m].a, merge[m].b} /\ UNCHANGED <<web, since, disturbed>>
        /\ mo' = [mo EXCEPT ![merge[m].a] = Blank, ![merge[m].b] = Blank]
    BY <1>6 DEF DeleteMerged
  <2>2. \A k \in live' : k \in live /\ mo'[k] = mo[k]
    BY <2>1 DEF TypeOK
  <2> QED BY <2>1, <2>2 DEF Looked, Seen
<1>7. CASE UNCHANGED <<web, since, live, mo>> /\ (disturbed => disturbed')
  BY <1>7, LookedSame
<1>8. ASSUME NEW m \in Mailings, NEW a, NEW b, ReadForMerge(a, b, m) PROVE Looked'
  BY <1>7, <1>8 DEF ReadForMerge
<1>9. ASSUME NEW m \in Mailings, BreakMerge(m) PROVE Looked'
  <2>1. UNCHANGED <<web, since, live, mo>>
    BY <1>9 DEF BreakMerge, db
  <2> QED BY <1>7, <1>9, <2>1, MergeLeaves
<1>10. ASSUME NEW r \in Recipients, Unsubscribe(r) \/ DeleteRecipient(r) PROVE Looked'
  BY <1>7, <1>10 DEF Unsubscribe, DeleteRecipient, db, requests
<1>11. ASSUME NEW a \in Accounts, NEW r \in Recipients, SpecifyVip(a, r) \/ ChangeMassConts(a, r)
       PROVE Looked'
  <2>1. PICK c : MoveContact(c, r)
    BY <1>11 DEF SpecifyVip, ChangeMassConts
  <2> QED BY <1>7, <2>1 DEF MoveContact, db, requests
<1>12. ASSUME NEW a \in Accounts, SwitchAccount(a) PROVE Looked'
  BY <1>7, <1>12 DEF SwitchAccount, db, requests
<1> QED BY <1>1, <1>2, <1>3, <1>4, <1>5, <1>6, <1>8, <1>9, <1>10, <1>11, <1>12
        DEF Web, Merging, MakeMailingOut, MakeMassmail

LEMMA LookedNext == TypeOK /\ IdsUsed /\ Looked /\ [Next]_vars => Looked'
<1>1. NewDay \/ UNCHANGED vars => UNCHANGED <<web, since, live, mo, disturbed>>
  BY DEF NewDay, vars, db, requests
<1>2. Looked /\ UNCHANGED <<web, since, live, mo, disturbed>> => Looked'
  BY DEF Looked, Seen
<1> QED BY <1>1, <1>2, LookedRound, LookedWeb DEF Next

\* The list exclude saves is free of everybody the mailings of the message
\* have delivered to, but for those recorded after exclude had looked, as long
\* as no write was lost.
THEOREM ExclusionHolds == Spec => ExcludeWorks
<1> DEFINE Works == \A m \in Mailings :
              web.kind = "looked" /\ web.m = m /\ web' = NoWeb
              /\ ~disturbed' /\ ~Stale(m, web.row) =>
                 \A k \in live : Members(mo'[m].rcpt) \cap Members(mo[k].succ) \subseteq since
<1>1. TypeOK /\ Looked /\ [Next]_vars => [Works]_vars
  <2> SUFFICES ASSUME TypeOK, Looked, Next, NEW m \in Mailings, web.kind = "looked", web.m = m,
                      web' = NoWeb, ~disturbed', ~Stale(m, web.row), NEW k \in live
               PROVE  Members(mo'[m].rcpt) \cap Members(mo[k].succ) \subseteq since
    BY DEF vars
  <2>1. SaveExcluded
    <3>1. web # web'
      BY DEF NoWeb
    <3>2. ~Round /\ ~Failure /\ ~NewDay
      BY <3>1, SenderGives DEF NewDay, requests
    <3>3. \A j \in Mailings : /\ ~InsertUnited(j) /\ ~DeleteMerged(j) /\ ~BreakMerge(j)
                              /\ \A a, b \in Mailings : ~ReadForMerge(a, b, j)
      BY <3>1, MergeLeaves
    <3>4. SaveRequest \/ \E j \in Mailings, q \in {"change", "failed", "exclude"} : Load(q, j)
      BY <3>1, <3>2, <3>3 DEF Next, Web, Merging, MakeMailingOut, MakeMassmail, NewMailing, DeleteMailing,
         Unsubscribe, DeleteRecipient, SpecifyVip, ChangeMassConts, MoveContact, SwitchAccount, requests
    <3>5. \A j \in Mailings, q \in {"change", "failed", "exclude"} : ~Load(q, j)
      BY <3>1 DEF Load
    <3> QED BY <3>4, <3>5 DEF SaveRequest, SaveModel, SendFailedRecipients, LookForSent
  <2> DEFINE rest == Keep(web.row.rcpt, web.out)
  <2>2. /\ web.row \in Row /\ m \in live /\ mo[m] = web.row
    BY DEF Stale, Kept, TypeOK, Requests, NoWeb
  <2>3. Members(rest) \subseteq Seen
    BY DEF Members, Keep, Seen
  <2>4. ~disturbed => Members(mo[k].succ) \cap Seen \subseteq since
    BY DEF Looked
  <2>5. CASE web.out # {}
    <3>1. /\ mo' = [mo EXCEPT ![m].rcpt = rest, ![m].num = Size(rest)]
          /\ disturbed' = (disturbed \/ Stale(web.m, web.row))
      BY <2>1, <2>2, <2>5 DEF SaveExcluded
    <3>2. mo'[m].rcpt = rest
      <4> HIDE DEF rest
      <4> QED BY <3>1 DEF TypeOK, Row
    <3> QED BY <2>3, <2>4, <3>1, <3>2
  <2>6. CASE web.out = {}
    <3>1. mo' = mo /\ disturbed' = disturbed
      BY <2>1, <2>6 DEF SaveExcluded, db
    <3>2. Members(mo'[m].rcpt) = Seen
      BY <2>2, <2>6, <3>1 DEF Seen
    <3> QED BY <2>4, <3>1, <3>2
  <2> QED BY <2>5, <2>6
<1>2. Init => Looked
  BY DEF Init, Looked, NoWeb
<1>3. IInv /\ Looked /\ [Next]_vars => (IInv /\ Looked)'
  BY IInvNext, LookedNext DEF IInv
<1>4. IInv => TypeOK
  BY DEF IInv
<1> QED BY <1>1, <1>2, <1>3, <1>4, IInvInit, PTL DEF Spec, ExcludeWorks
-----------------------------------------------------------------------------
(* The promise to the recipients.  A message a recipient may still get is a *)
(* ticket: a pair of a mailing and a number.                                *)

Tokens(W) == {t \in Mailings \X Nat : t[2] \in 1 .. W[t[1]]}
Weights == [Mailings -> Nat]

LEMMA TokensOfOne ==
    ASSUME NEW m \in Mailings, NEW n \in Nat
    PROVE  IsFiniteSet({m} \X (1 .. n)) /\ Cardinality({m} \X (1 .. n)) = n
<1>1. IsFiniteSet({m}) /\ Cardinality({m}) = 1
  BY FS_Singleton
<1>2. IsFiniteSet(1 .. n) /\ Cardinality(1 .. n) = IF 1 > n THEN 0 ELSE n - 1 + 1
  BY FS_Interval
<1>3. Cardinality(1 .. n) = n
  BY <1>2
<1>4. /\ IsFiniteSet({m} \X (1 .. n))
      /\ Cardinality({m} \X (1 .. n)) = Cardinality({m}) * Cardinality(1 .. n)
  BY <1>1, <1>2, FS_Product
<1>5. 1 * n = n
  OBVIOUS
<1> QED BY <1>1, <1>3, <1>4, <1>5

LEMMA TokensChange ==
    ASSUME NEW W \in Weights, NEW V \in Weights, NEW m \in Mailings,
           \A k \in Mailings \ {m} : V[k] = W[k], IsFiniteSet(Tokens(W))
    PROVE  /\ IsFiniteSet(Tokens(V))
           /\ Cardinality(Tokens(V)) = Cardinality(Tokens(W)) - W[m] + V[m]
<1> DEFINE old == {m} \X (1 .. W[m])
           new == {m} \X (1 .. V[m])
           rest == Tokens(W) \ old
<1>1. W[m] \in Nat /\ V[m] \in Nat
  BY DEF Weights
<1>2. old \subseteq Tokens(W) /\ rest \cap new = {} /\ Tokens(V) = rest \cup new
  BY <1>1 DEF Tokens, Weights
<1>3. IsFiniteSet(old) /\ Cardinality(old) = W[m] /\ IsFiniteSet(new) /\ Cardinality(new) = V[m]
  BY <1>1, TokensOfOne
<1> HIDE DEF old, new
<1>4. Tokens(W) \cap old = old
  BY <1>2
<1>5. /\ IsFiniteSet(rest)
      /\ Cardinality(rest) = Cardinality(Tokens(W)) - Cardinality(Tokens(W) \cap old)
  BY FS_Difference
<1>6. Cardinality(Tokens(W)) \in Nat /\ Cardinality({}) = 0
  BY FS_CardinalityType, FS_EmptySet
<1> HIDE DEF rest
<1>7. IsFiniteSet(rest \cup new) /\ Cardinality(rest \cup new) = Cardinality(rest) + Cardinality(new) - Cardinality(rest \cap new)
  BY <1>3, <1>5, FS_Union
<1>8. Cardinality(rest) = Cardinality(Tokens(W)) - W[m] /\ Cardinality(rest \cap new) = 0
  BY <1>2, <1>3, <1>4, <1>5, <1>6
<1>9. Cardinality(rest \cup new) = Cardinality(Tokens(W)) - W[m] + V[m]
  BY <1>1, <1>3, <1>6, <1>7, <1>8
<1> QED BY <1>2, <1>7, <1>9

LEMMA TokensLess ==
    ASSUME NEW W \in Weights, NEW V \in Weights, \A k \in Mailings : V[k] <= W[k],
           IsFiniteSet(Tokens(W))
    PROVE  IsFiniteSet(Tokens(V)) /\ Cardinality(Tokens(V)) <= Cardinality(Tokens(W))
<1>1. Tokens(V) \in SUBSET Tokens(W)
  BY DEF Tokens, Weights
<1> QED BY <1>1, FS_Subset

LEMMA TokensMerge ==
    ASSUME NEW W \in Weights, NEW V \in Weights,
           NEW a \in Mailings, NEW b \in Mailings \ {a}, NEW m \in Mailings \ {a, b},
           \A k \in Mailings \ {a, b, m} : V[k] = W[k],
           V[a] = 0, V[b] = 0, W[m] = 0, V[m] <= W[a] + W[b], IsFiniteSet(Tokens(W))
    PROVE  IsFiniteSet(Tokens(V)) /\ Cardinality(Tokens(V)) <= Cardinality(Tokens(W))
<1> DEFINE W1 == [W EXCEPT ![m] = V[m]]
           W2 == [W1 EXCEPT ![a] = 0]
<1>1. W1 \in Weights /\ W2 \in Weights /\ W[a] \in Nat /\ W[b] \in Nat /\ V[m] \in Nat
  BY DEF Weights
<1>2. /\ \A k \in Mailings \ {m} : W1[k] = W[k]
      /\ \A k \in Mailings \ {a} : W2[k] = W1[k]
      /\ \A k \in Mailings \ {b} : V[k] = W2[k]
      /\ W1[m] = V[m] /\ W1[a] = W[a] /\ W2[a] = 0 /\ W2[b] = W[b]
  BY DEF Weights
<1> HIDE DEF W1, W2
<1>3. /\ IsFiniteSet(Tokens(W1))
      /\ Cardinality(Tokens(W1)) = Cardinality(Tokens(W)) - W[m] + W1[m]
  BY <1>1, <1>2, TokensChange
<1>4. /\ IsFiniteSet(Tokens(W2))
      /\ Cardinality(Tokens(W2)) = Cardinality(Tokens(W1)) - W1[a] + W2[a]
  BY <1>1, <1>2, <1>3, TokensChange
<1>5. /\ IsFiniteSet(Tokens(V))
      /\ Cardinality(Tokens(V)) = Cardinality(Tokens(W2)) - W2[b] + V[b]
  BY <1>1, <1>2, <1>4, TokensChange
<1>6. Cardinality(Tokens(W)) \in Nat
  BY FS_CardinalityType
<1> QED BY <1>1, <1>2, <1>3, <1>4, <1>5, <1>6

\* What the mailings of the table, and those in the sender's hands, have for r.
Worth(row, r) == row.rcpt[r] + row.failed[r]
Weight(r) == [m \in Mailings |-> IF m \in Kept THEN Worth(mo[m], r) ELSE 0]
Hand(r) == [m \in Mailings |-> local[m].rcpt[r]]
Flight(r) == IF pc = "sent" /\ target[2] = r THEN 1 ELSE 0
OnTable(r) == Cardinality(Tokens(Weight(r)))
AtHand(r) == Cardinality(Tokens(Hand(r)))

\* A message in flight is accounted for twice: by the table, that the result
\* will be recorded in, and by the copy that the sender looks at.
Accounted == ~disturbed => \A r \in Recipients :
    /\ IsFiniteSet(Tokens(Weight(r))) /\ IsFiniteSet(Tokens(Hand(r)))
    /\ sent[r] + OnTable(r) - Flight(r) <= due[r]
    /\ sent[r] + AtHand(r) - Flight(r) <= due[r]

LEMMA WeightType ==
    ASSUME TypeOK, NEW r \in Recipients
    PROVE  /\ Weight(r) \in Weights /\ Hand(r) \in Weights /\ Flight(r) \in {0, 1}
           /\ \A row \in Row : Worth(row, r) \in Nat /\ row.rcpt[r] \in Nat /\ row.failed[r] \in Nat
           /\ Worth(Blank, r) = 0 /\ Blank.rcpt[r] = 0
<1>1. \A row \in Row : Worth(row, r) \in Nat /\ row.rcpt[r] \in Nat /\ row.failed[r] \in Nat
  BY DEF Row, Ids, Worth
<1>2. Worth(Blank, r) = 0 /\ Blank.rcpt[r] = 0
  BY DEF Worth, Blank, NoIds
<1> QED BY <1>1, <1>2 DEF Weight, Hand, Weights, Flight, TypeOK

LEMMA LeftIs == TypeOK => Left = [r \in Recipients |-> OnTable(r) - Flight(r)]
<1> SUFFICES ASSUME TypeOK PROVE Left = [r \in Recipients |-> OnTable(r) - Flight(r)]
  OBVIOUS
<1>1. ASSUME NEW r \in Recipients PROVE Tickets(r) = Tokens(Weight(r))
  <2>1. \A m \in Kept : m \in Mailings /\ Weight(r)[m] = Worth(mo[m], r) /\ Worth(mo[m], r) \in Nat
    BY WeightType, KeptType DEF Weight, TypeOK
  <2>2. \A m \in Mailings \ Kept : Weight(r)[m] = 0
    BY DEF Weight
  <2>3. Tickets(r) \subseteq Tokens(Weight(r))
    BY <2>1 DEF Tickets, Tokens, Worth
  <2>4. Tokens(Weight(r)) \subseteq Tickets(r)
    <3> SUFFICES ASSUME NEW m \in Mailings, NEW i \in Nat, i \in 1 .. Weight(r)[m]
                 PROVE  <<m, i>> \in Tickets(r)
      BY DEF Tokens
    <3>1. m \in Kept /\ i \in 1 .. (mo[m].rcpt[r] + mo[m].failed[r])
      BY <2>1, <2>2 DEF Worth
    <3> QED BY <3>1 DEF Tickets
  <2> QED BY <2>3, <2>4
<1> QED BY <1>1 DEF Left, OnTable, Flight

LEMMA LeftIsNext == TypeOK' => Left' = [r \in Recipients |-> OnTable(r)' - Flight(r)']
<1>1. (TypeOK => Left = [r \in Recipients |-> OnTable(r) - Flight(r)])'
  BY LeftIs, PTL
<1> QED BY <1>1

Finite(r) == IsFiniteSet(Tokens(Weight(r))) /\ IsFiniteSet(Tokens(Hand(r)))
Numbers(r) == OnTable(r) \in Nat /\ AtHand(r) \in Nat /\ Flight(r) \in {0, 1}

LEMMA FiniteNumbers == ASSUME TypeOK, NEW r \in Recipients, Finite(r) PROVE Numbers(r)
BY FS_CardinalityType, WeightType DEF Finite, Numbers, OnTable, AtHand

\* One row of the table changes, or one of the sender's copies.
LEMMA TableSaved ==
    ASSUME TypeOK, TypeOK', NEW r \in Recipients, Finite(r),
           NEW m \in Kept, NEW row \in Row, mo' = [mo EXCEPT ![m] = row], Kept' = Kept
    PROVE  /\ IsFiniteSet(Tokens(Weight(r)))'
           /\ OnTable(r)' = OnTable(r) - Worth(mo[m], r) + Worth(row, r)
<1> DEFINE W == Weight(r)
           V == Weight(r)'
<1>1. W \in Weights /\ V \in Weights
  BY WeightType DEF Weight, Weights, TypeOK, Worth, Row, Ids
<1>2. m \in Mailings /\ mo'[m] = row /\ \A k \in Mailings \ {m} : mo'[k] = mo[k]
  BY KeptType DEF TypeOK
<1>3. W[m] = Worth(mo[m], r) /\ V[m] = Worth(row, r) /\ \A k \in Mailings \ {m} : V[k] = W[k]
  BY <1>2 DEF Weight
<1> HIDE DEF W, V
<1>4. IsFiniteSet(Tokens(V)) /\ Cardinality(Tokens(V)) = Cardinality(Tokens(W)) - W[m] + V[m]
  <2>1. IsFiniteSet(Tokens(W))
    BY DEF W, Finite
  <2> QED BY <1>1, <1>2, <1>3, <2>1, TokensChange
<1> QED BY <1>3, <1>4 DEF W, V, OnTable, Tokens

LEMMA HandSaved ==
    ASSUME TypeOK, TypeOK', NEW r \in Recipients, Finite(r),
           NEW m \in Mailings, NEW row \in Row, local' = [local EXCEPT ![m] = row]
    PROVE  /\ IsFiniteSet(Tokens(Hand(r)))'
           /\ AtHand(r)' = AtHand(r) - local[m].rcpt[r] + row.rcpt[r]
<1> DEFINE W == Hand(r)
           V == Hand(r)'
<1>1. W \in Weights /\ V \in Weights
  BY DEF Hand, Weights, TypeOK, Row, Ids
<1>2. local'[m] = row /\ \A k \in Mailings \ {m} : local'[k] = local[k]
  BY DEF TypeOK
<1>3. W[m] = local[m].rcpt[r] /\ V[m] = row.rcpt[r] /\ \A k \in Mailings \ {m} : V[k] = W[k]
  BY <1>2 DEF Hand
<1> HIDE DEF W, V
<1>4. IsFiniteSet(Tokens(V)) /\ Cardinality(Tokens(V)) = Cardinality(Tokens(W)) - W[m] + V[m]
  <2>1. IsFiniteSet(Tokens(W))
    BY DEF W, Finite
  <2> QED BY <1>1, <1>3, <2>1, TokensChange
<1> QED BY <1>3, <1>4 DEF W, V, AtHand, Tokens

LEMMA TableSame ==
    ASSUME NEW r, UNCHANGED <<Kept, mo>>, Finite(r)
    PROVE  IsFiniteSet(Tokens(Weight(r)))' /\ OnTable(r)' = OnTable(r)
BY DEF Finite, OnTable, Tokens, Weight

LEMMA HandKept ==
    ASSUME NEW r, UNCHANGED local, Finite(r)
    PROVE  IsFiniteSet(Tokens(Hand(r)))' /\ AtHand(r)' = AtHand(r)
BY DEF Finite, AtHand, Tokens, Hand

LEMMA HandEmpty ==
    ASSUME TypeOK, local' = [m \in Mailings |-> Blank], NEW r \in Recipients
    PROVE  IsFiniteSet(Tokens(Hand(r)))' /\ AtHand(r)' = 0
<1>1. \A m \in Mailings : Hand(r)'[m] = 0
  BY WeightType DEF Hand
<1>2. Tokens(Hand(r))' = {}
  BY <1>1 DEF Tokens
<1> QED BY <1>2, FS_EmptySet DEF AtHand

\* A step that neither sends nor orders, and leaves r no more than he had.
Less(r) ==
    /\ Finite(r)'
    /\ OnTable(r)' - Flight(r)' <= OnTable(r) - Flight(r)
    /\ AtHand(r)' - Flight(r)' <= AtHand(r) - Flight(r)

Promise == Accounted' /\ [D!Next]_<<due, Left, sent, disturbed>>

LEMMA DNextIs ==
    [D!Next]_<<due, Left, sent, disturbed>> <=>
       \/ disturbed'
       \/ /\ disturbed' = disturbed
          /\ \/ \E S \in SUBSET Recipients :
                  /\ due' = [r \in Recipients |-> due[r] + IF r \in S THEN 1 ELSE 0]
                  /\ \A r \in Recipients : Left'[r] - Left[r] <= due'[r] - due[r]
                  /\ UNCHANGED sent
             \/ \E r \in Recipients :
                  /\ Left' = [Left EXCEPT ![r] = @ - 1]
                  /\ sent' = [sent EXCEPT ![r] = @ + 1]
                  /\ sent[r] < due[r]
                  /\ UNCHANGED due
             \/ /\ \A r \in Recipients : Left'[r] <= Left[r]
                /\ UNCHANGED <<due, sent>>
       \/ UNCHANGED <<due, Left, sent, disturbed>>
BY DEF D!Next, D!Order, D!Deliver, D!Withdraw

LEMMA Lessened ==
    ASSUME TypeOK, TypeOK', Accounted, ~disturbed, ~disturbed', UNCHANGED <<sent, due>>,
           \A r \in Recipients : Less(r)
    PROVE  Promise
<1>1. \A r \in Recipients : Numbers(r) /\ Numbers(r)' /\ sent[r] \in Nat /\ due[r] \in Nat
  <2> SUFFICES ASSUME NEW r \in Recipients PROVE Numbers(r) /\ Numbers(r)' /\ sent[r] \in Nat /\ due[r] \in Nat
    OBVIOUS
  <2>1. Finite(r) /\ Finite(r)'
    BY DEF Accounted, Less, Finite
  <2>2. Numbers(r)
    BY <2>1, FiniteNumbers
  <2>3. Numbers(r)'
    <3>1. Flight(r)' \in {0, 1}
      BY DEF Flight
    <3> QED BY <2>1, <3>1, FS_CardinalityType DEF Finite, Numbers, OnTable, AtHand
  <2> QED BY <2>2, <2>3 DEF TypeOK, Ids
<1>2. Accounted'
  <2> SUFFICES ASSUME NEW r \in Recipients
               PROVE  /\ Finite(r)'
                      /\ sent[r] + OnTable(r)' - Flight(r)' <= due[r]
                      /\ sent[r] + AtHand(r)' - Flight(r)' <= due[r]
    BY DEF Accounted, Finite
  <2>1. /\ sent[r] + OnTable(r) - Flight(r) <= due[r]
        /\ sent[r] + AtHand(r) - Flight(r) <= due[r]
    BY DEF Accounted
  <2> QED BY <1>1, <2>1 DEF Less, Numbers
<1>3. \A r \in Recipients : Left'[r] <= Left[r]
  <2>1. Left' = [r \in Recipients |-> OnTable(r)' - Flight(r)']
    BY LeftIsNext
  <2> QED BY <2>1, LeftIs DEF Less
<1>4. disturbed' = disturbed
  BY DEF TypeOK
<1> QED BY <1>2, <1>3, <1>4, DNextIs DEF Promise

LEMMA LessSame ==
    ASSUME NEW r, UNCHANGED <<live, merge, mo, local>>, Flight(r)' = Flight(r), Finite(r), Numbers(r)
    PROVE  Less(r)
BY KeptSame, TableSame, HandKept DEF Less, Finite, Numbers

LEMMA LessForget ==
    ASSUME TypeOK, NEW r \in Recipients, UNCHANGED <<live, merge, mo>>, Forget, Flight(r) = 0, Finite(r)
    PROVE  Less(r)
<1>1. IsFiniteSet(Tokens(Hand(r)))' /\ AtHand(r)' = 0
  BY HandEmpty DEF Forget
<1>2. Flight(r)' = 0
  BY DEF Flight, Forget
<1>3. Numbers(r)
  BY FiniteNumbers
<1> QED BY <1>1, <1>2, <1>3, KeptSame, TableSame DEF Less, Finite, Numbers

\* The sender saves what it has in hand.
LEMMA LessSaved ==
    ASSUME TypeOK, TypeOK', NEW r \in Recipients, Finite(r), Flight(r) = 0, Flight(r)' = 0,
           NEW m \in Mailings, NEW row \in Row, NEW copy \in Row,
           SaveRow(m, row), ~Stale(m, local[m]), merge' = merge, local' = [local EXCEPT ![m] = copy],
           Worth(row, r) <= Worth(local[m], r), copy.rcpt[r] <= local[m].rcpt[r]
    PROVE  Less(r)
<1>1. m \in Kept /\ mo[m] = local[m] /\ mo' = [mo EXCEPT ![m] = row] /\ Kept' = Kept
  <2>1. m \in Kept /\ mo[m] = local[m] /\ live' = live
    BY DEF Stale, SaveRow, Kept
  <2> QED BY <2>1, KeptSame DEF SaveRow
<1>2. local[m] \in Row
  BY DEF TypeOK
<1>3. Worth(local[m], r) \in Nat /\ Worth(row, r) \in Nat /\ local[m].rcpt[r] \in Nat /\ copy.rcpt[r] \in Nat
  BY <1>2, WeightType
<1>4. /\ IsFiniteSet(Tokens(Weight(r)))'
      /\ OnTable(r)' = OnTable(r) - Worth(local[m], r) + Worth(row, r)
  BY <1>1, TableSaved
<1>5. /\ IsFiniteSet(Tokens(Hand(r)))'
      /\ AtHand(r)' = AtHand(r) - local[m].rcpt[r] + copy.rcpt[r]
  BY HandSaved
<1>6. Numbers(r)
  BY FiniteNumbers
<1> QED BY <1>3, <1>4, <1>5, <1>6 DEF Less, Finite, Numbers

LEMMA RoundLess ==
    ASSUME TypeOK, TypeOK', HandInv, ~disturbed, ~disturbed',
           Round \/ Failure, ~StartRound, ~Deliver, NEW r \in Recipients, Finite(r)
    PROVE  Less(r)
<1>n. Numbers(r)
  BY FiniteNumbers
<1>m. merge' = merge
  BY SenderGives
<1>f. pc # "sent" => Flight(r) = 0
  BY DEF Flight
<1>g. pc' # "sent" => Flight(r)' = 0
  BY DEF Flight
<1>t. pc \in {"accounts", "send", "sent", "count"} => cur \in Mailings /\ local[cur] \in Row
  BY DEF TypeOK
<1>1. CASE EndRound
  BY <1>1, <1>f, LessForget, <1>m DEF EndRound, db
<1>2. ASSUME NEW m \in Mailings, SuccessReport(m) PROVE Less(r)
  <2> DEFINE row == [local[m] EXCEPT !.status = "D"]
  <2>1. local[m] \in Row /\ pc = "mailing" /\ pc' = pc
    BY <1>2 DEF TypeOK, SuccessReport
  <2>2. row \in Row /\ Worth(row, r) = Worth(local[m], r)
    BY <2>1 DEF Row, Status, Worth
  <2>3. Blank \in Row /\ Blank.rcpt[r] <= local[m].rcpt[r] /\ Worth(local[m], r) \in Nat
    BY <2>1, RowType, WeightType
  <2>4. SaveRow(m, row) /\ local' = [local EXCEPT ![m] = Blank] /\ ~Stale(m, local[m])
    BY <1>2 DEF SuccessReport
  <2> HIDE DEF row
  <2>5. Worth(row, r) <= Worth(local[m], r) /\ Flight(r) = 0 /\ Flight(r)' = 0
    BY <1>f, <1>g, <2>1, <2>2, <2>3
  <2> QED BY <2>2, <2>3, <2>4, <2>5, LessSaved, <1>m
<1>3. ASSUME NEW m \in Mailings, BeginMailing(m) PROVE Less(r)
  BY <1>3, <1>n, <1>f, <1>g, LessSame, <1>m DEF BeginMailing, db
<1>4. ASSUME NEW a \in Accounts, SkipAccount(a) PROVE Less(r)
  BY <1>4, <1>n, <1>f, <1>g, LessSame, <1>m DEF SkipAccount, NextAccount, db
<1>5. CASE EndMailing
  <2>1. pc = "accounts" /\ pc' = "mailing" /\ local' = [local EXCEPT ![cur] = Blank] /\ UNCHANGED <<live, mo>>
    BY <1>5 DEF EndMailing, db
  <2>2. Blank \in Row /\ Blank.rcpt[r] = 0 /\ local[cur].rcpt[r] \in Nat
    BY <1>t, <2>1, RowType, WeightType
  <2>3. /\ IsFiniteSet(Tokens(Hand(r)))'
        /\ AtHand(r)' = AtHand(r) - local[cur].rcpt[r] + Blank.rcpt[r]
    BY <1>t, <2>1, <2>2, HandSaved
  <2> QED BY <1>n, <1>f, <1>g, <2>1, <2>2, <2>3, <1>m, KeptSame, TableSame DEF Less, Finite, Numbers
<1>6. ASSUME NEW a \in Accounts, NEW q \in Recipients, DropGone(a, q) PROVE Less(r)
  <2> DEFINE row == [local[cur] EXCEPT !.rcpt = Drop(@, q), !.num = @ - 1]
  <2>1. pc = "accounts"
    BY <1>6 DEF DropGone
  <2>2. CASE local[cur].rcpt[q] > 0 /\ Saves(row)
    <3>1. SaveRow(cur, row) /\ local' = [local EXCEPT ![cur] = row] /\ ~Stale(cur, local[cur]) /\ pc' = "accounts"
      BY <1>6, <2>2 DEF DropGone, NextAccount
    <3>2. row \in Row
      <4>1. local'[cur] = row /\ local'[cur] \in Row
        BY <1>t, <2>1, <3>1 DEF TypeOK
      <4> QED BY <4>1
    <3>3. row.rcpt[r] <= local[cur].rcpt[r] /\ row.failed = local[cur].failed
      BY <1>t, <2>1 DEF Row, Ids, Drop
    <3> HIDE DEF row
    <3>4. Worth(row, r) <= Worth(local[cur], r)
      BY <1>t, <2>1, <3>2, <3>3, WeightType DEF Worth
    <3> QED BY <1>f, <1>g, <1>t, <2>1, <3>1, <3>2, <3>3, <3>4, LessSaved, <1>m
  <2>3. CASE ~(local[cur].rcpt[q] > 0 /\ Saves(row))
    BY <1>6, <2>1, <2>3, <1>f, LessForget, <1>m DEF DropGone, db
  <2> QED BY <2>2, <2>3
<1>7. ASSUME NEW a \in Accounts, NEW q \in Recipients, Pick(a, q) PROVE Less(r)
  BY <1>7, <1>n, <1>f, <1>g, LessSame, <1>m DEF Pick, db
<1>8. CASE Record
  <2> DEFINE q == target[2]
             row == [local[cur] EXCEPT !.rcpt = Drop(@, q), !.succ = Add(@, q)]
  <2>1. pc = "sent" /\ q \in Recipients /\ local[cur].rcpt[q] > 0
    BY <1>8 DEF Record, TypeOK, Pairs, HandInv, InHand
  <2>2. SaveRow(cur, row) /\ local' = [local EXCEPT ![cur] = row] /\ ~Stale(cur, local[cur]) /\ pc' = "count"
    BY <1>8, <2>1 DEF Record
  <2>3. row \in Row
    <3>1. local'[cur] = row /\ local'[cur] \in Row
      BY <1>t, <2>1, <2>2 DEF TypeOK
    <3> QED BY <3>1
  <2>4. row.rcpt[r] = local[cur].rcpt[r] - Flight(r) /\ row.failed = local[cur].failed
    BY <1>t, <2>1 DEF Row, Ids, Drop, Flight
  <2> HIDE DEF row
  <2>5. Worth(row, r) = Worth(local[cur], r) - Flight(r) /\ Worth(row, r) \in Nat /\ row.rcpt[r] \in Nat
        /\ Worth(local[cur], r) \in Nat /\ local[cur].rcpt[r] \in Nat
    BY <1>n, <1>t, <2>1, <2>3, <2>4, WeightType DEF Worth, Numbers
  <2>6. cur \in Kept /\ mo[cur] = local[cur] /\ mo' = [mo EXCEPT ![cur] = row] /\ Kept' = Kept
    <3>1. cur \in Kept /\ mo[cur] = local[cur] /\ live' = live
      BY <2>2 DEF Stale, SaveRow, Kept
    <3> QED BY <1>m, <2>2, <3>1, KeptSame DEF SaveRow
  <2>7. /\ IsFiniteSet(Tokens(Weight(r)))'
        /\ OnTable(r)' = OnTable(r) - Worth(local[cur], r) + Worth(row, r)
    BY <2>3, <2>6, TableSaved
  <2>8. /\ IsFiniteSet(Tokens(Hand(r)))'
        /\ AtHand(r)' = AtHand(r) - local[cur].rcpt[r] + row.rcpt[r]
    BY <1>t, <2>1, <2>2, <2>3, HandSaved
  <2> QED BY <1>n, <1>g, <2>2, <2>4, <2>5, <2>7, <2>8 DEF Less, Finite, Numbers
<1>9. CASE CounterIncrement
  <2>1. pc = "count" /\ pc' = "accounts" /\ SaveRow(cur, local[cur]) /\ ~Stale(cur, local[cur]) /\ local' = local
    BY <1>9 DEF CounterIncrement, NextAccount
  <2>2. local' = [local EXCEPT ![cur] = local[cur]] /\ Worth(local[cur], r) <= Worth(local[cur], r)
        /\ local[cur].rcpt[r] <= local[cur].rcpt[r]
    BY <1>t, <2>1, WeightType DEF TypeOK
  <2> QED BY <1>f, <1>g, <1>t, <2>1, <2>2, LessSaved, <1>m
<1>10. CASE AuthError
  <2> DEFINE row == [local[cur] EXCEPT !.status = "E"]
  <2>1. /\ pc = "send" /\ pc' = "accounts" /\ SaveRow(cur, row) /\ ~Stale(cur, local[cur])
        /\ local' = [local EXCEPT ![cur] = row]
    BY <1>10 DEF AuthError, NextAccount
  <2>2. row \in Row /\ Worth(row, r) = Worth(local[cur], r) /\ row.rcpt[r] = local[cur].rcpt[r]
    BY <1>t, <2>1 DEF Row, Status, Worth
  <2>3. Worth(row, r) <= Worth(local[cur], r) /\ row.rcpt[r] <= local[cur].rcpt[r]
    BY <1>t, <2>1, <2>2, WeightType
  <2> HIDE DEF row
  <2> QED BY <1>f, <1>g, <1>t, <2>1, <2>2, <2>3, LessSaved, <1>m
<1>11. CASE SendError
  <2> DEFINE q == target[2]
             row == [local[cur] EXCEPT !.status = "E", !.rcpt = Drop(@, q), !.failed = Add(@, q)]
  <2>1. pc = "send"
    BY <1>11 DEF SendError
  <2>2. CASE local[cur].rcpt[q] > 0
    <3>1. SaveRow(cur, row) /\ local' = [local EXCEPT ![cur] = row] /\ ~Stale(cur, local[cur]) /\ pc' = "accounts"
      BY <1>11, <2>2 DEF SendError, NextAccount
    <3>2. row \in Row
      <4>1. local'[cur] = row /\ local'[cur] \in Row
        BY <1>t, <2>1, <3>1 DEF TypeOK
      <4> QED BY <4>1
    <3>3. row.rcpt[r] <= local[cur].rcpt[r]
          /\ row.rcpt[r] + row.failed[r] = local[cur].rcpt[r] + local[cur].failed[r]
      BY <1>t, <2>1 DEF Row, Ids, Drop, Add
    <3> HIDE DEF row
    <3>4. Worth(row, r) <= Worth(local[cur], r)
      BY <1>t, <2>1, <3>2, <3>3, WeightType DEF Worth
    <3> QED BY <1>f, <1>g, <1>t, <2>1, <3>1, <3>2, <3>3, <3>4, LessSaved, <1>m
  <2>3. CASE ~(local[cur].rcpt[q] > 0)
    BY <1>11, <2>1, <2>3, <1>f, LessForget, <1>m DEF SendError, db
  <2> QED BY <2>2, <2>3
<1>12. CASE Crash
  BY <1>12, <1>f, LessForget, <1>m DEF Crash, db
<1> QED
  BY <1>1, <1>2, <1>3, <1>4, <1>5, <1>6, <1>7, <1>8, <1>9, <1>10, <1>11, <1>12 DEF Round, Failure

\* Requests save what they loaded, if nobody was faster.
LEMMA RequestLess ==
    ASSUME TypeOK, TypeOK', IdsUsed, ~disturbed, ~disturbed', UNCHANGED <<pc, target, local>>,
           \/ SaveRequest
           \/ \E m \in Mailings : DeleteMailing(m) \/ MergeStep(m)
           \/ UNCHANGED <<live, merge, mo>>,
           NEW r \in Recipients, Finite(r)
    PROVE  Less(r)
<1>n. Numbers(r) /\ Flight(r)' = Flight(r) /\ IsFiniteSet(Tokens(Hand(r)))' /\ AtHand(r)' = AtHand(r)
  BY FiniteNumbers, HandKept DEF Flight
<1>s. ASSUME NEW m \in Kept, NEW row \in Row, mo' = [mo EXCEPT ![m] = row], live' = live, merge' = merge,
             Worth(row, r) <= Worth(mo[m], r)
      PROVE  Less(r)
  <2>1. m \in Mailings /\ mo[m] \in Row /\ Kept' = Kept
    BY <1>s, KeptType, KeptSame DEF TypeOK
  <2>2. Worth(row, r) \in Nat /\ Worth(mo[m], r) \in Nat
    BY <2>1, WeightType
  <2>3. IsFiniteSet(Tokens(Weight(r)))' /\ OnTable(r)' = OnTable(r) - Worth(mo[m], r) + Worth(row, r)
    BY <1>s, <2>1, TableSaved
  <2> QED BY <1>n, <1>s, <2>2, <2>3 DEF Less, Finite, Numbers
<1>r. ASSUME web.kind # "none" PROVE web.m \in Mailings /\ web.row \in Row
  BY <1>r DEF TypeOK, Requests, NoWeb
<1>1. ASSUME NEW st \in Status, SaveModel(st) PROVE Less(r)
  <2>1. PICK new \in Status : SaveRow(web.m, [web.row EXCEPT !.status = new])
    BY <1>1 DEF SaveModel, Status
  <2>2. ~Stale(web.m, web.row) /\ web.kind # "none" /\ merge' = merge
    BY <1>1 DEF SaveModel, Reply
  <2> DEFINE row == [web.row EXCEPT !.status = new]
  <2>3. row \in Row /\ Worth(row, r) = Worth(web.row, r) /\ Worth(web.row, r) \in Nat
    BY <1>r, <2>2, WeightType DEF Row, Worth
  <2>4. web.m \in Kept /\ mo[web.m] = web.row /\ mo' = [mo EXCEPT ![web.m] = row] /\ live' = live
    BY <1>r, <2>1, <2>2 DEF Stale, SaveRow, Kept
  <2> HIDE DEF row
  <2>5. Worth(row, r) <= Worth(web.row, r)
    BY <2>3
  <2> QED BY <1>s, <2>2, <2>3, <2>4, <2>5
<1>2. CASE SendFailedRecipients
  <2> DEFINE row == [web.row EXCEPT !.status = "A", !.rcpt = Joined(@, web.row.failed), !.failed = NoIds]
  <2>1. SaveRow(web.m, row) /\ ~Stale(web.m, web.row) /\ web.kind # "none" /\ merge' = merge
    BY <1>2 DEF SendFailedRecipients, Reply
  <2>2. row.rcpt[r] = web.row.rcpt[r] + web.row.failed[r] /\ row.failed[r] = 0
    BY <1>r, <2>1 DEF Row, Joined, NoIds
  <2>3. row \in Row
    <3>1. Joined(web.row.rcpt, web.row.failed) \in Ids /\ NoIds \in Ids
      BY <1>r, <2>1, IdsType DEF Row
    <3> QED BY <1>r, <2>1, <3>1 DEF Row, Status
  <2>4. web.m \in Kept /\ mo[web.m] = web.row /\ mo' = [mo EXCEPT ![web.m] = row] /\ live' = live
    BY <1>r, <2>1 DEF Stale, SaveRow, Kept
  <2> HIDE DEF row
  <2>5. Worth(row, r) <= Worth(web.row, r)
    BY <1>r, <2>1, <2>2, WeightType DEF Worth
  <2> QED BY <1>s, <2>1, <2>3, <2>4, <2>5
<1>3. CASE SaveExcluded
  <2> DEFINE out == web.out
             rest == Keep(web.row.rcpt, out)
             row == [web.row EXCEPT !.rcpt = rest, !.num = Size(rest)]
  <2>1. CASE out # {} /\ web.m \in live
    <3>1. /\ mo' = [mo EXCEPT ![web.m].rcpt = rest, ![web.m].num = Size(rest)] /\ live' = live
          /\ ~Stale(web.m, web.row) /\ web.kind # "none" /\ merge' = merge
      BY <1>3, <2>1 DEF SaveExcluded, Reply, db
    <3>2. web.m \in Kept /\ mo[web.m] = web.row /\ mo' = [mo EXCEPT ![web.m] = row]
      BY <1>r, <3>1 DEF Stale, TypeOK
    <3>3. rest \in Ids /\ Size(rest) \in Int /\ rest[r] <= web.row.rcpt[r]
      <4>1. web.row.rcpt \in Ids
        BY <1>r, <3>1 DEF Row
      <4>2. rest \in Ids
        BY <4>1, IdsType
      <4>3. rest[r] <= web.row.rcpt[r]
        BY <4>1 DEF Keep, Ids
      <4> HIDE DEF rest
      <4> QED BY <4>2, <4>3, SizeType
    <3> HIDE DEF rest, out
    <3>4. row \in Row /\ row.rcpt = rest /\ row.failed = web.row.failed
      BY <1>r, <3>1, <3>3 DEF Row
    <3> HIDE DEF row
    <3>5. Worth(row, r) <= Worth(web.row, r)
      BY <1>r, <3>1, <3>3, <3>4, WeightType DEF Worth
    <3> QED BY <1>s, <2>1, <3>1, <3>2, <3>4, <3>5
  <2>2. CASE ~(out # {} /\ web.m \in live)
    <3>1. UNCHANGED <<live, merge, mo>>
      BY <1>3, <2>2 DEF SaveExcluded, Reply, db
    <3> QED BY <1>n, <3>1, LessSame
  <2> QED BY <2>1, <2>2
<1>4. ASSUME NEW m \in Mailings, DeleteMailing(m) PROVE Less(r)
  <2> DEFINE W == Weight(r)
             V == Weight(r)'
  <2>1. W \in Weights /\ V \in Weights
    BY WeightType DEF Weight, Weights, TypeOK, Worth, Row, Ids
  <2>2. \A k \in Mailings : V[k] <= W[k]
    <3> SUFFICES ASSUME NEW k \in Mailings PROVE V[k] <= W[k]
      OBVIOUS
    <3>1. W[k] \in Nat
      BY <2>1 DEF Weights
    <3>2. k \in Kept' => k # m /\ k \in Kept /\ mo'[k] = mo[k]
      BY <1>4 DEF DeleteMailing, TypeOK, Kept, Doomed, requests
    <3>3. V[k] = 0 \/ V[k] = W[k]
      BY <3>2 DEF Weight
    <3> QED BY <3>1, <3>3
  <2>3. IsFiniteSet(Tokens(W))
    BY DEF Finite
  <2> HIDE DEF W, V
  <2>4. IsFiniteSet(Tokens(V)) /\ Cardinality(Tokens(V)) <= Cardinality(Tokens(W))
    BY <2>1, <2>2, <2>3, TokensLess
  <2>5. IsFiniteSet(Tokens(Weight(r)))' /\ OnTable(r)' <= OnTable(r) /\ OnTable(r)' \in Nat
    BY <2>4, FS_CardinalityType DEF W, V, OnTable, Tokens
  <2> QED BY <1>n, <2>5 DEF Less, Finite, Numbers
<1>5. ASSUME NEW m \in Mailings, InsertUnited(m) PROVE Less(r)
  <2> DEFINE a == merge[m].a
             b == merge[m].b
             union == United(merge[m].ra, merge[m].rb)
             W == Weight(r)
             V == Weight(r)'
  <2>1. W \in Weights /\ V \in Weights
    BY WeightType DEF Weight, Weights, TypeOK, Worth, Row, Ids
  <2>0. /\ a \in Kept /\ b \in Kept \ {a} /\ merge[m].ra = mo[a] /\ merge[m].rb = mo[b]
        /\ m \notin live /\ mo' = [mo EXCEPT ![m] = union]
        /\ Kept' \ {m} = Kept \ {a, b} /\ m \in Kept'
    BY <1>5, KeptByMerge DEF IdsUsed, Doomed, Kept, InsertUnited, NoMerge
  <2>2. /\ \A k \in Mailings \ {m} : mo'[k] = mo[k]
        /\ mo'[m].rcpt = OnceEach(Members(mo[a].rcpt) \cup Members(mo[b].rcpt))
        /\ mo'[m].failed = Joined(mo[a].failed, mo[b].failed)
        /\ m \notin Kept /\ a \in Mailings /\ b \in Mailings /\ a # m /\ b # m
    <3>1. mo'[m] = union /\ (\A k \in Mailings \ {m} : mo'[k] = mo[k])
      BY <2>0 DEF TypeOK
    <3>2. m \notin Kept
      BY <2>0 DEF Kept
    <3> QED BY <2>0, <3>1, <3>2, KeptType DEF United
  <2> HIDE DEF union, a, b
  <2>3. V[a] = 0 /\ V[b] = 0 /\ W[m] = 0 /\ \A k \in Mailings \ {a, b, m} : V[k] = W[k]
    BY <2>0, <2>2 DEF Weight
  <2>4. V[m] <= W[a] + W[b]
    <3>1. W[a] = mo[a].rcpt[r] + mo[a].failed[r] /\ W[b] = mo[b].rcpt[r] + mo[b].failed[r]
          /\ V[m] = mo'[m].rcpt[r] + mo'[m].failed[r]
      BY <2>0, <2>2 DEF Weight, Worth
    <3>2. mo'[m].failed[r] = mo[a].failed[r] + mo[b].failed[r]
      BY <2>2 DEF Joined
    <3>3. mo[a] \in Row /\ mo[b] \in Row
      BY <2>2 DEF TypeOK
    <3>4. /\ mo[a].rcpt[r] \in Nat /\ mo[b].rcpt[r] \in Nat
          /\ mo[a].failed[r] \in Nat /\ mo[b].failed[r] \in Nat
      BY <3>3, WeightType
    <3>5. mo'[m].rcpt[r] <= mo[a].rcpt[r] + mo[b].rcpt[r] /\ mo'[m].rcpt[r] \in Nat
      BY <2>2, <3>4 DEF OnceEach, Members
    <3> HIDE DEF W, V
    <3> QED BY <3>1, <3>2, <3>4, <3>5
  <2>5. IsFiniteSet(Tokens(W)) /\ b \in Mailings \ {a} /\ m \in Mailings \ {a, b} /\ a \in Mailings
    BY <2>0, <2>2 DEF Finite
  <2> HIDE DEF W, V
  <2>6. IsFiniteSet(Tokens(V)) /\ Cardinality(Tokens(V)) <= Cardinality(Tokens(W))
    BY <2>1, <2>3, <2>4, <2>5, TokensMerge
  <2>7. IsFiniteSet(Tokens(Weight(r)))' /\ OnTable(r)' <= OnTable(r) /\ OnTable(r)' \in Nat
    BY <2>6, FS_CardinalityType DEF W, V, OnTable, Tokens
  <2> QED BY <1>n, <2>7 DEF Less, Finite, Numbers
<1>7. ASSUME NEW m \in Mailings, MergeStep(m), ~InsertUnited(m) PROVE Less(r)
  <2>1. Kept' = Kept /\ \A k \in Kept : mo'[k] = mo[k]
    <3>1. CASE BreakMerge(m)
      <4>1. UNCHANGED <<live, mo>> /\ Doomed' = Doomed
        BY <3>1, KeptByMerge
      <4> QED BY <4>1 DEF Kept
    <3> QED BY <1>7, <3>1, KeptByMerge DEF MergeStep
  <2>2. Weight(r)' = Weight(r)
    BY <2>1 DEF Weight
  <2>3. IsFiniteSet(Tokens(Weight(r)))' /\ OnTable(r)' = OnTable(r)
    BY <2>2 DEF Finite, OnTable, Tokens
  <2> QED BY <1>n, <2>3 DEF Less, Finite, Numbers
<1>6. CASE UNCHANGED <<live, merge, mo>>
  BY <1>6, <1>n, LessSame
<1>8. CASE LookForSent
  BY <1>6, <1>8 DEF LookForSent, db
<1> QED BY <1>1, <1>2, <1>3, <1>4, <1>5, <1>6, <1>7, <1>8 DEF SaveRequest

LEMMA DisturbedStays == ASSUME [Next]_vars, disturbed PROVE disturbed'
<1>1. CASE Round
  <2>1. ASSUME NEW a \in Accounts, NEW r \in Recipients, DropGone(a, r) PROVE disturbed'
    BY <2>1, Zenon DEF DropGone
  <2>2. CASE Record
    BY <2>2, Zenon DEF Record
  <2> QED BY <1>1, <2>1, <2>2 DEF Round, StartRound, EndRound, SuccessReport, BeginMailing, SkipAccount,
             Pick, EndMailing, Deliver, CounterIncrement
<1>2. CASE Failure
  <2>1. CASE SendError
    BY <2>1 DEF SendError
  <2> QED BY <1>2, <2>1 DEF Failure, AuthError, Crash
<1>3. CASE Web
  <2>1. CASE SaveRequest
    BY <2>1, Zenon DEF SaveRequest, SaveModel, SendFailedRecipients, LookForSent, SaveExcluded
  <2>2. ASSUME NEW m \in Mailings, MergeStep(m) PROVE disturbed'
    BY <2>2, MergeLeaves DEF MergeStep
  <2> QED BY <1>3, <2>1, <2>2 DEF Web, Merging, MergeStep, MakeMailingOut, MakeMassmail, NewMailing, Load, DeleteMailing,
             Unsubscribe, DeleteRecipient, SpecifyVip, ChangeMassConts, MoveContact, SwitchAccount
<1> QED BY <1>1, <1>2, <1>3 DEF Next, NewDay, vars

LEMMA StartPromise ==
    ASSUME TypeOK, TypeOK', Accounted, ~disturbed, ~disturbed', StartRound
    PROVE  Promise
<1>1. /\ pc = "idle" /\ pc' = "mailing" /\ UNCHANGED <<live, mo, merge, sent, due, disturbed>>
      /\ \E S \in SUBSET Kept : local' = [m \in Mailings |-> IF m \in S THEN mo[m] ELSE Blank]
  <2>1. /\ pc = "idle" /\ pc' = "mailing" /\ UNCHANGED <<live, mo, merge, sent, due>>
    BY DEF StartRound, db, history, requests
  <2>2. PICK S \in SUBSET live : /\ local' = [m \in Mailings |-> IF m \in S THEN mo[m] ELSE Blank]
                                /\ disturbed' = (disturbed \/ S \cap Doomed # {})
    BY DEF StartRound, CheckOwners, SendingFor
  <2>3. S \in SUBSET Kept /\ disturbed' = disturbed
    BY <2>2 DEF Kept, TypeOK
  <2> QED BY <2>1, <2>2, <2>3
<1>2. UNCHANGED <<Kept, mo>>
  BY <1>1, KeptSame
<1>3. ASSUME NEW r \in Recipients
      PROVE  /\ Finite(r)' /\ Numbers(r) /\ OnTable(r)' = OnTable(r) /\ AtHand(r)' <= OnTable(r)
             /\ AtHand(r)' \in Nat /\ Flight(r) = 0 /\ Flight(r)' = 0
  <2> DEFINE W == Weight(r)
             V == Hand(r)'
  <2>1. W \in Weights /\ V \in Weights
    BY WeightType DEF Weights, Hand, TypeOK, Row, Ids
  <2>2. \A k \in Mailings : V[k] <= W[k]
    <3> SUFFICES ASSUME NEW k \in Mailings PROVE V[k] <= W[k]
      OBVIOUS
    <3>1. W[k] \in Nat
      BY <2>1 DEF Weights
    <3>2. mo[k] \in Row
      BY DEF TypeOK
    <3>3. V[k] = 0 \/ (k \in Kept /\ V[k] = mo[k].rcpt[r])
      BY <1>1, WeightType DEF Hand
    <3>4. k \in Kept => mo[k].rcpt[r] <= W[k]
      <4>1. mo[k].rcpt[r] \in Nat /\ mo[k].failed[r] \in Nat
        BY <3>2, WeightType
      <4>2. k \in Kept => W[k] = mo[k].rcpt[r] + mo[k].failed[r]
        BY DEF Weight, Worth
      <4> HIDE DEF W
      <4> QED BY <4>1, <4>2
    <3> QED BY <3>1, <3>3, <3>4
  <2>3. Finite(r)
    BY DEF Accounted, Finite
  <2>4. IsFiniteSet(Tokens(W))
    BY <2>3 DEF Finite
  <2> HIDE DEF W, V
  <2>5. IsFiniteSet(Tokens(V)) /\ Cardinality(Tokens(V)) <= Cardinality(Tokens(W))
    BY <2>1, <2>2, <2>4, TokensLess
  <2>6. IsFiniteSet(Tokens(Hand(r)))' /\ AtHand(r)' <= OnTable(r) /\ AtHand(r)' \in Nat
    BY <2>5, FS_CardinalityType DEF W, V, AtHand, OnTable, Tokens
  <2> QED BY <1>1, <1>2, <2>3, <2>6, TableSame, FiniteNumbers DEF Finite, Flight
<1>4. Accounted'
  <2> SUFFICES ASSUME NEW r \in Recipients
               PROVE  /\ Finite(r)'
                      /\ sent[r] + OnTable(r)' - Flight(r)' <= due[r]
                      /\ sent[r] + AtHand(r)' - Flight(r)' <= due[r]
    BY <1>1 DEF Accounted, Finite
  <2>1. sent[r] + OnTable(r) - Flight(r) <= due[r] /\ sent[r] \in Nat /\ due[r] \in Nat
    BY DEF Accounted, TypeOK, Ids
  <2> QED BY <1>3, <2>1 DEF Numbers
<1>5. Left' = Left
  BY <1>3, LeftIs, LeftIsNext
<1> QED BY <1>1, <1>4, <1>5, DNextIs DEF Promise

LEMMA DeliverPromise == ASSUME TypeOK, TypeOK', HandInv, Accounted, ~disturbed, Deliver PROVE Promise
<1> DEFINE q == target[2]
<1>1. /\ pc = "send" /\ pc' = "sent" /\ UNCHANGED <<live, merge, mo, local, target, due, disturbed>>
      /\ sent' = Add(sent, q) /\ q \in Recipients /\ cur \in Mailings /\ local[cur].rcpt[q] > 0
  BY DEF Deliver, db, history, requests, TypeOK, Pairs, HandInv, InHand
<1> HIDE DEF q
<1>2. sent' = [sent EXCEPT ![q] = @ + 1] /\ sent'[q] = sent[q] + 1 /\ \A r \in Recipients \ {q} : sent'[r] = sent[r]
  BY <1>1 DEF Add, TypeOK, Ids
<1>3. ASSUME NEW r \in Recipients
      PROVE  /\ Finite(r)' /\ Numbers(r) /\ OnTable(r)' = OnTable(r) /\ AtHand(r)' = AtHand(r)
             /\ Flight(r) = 0 /\ Flight(r)' = IF r = q THEN 1 ELSE 0
             /\ sent[r] \in Nat /\ due[r] \in Nat
             /\ sent[r] + OnTable(r) <= due[r] /\ sent[r] + AtHand(r) <= due[r]
  <2>1. Finite(r)
    BY DEF Accounted, Finite
  <2>2. Flight(r) = 0 /\ Flight(r)' = IF r = q THEN 1 ELSE 0
    BY <1>1 DEF Flight, q
  <2>3. Numbers(r) /\ sent[r] \in Nat /\ due[r] \in Nat
    BY <2>1, FiniteNumbers DEF TypeOK, Ids
  <2>4. sent[r] + OnTable(r) - Flight(r) <= due[r] /\ sent[r] + AtHand(r) - Flight(r) <= due[r]
    BY DEF Accounted
  <2> QED BY <1>1, <2>1, <2>2, <2>3, <2>4, KeptSame, TableSame, HandKept DEF Finite, Numbers
<1>4. AtHand(q) >= 1
  <2>1. <<cur, 1>> \in Tokens(Hand(q))
    BY <1>1, WeightType DEF Tokens, Hand, Weights
  <2>2. IsFiniteSet(Tokens(Hand(q)))
    BY <1>1 DEF Accounted
  <2> QED BY <1>1, <1>3, <2>1, <2>2, FS_EmptySet DEF AtHand, Numbers
<1>5. sent[q] < due[q]
  BY <1>1, <1>3, <1>4 DEF Numbers
<1>6. Accounted'
  <2> SUFFICES ASSUME NEW r \in Recipients
               PROVE  /\ Finite(r)'
                      /\ sent'[r] + OnTable(r)' - Flight(r)' <= due[r]
                      /\ sent'[r] + AtHand(r)' - Flight(r)' <= due[r]
    BY <1>1 DEF Accounted, Finite
  <2>1. CASE r = q
    BY <1>2, <1>3, <2>1 DEF Numbers
  <2>2. CASE r # q
    BY <1>2, <1>3, <2>2 DEF Numbers
  <2> QED BY <2>1, <2>2
<1>7. Left' = [Left EXCEPT ![q] = @ - 1]
  <2>1. Left = [r \in Recipients |-> OnTable(r)]
    BY <1>3, LeftIs DEF Numbers
  <2>2. Left' = [r \in Recipients |-> IF r = q THEN OnTable(r) - 1 ELSE OnTable(r)]
    BY <1>3, LeftIsNext DEF Numbers
  <2> QED BY <1>1, <2>1, <2>2
<1> QED BY <1>1, <1>2, <1>5, <1>6, <1>7, DNextIs DEF Promise

LEMMA OrderPromise ==
    ASSUME TypeOK, TypeOK', IdsUsed, Accounted, ~disturbed,
           NEW m \in Mailings, NEW S \in SUBSET Recipients, NewMailing(m, S)
    PROVE  Promise
<1>1. /\ m \notin Kept /\ Kept' = Kept \cup {m} /\ mo' = [mo EXCEPT ![m] = NewRow("P", S)]
      /\ due' = Joined(due, OnceEach(S)) /\ UNCHANGED <<pc, target, local, sent, disturbed>>
  BY NewIsKept DEF NewMailing, sender, requests
<1>2. \A r \in Recipients : NewRow("P", S).rcpt[r] = IF r \in S THEN 1 ELSE 0
  BY DEF NewRow, Blank, OnceEach
<1>3. \A r \in Recipients : NewRow("P", S).failed[r] = 0
  BY DEF NewRow, Blank, NoIds
<1>4. \A r \in Recipients : due'[r] = due[r] + IF r \in S THEN 1 ELSE 0
  BY <1>1 DEF Joined, OnceEach
<1>5. ASSUME NEW r \in Recipients
      PROVE  /\ Finite(r)' /\ Numbers(r) /\ Flight(r)' = Flight(r) /\ AtHand(r)' = AtHand(r)
             /\ OnTable(r)' = OnTable(r) + IF r \in S THEN 1 ELSE 0
  <2> DEFINE W == Weight(r)
             V == Weight(r)'
  <2>1. W \in Weights /\ V \in Weights
    BY WeightType DEF Weight, Weights, TypeOK, Worth, Row, Ids
  <2>2. W[m] = 0 /\ V[m] = (IF r \in S THEN 1 ELSE 0) /\ \A k \in Mailings \ {m} : V[k] = W[k]
    BY <1>1, <1>2, <1>3 DEF Weight, Worth, TypeOK
  <2>3. Finite(r)
    BY DEF Accounted, Finite
  <2>4. IsFiniteSet(Tokens(W))
    BY <2>3 DEF Finite
  <2> HIDE DEF W, V
  <2>5. IsFiniteSet(Tokens(V)) /\ Cardinality(Tokens(V)) = Cardinality(Tokens(W)) - W[m] + V[m]
    BY <2>1, <2>2, <2>4, TokensChange
  <2>6. Numbers(r)
    BY <2>3, FiniteNumbers
  <2>7. IsFiniteSet(Tokens(Weight(r)))' /\ OnTable(r)' = OnTable(r) - W[m] + V[m]
    BY <2>5 DEF W, V, OnTable, Tokens
  <2>8. Flight(r)' = Flight(r)
    BY <1>1 DEF Flight
  <2> QED BY <1>1, <2>2, <2>3, <2>6, <2>7, <2>8, HandKept DEF Finite, Numbers
<1>6. ASSUME NEW r \in Recipients
      PROVE  /\ sent[r] \in Nat /\ due[r] \in Nat /\ sent[r] + OnTable(r) - Flight(r) <= due[r]
             /\ sent[r] + AtHand(r) - Flight(r) <= due[r]
  BY DEF Accounted, TypeOK, Ids
<1>7. Accounted'
  <2> SUFFICES ASSUME NEW r \in Recipients
               PROVE  /\ Finite(r)'
                      /\ sent[r] + OnTable(r)' - Flight(r)' <= due'[r]
                      /\ sent[r] + AtHand(r)' - Flight(r)' <= due'[r]
    BY <1>1 DEF Accounted, Finite
  <2> QED BY <1>4, <1>5, <1>6 DEF Numbers
<1>8. \A r \in Recipients : Left'[r] - Left[r] <= due'[r] - due[r]
  <2> SUFFICES ASSUME NEW r \in Recipients PROVE Left'[r] - Left[r] <= due'[r] - due[r]
    OBVIOUS
  <2>1. Left[r] = OnTable(r) - Flight(r) /\ Left'[r] = OnTable(r)' - Flight(r)'
    BY LeftIs, LeftIsNext
  <2> QED BY <1>4, <1>5, <1>6, <2>1 DEF Numbers
<1>9. due' = [r \in Recipients |-> due[r] + IF r \in S THEN 1 ELSE 0]
  BY <1>1 DEF Joined, OnceEach
<1> QED BY <1>1, <1>7, <1>8, <1>9, DNextIs DEF Promise

LEMMA PromiseStep ==
    ASSUME TypeOK, TypeOK', IdsUsed, HandInv, Accounted, [Next]_vars
    PROVE  Promise
<1>1. CASE disturbed'
  BY <1>1, DNextIs DEF Promise, Accounted
<1>2. CASE ~disturbed'
  <2>1. ~disturbed /\ \A r \in Recipients : Finite(r)
    BY <1>2, DisturbedStays DEF Accounted, Finite
  <2>2. CASE StartRound
    BY <1>2, <2>1, <2>2, StartPromise
  <2>3. CASE Deliver
    BY <2>1, <2>3, DeliverPromise
  <2>4. ASSUME NEW m \in Mailings, NEW S \in SUBSET Recipients, NewMailing(m, S) PROVE Promise
    BY <2>1, <2>4, OrderPromise
  <2>5. CASE (Round \/ Failure) /\ ~StartRound /\ ~Deliver
    <3>1. \A r \in Recipients : Less(r)
      BY <1>2, <2>1, <2>5, RoundLess
    <3>2. UNCHANGED <<sent, due>>
      <4>1. CASE SendError
        BY <4>1, <1>2 DEF SendError, history
      <4> QED BY <2>5, <4>1 DEF Round, Failure, EndRound, SuccessReport, BeginMailing, SkipAccount, DropGone,
                 Pick, EndMailing, Record, CounterIncrement, AuthError, Crash, history
    <3> QED BY <1>2, <2>1, <3>1, <3>2, Lessened
  <2>6. ASSUME UNCHANGED <<sent, due, pc, target, local>>,
               \/ SaveRequest
               \/ \E m \in Mailings : DeleteMailing(m) \/ MergeStep(m)
               \/ UNCHANGED <<live, merge, mo>>
        PROVE  Promise
    <3>1. \A r \in Recipients : Less(r)
      BY <1>2, <2>1, <2>6, RequestLess
    <3> QED BY <1>2, <2>1, <2>6, <3>1, Lessened
  <2>7. CASE SaveRequest
    BY <2>6, <2>7 DEF SaveRequest, SaveModel, SendFailedRecipients, LookForSent, SaveExcluded, Reply, sender, history
  <2>8. ASSUME NEW m \in Mailings, DeleteMailing(m) PROVE Promise
    BY <2>6, <2>8 DEF DeleteMailing, sender
  <2>9. ASSUME NEW m \in Mailings, MergeStep(m) PROVE Promise
    BY <2>6, <2>9, MergeLeaves DEF MergeStep
  <2>10. ASSUME \/ NewDay \/ UNCHANGED vars
                \/ \E m \in Mailings, k \in {"change", "failed", "exclude"} : Load(k, m)
                \/ \E r \in Recipients : Unsubscribe(r) \/ DeleteRecipient(r)
                \/ \E a \in Accounts, r \in Recipients : SpecifyVip(a, r) \/ ChangeMassConts(a, r)
                \/ \E a \in Accounts : SwitchAccount(a)
         PROVE Promise
    <3>1. UNCHANGED <<sent, due, pc, target, local, live, merge, mo>>
      BY <2>10 DEF NewDay, vars, Load, Unsubscribe, DeleteRecipient, SpecifyVip, ChangeMassConts,
                   MoveContact, SwitchAccount, db, sender, requests, history
    <3> QED BY <2>6, <3>1
  <2> QED BY <2>2, <2>3, <2>4, <2>5, <2>7, <2>8, <2>9, <2>10 DEF Next, Web, Merging, MergeStep, MakeMailingOut, MakeMassmail
<1> QED BY <1>1, <1>2

LEMMA AccountedInit == ASSUME Init PROVE Accounted /\ D!Init
<1>1. TypeOK
  BY TypeInit
<1>k. Kept = Initial
  BY DEF Init, Kept, Doomed, NoMerge
<1>2. ASSUME NEW r \in Recipients
      PROVE  /\ Finite(r) /\ AtHand(r) = 0 /\ Flight(r) = 0
             /\ OnTable(r) = Cardinality(Initial) /\ OnTable(r) \in Nat
  <2>1. \A m \in Initial : Weight(r)[m] = 1
    <3>1. \A m \in Initial : mo[m].rcpt[r] = 1 /\ mo[m].failed[r] = 0
      BY MailingAssumption DEF Init, NewRow, Blank, OnceEach, NoIds
    <3>2. \A m \in Initial : m \in Kept /\ m \in Mailings
      BY <1>k, MailingAssumption
    <3> QED BY <3>1, <3>2 DEF Weight, Worth
  <2>2. \A m \in Mailings \ Initial : Weight(r)[m] = 0
    BY <1>k DEF Init, Weight
  <2>3. Tokens(Weight(r)) = Initial \X {1}
    BY <2>1, <2>2, MailingAssumption DEF Tokens
  <2>4. IsFiniteSet(Initial) /\ IsFiniteSet({1}) /\ Cardinality({1}) = 1 /\ Cardinality(Initial) \in Nat
    BY MailingAssumption, FS_Singleton, FS_CardinalityType
  <2>5. IsFiniteSet(Initial \X {1}) /\ Cardinality(Initial \X {1}) = Cardinality(Initial) * Cardinality({1})
    BY <2>4, FS_Product
  <2>6. Cardinality(Initial) * 1 = Cardinality(Initial)
    BY <2>4
  <2>7. \A m \in Mailings : Hand(r)[m] = 0
    BY <1>1, WeightType DEF Init, Hand
  <2>8. Tokens(Hand(r)) = {}
    BY <2>7 DEF Tokens
  <2> QED BY <2>3, <2>4, <2>5, <2>6, <2>8, FS_EmptySet DEF Init, Finite, OnTable, AtHand, Flight
<1>3. \A r \in Recipients : sent[r] = 0 /\ due[r] = Cardinality(Initial)
  BY DEF Init, NoIds
<1>4. Accounted
  <2> SUFFICES ASSUME NEW r \in Recipients
               PROVE  /\ Finite(r)
                      /\ sent[r] + OnTable(r) - Flight(r) <= due[r]
                      /\ sent[r] + AtHand(r) - Flight(r) <= due[r]
    BY DEF Accounted, Finite
  <2> QED BY <1>2, <1>3
<1>5. Left = due
  <2>1. Left = [r \in Recipients |-> OnTable(r) - Flight(r)]
    BY <1>1, LeftIs
  <2>2. Left = [r \in Recipients |-> Cardinality(Initial)]
    BY <1>2, <2>1
  <2> QED BY <2>2 DEF Init
<1>6. due \in [Recipients -> Nat] /\ sent = [r \in Recipients |-> 0] /\ disturbed = FALSE
  BY <1>1 DEF TypeOK, Ids, Init, NoIds
<1> QED BY <1>4, <1>5, <1>6 DEF D!Init

LEMMA AccountedAlways == Spec => [](IInv /\ HandInv /\ Accounted)
<1>1. Init => IInv /\ HandInv /\ Accounted
  BY IInvInit, AccountedInit DEF Init, HandInv, InHand
<1>2. IInv /\ HandInv /\ Accounted /\ [Next]_vars => (IInv /\ HandInv /\ Accounted)'
  BY IInvNext, HandNext, PromiseStep DEF IInv, Promise
<1> QED BY <1>1, <1>2, PTL DEF Spec

\* No recipient is sent a message more often than he was put on a mailing,
\* whatever the number of mailings and the order of merges, retries, saves and
\* restarts, unless a write was lost or the sender stopped halfway.
THEOREM SentAtMostOnce == Spec => []AtMostOnce
<1>1. IInv /\ HandInv /\ Accounted => AtMostOnce
  <2> SUFFICES ASSUME TypeOK, HandInv, Accounted, ~disturbed, NEW r \in Recipients
               PROVE  sent[r] <= due[r]
    BY DEF AtMostOnce, IInv
  <2>1. /\ Finite(r) /\ sent[r] \in Nat /\ due[r] \in Nat
        /\ sent[r] + AtHand(r) - Flight(r) <= due[r]
    BY DEF Accounted, Finite, TypeOK, Ids
  <2>2. Numbers(r)
    BY <2>1, FiniteNumbers
  <2>3. Flight(r) = 1 => AtHand(r) # 0
    <3> SUFFICES ASSUME Flight(r) = 1 PROVE AtHand(r) # 0
      OBVIOUS
    <3>1. cur \in Mailings /\ local[cur].rcpt[r] > 0
      BY DEF Flight, TypeOK, HandInv, InHand
    <3>2. <<cur, 1>> \in Tokens(Hand(r))
      BY <3>1, WeightType DEF Tokens, Hand, Weights
    <3> QED BY <2>1, <3>2, FS_EmptySet DEF AtHand, Finite
  <2> QED BY <2>1, <2>2, <2>3 DEF Numbers
<1> QED BY <1>1, AccountedAlways, PTL

\* Each step of threads, requests and failures is a step of Delivery: sending
\* and recording, with anything in between, are one step to the recipients.
THEOREM PromiseIsKept == Spec => Delivered
<1>1. Init => D!Init
  BY AccountedInit
<1>2. IInv /\ HandInv /\ Accounted /\ (IInv /\ HandInv /\ Accounted)' /\ [Next]_vars
        => [D!Next]_<<due, Left, sent, disturbed>>
  BY PromiseStep DEF IInv, Promise
<1> QED BY <1>1, <1>2, AccountedAlways, PTL DEF Spec, Delivered, D!Spec
-----------------------------------------------------------------------------
(* Notices: the parts of the invariant.                                    *)

Tellers == CrmUsers \cup {Reminding}
Lists == [read : SUBSET Nat, list : SUBSET Nat]
Writes == UNION {[S -> Lists] : S \in SUBSET CrmUsers}
Subjects == [kind : {"new", "edit"}, to : (SUBSET CrmUsers) \ {{}}, id : Nat, answers : Nat]
Tellings == [kind : {"idle", "notify", "append", "told", "request", "profile"},
             how : {"each", "batch", "one"}, todo : Seq(CrmUsers), told : Seq(CrmUsers),
             old : SUBSET Nat, writes : Writes, notice : Nat, about : Subjects \cup {0}]
Codes == {Language[u] : u \in CrmUsers} \cup {"sender"}
Mails == [to : SUBSET CrmUsers, code : Codes]
Telling(t) == t.kind \in {"notify", "append"}
\* Only who tells has somebody to tell, and lists to commit, those he has read
\* with his notice; the thread tells one user and commits at once.
Shape(p, t) ==
    /\ \A u \in DOMAIN t.writes : t.writes[u].list = t.writes[u].read \cup {t.notice}
    /\ ~Telling(t) => t.how = "each" /\ DOMAIN t.writes = {}
    /\ t.kind = "append" => t.todo # <<>>
    /\ t.how = "one" => t.about \in Subjects
    /\ t.kind = "told" => p = Reminding
    /\ p = Reminding => t.how = "each" /\ DOMAIN t.writes = {} /\ t.kind \notin {"request", "profile"}
TellInv ==
    /\ notices \in Nat /\ tx \in [Tellers -> Tellings] /\ queue \in Seq(Mails)
    /\ stored \in [CrmUsers -> SUBSET Nat] /\ shown \in [CrmUsers -> SUBSET Nat]
    /\ \A p \in Tellers : Shape(p, tx[p])

\* The message of a notice is in a profile, or somebody has read it there.
Spread(n) == \/ \E u \in CrmUsers : n \in stored[u] \/ n \in shown[u]
             \/ \E p \in Tellers : \/ n \in tx[p].old
                                   \/ \E u \in DOMAIN tx[p].writes : n \in tx[p].writes[u].read
\* Nobody knows of a notice before who tells it commits.
ApartInv ==
    /\ \A n : Spread(n) => n <= notices /\ n # 0
    /\ \A p \in Tellers : tx[p].notice <= notices
    /\ \A p \in Tellers : Telling(tx[p]) =>
         /\ tx[p].notice # 0
         /\ \A n : Spread(n) => n # tx[p].notice
         /\ \A q \in Tellers : Telling(tx[q]) /\ q # p => tx[q].notice # tx[p].notice
-----------------------------------------------------------------------------
LEMMA NoWrites == <<>> \in Writes /\ DOMAIN <<>> = {}
  <1>1. <<>> \in [{} -> Lists]
    OBVIOUS
  <1> QED BY <1>1 DEF Writes

LEMMA WritesAre ==
    ASSUME NEW f \in Writes
    PROVE  DOMAIN f \subseteq CrmUsers /\ \A u \in DOMAIN f : f[u] \in Lists
  BY DEF Writes

LEMMA WritesPut ==
    ASSUME NEW f \in Writes, NEW u \in CrmUsers, NEW w \in Lists
    PROVE  /\ Put(f, u, w) \in Writes /\ DOMAIN Put(f, u, w) = DOMAIN f \cup {u}
           /\ Put(f, u, w)[u] = w /\ \A v \in DOMAIN f : v # u => Put(f, u, w)[v] = f[v]
  <1>1. DOMAIN f \cup {u} \in SUBSET CrmUsers
    BY WritesAre
  <1>2. \A v \in DOMAIN f \cup {u} : (IF v = u THEN w ELSE f[v]) \in Lists
    BY WritesAre
  <1>3. Put(f, u, w) \in [DOMAIN f \cup {u} -> Lists]
    BY <1>2 DEF Put
  <1> QED BY <1>1, <1>3 DEF Put, Writes

LEMMA IdleIs == /\ Idle \in Tellings /\ \A p : Shape(p, Idle)
                /\ Idle.kind = "idle" /\ Idle.old = {} /\ DOMAIN Idle.writes = {} /\ Idle.notice = 0
                /\ Idle.todo = <<>> /\ Idle.told = <<>>
  <1>1. <<>> \in Seq(CrmUsers)
    OBVIOUS
  <1> QED BY <1>1, NoWrites DEF Idle, Tellings, Shape, Telling

\* What p makes of his own part leaves the notices of the others alone, if it
\* only spreads what was spread, or the notice he has finished with, and if the
\* notice he tells is his or new.
LEMMA Private ==
    ASSUME TellInv, ApartInv, NEW p \in Tellers, NEW t \in Tellings, tx' = [tx EXCEPT ![p] = t],
           notices' \in Nat, notices <= notices', t.notice <= notices',
           \A n : Spread(n)' => Spread(n) \/ (Telling(tx[p]) /\ ~Telling(t) /\ n = tx[p].notice),
           Telling(t) => \/ Telling(tx[p]) /\ t.notice = tx[p].notice
                         \/ t.notice > notices
    PROVE  ApartInv'
  <1>1. /\ tx'[p] = t /\ \A q \in Tellers : q # p => tx'[q] = tx[q]
        /\ t.notice \in Nat /\ notices \in Nat /\ \A q \in Tellers : tx[q].notice \in Nat
    BY DEF TellInv, Tellings
  <1>2. ASSUME NEW n, Spread(n)' PROVE n <= notices' /\ n # 0
    <2>1. n <= notices /\ n \in Nat /\ n # 0
      <3>1. CASE Spread(n)
        <4>1. n \in Nat
          BY <3>1, WritesAre DEF Spread, TellInv, Tellings, Lists
        <4> QED BY <3>1, <4>1 DEF ApartInv
      <3>2. CASE n = tx[p].notice
        <4>1. Telling(tx[p]) \/ Spread(n)
          BY <1>2
        <4> QED BY <1>1, <3>2, <4>1 DEF ApartInv
      <3> QED BY <1>2, <3>1, <3>2
    <2> QED BY <1>1, <2>1
  <1>3. ASSUME NEW q \in Tellers PROVE tx'[q].notice <= notices'
    BY <1>1 DEF ApartInv
  <1>4. ASSUME NEW q \in Tellers, Telling(tx'[q]), NEW m, m = tx'[q].notice, Spread(m)' PROVE FALSE
    <2>1. Spread(m) \/ (Telling(tx[p]) /\ ~Telling(t) /\ m = tx[p].notice)
      BY <1>4
    <2>2. CASE q = p
      <3>1. Telling(t) /\ m = t.notice /\ Spread(m)
        BY <1>1, <1>4, <2>1, <2>2
      <3>2. m <= notices /\ m \in Nat
        BY <1>1, <3>1 DEF ApartInv, Tellings
      <3> QED BY <1>1, <3>1, <3>2 DEF ApartInv
    <2>3. CASE q # p
      <3>1. Telling(tx[q]) /\ m = tx[q].notice
        BY <1>1, <1>4, <2>3
      <3>2. Telling(tx[p]) /\ m = tx[p].notice
        BY <2>1, <3>1 DEF ApartInv
      <3> QED BY <2>3, <3>1, <3>2 DEF ApartInv
    <2> QED BY <2>2, <2>3
  <1>5. ASSUME NEW q \in Tellers, NEW o \in Tellers, Telling(tx'[q]), Telling(tx'[o]), q # o
        PROVE  tx'[q].notice # tx'[o].notice
    <2>1. ASSUME NEW z \in Tellers, z # p, Telling(tx[z]), Telling(t) PROVE t.notice # tx[z].notice
      <3>1. tx[z].notice <= notices /\ tx[z].notice \in Nat
        BY <1>1 DEF ApartInv
      <3> QED BY <1>1, <2>1, <3>1 DEF ApartInv
    <2>2. CASE q = p
      BY <1>1, <1>5, <2>1, <2>2
    <2>3. CASE o = p
      BY <1>1, <1>5, <2>1, <2>3
    <2>4. CASE q # p /\ o # p
      BY <1>1, <1>5, <2>4 DEF ApartInv
    <2> QED BY <2>2, <2>3, <2>4
  <1>6. \A n : Spread(n)' => n <= notices' /\ n # 0
    BY <1>2
  <1>7. \A q \in Tellers : Telling(tx'[q]) => \A n : Spread(n)' => n # tx'[q].notice
    BY <1>4
  <1>8. \A q \in Tellers : Telling(tx'[q]) => tx'[q].notice # 0
    BY <1>1 DEF ApartInv, TellInv
  <1> QED BY <1>3, <1>5, <1>6, <1>7, <1>8 DEF ApartInv

LEMMA TellPart ==
    ASSUME TellInv, NEW p \in Tellers, NEW t \in Tellings, tx' = [tx EXCEPT ![p] = t], Shape(p, t),
           notices' \in Nat, queue' \in Seq(Mails),
           stored' \in [CrmUsers -> SUBSET Nat], shown' \in [CrmUsers -> SUBSET Nat]
    PROVE  TellInv'
  <1>1. tx' \in [Tellers -> Tellings] /\ tx'[p] = t /\ \A q \in Tellers : q # p => tx'[q] = tx[q]
    BY DEF TellInv
  <1>2. \A q \in Tellers : Shape(q, tx'[q])
    BY <1>1 DEF TellInv
  <1> QED BY <1>1, <1>2 DEF TellInv, Shape, Telling

LEMMA SpreadIn ==
    ASSUME TellInv
    PROVE  /\ \A u \in CrmUsers : \A n \in stored[u] \cup shown[u] : Spread(n)
           /\ \A p \in Tellers : \A n \in tx[p].old : Spread(n)
           /\ \A p \in Tellers : \A u \in DOMAIN tx[p].writes : \A n \in tx[p].writes[u].read : Spread(n)
  BY DEF Spread

LEMMA SpreadOf ==
    ASSUME TellInv, NEW p \in Tellers, NEW t, tx' = [tx EXCEPT ![p] = t], NEW n, Spread(n)'
    PROVE  \/ Spread(n)
           \/ \E u \in CrmUsers : n \in stored'[u] \/ n \in shown'[u]
           \/ n \in t.old
           \/ \E u \in DOMAIN t.writes : n \in t.writes[u].read
  <1>1. tx'[p] = t /\ \A q \in Tellers : q # p => tx'[q] = tx[q]
    BY DEF TellInv
  <1>2. CASE \E u \in CrmUsers : n \in stored'[u] \/ n \in shown'[u]
    BY <1>2
  <1>3. CASE \E q \in Tellers : \/ n \in tx'[q].old
                                \/ \E u \in DOMAIN tx'[q].writes : n \in tx'[q].writes[u].read
    <2>1. PICK q \in Tellers : \/ n \in tx'[q].old
                               \/ \E u \in DOMAIN tx'[q].writes : n \in tx'[q].writes[u].read
      BY <1>3
    <2>2. CASE q = p
      BY <1>1, <2>1, <2>2
    <2>3. CASE q # p
      BY <1>1, <2>1, <2>3 DEF Spread
    <2> QED BY <2>2, <2>3
  <1> QED BY <1>2, <1>3 DEF Spread

LEMMA ProfileLoaded ==
    ASSUME TellInv, ApartInv, NEW p \in Tellers, LoadProfile(p) PROVE TellInv' /\ ApartInv'
  <1>1. PICK t, u : t = tx'[p] /\ u = Head(tx[p].todo)
    OBVIOUS
  <1>2. /\ tx[p] \in Tellings /\ Shape(p, tx[p]) /\ tx[p].todo # <<>> /\ tx[p].kind = "notify"
        /\ tx[p].todo \in Seq(CrmUsers)
    BY DEF LoadProfile, TellInv, Tellings
  <1>3. u \in CrmUsers /\ stored[u] \in SUBSET Nat
    BY <1>1, <1>2 DEF TellInv
  <1>4. /\ tx' = [tx EXCEPT ![p] = t]
        /\ t = [tx[p] EXCEPT !.kind = "append", !.old = stored[u]]
    BY <1>1 DEF LoadProfile, TellInv
  <1>5. /\ t \in Tellings /\ Shape(p, t) /\ Telling(t) /\ Telling(tx[p])
        /\ t.notice = tx[p].notice /\ t.old = stored[u] /\ t.writes = tx[p].writes
    BY <1>2, <1>3, <1>4 DEF Tellings, Shape, Telling
  <1>6. UNCHANGED <<stored, shown, notices, uses, queue, mailer>>
    BY DEF LoadProfile, mailVars
  <1>7. TellInv'
    BY <1>4, <1>5, <1>6, TellPart DEF TellInv
  <1>8. ASSUME NEW n, Spread(n)' PROVE Spread(n)
    BY <1>3, <1>4, <1>5, <1>6, <1>8, SpreadOf, SpreadIn
  <1>9. t.notice <= notices' /\ notices <= notices' /\ notices' \in Nat
    BY <1>5, <1>6 DEF TellInv, ApartInv
  <1>10. ApartInv'
    BY <1>4, <1>5, <1>8, <1>9, Private
  <1> QED BY <1>7, <1>10

LEMMA ProfileSaved ==
    ASSUME TellInv, ApartInv, NEW p \in Tellers, SaveProfile(p) PROVE TellInv' /\ ApartInv'
  <1>1. PICK t, u, w : /\ t = tx'[p] /\ u = Head(tx[p].todo)
                       /\ w = [read |-> tx[p].old, list |-> tx[p].old \cup {tx[p].notice}]
    OBVIOUS
  <1>2. /\ tx[p] \in Tellings /\ Shape(p, tx[p]) /\ tx[p].todo # <<>> /\ tx[p].kind = "append"
        /\ tx[p].todo \in Seq(CrmUsers) /\ tx[p].told \in Seq(CrmUsers) /\ p # Reminding
        /\ tx[p].writes \in Writes /\ tx[p].old \in SUBSET Nat /\ tx[p].notice \in Nat
    BY NoticesAssumption DEF SaveProfile, TellInv, Tellings, Shape
  <1>3. u \in CrmUsers /\ w \in Lists /\ Tail(tx[p].todo) \in Seq(CrmUsers)
        /\ Append(tx[p].told, u) \in Seq(CrmUsers)
    BY <1>1, <1>2 DEF TellInv, Lists
  <1>4. /\ tx' = [tx EXCEPT ![p] = t]
        /\ t = [tx[p] EXCEPT !.kind = "notify", !.todo = Tail(@), !.told = Append(@, u), !.old = {},
                             !.writes = Put(@, u, w)]
    BY <1>1 DEF SaveProfile, TellInv
  <1>5. PICK f : f = Put(tx[p].writes, u, w)
    OBVIOUS
  <1>6. /\ f \in Writes /\ DOMAIN f = DOMAIN tx[p].writes \cup {u}
        /\ f[u] = w /\ \A v \in DOMAIN tx[p].writes : v # u => f[v] = tx[p].writes[v]
    <2>1. PICK g : g = tx[p].writes
      OBVIOUS
    <2>2. /\ Put(g, u, w) \in Writes /\ DOMAIN Put(g, u, w) = DOMAIN g \cup {u}
          /\ Put(g, u, w)[u] = w /\ \A v \in DOMAIN g : v # u => Put(g, u, w)[v] = g[v]
      <3>1. g \in Writes /\ u \in CrmUsers /\ w \in Lists
        BY <1>2, <1>3, <2>1
      <3> QED BY ONLY <3>1, WritesPut
    <2> QED BY <1>5, <2>1, <2>2
  <1>7. /\ t \in Tellings /\ Telling(t) /\ Telling(tx[p]) /\ t.kind = "notify"
        /\ t.notice = tx[p].notice /\ t.old = {} /\ t.writes = f /\ t.how = tx[p].how /\ t.about = tx[p].about
    BY <1>2, <1>3, <1>4, <1>5, <1>6 DEF Tellings, Telling
  <1>8. Shape(p, t)
    <2>1. \A v \in DOMAIN f : f[v].list = f[v].read \cup {t.notice}
      BY <1>1, <1>2, <1>6, <1>7 DEF Shape
    <2> QED BY <1>2, <1>7, <2>1 DEF Shape, Telling
  <1>9. UNCHANGED <<stored, shown, notices, uses, queue, mailer>>
    BY DEF SaveProfile, mailVars
  <1>10. TellInv'
    BY <1>4, <1>7, <1>8, <1>9, TellPart DEF TellInv
  <1>11. ASSUME NEW n, Spread(n)' PROVE Spread(n)
    <2>1. \A v \in DOMAIN t.writes : \A k \in t.writes[v].read : Spread(k)
      <3> SUFFICES ASSUME NEW v \in DOMAIN t.writes, NEW k \in t.writes[v].read PROVE Spread(k)
        OBVIOUS
      <3>1. CASE v = u
        BY <1>1, <1>6, <1>7, <3>1, SpreadIn
      <3>2. CASE v # u
        BY <1>6, <1>7, <3>2, SpreadIn
      <3> QED BY <3>1, <3>2
    <2> QED BY <1>4, <1>7, <1>9, <1>11, <2>1, SpreadOf, SpreadIn
  <1>12. t.notice <= notices' /\ notices <= notices' /\ notices' \in Nat
    BY <1>7, <1>9 DEF TellInv, ApartInv
  <1>13. ApartInv'
    BY <1>4, <1>7, <1>11, <1>12, Private
  <1> QED BY <1>10, <1>13
-----------------------------------------------------------------------------
(* Mails.                                                                  *)

LEMMA OrdersAre ==
    ASSUME NEW S, IsFiniteSet(S), NEW s \in Orders(S)
    PROVE  /\ s \in Seq(S) /\ DOMAIN s = 1..Cardinality(S) /\ Cardinality(S) \in Nat
           /\ \A i \in DOMAIN s : s[i] \in S
           /\ \A x \in S : \E i \in DOMAIN s : s[i] = x
           /\ \A i, j \in DOMAIN s : i # j => s[i] # s[j]
  <1>1. PICK n : n = Cardinality(S)
    OBVIOUS
  <1>2. n \in Nat /\ s \in [1..n -> S] /\ DOMAIN s = 1..n
    BY <1>1, FS_CardinalityType DEF Orders
  <1>3. s \in Seq(S)
    BY <1>2
  <1>4. \A x \in S : \E i \in DOMAIN s : s[i] = x
    BY DEF Orders, ToSet
  <1>5. s \in Surjection(1..n, S)
    BY <1>2, <1>4 DEF Surjection
  <1>6. IsFiniteSet(1..n) /\ Cardinality(1..n) = n
    BY <1>2, FS_Interval
  <1>7. s \in Injection(1..n, S)
    BY <1>1, <1>5, <1>6, FS_SurjSameCardinalityImpliesInj
  <1>8. \A i, j \in DOMAIN s : i # j => s[i] # s[j]
    BY <1>2, <1>7 DEF Injection, IsInjective
  <1> QED BY <1>1, <1>2, <1>3, <1>4, <1>8

\* Each of the users told is in the one mail in his language.
LEMMA BatchesAre ==
    ASSUME NEW list \in Seq(CrmUsers), NEW b \in Batches(list)
    PROVE  /\ b \in Seq(Mails)
           /\ \A v \in ToSet(list) : \E i \in DOMAIN b : v \in b[i].to /\ b[i].code = Language[v]
           /\ \A i, j \in DOMAIN b : i # j => b[i].to \cap b[j].to = {}
  <1>1. PICK S, C : S = ToSet(list) /\ C = {Language[u] : u \in S}
    OBVIOUS
  <1>2. PICK codes \in Orders(C) :
           b = [i \in DOMAIN codes |-> [to |-> {u \in S : Language[u] = codes[i]}, code |-> codes[i]]]
    BY <1>1 DEF Batches
  <1>3. S \in SUBSET CrmUsers
    BY <1>1 DEF ToSet
  <1>4. IsFiniteSet(C)
    <2>1. PICK f : f = [u \in S |-> Language[u]]
      OBVIOUS
    <2>2. f \in Surjection(S, C)
      BY <1>1, <2>1 DEF Surjection
    <2>3. IsFiniteSet(S)
      BY <1>3, FS_Subset, NoticesAssumption
    <2> QED BY <2>2, <2>3, FS_Surjection
  <1>5. PICK n : /\ n \in Nat /\ DOMAIN codes = 1..n /\ \A i \in 1..n : codes[i] \in C
                 /\ \A x \in C : \E i \in 1..n : codes[i] = x
                 /\ \A i, j \in 1..n : i # j => codes[i] # codes[j]
    BY <1>4, OrdersAre
  <1>6. /\ DOMAIN b = 1..n
        /\ \A i \in 1..n : b[i] = [to |-> {u \in S : Language[u] = codes[i]}, code |-> codes[i]]
    BY <1>2, <1>5
  <1>7. \A i \in 1..n : b[i] \in Mails
    <2> SUFFICES ASSUME NEW i \in 1..n PROVE b[i] \in Mails
      OBVIOUS
    <2>1. codes[i] \in Codes
      BY <1>1, <1>3, <1>5 DEF Codes
    <2>2. {u \in S : Language[u] = codes[i]} \in SUBSET CrmUsers
      BY <1>3
    <2> QED BY <1>6, <2>1, <2>2 DEF Mails
  <1>8. b \in Seq(Mails)
    <2>1. b \in [1..n -> Mails]
      BY <1>2, <1>5, <1>6, <1>7
    <2> QED BY <1>5, <2>1
  <1>9. ASSUME NEW v \in S PROVE \E i \in 1..n : v \in b[i].to /\ b[i].code = Language[v]
    <2>1. PICK i \in 1..n : codes[i] = Language[v]
      BY <1>1, <1>5
    <2> QED BY <1>6, <2>1
  <1>10. ASSUME NEW i \in 1..n, NEW j \in 1..n, i # j PROVE b[i].to \cap b[j].to = {}
    BY <1>5, <1>6, <1>10
  <1> QED BY <1>1, <1>6, <1>8, <1>9, <1>10

LEMMA MailIs == ASSUME NEW list \in Seq(CrmUsers), list # <<>>
                PROVE  Mail(list) \in Mails /\ [Mail(list) EXCEPT !.code = "sender"] \in Mails
  <1>1. ToSet(list) \in SUBSET CrmUsers
    BY DEF ToSet
  <1>2. Last(list) \in CrmUsers
    BY DEF Last
  <1>3. Language[Last(list)] \in Codes /\ "sender" \in Codes
    BY <1>2 DEF Codes
  <1> QED BY <1>1, <1>3 DEF Mail, Mails

LEMMA MailsQueued ==
    ASSUME TellInv, ApartInv, NEW p \in Tellers, QueueMails(p) PROVE TellInv' /\ ApartInv'
  <1>1. PICK t : t = tx'[p]
    OBVIOUS
  <1>2. /\ tx[p] \in Tellings /\ Shape(p, tx[p]) /\ tx[p].kind = "notify"
        /\ tx[p].told \in Seq(CrmUsers) /\ tx[p].told # <<>> /\ <<>> \in Seq(CrmUsers)
    BY DEF QueueMails, TellInv, Tellings
  <1>3. tx' = [tx EXCEPT ![p] = t] /\ t = [tx[p] EXCEPT !.told = <<>>]
    BY <1>1 DEF QueueMails, TellInv
  <1>4. /\ t \in Tellings /\ Shape(p, t) /\ Telling(t) /\ Telling(tx[p])
        /\ t.notice = tx[p].notice /\ t.old = tx[p].old /\ t.writes = tx[p].writes
    BY <1>2, <1>3 DEF Tellings, Shape, Telling
  <1>5. UNCHANGED <<stored, shown, notices, uses>>
    BY DEF QueueMails
  <1>6. queue' \in Seq(Mails)
    <2>1. PICK mails : mails \in Seq(Mails) /\ queue' = queue \o mails
      BY <1>2, BatchesAre, MailIs DEF QueueMails
    <2> QED BY <2>1 DEF TellInv
  <1>7. TellInv'
    BY <1>3, <1>4, <1>5, <1>6, TellPart DEF TellInv
  <1>8. ASSUME NEW n, Spread(n)' PROVE Spread(n)
    BY <1>3, <1>4, <1>5, <1>8, SpreadOf, SpreadIn
  <1>9. t.notice <= notices' /\ notices <= notices' /\ notices' \in Nat
    BY <1>4, <1>5 DEF TellInv, ApartInv
  <1>10. ApartInv'
    BY <1>3, <1>4, <1>8, <1>9, Private
  <1> QED BY <1>7, <1>10
-----------------------------------------------------------------------------
(* The rest of what moves a notice.                                        *)

\* Somebody ends, or begins with what is stored.
LEMMA Ends ==
    ASSUME TellInv, ApartInv, NEW p \in Tellers, NEW t, tx' = [tx EXCEPT ![p] = t],
           t \in Tellings, Shape(p, t), ~Telling(t), DOMAIN t.writes = {}, t.notice <= notices,
           \A n \in t.old : Spread(n), notices' = notices, queue' \in Seq(Mails),
           stored' \in [CrmUsers -> SUBSET Nat], shown' \in [CrmUsers -> SUBSET Nat],
           \A u \in CrmUsers : \A n \in stored'[u] \cup shown'[u] :
               Spread(n) \/ (Telling(tx[p]) /\ n = tx[p].notice)
    PROVE  TellInv' /\ ApartInv'
  <1>1. notices' \in Nat /\ notices <= notices' /\ t.notice <= notices'
    BY DEF TellInv
  <1>2. TellInv'
    BY <1>1, TellPart
  <1>3. ASSUME NEW n, Spread(n)' PROVE Spread(n) \/ (Telling(tx[p]) /\ ~Telling(t) /\ n = tx[p].notice)
    BY <1>3, SpreadOf
  <1>4. ApartInv'
    BY <1>1, <1>3, Private
  <1> QED BY <1>2, <1>4

LEMMA GivenUp ==
    ASSUME TellInv, ApartInv, NEW p \in Tellers, tx' = [tx EXCEPT ![p] = Idle],
           notices' = notices, queue' \in Seq(Mails),
           stored' \in [CrmUsers -> SUBSET Nat], shown' \in [CrmUsers -> SUBSET Nat],
           \A u \in CrmUsers : \A n \in stored'[u] \cup shown'[u] :
               Spread(n) \/ (Telling(tx[p]) /\ n = tx[p].notice)
    PROVE  TellInv' /\ ApartInv'
  <1>1. ~Telling(Idle) /\ Idle.notice <= notices
    BY IdleIs DEF Telling, TellInv
  <1> QED BY <1>1, IdleIs, Ends

LEMMA Committed ==
    ASSUME TellInv, ApartInv, NEW p \in Tellers, Commit(p), Telling(tx[p]) PROVE TellInv' /\ ApartInv'
  <1>1. PICK w : w = tx[p].writes
    OBVIOUS
  <1>2. w \in Writes /\ Shape(p, tx[p]) /\ tx[p].notice \in Nat
    BY <1>1 DEF TellInv, Tellings
  <1>3. \A u \in DOMAIN w : /\ w[u].list \in SUBSET Nat
                            /\ \A n \in w[u].list : Spread(n) \/ n = tx[p].notice
    BY <1>1, <1>2, WritesAre, SpreadIn DEF Shape, Lists
  <1>4. /\ tx' = [tx EXCEPT ![p] = Idle] /\ UNCHANGED <<shown, notices, uses, queue, mailer>>
        /\ stored' = [u \in CrmUsers |-> IF u \in DOMAIN w THEN w[u].list ELSE stored[u]]
    BY <1>1 DEF Commit, mailVars
  <1>5. stored' \in [CrmUsers -> SUBSET Nat]
    BY <1>3, <1>4 DEF TellInv
  <1>6. \A u \in CrmUsers : \A n \in stored'[u] \cup shown'[u] : Spread(n) \/ n = tx[p].notice
    BY <1>3, <1>4, SpreadIn
  <1> QED BY <1>4, <1>5, <1>6, GivenUp DEF TellInv

LEMMA SavedAlone ==
    ASSUME TellInv, ApartInv, SaveAlone PROVE TellInv' /\ ApartInv'
  <1>1. PICK p, t, u : p = Reminding /\ t = tx'[p] /\ u = Head(tx[p].todo)
    OBVIOUS
  <1>2. /\ p \in Tellers /\ tx[p] \in Tellings /\ Shape(p, tx[p]) /\ tx[p].todo # <<>>
        /\ tx[p].todo \in Seq(CrmUsers) /\ tx[p].old \in SUBSET Nat /\ tx[p].notice \in Nat
        /\ Telling(tx[p])
    BY <1>1 DEF SaveAlone, TellInv, Tellings, Shape, Tellers, Telling
  <1>3. u \in CrmUsers
    BY <1>1, <1>2
  <1>4. /\ tx' = [tx EXCEPT ![p] = t] /\ t = [tx[p] EXCEPT !.kind = "told"]
        /\ stored' = [stored EXCEPT ![u] = tx[p].old \cup {tx[p].notice}]
        /\ UNCHANGED <<shown, notices, uses, queue, mailer>>
    BY <1>1, <1>2 DEF SaveAlone, TellInv, mailVars
  <1>5. /\ t \in Tellings /\ Shape(p, t) /\ ~Telling(t) /\ DOMAIN t.writes = {}
        /\ t.notice = tx[p].notice /\ t.old = tx[p].old
    BY <1>1, <1>2, <1>4 DEF Tellings, Shape, Telling
  <1>6. stored' \in [CrmUsers -> SUBSET Nat]
    BY <1>2, <1>4 DEF TellInv
  <1>7. t.notice <= notices /\ \A n \in t.old : Spread(n)
    BY <1>2, <1>5, SpreadIn DEF ApartInv
  <1>8. \A v \in CrmUsers : \A n \in stored'[v] \cup shown'[v] : Spread(n) \/ n = tx[p].notice
    <2> SUFFICES ASSUME NEW v \in CrmUsers, NEW n \in stored'[v] \cup shown'[v]
                 PROVE  Spread(n) \/ n = tx[p].notice
      OBVIOUS
    <2>1. stored'[v] = IF v = u THEN tx[p].old \cup {tx[p].notice} ELSE stored[v]
      BY <1>4 DEF TellInv
    <2> QED BY <1>2, <1>4, <2>1, SpreadIn
  <1> QED BY <1>2, <1>4, <1>5, <1>6, <1>7, <1>8, Ends DEF TellInv

LEMMA Begun ==
    ASSUME TellInv, ApartInv, NEW u \in CrmUsers, NEW kind \in {"request", "profile"}, BeginRequest(u, kind)
    PROVE  TellInv' /\ ApartInv'
  <1>1. PICK t : t = tx'[u]
    OBVIOUS
  <1>2. u \in Tellers /\ tx[u] = Idle /\ stored[u] \in SUBSET Nat /\ u # Reminding
    BY NoticesAssumption DEF Tellers, BeginRequest, TellInv
  <1>3. /\ tx' = [tx EXCEPT ![u] = t] /\ t = [Idle EXCEPT !.kind = kind, !.old = stored[u]]
        /\ UNCHANGED <<stored, shown, notices, queue, mailer>>
    BY <1>1, <1>2 DEF BeginRequest, TellInv, mailVars
  <1>4. t \in Tellings /\ t.kind = kind /\ t.old = stored[u] /\ t.notice = 0 /\ DOMAIN t.writes = {}
        /\ t.how = "each"
    BY <1>2, <1>3, IdleIs DEF Tellings, Idle
  <1>5. ~Telling(t) /\ Shape(u, t)
    BY <1>2, <1>4 DEF Shape, Telling
  <1>6. t.notice <= notices
    BY <1>4 DEF TellInv
  <1>7. \A v \in CrmUsers : \A n \in stored'[v] \cup shown'[v] : Spread(n)
    BY <1>3, SpreadIn
  <1> QED BY <1>2, <1>3, <1>4, <1>5, <1>6, <1>7, SpreadIn, Ends DEF TellInv

LEMMA OwnList ==
    ASSUME TellInv, ApartInv, NEW u \in CrmUsers, ShowMessages(u) \/ NoMessages(u) \/ SaveOwnProfile(u)
    PROVE  TellInv' /\ ApartInv'
  <1>1. /\ tx' = [tx EXCEPT ![u] = Idle] /\ UNCHANGED <<notices, queue, mailer>> /\ u \in Tellers
        /\ stored' \in {stored, [stored EXCEPT ![u] = {}], [stored EXCEPT ![u] = tx[u].old]}
        /\ shown' \in {shown, [shown EXCEPT ![u] = @ \cup tx[u].old]}
    BY DEF ShowMessages, NoMessages, SaveOwnProfile, mailVars, Tellers
  <1>2. tx[u].old \in SUBSET Nat
    BY <1>1 DEF TellInv, Tellings
  <1>3. stored' \in [CrmUsers -> SUBSET Nat] /\ shown' \in [CrmUsers -> SUBSET Nat]
    BY <1>1, <1>2 DEF TellInv
  <1>4. \A v \in CrmUsers : stored'[v] \cup shown'[v] \subseteq stored[v] \cup shown[v] \cup tx[u].old
    BY <1>1 DEF TellInv
  <1>5. \A v \in CrmUsers : \A n \in stored'[v] \cup shown'[v] : Spread(n)
    BY <1>1, <1>4, SpreadIn
  <1> QED BY <1>1, <1>3, <1>5, GivenUp DEF TellInv

\* A new notice.
LEMMA Told ==
    ASSUME TellInv, ApartInv, NEW p \in Tellers, NEW t \in Tellings, tx' = [tx EXCEPT ![p] = t], Shape(p, t),
           t.kind = "notify", t.notice = notices + 1, t.old = {}, DOMAIN t.writes = {},
           notices' = notices + 1, UNCHANGED <<stored, shown, queue>>
    PROVE  TellInv' /\ ApartInv'
  <1>1. notices \in Nat /\ notices' \in Nat /\ notices <= notices' /\ t.notice <= notices' /\ t.notice > notices
    BY DEF TellInv
  <1>2. TellInv'
    BY <1>1, TellPart DEF TellInv
  <1>3. ASSUME NEW n, Spread(n)' PROVE Spread(n)
    BY <1>3, SpreadOf, SpreadIn
  <1>4. ApartInv'
    BY <1>1, <1>3, Private
  <1> QED BY <1>2, <1>4

LEMMA Frozen ==
    ASSUME TellInv, ApartInv, UNCHANGED <<tx, stored, shown, notices>>, queue' \in Seq(Mails)
    PROVE  TellInv' /\ ApartInv'
  <1>1. \A n : Spread(n)' <=> Spread(n)
    BY DEF Spread
  <1> QED BY <1>1 DEF TellInv, ApartInv, Shape, Telling

LEMMA Died == ASSUME TellInv, ApartInv, CrashNotices PROVE TellInv' /\ ApartInv'
  <1>1. /\ \A p \in Tellers : tx'[p] = Idle /\ tx' \in [Tellers -> Tellings] /\ queue' \in Seq(Mails)
        /\ UNCHANGED <<stored, shown, notices>>
    BY IdleIs DEF CrashNotices, TellInv
  <1>2. TellInv'
    <2>1. \A p \in Tellers : Shape(p, tx'[p])
      BY <1>1, IdleIs
    <2>2. tx' \in [Tellers -> Tellings] /\ queue' \in Seq(Mails)
      BY IdleIs DEF CrashNotices, TellInv
    <2> QED BY <1>1, <2>1, <2>2 DEF TellInv, Shape, Telling
  <1>3. \A n : Spread(n)' => Spread(n)
    BY <1>1, IdleIs DEF Spread
  <1>4. \A p \in Tellers : ~Telling(tx'[p]) /\ tx'[p].notice <= notices'
    BY <1>1, IdleIs DEF Telling, TellInv
  <1> QED BY <1>1, <1>2, <1>3, <1>4 DEF ApartInv
-----------------------------------------------------------------------------
(* What happens to the messages of a user.                                 *)

Goes(u) == /\ \A n \in stored[u] \ (stored'[u] \cup shown'[u]) :
                \E p \in DOMAIN tx : tx[p] # Idle /\ ~Holds(p, u, n)
           /\ \A n \in (stored'[u] \ stored[u]) \cap shown[u] :
                \E p \in DOMAIN tx : tx[p] # Idle /\ Holds(p, u, n)

LEMMA StaysThere == ASSUME UNCHANGED <<stored, shown>> PROVE \A u \in CrmUsers : Goes(u)
  BY DEF Goes

LEMMA CommitGoes ==
    ASSUME TellInv, ApartInv, NEW p \in Tellers, Commit(p), Telling(tx[p])
    PROVE  \A u \in CrmUsers : Goes(u)
  <1> SUFFICES ASSUME NEW u \in CrmUsers PROVE Goes(u)
    OBVIOUS
  <1>1. p \in DOMAIN tx /\ tx[p] # Idle /\ Shape(p, tx[p])
    BY IdleIs DEF TellInv, Telling
  <1>2. stored'[u] = (IF u \in DOMAIN tx[p].writes THEN tx[p].writes[u].list ELSE stored[u]) /\ shown' = shown
    BY DEF Commit
  <1>3. CASE u \in DOMAIN tx[p].writes
    <2>1. stored'[u] = tx[p].writes[u].read \cup {tx[p].notice}
      BY <1>1, <1>2, <1>3 DEF Shape
    <2>2. tx[p].notice \notin shown[u]
      BY SpreadIn DEF ApartInv
    <2> QED BY <1>1, <1>3, <2>1, <2>2 DEF Goes, Holds
  <1>4. CASE u \notin DOMAIN tx[p].writes
    BY <1>2, <1>4 DEF Goes
  <1> QED BY <1>3, <1>4

LEMMA AloneGoes == ASSUME TellInv, ApartInv, SaveAlone PROVE \A u \in CrmUsers : Goes(u)
  <1> SUFFICES ASSUME NEW u \in CrmUsers PROVE Goes(u)
    OBVIOUS
  <1>1. PICK p : p = Reminding
    OBVIOUS
  <1>2. p \in DOMAIN tx /\ Telling(tx[p]) /\ tx[p] # Idle /\ DOMAIN tx[p].writes = {}
    BY <1>1, IdleIs DEF SaveAlone, TellInv, Tellers, Telling, Shape
  <1>3. stored'[u] \in {stored[u], tx[p].old \cup {tx[p].notice}} /\ shown' = shown
    BY <1>1 DEF SaveAlone, TellInv
  <1>4. tx[p].notice \notin shown[u]
    BY <1>2, SpreadIn DEF ApartInv, TellInv
  <1> QED BY <1>2, <1>3, <1>4 DEF Goes, Holds

LEMMA OwnGoes ==
    ASSUME TellInv, ApartInv, NEW v \in CrmUsers, ShowMessages(v) \/ NoMessages(v) \/ SaveOwnProfile(v)
    PROVE  \A u \in CrmUsers : Goes(u)
  <1> SUFFICES ASSUME NEW u \in CrmUsers PROVE Goes(u)
    OBVIOUS
  <1>1. v \in DOMAIN tx /\ tx[v].kind \in {"request", "profile"}
    BY DEF TellInv, Tellers, ShowMessages, NoMessages, SaveOwnProfile
  <1>2. tx[v] # Idle /\ DOMAIN tx[v].writes = {}
    BY <1>1, IdleIs DEF TellInv, Shape, Telling
  <1>3. \/ stored'[u] = stored[u] /\ shown'[u] = shown[u]
        \/ stored'[u] = {} /\ shown'[u] = shown[u] \cup tx[v].old
        \/ stored'[u] = tx[v].old /\ shown'[u] = shown[u]
    BY DEF TellInv, ShowMessages, NoMessages, SaveOwnProfile
  <1> QED BY <1>1, <1>2, <1>3 DEF Goes, Holds

LEMMA MailsGo ==
    ASSUME TellInv, NEW u \in CrmUsers, QueueMails(u), tx[u].how # "one"
    PROVE  LET new == SubSeq(queue', Len(queue) + 1, Len(queue'))
           IN /\ \A v \in ToSet(tx[u].told) : \E i \in DOMAIN new : v \in new[i].to /\ new[i].code = Language[v]
              /\ \A i, j \in DOMAIN new : i # j => new[i].to \cap new[j].to = {}
  <1>1. tx[u].told \in Seq(CrmUsers) /\ queue \in Seq(Mails)
    BY DEF TellInv, Tellings, Tellers
  <1>2. PICK mails \in Batches(tx[u].told) : queue' = queue \o mails
    BY DEF QueueMails
  <1>3. PICK list : list = tx[u].told
    OBVIOUS
  <1>4. /\ mails \in Seq(Mails)
        /\ \A v \in ToSet(list) : \E i \in DOMAIN mails : v \in mails[i].to /\ mails[i].code = Language[v]
        /\ \A i, j \in DOMAIN mails : i # j => mails[i].to \cap mails[j].to = {}
    BY <1>1, <1>2, <1>3, BatchesAre
  <1>5. SubSeq(queue', Len(queue) + 1, Len(queue')) = mails
    BY <1>1, <1>2, <1>4
  <1>6. PICK new : new = SubSeq(queue', Len(queue) + 1, Len(queue'))
    OBVIOUS
  <1>7. /\ \A v \in ToSet(tx[u].told) : \E i \in DOMAIN new : v \in new[i].to /\ new[i].code = Language[v]
        /\ \A i, j \in DOMAIN new : i # j => new[i].to \cap new[j].to = {}
    <2>1. new = mails
      BY <1>5, <1>6
    <2> QED BY ONLY <1>3, <1>4, <2>1
  <1> QED BY ONLY <1>6, <1>7
-----------------------------------------------------------------------------
(* Reminders.                                                              *)

ReminderRows == [there : BOOLEAN, owner : CrmUsers, step : Steps,
                 date : Dates, active : BOOLEAN, mail : BOOLEAN]
Awakes == [at : {"tell", "flag", "save"}, id : Rows, row : ReminderRows, remind : BOOLEAN]
Ringing == thread.at \in {"tell", "flag", "save"}
RemindInv ==
    /\ object \in [there : BOOLEAN, step : Steps, date : Dates, remind : BOOLEAN]
    /\ rows \in [Rows -> ReminderRows] /\ lastRow \in Nat
    /\ thread \in {Ready, Ended} \cup Awakes
    /\ now \in 0..2 /\ rung \in [Rows -> Nat] /\ crashes \in Nat
    /\ DOMAIN round \subseteq Rows /\ \A r \in DOMAIN round : round[r] \in ReminderRows
    \* A row has its place from when it is made.
    /\ \A r \in Rows : rows[r].there \/ r \in DOMAIN round \/ (Ringing /\ Cur = r) => r <= lastRow
    \* The thread rings one row that it has taken off the round.
    /\ Ringing => Cur \notin DOMAIN round
    /\ tx[Reminding].kind # "idle" => thread.at = "tell"
\* A row that is still to ring has rung for crashes only.
RungInv ==
    \A r \in Rows :
        /\ rung[r] <= 1 + crashes
        /\ r \in DOMAIN round \/ (thread.at = "tell" /\ Cur = r) => rung[r] <= crashes
        /\ /\ rows[r].there /\ rows[r].active /\ thread.at # "ended"
           /\ ~(thread.at \in {"flag", "save"} /\ Cur = r)
           => rung[r] <= crashes

\* A form is sent of an object that was there.
Forms == [there : {TRUE}, step : Steps, date : Dates, remind : BOOLEAN]
PostedInv == posted \in [CrmUsers -> [on : {TRUE}, copy : Forms, form : Forms] \cup {NoForm}]

LEMMA ThreadIs ==
    /\ Ready.at = "next" /\ Ended.at = "ended"
    /\ \A t \in Awakes : t.at \in {"tell", "flag", "save"} /\ t.id \in Rows
    /\ RemindInv => /\ thread.at = "next" => thread = Ready
                    /\ thread.at = "ended" => thread = Ended
                    /\ Ringing => thread \in Awakes
  BY DEF Ready, Ended, Awakes, RemindInv, Ringing

LEMMA NoRowIs == NoRow \in ReminderRows /\ ~NoRow.there /\ ~NoRow.active
  BY NoticesAssumption DEF NoRow, ReminderRows, Steps, Dates

\* A form sets rows that are there, or the next one.
LEMMA SetKeeps ==
    ASSUME RemindInv, RungInv, NEW new \in [Rows -> ReminderRows], Set(new),
           \A r \in Rows : new[r].there => rows[r].there \/ r \in Free,
           object' \in [there : BOOLEAN, step : Steps, date : Dates, remind : BOOLEAN],
           UNCHANGED <<thread, round, now, crashes, tx>>
    PROVE  RemindInv' /\ RungInv'
  <1>1. /\ rows' = new /\ lastRow \in Nat /\ lastRow' \in Nat /\ lastRow <= lastRow'
        /\ \A r \in Free : r = lastRow + 1 /\ (new[r].there => lastRow' = lastRow + 1)
    BY DEF Set, Free, RemindInv
  <1>2. \A r \in Rows : /\ rung'[r] \in Nat /\ rung'[r] \in {0, rung[r]}
                        /\ new[r].there /\ new[r].active /\ rung'[r] # 0 => new[r] = rows[r]
    BY DEF Set, RemindInv
  <1>3. rung' \in [Rows -> Nat]
    BY <1>2 DEF Set, RemindInv
  <1>4. \A r \in Rows : rows'[r].there \/ r \in DOMAIN round' \/ (Ringing' /\ Cur' = r) => r <= lastRow'
    BY <1>1 DEF RemindInv, Ringing, Cur, Rows
  <1>5. RemindInv'
    BY <1>1, <1>3, <1>4 DEF RemindInv, Ringing, Cur
  <1>6. RungInv'
    <2> SUFFICES ASSUME NEW r \in Rows
                 PROVE  /\ rung'[r] <= 1 + crashes
                        /\ r \in DOMAIN round \/ (thread.at = "tell" /\ Cur = r) => rung'[r] <= crashes
                        /\ /\ new[r].there /\ new[r].active /\ thread.at # "ended"
                           /\ ~(thread.at \in {"flag", "save"} /\ Cur = r)
                           => rung'[r] <= crashes
      BY <1>1 DEF RungInv, Cur
    <2>1. crashes \in Nat
      BY DEF RemindInv
    <2>2. CASE rung'[r] = 0
      BY <2>1, <2>2
    <2>3. CASE rung'[r] # 0
      BY <1>2, <2>3 DEF RungInv
    <2> QED BY <2>2, <2>3
  <1> QED BY <1>5, <1>6

\* What remind_me makes of the rows: with the box checked there is one that is
\* to ring if there was one before, or if the box was not checked.
LEMMA RemindMeIs ==
    ASSUME RemindInv, NEW u \in CrmUsers, NEW copy \in Forms, NEW form \in Forms,
           NEW new \in RemindMe(u, copy, form)
    PROVE  /\ new \in [Rows -> ReminderRows]
           /\ \A r \in Rows : new[r].there => rows[r].there \/ r \in Free
           /\ form.remind /\ copy.remind =>
                \A r \in Rows : new[r].there = rows[r].there /\ new[r].active = rows[r].active
           /\ form.remind /\ ~copy.remind => \E r \in Free : new[r].there /\ new[r].active
  <1>1. rows \in [Rows -> ReminderRows] /\ form.step \in Steps /\ form.date \in Dates
        /\ form.remind \in BOOLEAN /\ copy.remind \in BOOLEAN
    BY DEF RemindInv, Forms
  <1>2. CASE ~form.remind
    <2>1. \/ new = rows
          \/ \E S : new = [r \in Rows |-> IF r \in S THEN NoRow ELSE rows[r]]
      <3>1. new \in {IF ~copy.remind THEN rows
                     ELSE [r \in Rows |-> IF r \in Mine(u) \cap With(form.step) THEN NoRow ELSE rows[r]]}
        BY <1>2 DEF RemindMe
      <3> QED BY <3>1
    <2> QED BY <1>1, <1>2, <2>1, NoRowIs
  <1>3. CASE form.remind /\ ~copy.remind
    <2>1. PICK r \in Free : new = [rows EXCEPT ![r] = [there |-> TRUE, owner |-> u, step |-> form.step,
                                     date |-> form.date, active |-> TRUE, mail |-> TRUE]]
      BY <1>3 DEF RemindMe
    <2>2. r \in Rows
      BY DEF Free
    <2>3. [there |-> TRUE, owner |-> u, step |-> form.step,
           date |-> form.date, active |-> TRUE, mail |-> TRUE] \in ReminderRows
      BY <1>1 DEF ReminderRows
    <2> QED BY <1>1, <1>3, <2>1, <2>2, <2>3
  <1>4. CASE form.remind /\ copy.remind
    <2>1. \E S : new = Update(S, form.step, form.date)
      BY <1>4 DEF RemindMe
    <2>2. PICK S : new = [r \in Rows |-> IF r \in S THEN [rows[r] EXCEPT !.step = form.step, !.date = form.date]
                                         ELSE rows[r]]
      BY <2>1 DEF Update
    <2>3. \A r \in Rows : /\ [rows[r] EXCEPT !.step = form.step, !.date = form.date] \in ReminderRows
                          /\ [rows[r] EXCEPT !.step = form.step, !.date = form.date].there = rows[r].there
                          /\ [rows[r] EXCEPT !.step = form.step, !.date = form.date].active = rows[r].active
      BY <1>1 DEF ReminderRows
    <2> QED BY <1>1, <1>4, <2>2, <2>3
  <1> QED BY <1>1, <1>2, <1>3, <1>4

LEMMA FormIs ==
    ASSUME PostedInv, NEW u \in CrmUsers, PostObject(u)
    PROVE  /\ posted[u].copy \in Forms /\ posted[u].form \in Forms
           /\ posted[u].copy.remind \in BOOLEAN
           /\ object' = posted[u].form
           /\ object' \in [there : BOOLEAN, step : Steps, date : Dates, remind : BOOLEAN]
  <1>1. posted[u] \in [on : {TRUE}, copy : Forms, form : Forms] /\ object' = posted[u].form
    BY DEF PostObject, PostedInv
  <1> QED BY <1>1 DEF Forms

LEMMA PostedKeeps == ASSUME RemindInv, PostedInv, [NextAlerts]_alertVars PROVE PostedInv'
  <1>1. CASE UNCHANGED reminderVars
    BY <1>1 DEF reminderVars, PostedInv
  <1>2. CASE ThreadNext \/ Tick
    <2>1. UNCHANGED posted
      BY <1>2 DEF ThreadNext, Poll, NextRow, SendReminder, ClearBox, SaveReminder, Tick
    <2> QED BY <2>1 DEF PostedInv
  <1>3. CASE CrashReminders
    BY <1>3 DEF CrashReminders, PostedInv
  <1>4. ASSUME NEW u \in CrmUsers, LoadObject(u) PROVE PostedInv'
    <2>1. PICK form \in Forms :
             posted' = [posted EXCEPT ![u] = [on |-> TRUE, copy |-> object, form |-> form]]
      BY <1>4 DEF LoadObject, Forms
    <2>2. object \in Forms
      BY <1>4 DEF LoadObject, RemindInv, Forms
    <2> QED BY <2>1, <2>2 DEF PostedInv
  <1>5. ASSUME NEW u \in CrmUsers, PostObject(u) PROVE PostedInv'
    BY <1>5 DEF PostObject, PostedInv
  <1>6. ASSUME NEW u \in CrmUsers, AddReminder(u) \/ EditReminder(u) \/ DeleteReminder(u)
        PROVE  PostedInv'
    BY <1>6 DEF AddReminder, EditReminder, DeleteReminder, PostedInv
  <1>7. CASE DeleteObject
    BY <1>7 DEF DeleteObject, PostedInv
  <1>8. CASE FormNext
    BY <1>4, <1>5, <1>6, <1>7, <1>8 DEF FormNext
  <1>9. CASE UNCHANGED alertVars
    BY <1>1, <1>9 DEF alertVars
  <1>10. CASE Remind
    BY <1>1, <1>2, <1>10 DEF Remind
  <1> QED BY <1>1, <1>2, <1>3, <1>8, <1>9, <1>10 DEF NextAlerts, CrashAlerts

LEMMA FormsKeep ==
    ASSUME RemindInv, RungInv, PostedInv, FormNext, UNCHANGED tx PROVE RemindInv' /\ RungInv'
  <1>0. ASSUME NEW u \in CrmUsers, LoadObject(u) PROVE RemindInv' /\ RungInv'
    BY <1>0 DEF LoadObject, RemindInv, RungInv, Ringing, Cur
  <1>1. ASSUME NEW u \in CrmUsers, PostObject(u) PROVE RemindInv' /\ RungInv'
    <2>1. PICK new \in RemindMe(u, posted[u].copy, posted[u].form) : Set(new)
      BY <1>1 DEF PostObject
    <2>2. /\ new \in [Rows -> ReminderRows]
          /\ \A r \in Rows : new[r].there => rows[r].there \/ r \in Free
      BY <1>1, FormIs, RemindMeIs
    <2>3. UNCHANGED <<thread, round, now, crashes, tx>>
      BY <1>1 DEF PostObject
    <2> QED BY <1>1, <2>1, <2>2, <2>3, FormIs, SetKeeps
  <1>2. ASSUME NEW u \in CrmUsers, AddReminder(u) PROVE RemindInv' /\ RungInv'
    <2>1. PICK r \in Free, d \in Dates :
             Set([rows EXCEPT ![r] = [there |-> TRUE, owner |-> u, step |-> "call",
                                      date |-> d, active |-> TRUE, mail |-> TRUE]])
      BY <1>2 DEF AddReminder
    <2>2. PICK new : new = [rows EXCEPT ![r] = [there |-> TRUE, owner |-> u, step |-> "call",
                                                date |-> d, active |-> TRUE, mail |-> TRUE]]
      OBVIOUS
    <2>3. /\ new \in [Rows -> ReminderRows]
          /\ \A q \in Rows : new[q].there => rows[q].there \/ q \in Free
      <3>1. [there |-> TRUE, owner |-> u, step |-> "call",
             date |-> d, active |-> TRUE, mail |-> TRUE] \in ReminderRows
        BY DEF ReminderRows, Steps
      <3> QED BY <2>2, <3>1 DEF RemindInv, Free
    <2>4. UNCHANGED <<object, thread, round, now, crashes, tx>> /\ Set(new)
      BY <1>2, <2>1, <2>2 DEF AddReminder
    <2> QED BY <2>3, <2>4, SetKeeps DEF RemindInv
  <1>3. ASSUME NEW u \in CrmUsers, EditReminder(u) PROVE RemindInv' /\ RungInv'
    <2>1. PICK r \in Rows, d \in Dates, act \in BOOLEAN :
             /\ rows[r].there
             /\ Set([rows EXCEPT ![r].date = d, ![r].active = act, ![r].mail = TRUE])
      BY <1>3 DEF EditReminder
    <2>2. PICK new : new = [rows EXCEPT ![r].date = d, ![r].active = act, ![r].mail = TRUE]
      OBVIOUS
    <2>3. /\ new \in [Rows -> ReminderRows]
          /\ \A q \in Rows : new[q].there => rows[q].there
      BY <2>1, <2>2 DEF RemindInv, ReminderRows
    <2>4. UNCHANGED <<object, thread, round, now, crashes, tx>> /\ Set(new)
      BY <1>3, <2>1, <2>2 DEF EditReminder
    <2> QED BY <2>3, <2>4, SetKeeps DEF RemindInv
  <1>4. ASSUME NEW u \in CrmUsers, DeleteReminder(u) PROVE RemindInv' /\ RungInv'
    <2>1. PICK r \in Rows : Set([rows EXCEPT ![r] = NoRow])
      BY <1>4 DEF DeleteReminder
    <2>2. PICK new : new = [rows EXCEPT ![r] = NoRow]
      OBVIOUS
    <2>3. /\ new \in [Rows -> ReminderRows]
          /\ \A q \in Rows : new[q].there => rows[q].there
      BY <2>2, NoRowIs DEF RemindInv
    <2>4. UNCHANGED <<object, thread, round, now, crashes, tx>> /\ Set(new)
      BY <1>4, <2>1, <2>2 DEF DeleteReminder
    <2> QED BY <2>3, <2>4, SetKeeps DEF RemindInv
  <1>5. ASSUME DeleteObject PROVE RemindInv' /\ RungInv'
    <2>1. object' \in [there : BOOLEAN, step : Steps, date : Dates, remind : BOOLEAN]
      BY <1>5 DEF DeleteObject, RemindInv
    <2> QED BY <1>5, <2>1 DEF DeleteObject, RemindInv, RungInv, Ringing, Cur
  <1> QED BY <1>0, <1>1, <1>2, <1>3, <1>4, <1>5 DEF FormNext

\* The thread looks for what is due, and rings it.
LEMMA ThreadKeeps ==
    ASSUME TellInv, ApartInv, RemindInv, RungInv, ThreadNext
    PROVE  TellInv' /\ ApartInv' /\ RemindInv' /\ RungInv'
  <1> USE ThreadIs
  <1>1. ASSUME Poll PROVE TellInv' /\ ApartInv' /\ RemindInv' /\ RungInv'
    <2>1. /\ DOMAIN round' = Due /\ Due \subseteq Rows /\ \A r \in Due : round'[r] = rows[r]
          /\ \A r \in Due : rows[r].there /\ rows[r].active
          /\ thread = Ready /\ UNCHANGED <<object, rows, lastRow, thread, now, rung, crashes>>
          /\ UNCHANGED <<stored, shown, tx, queue, mailer, notices, uses>>
      BY <1>1 DEF Poll, Due, Restrict, Alone, noticeVars
    <2>2. RemindInv'
      BY <2>1 DEF RemindInv, Ringing, Cur
    <2>3. RungInv'
      BY <2>1 DEF RungInv, Cur
    <2>4. TellInv' /\ ApartInv'
      BY <2>1, Frozen DEF TellInv
    <2> QED BY <2>2, <2>3, <2>4
  <1>2. ASSUME NextRow, object.there PROVE TellInv' /\ ApartInv' /\ RemindInv' /\ RungInv'
    <2>1. PICK r \in DOMAIN round :
             /\ thread' = [at |-> "tell", id |-> r, row |-> round[r], remind |-> object.remind]
             /\ round' = Restrict(round, DOMAIN round \ {r})
             /\ notices' = notices + 1
             /\ tx' = [tx EXCEPT ![Reminding] = [Idle EXCEPT !.kind = "notify", !.todo = <<round[r].owner>>,
                                                             !.notice = notices + 1]]
      BY <1>2 DEF NextRow
    <2>2. /\ UNCHANGED <<stored, shown, uses, object, rows, lastRow, now, rung, crashes, queue, mailer>>
          /\ thread = Ready
      BY <1>2 DEF NextRow, mailVars
    <2>3. /\ DOMAIN round' = DOMAIN round \ {r} /\ \A q \in DOMAIN round' : round'[q] = round[q]
          /\ r \in Rows /\ round[r] \in ReminderRows /\ round[r].owner \in CrmUsers
          /\ thread' \in Awakes /\ thread'.at = "tell" /\ thread'.id = r
      <3>1. r \in Rows /\ round[r] \in ReminderRows /\ object.remind \in BOOLEAN
        BY DEF RemindInv
      <3>2. DOMAIN round' = DOMAIN round \ {r} /\ \A q \in DOMAIN round' : round'[q] = round[q]
        BY <2>1 DEF Restrict
      <3> QED BY <2>1, <3>1, <3>2 DEF Awakes, ReminderRows
    <2>4. PICK t : t = [Idle EXCEPT !.kind = "notify", !.todo = <<round[r].owner>>, !.notice = notices + 1]
      OBVIOUS
    <2>5. /\ t \in Tellings /\ t.kind = "notify" /\ t.notice = notices + 1 /\ t.old = {}
          /\ DOMAIN t.writes = {} /\ t.how = "each" /\ t.writes = Idle.writes
      <3>1. <<round[r].owner>> \in Seq(CrmUsers) /\ notices + 1 \in Nat
        BY <2>3 DEF TellInv
      <3>2. Idle.how = "each"
        BY DEF Idle
      <3> QED BY <2>4, <3>1, <3>2, IdleIs DEF Tellings
    <2>6. Shape(Reminding, t) /\ Reminding \in Tellers
      BY <2>5 DEF Shape, Telling, Tellers
    <2>7. TellInv' /\ ApartInv'
      BY <2>1, <2>2, <2>4, <2>5, <2>6, Told
    <2>8. RemindInv'
      BY <2>1, <2>2, <2>3 DEF RemindInv, Ringing, Cur
    <2>9. RungInv'
      BY <2>1, <2>2, <2>3 DEF RungInv, Cur
    <2> QED BY <2>7, <2>8, <2>9
  <1>3. ASSUME NextRow, ~object.there PROVE TellInv' /\ ApartInv' /\ RemindInv' /\ RungInv'
    <2>1. /\ thread' = Ended /\ round' = <<>> /\ thread = Ready
          /\ UNCHANGED <<object, rows, lastRow, now, rung, crashes>>
          /\ UNCHANGED <<stored, shown, tx, queue, mailer, notices, uses>>
      BY <1>3 DEF NextRow, End, mailVars
    <2>2. DOMAIN round' = {}
      BY <2>1
    <2>3. RemindInv'
      BY <2>1, <2>2 DEF RemindInv, Ringing, Cur
    <2>4. RungInv'
      BY <2>1, <2>2 DEF RungInv, Cur
    <2>5. TellInv' /\ ApartInv'
      BY <2>1, Frozen DEF TellInv
    <2> QED BY <2>3, <2>4, <2>5
  <1>4. ASSUME SendReminder PROVE TellInv' /\ ApartInv' /\ RemindInv' /\ RungInv'
    <2>1. /\ tx[Reminding].kind = "told" /\ tx' = [tx EXCEPT ![Reminding] = Idle]
          /\ rung' = [rung EXCEPT ![Cur] = @ + 1]
          /\ UNCHANGED <<stored, shown, mailer, notices, object, rows, lastRow, now, crashes>>
      BY <1>4 DEF SendReminder
    <2>2. /\ thread.at = "tell" /\ thread \in Awakes /\ Ringing /\ Cur \in Rows
          /\ thread.row \in ReminderRows /\ thread.row.owner \in CrmUsers
      BY <2>1 DEF RemindInv, Ringing, Cur, Awakes, ReminderRows
    <2>3. /\ \/ thread' = Ended /\ round' = <<>>
             \/ thread' \in Awakes /\ thread'.at = "flag" /\ thread'.id = Cur /\ round' = round
          /\ queue' = queue \/ queue' = Append(queue, Mail(<<thread.row.owner>>))
      <3>1. /\ Awake("flag", thread) \in Awakes
            /\ Awake("flag", thread).at = "flag" /\ Awake("flag", thread).id = Cur
        BY <2>2 DEF Awakes, Awake, Cur
      <3>2. PICK e : e = [thread EXCEPT !.row.mail = FALSE]
        OBVIOUS
      <3>3. e.id = Cur /\ e.row \in ReminderRows /\ e.remind = thread.remind
        BY <2>2, <3>2 DEF Awakes, ReminderRows, Cur
      <3>4. Awake("flag", e) \in Awakes /\ Awake("flag", e).at = "flag" /\ Awake("flag", e).id = Cur
        BY <2>2, <3>3 DEF Awakes, Awake
      <3> QED BY <1>4, <3>1, <3>2, <3>4 DEF SendReminder, End
    <2>4. queue' \in Seq(Mails)
      <3>1. Mail(<<thread.row.owner>>) \in Mails
        <4>1. PICK list : list = <<thread.row.owner>>
          OBVIOUS
        <4>2. list \in Seq(CrmUsers) /\ list # <<>>
          BY <2>2, <4>1
        <4> QED BY <4>1, <4>2, MailIs
      <3> QED BY <2>3, <3>1 DEF TellInv
    <2>5. Reminding \in Tellers
      BY DEF Tellers
    <2>6. \A u \in CrmUsers : \A n \in stored'[u] \cup shown'[u] : Spread(n)
      BY <2>1, SpreadIn
    <2>7. TellInv' /\ ApartInv'
      BY <2>1, <2>4, <2>5, <2>6, GivenUp DEF TellInv
    <2>8. tx'[Reminding].kind = "idle" /\ \A r \in DOMAIN <<>> : FALSE
      BY <2>1, <2>5, IdleIs DEF TellInv
    <2>9. DOMAIN round' \subseteq DOMAIN round /\ \A r \in DOMAIN round' : round'[r] = round[r]
      BY <2>3, <2>8
    <2>10. \A r \in Rows : rung'[r] = IF r = Cur THEN rung[r] + 1 ELSE rung[r]
      BY <2>1 DEF RemindInv
    <2>11. RemindInv'
      <3>1. rung' \in [Rows -> Nat]
        BY <2>1, <2>2 DEF RemindInv
      <3>2. \A r \in Rows : Ringing' /\ Cur' = r => r = Cur
        BY <2>3 DEF Ringing, Cur
      <3>3. Ringing' => Cur' \notin DOMAIN round'
        BY <2>2, <2>3, <2>9 DEF Ringing, Cur, RemindInv
      <3>4. thread' \in {Ready, Ended} \cup Awakes
        BY <2>3
      <3>5. \A r \in Rows : rows'[r].there \/ r \in DOMAIN round' \/ (Ringing' /\ Cur' = r) => r <= lastRow'
        BY <2>1, <2>2, <2>9, <3>2 DEF RemindInv
      <3> QED BY <2>1, <2>8, <2>9, <3>1, <3>3, <3>4, <3>5 DEF RemindInv
    <2>12. RungInv'
      <3> SUFFICES ASSUME NEW r \in Rows
                   PROVE  /\ rung'[r] <= 1 + crashes
                          /\ r \in DOMAIN round' \/ (thread'.at = "tell" /\ Cur' = r) => rung'[r] <= crashes
                          /\ /\ rows[r].there /\ rows[r].active /\ thread'.at # "ended"
                             /\ ~(thread'.at \in {"flag", "save"} /\ Cur' = r)
                             => rung'[r] <= crashes
        BY <2>1 DEF RungInv
      <3>1. crashes \in Nat /\ rung[r] \in Nat
        BY DEF RemindInv
      <3>2. CASE r = Cur
        <4>1. rung[r] <= crashes /\ rung'[r] = rung[r] + 1
          BY <2>2, <2>10, <3>2 DEF RungInv
        <4>2. r \notin DOMAIN round'
          BY <2>2, <2>9, <3>2 DEF RemindInv
        <4>3. thread'.at = "ended" \/ (thread'.at = "flag" /\ Cur' = r)
          BY <2>3, <3>2 DEF Cur
        <4> QED BY <3>1, <4>1, <4>2, <4>3
      <3>3. CASE r # Cur
        <4>1. rung'[r] = rung[r] /\ thread'.at # "tell"
          BY <2>3, <2>10, <3>3
        <4> QED BY <2>2, <2>9, <3>3, <4>1 DEF RungInv
      <3> QED BY <3>2, <3>3
    <2> QED BY <2>7, <2>11, <2>12
  <1>5. ASSUME ClearBox \/ SaveReminder PROVE TellInv' /\ ApartInv' /\ RemindInv' /\ RungInv'
    <2>1. /\ thread.at \in {"flag", "save"} /\ thread \in Awakes /\ Ringing /\ Cur \in Rows
          /\ thread.row \in ReminderRows /\ thread.row.mail \in BOOLEAN
      BY <1>5 DEF ClearBox, SaveReminder, RemindInv, Ringing, Cur, Awakes, ReminderRows
    <2>2. /\ UNCHANGED <<lastRow, now, rung, crashes>>
          /\ UNCHANGED <<stored, shown, tx, queue, mailer, notices, uses>>
      BY <1>5 DEF ClearBox, SaveReminder, Alone, noticeVars
    <2>3. object' \in {object, [object EXCEPT !.remind = FALSE]}
      BY <1>5 DEF ClearBox, SaveReminder
    <2>4. /\ \/ rows' = rows
             \/ thread.at = "save" /\ rows' = [rows EXCEPT ![Cur].active = FALSE, ![Cur].mail = thread.row.mail]
          /\ \/ thread' = Ended /\ round' = <<>> /\ rows' = rows
             \/ thread.at = "flag" /\ thread' = Awake("save", thread) /\ round' = round /\ rows' = rows
             \/ /\ thread' = Ready /\ round' = round
                /\ rows' = [rows EXCEPT ![Cur].active = FALSE, ![Cur].mail = thread.row.mail]
      BY <1>5 DEF ClearBox, SaveReminder, End
    <2>5. Awake("save", thread) \in Awakes /\ Awake("save", thread).at = "save" /\ Awake("save", thread).id = Cur
      BY <2>1 DEF Awakes, Awake, Cur
    <2>6. /\ rows' \in [Rows -> ReminderRows]
          /\ \A r \in Rows : /\ rows'[r].there = rows[r].there
                             /\ r # Cur => rows'[r] = rows[r]
          /\ thread' = Ready => ~rows'[Cur].active
      <3>1. CASE rows' = rows /\ thread' # Ready
        BY <3>1 DEF RemindInv
      <3>2. CASE rows' = [rows EXCEPT ![Cur].active = FALSE, ![Cur].mail = thread.row.mail]
        <4>1. PICK o, w : o = rows[Cur] /\ w = [o EXCEPT !.active = FALSE, !.mail = thread.row.mail]
          OBVIOUS
        <4>2. w \in ReminderRows /\ w.there = o.there /\ ~w.active
          BY <2>1, <4>1 DEF RemindInv, ReminderRows
        <4>3. rows' = [rows EXCEPT ![Cur] = w]
          BY <3>2, <4>1 DEF RemindInv
        <4> QED BY <2>1, <4>1, <4>2, <4>3 DEF RemindInv
      <3>3. thread' = Ready =>
              ~(rows' = rows) \/ rows' = [rows EXCEPT ![Cur].active = FALSE, ![Cur].mail = thread.row.mail]
        BY <2>4, <2>5
      <3> QED BY <2>4, <3>1, <3>2, <3>3
    <2>7. DOMAIN round' \subseteq DOMAIN round /\ \A r \in DOMAIN round' : round'[r] = round[r]
      <3>1. DOMAIN <<>> = {}
        OBVIOUS
      <3> QED BY <2>4, <3>1
    <2>8. /\ \/ thread'.at = "ended" \/ thread'.at = "next"
             \/ thread'.at = "save" /\ Cur' = Cur
          /\ thread' \in {Ready, Ended} \cup Awakes /\ (thread'.at = "next" => thread' = Ready)
      BY <2>4, <2>5 DEF Cur
    <2>9. RemindInv'
      <3>1. object' \in [there : BOOLEAN, step : Steps, date : Dates, remind : BOOLEAN]
        BY <2>3 DEF RemindInv
      <3>2. \A r \in Rows : rows'[r].there \/ r \in DOMAIN round' \/ (Ringing' /\ Cur' = r) => r <= lastRow'
        BY <2>1, <2>2, <2>6, <2>7, <2>8 DEF RemindInv, Ringing
      <3>3. Ringing' => Cur' \notin DOMAIN round'
        BY <2>1, <2>7, <2>8 DEF RemindInv, Ringing
      <3>4. tx[Reminding].kind = "idle"
        BY <2>1 DEF RemindInv
      <3> QED BY <2>2, <2>6, <2>7, <2>8, <3>1, <3>2, <3>3, <3>4 DEF RemindInv
    <2>10. RungInv'
      <3> SUFFICES ASSUME NEW r \in Rows
                   PROVE  /\ rung[r] <= 1 + crashes
                          /\ r \in DOMAIN round' \/ (thread'.at = "tell" /\ Cur' = r) => rung[r] <= crashes
                          /\ /\ rows'[r].there /\ rows'[r].active /\ thread'.at # "ended"
                             /\ ~(thread'.at \in {"flag", "save"} /\ Cur' = r)
                             => rung[r] <= crashes
        BY <2>2 DEF RungInv
      <3>1. CASE r # Cur
        BY <2>1, <2>6, <2>7, <2>8, <3>1 DEF RungInv
      <3>2. CASE r = Cur
        BY <2>1, <2>6, <2>7, <2>8, <3>2 DEF RungInv, RemindInv
      <3> QED BY <3>1, <3>2
    <2>11. TellInv' /\ ApartInv'
      BY <2>2, Frozen DEF TellInv
    <2> QED BY <2>9, <2>10, <2>11
  <1> QED BY <1>1, <1>2, <1>3, <1>4, <1>5 DEF ThreadNext

LEMMA TickKeeps == ASSUME RemindInv, RungInv, Tick, UNCHANGED tx PROVE RemindInv' /\ RungInv'
  <1>1. now' \in 0..2
    BY DEF Tick, RemindInv
  <1> QED BY <1>1 DEF Tick, RemindInv, RungInv, Ringing, Cur

LEMMA CrashKeeps ==
    ASSUME TellInv, RemindInv, RungInv, CrashReminders, CrashNotices PROVE RemindInv' /\ RungInv'
  <1>1. /\ thread' = Ready /\ round' = <<>> /\ crashes' = crashes + 1
        /\ UNCHANGED <<object, rows, lastRow, now, rung>>
    BY DEF CrashReminders
  <1>2. DOMAIN round' = {} /\ tx'[Reminding].kind = "idle"
    BY <1>1, IdleIs DEF CrashNotices, TellInv, Tellers
  <1>3. RemindInv'
    BY <1>1, <1>2, ThreadIs DEF RemindInv, Ringing, Cur
  <1>4. RungInv'
    BY <1>1, <1>2, ThreadIs DEF RemindInv, RungInv, Cur
  <1> QED BY <1>3, <1>4

\* Requests, chat and mails leave the reminders alone, and the thread in its
\* telling.
LEMMA RestKeeps ==
    ASSUME RemindInv, RungInv, UNCHANGED reminderVars,
           tx'[Reminding].kind # "idle" => tx[Reminding].kind # "idle"
    PROVE  RemindInv' /\ RungInv'
  BY DEF reminderVars, RemindInv, RungInv, Ringing, Cur

\* A box stays checked only beside a reminder that is to ring.
BoxedStep == Promised =>
    \/ Promised'
    \/ \E u \in CrmUsers : EditReminder(u) \/ DeleteReminder(u)
    \/ thread.at = "flag" /\ ~thread.remind
    \/ \E u \in CrmUsers : PostObject(u) /\ WritesBack(u)

LEMMA PromiseByForm == ASSUME RemindInv, PostedInv, FormNext PROVE BoxedStep
  <1> SUFFICES ASSUME Promised, ~\E u \in CrmUsers : EditReminder(u) \/ DeleteReminder(u),
                      ~\E u \in CrmUsers : PostObject(u) /\ WritesBack(u)
               PROVE  Promised'
    BY DEF BoxedStep
  <1>0. ASSUME NEW u \in CrmUsers, LoadObject(u) PROVE Promised'
    BY <1>0 DEF LoadObject, Promised, Finishing, Cur
  <1>1. ASSUME NEW u \in CrmUsers, PostObject(u) PROVE Promised'
    <2>1. PICK copy, form : copy = posted[u].copy /\ form = posted[u].form
      OBVIOUS
    <2>2. PICK new \in RemindMe(u, copy, form) : Set(new)
      BY <1>1, <2>1 DEF PostObject
    <2>3. /\ rows' = new /\ thread' = thread /\ object' = form
          /\ copy \in Forms /\ form \in Forms /\ copy.remind \in BOOLEAN
      BY <1>1, <2>1, <2>2, FormIs DEF PostObject, Set
    <2>4. SUFFICES ASSUME form.remind PROVE \E r \in Rows : new[r].there /\ new[r].active /\ ~Finishing(r)
      BY <2>3 DEF Promised, Finishing, Cur
    <2>5. CASE copy.remind
      <3>1. object.there /\ object.remind
        BY <1>1, <2>1, <2>5 DEF WritesBack
      <3>2. PICK r \in Rows : rows[r].there /\ rows[r].active /\ ~Finishing(r)
        BY <3>1 DEF Promised
      <3> QED BY <2>2, <2>3, <2>4, <2>5, <3>2, RemindMeIs
    <2>6. CASE ~copy.remind
      <3>1. PICK r \in Free : new[r].there /\ new[r].active
        BY <2>2, <2>3, <2>4, <2>6, RemindMeIs
      <3>2. r \in Rows /\ r = lastRow + 1 /\ lastRow \in Nat
        BY DEF Free, RemindInv
      <3>3. ~Finishing(r)
        BY <3>2 DEF Finishing, RemindInv, Ringing
      <3> QED BY <3>1, <3>2, <3>3
    <2> QED BY <2>5, <2>6
  <1>2. ASSUME NEW u \in CrmUsers, AddReminder(u) PROVE Promised'
    <2>1. \E r \in Free : \E w : rows' = [rows EXCEPT ![r] = w] /\ w.there /\ w.active
      <3>1. PICK r \in Free, d \in Dates :
               rows' = [rows EXCEPT ![r] = [there |-> TRUE, owner |-> u, step |-> "call",
                                            date |-> d, active |-> TRUE, mail |-> TRUE]]
        BY <1>2 DEF AddReminder, Set
      <3>2. PICK w : w = [there |-> TRUE, owner |-> u, step |-> "call",
                          date |-> d, active |-> TRUE, mail |-> TRUE]
        OBVIOUS
      <3>3. w.there /\ w.active /\ rows' = [rows EXCEPT ![r] = w]
        BY <3>1, <3>2
      <3> QED BY <3>3
    <2>2. \A q \in Rows : rows'[q] = rows[q] \/ (rows'[q].there /\ rows'[q].active)
      BY <2>1 DEF RemindInv
    <2> QED BY <1>2, <2>2 DEF AddReminder, Promised, Finishing, Cur
  <1>3. ASSUME DeleteObject PROVE Promised'
    <2>1. ~object'.there
      BY <1>3 DEF DeleteObject, RemindInv
    <2> QED BY <2>1 DEF Promised
  <1> QED BY <1>0, <1>1, <1>2, <1>3 DEF FormNext

LEMMA PromiseByThread == ASSUME RemindInv, ThreadNext PROVE BoxedStep
  <1> SUFFICES ASSUME Promised, ~(thread.at = "flag" /\ ~thread.remind) PROVE Promised'
    BY DEF BoxedStep
  <1> USE ThreadIs
  <1>1. CASE Poll \/ NextRow \/ SendReminder
    <2>1. object' = object /\ rows' = rows
      BY <1>1 DEF Poll, NextRow, SendReminder
    <2>2. \A t : Awake("flag", t).at # "save"
      BY DEF Awake
    <2>3. thread'.at # "save"
      <3>1. CASE Poll
        BY <3>1 DEF Poll
      <3>2. CASE NextRow
        <4>1. \/ thread' = Ended
              \/ \E r \in DOMAIN round :
                   thread' = [at |-> "tell", id |-> r, row |-> round[r], remind |-> object.remind]
          BY <3>2 DEF NextRow, End
        <4>2. \A r : [at |-> "tell", id |-> r, row |-> round[r], remind |-> object.remind].at # "save"
          OBVIOUS
        <4> QED BY <4>1, <4>2
      <3>3. CASE SendReminder
        BY <2>2, <3>3 DEF SendReminder, End
      <3> QED BY <1>1, <3>1, <3>2, <3>3
    <2> QED BY <2>1, <2>3 DEF Promised, Finishing
  <1>2. CASE ClearBox
    <2>1. thread.at = "flag" /\ rows' = rows /\ thread.remind
      BY <1>2 DEF ClearBox
    <2>2. ~object'.there \/ ~object'.remind
      BY <1>2, <2>1 DEF ClearBox, RemindInv
    <2> QED BY <2>2 DEF Promised
  <1>3. CASE SaveReminder
    <2>1. /\ object' = object /\ thread.at = "save" /\ thread'.at # "save"
          /\ \A r \in Rows : r # Cur => rows'[r] = rows[r]
      BY <1>3 DEF SaveReminder, End, RemindInv
    <2> QED BY <2>1 DEF Promised, Finishing
  <1> QED BY <1>1, <1>2, <1>3 DEF ThreadNext

LEMMA PromiseByRest == (UNCHANGED reminderVars) \/ Tick \/ CrashReminders => BoxedStep
  BY ThreadIs DEF BoxedStep, reminderVars, Tick, CrashReminders, Promised, Finishing, Cur
-----------------------------------------------------------------------------
(* The chat.                                                               *)

ChatRows == [owner : CrmUsers, to : (SUBSET CrmUsers) \ {{}}, unread : SUBSET CrmUsers, answers : Nat]
ChatIs(f, n) ==
    /\ DOMAIN f \subseteq 1..n
    /\ \A m \in DOMAIN f : f[m] \in ChatRows /\ f[m].unread \subseteq f[m].to
                           /\ (f[m].answers = None \/ f[m].answers \in DOMAIN f)
ChatInv ==
    /\ lastId \in Nat /\ ChatIs(chat, lastId)
    /\ \A u \in CrmUsers : tx[u].how = "one" /\ tx[u].about.kind = "edit" => tx[u].about.id \in 1..lastId

LEMMA PutChat ==
    ASSUME NEW n \in Nat, NEW k \in Nat, n <= k, NEW f, ChatIs(f, n), NEW m \in 1..k,
           NEW w \in ChatRows, w.unread \subseteq w.to, w.answers = None \/ w.answers \in DOMAIN f
    PROVE  ChatIs(Put(f, m, w), k)
  <1>1. PICK g : g = Put(f, m, w)
    OBVIOUS
  <1>2. DOMAIN g = DOMAIN f \cup {m} /\ g[m] = w /\ \A z \in DOMAIN f : z # m => g[z] = f[z]
    BY <1>1 DEF Put
  <1>3. DOMAIN g \subseteq 1..k
    BY <1>2 DEF ChatIs
  <1> QED BY <1>1, <1>2, <1>3 DEF ChatIs

\* What saving a message makes of the chat.
LEMMA MessageSaved ==
    ASSUME TellInv, ChatInv, NEW u \in CrmUsers, CommitMessage(u)
    PROVE  /\ lastId' \in Nat /\ lastId <= lastId' /\ ChatIs(chat', lastId')
           /\ \A m \in DOMAIN chat :
                \/ tx[u].about.kind = "edit"
                \/ m \in DOMAIN chat' /\ chat'[m] \in {chat[m], Answered(m, u)}
  <1>1. PICK t, m : t = tx[u].about /\ m = IF t.kind = "new" THEN lastId + 1 ELSE t.id
    OBVIOUS
  <1>2. /\ t \in Subjects /\ (t.kind = "edit" => t.id \in 1..lastId) /\ lastId \in Nat
    BY <1>1 DEF CommitMessage, Done, TellInv, Shape, ChatInv, Tellers
  <1>3. PICK f : f = IF t.kind = "new" /\ t.answers # None
                     THEN Put(chat, t.answers, Answered(t.answers, u)) ELSE chat
    OBVIOUS
  <1>4. /\ t.answers # None => t.answers \in DOMAIN chat
        /\ lastId' = IF t.kind = "new" THEN m ELSE lastId
        /\ chat' = Put(f, m, Addressed(u, t))
    BY <1>1, <1>3 DEF CommitMessage, Exists
  <1>5. lastId' \in Nat /\ lastId <= lastId' /\ m \in 1..lastId'
    BY <1>1, <1>2, <1>4 DEF Subjects
  <1>6. /\ ChatIs(f, lastId) /\ DOMAIN f = DOMAIN chat
        /\ \A z \in DOMAIN chat : f[z] = chat[z] \/ (t.kind = "new" /\ f[z] = Answered(z, u))
    <2>1. CASE t.kind = "new" /\ t.answers # None
      <3>1. PICK a : a = t.answers
        OBVIOUS
      <3>2. a \in DOMAIN chat /\ a \in 1..lastId /\ chat[a] \in ChatRows /\ chat[a].unread \subseteq chat[a].to
            /\ (chat[a].answers = None \/ chat[a].answers \in DOMAIN chat)
        BY <1>4, <2>1, <3>1 DEF ChatInv, ChatIs
      <3>3. PICK w : w = Answered(a, u)
        OBVIOUS
      <3>4. w \in ChatRows /\ w.unread \subseteq w.to /\ w.answers = chat[a].answers
        BY <3>2, <3>3 DEF Answered, ChatRows
      <3>5. f = Put(chat, a, w)
        BY <1>3, <2>1, <3>1, <3>3
      <3>6. ChatIs(Put(chat, a, w), lastId)
        BY <1>2, <3>2, <3>4, PutChat DEF ChatInv
      <3>7. DOMAIN f = DOMAIN chat /\ f[a] = w /\ \A z \in DOMAIN chat : z # a => f[z] = chat[z]
        BY <3>2, <3>5 DEF Put
      <3> QED BY <2>1, <3>3, <3>5, <3>6, <3>7
    <2>2. CASE ~(t.kind = "new" /\ t.answers # None)
      BY <1>3, <2>2 DEF ChatInv
    <2> QED BY <2>1, <2>2
  <1>7. PICK w : w = Addressed(u, t)
    OBVIOUS
  <1>8. /\ w \in ChatRows /\ w.unread \subseteq w.to
        /\ w.answers = None \/ w.answers \in DOMAIN f
    BY <1>2, <1>4, <1>6, <1>7 DEF Addressed, ChatRows, Subjects
  <1>9. ChatIs(Put(f, m, w), lastId')
    BY <1>2, <1>5, <1>6, <1>8, PutChat
  <1>10. ASSUME NEW z \in DOMAIN chat, t.kind # "edit"
         PROVE  z \in DOMAIN chat' /\ chat'[z] \in {chat[z], Answered(z, u)}
    <2>1. z # m
      BY <1>1, <1>2, <1>10 DEF ChatInv, ChatIs, Subjects
    <2>2. z \in DOMAIN chat' /\ chat'[z] = f[z]
      BY <1>4, <1>6, <2>1 DEF Put
    <2> QED BY <1>6, <2>2
  <1> QED BY <1>1, <1>4, <1>5, <1>7, <1>9, <1>10

LEMMA MessagesRead ==
    ASSUME ChatInv, NEW u \in CrmUsers, ReadMessages(u)
    PROVE  ChatIs(chat', lastId) /\ DOMAIN chat' = DOMAIN chat
           /\ \A m \in DOMAIN chat : chat'[m] \in {chat[m], Answered(m, u)}
  <1>1. DOMAIN chat' = DOMAIN chat /\ \A m \in DOMAIN chat : chat'[m] \in {chat[m], Answered(m, u)}
    BY DEF ReadMessages, Answered
  <1>2. ASSUME NEW m \in DOMAIN chat
        PROVE  /\ chat'[m] \in ChatRows /\ chat'[m].unread \subseteq chat'[m].to
               /\ chat'[m].answers = chat[m].answers
    <2>1. chat[m] \in ChatRows /\ chat[m].unread \subseteq chat[m].to
      BY DEF ChatInv, ChatIs
    <2> QED BY <1>1, <2>1 DEF Answered, ChatRows
  <1> QED BY <1>1, <1>2 DEF ChatInv, ChatIs

\* A message goes with its answers: no answer is left without it.
LEMMA MessageGone ==
    ASSUME ChatInv, NEW u \in CrmUsers, DeleteMessage(u)
    PROVE  ChatIs(chat', lastId) /\ DOMAIN chat' \subseteq DOMAIN chat
           /\ \A m \in DOMAIN chat' : chat'[m] = chat[m]
  <1>1. PICK d : chat' = Restrict(chat, DOMAIN chat \ Answers(d))
    BY DEF DeleteMessage
  <1>2. DOMAIN chat' = DOMAIN chat \ Answers(d) /\ \A m \in DOMAIN chat' : chat'[m] = chat[m]
    BY <1>1 DEF Restrict
  <1>3. ASSUME NEW a \in DOMAIN chat, chat[a].answers \in Answers(d) PROVE a \in Answers(d)
    BY <1>3 DEF Answers, WithAnswers
  <1> QED BY <1>2, <1>3 DEF ChatInv, ChatIs
-----------------------------------------------------------------------------
(* Every step keeps the invariant, and the steps are those of AlertsKept.  *)

AlertsInv == TellInv /\ ApartInv /\ RemindInv /\ RungInv /\ PostedInv /\ ChatInv

ReadStep == \A m \in DOMAIN chat : \A u \in chat[m].unread :
    Exists(m)' /\ chat'[m].owner = chat[m].owner /\ u \notin chat'[m].unread =>
       \/ ReadMessages(u) \/ CommitMessage(u)
       \/ \E v \in CrmUsers : CommitMessage(v) /\ tx[v].about.kind = "edit"
KeptStep == (\A u \in CrmUsers : Goes(u)) /\ BoxedStep /\ ReadStep
Keeps == (TellInv /\ ApartInv /\ RemindInv /\ RungInv /\ ChatInv)' /\ KeptStep

\* A step of one user, or of the thread, that leaves the chat alone keeps it.
LEMMA ChatStays ==
    ASSUME ChatInv, TellInv, UNCHANGED chatVars,
           NEW p \in Tellers, NEW t \in Tellings, tx' = [tx EXCEPT ![p] = t],
           t.how = "one" => t.about = tx[p].about /\ tx[p].how = "one"
    PROVE  ChatInv' /\ ReadStep
  <1>1. \A u \in CrmUsers : tx'[u].how = "one" => tx'[u].about = tx[u].about /\ tx[u].how = "one"
    BY DEF TellInv, Tellers
  <1> QED BY <1>1 DEF chatVars, ChatInv, ChatIs, ReadStep

LEMMA ChatSame == ASSUME ChatInv, UNCHANGED <<chatVars, tx>> PROVE ChatInv' /\ ReadStep
  BY DEF chatVars, ChatInv, ChatIs, ReadStep

LEMMA KindOfThread ==
    ASSUME TellInv, NEW u \in CrmUsers, NEW t, tx' = [tx EXCEPT ![u] = t]
    PROVE  tx'[Reminding] = tx[Reminding]
  BY NoticesAssumption DEF TellInv, Tellers

\* What a request does that is no message of the chat.
LEMMA RequestStep ==
    ASSUME AlertsInv, NEW u \in CrmUsers, UNCHANGED <<reminderVars, chatVars>>,
           \/ Notify(u) \/ Continue(u)
           \/ \E kind \in {"request", "profile"} : BeginRequest(u, kind)
    PROVE  Keeps
  <1> USE DEF AlertsInv
  <1>1. u \in Tellers /\ Idle \in Tellings /\ Idle.how = "each" /\ tx[u] \in Tellings
    BY IdleIs DEF Tellers, TellInv, Idle
  <1>2. ASSUME TellInv' /\ ApartInv', NEW t \in Tellings, tx' = [tx EXCEPT ![u] = t],
               t.how = "one" => t.about = tx[u].about /\ tx[u].how = "one",
               \A v \in CrmUsers : Goes(v)
        PROVE  Keeps
    <2>1. RemindInv' /\ RungInv'
      BY <1>2, KindOfThread, RestKeeps
    <2>2. ChatInv' /\ ReadStep
      BY <1>1, <1>2, ChatStays
    <2> QED BY <1>2, <2>1, <2>2, PromiseByRest DEF Keeps, KeptStep
  <1>3. CASE Notify(u)
    <2>0. PICK to \in (SUBSET CrmUsers) \ {{}} : \E list \in Orders(to), how \in {"each", "batch"} :
             tx' = [tx EXCEPT ![u] = [Idle EXCEPT !.kind = "notify", !.how = how,
                                                  !.todo = list, !.notice = notices + 1]]
      BY <1>3 DEF Notify
    <2>1. PICK list \in Orders(to), how \in {"each", "batch"} :
             tx' = [tx EXCEPT ![u] = [Idle EXCEPT !.kind = "notify", !.how = how,
                                                  !.todo = list, !.notice = notices + 1]]
      BY <2>0
    <2>2. PICK t : t = [Idle EXCEPT !.kind = "notify", !.how = how, !.todo = list, !.notice = notices + 1]
      OBVIOUS
    <2>3. list \in Seq(CrmUsers) /\ notices + 1 \in Nat
      <3>1. IsFiniteSet(to) /\ to \subseteq CrmUsers
        BY FS_Subset, NoticesAssumption
      <3>2. list \in Seq(to)
        BY <3>1, OrdersAre
      <3> QED BY <3>1, <3>2 DEF TellInv
    <2>4. /\ t \in Tellings /\ t.kind = "notify" /\ t.notice = notices + 1 /\ t.old = {} /\ t.how = how
          /\ DOMAIN t.writes = {}
      BY <2>2, <2>3, IdleIs DEF Tellings
    <2>5. Shape(u, t)
      BY <2>4, NoticesAssumption DEF Shape, Telling
    <2>6. notices' = notices + 1 /\ UNCHANGED <<stored, shown, queue>>
      BY <1>3 DEF Notify, mailVars
    <2>7. TellInv' /\ ApartInv'
      BY <1>1, <2>1, <2>2, <2>4, <2>5, <2>6, Told
    <2> QED BY <1>2, <2>1, <2>2, <2>4, <2>6, <2>7, StaysThere
  <1>4. CASE \E kind \in {"request", "profile"} : BeginRequest(u, kind)
    <2>1. PICK kind \in {"request", "profile"} : BeginRequest(u, kind)
      BY <1>4
    <2>2. PICK t : t = [Idle EXCEPT !.kind = kind, !.old = stored[u]]
      OBVIOUS
    <2>3. tx' = [tx EXCEPT ![u] = t] /\ UNCHANGED <<stored, shown>>
      BY <2>1, <2>2 DEF BeginRequest, TellInv, Tellers, Idle
    <2>4. t \in Tellings /\ t.how = "each"
      BY <1>1, <2>2 DEF Tellings, TellInv
    <2> QED BY <1>2, <2>1, <2>3, <2>4, Begun, StaysThere
  <1>5. CASE LoadProfile(u) \/ SaveProfile(u) \/ QueueMails(u)
    <2>1. PICK t : t = tx'[u]
      OBVIOUS
    <2>2. TellInv' /\ ApartInv'
      BY <1>1, <1>5, ProfileLoaded, ProfileSaved, MailsQueued
    <2>3. t \in Tellings
      BY <1>1, <2>1, <2>2 DEF TellInv
    <2>4. /\ tx' = [tx EXCEPT ![u] = t] /\ t.how = tx[u].how /\ t.about = tx[u].about
          /\ UNCHANGED <<stored, shown>>
      BY <1>1, <1>5, <2>1 DEF LoadProfile, SaveProfile, QueueMails, TellInv, Tellings
    <2> QED BY <1>2, <2>2, <2>3, <2>4, StaysThere
  <1>6. CASE EndNotify(u)
    <2>1. Commit(u) /\ Telling(tx[u])
      BY <1>6 DEF EndNotify, Telling
    <2>2. tx' = [tx EXCEPT ![u] = Idle]
      BY <2>1 DEF Commit
    <2> QED BY <1>1, <1>2, <2>1, <2>2, Committed, CommitGoes
  <1>7. CASE BreakDeadlock(u)
    <2>1. tx' = [tx EXCEPT ![u] = Idle] /\ UNCHANGED <<stored, shown, notices, queue>>
      BY <1>7 DEF BreakDeadlock, mailVars
    <2>2. \A v \in CrmUsers : \A n \in stored'[v] \cup shown'[v] : Spread(n)
      BY <2>1, SpreadIn
    <2>3. TellInv' /\ ApartInv'
      BY <1>1, <2>1, <2>2, GivenUp DEF TellInv
    <2> QED BY <1>1, <1>2, <2>1, <2>3, StaysThere
  <1>8. CASE ShowMessages(u) \/ NoMessages(u) \/ SaveOwnProfile(u)
    <2>1. tx' = [tx EXCEPT ![u] = Idle]
      BY <1>8 DEF ShowMessages, NoMessages, SaveOwnProfile
    <2> QED BY <1>1, <1>2, <1>8, <2>1, OwnList, OwnGoes
  <1> QED BY <1>3, <1>4, <1>5, <1>6, <1>7, <1>8 DEF Continue

LEMMA MailerStep ==
    ASSUME AlertsInv, MailerNext, UNCHANGED <<reminderVars, chatVars>> PROVE Keeps
  <1> USE DEF AlertsInv
  <1>1. UNCHANGED <<stored, shown, tx, notices>> /\ queue' = Tail(queue) /\ queue # <<>>
    BY DEF MailerNext, Send, DropMail
  <1>2. queue' \in Seq(Mails)
    BY <1>1 DEF TellInv
  <1>3. TellInv' /\ ApartInv'
    BY <1>1, <1>2, Frozen
  <1>4. RemindInv' /\ RungInv'
    BY <1>1, RestKeeps
  <1>5. ChatInv' /\ ReadStep
    BY <1>1, ChatSame
  <1> QED BY <1>1, <1>3, <1>4, <1>5, StaysThere, PromiseByRest DEF Keeps, KeptStep

LEMMA RemindStep ==
    ASSUME AlertsInv, Remind, UNCHANGED chatVars PROVE Keeps
  <1> USE DEF AlertsInv
  <1>1. PICK p : p = Reminding
    OBVIOUS
  <1>2. p \in Tellers /\ \A u \in CrmUsers : u # p
    BY <1>1, NoticesAssumption DEF Tellers
  <1>3. ASSUME \A u \in CrmUsers : tx'[u] = tx[u] PROVE ChatInv' /\ ReadStep
    BY <1>3 DEF chatVars, ChatInv, ChatIs, ReadStep
  <1>4. CASE ThreadNext
    <2>1. \A u \in CrmUsers : tx'[u] = tx[u]
      BY <1>1, <1>2, <1>4 DEF ThreadNext, Poll, NextRow, SendReminder, ClearBox, SaveReminder, Alone,
                              noticeVars, TellInv, Tellers
    <2>2. UNCHANGED <<stored, shown>>
      BY <1>4 DEF ThreadNext, Poll, NextRow, SendReminder, ClearBox, SaveReminder, Alone, noticeVars
    <2> QED BY <1>3, <1>4, <2>1, <2>2, ThreadKeeps, PromiseByThread, StaysThere DEF Keeps, KeptStep
  <1>5. CASE (LoadProfile(Reminding) \/ SaveAlone) /\ UNCHANGED reminderVars
    <2>1. TellInv' /\ ApartInv'
      BY <1>1, <1>2, <1>5, ProfileLoaded, SavedAlone
    <2>2. \A u \in CrmUsers : tx'[u] = tx[u]
      BY <1>1, <1>2, <1>5 DEF LoadProfile, SaveAlone, TellInv, Tellers
    <2>3. \A u \in CrmUsers : Goes(u)
      <3>1. CASE LoadProfile(Reminding)
        BY <3>1, StaysThere DEF LoadProfile
      <3>2. CASE SaveAlone
        BY <3>2, AloneGoes
      <3> QED BY <1>5, <3>1, <3>2
    <2>4. tx[Reminding].kind # "idle"
      BY <1>5 DEF LoadProfile, SaveAlone
    <2>5. RemindInv' /\ RungInv'
      BY <1>5, <2>4, RestKeeps
    <2> QED BY <1>3, <1>5, <2>1, <2>2, <2>3, <2>5, PromiseByRest DEF Keeps, KeptStep
  <1> QED BY <1>4, <1>5 DEF Remind

LEMMA ChatStep ==
    ASSUME AlertsInv, ChatNext, UNCHANGED reminderVars PROVE Keeps
  <1> USE DEF AlertsInv
  <1>1. PICK u \in CrmUsers : \/ PostMessage(u) \/ EditMessage(u) \/ CommitMessage(u)
                              \/ AbortMessage(u) \/ ReadMessages(u) \/ DeleteMessage(u)
    BY DEF ChatNext
  <1>2. u \in Tellers /\ Idle.how = "each" /\ BoxedStep
    BY PromiseByRest DEF Tellers, Idle
  <1>3. CASE PostMessage(u) \/ EditMessage(u)
    <2>1. \E kind \in {"new", "edit"}, m \in Nat, answers \in Nat, to \in SUBSET CrmUsers :
             BeginPost(u, kind, to, m, answers) /\ (kind = "edit" => m \in 1..lastId)
      <3>1. CASE PostMessage(u)
        <4>1. PICK answer \in {None} \cup Visible(u) : \E to \in SUBSET Addressees(u, answer) :
                 BeginPost(u, "new", to, None, answer)
          BY <3>1 DEF PostMessage
        <4>2. answer \in Nat /\ None \in Nat
          BY <4>1 DEF Visible, ChatInv, ChatIs, None
        <4>3. Addressees(u, answer) \subseteq CrmUsers
          BY <4>1, ChatAssumption DEF Addressees, Visible, ChatInv, ChatIs, ChatRows
        <4> QED BY <4>1, <4>2, <4>3
      <3>2. CASE EditMessage(u)
        <4>1. PICK m \in Visible(u) : \E to \in SUBSET Addressees(u, None) :
                 BeginPost(u, "edit", to, m, chat[m].answers)
          BY <3>2 DEF EditMessage
        <4>2. m \in 1..lastId /\ m \in Nat /\ chat[m].answers \in Nat
          BY <4>1 DEF Visible, ChatInv, ChatIs, ChatRows
        <4>3. Addressees(u, None) \subseteq CrmUsers
          BY ChatAssumption DEF Addressees
        <4> QED BY <4>1, <4>2, <4>3
      <3> QED BY <1>3, <3>1, <3>2
    <2>2. PICK kind \in {"new", "edit"}, m \in Nat, answers \in Nat, to \in SUBSET CrmUsers :
             BeginPost(u, kind, to, m, answers) /\ (kind = "edit" => m \in 1..lastId)
      BY <2>1
    <2>3. PICK a : a = [kind |-> kind, to |-> to, id |-> m, answers |-> answers]
      OBVIOUS
    <2>4. PICK list \in Orders(to) :
             tx' = [tx EXCEPT ![u] = [Idle EXCEPT !.kind = "notify", !.how = "one", !.todo = list,
                                                  !.notice = notices + 1, !.about = a]]
      BY <2>2, <2>3 DEF BeginPost
    <2>5. PICK t : t = [Idle EXCEPT !.kind = "notify", !.how = "one", !.todo = list,
                                    !.notice = notices + 1, !.about = a]
      OBVIOUS
    <2>6. /\ notices' = notices + 1 /\ UNCHANGED <<stored, shown, chat, lastId, queue>> /\ to # {}
      BY <2>2 DEF BeginPost, mailVars
    <2>7. list \in Seq(CrmUsers) /\ notices + 1 \in Nat
      <3>1. IsFiniteSet(to)
        BY FS_Subset, NoticesAssumption
      <3>2. list \in Seq(to)
        BY <3>1, OrdersAre
      <3> QED BY <3>2 DEF TellInv
    <2>8. a \in Subjects /\ a.kind = kind /\ a.id = m
      BY <2>3, <2>6 DEF Subjects
    <2>9. /\ t \in Tellings /\ t.kind = "notify" /\ t.notice = notices + 1 /\ t.old = {}
          /\ DOMAIN t.writes = {} /\ t.how = "one" /\ t.about = a
      BY <2>5, <2>7, <2>8, IdleIs DEF Tellings
    <2>10. Shape(u, t)
      BY <2>8, <2>9, NoticesAssumption DEF Shape, Telling
    <2>11. TellInv' /\ ApartInv'
      BY <1>2, <2>4, <2>5, <2>6, <2>9, <2>10, Told
    <2>12. ChatInv' /\ ReadStep
      <3>1. \A v \in CrmUsers : tx'[v] = IF v = u THEN t ELSE tx[v]
        BY <2>4, <2>5 DEF TellInv, Tellers
      <3> QED BY <2>2, <2>6, <2>8, <2>9, <3>1 DEF ChatInv, ChatIs, ReadStep
    <2>13. RemindInv' /\ RungInv'
      BY <2>4, KindOfThread, RestKeeps
    <2> QED BY <1>2, <2>6, <2>11, <2>12, <2>13, StaysThere DEF Keeps, KeptStep
  <1>4. CASE CommitMessage(u)
    <2>1. Commit(u) /\ Telling(tx[u]) /\ tx' = [tx EXCEPT ![u] = Idle]
      BY <1>4 DEF CommitMessage, Done, Telling, Commit
    <2>2. TellInv' /\ ApartInv' /\ \A v \in CrmUsers : Goes(v)
      BY <1>2, <2>1, Committed, CommitGoes
    <2>3. RemindInv' /\ RungInv'
      BY <2>1, KindOfThread, RestKeeps
    <2>4. /\ lastId' \in Nat /\ lastId <= lastId' /\ ChatIs(chat', lastId')
          /\ \A m \in DOMAIN chat : \/ tx[u].about.kind = "edit"
                                    \/ m \in DOMAIN chat' /\ chat'[m] \in {chat[m], Answered(m, u)}
      BY <1>4, MessageSaved
    <2>5. \A v \in CrmUsers : tx'[v] = IF v = u THEN Idle ELSE tx[v]
      BY <2>1 DEF TellInv, Tellers
    <2>6. ChatInv'
      BY <1>2, <2>4, <2>5 DEF ChatInv
    <2>7. ReadStep
      BY <1>4, <2>4 DEF ReadStep, Answered, ChatInv, ChatIs, ChatRows
    <2> QED BY <1>2, <2>2, <2>3, <2>6, <2>7 DEF Keeps, KeptStep
  <1>5. CASE AbortMessage(u)
    <2>1. tx' = [tx EXCEPT ![u] = Idle] /\ UNCHANGED <<stored, shown, notices, queue, chat, lastId>>
      BY <1>5 DEF AbortMessage, mailVars
    <2>2. \A v \in CrmUsers : \A n \in stored'[v] \cup shown'[v] : Spread(n)
      BY <2>1, SpreadIn
    <2>3. TellInv' /\ ApartInv'
      BY <1>2, <2>1, <2>2, GivenUp DEF TellInv
    <2>4. RemindInv' /\ RungInv'
      BY <2>1, KindOfThread, RestKeeps
    <2>5. ChatInv' /\ ReadStep
      BY <1>2, <2>1, IdleIs, ChatStays DEF chatVars
    <2> QED BY <1>2, <2>1, <2>3, <2>4, <2>5, StaysThere DEF Keeps, KeptStep
  <1>6. CASE ReadMessages(u) \/ DeleteMessage(u)
    <2>1. UNCHANGED <<lastId, stored, shown, tx, queue, mailer, notices, uses>>
      BY <1>6 DEF ReadMessages, DeleteMessage, noticeVars
    <2>2. ChatIs(chat', lastId)
      BY <1>6, MessagesRead, MessageGone
    <2>3. \/ ReadMessages(u) /\ \A m \in DOMAIN chat : chat'[m] \in {chat[m], Answered(m, u)}
          \/ \A m \in DOMAIN chat' : chat'[m] = chat[m]
      BY <1>6, MessagesRead, MessageGone
    <2>4. ChatInv' /\ ReadStep
      BY <2>1, <2>2, <2>3 DEF ChatInv, ReadStep, Exists, Answered, ChatIs, ChatRows
    <2>5. TellInv' /\ ApartInv'
      BY <2>1, Frozen DEF TellInv
    <2>6. RemindInv' /\ RungInv'
      BY <2>1, RestKeeps
    <2> QED BY <1>2, <2>1, <2>4, <2>5, <2>6, StaysThere DEF Keeps, KeptStep
  <1> QED BY <1>1, <1>3, <1>4, <1>5, <1>6

LEMMA FormStep ==
    ASSUME AlertsInv, FormNext, UNCHANGED <<stored, shown, tx, queue, mailer, notices, chatVars>>
    PROVE  Keeps
  <1> USE DEF AlertsInv
  <1>1. TellInv' /\ ApartInv'
    BY Frozen DEF TellInv
  <1>2. RemindInv' /\ RungInv'
    BY FormsKeep
  <1>3. ChatInv' /\ ReadStep
    BY ChatSame
  <1> QED BY <1>1, <1>2, <1>3, StaysThere, PromiseByForm DEF Keeps, KeptStep

LEMMA TickStep == ASSUME AlertsInv, Tick, UNCHANGED <<noticeVars, chatVars>> PROVE Keeps
  <1> USE DEF AlertsInv
  <1>1. UNCHANGED <<stored, shown, tx, queue, notices>>
    BY DEF noticeVars
  <1>2. TellInv' /\ ApartInv'
    BY <1>1, Frozen DEF TellInv
  <1>3. RemindInv' /\ RungInv'
    BY <1>1, TickKeeps
  <1>4. ChatInv' /\ ReadStep
    BY <1>1, ChatSame
  <1> QED BY <1>1, <1>2, <1>3, <1>4, StaysThere, PromiseByRest DEF Keeps, KeptStep

LEMMA CrashStep == ASSUME AlertsInv, CrashAlerts PROVE Keeps
  <1> USE DEF AlertsInv, CrashAlerts
  <1>1. TellInv' /\ ApartInv'
    BY Died
  <1>2. RemindInv' /\ RungInv'
    BY CrashKeeps
  <1>3. ChatInv' /\ ReadStep
    <2>1. \A u \in CrmUsers : tx'[u].how = "each"
      BY DEF CrashNotices, TellInv, Tellers, Idle
    <2>2. \A u \in CrmUsers : tx'[u].how # "one"
      BY <2>1
    <2> QED BY <2>2 DEF chatVars, ChatInv, ChatIs, ReadStep
  <1>4. UNCHANGED <<stored, shown>>
    BY DEF CrashNotices
  <1> QED BY <1>1, <1>2, <1>3, <1>4, StaysThere, PromiseByRest DEF Keeps, KeptStep

LEMMA NoStep == ASSUME AlertsInv, UNCHANGED alertVars PROVE Keeps
  <1> USE DEF AlertsInv
  <1>1. UNCHANGED <<stored, shown, tx, queue, notices>> /\ UNCHANGED reminderVars /\ UNCHANGED chatVars
    BY DEF alertVars, noticeVars
  <1>2. TellInv' /\ ApartInv'
    BY <1>1, Frozen DEF TellInv
  <1>3. RemindInv' /\ RungInv'
    BY <1>1, RestKeeps
  <1>4. ChatInv' /\ ReadStep
    BY <1>1, ChatSame
  <1> QED BY <1>1, <1>2, <1>3, <1>4, StaysThere, PromiseByRest DEF Keeps, KeptStep

LEMMA AlertsKeep == ASSUME AlertsInv, [NextAlerts]_alertVars PROVE Keeps
  <1>1. CASE NoticesNext /\ UNCHANGED <<reminderVars, chatVars>>
    <2>1. CASE MailerNext
      BY <1>1, <2>1, MailerStep
    <2>2. CASE \E u \in CrmUsers : \/ Notify(u) \/ Continue(u)
                                   \/ \E kind \in {"request", "profile"} : BeginRequest(u, kind)
      BY <1>1, <2>2, RequestStep
    <2> QED BY <1>1, <2>1, <2>2 DEF NoticesNext
  <1>2. CASE Remind /\ UNCHANGED chatVars
    BY <1>2, RemindStep
  <1>3. CASE FormNext /\ UNCHANGED <<stored, shown, tx, queue, mailer, notices, chatVars>>
    BY <1>3, FormStep
  <1>4. CASE Tick /\ UNCHANGED <<noticeVars, chatVars>>
    BY <1>4, TickStep
  <1>5. CASE ChatNext /\ UNCHANGED reminderVars
    BY <1>5, ChatStep
  <1>6. CASE CrashAlerts
    BY <1>6, CrashStep
  <1>7. CASE UNCHANGED alertVars
    BY <1>7, NoStep
  <1> QED BY <1>1, <1>2, <1>3, <1>4, <1>5, <1>6, <1>7 DEF NextAlerts

LEMMA AlertsBegin == ASSUME InitAlerts PROVE AlertsInv
  <1> USE DEF InitAlerts
  <1>1. DOMAIN <<>> = {}
    OBVIOUS
  <1>2. \A p \in Tellers : tx[p] = Idle
    BY DEF InitNotices, Tellers
  <1>3. TellInv
    <2>1. tx \in [Tellers -> Tellings] /\ queue \in Seq(Mails) /\ notices \in Nat
      BY IdleIs DEF InitNotices, Tellers
    <2>2. \A p \in Tellers : Shape(p, tx[p])
      BY <1>2, IdleIs
    <2> QED BY <2>1, <2>2 DEF InitNotices, TellInv
  <1>4. ApartInv
    <2>1. \A n : ~Spread(n)
      BY <1>2, IdleIs DEF InitNotices, Spread
    <2>2. \A p \in Tellers : ~Telling(tx[p]) /\ tx[p].notice <= notices
      BY <1>2, IdleIs DEF InitNotices, Telling
    <2> QED BY <2>1, <2>2 DEF ApartInv
  <1>5. RemindInv /\ RungInv
    <2>1. /\ object \in [there : BOOLEAN, step : Steps, date : Dates, remind : BOOLEAN]
          /\ rows \in [Rows -> ReminderRows] /\ lastRow \in Nat /\ now \in 0..2
          /\ rung \in [Rows -> Nat] /\ crashes \in Nat
          /\ \A r \in Rows : ~rows[r].there /\ rung[r] = 0
      BY NoRowIs DEF InitReminders, Steps, Dates
    <2>2. thread = Ready /\ DOMAIN round = {} /\ crashes = 0
      BY <1>1 DEF InitReminders
    <2>3. tx[Reminding].kind = "idle"
      BY <1>2, IdleIs DEF Tellers
    <2>4. RemindInv
      BY <2>1, <2>2, <2>3, ThreadIs DEF RemindInv, Ringing
    <2>5. RungInv
      BY <2>1, <2>2, ThreadIs DEF RungInv
    <2> QED BY <2>4, <2>5
  <1>6. ChatInv
    <2>1. \A u \in CrmUsers : tx[u].how # "one"
      BY <1>2 DEF Tellers, Idle
    <2> QED BY <1>1, <2>1 DEF InitChat, ChatInv, ChatIs
  <1>7. PostedInv
    BY DEF InitReminders, PostedInv
  <1> QED BY <1>3, <1>4, <1>5, <1>6, <1>7 DEF AlertsInv

LEMMA AlertsAreSound == ASSUME AlertsInv PROVE AlertsSound
  <1> USE DEF AlertsInv
  <1>1. AlertsTypeOK
    <2>1. \A u \in CrmUsers : stored[u] \cup shown[u] \subseteq 1..notices
      <3> SUFFICES ASSUME NEW u \in CrmUsers, NEW n \in stored[u] \cup shown[u] PROVE n \in 1..notices
        OBVIOUS
      <3>1. n \in Nat /\ notices \in Nat
        BY DEF TellInv
      <3>2. n <= notices /\ n # 0
        BY SpreadIn DEF ApartInv
      <3> QED BY <3>1, <3>2
    <2>2. \A p \in DOMAIN tx : /\ tx[p].kind \in {"idle", "notify", "append", "told", "request", "profile"}
                               /\ DOMAIN tx[p].writes \subseteq CrmUsers
      BY WritesAre DEF TellInv, Tellings
    <2>3. \A i \in DOMAIN queue : queue[i].to \subseteq CrmUsers
      <3> SUFFICES ASSUME NEW i \in DOMAIN queue PROVE queue[i].to \subseteq CrmUsers
        OBVIOUS
      <3>1. queue[i] \in Mails
        BY DEF TellInv
      <3> QED BY <3>1 DEF Mails
    <2>4. /\ object \in [there : BOOLEAN, step : Steps, date : Dates, remind : BOOLEAN]
          /\ \A r \in Rows : rows[r] \in ReminderRows
          /\ thread.at \in {"next", "tell", "flag", "save", "ended"}
          /\ DOMAIN round \subseteq Rows /\ now \in 0..2
      BY ThreadIs DEF RemindInv
    <2>5. \A m \in DOMAIN chat : chat[m].unread \subseteq CrmUsers /\ chat[m].to # {}
      BY DEF ChatInv, ChatIs, ChatRows
    <2>6. ASSUME NEW u \in CrmUsers, posted[u].on PROVE posted[u].copy.there /\ posted[u].form.there
      <3>1. ~NoForm.on
        BY DEF NoForm
      <3>2. posted[u] \in [on : {TRUE}, copy : Forms, form : Forms]
        BY <2>6, <3>1 DEF PostedInv
      <3> QED BY <3>2 DEF Forms
    <2> QED BY <2>1, <2>2, <2>3, <2>4, <2>5, <2>6 DEF AlertsTypeOK, ReminderRows
  <1>2. RungOnce
    BY DEF RungInv, RungOnce
  <1>3. UnreadVisible /\ AnswersKept
    BY DEF ChatInv, ChatIs, UnreadVisible, AnswersKept, Exists
  <1> QED BY <1>1, <1>2, <1>3 DEF AlertsSound

\* Whatever requests, threads and crashes do: a reminder rings once for every
\* time it is set, or again for a crash; nobody has unread messages that are
\* not addressed to him, and no answer is left without its question.
THEOREM AlertsAlwaysSound == AlertsSpec => []AlertsSound
  <1>1. AlertsInv /\ [NextAlerts]_alertVars => AlertsInv'
    BY AlertsKeep, PostedKeeps DEF Keeps, AlertsInv
  <1>2. InitAlerts => AlertsInv
    BY AlertsBegin
  <1>3. AlertsInv => AlertsSound
    BY AlertsAreSound
  <1> QED BY <1>1, <1>2, <1>3, PTL DEF AlertsSpec

\* A message of a profile, a mail, a promised reminder and an unread mark vanish
\* only by the step that is meant to take them, or by a list or an object that
\* was loaded before and is saved now.
THEOREM NothingIsForgotten == AlertsSpec => AlertsKept
  <1>1. AlertsInv /\ [NextAlerts]_alertVars => AlertsInv'
    BY AlertsKeep, PostedKeeps DEF Keeps, AlertsInv
  <1>2. InitAlerts => AlertsInv
    BY AlertsBegin
  <1> DEFINE Messages == \A u \in CrmUsers : Goes(u)
             Mailed == \A u \in CrmUsers : QueueMails(u) /\ tx[u].how # "one" =>
                         LET new == SubSeq(queue', Len(queue) + 1, Len(queue'))
                         IN /\ \A v \in ToSet(tx[u].told) :
                                 \E i \in DOMAIN new : v \in new[i].to /\ new[i].code = Language[v]
                            /\ \A i, j \in DOMAIN new : i # j => new[i].to \cap new[j].to = {}
  <1>3. AlertsInv /\ [NextAlerts]_alertVars => Messages /\ BoxedStep /\ ReadStep
    BY AlertsKeep DEF Keeps, KeptStep
  <1>4. AlertsInv => Mailed
    BY MailsGo DEF AlertsInv
  <1>5. AlertsSpec => [][Messages /\ Mailed /\ BoxedStep /\ ReadStep]_alertVars
    <2> HIDE DEF Messages, Mailed
    <2> QED BY <1>1, <1>2, <1>3, <1>4, PTL DEF AlertsSpec
  <1>6. [Messages /\ Mailed /\ BoxedStep /\ ReadStep]_alertVars =>
          /\ [Messages]_alertVars /\ [Mailed]_alertVars /\ [BoxedStep]_alertVars /\ [ReadStep]_alertVars
    OBVIOUS
  <1>7. AlertsSpec => MessagesKept
    BY <1>5, PTL DEF MessagesKept, Goes
  <1>8. AlertsSpec => MailedOnce
    BY <1>5, PTL DEF MailedOnce
  <1>9. AlertsSpec => PromiseKept
    BY <1>5, PTL DEF PromiseKept, BoxedStep
  <1>10. AlertsSpec => ReadByReader
    BY <1>5, PTL DEF ReadByReader, ReadStep
  <1> QED BY <1>7, <1>8, <1>9, <1>10 DEF AlertsKept
=============================================================================
