---------------------------- MODULE OutboxProofs ----------------------------
(***************************************************************************)
(* Proofs about Outbox, and then about Snapshots and Lists.  What the CRM  *)
(* says of a mail, of its files and of the token of an account is so at    *)
(* the mail server, on the disk and at the provider, for any users, mails, *)
(* files and number of forms.  Every department has one snapshot of each   *)
(* month, for any departments, months and changes of the clocks.  A list   *)
(* shows what its selected choices say, for any users, roles and rows.     *)
(*                                                                         *)
(* The inductive invariant OutboxInv adds to the properties what a form    *)
(* that is open keeps: which rows it has locked, whose files it deletes or *)
(* ticks, and what it knows of the mail: that the server has taken it if   *)
(* its copy of the row says so, and with which text and files if the       *)
(* server has answered this very form.  SnapshotsInv says at which hour a  *)
(* thread that sleeps, saves or has saved is there, and when the rows of   *)
(* the month can have been made.                                           *)
(***************************************************************************)
EXTENDS Outbox, Snapshots, Lists, FiniteSetTheorems, WellFoundedInduction, TLAPS

-----------------------------------------------------------------------------
(* The parts of the invariant.                                             *)

MailRows == [owner : Users, text : Texts, deal : BOOLEAN, ticket : BOOLEAN,
             sent : BOOLEAN, incoming : BOOLEAN, live : BOOLEAN]
Holders(n) == {TheDeal} \cup {Mail(m) : m \in 1..n}
FileRows(n) == [of : Holders(n), path : Paths, on : BOOLEAN, live : BOOLEAN]

MailsInv == mails \in Seq(MailRows) /\ Len(mails) <= MaxMails
FilesInv == /\ files \in Seq(FileRows(Len(mails))) /\ Len(files) <= MaxFiles
            /\ disk \subseteq Paths /\ torn \subseteq Paths
FlowInv == workflow \subseteq 1..Len(mails) /\ undone \subseteq 1..Len(mails)
CopyInv == copying \in [Users -> [m : 0..Len(mails), left : Seq(Paths)]]

FormRows(n, k) ==
    [step : {"loaded", "saved", "sent", "done"}, what : {"mail", "deal"}, m : 0..n,
     row : MailRows \cup {<<>>}, gone : BOOLEAN, del : SUBSET (1..k), boxes : SUBSET (1..k),
     on : BOOLEAN, joins : BOOLEAN, send : BOOLEAN, answer : BOOLEAN, seen : SUBSET (1..n),
     log : SUBSET (1..n), locks : SUBSET Holders(n)]
\* A form that has saved something holds the lock of its row, and that of the
\* deal from its entry in the workflow on.
Locked(t) ==
    /\ t.step = "loaded" => t.locks = {}
    /\ t.step # "loaded" /\ t.what = "deal" => t.locks = {TheDeal} /\ t.log = t.seen
    /\ t.step # "loaded" /\ t.what = "mail" =>
         /\ t.m # 0 /\ Mail(t.m) \in t.locks /\ t.locks \subseteq {Mail(t.m), TheDeal}
         /\ TheDeal \in t.locks => t.log = t.seen \cup {t.m} /\ t.step = "done"
    /\ t.what = "mail" => t.row \in MailRows /\ (t.m = 0 => ~t.row.sent)
    /\ t.what = "deal" => t.step \in {"loaded", "saved"} /\ ~t.send /\ ~t.gone /\ t.boxes = {}
\* It ticks files of its mail, and deletes those and files of the deal.
Touched(t) ==
    /\ \A i \in t.boxes : files[i].of = Mail(t.m) /\ i \notin t.del
    /\ \A i \in t.del : \/ files[i].of = Mail(t.m) /\ t.what = "mail"
                        \/ files[i].of = TheDeal /\ (t.step # "loaded" \/ t.what = "deal")
    /\ t.gone => t.boxes = {}
Delivered(m) == \E o \in out : o.m = m
TakenAs(t, o) ==
    /\ o.m = t.m /\ o.text = t.row.text
    /\ o.whole => o.paths = Attachments(t) /\ \A v \in Users : copying[v].m # t.m
\* What it knows of the mail, which has no entry yet when it joins the deal.
Answers(t) ==
    /\ t.what = "mail" /\ t.row.sent =>
          Delivered(t.m) /\ (t.row.deal /\ ~t.joins => t.m \in workflow \cup undone)
    /\ t.joins => t.what = "mail"
    /\ t.answer => /\ t.step \in {"sent", "done"} /\ t.what = "mail"
                   /\ \E o \in out : TakenAs(t, o)
                   /\ t.step = "done" /\ t.row.deal => TheDeal \in t.locks
    /\ t.step = "sent" => t.answer
AForm(t) == /\ t \in FormRows(Len(mails), Len(files))
            /\ Locked(t) /\ Touched(t) /\ Answers(t)
FormsInv == DOMAIN tx = Users /\ \A u \in Users : \A t \in {tx[u]} \ {NoForm} : AForm(t)
LocksInv == \A u, v \in Users : u # v => tx[u].locks \cap tx[v].locks = {}

Account == [main : BOOLEAN, token : Int]
AccessInv == /\ account \in Account /\ visit \in Account /\ form \in Account
             /\ mailer \in Account /\ given \in Nat /\ stale \in BOOLEAN /\ TokenKept

OutboxInv ==
    /\ MailsInv /\ FilesInv /\ FlowInv /\ CopyInv
    /\ FormsInv /\ LocksInv /\ AccessInv
    /\ SentDelivered /\ Logged /\ FilesThere
-----------------------------------------------------------------------------
(* Sequences of the elements of a set, and rows of files.                  *)

LEMMA Listing ==
    ASSUME NEW S, IsFiniteSet(S)
    PROVE  /\ SetToSeq(S) \in Seq(S) /\ Len(SetToSeq(S)) = Cardinality(S)
           /\ \A x \in S : \E i \in 1..Len(SetToSeq(S)) : SetToSeq(S)[i] = x
<1>1. Cardinality(S) \in Nat
  BY FS_CardinalityType
<1>2. PICK f \in [1..Cardinality(S) -> S] :
           /\ \A a, b \in 1..Cardinality(S) : f[a] = f[b] => a = b
  BY FS_CardinalityType DEF ExistsBijection, Bijection, Injection, IsInjective
<1>3. IsInjective(f)
  BY <1>2 DEF IsInjective
<1>4. SetToSeq(S) \in [1..Cardinality(S) -> S] /\ IsInjective(SetToSeq(S))
  BY <1>2, <1>3 DEF SetToSeq
<1> DEFINE s == SetToSeq(S)
<1>5. s \in Seq(S) /\ Len(s) = Cardinality(S)
  BY <1>1, <1>4
<1>6. s \in Injection(1..Cardinality(S), S)
  BY <1>4 DEF Injection, IsInjective
<1>7. Cardinality(1..Cardinality(S)) = Cardinality(S)
  <2>1. 1 \in Int /\ Cardinality(S) \in Int
    BY <1>1
  <2>2. Cardinality(1..Cardinality(S)) = IF 1 > Cardinality(S) THEN 0 ELSE Cardinality(S) - 1 + 1
    BY <2>1, FS_Interval
  <2> QED BY <2>2, <1>1
<1>8. s \in Surjection(1..Cardinality(S), S)
  BY <1>6, <1>7, FS_Injection
<1> QED BY <1>5, <1>8 DEF Surjection

LEMMA Ordering ==
    ASSUME NEW S, IsFiniteSet(S), NEW s \in SetToSeqs(S)
    PROVE  s \in Seq(S)
BY FS_CardinalityType DEF SetToSeqs

LEMMA ImageCount ==
    ASSUME NEW S, IsFiniteSet(S), NEW lines
    PROVE  /\ IsFiniteSet({File(TheDeal, lines[i].path, TRUE) : i \in S})
           /\ Cardinality({File(TheDeal, lines[i].path, TRUE) : i \in S}) \in Nat
           /\ Cardinality({File(TheDeal, lines[i].path, TRUE) : i \in S}) <= Cardinality(S)
<1> DEFINE T == {File(TheDeal, lines[i].path, TRUE) : i \in S}
           f == [i \in S |-> File(TheDeal, lines[i].path, TRUE)]
<1>1. f \in Surjection(S, T)
  BY DEF Surjection
<1> HIDE DEF f, T
<1>2. IsFiniteSet(T) /\ Cardinality(T) <= Cardinality(S)
  BY <1>1, FS_Surjection
<1>3. Cardinality(T) \in Nat
  BY <1>2, FS_CardinalityType
<1> QED BY <1>2, <1>3 DEF T

LEMMA FormRange ==
    ASSUME NEW n \in Nat, NEW k \in Nat, NEW n2 \in Nat, NEW k2 \in Nat, n <= n2, k <= k2
    PROVE  /\ Holders(n) \subseteq Holders(n2)
           /\ FormRows(n, k) \subseteq FormRows(n2, k2)
           /\ FileRows(n) \subseteq FileRows(n2)
<1>1. 1..n \subseteq 1..n2 /\ 1..k \subseteq 1..k2 /\ 0..n \subseteq 0..n2
  OBVIOUS
<1>2. Holders(n) \subseteq Holders(n2)
  BY <1>1 DEF Holders
<1>3. FileRows(n) \subseteq FileRows(n2)
  BY <1>2 DEF FileRows
<1>4. ASSUME NEW t \in FormRows(n, k) PROVE t \in FormRows(n2, k2)
  <2>1. /\ t.m \in 0..n2 /\ t.del \in SUBSET (1..k2) /\ t.boxes \in SUBSET (1..k2)
        /\ t.seen \in SUBSET (1..n2) /\ t.log \in SUBSET (1..n2) /\ t.locks \in SUBSET Holders(n2)
    BY <1>1, <1>2, <1>4 DEF FormRows
  <2> QED BY <2>1, <1>4 DEF FormRows
<1> QED BY <1>2, <1>3, <1>4

\* The rows of files after a form has been saved.
Rewritten(n, lines, T, D, on, new) ==
    /\ new \in Seq(FileRows(n))
    /\ Len(lines) <= Len(new) /\ Len(new) <= Len(lines) + Cardinality(T)
    /\ \A i \in 1..Len(lines) :
         /\ new[i].of = lines[i].of /\ new[i].path = lines[i].path
         /\ new[i].live = (i \notin D /\ (lines[i].live \/ i \in T))
         /\ i \notin D => new[i].on = (IF i \in T THEN on ELSE lines[i].on)
         /\ i \in D => new[i].live = FALSE
    /\ \A i \in Len(lines) + 1..Len(new) : new[i].of = TheDeal /\ new[i].live
    /\ on => \A i \in T : \E j \in Len(lines) + 1..Len(new) :
                            new[j] = File(TheDeal, lines[i].path, TRUE)

LEMMA CommittedRows ==
    ASSUME NEW n \in Nat, NEW lines \in Seq(FileRows(n)), NEW on \in BOOLEAN,
           NEW T \in SUBSET (1..Len(lines)), NEW D \in SUBSET (1..Len(lines)),
           NEW new, new = Without(D, Boxes(T, on, lines))
    PROVE  Rewritten(n, lines, T, D, on, new)
<1> DEFINE S == {File(TheDeal, lines[i].path, TRUE) : i \in T}
           more == IF on THEN SetToSeq(S) ELSE <<>>
           old == [i \in DOMAIN lines |-> IF i \in T THEN [lines[i] EXCEPT !.on = on, !.live = TRUE]
                                                   ELSE lines[i]]
           all == old \o more
<1>8. all = Boxes(T, on, lines)
  BY DEF Boxes
<1> HIDE DEF more, all
<1>0. DOMAIN lines = 1..Len(lines) /\ \A i \in 1..Len(lines) : lines[i] \in FileRows(n)
  OBVIOUS
<1>1. IsFiniteSet(T)
  <2>1. IsFiniteSet(1..Len(lines))
    BY FS_Interval
  <2> QED BY <2>1, FS_Subset
<1>2. IsFiniteSet(S) /\ Cardinality(S) \in Nat /\ Cardinality(S) <= Cardinality(T)
  BY <1>1, ImageCount
<1>3. Cardinality(T) \in Nat
  BY <1>1, FS_CardinalityType
<1>4. S \subseteq FileRows(n)
  <2> SUFFICES ASSUME NEW x \in S PROVE x \in FileRows(n)
    OBVIOUS
  <2>1. PICK i \in T : x = File(TheDeal, lines[i].path, TRUE)
    OBVIOUS
  <2>2. lines[i].path \in Paths
    BY <1>0 DEF FileRows
  <2> QED BY <2>1, <2>2 DEF FileRows, File, Holders
<1>4a. \A x \in S : x.of = TheDeal /\ x.live
  BY DEF File
<1>4b. \A i \in T : File(TheDeal, lines[i].path, TRUE) \in S
  OBVIOUS
<1>7a. \A i \in 1..Len(lines) : old[i] = IF i \in T THEN [lines[i] EXCEPT !.on = on, !.live = TRUE]
                                                 ELSE lines[i]
  BY <1>0
<1>7b. \A i \in 1..Len(lines) : old[i] \in FileRows(n)
  BY <1>0, <1>7a DEF FileRows
<1>7. old \in Seq(FileRows(n)) /\ Len(old) = Len(lines)
  <2>1. old \in [1..Len(lines) -> FileRows(n)]
    <3>1. DOMAIN old = 1..Len(lines) /\ old = [i \in DOMAIN old |-> old[i]]
      BY <1>0
    <3> QED BY <3>1, <1>7b
  <2> HIDE DEF old
  <2>2. Len(lines) \in Nat
    OBVIOUS
  <2> QED BY <2>1, <2>2
<1> HIDE DEF S, old
<1>5. more \in Seq(S) /\ Len(more) \in Nat /\ Len(more) <= Cardinality(T)
  <2>1. CASE on
    BY <2>1, <1>2, <1>3, Listing DEF more
  <2>2. CASE ~on
    BY <2>2, <1>3 DEF more
  <2> QED BY <2>1, <2>2
<1>6. on => \A x \in S : \E i \in 1..Len(more) : more[i] = x
  BY <1>2, Listing DEF more
<1>9. \A i \in 1..Len(more) : more[i] \in S /\ more[i] \in FileRows(n)
  BY <1>4, <1>5
<1>10. more \in Seq(FileRows(n))
  BY <1>5, <1>9
<1>11. /\ all \in Seq(FileRows(n)) /\ Len(all) = Len(lines) + Len(more)
       /\ \A i \in 1..Len(lines) : all[i] = old[i]
       /\ \A i \in Len(lines) + 1..Len(all) : all[i] = more[i - Len(lines)]
  BY <1>7, <1>10 DEF all
<1>11a. \A i \in 1..Len(all) : all[i] \in FileRows(n)
  BY <1>11
<1>12. new = [i \in 1..Len(all) |-> IF i \in D THEN [all[i] EXCEPT !.live = FALSE] ELSE all[i]]
  <2>1. DOMAIN all = 1..Len(all)
    BY <1>11
  <2> QED BY <1>8, <2>1 DEF Without
<1>12a. \A i \in 1..Len(all) : new[i] = IF i \in D THEN [all[i] EXCEPT !.live = FALSE] ELSE all[i]
  BY <1>12
<1>12b. \A i \in 1..Len(all) : new[i] \in FileRows(n)
  BY <1>11a, <1>12a DEF FileRows
<1>13. new \in Seq(FileRows(n)) /\ Len(new) = Len(all)
  BY <1>11, <1>12, <1>12b
<1>14. Len(lines) <= Len(new) /\ Len(new) <= Len(lines) + Cardinality(T)
  <2>1. Len(lines) \in Nat
    OBVIOUS
  <2> QED BY <2>1, <1>3, <1>5, <1>11, <1>13
<1>15. ASSUME NEW i \in 1..Len(lines)
       PROVE  /\ new[i].of = lines[i].of /\ new[i].path = lines[i].path
              /\ new[i].live = (i \notin D /\ (lines[i].live \/ i \in T))
              /\ i \notin D => new[i].on = (IF i \in T THEN on ELSE lines[i].on)
              /\ i \in D => new[i].live = FALSE
  <2>0. Len(lines) \in Nat /\ 1..Len(lines) \subseteq 1..Len(all)
    BY <1>5, <1>11
  <2>1. i \in 1..Len(all) /\ all[i] = old[i]
    BY <1>11, <2>0
  <2>2. lines[i] \in FileRows(n)
    BY <1>0
  <2>2a. old[i] = IF i \in T THEN [lines[i] EXCEPT !.on = on, !.live = TRUE] ELSE lines[i]
    BY <1>7a
  <2>3. new[i] = IF i \in D THEN [all[i] EXCEPT !.live = FALSE] ELSE all[i]
    BY <1>12a, <2>1
  <2>4. CASE i \in T
    <3>1. old[i] \in FileRows(n) /\ old[i].of = lines[i].of /\ old[i].path = lines[i].path
          /\ old[i].live = TRUE /\ old[i].on = on
      BY <2>2, <2>2a, <2>4 DEF FileRows
    <3> QED BY <3>1, <2>1, <2>3, <2>4 DEF FileRows
  <2>5. CASE i \notin T
    BY <2>1, <2>2, <2>2a, <2>3, <2>5 DEF FileRows
  <2> QED BY <2>4, <2>5
<1>16. ASSUME NEW i \in Len(lines) + 1..Len(new)
       PROVE  new[i] \in S /\ new[i] = more[i - Len(lines)]
  <2>0. Len(lines) \in Nat /\ Len(more) \in Nat /\ Len(new) = Len(lines) + Len(more)
    BY <1>5, <1>11, <1>13
  <2>1. i \in 1..Len(all) /\ i \notin D /\ i - Len(lines) \in 1..Len(more) /\ i \in Len(lines) + 1..Len(all)
    BY <2>0, <1>13
  <2>2. new[i] = all[i] /\ all[i] = more[i - Len(lines)]
    BY <2>1, <1>11, <1>12a
  <2> QED BY <2>1, <2>2, <1>9
<1>17. \A i \in Len(lines) + 1..Len(new) : new[i].of = TheDeal /\ new[i].live
  BY <1>4a, <1>16
<1>18. ASSUME on, NEW i \in T
       PROVE  \E j \in Len(lines) + 1..Len(new) : new[j] = File(TheDeal, lines[i].path, TRUE)
  <2>1. PICK k \in 1..Len(more) : more[k] = File(TheDeal, lines[i].path, TRUE)
    BY <1>4b, <1>6, <1>18
  <2>0. Len(lines) \in Nat /\ Len(more) \in Nat /\ Len(new) = Len(lines) + Len(more)
    BY <1>5, <1>11, <1>13
  <2>2. Len(lines) + k \in Len(lines) + 1..Len(new) /\ (Len(lines) + k) - Len(lines) = k
    BY <2>0
  <2> QED BY <2>1, <2>2, <1>16
<1> QED BY <1>13, <1>14, <1>15, <1>17, <1>18 DEF Rewritten
-----------------------------------------------------------------------------
(* The initial state.                                                      *)

LEMMA InitHolds == OutboxInit => OutboxInv
<1> SUFFICES ASSUME OutboxInit PROVE OutboxInv
  OBVIOUS
<1> DEFINE R == [text : Texts, deal : BOOLEAN, ticket : BOOLEAN, paths : SUBSET Paths]
<1>1. Inbox \in Seq(R)
  BY OutboxAssumption
<1> HIDE DEF R
<1>1a. DOMAIN Inbox = 1..Len(Inbox) /\ Len(Inbox) \in Nat /\ \A m \in 1..Len(Inbox) : Inbox[m] \in R
  BY <1>1
<1>2. /\ DOMAIN Inbox = 1..Len(Inbox) /\ Len(Inbox) \in Nat
      /\ \A m \in 1..Len(Inbox) :
           Inbox[m] \in [text : Texts, deal : BOOLEAN, ticket : BOOLEAN, paths : SUBSET Paths]
  BY <1>1a DEF R
<1>3. mails = [m \in 1..Len(Inbox) |-> [Row(Holder, Inbox[m].text, Inbox[m].deal, Inbox[m].ticket)
                                          EXCEPT !.incoming = TRUE]]
  BY <1>2 DEF OutboxInit
<1>4. \A m \in 1..Len(Inbox) : mails[m] \in MailRows /\ mails[m].sent = FALSE
  BY <1>2, <1>3, OutboxAssumption DEF Row, MailRows
<1>5. mails \in Seq(MailRows) /\ Len(mails) = Len(Inbox)
  BY <1>2, <1>3, <1>4
<1>6. MailsInv
  BY <1>5, OutboxAssumption DEF MailsInv
<1> DEFINE A == {File(TheDeal, p, FALSE) : p \in DealFiles}
           B == {File(Mail(x[2]), x[1], FALSE) : x \in TheirFiles}
<1>7. IsFiniteSet(DealFiles) /\ IsFiniteSet(TheirFiles) /\ \A x \in TheirFiles : x[1] \in Paths /\ x[2] \in 1..Len(Inbox)
  <2>1. IsFiniteSet(DealFiles)
    BY FilesAssumption, FS_Subset
  <2>2. TheirFiles \subseteq Paths \X (1..Len(Inbox))
    BY <1>2 DEF TheirFiles
  <2>3. IsFiniteSet(Paths \X (1..Len(Inbox)))
    <3>1. IsFiniteSet(1..Len(Inbox))
      BY <1>2, FS_Interval
    <3> QED BY <3>1, FilesAssumption, FS_Product
  <2>4. IsFiniteSet(TheirFiles)
    BY <2>2, <2>3, FS_Subset
  <2> QED BY <2>1, <2>2, <2>4
<1>8. IsFiniteSet(A) /\ Cardinality(A) \in Nat /\ Cardinality(A) <= Cardinality(DealFiles)
  <2> DEFINE f == [p \in DealFiles |-> File(TheDeal, p, FALSE)]
  <2>1. f \in Surjection(DealFiles, A)
    BY DEF Surjection
  <2> HIDE DEF f, A
  <2> QED BY <2>1, <1>7, FS_Surjection, FS_CardinalityType
<1>9. IsFiniteSet(B) /\ Cardinality(B) \in Nat /\ Cardinality(B) <= Cardinality(TheirFiles)
  <2> DEFINE f == [x \in TheirFiles |-> File(Mail(x[2]), x[1], FALSE)]
  <2>1. f \in Surjection(TheirFiles, B)
    BY DEF Surjection
  <2> HIDE DEF f, B
  <2> QED BY <2>1, <1>7, FS_Surjection, FS_CardinalityType
<1>10. A \subseteq FileRows(Len(mails)) /\ B \subseteq FileRows(Len(mails))
  <2>1. \A p \in DealFiles : p \in Paths
    BY FilesAssumption
  <2>2. A \subseteq FileRows(Len(mails))
    <3> SUFFICES ASSUME NEW p \in DealFiles PROVE File(TheDeal, p, FALSE) \in FileRows(Len(mails))
      OBVIOUS
    <3> QED BY <2>1 DEF FileRows, File, Holders
  <2>3. ASSUME NEW x \in TheirFiles PROVE File(Mail(x[2]), x[1], FALSE) \in FileRows(Len(mails))
    BY <2>3, <1>5, <1>7 DEF FileRows, File, Holders
  <2> QED BY <2>2, <2>3
<1>11. files = SetToSeq(A) \o SetToSeq(B)
  BY DEF OutboxInit
<1>12. /\ \A x \in A : x.path \in DealFiles
       /\ \A x \in B : \E y \in TheirFiles : x.path = y[1]
  BY DEF File
<1> HIDE DEF A, B
<1>13. /\ SetToSeq(A) \in Seq(A) /\ Len(SetToSeq(A)) = Cardinality(A)
       /\ SetToSeq(B) \in Seq(B) /\ Len(SetToSeq(B)) = Cardinality(B)
  BY <1>8, <1>9, Listing
<1>14. files \in Seq(A \cup B) /\ Len(files) = Cardinality(A) + Cardinality(B)
  <2>1. SetToSeq(A) \in Seq(A \cup B) /\ SetToSeq(B) \in Seq(A \cup B)
    BY <1>13
  <2>2. PICK a \in Seq(A \cup B), b \in Seq(A \cup B) : a = SetToSeq(A) /\ b = SetToSeq(B)
    BY <2>1
  <2>3. a \o b \in Seq(A \cup B) /\ Len(a \o b) = Len(a) + Len(b)
    OBVIOUS
  <2> QED BY <1>11, <1>13, <2>2, <2>3
<1>15. files \in Seq(FileRows(Len(mails))) /\ \A i \in DOMAIN files : files[i] \in A \cup B
  BY <1>10, <1>14
<1>16. Len(files) <= MaxFiles
  <2>1. Cardinality(DealFiles) \in Nat /\ Cardinality(TheirFiles) \in Nat
    BY <1>7, FS_CardinalityType
  <2>2. Cardinality(DealFiles) + Cardinality(TheirFiles) <= MaxFiles /\ MaxFiles \in Nat
    BY OutboxAssumption
  <2> QED BY <2>1, <2>2, <1>8, <1>9, <1>14
<1>17. disk \subseteq Paths /\ torn \subseteq Paths
  BY <1>7, FilesAssumption DEF OutboxInit
<1>18. FilesInv
  BY <1>15, <1>16, <1>17 DEF FilesInv
<1>19. FlowInv /\ LocksInv /\ FormsInv
  BY DEF OutboxInit, FlowInv, LocksInv, FormsInv, NoForm
<1>20. CopyInv
  <2>1. Done \in [m : 0..Len(mails), left : Seq(Paths)]
    BY <1>2, <1>5 DEF Done
  <2> QED BY <2>1 DEF OutboxInit, CopyInv
<1>21. AccessInv
  <2>1. account \in [main : BOOLEAN, token : {0}] /\ given = 0 /\ stale = FALSE
        /\ visit = NoCopy /\ form = NoCopy /\ mailer = NoCopy
    BY DEF OutboxInit, InitAccounts
  <2>2. NoCopy \in Account /\ account \in Account /\ account.token = 0
    BY <2>1 DEF Account, NoCopy
  <2> QED BY <2>1, <2>2 DEF AccessInv, TokenKept
<1>22. SentDelivered /\ Logged
  BY <1>4, <1>5 DEF SentDelivered, Logged
<1>23. FilesThere
  <2>1. \A x \in A \cup B : x.path \in disk
    BY <1>12 DEF OutboxInit
  <2> QED BY <2>1, <1>15 DEF FilesThere
<1> QED BY <1>6, <1>18, <1>19, <1>20, <1>21, <1>22, <1>23 DEF OutboxInv
-----------------------------------------------------------------------------
(* The account: whoever saves a row read before a token came marks it.     *)

LEMMA AccessStep ==
    ASSUME AccessInv, ReadAccount \/ WriteAccount
    PROVE  AccessInv'
<1>0. NoCopy \in Account
  BY DEF NoCopy, Account
<1>1. CASE ReadAccount
  BY <1>1 DEF ReadAccount, LoadForToken, ShowAccount, LoadToMail, TokenKept, AccessInv
<1>2. CASE CountMail
  <2>1. account' = mailer /\ stale' = (mailer.token # given /\ (stale \/ mailer.token # account.token))
    BY <1>2 DEF CountMail, SaveToken
  <2>2. mailer' = NoCopy /\ given' = given /\ visit' = visit /\ form' = form
    BY <1>2 DEF CountMail
  <2> QED BY <1>0, <2>1, <2>2 DEF AccessInv, TokenKept
<1>3. ASSUME NEW b \in BOOLEAN, TokenComes(b) PROVE AccessInv'
  <2>0. visit' = NoCopy /\ form' = form /\ mailer' = mailer
    BY <1>3 DEF TokenComes
  <2>1. CASE b
    <3>1. Answered(b) = given + 1 /\ Answered(b) # -1 /\ given' = given + 1
      BY <1>3, <2>1 DEF TokenComes, Answered, AccessInv
    <3>2. account' = [visit EXCEPT !.token = given + 1] /\ stale' \in BOOLEAN
      BY <3>1, <1>3 DEF TokenComes, SaveToken, AccessInv
    <3>3. account' \in Account /\ account'.token = given' /\ given' \in Nat
      BY <3>1, <3>2 DEF AccessInv, Account
    <3> QED BY <1>0, <2>0, <3>2, <3>3 DEF AccessInv, TokenKept
  <2>2. CASE ~b
    <3>1. account' = account /\ stale' = stale /\ given' = given
      BY <1>3, <2>2 DEF TokenComes, Answered
    <3> QED BY <1>0, <2>0, <3>1 DEF AccessInv, TokenKept
  <2> QED BY <2>1, <2>2
<1>4. ASSUME NEW b \in BOOLEAN, PostAccount(b) PROVE AccessInv'
  <2>1. account' = [form EXCEPT !.main = b]
    BY <1>4 DEF PostAccount, SaveToken
  <2>2. account' \in Account /\ account'.token = form.token
    BY <2>1 DEF AccessInv, Account
  <2>3. stale' = (form.token # given /\ (stale \/ form.token # account.token))
    <3>1. [form EXCEPT !.main = b].token = form.token
      BY DEF AccessInv, Account
    <3> QED BY <1>4, <3>1 DEF PostAccount, SaveToken
  <2>4. form' = NoCopy /\ given' = given /\ visit' = visit /\ mailer' = mailer
    BY <1>4 DEF PostAccount
  <2> QED BY <1>0, <2>2, <2>3, <2>4 DEF AccessInv, TokenKept
<1> QED BY <1>1, <1>2, <1>3, <1>4 DEF WriteAccount

LEMMA AccessSame == AccessInv /\ UNCHANGED access => AccessInv'
BY DEF AccessInv, access, TokenKept
-----------------------------------------------------------------------------
(* What the steps of others leave of a form.                               *)

\* Rows are added and keep their owner and stored file, deliveries and entries
\* stay, and a view makes its files for one mail.
Grown ==
    /\ Len(mails) <= Len(mails') /\ Len(files) <= Len(files')
    /\ \A i \in 1..Len(files) : files'[i].of = files[i].of /\ files'[i].path = files[i].path
    /\ out \subseteq out' /\ workflow \cup undone \subseteq workflow' \cup undone'
    /\ \A v \in Users : copying'[v].m \in {0, Len(mails) + 1, copying[v].m}
\* The files of a mail are what they were, unless a view is copying them.
Still(m) == FilesOf(Mail(m))' = FilesOf(Mail(m)) \/ \E v \in Users : copying[v].m = m
Tables == MailsInv /\ FilesInv /\ FlowInv /\ CopyInv

LEMMA TableLengths ==
    ASSUME Tables
    PROVE  /\ Len(mails) \in Nat /\ Len(files) \in Nat
           /\ DOMAIN mails = 1..Len(mails) /\ DOMAIN files = 1..Len(files)
           /\ \A m \in 1..Len(mails) : mails[m] \in MailRows
           /\ \A i \in 1..Len(files) : files[i] \in FileRows(Len(mails))
BY DEF Tables, MailsInv, FilesInv

LEMMA FormFrame ==
    ASSUME Tables, Tables', Grown, NEW t, AForm(t), t.answer => Still(t.m)
    PROVE  AForm(t)'
<1>1. /\ Len(mails) \in Nat /\ Len(files) \in Nat /\ Len(mails') \in Nat /\ Len(files') \in Nat
      /\ Len(mails) <= Len(mails') /\ Len(files) <= Len(files') /\ DOMAIN files = 1..Len(files)
      /\ DOMAIN files' = 1..Len(files')
  BY DEF Tables, MailsInv, FilesInv, Grown
<1>2. t \in FormRows(Len(mails), Len(files)) /\ t \in FormRows(Len(mails'), Len(files'))
  BY <1>1, FormRange DEF AForm
<1>3. t.del \subseteq 1..Len(files) /\ t.boxes \subseteq 1..Len(files) /\ t.m \in 0..Len(mails)
  BY <1>2 DEF FormRows
<1>4. Locked(t)'
  BY DEF AForm, Locked, Mail, TheDeal
<1>5. Touched(t)'
  BY <1>3 DEF AForm, Touched, Grown, Mail, TheDeal
<1>6. ASSUME t.answer PROVE \E o \in out' : TakenAs(t, o)'
  <2>1. t.m \in 1..Len(mails)
    BY <1>1, <1>3, <1>6 DEF AForm, Answers, Locked
  <2>2. PICK o \in out : TakenAs(t, o)
    BY <1>6 DEF AForm, Answers
  <2>3. o \in out' /\ o.m = t.m /\ o.text = t.row.text
    BY <2>2 DEF Grown, TakenAs
  <2>4. ASSUME o.whole PROVE o.paths = Attachments(t)' /\ \A v \in Users : copying'[v].m # t.m
    <3>1. o.paths = Attachments(t) /\ \A v \in Users : copying[v].m # t.m
      BY <2>2, <2>4 DEF TakenAs
    <3>2. FilesOf(Mail(t.m))' = FilesOf(Mail(t.m)) /\ FilesOf(Mail(t.m)) \subseteq 1..Len(files)
      BY <3>1, <1>1, <1>6 DEF Still, FilesOf
    <3>3. Attachments(t)' = Attachments(t)
      <4> DEFINE S == (FilesOf(Mail(t.m)) \ t.del) \cup t.boxes
      <4>1. S \subseteq 1..Len(files) /\ Attachments(t) = {files[i].path : i \in S}
        BY <3>2, <1>3 DEF Attachments, PathsOf
      <4>2. Attachments(t)' = {files'[i].path : i \in S}
        BY <3>2 DEF Attachments, PathsOf
      <4>3. \A i \in S : files'[i].path = files[i].path
        BY <4>1 DEF Grown
      <4> QED BY <4>1, <4>2, <4>3
    <3>4. \A v \in Users : copying'[v].m # t.m
      BY <3>1, <2>1, <1>1 DEF Grown
    <3> QED BY <3>1, <3>3, <3>4
  <2> QED BY <2>3, <2>4 DEF TakenAs
<1>7. Answers(t)'
  <2>1. t.what = "mail" /\ t.row.sent =>
          Delivered(t.m)' /\ (t.row.deal /\ ~t.joins => t.m \in workflow' \cup undone')
    BY DEF AForm, Answers, Delivered, Grown
  <2>2. t.step = "sent" => t.answer
    BY DEF AForm, Answers
  <2>3. t.answer => /\ t.step \in {"sent", "done"} /\ t.what = "mail"
                    /\ t.step = "done" /\ t.row.deal => TheDeal \in t.locks
    BY DEF AForm, Answers
  <2>4. t.joins => t.what = "mail"
    BY DEF AForm, Answers
  <2> QED BY <2>1, <2>2, <2>3, <2>4, <1>6 DEF Answers, TheDeal
<1> QED BY <1>2, <1>4, <1>5, <1>7 DEF AForm

\* No form changes.
LEMMA FormsKept ==
    ASSUME Tables, Tables', Grown, FormsInv, LocksInv, tx' = tx,
           \A u \in Users : tx[u] # NoForm /\ tx[u].answer => Still(tx[u].m)
    PROVE  FormsInv' /\ LocksInv'
<1>1. ASSUME NEW u \in Users, NEW t \in {tx[u]} \ {NoForm} PROVE AForm(t)'
  <2>1. AForm(t) /\ (t.answer => Still(t.m))
    BY <1>1 DEF FormsInv
  <2> QED BY <2>1, FormFrame
<1> QED BY <1>1 DEF FormsInv, LocksInv

\* One form changes.
LEMMA FormsStep ==
    ASSUME Tables, Tables', Grown, FormsInv, LocksInv, NEW u \in Users, NEW t2,
           tx' = [tx EXCEPT ![u] = t2], t2 # NoForm => AForm(t2)',
           \A v \in Users \ {u} : t2.locks \cap tx[v].locks = {},
           \A v \in Users \ {u} : tx[v] # NoForm /\ tx[v].answer => Still(tx[v].m)
    PROVE  FormsInv' /\ LocksInv'
<1>1. DOMAIN tx = Users /\ DOMAIN tx' = Users /\ tx'[u] = t2 /\ \A v \in Users \ {u} : tx'[v] = tx[v]
  BY DEF FormsInv
<1>2. ASSUME NEW v \in Users, NEW t \in {tx'[v]} \ {NoForm} PROVE AForm(t)'
  <2>1. CASE v = u
    <3>1. t = t2
      BY <1>1, <1>2, <2>1
    <3> QED BY <3>1, <1>2
  <2>2. CASE v # u
    <3>1. AForm(t) /\ (t.answer => Still(t.m))
      BY <1>1, <1>2, <2>2 DEF FormsInv
    <3> QED BY <3>1, FormFrame
  <2> QED BY <2>1, <2>2
<1>3. LocksInv'
  BY <1>1 DEF LocksInv
<1> QED BY <1>1, <1>2, <1>3 DEF FormsInv
-----------------------------------------------------------------------------
(* Pieces of the steps.                                                    *)

LEMMA OpenForm ==
    ASSUME OutboxInv, NEW u \in Users, tx[u].step # "idle"
    PROVE  tx[u] # NoForm /\ AForm(tx[u])
<1>1. tx[u] # NoForm
  BY DEF NoForm
<1> QED BY <1>1 DEF OutboxInv, FormsInv

LEMMA TablesHold == OutboxInv => Tables
BY DEF OutboxInv, Tables

\* The tables stay what they are when there are more mails.
LEMMA Wider ==
    ASSUME Tables, Len(mails') \in Nat, Len(mails) <= Len(mails')
    PROVE  /\ UNCHANGED storage => FilesInv'
           /\ UNCHANGED <<workflow, undone>> => FlowInv'
           /\ UNCHANGED copying => CopyInv'
<1>1. Len(mails) \in Nat /\ Len(files) \in Nat
  BY TableLengths
<1>2. FileRows(Len(mails)) \subseteq FileRows(Len(mails')) /\ 1..Len(mails) \subseteq 1..Len(mails')
      /\ 0..Len(mails) \subseteq 0..Len(mails')
  BY <1>1, FormRange
<1> HIDE DEF FileRows
<1>3. files \in Seq(FileRows(Len(mails'))) /\ Len(files) <= MaxFiles
  BY <1>2 DEF Tables, FilesInv
<1>4. UNCHANGED storage => FilesInv'
  BY <1>3 DEF Tables, FilesInv, storage
<1>5. UNCHANGED <<workflow, undone>> => FlowInv'
  BY <1>2 DEF Tables, FlowInv
<1>6. UNCHANGED copying => CopyInv'
  <2>1. [m : 0..Len(mails), left : Seq(Paths)] \subseteq [m : 0..Len(mails'), left : Seq(Paths)]
    BY <1>2
  <2> QED BY <2>1 DEF Tables, CopyInv
<1> QED BY <1>4, <1>5, <1>6

\* No mail becomes sent.
LEMMA MailsKept ==
    ASSUME OutboxInv, Grown, Tables',
           \A m \in 1..Len(mails') : mails'[m].live /\ mails'[m].sent =>
                m \in 1..Len(mails) /\ mails'[m] = mails[m]
    PROVE  SentDelivered' /\ Logged'
<1>1. DOMAIN mails = 1..Len(mails) /\ DOMAIN mails' = 1..Len(mails')
  BY TablesHold, TableLengths DEF Tables, MailsInv
<1>2. SentDelivered'
  BY <1>1 DEF OutboxInv, SentDelivered, Grown
<1>3. Logged'
  BY <1>1 DEF OutboxInv, Logged, Grown
<1> QED BY <1>2, <1>3

\* No file comes or goes, and no form that deletes some ends.
LEMMA FilesThereKept ==
    ASSUME FilesThere, UNCHANGED storage,
           \A v \in Users : tx[v].step \notin {"idle", "loaded"} =>
                tx'[v].step \notin {"idle", "loaded"} /\ tx'[v].del = tx[v].del
    PROVE  FilesThere'
BY DEF FilesThere, storage

LEMMA StillThere ==
    ASSUME UNCHANGED files, NEW m
    PROVE  Still(m)
BY DEF Still, FilesOf

\* A step that leaves the files alone, changes one form, and no mail.
LEMMA FormOnly ==
    ASSUME OutboxInv, NEW u \in Users, NEW t2, tx' = [tx EXCEPT ![u] = t2],
           t2 # NoForm => AForm(t2)', \A v \in Users \ {u} : t2.locks \cap tx[v].locks = {},
           tx[u].step \notin {"idle", "loaded"} =>
                t2.step \notin {"idle", "loaded"} /\ t2.del = tx[u].del,
           out \subseteq out', UNCHANGED <<storage, access, mails, workflow, undone, copying>>
    PROVE  OutboxInv'
<1>1. Tables /\ Len(mails) \in Nat /\ Len(files) \in Nat
  BY TablesHold, TableLengths
<1>2. MailsInv' /\ FilesInv' /\ FlowInv' /\ CopyInv' /\ Tables'
  BY <1>1, Wider DEF Tables, MailsInv
<1>3. Grown
  BY <1>1 DEF Grown, storage
<1>4. FormsInv' /\ LocksInv'
  <2>1. \A v \in Users : Still(tx[v].m)
    BY StillThere DEF storage
  <2>2. FormsInv /\ LocksInv
    BY DEF OutboxInv
  <2> QED BY <1>1, <1>2, <1>3, <2>1, <2>2, FormsStep
<1>5. AccessInv'
  BY AccessSame DEF OutboxInv
<1>6. SentDelivered' /\ Logged'
  BY <1>2, <1>3, MailsKept
<1>7. FilesThere'
  <2>1. \A v \in Users : tx[v].step \notin {"idle", "loaded"} =>
                tx'[v].step \notin {"idle", "loaded"} /\ tx'[v].del = tx[v].del
    BY DEF OutboxInv, FormsInv
  <2> QED BY <2>1, FilesThereKept DEF OutboxInv
<1> QED BY <1>2, <1>4, <1>5, <1>6, <1>7 DEF OutboxInv
-----------------------------------------------------------------------------
(* The views.                                                              *)

LEMMA MakeStep ==
    ASSUME OutboxInv, NEW u \in Users, NEW row \in MailRows, ~row.sent, NEW paths \in Seq(Paths),
           Make(u, row, paths)
    PROVE  OutboxInv'
<1>1. Tables /\ Len(mails) \in Nat /\ Len(files) \in Nat
  BY TablesHold, TableLengths
<1>2. /\ mails' = Append(mails, row) /\ Len(mails) < MaxMails /\ MaxMails \in Nat
      /\ copying' = [copying EXCEPT ![u] = [m |-> Len(mails'), left |-> paths]]
      /\ UNCHANGED <<storage, access, workflow, tx, out, undone>>
  BY OutboxAssumption DEF Make
<1>3. Len(mails') = Len(mails) + 1 /\ MailsInv' /\ mails' \in Seq(MailRows)
  BY <1>1, <1>2 DEF Tables, MailsInv
<1>4. FilesInv' /\ FlowInv'
  BY <1>1, <1>2, <1>3, Wider
<1>5. CopyInv'
  <2>1. copying \in [Users -> [m : 0..Len(mails'), left : Seq(Paths)]]
    <3>1. [m : 0..Len(mails), left : Seq(Paths)] \subseteq [m : 0..Len(mails'), left : Seq(Paths)]
      BY <1>1, <1>3
    <3> QED BY <3>1, <1>1 DEF Tables, CopyInv
  <2>2. [m |-> Len(mails'), left |-> paths] \in [m : 0..Len(mails'), left : Seq(Paths)]
    BY <1>1, <1>3
  <2> QED BY <1>2, <2>1, <2>2 DEF CopyInv
<1>6. Tables'
  BY <1>3, <1>4, <1>5 DEF Tables
<1>7. Grown
  <2>1. \A v \in Users : copying'[v].m \in {0, Len(mails) + 1, copying[v].m}
    BY <1>1, <1>2, <1>3 DEF Tables, CopyInv
  <2> QED BY <1>1, <1>2, <1>3, <2>1 DEF Grown, storage
<1>8. FormsInv' /\ LocksInv'
  <2>1. \A v \in Users : Still(tx[v].m)
    BY <1>2, StillThere DEF storage
  <2>2. FormsInv /\ LocksInv
    BY DEF OutboxInv
  <2> QED BY <1>1, <1>2, <1>6, <1>7, <2>1, <2>2, FormsKept
<1>9. AccessInv'
  BY <1>2, AccessSame DEF OutboxInv
<1>10. SentDelivered' /\ Logged'
  <2>1. \A m \in 1..Len(mails) : mails'[m] = mails[m]
    BY <1>1, <1>2 DEF Tables, MailsInv
  <2>2. mails'[Len(mails) + 1] = row
    BY <1>1, <1>2 DEF Tables, MailsInv
  <2>3. ASSUME NEW m \in 1..Len(mails'), mails'[m].live, mails'[m].sent
        PROVE  m \in 1..Len(mails) /\ mails'[m] = mails[m]
    BY <1>1, <1>3, <2>1, <2>2, <2>3
  <2> QED BY <1>6, <1>7, <2>3, MailsKept
<1>11. FilesThere'
  BY <1>2, FilesThereKept DEF OutboxInv
<1> QED BY <1>3, <1>4, <1>5, <1>8, <1>9, <1>10, <1>11 DEF OutboxInv

LEMMA PathsTyped ==
    ASSUME Tables, NEW S \in SUBSET (1..Len(files))
    PROVE  PathsOf(S) \subseteq Paths /\ IsFiniteSet(PathsOf(S))
<1>1. PathsOf(S) \subseteq Paths
  BY TableLengths DEF PathsOf, FileRows
<1> QED BY <1>1, FilesAssumption, FS_Subset

LEMMA ViewStep ==
    ASSUME OutboxInv, NEW u \in Users, CreateEmail(u) \/ \E m \in DOMAIN mails : ReplyEmail(u, m)
    PROVE  OutboxInv'
<1>1. Tables /\ Len(mails) \in Nat /\ DOMAIN files = 1..Len(files) /\ DOMAIN mails = 1..Len(mails)
  BY TablesHold, TableLengths
<1>2. ASSUME CreateEmail(u) PROVE OutboxInv'
  <2>1. PICK S \in SUBSET PathsOf({i \in DOMAIN files : files[i].of = TheDeal}) :
          \E order \in SetToSeqs(S) : \E n \in 0..Len(order) :
            Make(u, Row(u, "", TRUE, TRUE), SubSeq(order, 1, n))
    BY <1>2 DEF CreateEmail
  <2>2. PICK order \in SetToSeqs(S) : \E n \in 0..Len(order) :
            Make(u, Row(u, "", TRUE, TRUE), SubSeq(order, 1, n))
    BY <2>1
  <2>3. PICK n \in 0..Len(order) : Make(u, Row(u, "", TRUE, TRUE), SubSeq(order, 1, n))
    BY <2>2
  <2>4. S \subseteq Paths /\ IsFiniteSet(S)
    <3>1. {i \in DOMAIN files : files[i].of = TheDeal} \in SUBSET (1..Len(files))
      BY <1>1
    <3>2. S \subseteq Paths
      BY <1>1, <3>1, PathsTyped
    <3> QED BY <3>2, FilesAssumption, FS_Subset
  <2>5. order \in Seq(Paths)
    <3>1. order \in Seq(S)
      BY <2>4, Ordering
    <3> QED BY <2>4, <3>1
  <2>6. SubSeq(order, 1, n) \in Seq(Paths)
    BY <2>5
  <2>7. Row(u, "", TRUE, TRUE) \in MailRows /\ ~Row(u, "", TRUE, TRUE).sent
    BY OutboxAssumption DEF Row, MailRows
  <2> QED BY <2>3, <2>6, <2>7, MakeStep
<1>3. ASSUME NEW m \in DOMAIN mails, ReplyEmail(u, m) PROVE OutboxInv'
  <2>1. PICK forward \in BOOLEAN :
          \E paths \in SetToSeqs(PathsOf(FilesOf(Mail(m)))) :
             Make(u, Reply(u, m), IF forward THEN paths ELSE <<>>)
    BY <1>3 DEF ReplyEmail
  <2>2. PICK paths \in SetToSeqs(PathsOf(FilesOf(Mail(m)))) :
             Make(u, Reply(u, m), IF forward THEN paths ELSE <<>>)
    BY <2>1
  <2>3. PathsOf(FilesOf(Mail(m))) \subseteq Paths /\ IsFiniteSet(PathsOf(FilesOf(Mail(m))))
    <3>1. FilesOf(Mail(m)) \in SUBSET (1..Len(files))
      BY <1>1 DEF FilesOf
    <3> QED BY <1>1, <3>1, PathsTyped
  <2>4. paths \in Seq(Paths)
    <3>1. paths \in Seq(PathsOf(FilesOf(Mail(m))))
      BY <2>3, Ordering
    <3> QED BY <2>3, <3>1
  <2>5. (IF forward THEN paths ELSE <<>>) \in Seq(Paths)
    BY <2>4
  <2>6. Reply(u, m) \in MailRows /\ ~Reply(u, m).sent
    <3>1. mails[m] \in MailRows
      BY <1>1, <1>3, TableLengths
    <3> QED BY <3>1 DEF Reply, Row, MailRows
  <2> QED BY <2>2, <2>5, <2>6, MakeStep
<1> QED BY <1>2, <1>3

LEMMA EndStep ==
    ASSUME OutboxInv, NEW u \in Users, EndView(u) \/ StopView(u)
    PROVE  OutboxInv'
<1>1. Tables /\ Len(mails) \in Nat /\ Len(files) \in Nat
  BY TablesHold, TableLengths
<1>2. /\ copying' = [copying EXCEPT ![u] = Done]
      /\ UNCHANGED <<storage, access, mails, workflow, tx, out, undone>>
  BY DEF EndView, StopView, Quiet
<1>3. MailsInv' /\ FilesInv' /\ FlowInv'
  BY <1>1, <1>2, Wider DEF Tables, MailsInv
<1>4. CopyInv'
  <2>1. Done \in [m : 0..Len(mails), left : Seq(Paths)]
    BY <1>1 DEF Done
  <2> QED BY <1>1, <1>2, <2>1 DEF Tables, CopyInv
<1>5. Tables'
  BY <1>3, <1>4 DEF Tables
<1>6. Grown
  <2>1. \A v \in Users : copying'[v].m \in {0, Len(mails) + 1, copying[v].m}
    BY <1>1, <1>2 DEF Tables, CopyInv, Done
  <2> QED BY <1>1, <1>2, <2>1 DEF Grown, storage
<1>7. FormsInv' /\ LocksInv'
  <2>1. \A v \in Users : Still(tx[v].m)
    BY <1>2, StillThere DEF storage
  <2>2. FormsInv /\ LocksInv
    BY DEF OutboxInv
  <2> QED BY <1>1, <1>2, <1>5, <1>6, <2>1, <2>2, FormsKept
<1>8. AccessInv'
  BY <1>2, AccessSame DEF OutboxInv
<1>9. SentDelivered' /\ Logged'
  BY <1>2, <1>5, <1>6, MailsKept
<1>10. FilesThere'
  BY <1>2, FilesThereKept DEF OutboxInv
<1> QED BY <1>3, <1>4, <1>7, <1>8, <1>9, <1>10 DEF OutboxInv

\* A file is copied to the mail of the view.
LEMMA CopyStep ==
    ASSUME OutboxInv, NEW u \in Users, CopyFile(u)
    PROVE  OutboxInv'
<1>1. Tables /\ Len(mails) \in Nat /\ Len(files) \in Nat /\ DOMAIN files = 1..Len(files)
  BY TablesHold, TableLengths
<1>a. copying[u] \in [m : 0..Len(mails), left : Seq(Paths)]
  BY <1>1 DEF Tables, CopyInv
<1> DEFINE m == copying[u].m
           new == File(Mail(m), Head(copying[u].left), FALSE)
<1>2. /\ m # 0 /\ copying[u].left # <<>> /\ Len(files) < MaxFiles
      /\ Insert(Append(files, new))
      /\ copying' = [copying EXCEPT ![u].left = Tail(@)]
      /\ UNCHANGED <<access, disk, mails, workflow, tx, out, undone>>
  BY DEF CopyFile, Quiet
<1>3. new \in FileRows(Len(mails)) /\ new.live /\ new.of = Mail(m) /\ new.path \in Paths
      /\ Tail(copying[u].left) \in Seq(Paths)
  <2>1. Head(copying[u].left) \in Paths /\ Tail(copying[u].left) \in Seq(Paths)
    BY <1>a, <1>2
  <2> QED BY <1>a, <1>2, <2>1 DEF FileRows, File, Holders
<1> HIDE DEF new
<1>4. /\ files' = Append(files, new) /\ files' \in Seq(FileRows(Len(mails)))
      /\ Len(files') = Len(files) + 1 /\ DOMAIN files' = 1..Len(files')
      /\ \A i \in 1..Len(files) : files'[i] = files[i]
      /\ files'[Len(files) + 1] = new
  <2>1. files \in Seq(FileRows(Len(mails)))
    BY <1>1 DEF Tables, FilesInv
  <2> HIDE DEF FileRows
  <2> QED BY <1>2, <1>3, <2>1 DEF Insert
<1>5. torn' = torn \cup ({new.path} \ disk)
  <2>1. {i \in DOMAIN files' : i \notin DOMAIN files \/ ~files[i].live}
           \cap {i \in DOMAIN files' : files'[i].live} = {Len(files) + 1}
    <3>1. ASSUME NEW i \in 1..Len(files) PROVE files[i].live \/ ~files'[i].live
      BY <1>4
    <3>2. Len(files) + 1 \in DOMAIN files' /\ Len(files) + 1 \notin DOMAIN files /\ files'[Len(files) + 1].live
      BY <1>1, <1>3, <1>4
    <3>3. \A i \in DOMAIN files' : i \in 1..Len(files) \/ i = Len(files) + 1
      BY <1>1, <1>4
    <3> QED BY <3>1, <3>2, <3>3, <1>1
  <2>2. torn' = torn \cup ({files'[i].path :
             i \in {x \in DOMAIN files' : x \notin DOMAIN files \/ ~files[x].live}
                     \cap {x \in DOMAIN files' : files'[x].live}} \ disk)
    BY <1>2, <1>4 DEF Insert
  <2>3. torn' = torn \cup ({files'[i].path : i \in {Len(files) + 1}} \ disk)
    BY <2>1, <2>2
  <2>4. {files'[i].path : i \in {Len(files) + 1}} = {new.path}
    BY <1>4
  <2> QED BY <2>3, <2>4
<1>6. MailsInv' /\ FlowInv'
  BY <1>1, <1>2 DEF Tables, MailsInv, FlowInv
<1>7. FilesInv'
  <2>1. MaxFiles \in Nat
    BY OutboxAssumption
  <2>2. files' \in Seq(FileRows(Len(mails')))
    BY <1>2, <1>4
  <2>3. Len(files') <= MaxFiles
    BY <1>1, <1>2, <1>4, <2>1
  <2> QED BY <1>1, <1>2, <1>3, <1>5, <2>2, <2>3 DEF Tables, FilesInv
<1>8. CopyInv' /\ \A v \in Users : copying'[v].m = copying[v].m
  BY <1>1, <1>2, <1>3 DEF Tables, CopyInv
<1>9. Tables'
  BY <1>6, <1>7, <1>8 DEF Tables
<1>10. Grown
  BY <1>1, <1>2, <1>4, <1>8 DEF Grown
<1>11. ASSUME NEW k PROVE Still(k)
  <2>1. CASE k = m
    BY <2>1 DEF Still
  <2>2. CASE k # m
    <3>1. new.of # Mail(k)
      BY <1>3, <2>2 DEF Mail
    <3>2. \A i \in DOMAIN files' : i \in 1..Len(files) \/ i = Len(files) + 1
      BY <1>1, <1>4
    <3>3. FilesOf(Mail(k))' = FilesOf(Mail(k))
      BY <3>1, <3>2, <1>1, <1>4 DEF FilesOf, Mail
    <3> QED BY <3>3 DEF Still
  <2> QED BY <2>1, <2>2
<1>12. FormsInv' /\ LocksInv'
  <2>1. FormsInv /\ LocksInv
    BY DEF OutboxInv
  <2> QED BY <1>1, <1>2, <1>9, <1>10, <1>11, <2>1, FormsKept
<1>13. AccessInv'
  BY <1>2, AccessSame DEF OutboxInv
<1>14. SentDelivered' /\ Logged'
  BY <1>2, <1>9, <1>10, MailsKept
<1>15. FilesThere'
  <2>1. SUFFICES ASSUME NEW i \in DOMAIN files', files'[i].live
                 PROVE  \/ files'[i].path \in disk' \cup torn'
                        \/ \E v \in Users : tx'[v].step \notin {"idle", "loaded"} /\ i \in tx'[v].del
    BY DEF FilesThere
  <2>2. CASE i \in 1..Len(files)
    BY <2>1, <2>2, <1>1, <1>2, <1>4, <1>5 DEF OutboxInv, FilesThere
  <2>3. CASE i = Len(files) + 1
    BY <2>3, <1>2, <1>4, <1>5
  <2> QED BY <2>1, <2>2, <2>3, <1>1, <1>4
<1> QED BY <1>6, <1>7, <1>8, <1>12, <1>13, <1>14, <1>15 DEF OutboxInv
-----------------------------------------------------------------------------
(* The pages of forms.                                                     *)

LEMMA BeginOne ==
    ASSUME OutboxInv, NEW u \in Users, NEW t, AForm(t), t.step = "loaded", ~t.answer, Begin(u, t)
    PROVE  OutboxInv'
<1>1. Tables /\ Len(mails) \in Nat /\ Len(files) \in Nat
  BY TablesHold, TableLengths
<1>2. /\ tx[u] = NoForm /\ tx' = [tx EXCEPT ![u] = t]
      /\ UNCHANGED <<storage, access, mails, workflow, undone, copying, out>>
  BY DEF Begin, Unused
<1>3. Tables' /\ Grown /\ Still(t.m)
  <2>1. Tables'
    BY <1>1, <1>2, Wider DEF Tables, MailsInv
  <2>2. Grown
    BY <1>1, <1>2 DEF Grown, storage
  <2> QED BY <1>2, <2>1, <2>2, StillThere DEF storage
<1>4. AForm(t)'
  BY <1>1, <1>3, FormFrame
<1>5. t.locks = {}
  BY DEF AForm, Locked
<1>6. tx[u].step = "idle"
  BY <1>2 DEF NoForm
<1> QED BY <1>2, <1>4, <1>5, <1>6, FormOnly

\* The page of the form of a row.
Opened(what, m, row, gone, del, boxes, on, joins, send) ==
    [step |-> "loaded", what |-> what, m |-> m, row |-> row, gone |-> gone, del |-> del,
     boxes |-> boxes, on |-> on, joins |-> joins, send |-> send, answer |-> FALSE, seen |-> workflow,
     log |-> {}, locks |-> {}]

LEMMA LoadedForm ==
    ASSUME OutboxInv, NEW m \in 0..Len(mails), NEW row \in MailRows, NEW gone \in BOOLEAN,
           NEW del \in SUBSET FilesOf(Mail(m)), NEW boxes \in SUBSET FilesOf(Mail(m)),
           NEW on \in BOOLEAN, NEW joins \in BOOLEAN, NEW send \in BOOLEAN, NEW t,
           t = Opened("mail", m, row, gone, del, boxes, on, joins, send),
           del \cap boxes = {}, gone => boxes = {}, m = 0 => ~row.sent,
           row.sent => Delivered(m) /\ (row.deal /\ ~joins => m \in workflow \cup undone)
    PROVE  AForm(t) /\ t.step = "loaded" /\ ~t.answer
<1>1. Tables /\ Len(mails) \in Nat /\ Len(files) \in Nat /\ DOMAIN files = 1..Len(files)
  BY TablesHold, TableLengths
<1>2. /\ t.step = "loaded" /\ t.what = "mail" /\ t.m = m /\ t.row = row /\ t.gone = gone
      /\ t.del = del /\ t.boxes = boxes /\ t.on = on /\ t.send = send /\ t.answer = FALSE
      /\ t.joins = joins
      /\ t.seen = workflow /\ t.log = {} /\ t.locks = {}
  BY DEF Opened
<1>3. del \subseteq 1..Len(files) /\ boxes \subseteq 1..Len(files)
      /\ \A i \in del \cup boxes : files[i].of = Mail(m)
  BY <1>1 DEF FilesOf
<1>4. workflow \subseteq 1..Len(mails)
  BY <1>1 DEF Tables, FlowInv
<1>5. t \in FormRows(Len(mails), Len(files))
  BY <1>3, <1>4 DEF FormRows, Opened
<1>6. Locked(t)
  BY <1>2 DEF Locked
<1>7. Touched(t)
  BY <1>2, <1>3 DEF Touched
<1>8. Answers(t)
  BY <1>2 DEF Answers
<1> QED BY <1>2, <1>5, <1>6, <1>7, <1>8 DEF AForm

\* What a row that is loaded says of its mail.
LEMMA LoadedRow ==
    ASSUME OutboxInv, NEW m \in DOMAIN mails, mails[m].live
    PROVE  /\ m \in 0..Len(mails) /\ m # 0 /\ mails[m] \in MailRows
           /\ mails[m].sent => Delivered(m) /\ (mails[m].deal => m \in workflow \cup undone)
<1>1. m \in 1..Len(mails) /\ Len(mails) \in Nat /\ mails[m] \in MailRows
  BY TablesHold, TableLengths
<1> QED BY <1>1 DEF OutboxInv, SentDelivered, Logged, Delivered

LEMMA BeginStep ==
    ASSUME OutboxInv, NEW u \in Users,
           \/ BeginAdd(u) \/ BeginDeal(u)
           \/ \E m \in DOMAIN mails : BeginForm(u, m) \/ BeginDelete(u, m)
    PROVE  OutboxInv'
<1>0. Tables /\ Len(mails) \in Nat /\ Len(files) \in Nat /\ DOMAIN files = 1..Len(files)
  BY TablesHold, TableLengths
<1>1. ASSUME BeginAdd(u) PROVE OutboxInv'
  <2>1. PICK text \in Texts, send \in BOOLEAN, deal \in BOOLEAN :
          Begin(u, [Tx("loaded", "mail", 0, Row(u, text, deal, deal)) EXCEPT !.send = send])
    BY <1>1 DEF BeginAdd
  <2>2. PICK t : t = [Tx("loaded", "mail", 0, Row(u, text, deal, deal)) EXCEPT !.send = send]
    OBVIOUS
  <2>a. PICK row, no, none : row = Row(u, text, deal, deal) /\ no = FALSE /\ none = {}
    OBVIOUS
  <2>b. no \in BOOLEAN
    BY <2>a
  <2>3. t = Opened("mail", 0, row, no, none, none, no, no, send)
    BY <2>2, <2>a DEF Tx, Opened
  <2>4. row \in MailRows /\ ~row.sent /\ none \in SUBSET FilesOf(Mail(0))
        /\ none \cap none = {} /\ (no => none = {})
    BY <2>a DEF Row, MailRows
  <2>5. 0 \in 0..Len(mails)
    BY <1>0
  <2>6. AForm(t) /\ t.step = "loaded" /\ ~t.answer
    BY <2>3, <2>4, <2>5, <2>b, LoadedForm
  <2> QED BY <2>1, <2>2, <2>6, BeginOne
<1>2. ASSUME BeginDeal(u) PROVE OutboxInv'
  <2>1. PICK D \in SUBSET FilesOf(TheDeal) : Begin(u, [Tx("loaded", "deal", 0, <<>>) EXCEPT !.del = D])
    BY <1>2 DEF BeginDeal
  <2>2. PICK t : t = [Tx("loaded", "deal", 0, <<>>) EXCEPT !.del = D]
    OBVIOUS
  <2>3. t = Opened("deal", 0, <<>>, FALSE, D, {}, FALSE, FALSE, FALSE)
    BY <2>2 DEF Tx, Opened
  <2>4. D \subseteq 1..Len(files) /\ \A i \in D : files[i].of = TheDeal
    BY <1>0 DEF FilesOf
  <2>5. t \in FormRows(Len(mails), Len(files))
    BY <2>3, <2>4, <1>0 DEF FormRows, Tables, FlowInv, Opened
  <2>6. Locked(t) /\ Touched(t) /\ Answers(t)
    BY <2>3, <2>4 DEF Locked, Touched, Answers, Opened
  <2>7. AForm(t) /\ t.step = "loaded" /\ ~t.answer
    BY <2>3, <2>5, <2>6 DEF AForm, Opened
  <2> QED BY <2>1, <2>2, <2>7, BeginOne
<1>3. ASSUME NEW m \in DOMAIN mails, BeginForm(u, m) PROVE OutboxInv'
  <2>1. PICK text \in Texts, deal \in BOOLEAN, send \in BOOLEAN, on \in BOOLEAN :
         \E D \in SUBSET FilesOf(Mail(m)), T \in SUBSET FilesOf(Mail(m)) :
            /\ D \cap T = {}
            /\ Begin(u, [Page(m, text, deal) EXCEPT !.send = send, !.del = D, !.boxes = T, !.on = on])
    BY <1>3 DEF BeginForm
  <2>2. PICK D \in SUBSET FilesOf(Mail(m)), T \in SUBSET FilesOf(Mail(m)) :
            /\ D \cap T = {}
            /\ Begin(u, [Page(m, text, deal) EXCEPT !.send = send, !.del = D, !.boxes = T, !.on = on])
    BY <2>1
  <2>3. mails[m].live
    BY <1>3 DEF BeginForm
  <2>4. PICK row, joins : /\ row = [mails[m] EXCEPT !.text = text, !.deal = deal]
                          /\ joins = (deal /\ ~mails[m].deal /\ mails[m].sent)
    OBVIOUS
  <2>5. PICK t : t = [Tx("loaded", "mail", m, row)
                        EXCEPT !.send = send, !.del = D, !.boxes = T, !.on = on, !.joins = joins]
    OBVIOUS
  <2>a. PICK no : no = FALSE
    OBVIOUS
  <2>b. no \in BOOLEAN /\ ~no /\ joins \in BOOLEAN
    BY <2>4, <2>a
  <2>6. t = Opened("mail", m, row, no, D, T, on, joins, send)
    BY <2>5, <2>a DEF Tx, Opened
  <2>7. mails[m] \in MailRows
    BY <2>3, LoadedRow
  <2>8. row \in MailRows /\ row.sent = mails[m].sent /\ row.deal = deal
    BY <2>4, <2>7 DEF MailRows
  <2>9. /\ m \in 0..Len(mails) /\ m # 0
        /\ row.sent => Delivered(m) /\ (row.deal /\ ~joins => m \in workflow \cup undone)
    BY <2>3, <2>4, <2>7, <2>8, LoadedRow DEF MailRows
  <2>10. AForm(t) /\ t.step = "loaded" /\ ~t.answer
    BY <2>2, <2>6, <2>8, <2>9, <2>b, LoadedForm
  <2>11. Begin(u, t)
    <3>1. [Page(m, text, deal) EXCEPT !.send = send, !.del = D, !.boxes = T, !.on = on] = t
      BY <2>4, <2>5 DEF Page, Tx
    <3> QED BY <2>2, <3>1
  <2> QED BY <2>10, <2>11, BeginOne
<1>4. ASSUME NEW m \in DOMAIN mails, BeginDelete(u, m) PROVE OutboxInv'
  <2>1. mails[m].live /\ Begin(u, [Tx("loaded", "mail", m, mails[m]) EXCEPT !.gone = TRUE])
    BY <1>4 DEF BeginDelete
  <2>2. PICK row : row = mails[m]
    OBVIOUS
  <2>3. PICK t : t = [Tx("loaded", "mail", m, row) EXCEPT !.gone = TRUE]
    OBVIOUS
  <2>a. PICK yes, no, none : yes = TRUE /\ no = FALSE /\ none = {}
    OBVIOUS
  <2>b. /\ yes \in BOOLEAN /\ no \in BOOLEAN /\ none \in SUBSET FilesOf(Mail(m))
        /\ none \cap none = {} /\ (yes => none = {})
    BY <2>a
  <2>4. t = Opened("mail", m, row, yes, none, none, no, no, no)
    BY <2>3, <2>a DEF Tx, Opened
  <2>5. m \in 0..Len(mails) /\ m # 0 /\ row \in MailRows
        /\ (row.sent => Delivered(m) /\ (row.deal => m \in workflow \cup undone))
    BY <2>1, <2>2, LoadedRow
  <2>6. AForm(t) /\ t.step = "loaded" /\ ~t.answer
    BY <2>4, <2>5, <2>b, LoadedForm
  <2> QED BY <2>1, <2>2, <2>3, <2>6, BeginOne
<1> QED BY <1>1, <1>2, <1>3, <1>4
-----------------------------------------------------------------------------
(* The steps of a form.                                                    *)

LEMMA HasLeast ==
    ASSUME NEW S \in SUBSET Nat, S # {}
    PROVE  \E m \in S : \A n \in S : m <= n
<1> DEFINE R == OpToRel(<, Nat)
<1>1. \E m \in S : \A n \in S : <<n, m>> \notin R
  BY NatLessThanWellFounded, WFMin
<1> HIDE DEF R
<1>2. \A m, n \in S : <<n, m>> \notin R => m <= n
  <2> SUFFICES ASSUME NEW m \in S, NEW n \in S, n < m PROVE <<n, m>> \in R
    OBVIOUS
  <2> QED BY DEF R, OpToRel
<1> QED BY <1>1, <1>2

\* What is unticked are files of the deal.
LEMMA LostOfDeal ==
    ASSUME Tables, NEW T, NEW on
    PROVE  Lost(T, on) \subseteq 1..Len(files) /\ \A j \in Lost(T, on) : files[j].of = TheDeal
<1>1. SUFFICES ASSUME NEW j \in Lost(T, on) PROVE j \in FilesOf(TheDeal)
  BY TableLengths DEF FilesOf
<1>2. PICK i \in T : /\ Matching(i) # {}
                     /\ j = CHOOSE x \in Matching(i) : \A k \in Matching(i) : x <= k
  BY <1>1 DEF Lost
<1>3. Matching(i) \subseteq FilesOf(TheDeal) /\ FilesOf(TheDeal) \subseteq Nat
  BY TableLengths DEF Matching, FilesOf
<1>4. \E x \in Matching(i) : \A k \in Matching(i) : x <= k
  BY <1>2, <1>3, HasLeast
<1>5. j \in Matching(i)
  BY <1>2, <1>4
<1> QED BY <1>3, <1>5

LEMMA SaveStep ==
    ASSUME OutboxInv, NEW u \in Users, SaveForm(u, tx[u])
    PROVE  OutboxInv'
<1>1. Tables /\ Len(mails) \in Nat /\ Len(files) \in Nat /\ DOMAIN files = 1..Len(files)
      /\ \A i \in 1..Len(files) : files[i] \in FileRows(Len(mails))
  BY TablesHold, TableLengths
<1>2. PICK t : t = tx[u]
  OBVIOUS
<1>3. SaveForm(u, t) /\ t.step = "loaded" /\ AForm(t)
  <2>1. tx[u].step # "idle"
    BY DEF SaveForm
  <2> QED BY <1>2, <2>1, OpenForm DEF SaveForm
<1>4. t \in FormRows(Len(mails), Len(files)) /\ Locked(t) /\ Touched(t) /\ Answers(t)
  BY <1>3 DEF AForm
<1>5. /\ t.what \in {"mail", "deal"} /\ t.m \in 0..Len(mails) /\ t.del \subseteq 1..Len(files)
      /\ t.boxes \subseteq 1..Len(files) /\ ~t.answer /\ t.locks = {}
      /\ t.seen \subseteq 1..Len(mails)
  BY <1>3, <1>4 DEF FormRows, Answers, Locked
<1>6. PICK new, m, lock, D :
        /\ new = (t.what = "mail" /\ t.m = 0) /\ m = (IF new THEN Len(mails) + 1 ELSE t.m)
        /\ lock = (IF t.what = "deal" THEN TheDeal ELSE Mail(m))
        /\ D = (IF t.gone THEN FilesOf(Mail(m)) ELSE t.del \cup Lost(t.boxes, t.on))
  OBVIOUS
<1>7. /\ new => Len(mails) < MaxMails
      /\ Unlocked(u, lock) /\ Delete(D)
      /\ mails' = IF new THEN Append(mails, [t.row EXCEPT !.live = FALSE]) ELSE mails
      /\ Step(u, [t EXCEPT !.step = "saved", !.m = m, !.del = D, !.locks = {lock},
                           !.log = IF t.what = "deal" THEN t.seen ELSE {}])
  BY <1>3, <1>6 DEF SaveForm
<1>8. UNCHANGED <<access, files, workflow, copying, out, undone>>
  BY <1>3 DEF SaveForm, Quiet
<1>9. PICK t2 : t2 = [t EXCEPT !.step = "saved", !.m = m, !.del = D, !.locks = {lock},
                           !.log = IF t.what = "deal" THEN t.seen ELSE {}]
  OBVIOUS
<1>10. tx' = [tx EXCEPT ![u] = t2]
  BY <1>7, <1>9 DEF Step
<1>11. /\ t2.step = "saved" /\ t2.what = t.what /\ t2.m = m /\ t2.row = t.row /\ t2.gone = t.gone
       /\ t2.del = D /\ t2.boxes = t.boxes /\ t2.on = t.on /\ t2.send = t.send /\ t2.joins = t.joins
       /\ t2.answer = t.answer /\ t2.seen = t.seen /\ t2.locks = {lock}
       /\ t2.log = IF t.what = "deal" THEN t.seen ELSE {}
  BY <1>4, <1>9 DEF FormRows
<1>11a. t.what = "mail" => m # 0
  <2>1. CASE new
    BY <1>1, <1>6, <2>1
  <2>2. CASE ~new
    BY <1>6, <2>2
  <2> QED BY <2>1, <2>2
<1>12. /\ MailsInv' /\ Len(mails') \in Nat /\ Len(mails) <= Len(mails') /\ m \in 0..Len(mails')
       /\ \A k \in 1..Len(mails) : mails'[k] = mails[k]
       /\ \A k \in 1..Len(mails') : k \in 1..Len(mails) \/ ~mails'[k].live
  <2>1. CASE new
    <3>1. t.row \in MailRows
      BY <1>4, <1>6, <2>1 DEF Locked
    <3>2. PICK row : row = [t.row EXCEPT !.live = FALSE]
      OBVIOUS
    <3>3. row \in MailRows /\ ~row.live
      BY <3>1, <3>2 DEF MailRows
    <3>4. mails' = Append(mails, row) /\ MaxMails \in Nat /\ Len(mails) < MaxMails
      BY <1>7, <2>1, <3>2, OutboxAssumption
    <3>5. mails \in Seq(MailRows)
      BY <1>1 DEF Tables, MailsInv
    <3> HIDE DEF MailRows
    <3>6. /\ mails' \in Seq(MailRows) /\ Len(mails') = Len(mails) + 1
          /\ \A k \in 1..Len(mails) : mails'[k] = mails[k]
          /\ mails'[Len(mails) + 1] = row
      BY <3>3, <3>4, <3>5
    <3> QED BY <3>3, <3>4, <3>6, <1>1, <1>6, <2>1 DEF MailsInv
  <2>2. CASE ~new
    BY <1>1, <1>5, <1>6, <1>7, <2>2 DEF Tables, MailsInv
  <2> QED BY <2>1, <2>2
<1>13. D \subseteq 1..Len(files)
  BY <1>1, <1>5, <1>6, LostOfDeal DEF FilesOf
<1>14. /\ Removed(D) \subseteq Paths
       /\ disk' = disk \ Removed(D) /\ torn' = torn \cup (Removed(D) \cap PathsOf(Again(D)))
  <2>1. PathsOf(D) \subseteq Paths
    BY <1>1, <1>13, PathsTyped
  <2> QED BY <1>7, <2>1 DEF Removed, Delete
<1>15. FilesInv' /\ FlowInv' /\ CopyInv'
  <2>1. FlowInv' /\ CopyInv'
    BY <1>1, <1>8, <1>12, Wider
  <2>2. FileRows(Len(mails)) \subseteq FileRows(Len(mails'))
    BY <1>1, <1>12, FormRange
  <2>3. files \in Seq(FileRows(Len(mails'))) /\ Len(files) <= MaxFiles
    <3> HIDE DEF FileRows
    <3> QED BY <1>1, <2>2 DEF Tables, FilesInv
  <2> QED BY <1>1, <1>8, <1>14, <2>1, <2>3 DEF FilesInv, Tables
<1>16. Tables'
  BY <1>12, <1>15 DEF Tables
<1>17. Grown
  BY <1>1, <1>8, <1>12 DEF Grown
<1>18. AForm(t2)'
  <2>1. /\ Holders(Len(mails)) \subseteq Holders(Len(mails'))
        /\ t \in FormRows(Len(mails'), Len(files))
    BY <1>1, <1>4, <1>12, FormRange
  <2>2. lock \in Holders(Len(mails'))
    <3>1. CASE t.what = "deal"
      BY <1>6, <3>1 DEF Holders
    <3>2. CASE t.what # "deal"
      <4>1. lock = Mail(m) /\ m # 0 /\ m \in 1..Len(mails')
        BY <1>1, <1>5, <1>6, <1>11a, <1>12, <3>2
      <4> QED BY <4>1 DEF Holders
    <3> QED BY <3>1, <3>2
  <2>3. t2 \in FormRows(Len(mails'), Len(files'))
    <3>1. D \in SUBSET (1..Len(files')) /\ {lock} \in SUBSET Holders(Len(mails'))
          /\ (IF t.what = "deal" THEN t.seen ELSE {}) \in SUBSET (1..Len(mails'))
      BY <1>5, <1>8, <1>12, <1>13, <2>2
    <3> HIDE DEF Holders
    <3> QED BY <1>8, <1>9, <1>12, <2>1, <3>1 DEF FormRows
  <2>5. Locked(t2)
    BY <1>4, <1>6, <1>11, <1>11a DEF Locked, Mail, TheDeal
  <2>6. Touched(t2)'
    <3>1. ASSUME NEW i \in t.boxes PROVE files[i].of = Mail(m) /\ i \notin D
      <4>1. files[i].of = Mail(t.m) /\ files[i].of \in Holders(Len(mails)) /\ i \notin t.del /\ ~t.gone
        BY <1>1, <1>4, <1>5, <3>1 DEF Touched, FileRows
      <4>2. t.m # 0
        BY <4>1 DEF Holders, Mail, TheDeal
      <4>3. m = t.m
        BY <1>6, <4>2
      <4>4. i \notin Lost(t.boxes, t.on)
        BY <1>1, <4>1, LostOfDeal DEF Mail, TheDeal
      <4> QED BY <1>6, <4>1, <4>3, <4>4
    <3>2. ASSUME NEW i \in D PROVE \/ files[i].of = Mail(m) /\ t.what = "mail"
                                   \/ files[i].of = TheDeal
      <4>1. CASE t.gone
        BY <1>4, <1>5, <1>6, <3>2, <4>1 DEF FilesOf, Locked
      <4>2. CASE ~t.gone /\ i \in Lost(t.boxes, t.on)
        BY <1>1, <4>2, LostOfDeal
      <4>3. CASE ~t.gone /\ i \in t.del
        <5>1. \/ files[i].of = Mail(t.m) /\ t.what = "mail"
              \/ files[i].of = TheDeal
          BY <1>4, <4>3 DEF Touched
        <5>2. CASE files[i].of = Mail(t.m) /\ t.what = "mail"
          <6>1. files[i].of \in Holders(Len(mails))
            BY <1>1, <1>5, <4>3 DEF FileRows
          <6>2. t.m # 0
            BY <5>2, <6>1 DEF Holders, Mail, TheDeal
          <6> QED BY <1>6, <5>2, <6>2
        <5> QED BY <5>1, <5>2
      <4> QED BY <1>6, <3>2, <4>1, <4>2, <4>3
    <3>3. t.gone => t.boxes = {}
      BY <1>4 DEF Touched
    <3> QED BY <1>8, <1>11, <3>1, <3>2, <3>3 DEF Touched, Mail, TheDeal
  <2>7. Answers(t2)'
    <3>1. ASSUME t.what = "mail", t.row.sent
          PROVE  Delivered(m) /\ (t.row.deal /\ ~t.joins => m \in workflow \cup undone)
      BY <1>4, <1>6, <3>1 DEF Locked, Answers
    <3>2. t.joins => t.what = "mail"
      BY <1>4 DEF Answers
    <3> QED BY <1>5, <1>8, <1>11, <3>1, <3>2 DEF Answers, Delivered
  <2> QED BY <2>3, <2>5, <2>6, <2>7 DEF AForm, Locked, Mail, TheDeal
<1>19. FormsInv' /\ LocksInv'
  <2>1. \A v \in Users \ {u} : t2.locks \cap tx[v].locks = {}
    BY <1>7, <1>11 DEF Unlocked
  <2>2. \A v \in Users : Still(tx[v].m)
    BY <1>8, StillThere
  <2>3. FormsInv /\ LocksInv
    BY DEF OutboxInv
  <2> QED BY <1>1, <1>10, <1>16, <1>17, <1>18, <2>1, <2>2, <2>3, FormsStep
<1>20. AccessInv'
  BY <1>8, AccessSame DEF OutboxInv
<1>21. SentDelivered' /\ Logged'
  BY <1>12, <1>16, <1>17, MailsKept
<1>22. FilesThere'
  <2>1. SUFFICES ASSUME NEW i \in DOMAIN files, files[i].live
                 PROVE  \/ files[i].path \in disk' \cup torn'
                        \/ \E v \in Users : tx'[v].step \notin {"idle", "loaded"} /\ i \in tx'[v].del
    BY <1>8 DEF FilesThere
  <2>2. DOMAIN tx = Users
    BY DEF OutboxInv, FormsInv
  <2>3. CASE \E v \in Users : tx[v].step \notin {"idle", "loaded"} /\ i \in tx[v].del
    <3>1. PICK v \in Users : tx[v].step \notin {"idle", "loaded"} /\ i \in tx[v].del
      BY <2>3
    <3>2. v # u
      BY <1>2, <1>3, <3>1
    <3> QED BY <1>10, <2>2, <3>1, <3>2
  <2>4. CASE files[i].path \in disk \cup torn
    <3>1. CASE files[i].path \in Removed(D)
      <4>1. CASE Naming(files[i].path) \subseteq D
        <5>1. i \in D
          BY <2>1, <4>1 DEF Naming
        <5>2. tx'[u] = t2
          BY <1>10, <2>2
        <5> QED BY <1>11, <5>1, <5>2
      <4>2. CASE files[i].path \in PathsOf(Again(D))
        BY <1>14, <3>1, <4>2
      <4> QED BY <3>1, <4>1, <4>2 DEF Removed
    <3>2. CASE files[i].path \notin Removed(D)
      BY <1>14, <2>4, <3>2
    <3> QED BY <3>1, <3>2
  <2> QED BY <2>1, <2>3, <2>4 DEF OutboxInv, FilesThere
<1> QED BY <1>12, <1>15, <1>19, <1>20, <1>21, <1>22 DEF OutboxInv

\* A form that has asked the server: its files are what they were.
LEMMA Attached ==
    ASSUME UNCHANGED files, NEW t, NEW t2, t2.m = t.m, t2.del = t.del, t2.boxes = t.boxes
    PROVE  Attachments(t2)' = Attachments(t)
BY DEF Attachments, PathsOf, FilesOf, Mail

LEMMA FormFields ==
    ASSUME Tables, NEW t, AForm(t)
    PROVE  /\ t \in FormRows(Len(mails), Len(files)) /\ Locked(t) /\ Touched(t) /\ Answers(t)
           /\ t.m \in 0..Len(mails) /\ t.del \subseteq 1..Len(files) /\ t.boxes \subseteq 1..Len(files)
           /\ t.step \in {"loaded", "saved", "sent", "done"} /\ t.what \in {"mail", "deal"}
           /\ t.seen \subseteq 1..Len(mails) /\ t.on \in BOOLEAN /\ t.answer \in BOOLEAN
           /\ t.gone \in BOOLEAN /\ t.send \in BOOLEAN /\ t.log \subseteq 1..Len(mails)
BY DEF AForm, FormRows

LEMMA SendStep ==
    ASSUME OutboxInv, NEW u \in Users, CannotSend(u, tx[u]) \/ SendMail(u, tx[u])
    PROVE  OutboxInv'
<1>1. Tables /\ Len(mails) \in Nat /\ Len(files) \in Nat
  BY TablesHold, TableLengths
<1>2. PICK t : t = tx[u]
  OBVIOUS
<1>3. CannotSend(u, t) \/ SendMail(u, t)
  BY <1>2
<1>4. t.step = "saved" /\ t.send
  BY <1>3 DEF CannotSend, SendMail, Sendable
<1>5. AForm(t)
  BY <1>2, <1>4, OpenForm
<1>6. /\ t \in FormRows(Len(mails), Len(files)) /\ Locked(t) /\ Touched(t) /\ Answers(t)
      /\ t.what \in {"mail", "deal"}
  BY <1>1, <1>5, FormFields
<1>7. t.what = "mail" /\ ~t.answer /\ TheDeal \notin t.locks
  BY <1>4, <1>6 DEF Locked, Answers
<1>8a. PICK ok \in BOOLEAN :
        /\ tx' = [tx EXCEPT ![u] = [t EXCEPT !.answer = ok, !.step = IF ok THEN "sent" ELSE "done"]]
        /\ ok => Taken(t) \subseteq out'
        /\ out \subseteq out' /\ UNCHANGED <<storage, access, mails, workflow, undone, copying>>
  <2>1. CASE CannotSend(u, t)
    <3>1. PICK no : no = FALSE
      OBVIOUS
    <3>2. [t EXCEPT !.answer = no, !.step = IF no THEN "sent" ELSE "done"] = [t EXCEPT !.step = "done"]
      BY <3>1, <1>6, <1>7 DEF FormRows
    <3>3. /\ tx' = [tx EXCEPT ![u] = [t EXCEPT !.step = "done"]]
          /\ UNCHANGED <<storage, access, mails, workflow, undone, copying, out>>
      BY <2>1 DEF CannotSend, Step, Quiet
    <3> QED BY <3>1, <3>2, <3>3
  <2>2. CASE SendMail(u, t)
    <3>1. PICK taken \in BOOLEAN, ok \in BOOLEAN :
            /\ ok => taken
            /\ out' = IF taken THEN Taken(t) ELSE out
            /\ Step(u, [t EXCEPT !.answer = ok, !.step = IF ok THEN "sent" ELSE "done"])
            /\ Quiet /\ UNCHANGED <<storage, mails, workflow, copying, undone>>
      BY <2>2 DEF SendMail
    <3>2. out \subseteq Taken(t)
      BY DEF Taken
    <3> QED BY <3>1, <3>2 DEF Step, Quiet
  <2> QED BY <1>3, <2>1, <2>2
<1>8. PICK t2 :
        /\ t2 = [t EXCEPT !.answer = ok, !.step = IF ok THEN "sent" ELSE "done"]
        /\ tx' = [tx EXCEPT ![u] = t2]
        /\ ok => Taken(t) \subseteq out'
        /\ out \subseteq out' /\ UNCHANGED <<storage, access, mails, workflow, undone, copying>>
  BY <1>8a
<1>9. /\ t2.step = (IF ok THEN "sent" ELSE "done") /\ t2.what = t.what /\ t2.m = t.m /\ t2.row = t.row
      /\ t2.gone = t.gone /\ t2.del = t.del /\ t2.boxes = t.boxes /\ t2.send = t.send
      /\ t2.joins = t.joins /\ t2.answer = ok /\ t2.seen = t.seen /\ t2.locks = t.locks /\ t2.log = t.log
      /\ t2 \in FormRows(Len(mails), Len(files))
  BY <1>6, <1>8 DEF FormRows
<1>10. Locked(t2)
  BY <1>4, <1>6, <1>7, <1>9 DEF Locked
<1>11. Touched(t2)'
  BY <1>6, <1>7, <1>8, <1>9, <1>4 DEF Touched, storage, Mail, TheDeal
<1>12. ASSUME ok PROVE \E o \in out' : TakenAs(t2, o)'
  <2>1. PICK o : o = [m |-> t.m, text |-> t.row.text, paths |-> Attachments(t),
                      whole |-> \A v \in Users : copying[v].m # t.m]
    OBVIOUS
  <2>2. o \in out'
    BY <1>8, <1>12, <2>1 DEF Taken
  <2>3. o.m = t2.m /\ o.text = t2.row.text /\ o.paths = Attachments(t)
    BY <1>9, <2>1
  <2>4. o.whole => \A v \in Users : copying'[v].m # t2.m
    BY <1>8, <1>9, <2>1
  <2>5. Attachments(t2)' = Attachments(t)
    BY <1>8, <1>9, Attached DEF storage
  <2> QED BY <2>2, <2>3, <2>4, <2>5 DEF TakenAs
<1>13. Answers(t2)'
  <2>1. t.row.sent => Delivered(t.m)' /\ (t.row.deal /\ ~t.joins => t.m \in workflow' \cup undone')
    BY <1>6, <1>7, <1>8 DEF Answers, Delivered
  <2>2. t2.answer => t2.step = "sent"
    BY <1>9
  <2>3. t2.step = "sent" => t2.answer
    BY <1>9
  <2> QED BY <1>7, <1>9, <1>12, <2>1, <2>2, <2>3 DEF Answers, Delivered
<1>14. AForm(t2)'
  BY <1>8, <1>9, <1>10, <1>11, <1>13 DEF AForm, storage, Locked, Mail, TheDeal
<1>15. \A v \in Users \ {u} : t2.locks \cap tx[v].locks = {}
  BY <1>2, <1>9 DEF OutboxInv, LocksInv
<1>16. t2.step \notin {"idle", "loaded"} /\ t2.del = tx[u].del
  BY <1>2, <1>9
<1>17. /\ tx' = [tx EXCEPT ![u] = t2] /\ out \subseteq out'
       /\ UNCHANGED <<storage, access, mails, workflow, undone, copying>>
  BY <1>8
<1> QED BY <1>14, <1>15, <1>16, <1>17, FormOnly

LEMMA EnterStep ==
    ASSUME OutboxInv, NEW u \in Users, EnterWorkflow(u, tx[u])
    PROVE  OutboxInv'
<1>1. Tables /\ Len(mails) \in Nat /\ Len(files) \in Nat
  BY TablesHold, TableLengths
<1>2. PICK t : t = tx[u]
  OBVIOUS
<1>3. EnterWorkflow(u, t) /\ t.step = "sent"
  BY <1>2 DEF EnterWorkflow
<1>4. AForm(t)
  BY <1>2, <1>3, OpenForm
<1>5. /\ t \in FormRows(Len(mails), Len(files)) /\ Locked(t) /\ Touched(t) /\ Answers(t)
      /\ t.seen \subseteq 1..Len(mails) /\ t.m \in 0..Len(mails)
  BY <1>1, <1>4, FormFields
<1>6. t.what = "mail" /\ t.answer /\ TheDeal \notin t.locks /\ t.m \in 1..Len(mails)
  BY <1>1, <1>3, <1>5 DEF Locked, Answers
<1>7. UNCHANGED <<storage, access, mails, workflow, undone, copying, out>>
  BY <1>3 DEF EnterWorkflow, Quiet
<1>8. PICK t2 : /\ tx' = [tx EXCEPT ![u] = t2]
                /\ t2 = IF t.row.deal
                        THEN [t EXCEPT !.step = "done", !.log = Entry(t), !.locks = @ \cup {TheDeal}]
                        ELSE [t EXCEPT !.step = "done"]
                /\ t.row.deal => Unlocked(u, TheDeal)
  BY <1>3 DEF EnterWorkflow, Step
<1>9. /\ t2.step = "done" /\ t2.what = t.what /\ t2.m = t.m /\ t2.row = t.row
      /\ t2.gone = t.gone /\ t2.del = t.del /\ t2.boxes = t.boxes /\ t2.send = t.send
      /\ t2.answer = t.answer /\ t2.seen = t.seen /\ t2.joins = t.joins
      /\ t2.log = (IF t.row.deal THEN t.seen \cup {t.m} ELSE t.log)
      /\ t2.locks = (IF t.row.deal THEN t.locks \cup {TheDeal} ELSE t.locks)
  BY <1>5, <1>8 DEF FormRows, Entry
<1>10. t2 \in FormRows(Len(mails), Len(files))
  <2>1. Entry(t) \in SUBSET (1..Len(mails)) /\ TheDeal \in Holders(Len(mails))
    BY <1>5, <1>6 DEF Entry, Holders
  <2> HIDE DEF Holders, Entry
  <2>2. CASE t.row.deal
    <3>1. t2 = [t EXCEPT !.step = "done", !.log = Entry(t), !.locks = @ \cup {TheDeal}]
      BY <1>8, <2>2
    <3>2. t.locks \cup {TheDeal} \in SUBSET Holders(Len(mails))
      BY <1>5, <2>1 DEF FormRows
    <3> QED BY <1>5, <2>1, <3>1, <3>2 DEF FormRows
  <2>3. CASE ~t.row.deal
    BY <1>5, <1>8, <2>3 DEF FormRows
  <2> QED BY <2>2, <2>3
<1>11. Locked(t2) /\ Touched(t2)
  BY <1>3, <1>5, <1>6, <1>9 DEF Locked, Touched
<1>12. Answers(t2)
  <2>1. PICK o \in out : TakenAs(t, o)
    BY <1>5, <1>6 DEF Answers
  <2>2. Attachments(t2) = Attachments(t)
    BY <1>9 DEF Attachments
  <2>3. TakenAs(t2, o)
    BY <1>9, <2>1, <2>2 DEF TakenAs
  <2>4. t2.row.deal => TheDeal \in t2.locks
    BY <1>9
  <2> QED BY <1>5, <1>6, <1>9, <2>3, <2>4 DEF Answers
<1>13. AForm(t2)
  BY <1>10, <1>11, <1>12 DEF AForm
<1>14. Tables' /\ Grown /\ Still(t2.m)
  <2>1. Tables'
    BY <1>1, <1>7, Wider DEF Tables, MailsInv
  <2>2. Grown
    BY <1>1, <1>7 DEF Grown, storage
  <2> QED BY <1>7, <2>1, <2>2, StillThere DEF storage
<1>15. AForm(t2)'
  BY <1>1, <1>13, <1>14, FormFrame
<1>16. \A v \in Users \ {u} : t2.locks \cap tx[v].locks = {}
  <2>1. \A v \in Users \ {u} : t.locks \cap tx[v].locks = {}
    BY <1>2 DEF OutboxInv, LocksInv
  <2>2. t.row.deal => \A v \in Users \ {u} : TheDeal \notin tx[v].locks
    BY <1>8 DEF Unlocked
  <2> QED BY <1>9, <2>1, <2>2
<1>17. t2.step \notin {"idle", "loaded"} /\ t2.del = tx[u].del
  BY <1>2, <1>9
<1> QED BY <1>7, <1>8, <1>15, <1>16, <1>17, FormOnly

LEMMA AbortStep ==
    ASSUME OutboxInv, NEW u \in Users, Abort(u, tx[u])
    PROVE  OutboxInv'
<1>1. Tables /\ Len(mails) \in Nat /\ Len(files) \in Nat /\ DOMAIN files = 1..Len(files)
  BY TablesHold, TableLengths
<1>2. PICK t : t = tx[u]
  OBVIOUS
<1>3. Abort(u, t) /\ t.step # "idle" /\ t.step # "loaded"
  BY <1>2 DEF Abort
<1>4. AForm(t)
  BY <1>2, <1>3, OpenForm
<1>5. t.del \subseteq 1..Len(files)
  BY <1>1, <1>4, FormFields
<1>6. /\ tx' = [tx EXCEPT ![u] = NoForm] /\ torn' = torn \cup PathsOf(t.del)
      /\ UNCHANGED <<files, disk, access, mails, workflow, copying, undone>>
  BY <1>3 DEF Abort, Step, Undo
<1>7. out \subseteq out'
  BY <1>3 DEF Abort, Taken
<1>8. MailsInv' /\ FlowInv' /\ CopyInv'
  BY <1>1, <1>6, Wider DEF Tables, MailsInv
<1>9. FilesInv'
  BY <1>1, <1>5, <1>6, PathsTyped DEF Tables, FilesInv
<1>10. Tables'
  BY <1>8, <1>9 DEF Tables
<1>11. Grown
  BY <1>1, <1>6, <1>7 DEF Grown
<1>12. FormsInv' /\ LocksInv'
  <2>1. \A v \in Users : Still(tx[v].m)
    BY <1>6, StillThere
  <2>2. FormsInv /\ LocksInv
    BY DEF OutboxInv
  <2>3. \A v \in Users \ {u} : NoForm.locks \cap tx[v].locks = {}
    BY DEF NoForm
  <2>4. PICK t2 : t2 = NoForm
    OBVIOUS
  <2> QED BY <1>1, <1>6, <1>10, <1>11, <2>1, <2>2, <2>3, <2>4, FormsStep
<1>13. AccessInv'
  BY <1>6, AccessSame DEF OutboxInv
<1>14. SentDelivered' /\ Logged'
  BY <1>6, <1>10, <1>11, MailsKept
<1>15. FilesThere'
  <2>1. SUFFICES ASSUME NEW i \in DOMAIN files, files[i].live
                 PROVE  \/ files[i].path \in disk \cup torn'
                        \/ \E v \in Users : tx'[v].step \notin {"idle", "loaded"} /\ i \in tx'[v].del
    BY <1>6 DEF FilesThere
  <2>2. CASE files[i].path \in disk \cup torn
    BY <1>6, <2>2
  <2>3. ASSUME NEW v \in Users, tx[v].step \notin {"idle", "loaded"}, i \in tx[v].del
        PROVE  \/ files[i].path \in disk \cup torn'
               \/ \E w \in Users : tx'[w].step \notin {"idle", "loaded"} /\ i \in tx'[w].del
    <3>1. CASE v = u
      <4>1. files[i].path \in PathsOf(t.del)
        BY <1>2, <2>3, <3>1 DEF PathsOf
      <4> QED BY <1>6, <4>1
    <3>2. CASE v # u
      <4>1. tx'[v] = tx[v]
        BY <1>6, <3>2 DEF OutboxInv, FormsInv
      <4> QED BY <2>3, <4>1
    <3> QED BY <3>1, <3>2
  <2> QED BY <2>1, <2>2, <2>3 DEF OutboxInv, FilesThere
<1> QED BY <1>8, <1>9, <1>12, <1>13, <1>14, <1>15 DEF OutboxInv
-----------------------------------------------------------------------------
(* The end of a form.                                                      *)

\* What becomes of the rows of files.
Replaced(t) ==
    /\ Rewritten(Len(mails), files, t.boxes, t.del, t.on, files')
    /\ Len(files') <= MaxFiles

LEMMA CommitFiles ==
    ASSUME OutboxInv, NEW u \in Users, NEW t, t = tx[u], Commit(u, t)
    PROVE  AForm(t) /\ Replaced(t)
<1>1. Tables /\ Len(mails) \in Nat /\ Len(files) \in Nat
  BY TablesHold, TableLengths
<1>2. AForm(t)
  <2>1. tx[u].step # "idle"
    BY DEF Commit
  <2> QED BY <2>1, OpenForm
<1>3. t.del \subseteq 1..Len(files) /\ t.boxes \subseteq 1..Len(files) /\ t.on \in BOOLEAN
  BY <1>1, <1>2, FormFields
<1>4. files \in Seq(FileRows(Len(mails)))
  BY <1>1 DEF Tables, FilesInv
<1>5. /\ files' = Without(t.del, Boxes(t.boxes, t.on, files))
      /\ Len(files) + Cardinality(t.boxes) <= MaxFiles
  BY DEF Commit, Insert
<1>6. Cardinality(t.boxes) \in Nat /\ MaxFiles \in Nat
  <2>1. IsFiniteSet(1..Len(files))
    BY <1>1, FS_Interval
  <2> QED BY <1>3, <2>1, FS_Subset, FS_CardinalityType, OutboxAssumption
<1>7. Rewritten(Len(mails), files, t.boxes, t.del, t.on, files')
  <2>1. PICK n, T, D, new : n = Len(mails) /\ T = t.boxes /\ D = t.del /\ new = files'
    OBVIOUS
  <2>2. PICK on \in BOOLEAN : on = t.on
    BY <1>3
  <2>3. /\ n \in Nat /\ files \in Seq(FileRows(n)) /\ T \in SUBSET (1..Len(files))
        /\ D \in SUBSET (1..Len(files))
    BY <1>1, <1>3, <1>4, <2>1
  <2>4. new = Without(D, Boxes(T, on, files))
    BY <1>5, <2>1, <2>2
  <2>5. Rewritten(n, files, T, D, on, new)
    BY <2>3, <2>4, CommittedRows
  <2> QED BY <2>1, <2>2, <2>5
<1>8. Len(files') <= MaxFiles
  <2>1. Len(files') \in Nat /\ Len(files') <= Len(files) + Cardinality(t.boxes)
    BY <1>7 DEF Rewritten
  <2> QED BY <1>1, <1>5, <1>6, <2>1
<1> QED BY <1>2, <1>7, <1>8 DEF Replaced

LEMMA CommitStep ==
    ASSUME OutboxInv, NEW u \in Users, Commit(u, tx[u])
    PROVE  OutboxInv'
<1>1. Tables /\ Len(mails) \in Nat /\ Len(files) \in Nat /\ DOMAIN files = 1..Len(files)
      /\ \A i \in 1..Len(files) : files[i] \in FileRows(Len(mails))
  BY TablesHold, TableLengths
<1>2. PICK t : t = tx[u]
  OBVIOUS
<1>3. Commit(u, t) /\ AForm(t) /\ Replaced(t)
  BY <1>2, CommitFiles
<1>4. /\ Locked(t) /\ Touched(t) /\ Answers(t) /\ t.m \in 0..Len(mails)
      /\ t.del \subseteq 1..Len(files) /\ t.boxes \subseteq 1..Len(files)
      /\ t.what \in {"mail", "deal"} /\ t.seen \subseteq 1..Len(mails) /\ t.log \subseteq 1..Len(mails)
      /\ t.answer \in BOOLEAN /\ t.gone \in BOOLEAN
  BY <1>1, <1>3, FormFields
<1>5. t.step \in {"saved", "done"} /\ (t.step = "done" \/ ~t.send)
  BY <1>3 DEF Commit
<1>6. /\ mails' = IF t.what = "mail" THEN [mails EXCEPT ![t.m] = Saved(t)] ELSE mails
      /\ workflow' = IF TheDeal \in t.locks THEN t.log ELSE workflow
      /\ undone' = undone \cup (IF TheDeal \in t.locks THEN workflow \ t.seen ELSE {})
                         \cup (IF t.joins /\ ~t.answer THEN {t.m} ELSE {})
      /\ tx' = [tx EXCEPT ![u] = NoForm] /\ UNCHANGED <<access, disk, copying, out>>
  BY <1>3 DEF Commit, Step
<1>7. t.what = "mail" => t.m \in 1..Len(mails) /\ t.row \in MailRows /\ Saved(t) \in MailRows
  <2>1. ASSUME t.what = "mail" PROVE t.m \in 1..Len(mails) /\ t.row \in MailRows
    BY <1>1, <1>4, <1>5, <2>1 DEF Locked
  <2>2. ASSUME t.what = "mail" PROVE Saved(t) \in MailRows
    BY <1>4, <2>1, <2>2 DEF Saved, MailRows
  <2> QED BY <2>1, <2>2
<1>8. /\ MailsInv' /\ Len(mails') = Len(mails)
      /\ \A m \in 1..Len(mails) : mails'[m] = IF t.what = "mail" /\ t.m = m THEN Saved(t) ELSE mails[m]
  <2>1. CASE t.what = "mail"
    <3>1. mails' = [mails EXCEPT ![t.m] = Saved(t)] /\ mails \in Seq(MailRows)
      BY <1>1, <1>6, <2>1 DEF Tables, MailsInv
    <3> HIDE DEF MailRows
    <3> QED BY <1>1, <1>7, <2>1, <3>1 DEF Tables, MailsInv
  <2>2. CASE t.what # "mail"
    BY <1>1, <1>6, <2>2 DEF Tables, MailsInv
  <2> QED BY <2>1, <2>2
<1>9. FlowInv' /\ workflow \cup undone \subseteq workflow' \cup undone'
  <2>1. (IF t.joins /\ ~t.answer THEN {t.m} ELSE {}) \subseteq 1..Len(mails)
    BY <1>4, <1>7 DEF Answers
  <2>2. CASE TheDeal \in t.locks
    <3>1. t.seen \subseteq t.log
      BY <1>4, <1>5, <2>2 DEF Locked
    <3>2. workflow' = t.log /\ workflow \ t.seen \subseteq undone' /\ undone \subseteq undone'
      BY <1>6, <2>2
    <3>3. undone' \subseteq 1..Len(mails)
      BY <1>1, <1>6, <2>1, <2>2 DEF FlowInv, Tables
    <3> QED BY <1>4, <1>8, <3>1, <3>2, <3>3 DEF FlowInv
  <2>3. CASE TheDeal \notin t.locks
    BY <1>1, <1>6, <1>8, <2>1, <2>3 DEF FlowInv, Tables
  <2> QED BY <2>2, <2>3
<1>10. CopyInv'
  BY <1>1, <1>6, <1>8 DEF CopyInv, Tables
<1>11. /\ DOMAIN files' = 1..Len(files') /\ Len(files') \in Nat
       /\ \A i \in 1..Len(files') : files'[i] \in FileRows(Len(mails))
       /\ \A i \in DOMAIN files' : i \in 1..Len(files) \/ i \in Len(files) + 1..Len(files')
  BY <1>1, <1>3 DEF Replaced, Rewritten
<1>12. torn' = torn \cup ({files'[i].path : i \in {x \in DOMAIN files' : x \notin DOMAIN files \/ ~files[x].live}
                                        \cap {x \in DOMAIN files' : files'[x].live}} \ disk)
  BY <1>3 DEF Commit, Insert
<1>13. FilesInv'
  <2>1. \A i \in 1..Len(files') : files'[i].path \in Paths
    BY <1>11 DEF FileRows
  <2>2. torn' \subseteq Paths
    BY <1>1, <1>11, <1>12, <2>1 DEF Tables, FilesInv
  <2> QED BY <1>1, <1>3, <1>6, <1>8, <2>2 DEF Tables, FilesInv, Replaced, Rewritten
<1>14. Tables'
  BY <1>8, <1>9, <1>10, <1>13 DEF Tables
<1>15. Grown
  BY <1>1, <1>3, <1>6, <1>8, <1>9 DEF Grown, Replaced, Rewritten
<1>16. FormsInv' /\ LocksInv'
  <2>1. ASSUME NEW v \in Users \ {u}, tx[v] # NoForm, tx[v].answer PROVE Still(tx[v].m)
    <3>1. PICK k : k = tx[v].m
      OBVIOUS
    <3>2. Mail(k) \in tx[v].locks /\ tx[v].what = "mail"
      BY <2>1, <3>1 DEF OutboxInv, FormsInv, AForm, Answers, Locked
    <3>3. t.what = "mail" => Mail(t.m) \in t.locks
      BY <1>4, <1>5 DEF Locked
    <3>4. t.locks \cap tx[v].locks = {}
      BY <1>2 DEF OutboxInv, LocksInv
    <3>5. t.what = "mail" => Mail(t.m) # Mail(k)
      BY <3>2, <3>3, <3>4
    <3>6. \A i \in t.del \cup t.boxes : files[i].of # Mail(k)
      <4>1. ASSUME NEW i \in t.del PROVE files[i].of # Mail(k)
        BY <1>4, <3>5, <4>1 DEF Touched, Mail, TheDeal
      <4>2. ASSUME NEW i \in t.boxes PROVE files[i].of # Mail(k)
        BY <1>4, <3>5, <4>2 DEF Touched, Locked
      <4> QED BY <4>1, <4>2
    <3>7. FilesOf(Mail(k))' = FilesOf(Mail(k))
      <4>1. ASSUME NEW i \in 1..Len(files)
            PROVE  files'[i].live /\ files'[i].of = Mail(k) <=> files[i].live /\ files[i].of = Mail(k)
        <5>1. files[i].live \in BOOLEAN
          BY <1>1 DEF FileRows
        <5>2. files'[i].of = files[i].of /\ files'[i].live = (i \notin t.del /\ (files[i].live \/ i \in t.boxes))
          BY <1>3 DEF Replaced, Rewritten
        <5> QED BY <3>6, <5>1, <5>2
      <4>2. \A i \in Len(files) + 1..Len(files') : files'[i].of # Mail(k)
        BY <1>3 DEF Replaced, Rewritten, Mail, TheDeal
      <4>3. \A i \in 1..Len(files) : i \in DOMAIN files'
        BY <1>1, <1>3, <1>11 DEF Replaced, Rewritten
      <4> QED BY <1>1, <1>11, <4>1, <4>2, <4>3 DEF FilesOf, Mail
    <3>8. tx'[v] = tx[v]
      BY <1>6 DEF OutboxInv, FormsInv
    <3> QED BY <3>1, <3>7, <3>8 DEF Still
  <2>2. FormsInv /\ LocksInv
    BY DEF OutboxInv
  <2>3. \A v \in Users \ {u} : NoForm.locks \cap tx[v].locks = {}
    BY DEF NoForm
  <2>4. PICK t2 : t2 = NoForm
    OBVIOUS
  <2> QED BY <1>1, <1>6, <1>14, <1>15, <2>1, <2>2, <2>3, <2>4, FormsStep
<1>17. AccessInv'
  BY <1>6, AccessSame DEF OutboxInv
<1>18. t.what = "mail" => /\ Saved(t).sent = (t.row.sent \/ t.answer)
                          /\ Saved(t).deal = t.row.deal /\ Saved(t).live = ~t.gone
                          /\ Saved(t).text = t.row.text
  BY <1>7 DEF Saved, MailRows
<1>19. SentDelivered' /\ Logged'
  <2>1. DOMAIN mails = 1..Len(mails) /\ DOMAIN mails' = 1..Len(mails)
    BY <1>1, <1>8, <1>14 DEF Tables, MailsInv
  <2>2. ASSUME NEW m \in 1..Len(mails), mails'[m].sent, mails'[m].live
        PROVE  (\E o \in out' : o.m = m) /\ (mails'[m].deal => m \in workflow' \cup undone')
    <3>1. CASE t.what = "mail" /\ t.m = m
      <4>1. mails'[m] = Saved(t) /\ (t.row.sent \/ t.answer) /\ mails'[m].deal = t.row.deal
        BY <1>8, <1>18, <2>2, <3>1
      <4>2. CASE t.row.sent /\ ~t.answer
        <5>1. Delivered(m) /\ (t.row.deal /\ ~t.joins => m \in workflow \cup undone)
          BY <1>4, <3>1, <4>2 DEF Answers
        <5>2. t.joins => m \in undone'
          BY <1>6, <3>1, <4>2
        <5> QED BY <1>6, <1>9, <4>1, <5>1, <5>2 DEF Delivered
      <4>3. CASE t.answer
        <5>1. PICK o \in out : TakenAs(t, o)
          BY <1>4, <4>3 DEF Answers
        <5>2. o \in out' /\ o.m = m
          BY <1>6, <3>1, <5>1 DEF TakenAs
        <5>3. ASSUME t.row.deal PROVE m \in workflow'
          <6>1. TheDeal \in t.locks
            BY <1>4, <1>5, <4>3, <5>3 DEF Answers
          <6> QED BY <1>4, <1>5, <1>6, <3>1, <6>1 DEF Locked
        <5> QED BY <4>1, <5>2, <5>3
      <4> QED BY <4>1, <4>2, <4>3
    <3>2. CASE ~(t.what = "mail" /\ t.m = m)
      <4>1. mails'[m] = mails[m]
        BY <1>8, <3>2
      <4> QED BY <1>6, <1>9, <2>1, <2>2, <4>1 DEF OutboxInv, SentDelivered, Logged
    <3> QED BY <3>1, <3>2
  <2> QED BY <2>1, <2>2 DEF SentDelivered, Logged
<1>20. FilesThere'
  <2>1. SUFFICES ASSUME NEW i \in DOMAIN files', files'[i].live
                 PROVE  \/ files'[i].path \in disk' \cup torn'
                        \/ \E v \in Users : tx'[v].step \notin {"idle", "loaded"} /\ i \in tx'[v].del
    BY DEF FilesThere
  <2>2. CASE i \in 1..Len(files) /\ files[i].live
    <3>1. i \notin t.del /\ files'[i].path = files[i].path
      BY <1>3, <2>1, <2>2 DEF Replaced, Rewritten
    <3>2. CASE files[i].path \in disk \cup torn
      BY <1>6, <1>12, <3>1, <3>2
    <3>3. ASSUME NEW v \in Users, tx[v].step \notin {"idle", "loaded"}, i \in tx[v].del
          PROVE  \E w \in Users : tx'[w].step \notin {"idle", "loaded"} /\ i \in tx'[w].del
      <4>1. v # u
        BY <1>2, <3>1, <3>3
      <4>2. tx'[v] = tx[v]
        BY <1>6, <4>1 DEF OutboxInv, FormsInv
      <4> QED BY <3>3, <4>2
    <3> QED BY <1>1, <2>2, <3>2, <3>3 DEF OutboxInv, FilesThere
  <2>3. CASE i \notin 1..Len(files) \/ ~files[i].live
    <3>1. i \in {x \in DOMAIN files' : x \notin DOMAIN files \/ ~files[x].live}
                   \cap {x \in DOMAIN files' : files'[x].live}
      BY <1>1, <2>1, <2>3
    <3> QED BY <1>6, <1>12, <3>1
  <2> QED BY <2>2, <2>3
<1> QED BY <1>8, <1>9, <1>10, <1>13, <1>16, <1>17, <1>19, <1>20 DEF OutboxInv
-----------------------------------------------------------------------------
(* The account alone, and the invariant.                                   *)

LEMMA AccountOnly ==
    ASSUME OutboxInv, AccessInv',
           UNCHANGED <<storage, mails, workflow, tx, copying, out, undone>>
    PROVE  OutboxInv'
<1>1. Tables /\ Len(mails) \in Nat /\ Len(files) \in Nat
  BY TablesHold, TableLengths
<1>2. MailsInv' /\ FilesInv' /\ FlowInv' /\ CopyInv' /\ Tables'
  BY <1>1, Wider DEF Tables, MailsInv
<1>3. Grown
  BY <1>1 DEF Grown, storage
<1>4. FormsInv' /\ LocksInv'
  <2>1. \A v \in Users : Still(tx[v].m)
    BY StillThere DEF storage
  <2>2. FormsInv /\ LocksInv
    BY DEF OutboxInv
  <2> QED BY <1>1, <1>2, <1>3, <2>1, <2>2, FormsKept
<1>5. SentDelivered' /\ Logged'
  BY <1>2, <1>3, MailsKept
<1>6. FilesThere'
  BY FilesThereKept DEF OutboxInv
<1> QED BY <1>2, <1>4, <1>5, <1>6 DEF OutboxInv

LEMMA AccountStep ==
    ASSUME OutboxInv, ReadAccount \/ WriteAccount,
           UNCHANGED <<storage, mails, workflow, tx, copying, out, undone>>
    PROVE  OutboxInv'
<1>1. AccessInv'
  BY AccessStep DEF OutboxInv
<1> QED BY <1>1, AccountOnly

LEMMA NextHolds == OutboxInv /\ [OutboxNext]_outboxVars => OutboxInv'
<1> SUFFICES ASSUME OutboxInv, [OutboxNext]_outboxVars PROVE OutboxInv'
  OBVIOUS
<1>1. ASSUME NEW u \in Users, CreateEmail(u) \/ \E m \in DOMAIN mails : ReplyEmail(u, m)
      PROVE  OutboxInv'
  BY <1>1, ViewStep
<1>2. ASSUME NEW u \in Users, CopyFile(u) PROVE OutboxInv'
  BY <1>2, CopyStep
<1>3. ASSUME NEW u \in Users, EndView(u) \/ StopView(u) PROVE OutboxInv'
  BY <1>3, EndStep
<1>4. ASSUME NEW u \in Users,
             \/ BeginAdd(u) \/ BeginDeal(u)
             \/ \E m \in DOMAIN mails : BeginForm(u, m) \/ BeginDelete(u, m)
      PROVE  OutboxInv'
  BY <1>4, BeginStep
<1>5. ASSUME NEW u \in Users, SaveForm(u, tx[u]) PROVE OutboxInv'
  BY <1>5, SaveStep
<1>6. ASSUME NEW u \in Users, CannotSend(u, tx[u]) \/ SendMail(u, tx[u]) PROVE OutboxInv'
  BY <1>6, SendStep
<1>7. ASSUME NEW u \in Users, EnterWorkflow(u, tx[u]) PROVE OutboxInv'
  BY <1>7, EnterStep
<1>8. ASSUME NEW u \in Users, Commit(u, tx[u]) PROVE OutboxInv'
  BY <1>8, CommitStep
<1>9. ASSUME NEW u \in Users, Abort(u, tx[u]) PROVE OutboxInv'
  BY <1>9, AbortStep
<1>10. CASE /\ (ReadAccount /\ Use) \/ (WriteAccount /\ UNCHANGED clicks)
            /\ UNCHANGED <<storage, mails, workflow, tx, copying, out, undone, failures>>
  BY <1>10, AccountStep
<1>11. CASE UNCHANGED outboxVars
  <2>1. AccessInv'
    BY <1>11, AccessSame DEF OutboxInv, outboxVars
  <2> QED BY <1>11, <2>1, AccountOnly DEF outboxVars
<1> QED BY <1>1, <1>2, <1>3, <1>4, <1>5, <1>6, <1>7, <1>8, <1>9, <1>10, <1>11 DEF OutboxNext

LEMMA InvSound == OutboxInv => OutboxSound
<1> SUFFICES ASSUME OutboxInv PROVE OutboxSound
  OBVIOUS
<1>1. Tables /\ DOMAIN mails = 1..Len(mails) /\ DOMAIN files = 1..Len(files)
      /\ \A i \in 1..Len(files) : files[i] \in FileRows(Len(mails))
  BY TablesHold, TableLengths
<1>2. OutboxTypeOK
  <2>1. \A i \in DOMAIN files : files[i].of \in {TheDeal} \cup {Mail(m) : m \in DOMAIN mails}
    BY <1>1 DEF FileRows, Holders
  <2> QED BY <1>1, <2>1 DEF OutboxTypeOK, Tables, MailsInv, FilesInv, FlowInv
<1> QED BY <1>2 DEF OutboxInv, OutboxSound, AccessInv
-----------------------------------------------------------------------------
(* What the end of a form leaves.                                          *)

\* No other step changes a mail that is there, or a row of a file.
LEMMA OthersKeep ==
    ASSUME OutboxInv, OutboxNext, \A u \in Users : ~Commit(u, tx[u])
    PROVE  /\ \A m \in DOMAIN mails : mails'[m] = mails[m]
           /\ \A i \in DOMAIN files : files'[i] = files[i]
<1>1. /\ mails \in Seq(MailRows) /\ files \in Seq(FileRows(Len(mails)))
      /\ DOMAIN mails = 1..Len(mails) /\ DOMAIN files = 1..Len(files)
  BY TablesHold, TableLengths DEF Tables, MailsInv, FilesInv
<1> DEFINE Kept == /\ \A m \in DOMAIN mails : mails'[m] = mails[m]
                   /\ \A i \in DOMAIN files : files'[i] = files[i]
<1>2. ASSUME NEW row, mails' = Append(mails, row) PROVE \A m \in DOMAIN mails : mails'[m] = mails[m]
  BY <1>1, <1>2
<1>3. ASSUME NEW row, files' = Append(files, row) PROVE \A i \in DOMAIN files : files'[i] = files[i]
  BY <1>1, <1>3
<1>4. ASSUME NEW u, NEW row, NEW paths, Make(u, row, paths) PROVE Kept
  BY <1>2, <1>4 DEF Make, storage
<1>5. ASSUME NEW u, CreateEmail(u) \/ \E m \in DOMAIN mails : ReplyEmail(u, m) PROVE Kept
  BY <1>4, <1>5 DEF CreateEmail, ReplyEmail
<1>6. ASSUME NEW u, CopyFile(u) PROVE Kept
  BY <1>3, <1>6 DEF CopyFile, Insert
<1>7. ASSUME NEW u, EndView(u) \/ StopView(u) PROVE Kept
  BY <1>7 DEF EndView, StopView, storage
<1>8. ASSUME NEW u, \/ BeginAdd(u) \/ BeginDeal(u)
                    \/ \E m \in DOMAIN mails : BeginForm(u, m) \/ BeginDelete(u, m)
      PROVE  Kept
  <2>1. ASSUME NEW t, Begin(u, t) PROVE Kept
    BY <2>1 DEF Begin, storage
  <2> QED BY <1>8, <2>1 DEF BeginAdd, BeginDeal, BeginForm, BeginDelete
<1>9. ASSUME NEW u, SaveForm(u, tx[u]) PROVE Kept
  BY <1>2, <1>9 DEF SaveForm
<1>10. ASSUME NEW u, \/ CannotSend(u, tx[u]) \/ SendMail(u, tx[u]) \/ EnterWorkflow(u, tx[u])
                     \/ Abort(u, tx[u])
       PROVE  Kept
  BY <1>10 DEF CannotSend, SendMail, EnterWorkflow, Abort, storage
<1>11. ASSUME UNCHANGED <<storage, mails, workflow, tx, copying, out, undone, failures>> PROVE Kept
  BY <1>11 DEF storage
<1> QED BY <1>5, <1>6, <1>7, <1>8, <1>9, <1>10, <1>11 DEF OutboxNext
\* The files of a mail that its form attaches are those it has when it is saved.
LEMMA LeftFiles ==
    ASSUME Tables, NEW t, AForm(t), Replaced(t), NEW k, k = t.m,
           t.what = "mail", t.step # "loaded"
    PROVE  Attachments(t) = {files'[i].path : i \in
              {x \in DOMAIN files' : files'[x].live /\ files'[x].of = Mail(k)}}
<1> DEFINE S == (FilesOf(Mail(k)) \ t.del) \cup t.boxes
           L == {x \in DOMAIN files' : files'[x].live /\ files'[x].of = Mail(k)}
<1>1. /\ Len(files) \in Nat /\ DOMAIN files = 1..Len(files)
      /\ \A i \in 1..Len(files) : files[i].live \in BOOLEAN
      /\ t.boxes \subseteq 1..Len(files)
  BY TableLengths, FormFields DEF FileRows
<1>2. /\ DOMAIN files' = 1..Len(files') /\ Len(files') \in Nat /\ Len(files) <= Len(files')
      /\ \A i \in 1..Len(files) :
           /\ files'[i].of = files[i].of /\ files'[i].path = files[i].path
           /\ files'[i].live = (i \notin t.del /\ (files[i].live \/ i \in t.boxes))
      /\ \A i \in Len(files) + 1..Len(files') : files'[i].of = TheDeal
  BY DEF Replaced, Rewritten
<1>3. \A i \in t.boxes : files[i].of = Mail(k) /\ i \notin t.del
  BY DEF AForm, Touched
<1>4. Mail(k) # TheDeal
  BY DEF Mail, TheDeal
<1>5. S \subseteq 1..Len(files)
  BY <1>1 DEF FilesOf
<1>6. ASSUME NEW i \in 1..Len(files) PROVE i \in S <=> files'[i].live /\ files'[i].of = Mail(k)
  <2>1. i \in S <=> (files[i].live /\ files[i].of = Mail(k) /\ i \notin t.del) \/ i \in t.boxes
    BY <1>1 DEF FilesOf
  <2>2. files'[i].of = files[i].of /\ files'[i].live = (i \notin t.del /\ (files[i].live \/ i \in t.boxes))
    BY <1>2
  <2>3. files[i].live \in BOOLEAN
    BY <1>1
  <2> QED BY <1>3, <2>1, <2>2, <2>3
<1>7. \A i \in DOMAIN files' : i \in 1..Len(files) \/ files'[i].of # Mail(k)
  BY <1>1, <1>2, <1>4
<1>8. L = S
  <2>1. \A i \in 1..Len(files) : i \in DOMAIN files'
    BY <1>1, <1>2
  <2> HIDE DEF S
  <2> QED BY <1>5, <1>6, <1>7, <2>1
<1>9. \A i \in S : files'[i].path = files[i].path
  BY <1>2, <1>5
<1>10. Attachments(t) = {files[i].path : i \in S}
  BY DEF Attachments, PathsOf
<1> HIDE DEF S, L
<1>11. Attachments(t) = {files'[i].path : i \in L}
  BY <1>8, <1>9, <1>10
<1> QED BY <1>11 DEF L

SentOne(m) ==
    \/ \E o \in out' :
         /\ o.m = m /\ o.text = mails'[m].text
         /\ o.whole => o.paths = {files'[i].path : i \in
               {x \in DOMAIN files' : files'[x].live /\ files'[x].of = Mail(m)}}
    \/ \E u \in Users : /\ tx[u] # NoForm /\ tx'[u] = NoForm
                        /\ tx[u].what = "mail" /\ tx[u].m = m /\ tx[u].row.sent
AttachedOne(i) ==
    /\ files'[i].of = files[i].of
    /\ \E j \in DOMAIN files' : files'[j].live /\ files'[j].of = TheDeal
                                 /\ files'[j].path = files[i].path

LEMMA CommitSends ==
    ASSUME OutboxInv, NEW u \in Users, Commit(u, tx[u]), NEW m \in DOMAIN mails,
           mails'[m].sent, mails'[m].live, ~mails[m].sent
    PROVE  SentOne(m)
<1>1. Tables /\ Len(mails) \in Nat /\ DOMAIN mails = 1..Len(mails)
  BY TablesHold, TableLengths
<1>2. PICK t : t = tx[u]
  OBVIOUS
<1>3. Commit(u, t) /\ AForm(t) /\ Replaced(t)
  BY <1>2, CommitFiles
<1>4. /\ Locked(t) /\ Answers(t) /\ t.answer \in BOOLEAN /\ t.what \in {"mail", "deal"}
  BY <1>1, <1>3, FormFields
<1>5. /\ mails' = IF t.what = "mail" THEN [mails EXCEPT ![t.m] = Saved(t)] ELSE mails
      /\ tx' = [tx EXCEPT ![u] = NoForm] /\ out' = out /\ t.step # "loaded" /\ t.step # "idle"
  BY <1>3 DEF Commit, Step
<1>6. t.what = "mail" /\ t.m = m /\ mails'[m] = Saved(t)
  BY <1>1, <1>5
<1>7. t.row \in MailRows
  BY <1>4, <1>6 DEF Locked
<1>8. mails'[m].sent = (t.row.sent \/ t.answer) /\ mails'[m].text = t.row.text
  BY <1>6, <1>7 DEF Saved, MailRows
<1>9. CASE t.row.sent
  <2>1. tx[u] # NoForm /\ tx'[u] = NoForm
    BY <1>2, <1>5 DEF NoForm, OutboxInv, FormsInv
  <2> QED BY <1>2, <1>6, <1>9, <2>1 DEF SentOne
<1>10. CASE t.answer
  <2>1. PICK o \in out : TakenAs(t, o)
    BY <1>4, <1>10 DEF Answers
  <2>2. o \in out' /\ o.m = m /\ o.text = mails'[m].text /\ (o.whole => o.paths = Attachments(t))
    BY <1>5, <1>6, <1>8, <2>1 DEF TakenAs
  <2>3. Attachments(t) = {files'[i].path : i \in
              {x \in DOMAIN files' : files'[x].live /\ files'[x].of = Mail(m)}}
    BY <1>1, <1>3, <1>5, <1>6, LeftFiles
  <2> QED BY <2>2, <2>3 DEF SentOne
<1> QED BY <1>8, <1>9, <1>10

LEMMA CommitAttaches ==
    ASSUME OutboxInv, NEW u \in Users, Commit(u, tx[u]), NEW i \in DOMAIN files,
           files'[i].live, files'[i].on, ~files[i].on
    PROVE  AttachedOne(i)
<1>1. Tables /\ Len(files) \in Nat /\ DOMAIN files = 1..Len(files)
  BY TablesHold, TableLengths
<1>2. PICK t : t = tx[u]
  OBVIOUS
<1>3. AForm(t) /\ Replaced(t)
  BY <1>2, CommitFiles
<1>4. files'[i].of = files[i].of /\ i \notin t.del /\ i \in t.boxes /\ t.on
  BY <1>1, <1>3 DEF Replaced, Rewritten
<1>5. PICK j \in Len(files) + 1..Len(files') : files'[j] = File(TheDeal, files[i].path, TRUE)
  BY <1>3, <1>4 DEF Replaced, Rewritten
<1>6. j \in DOMAIN files'
  BY <1>1, <1>3 DEF Replaced, Rewritten
<1> QED BY <1>4, <1>5, <1>6 DEF AttachedOne, File
-----------------------------------------------------------------------------
(* The theorems.                                                           *)

LEMMA InvHolds == OutboxSpec => []OutboxInv
<1>1. OutboxInit => OutboxInv
  BY InitHolds
<1>2. OutboxInv /\ [OutboxNext]_outboxVars => OutboxInv'
  BY NextHolds
<1> QED BY <1>1, <1>2, PTL DEF OutboxSpec

\* What the CRM says of mails, files and tokens is so outside the database: a
\* mail marked as sent has been taken by the server (send_email.py), a sent mail
\* of the deal has its entry in the workflow (crmemailadmin.py), the file a row
\* names is stored (TheFile.delete of common/models.py), and the account has the
\* last token that was given (get_oauth2_tokens.py), but for the cases that the
\* properties name.
THEOREM WhatIsSaidIsSo == OutboxSpec => []OutboxSound
<1>1. OutboxInv => OutboxSound
  BY InvSound
<1> QED BY <1>1, InvHolds, PTL

\* A mail leaves with the text and files it is saved with (save_related and
\* response_post_save_change of crmemailadmin.py, send_email.py), and a file that
\* is attached to the deal stays the mail's and comes to the deal.
THEOREM LeavesAsSaved == OutboxSpec => OutboxKept
<1> DEFINE SentAll == \A m \in DOMAIN mails :
               mails'[m].sent /\ mails'[m].live /\ ~mails[m].sent => SentOne(m)
           AttachedAll == \A i \in DOMAIN files :
               files'[i].live /\ files'[i].on /\ ~files[i].on => AttachedOne(i)
<1>1. OutboxInv /\ [OutboxNext]_outboxVars => [SentAll]_outboxVars /\ [AttachedAll]_outboxVars
  <2> SUFFICES ASSUME OutboxInv, OutboxNext PROVE SentAll /\ AttachedAll
    OBVIOUS
  <2>1. CASE \E u \in Users : Commit(u, tx[u])
    BY <2>1, CommitSends, CommitAttaches
  <2>2. CASE \A u \in Users : ~Commit(u, tx[u])
    BY <2>2, OthersKeep
  <2> QED BY <2>1, <2>2
<1>2. OutboxSpec => [][SentAll]_outboxVars /\ [][AttachedAll]_outboxVars
  <2> HIDE DEF SentAll, AttachedAll
  <2> QED BY <1>1, InvHolds, PTL DEF OutboxSpec
<1> QED BY <1>2, PTL DEF OutboxKept, SentAsSaved, AttachKeeps, SentOne, AttachedOne
-----------------------------------------------------------------------------
(* The parts of the invariant of the thread of the snapshots.              *)

Days == [m : Nat, d : Nat]
Hours == [date : Days, hour : Int]
Threads == [at : {"start", "stopped"}] \cup [at : {"nap"}, until : Hours]
           \cup [at : {"sleep"}, until : Hours, meant : Int]
           \cup [at : {"save"}, todo : SUBSET Departments, meant : Int]
Moved(d, dates) == \E e \in 1..d : [m |-> today.m, d |-> e] \in dates
Unmoved == ~\E m \in {today.m - 1, today.m} : Changed(m, Forward \cup Back)
Overslept == today.d = 1 /\ hour <= 1 /\ Changed(today.m - 1, Forward)
AllSaved == \A d \in Departments : \E s \in saved : s.of = d /\ s.month = today.m

\* A thread that sleeps to the evening wakes then, an hour later when the
\* clocks were put forward meanwhile, an hour earlier when they were put back.
UntilEvening(until) ==
    /\ ~Before(until.date, today) /\ (until.date = today => until.hour >= hour)
    /\ \/ until = Evening(today.m)
       \/ until = Later(Evening(today.m)) /\ Moved(today.d, Forward)
       \/ until = Earlier(Evening(today.m)) /\ Moved(today.d, Back)
\* One that wakes an hour too late is in the next month by then.
Sleeping ==
    thread.at = "sleep" =>
      /\ \/ thread.meant = today.m /\ UntilEvening(thread.until)
         \/ /\ thread.meant = today.m - 1 /\ Overslept
            /\ thread.until.date = today /\ thread.until.hour <= 1
      /\ Unmoved => \A s \in saved : s.month # today.m
Saving ==
    thread.at = "save" =>
      /\ \/ /\ thread.meant = today.m /\ today.d = Length(today.m)
            /\ hour = 2 \/ (hour = 1 /\ Changed(today.m, Back))
         \/ thread.meant = today.m - 1 /\ Overslept
      /\ \A d \in Departments \ thread.todo : \E s \in saved : s.of = d /\ s.month = today.m
      /\ Unmoved => \A s \in saved : s.month = today.m => s.of \notin thread.todo
\* A nap is over in an hour; one in the last hour of a month is taken by a
\* thread that has saved, or has failed, or was started then.
Napping ==
    thread.at = "nap" =>
      /\ Reached(thread.until) \/ thread.until = Later(Now)
      /\ Now = Evening(today.m) /\ ~Reached(thread.until) =>
           AllSaved \/ today.m \in late \/ Changed(today.m, Forward)
\* No row is of a month to come; one of this month is of its last hour.
RowsInv ==
    \A s \in saved : /\ s.month \in 0..today.m
                     /\ s.month = today.m /\ Unmoved => Now = Evening(today.m)
SnapshotsInv == /\ TypeOK /\ thread \in Threads
                /\ Sleeping /\ Saving /\ Napping
                /\ RowsInv /\ RightMonth /\ OneSnapshot
-----------------------------------------------------------------------------
LEMMA LengthPositive == ASSUME NEW m \in Nat PROVE Length(m) \in Nat \ {0}
  <1>1. Len(Lengths) \in Nat \ {0} /\ DOMAIN Lengths = 1..Len(Lengths)
    BY ReportsAssumption DEF ReportsAssumption
  <1>2. m % Len(Lengths) \in 0..(Len(Lengths) - 1)
    BY <1>1
  <1>3. (m % Len(Lengths)) + 1 \in 1..Len(Lengths)
    BY <1>1, <1>2
  <1> QED BY <1>3, ReportsAssumption DEF ReportsAssumption, Length

LEMMA TodayIs == ASSUME today \in DatesOf(0..LastMonth)
    PROVE /\ today.m \in 0..LastMonth /\ LastMonth \in Nat /\ today.d \in 1..Length(today.m)
          /\ today = [m |-> today.m, d |-> today.d] /\ today \in Days
          /\ Length(today.m) \in Nat \ {0} /\ Length(today.m + 1) \in Nat \ {0}
  <1>1. PICK m \in 0..LastMonth : \E d \in 1..Length(m) : today = [m |-> m, d |-> d]
    BY DEF DatesOf
  <1>2. LastMonth \in Nat
    BY SnapshotsAssumption DEF SnapshotsAssumption
  <1>3. today.m \in Nat /\ today.m + 1 \in Nat
    BY <1>1, <1>2
  <1>4. Length(today.m) \in Nat \ {0} /\ Length(today.m + 1) \in Nat \ {0}
    BY <1>3, LengthPositive
  <1> QED BY <1>1, <1>2, <1>3, <1>4 DEF Days

LEMMA TodayTyped == ASSUME NEW m \in 0..LastMonth, NEW d \in 1..Length(m)
    PROVE [m |-> m, d |-> d] \in DatesOf(0..LastMonth)
  BY DEF DatesOf

\* The three ways in which an hour passes: in a day, to the next day and to
\* the next month.
SameDay == hour < 2 /\ today' = today /\ hour' = hour + 1
NewDay == /\ hour = 2 /\ today.d < Length(today.m) /\ hour' = 0
          /\ today' = [m |-> today.m, d |-> today.d + 1]
NewMonth == /\ hour = 2 /\ today.d = Length(today.m) /\ hour' = 0 /\ today.m < LastMonth
            /\ today' = [m |-> today.m + 1, d |-> 1]
LEMMA HourPasses ==
    ASSUME TypeOK, today' = Later(Now).date, hour' = Later(Now).hour,
           today.m < LastMonth \/ today.d < Length(today.m) \/ hour < 2
    PROVE /\ SameDay \/ NewDay \/ NewMonth
          /\ today' \in DatesOf(0..LastMonth) /\ hour' \in 0..2
          /\ Later(Now) = [date |-> today', hour |-> hour']
  <1> USE TodayIs DEF TypeOK
  <1>1. CASE hour < 2
    BY <1>1 DEF Later, Now, SameDay
  <1>2. CASE hour = 2 /\ today.d < Length(today.m)
    <2>1. NewDay /\ Later(Now) = [date |-> today', hour |-> hour']
      BY <1>2 DEF Later, Now, NextDay, NewDay
    <2>2. today.d + 1 \in 1..Length(today.m)
      BY <1>2
    <2> QED BY <2>1, <2>2, TodayTyped DEF NewDay
  <1>3. CASE hour = 2 /\ ~(today.d < Length(today.m))
    <2>1. today.m < LastMonth /\ today.d = Length(today.m)
      BY <1>3
    <2>2. NewMonth /\ Later(Now) = [date |-> today', hour |-> hour']
      BY <1>3, <2>1 DEF Later, Now, NextDay, NewMonth, First
    <2>3. 1 \in 1..Length(today.m + 1) /\ today.m + 1 \in 0..LastMonth
      BY <2>1
    <2> QED BY <2>2, <2>3, TodayTyped DEF NewMonth
  <1> QED BY <1>1, <1>2, <1>3

LEMMA OneChange == ASSUME NEW a \in Forward \cup Back, NEW b \in Forward \cup Back, a.m = b.m
    PROVE a = b /\ ~(a \in Forward /\ b \in Back)
  BY SnapshotsAssumption DEF SnapshotsAssumption

LEMMA MovedChanged == ASSUME TypeOK, NEW dates, NEW d \in 0..Length(today.m), Moved(d, dates)
    PROVE Changed(today.m, dates)
  BY TodayIs DEF Moved, Changed, TypeOK

\* What the parts say of the time does not change while it stands still.
LEMMA TimeStands ==
    ASSUME UNCHANGED <<today, hour, payments>>
    PROVE /\ Unmoved' = Unmoved /\ Overslept' = Overslept /\ Now' = Now /\ Received' = Received
          /\ \A t : Reached(t)' = Reached(t) /\ UntilEvening(t)' = UntilEvening(t)
  BY DEF Unmoved, Overslept, Now, Received, Reached, UntilEvening, Moved

LEMMA RowsStay ==
    ASSUME UNCHANGED <<today, hour, payments, saved>>
    PROVE /\ RowsInv' = RowsInv /\ RightMonth' = RightMonth /\ OneSnapshot' = OneSnapshot
          /\ (\A s \in saved : s.of \in Departments /\ s.shows \subseteq Received)'
             = (\A s \in saved : s.of \in Departments /\ s.shows \subseteq Received)
  <1>1. RowsInv' = RowsInv
    BY TimeStands DEF RowsInv, Evening
  <1>2. RightMonth' = RightMonth
    BY DEF RightMonth
  <1>3. OneSnapshot' = OneSnapshot
    BY DEF OneSnapshot
  <1>4. (\A s \in saved : s.of \in Departments /\ s.shows \subseteq Received)'
             = (\A s \in saved : s.of \in Departments /\ s.shows \subseteq Received)
    BY TimeStands
  <1> QED BY <1>1, <1>2, <1>3, <1>4

LEMMA AwakeSteps ==
    ASSUME SnapshotsInv, UNCHANGED <<today, hour, payments, saved>>, late \subseteq late',
           stops' \in 0..MaxStops,
           \/ thread' \in {Start, Stopped}
           \/ thread' = Nap /\ (Now = Evening(today.m) =>
                AllSaved \/ today.m \in late' \/ Changed(today.m, Forward))
    PROVE SnapshotsInv'
  <1> USE DEF SnapshotsInv
  <1>1. TypeOK' /\ RowsInv' /\ RightMonth' /\ OneSnapshot'
    <2>1. thread'.at \in {"start", "stopped", "nap"}
      BY DEF Start, Stopped, Nap
    <2> QED BY <2>1, RowsStay DEF TypeOK
  <1>2. CASE thread' \in {Start, Stopped}
    BY <1>1, <1>2 DEF Start, Stopped, Threads, Sleeping, Saving, Napping
  <1>3. CASE thread' = Nap /\ (Now = Evening(today.m) =>
                AllSaved \/ today.m \in late' \/ Changed(today.m, Forward))
    <2>1. Later(Now) \in Hours
      <3>1. today \in Days /\ hour \in Int /\ NextDay(today) \in Days
        BY TodayIs DEF TypeOK, Days, NextDay, First
      <3> QED BY <3>1 DEF Later, Now, Hours
    <2>2. thread' \in Threads
      BY <1>3, <2>1 DEF Nap, Threads
    <2>3. thread'.at = "nap" /\ thread'.until = Later(Now)
      BY <1>3 DEF Nap
    <2>4. AllSaved' = AllSaved
      BY DEF AllSaved
    <2> QED BY <1>1, <1>3, <2>2, <2>3, <2>4, TimeStands DEF Sleeping, Saving, Napping
  <1> QED BY <1>2, <1>3

LEMMA EveningOf == ASSUME TypeOK
    PROVE /\ Evening(today.m) \in Hours /\ Later(Evening(today.m)) \in Hours
          /\ Evening(today.m).date = [m |-> today.m, d |-> Length(today.m)]
          /\ Evening(today.m).hour = 2
          /\ Later(Evening(today.m)) = [date |-> [m |-> today.m + 1, d |-> 1], hour |-> 0]
          /\ Earlier(Evening(today.m)) = [Evening(today.m) EXCEPT !.hour = 1]
          /\ Now = Evening(today.m) <=> hour = 2 /\ today.d = Length(today.m)
          /\ Reached(Evening(today.m)) <=> Now = Evening(today.m)
  <1> USE TodayIs DEF TypeOK
  <1>1. Evening(today.m) \in Hours
    BY DEF Evening, Hours, Days
  <1>2. /\ Evening(today.m).date = [m |-> today.m, d |-> Length(today.m)]
        /\ Evening(today.m).hour = 2
    BY DEF Evening
  <1>3. Later(Evening(today.m)) = [date |-> [m |-> today.m + 1, d |-> 1], hour |-> 0]
    BY <1>2 DEF Later, NextDay, First
  <1>4. Later(Evening(today.m)) \in Hours
    BY <1>3 DEF Hours, Days
  <1>5. Earlier(Evening(today.m)) = [Evening(today.m) EXCEPT !.hour = 1]
    BY DEF Earlier, Evening
  <1>6. Now = Evening(today.m) <=> hour = 2 /\ today.d = Length(today.m)
    BY DEF Now, Evening
  <1>7. Reached(Evening(today.m)) <=> Now = Evening(today.m)
    BY <1>2, <1>6 DEF Reached, Before
  <1> QED BY <1>1, <1>2, <1>3, <1>4, <1>5, <1>6, <1>7

LEMMA ComputeKeeps ==
    ASSUME SnapshotsInv, Compute, UNCHANGED <<today, payments, requests>>
    PROVE SnapshotsInv'
  <1>1. CASE Reached(Evening(today.m))
    <2>1. today.m \in late' /\ late \subseteq late'
      BY <1>1 DEF Compute
    <2> QED BY <1>1, <2>1, AwakeSteps DEF Compute, SnapshotsInv, TypeOK
  <1>2. CASE ~Reached(Evening(today.m))
    <2> USE DEF SnapshotsInv
    <2>1. /\ thread' = [at |-> "sleep", until |-> Evening(today.m), meant |-> today.m]
          /\ UNCHANGED <<late, saved, stops, hour>>
      BY <1>2 DEF Compute
    <2>2. thread' \in Threads
      BY <2>1, EveningOf, TodayIs DEF Threads, TypeOK
    <2>3. UntilEvening(Evening(today.m))
      BY <1>2, EveningOf, TodayIs DEF UntilEvening, TypeOK, Reached, Before
    <2>4. Unmoved => \A s \in saved : s.month # today.m
      BY <1>2, EveningOf DEF RowsInv
    <2>5. TypeOK' /\ RowsInv' /\ RightMonth' /\ OneSnapshot'
      BY <2>1, RowsStay DEF TypeOK
    <2> QED BY <2>1, <2>2, <2>3, <2>4, <2>5, TimeStands DEF Sleeping, Saving, Napping
  <1> QED BY <1>1, <1>2

LEMMA WakeUpKeeps ==
    ASSUME SnapshotsInv, WakeUp, UNCHANGED <<today, payments, requests>>
    PROVE SnapshotsInv'
  <1> USE DEF SnapshotsInv
  <1>1. /\ thread' = [at |-> "save", todo |-> Departments, meant |-> thread.meant]
        /\ thread.at = "sleep" /\ Reached(thread.until)
        /\ UNCHANGED <<saved, late, stops, hour>>
    BY DEF WakeUp
  <1>2. thread.meant \in Int /\ thread.until \in Hours
    BY <1>1 DEF Threads
  <1>3. thread' \in Threads
    BY <1>1, <1>2 DEF Threads
  <1>4. TypeOK' /\ RowsInv' /\ RightMonth' /\ OneSnapshot'
    BY <1>1, RowsStay DEF TypeOK
  <1>5. \/ /\ thread.meant = today.m /\ today.d = Length(today.m)
           /\ hour = 2 \/ (hour = 1 /\ Changed(today.m, Back))
        \/ thread.meant = today.m - 1 /\ Overslept
    <2>1. CASE thread.meant = today.m /\ UntilEvening(thread.until)
      <3>1. thread.until.date = today /\ thread.until.hour = hour
        BY <1>1, <1>2, <2>1 DEF UntilEvening, Reached, TypeOK, Hours
      <3>2. CASE thread.until = Evening(today.m)
        BY <2>1, <3>1, <3>2, EveningOf
      <3>3. CASE thread.until = Later(Evening(today.m))
        BY <3>1, <3>3, EveningOf, TodayIs DEF TypeOK
      <3>4. CASE thread.until = Earlier(Evening(today.m)) /\ Moved(today.d, Back)
        <4>1. Changed(today.m, Back)
          BY <3>4, MovedChanged, TodayIs DEF TypeOK
        <4>2. thread.until.date = [m |-> today.m, d |-> Length(today.m)] /\ thread.until.hour = 1
          BY <3>4, EveningOf DEF Hours
        <4> QED BY <2>1, <3>1, <4>1, <4>2
      <3> QED BY <2>1, <3>2, <3>3, <3>4 DEF UntilEvening
    <2> QED BY <1>1, <2>1 DEF Sleeping
  <1>6. Unmoved => \A s \in saved : s.month # today.m
    BY <1>1 DEF Sleeping
  <1> QED BY <1>1, <1>3, <1>4, <1>5, <1>6, TimeStands DEF Sleeping, Saving, Napping

LEMMA SaveKeeps ==
    ASSUME SnapshotsInv, SaveSnapshot, UNCHANGED <<today, payments, requests>>
    PROVE SnapshotsInv'
  <1> USE DEF SnapshotsInv
  <1>1. PICK d \in thread.todo :
          /\ saved' = saved \cup {[of |-> d, nr |-> 1 + Cardinality({s \in saved : s.of = d}),
                                   month |-> today.m, meant |-> thread.meant, shows |-> ThisMonth]}
          /\ thread' = [thread EXCEPT !.todo = @ \ {d}]
          /\ thread.at = "save" /\ UNCHANGED <<late, stops, hour>>
    BY DEF SaveSnapshot
  <1> DEFINE row == [of |-> d, nr |-> 1 + Cardinality({s \in saved : s.of = d}),
                     month |-> today.m, meant |-> thread.meant, shows |-> ThisMonth]
  <1>2. /\ thread.todo \subseteq Departments /\ thread.meant \in Int
        /\ thread' = [at |-> "save", todo |-> thread.todo \ {d}, meant |-> thread.meant]
    BY <1>1 DEF Threads
  <1>3. /\ saved' = saved \cup {row} /\ row.of = d /\ row.month = today.m
        /\ row.meant = thread.meant /\ row.shows \subseteq Received
    BY <1>1 DEF ThisMonth, Current
  <1> HIDE DEF row
  <1>4. TypeOK'
    BY <1>1, <1>2, <1>3, TimeStands DEF TypeOK
  <1>5. thread' \in Threads
    BY <1>2 DEF Threads
  <1>6. Unmoved => hour = 2 /\ today.d = Length(today.m)
    <2>1. today.m \in Nat
      BY TodayIs DEF TypeOK
    <2> QED BY <1>1, <2>1 DEF Saving, Unmoved, Overslept, Changed
  <1>7. RowsInv'
    BY <1>1, <1>3, <1>6, EveningOf, TimeStands, TodayIs DEF RowsInv, TypeOK
  <1>8. RightMonth'
    <2>1. row.month = row.meant \/ Changed(row.meant, Forward)
      BY <1>1, <1>3 DEF Saving, Overslept
    <2> QED BY <1>3, <2>1 DEF RightMonth
  <1>9. OneSnapshot'
    <2> SUFFICES ASSUME NEW s \in saved', NEW t \in saved', s # t, s.of = t.of, s.month = t.month,
                        ~\E m \in {s.month - 1, s.month} : Changed(m, Forward \cup Back)
                 PROVE FALSE
      BY DEF OneSnapshot
    <2>1. CASE s \in saved /\ t \in saved
      BY <2>1 DEF OneSnapshot
    <2>2. CASE s = row \/ t = row
      <3>1. Unmoved
        BY <1>3, <2>2 DEF Unmoved
      <3>2. \A r \in saved : r.month = today.m => r.of \notin thread.todo
        BY <1>1, <3>1 DEF Saving
      <3> QED BY <1>3, <2>2, <3>2
    <2> QED BY <1>3, <2>1, <2>2
  <1>10. Saving'
    <2>1. \A e \in Departments \ (thread.todo \ {d}) : \E s \in saved' : s.of = e /\ s.month = today.m
      BY <1>1, <1>3 DEF Saving
    <2>2. Unmoved => \A s \in saved' : s.month = today.m => s.of \notin thread.todo \ {d}
      BY <1>1, <1>3 DEF Saving
    <2>3. /\ thread'.at = "save" /\ thread'.todo = thread.todo \ {d}
          /\ thread'.meant = thread.meant
      BY <1>2
    <2>4. \/ /\ thread.meant = today.m /\ today.d = Length(today.m)
             /\ hour = 2 \/ (hour = 1 /\ Changed(today.m, Back))
          \/ thread.meant = today.m - 1 /\ Overslept
      BY <1>1 DEF Saving
    <2>5. Unmoved => hour = 2
      BY <1>6
    <2> QED BY <1>1, <2>1, <2>2, <2>3, <2>4, <2>5, TimeStands DEF Saving
  <1> QED BY <1>2, <1>4, <1>5, <1>7, <1>8, <1>9, <1>10 DEF Sleeping, Napping

LEMMA ThreadKeeps ==
    ASSUME SnapshotsInv, ThreadNext, UNCHANGED <<today, payments, requests>>
    PROVE SnapshotsInv'
  <1>1. CASE SavedAll
    <2>1. Now = Evening(today.m) => AllSaved
      BY <1>1 DEF SavedAll, SnapshotsInv, Saving, AllSaved
    <2> QED BY <1>1, <2>1, AwakeSteps DEF SavedAll, SnapshotsInv, TypeOK
  <1>2. CASE FailSnapshot
    <2>1. Now = Evening(today.m) => today.m \in late'
      <3>1. Now = Evening(today.m) => ~Overslept
        BY EveningOf DEF SnapshotsInv, Overslept
      <3> QED BY <1>2, <3>1 DEF FailSnapshot, SnapshotsInv, Saving
    <2>2. stops' \in 0..MaxStops /\ late \subseteq late'
      BY <1>2, SnapshotsAssumption DEF FailSnapshot, Stop, SnapshotsInv, TypeOK, SnapshotsAssumption
    <2> QED BY <1>2, <2>1, <2>2, AwakeSteps DEF FailSnapshot
  <1>3. CASE NapOver
    BY <1>3, AwakeSteps DEF NapOver, SnapshotsInv, TypeOK
  <1>4. CASE EndProcess
    <2>1. stops' \in 0..MaxStops
      BY <1>4, SnapshotsAssumption DEF EndProcess, Stop, SnapshotsInv, TypeOK, SnapshotsAssumption
    <2> QED BY <1>4, <2>1, AwakeSteps DEF EndProcess
  <1>5. CASE Restart
    BY <1>5, AwakeSteps DEF Restart, SnapshotsInv, TypeOK
  <1> QED BY <1>1, <1>2, <1>3, <1>4, <1>5, ComputeKeeps, WakeUpKeeps, SaveKeeps DEF ThreadNext

LEMMA TickTime ==
    ASSUME TypeOK, Tick
    PROVE /\ SameDay \/ NewDay \/ NewMonth
          /\ today' \in DatesOf(0..LastMonth) /\ hour' \in 0..2
          /\ Later(Now) = [date |-> today', hour |-> hour']
          /\ UNCHANGED <<saved, late, stops, payments>> /\ Received' = Received
          /\ Asleep \/ thread = Stopped
  BY HourPasses DEF Tick, Received

\* A sleep is moved at midnight only.
LEMMA TickSleep ==
    ASSUME TypeOK, thread \in Threads, Tick
    PROVE /\ thread' \in Threads /\ thread'.at = thread.at
          /\ thread.at = "sleep" =>
               /\ thread'.meant = thread.meant
               /\ \/ /\ thread'.until = thread.until
                     /\ hour' = 0 => today' \notin Forward \cup Back
                  \/ hour' = 0 /\ today' \in Forward /\ thread'.until = Later(thread.until)
                  \/ hour' = 0 /\ today' \in Back /\ thread'.until = Earlier(thread.until)
          /\ thread.at \in {"nap", "stopped"} => thread' = thread
  <1>1. thread.at \in {"sleep", "nap", "stopped"}
    BY DEF Tick, Asleep, Stopped
  <1>2. CASE thread.at \in {"nap", "stopped"}
    <2>1. thread' = thread
      BY <1>2 DEF Tick
    <2> QED BY <1>2, <2>1
  <1>3. CASE thread.at = "sleep"
    <2>1. thread \in [at : {"sleep"}, until : Hours, meant : Int]
      BY <1>3 DEF Threads
    <2>2. today' = Later(Now).date /\ hour' = Later(Now).hour
      BY DEF Tick
    <2>3. CASE hour' # 0 \/ today' \notin Forward \cup Back
      <3>1. thread' = thread
        BY <1>3, <2>2, <2>3 DEF Tick
      <3> QED BY <1>3, <2>3, <3>1
    <2>4. CASE hour' = 0 /\ today' \in Forward
      <3>1. thread' = [thread EXCEPT !.until = Later(@)]
        BY <1>3, <2>2, <2>4 DEF Tick
      <3>2. Later(thread.until) \in Hours
        <4>1. thread.until \in [date : Days, hour : Int]
          BY <2>1 DEF Hours
        <4>2. NextDay(thread.until.date) \in Days
          BY <4>1 DEF NextDay, First, Days
        <4> QED BY <4>1, <4>2 DEF Later, Hours
      <3> QED BY <1>3, <2>1, <2>4, <3>1, <3>2 DEF Threads
    <2>5. CASE hour' = 0 /\ today' \in Back /\ today' \notin Forward
      <3>1. thread' = [thread EXCEPT !.until = Earlier(@)]
        BY <1>3, <2>2, <2>5 DEF Tick
      <3>2. Earlier(thread.until) \in Hours
        BY <2>1 DEF Earlier, Hours
      <3> QED BY <1>3, <2>1, <2>5, <3>1, <3>2 DEF Threads
    <2> QED BY <2>3, <2>4, <2>5
  <1> QED BY <1>1, <1>2, <1>3

LEMMA TickInMonth ==
    ASSUME SnapshotsInv, Tick, SameDay \/ NewDay, thread.at = "sleep",
           thread.meant = today.m, UntilEvening(thread.until)
    PROVE UntilEvening(thread.until)'
  <1> USE TodayIs, EveningOf, SnapshotsAssumption
          DEF SnapshotsInv, TypeOK, SnapshotsAssumption
  <1>1. today'.m = today.m /\ today'.d >= today.d /\ today'.d \in Nat
    BY DEF SameDay, NewDay
  <1>2. \A dates : Moved(today.d, dates) => Moved(today.d, dates)'
    BY <1>1 DEF Moved
  <1>3. ~Reached(thread.until) /\ thread.until \in Hours
    BY TickTime DEF Asleep, Stopped, Threads
  <1>4. ~Before(thread.until.date, today)
    BY <1>3 DEF Reached
  <1>5. thread.until.hour \in 0..2
    BY EveningOf DEF UntilEvening, Hours
  <1>6. /\ ~Before(thread.until.date, today')
        /\ thread.until.date = today' => thread.until.hour >= hour'
    <2>1. CASE SameDay
      BY <1>3, <2>1 DEF Reached, SameDay, Hours
    <2>2. CASE NewDay
      <3>1. /\ today' = [today EXCEPT !.d = @ + 1] /\ hour' = 0 /\ hour = 2
            /\ thread.until.date \in Days /\ today \in Days
        BY <1>3, <2>2 DEF NewDay, Hours
      <3>2. thread.until.date # today
        BY <1>3, <1>5, <3>1 DEF Reached
      <3> QED BY <1>4, <1>5, <3>1, <3>2 DEF Before, Days
    <2> QED BY <2>1, <2>2
  <1>7. CASE thread'.until = thread.until
    <2>1. (thread.until = Evening(today.m))' = (thread.until = Evening(today.m))
      BY <1>1, <1>7
    <2> QED BY <1>1, <1>2, <1>6, <1>7 DEF UntilEvening
  <1>8. CASE hour' = 0 /\ today' \in Forward \cup Back
    <2>1. NewDay
      BY <1>8 DEF SameDay
    <2>2. \A dates : today' \in dates => Moved(today.d, dates)'
      BY <1>1, <2>1 DEF Moved, NewDay
    <2>3. \A e \in 1..today.d : [m |-> today.m, d |-> e] \notin Forward \cup Back
      BY <1>8, <2>1, OneChange DEF NewDay
    <2>4. thread.until = Evening(today.m)
      BY <2>3 DEF UntilEvening, Moved
    <2>5. today' = [m |-> today.m, d |-> today.d + 1] /\ today.d + 1 <= Length(today.m)
      BY <2>1 DEF NewDay
    <2>6. Evening(today'.m) = Evening(today.m)
      BY <1>1
    <2>7. CASE today' \in Forward /\ thread'.until = Later(thread.until)
      <3>1. /\ thread'.until = Later(Evening(today'.m)) /\ Moved(today.d, Forward)'
            /\ thread'.until.date = [m |-> today.m + 1, d |-> 1]
        BY <2>2, <2>4, <2>6, <2>7
      <3> QED BY <1>1, <1>8, <3>1, <2>5 DEF UntilEvening, Before
    <2>8. CASE today' \in Back /\ thread'.until = Earlier(thread.until)
      <3>1. /\ thread'.until = Earlier(Evening(today'.m)) /\ Moved(today.d, Back)'
            /\ thread'.until.date = [m |-> today.m, d |-> Length(today.m)]
            /\ thread'.until.hour = 1
        BY <2>2, <2>4, <2>6, <2>8 DEF Hours
      <3> QED BY <1>1, <1>8, <3>1, <2>5 DEF UntilEvening, Before
    <2> QED BY <1>7, <1>8, <2>7, <2>8, TickSleep, <2>1
  <1> QED BY <1>7, <1>8, TickSleep

LEMMA TickKeeps == ASSUME SnapshotsInv, Tick PROVE SnapshotsInv'
  <1> USE TodayIs, TickTime, TickSleep DEF SnapshotsInv
  <1>1. TypeOK'
    BY DEF TypeOK
  <1>2. today'.m \in {today.m, today.m + 1} /\ today.m \in Nat
    BY DEF SameDay, NewDay, NewMonth, TypeOK
  <1>3. Unmoved' = Unmoved \/ NewMonth
    BY DEF Unmoved, SameDay, NewDay
  <1>4. Now = Evening(today.m) => NewMonth
    BY EveningOf DEF SameDay, NewDay, TypeOK
  <1>5. RowsInv'
    <2>1. CASE NewMonth
      BY <1>2, <2>1 DEF RowsInv, NewMonth
    <2>2. CASE SameDay \/ NewDay
      <3>1. today'.m = today.m /\ ~NewMonth
        BY <2>2 DEF SameDay, NewDay, NewMonth, TypeOK
      <3> QED BY <1>3, <1>4, <3>1 DEF RowsInv
    <2> QED BY <2>1, <2>2
  <1>6. RightMonth' /\ OneSnapshot'
    BY DEF RightMonth, OneSnapshot
  <1>7. Napping'
    <2> SUFFICES ASSUME thread.at = "nap" PROVE Napping'
      BY DEF Napping
    <2>1. thread' = thread /\ thread.until = Later(Now)
      BY DEF Napping, Asleep, Stopped
    <2>2. Reached(thread.until)'
      BY <2>1 DEF Reached, TypeOK
    <2> QED BY <2>2 DEF Napping
  <1>8. Saving'
    BY DEF Saving, Asleep, Stopped
  <1>9. Sleeping'
    <2> SUFFICES ASSUME thread.at = "sleep" PROVE Sleeping'
      BY DEF Sleeping
    <2>1. ~Reached(thread.until) /\ thread.until \in Hours
      BY DEF Asleep, Stopped, Threads
    <2>2. CASE thread.meant = today.m /\ UntilEvening(thread.until) /\ ~NewMonth
      <3>1. UntilEvening(thread.until)'
        BY <2>2, TickInMonth
      <3>2. thread'.meant = today'.m
        BY <2>2 DEF SameDay, NewDay
      <3>3. Unmoved' => \A s \in saved' : s.month # today'.m
        <4>1. today'.m = today.m /\ saved' = saved
          BY <2>2 DEF SameDay, NewDay
        <4>2. Unmoved => \A s \in saved : s.month # today.m
          BY DEF Sleeping
        <4> QED BY <1>3, <2>2, <4>1, <4>2
      <3> QED BY <3>1, <3>2, <3>3 DEF Sleeping
    <2>3. CASE thread.meant = today.m /\ UntilEvening(thread.until) /\ NewMonth
      <3>1. Now = Evening(today.m) /\ today' = [m |-> today.m + 1, d |-> 1] /\ hour' = 0
        BY <2>3, EveningOf DEF NewMonth
      <3>2. thread.until = Later(Evening(today.m)) /\ Moved(today.d, Forward)
        <4>1. thread.until # Evening(today.m)
          BY <2>1, <3>1, EveningOf
        <4>2. thread.until # Earlier(Evening(today.m))
          BY <2>1, <3>1, EveningOf DEF Reached, Now, TypeOK, Hours
        <4> QED BY <2>3, <4>1, <4>2 DEF UntilEvening
      <3>3. Changed(today.m, Forward)
        BY <3>2, MovedChanged DEF TypeOK
      <3>4. thread.until = [date |-> today', hour |-> 0]
        BY <3>1, <3>2, EveningOf
      <3>5. thread'.until.date = today' /\ thread'.until.hour <= 1
        <4>1. Later(thread.until) = [date |-> today', hour |-> 1]
          BY <3>4 DEF Later
        <4>2. Earlier(thread.until) = [date |-> today', hour |-> -1]
          BY <3>4 DEF Earlier
        <4> QED BY <3>4, <4>1, <4>2
      <3>6. today'.m - 1 = today.m
        BY <3>1, <1>2
      <3>7. Overslept'
        BY <3>1, <3>3, <3>6 DEF Overslept
      <3>8. ~Unmoved'
        BY <3>3, <3>6 DEF Unmoved, Changed
      <3> QED BY <2>3, <3>5, <3>6, <3>7, <3>8 DEF Sleeping
    <2>4. CASE /\ thread.meant = today.m - 1 /\ Overslept
               /\ thread.until.date = today /\ thread.until.hour <= 1
      <3>1. hour = 0 /\ SameDay
        BY <2>1, <2>4 DEF Reached, Hours, TypeOK, SameDay, NewDay, NewMonth
      <3>2. hour' = 1 /\ today' = today
        BY <3>1 DEF SameDay
      <3>3. Overslept' /\ Unmoved' = Unmoved
        BY <2>4, <3>2 DEF Overslept, Unmoved
      <3>4. thread'.until = thread.until
        BY <3>2
      <3> QED BY <2>4, <3>2, <3>3, <3>4 DEF Sleeping
    <2> QED BY <2>2, <2>3, <2>4 DEF Sleeping
  <1> QED BY <1>1, <1>5, <1>6, <1>7, <1>8, <1>9

LEMMA SnapshotsInductive == SnapshotsSpec => []SnapshotsInv
  <1>1. InitSnapshots /\ today \in DatesOf(0..LastMonth) => SnapshotsInv
    BY SnapshotsAssumption
       DEF InitSnapshots, SnapshotsInv, TypeOK, Threads, Start, Sleeping, Saving, Napping, RowsInv,
           RightMonth, OneSnapshot, SnapshotsAssumption
  <1>2. SnapshotsInv /\ [Next]_vars => SnapshotsInv'
    <2> SUFFICES ASSUME SnapshotsInv, [Next]_vars PROVE SnapshotsInv'
      OBVIOUS
    <2>1. CASE UNCHANGED vars
      BY <2>1, RowsStay, TimeStands
         DEF vars, threadVars, SnapshotsInv, TypeOK, Sleeping, Saving, Napping, AllSaved
    <2> QED BY <2>1, ThreadKeeps, TickKeeps DEF Next
  <1> QED BY <1>1, <1>2, PTL DEF SnapshotsSpec

\* A department has one snapshot of a month, of the right month and in time if the
\* thread runs then and did not fail or start in the last hour, for any
\* departments, months and dates on which the clocks are changed
\* (monthly_snapshot_saving.py, run and save_snapshots).
THEOREM SnapshotsOfMonths == SnapshotsSpec => Snapshotted
  <1>1. SnapshotsInv => TypeOK /\ RightMonth /\ OneSnapshot
    BY DEF SnapshotsInv
  <1>2. SnapshotsInv /\ [Next]_vars =>
          [today'.m # today.m =>
             \/ \A d \in Departments : \E s \in saved : s.of = d /\ s.month = today.m
             \/ thread = Stopped \/ today.m \in late \/ Changed(today.m, Forward)]_vars
    <2> SUFFICES ASSUME SnapshotsInv, Next, today'.m # today.m, thread # Stopped
                 PROVE AllSaved \/ today.m \in late \/ Changed(today.m, Forward)
      BY DEF AllSaved, vars
    <2> USE TodayIs DEF SnapshotsInv
    <2>1. Tick
      BY DEF Next
    <2>2. Now = Evening(today.m) /\ Asleep
      BY <2>1, TickTime, EveningOf DEF SameDay, NewDay, NewMonth
    <2>3. CASE thread.at = "nap"
      BY <2>2, <2>3 DEF Napping, Asleep
    <2>4. CASE thread.at = "sleep"
      <3>1. ~Reached(thread.until) /\ thread.until \in Hours
        BY <2>2, <2>4 DEF Asleep, Threads
      <3>2. hour = 2 /\ ~Overslept
        BY <2>2, EveningOf DEF Overslept
      <3>3. thread.until # Evening(today.m)
        BY <2>2, <3>1, EveningOf
      <3>4. thread.until # Earlier(Evening(today.m))
        BY <2>2, <3>1, EveningOf DEF Reached, Now, TypeOK, Hours
      <3>5. Moved(today.d, Forward)
        BY <2>4, <3>2, <3>3, <3>4 DEF Sleeping, UntilEvening
      <3> QED BY <3>5, MovedChanged DEF TypeOK
    <2> QED BY <2>2, <2>3, <2>4 DEF Asleep
  <1> QED BY <1>1, <1>2, SnapshotsInductive, PTL DEF SnapshotsSpec, Snapshotted, SavedInTime
-----------------------------------------------------------------------------
(* Lists: the invariant ListsInv adds to what is shown that the rows are   *)
(* whole and that the address of a page and the choices of its filter by   *)
(* department name departments there are.  Each filter leaves the rows     *)
(* that fit its selected choice; so does their composition.                *)

IsAddress(p) == DOMAIN p = Params /\ p.department \in {Absent, "all"} \cup Depts
DataInv == /\ kind \in Kinds /\ 0 \notin Ids
           /\ \A r \in Ids : IsRow(kind, rows[r])
           /\ kind = "tasks" => \A r \in Ids : rows[r].parent \in {0} \cup Ids
SessionInv == session \in [Staff -> Depts \cup {None}]
PageInv == page # NoPage =>
    /\ page.u \in Staff /\ IsAddress(page.p) /\ page.dept \in Depts \cup {None}
    /\ page.found \subseteq Ids /\ page.shown \subseteq page.found
    /\ DOMAIN page.choices \subseteq Filters[kind]
    /\ "department" \in DOMAIN page.choices =>
         \A c \in page.choices["department"] : c.value \in {"all"} \cup Depts
ListsInv == DataInv /\ SessionInv /\ PageInv /\ SelectedShown /\ OutboxCounted

\* What is known of a page just made for u at the address p.
Asked(u, p) == /\ DataInv /\ SessionInv
               /\ u \in Staff /\ IsAddress(p)
               /\ page' = PageOf(u, p) /\ UNCHANGED <<kind, rows>>
\* Ids are none of the words of an address.
LEMMA NamesApart ==
    \A x \in Staff \cup Depts \cup Cities \cup Tags \cup Products :
        x # None /\ x # Absent /\ x # "all" /\ x # "IsNull" /\ x # "All"
BY ListsAssumption

\* The department of a request is one there is, or none.
LEMMA DepartmentTyped ==
    ASSUME SessionInv, NEW u \in Staff, NEW p, IsAddress(p)
    PROVE  Department(u, p) \in Depts \cup {None}
BY ListsAssumption DEF Department, SessionInv, IsAddress

\* What the columns of a row of each kind hold.
LEMMA DealTyped ==
    ASSUME DataInv, kind = "deals", NEW r \in Ids
    PROVE  /\ rows[r].owner \in Staff \cup {None} /\ rows[r].co \in Staff \cup {None}
           /\ rows[r].dept \in Depts \cup {None} /\ rows[r].active \in BOOLEAN
           /\ rows[r].city \in Cities \cup {None} /\ rows[r].tags \subseteq Tags
           /\ rows[r].products \subseteq Products
           /\ {"owner", "co"} \cap DOMAIN rows[r] = {"owner", "co"}
<1>1. IsRow("deals", rows[r]) BY DEF DataInv
<1>2. Fields["deals"] = {"owner", "co", "dept", "active", "city", "tags", "products", "parent"}
  BY DEF Fields
<1>3. \A c \in Fields["deals"] : rows[r][c] \in Column[c] BY <1>1 DEF IsRow
<1>. QED BY <1>1, <1>2, <1>3 DEF IsRow, Column

LEMMA MailTyped ==
    ASSUME DataInv, kind = "mails", NEW r \in Ids
    PROVE  /\ rows[r].owner \in Staff \cup {None} /\ rows[r].dept \in Depts \cup {None}
           /\ rows[r].incoming \in BOOLEAN /\ rows[r].sent \in BOOLEAN
           /\ rows[r].trash \in BOOLEAN /\ {"owner", "co"} \cap DOMAIN rows[r] = {"owner"}
<1>1. IsRow("mails", rows[r]) BY DEF DataInv
<1>2. Fields["mails"] = {"owner", "dept", "incoming", "sent", "trash", "parent"}
  BY DEF Fields
<1>3. \A c \in Fields["mails"] : rows[r][c] \in Column[c] BY <1>1 DEF IsRow
<1>. QED BY <1>1, <1>2, <1>3 DEF IsRow, Column

LEMMA TaskTyped ==
    ASSUME DataInv, kind = "tasks", NEW r \in Ids
    PROVE  /\ rows[r].owner \in Staff \cup {None} /\ rows[r].co \in Staff \cup {None}
           /\ rows[r].responsible \subseteq Staff /\ rows[r].subscribers \subseteq Staff
           /\ rows[r].active \in BOOLEAN /\ rows[r].hides \in BOOLEAN
           /\ rows[r].parent \in {0} \cup Ids
           /\ {"owner", "co"} \cap DOMAIN rows[r] = {"owner", "co"}
<1>1. IsRow("tasks", rows[r]) BY DEF DataInv
<1>2. Fields["tasks"] = {"owner", "co", "responsible", "subscribers", "active", "hides", "parent"}
  BY DEF Fields
<1>3. \A c \in Fields["tasks"] : rows[r][c] \in Column[c] BY <1>1 DEF IsRow
<1>4. rows[r].parent \in {0} \cup Ids BY DEF DataInv
<1>. QED BY <1>1, <1>2, <1>3, <1>4 DEF IsRow, Column

\* The fields of a page just made.
LEMMA PageFields ==
    ASSUME NEW u, NEW p, page' = PageOf(u, p)
    PROVE  /\ page'.u = u /\ page'.p = p /\ page'.shown = Shown(u, p)
           /\ page'.found = WithParent(p, Finds(u, p))
           /\ page'.hidden = (IF kind = "tasks" THEN Hidden(u) ELSE {})
           /\ page'.at = rows /\ page'.dept = Department(u, p)
           /\ page'.number = (IF kind = "mails" THEN OutboxNumber(u, p, Finds(u, p)) ELSE 0)
           /\ page'.outbox = (IF kind = "mails" THEN Shown(u, [p EXCEPT !.mailbox = "outbox"])
                             ELSE {})
           /\ DOMAIN page'.choices = {g \in Filters[kind] : Has(u, p, g)}
           /\ \A h \in DOMAIN page'.choices :
                page'.choices[h] = ChoicesOf(h, u, p, Finds(u, p))
BY DEF PageOf

\* The selected choices of a filter of the page are those with the value of the
\* address.
LEMMA SelectedIs ==
    ASSUME NEW u, NEW p, page' = PageOf(u, p), NEW h \in DOMAIN page'.choices
    PROVE  /\ h \in Filters[kind] /\ Has(u, p, h)
           /\ h # "department" =>
                Selected(h)' = {c \in ChoicesOf(h, u, p, Finds(u, p)) : c.value = p[h]}
           /\ h = "department" => Selected(h)' =
                {c \in ChoicesOf(h, u, p, Finds(u, p)) :
                   c.value = IF p.department # Absent THEN p.department
                             ELSE IF Department(u, p) = None THEN "all" ELSE Department(u, p)}
<1>1. /\ page'.p = p /\ page'.dept = Department(u, p)
      /\ h \in Filters[kind] /\ Has(u, p, h)
      /\ page'.choices[h] = ChoicesOf(h, u, p, Finds(u, p))
  BY PageFields
<1>. QED BY <1>1 DEF Selected, Value

\* One lemma per filter: the rows it leaves are those that fit its selected choice.
LEMMA DepartmentShown ==
    ASSUME NEW u, NEW p, Asked(u, p), "department" \in DOMAIN page'.choices,
           Selected("department")' # {}, NEW S \in SUBSET Ids
    PROVE  ByDepartment(u, p, S) =
             {r \in S : \A c \in Selected("department")' : Fits("department", c.shows, r)'}
<1> DEFINE v == IF p.department # Absent THEN p.department
                ELSE IF Department(u, p) = None THEN "all" ELSE Department(u, p)
<1>1. Selected("department")' = {c \in DepartmentChoices(u) : c.value = v}
  BY SelectedIs DEF Asked, ChoicesOf
<1>2. \A s, r : Fits("department", s, r)' <=> s = "All" \/ rows[r].dept = s
  BY PageFields DEF Asked, Fits
<1>3. Department(u, p) \in Depts \cup {None} /\ p.department \in {Absent, "all"} \cup Depts
  BY DepartmentTyped DEF Asked, IsAddress
<1>4. CASE v = "all"
  <2>1. DepartmentValue(u, p) \in {"all", None} BY <1>3, <1>4, NamesApart DEF DepartmentValue
  <2>2. \A c \in Selected("department")' : c.shows = "All"
    <3>1. Member[u] \subseteq Depts BY ListsAssumption DEF Asked
    <3>. QED BY <3>1, <1>1, <1>4, NamesApart DEF DepartmentChoices, Choice
  <2>. QED BY <2>1, <2>2, <1>2 DEF ByDepartment
<1>5. CASE v # "all"
  <2>1. v \in Depts /\ DepartmentValue(u, p) = v BY <1>3, <1>5 DEF DepartmentValue
  <2>2. \A c \in Selected("department")' : c.shows = v
    BY <1>1, <1>5 DEF DepartmentChoices, Choice
  <2>3. v \notin {"all", None} /\ v # "All" BY <2>1, NamesApart
  <2>4. ByDepartment(u, p, S) = {r \in S : rows[r].dept = v} BY <2>1, <2>3 DEF ByDepartment
  <2>5. \A r \in S : (\A c \in Selected("department")' : Fits("department", c.shows, r)')
                       <=> rows[r].dept = v
    BY <2>2, <2>3, <1>2
  <2>. QED BY <2>4, <2>5
<1>. QED BY <1>4, <1>5

\* Rows of one owner: what Named, Of and the choice of an owner say.
LEMMA OfFits ==
    ASSUME NEW S \in SUBSET Ids, NEW x
    PROVE  Of(x, S) = {r \in S : x \in PeopleOf(rows[r])}
BY DEF Of, People

LEMMA OwnersStaff ==
    ASSUME DataInv, NEW S \in SUBSET Ids
    PROVE  Owners(S) \subseteq Staff
<1>1. \A r \in S : People(r) \subseteq Staff
  <2> SUFFICES ASSUME NEW r \in S, NEW x \in People(r) PROVE x \in Staff OBVIOUS
  <2>1. PICK c \in {"owner", "co"} \cap DOMAIN rows[r] : x = rows[r][c] /\ x # None
    BY DEF People, PeopleOf
  <2>2. c \in Fields[kind] /\ rows[r][c] \in Column[c] BY <2>1 DEF DataInv, IsRow
  <2>. QED BY <2>1, <2>2 DEF Column
<1>. QED BY <1>1 DEF Owners

\* What a list has is found, and is there.
LEMMA FoundIds ==
    ASSUME NEW u, NEW p
    PROVE  Finds(u, p) \subseteq Ids /\ WithParent(p, Finds(u, p)) \subseteq Finds(u, p)
BY DEF Finds, FindsInCrm, FindsInTasks, WithParent

LEMMA OwnerShown ==
    ASSUME NEW u, NEW p, Asked(u, p), kind # "tasks", "owner" \in DOMAIN page'.choices,
           Selected("owner")' # {}, NEW S \in SUBSET Ids
    PROVE  ByOwner(u, p, Finds(u, p), S) =
             {r \in S : \A c \in Selected("owner")' : Fits("owner", c.shows, r)'}
<1> DEFINE Q == Finds(u, p)
           cs == OwnerChoices(u, p, Q)
<1>1. Selected("owner")' = {c \in cs : c.value = p.owner}
  BY SelectedIs DEF Asked, ChoicesOf
<1>2. \A s, r : Fits("owner", s, r)' <=>
         (s = "All" \/ IF s = None THEN rows[r].owner = None ELSE s \in PeopleOf(rows[r]))
  BY PageFields DEF Asked, Fits
<1>3. \A c \in cs : \/ c = Choice(Absent, "All") /\ (SeesAll(u) \/ OfDeal(p))
                    \/ c \in {Choice("all", "All"), Choice(Absent, u)} /\ ~(SeesAll(u) \/ OfDeal(p))
                    \/ \E x \in Staff : c = Choice(x, x)
                    \/ c = Choice("IsNull", None)
  <2>1. Q \subseteq Ids /\ WithParent(p, Q) \subseteq Ids BY FoundIds
  <2> DEFINE L == IF OfDeal(p) THEN WithParent(p, Q) ELSE Q
             others == IF SeesAll(u) \/ OfDeal(p) THEN L ELSE L \ Of(u, L)
  <2>2. others \in SUBSET Ids BY <2>1
  <2>3. cs = (IF SeesAll(u) \/ OfDeal(p) THEN {Choice(Absent, "All")}
               ELSE {Choice("all", "All"), Choice(Absent, u)})
             \cup {Choice(x, x) : x \in Owners(others)} \cup NoneOf(others)
    BY DEF OwnerChoices
  <2> HIDE DEF others, cs
  <2>4. Owners(others) \subseteq Staff BY <2>2, OwnersStaff DEF Asked
  <2>5. NoneOf(others) \subseteq {Choice("IsNull", None)} BY DEF NoneOf
  <2>. QED BY <2>3, <2>4, <2>5
<1>4. u \in Staff /\ u # None /\ u # "All" /\ u # "all" /\ u # "IsNull" /\ u # Absent
  BY NamesApart DEF Asked
<1>5. Named(p, u, cs) <=> p.owner \in {c.shows : c \in cs} BY DEF Named
<1> HIDE DEF cs
<1>6. PICK c \in cs : c.value = p.owner BY <1>1
<1>7. CASE p.owner = Absent
  <2>1. ~Named(p, u, cs) BY <1>3, <1>4, <1>5, <1>7, NamesApart DEF Choice, Absent, None
  <2>2. CASE SeesAll(u) \/ OfDeal(p)
    <3>1. \A d \in Selected("owner")' : d.shows = "All"
      BY <1>1, <1>3, <1>7, <2>2, NamesApart DEF Choice, Absent
    <3>2. ByOwner(u, p, Q, S) = S BY <2>1, <2>2, <1>7 DEF ByOwner, cs, Absent
    <3>. QED BY <3>1, <3>2, <1>2
  <2>3. CASE ~(SeesAll(u) \/ OfDeal(p))
    <3>1. \A d \in Selected("owner")' : d.shows = u
      BY <1>1, <1>3, <1>7, <2>3, NamesApart DEF Choice, Absent
    <3>2. ByOwner(u, p, Q, S) = Of(u, S) BY <2>3, <1>7 DEF ByOwner
    <3>3. \A r \in S : (\A d \in Selected("owner")' : Fits("owner", d.shows, r)')
                         <=> u \in PeopleOf(rows[r])
      BY <3>1, <1>1, <1>2, <1>4, <1>6
    <3>. QED BY <3>2, <3>3, OfFits
  <2>. QED BY <2>2, <2>3
<1>8. CASE p.owner = "all"
  <2>1. ~Named(p, u, cs) BY <1>3, <1>4, <1>5, <1>8, NamesApart DEF Choice, Absent, None
  <2>2. \A d \in Selected("owner")' : d.shows = "All"
    BY <1>1, <1>3, <1>8, NamesApart DEF Choice, Absent
  <2>3. ByOwner(u, p, Q, S) = S BY <2>1, <1>8 DEF ByOwner, cs, Absent
  <2>. QED BY <2>2, <2>3, <1>2
<1>9. CASE p.owner = "IsNull"
  <2>1. ~Named(p, u, cs) BY <1>3, <1>4, <1>5, <1>9, NamesApart DEF Choice, Absent, None
  <2>2. \A d \in Selected("owner")' : d.shows = None
    BY <1>1, <1>3, <1>9, NamesApart DEF Choice, Absent
  <2>3. ByOwner(u, p, Q, S) = Ownerless(S) BY <2>1, <1>9 DEF ByOwner, cs, Absent
  <2>4. \A r \in S : (\A d \in Selected("owner")' : Fits("owner", d.shows, r)')
                       <=> rows[r].owner = None
    BY <2>2, <1>1, <1>2, <1>6 DEF None
  <2>. QED BY <2>3, <2>4 DEF Ownerless
<1>10. CASE p.owner \notin {Absent, "all", "IsNull"}
  <2>1. p.owner \in Staff /\ Choice(p.owner, p.owner) \in cs
    BY <1>3, <1>6, <1>10 DEF Choice
  <2>2. Named(p, u, cs) BY <2>1, <1>5 DEF Choice
  <2>3. \A d \in Selected("owner")' : d.shows = p.owner
    BY <1>1, <1>3, <1>10 DEF Choice
  <2>4. ByOwner(u, p, Q, S) = Of(p.owner, S) BY <2>2, <1>10 DEF ByOwner, cs
  <2>5. \A r \in S : (\A d \in Selected("owner")' : Fits("owner", d.shows, r)')
                       <=> p.owner \in PeopleOf(rows[r])
    BY <2>1, <2>3, <1>1, <1>2, <1>6, NamesApart
  <2>. QED BY <2>4, <2>5, OfFits
<1>. QED BY <1>7, <1>8, <1>9, <1>10

LEMMA ActiveShown ==
    ASSUME NEW u, NEW p, Asked(u, p), kind # "mails", "active" \in DOMAIN page'.choices,
           Selected("active")' # {}, NEW S \in SUBSET Ids
    PROVE  ByActive(u, p, S) =
             {r \in S : \A c \in Selected("active")' : Fits("active", c.shows, r)'}
<1>1. Selected("active")' = {c \in ActiveChoices(p) : c.value = p.active}
  BY SelectedIs DEF Asked, ChoicesOf
<1>2. \A s, r : Fits("active", s, r)' <=>
         (s = "All" \/ IF s = "No" THEN ~rows[r].active
                       ELSE p.active = "yes" \/ (rows[r].active /\
                            r \notin IF kind = "tasks" THEN Hidden(u) ELSE {}))
  BY PageFields DEF Asked, Fits
<1>3. Active(S) = {r \in S : rows[r].active} BY DEF Active
<1>4. CASE OfCompany(p)
  <2>1. Selected("active")' = {c \in {Choice("no", "No"), Choice(Absent, "All"), Choice("yes", "Yes")} :
                                c.value = p.active}
    BY <1>1, <1>4 DEF ActiveChoices
  <2>2. PICK d \in Selected("active")' : TRUE OBVIOUS
  <2>3. CASE p.active = "no"
    <3>1. Selected("active")' = {Choice("no", "No")} BY <2>1, <2>3 DEF Choice, Absent
    <3>2. \A r \in S : (\A c \in Selected("active")' : Fits("active", c.shows, r)')
                         <=> ~rows[r].active
      BY <3>1, <1>2 DEF Choice
    <3>3. ByActive(u, p, S) = S \ Active(S) BY <2>3 DEF ByActive, Absent
    <3>. QED BY <3>2, <3>3, <1>3
  <2>4. CASE p.active = Absent
    <3>1. Selected("active")' = {Choice(Absent, "All")} BY <2>1, <2>4 DEF Choice, Absent
    <3>2. \A r \in S : \A c \in Selected("active")' : Fits("active", c.shows, r)'
      BY <3>1, <1>2 DEF Choice
    <3>. QED BY <3>2, <2>4, <1>4 DEF ByActive
  <2>5. CASE p.active = "yes"
    <3>1. Selected("active")' = {Choice("yes", "Yes")} BY <2>1, <2>5 DEF Choice, Absent
    <3>2. \A r \in S : \A c \in Selected("active")' : Fits("active", c.shows, r)'
      BY <3>1, <2>5, <1>2 DEF Choice
    <3>. QED BY <3>2, <2>5 DEF ByActive, Absent
  <2>. QED BY <2>1, <2>2, <2>3, <2>4, <2>5 DEF Choice
<1>5. CASE ~OfCompany(p)
  <2>1. Selected("active")' = {c \in {Choice("no", "No"), Choice("all", "All"), Choice(Absent, "Yes")} :
                                c.value = p.active}
    BY <1>1, <1>5 DEF ActiveChoices
  <2>2. PICK d \in Selected("active")' : TRUE OBVIOUS
  <2>3. CASE p.active = "no"
    <3>1. Selected("active")' = {Choice("no", "No")} BY <2>1, <2>3 DEF Choice, Absent
    <3>2. \A r \in S : (\A c \in Selected("active")' : Fits("active", c.shows, r)')
                         <=> ~rows[r].active
      BY <3>1, <1>2 DEF Choice
    <3>3. ByActive(u, p, S) = S \ Active(S) BY <2>3 DEF ByActive, Absent
    <3>. QED BY <3>2, <3>3, <1>3
  <2>4. CASE p.active = Absent
    <3>1. Selected("active")' = {Choice(Absent, "Yes")} BY <2>1, <2>4 DEF Choice, Absent
    <3>2. \A r \in S : (\A c \in Selected("active")' : Fits("active", c.shows, r)')
                         <=> rows[r].active /\ r \notin IF kind = "tasks" THEN Hidden(u) ELSE {}
      BY <3>1, <2>4, <1>2 DEF Choice, Absent
    <3>3. ByActive(u, p, S) = IF kind = "tasks" THEN Active(S) \ Hidden(u) ELSE Active(S)
      BY <2>4, <1>5 DEF ByActive
    <3>. QED BY <3>2, <3>3, <1>3
  <2>5. CASE p.active = "all"
    <3>1. Selected("active")' = {Choice("all", "All")} BY <2>1, <2>5 DEF Choice, Absent
    <3>2. \A r \in S : \A c \in Selected("active")' : Fits("active", c.shows, r)'
      BY <3>1, <1>2 DEF Choice
    <3>. QED BY <3>2, <2>5 DEF ByActive, Absent
  <2>. QED BY <2>1, <2>2, <2>3, <2>4, <2>5 DEF Choice
<1>. QED BY <1>4, <1>5

LEMMA CityShown ==
    ASSUME NEW u, NEW p, Asked(u, p), kind = "deals", "city" \in DOMAIN page'.choices,
           Selected("city")' # {}, NEW S \in SUBSET Ids
    PROVE  ByCity(p, S) = {r \in S : \A c \in Selected("city")' : Fits("city", c.shows, r)'}
<1>1. Selected("city")' = {c \in CityChoices(p, Finds(u, p)) : c.value = p.city}
  BY SelectedIs DEF Asked, ChoicesOf
<1>2. \A s, r : Fits("city", s, r)' <=> s = "All" \/ rows[r].city = s
  BY PageFields DEF Asked, Fits
<1>3. \A c \in CityChoices(p, Finds(u, p)) :
        c = Choice(Absent, "All") \/ c = Choice("IsNull", None) \/ \E x \in Cities : c = Choice(x, x)
  BY DEF CityChoices
<1>4. PICK d \in Selected("city")' : TRUE OBVIOUS
<1>5. CASE p.city = Absent
  <2>1. \A c \in Selected("city")' : c.shows = "All"
    BY <1>1, <1>3, <1>5, NamesApart DEF Choice, Absent
  <2>. QED BY <2>1, <1>2, <1>5 DEF ByCity
<1>6. CASE p.city = "IsNull"
  <2>1. \A c \in Selected("city")' : c.shows = None
    BY <1>1, <1>3, <1>6, NamesApart DEF Choice, Absent
  <2>2. \A r \in S : (\A c \in Selected("city")' : Fits("city", c.shows, r)') <=> rows[r].city = None
    BY <2>1, <1>2, <1>4 DEF None
  <2>. QED BY <2>2, <1>6 DEF ByCity, Absent
<1>7. CASE p.city \notin {Absent, "IsNull"}
  <2>1. p.city \in Cities /\ \A c \in Selected("city")' : c.shows = p.city
    BY <1>1, <1>3, <1>4, <1>7 DEF Choice
  <2>2. \A r \in S : (\A c \in Selected("city")' : Fits("city", c.shows, r)') <=> rows[r].city = p.city
    BY <2>1, <1>2, <1>4, NamesApart
  <2>. QED BY <2>2, <1>7 DEF ByCity
<1>. QED BY <1>5, <1>6, <1>7

LEMMA TagShown ==
    ASSUME NEW u, NEW p, Asked(u, p), kind = "deals", "tag" \in DOMAIN page'.choices,
           Selected("tag")' # {}, NEW S \in SUBSET Ids
    PROVE  ByTag(p, S) = {r \in S : \A c \in Selected("tag")' : Fits("tag", c.shows, r)'}
<1> DEFINE cs == TagChoices(u, p, Finds(u, p))
<1>1. Selected("tag")' = {c \in cs : c.value = p.tag}
  BY SelectedIs DEF Asked, ChoicesOf
<1>2. \A s, r : Fits("tag", s, r)' <=> s = "All" \/ s \in rows[r].tags
  BY PageFields DEF Asked, Fits
<1>3. \A r \in Ids : rows[r].tags \subseteq Tags BY DealTyped DEF Asked
<1>4. \A c \in cs : c = Choice(Absent, "All") \/ \E x \in Tags : c = Choice(x, x)
  <2> DEFINE L == IF p.owner = "IsNull" THEN Ownerless(Finds(u, p))
                  ELSE IF p.owner \in Staff THEN {r \in Finds(u, p) : rows[r].owner = p.owner}
                  ELSE IF Superuser(u) \/ Chief(u) \/ p.owner # Absent THEN Finds(u, p)
                  ELSE {r \in Finds(u, p) : rows[r].owner = u}
  <2>1. L \subseteq Ids BY FoundIds DEF Ownerless
  <2>2. cs = {Choice(Absent, "All")} \cup {Choice(t, t) : t \in UNION {rows[r].tags : r \in L}}
    BY DEF TagChoices
  <2> HIDE DEF L, cs
  <2>3. \A t \in UNION {rows[r].tags : r \in L} : t \in Tags BY <2>1, <1>3
  <2>. QED BY <2>2, <2>3
<1> HIDE DEF cs
<1>5. PICK d \in Selected("tag")' : TRUE OBVIOUS
<1>6. CASE p.tag = Absent
  <2>1. \A c \in Selected("tag")' : c.shows = "All"
    BY <1>1, <1>4, <1>6, NamesApart DEF Choice
  <2>. QED BY <2>1, <1>2, <1>6 DEF ByTag
<1>7. CASE p.tag # Absent
  <2>1. p.tag \in Tags /\ \A c \in Selected("tag")' : c.shows = p.tag
    BY <1>1, <1>4, <1>5, <1>7 DEF Choice
  <2>2. \A r \in S : (\A c \in Selected("tag")' : Fits("tag", c.shows, r)') <=> p.tag \in rows[r].tags
    BY <2>1, <1>2, <1>5, NamesApart
  <2>. QED BY <2>2, <1>7 DEF ByTag
<1>. QED BY <1>6, <1>7

LEMMA ProductShown ==
    ASSUME NEW u, NEW p, Asked(u, p), kind = "deals", "product" \in DOMAIN page'.choices,
           Selected("product")' # {}, NEW S \in SUBSET Ids
    PROVE  ByProduct(p, S) =
             {r \in S : \A c \in Selected("product")' : Fits("product", c.shows, r)'}
<1>1. Selected("product")' = {c \in ProductChoices(u, p) : c.value = p.product}
  BY SelectedIs DEF Asked, ChoicesOf
<1>2. \A s, r : Fits("product", s, r)' <=> s = "All" \/ s \in rows[r].products
  BY PageFields DEF Asked, Fits
<1>3. \A c \in ProductChoices(u, p) :
        c = Choice(Absent, "All") \/ \E x \in Products : c = Choice(x, x)
  BY DEF ProductChoices
<1>4. PICK d \in Selected("product")' : TRUE OBVIOUS
<1>5. CASE p.product = Absent
  <2>1. \A c \in Selected("product")' : c.shows = "All"
    BY <1>1, <1>3, <1>5, NamesApart DEF Choice
  <2>. QED BY <2>1, <1>2, <1>5 DEF ByProduct
<1>6. CASE p.product # Absent
  <2>1. p.product \in Products /\ \A c \in Selected("product")' : c.shows = p.product
    BY <1>1, <1>3, <1>4, <1>6 DEF Choice
  <2>2. \A r \in S : (\A c \in Selected("product")' : Fits("product", c.shows, r)')
                       <=> p.product \in rows[r].products
    BY <2>1, <1>2, <1>4, NamesApart
  <2>. QED BY <2>2, <1>6 DEF ByProduct
<1>. QED BY <1>5, <1>6

LEMMA MailboxShown ==
    ASSUME NEW u, NEW p, Asked(u, p), kind = "mails", "mailbox" \in DOMAIN page'.choices,
           Selected("mailbox")' # {}, NEW S \in SUBSET Ids
    PROVE  ByMailbox(p, S) =
             {r \in S : \A c \in Selected("mailbox")' : Fits("mailbox", c.shows, r)'}
<1> DEFINE boxes == {"inbox", "sent", "outbox", "trash"}
<1>1. Selected("mailbox")' = {c \in MailboxChoices : c.value = p.mailbox}
  BY SelectedIs DEF Asked, ChoicesOf
<1>2. \A s, r : Fits("mailbox", s, r)' <=> s = "All" \/
         ((s = "trash") = rows[r].trash /\
           CASE s = "inbox" -> rows[r].incoming [] s = "sent" -> rows[r].sent
             [] s = "outbox" -> ~rows[r].sent /\ ~rows[r].incoming [] OTHER -> TRUE)
  BY PageFields DEF Asked, Fits
<1>3. \A r \in Ids : rows[r].trash \in BOOLEAN BY MailTyped DEF Asked
<1>4. PICK d \in Selected("mailbox")' : TRUE OBVIOUS
<1>5. CASE p.mailbox = Absent
  <2>1. \A c \in Selected("mailbox")' : c.shows = "All"
    BY <1>1, <1>5 DEF MailboxChoices, Choice, Absent
  <2>. QED BY <2>1, <1>2, <1>5 DEF ByMailbox
<1>6. CASE p.mailbox # Absent
  <2>1. p.mailbox \in boxes /\ \A c \in Selected("mailbox")' : c.shows = p.mailbox
    BY <1>1, <1>4, <1>6 DEF MailboxChoices, Choice
  <2>2. \A r \in S : (\A c \in Selected("mailbox")' : Fits("mailbox", c.shows, r)')
                       <=> Fits("mailbox", p.mailbox, r)'
    BY <2>1, <1>4
  <2>3. \A r \in Ids : Fits("mailbox", p.mailbox, r)' <=> r \in InBox(p.mailbox)
    <3> TAKE r \in Ids
    <3>1. CASE p.mailbox = "inbox" BY <3>1, <1>2, <1>3 DEF InBox
    <3>2. CASE p.mailbox = "sent" BY <3>2, <1>2, <1>3 DEF InBox
    <3>3. CASE p.mailbox = "outbox" BY <3>3, <1>2, <1>3 DEF InBox
    <3>4. CASE p.mailbox = "trash" BY <3>4, <1>2, <1>3 DEF InBox
    <3>. QED BY <3>1, <3>2, <3>3, <3>4, <2>1
  <2>. QED BY <2>2, <2>3, <1>6 DEF ByMailbox
<1>. QED BY <1>5, <1>6

\* The choices of an owner of tasks.
LEMMA TaskOwnerChoice ==
    ASSUME NEW u \in Staff, NEW p, DataInv
    PROVE  \A c \in TaskOwnerChoices(u, p, Finds(u, p)) :
             \/ Chief(u) /\ c \in {Choice("all", "All"), Choice(Absent, u)}
             \/ ~Chief(u) /\ c = Choice(Absent, "All")
             \/ \E x \in Staff : c = Choice(x, x)
             \/ c = Choice("IsNull", None)
<1> DEFINE L == WithParent(p, Finds(u, p))
           mine == {r \in L : rows[r].owner = u}
           cs == TaskOwnerChoices(u, p, Finds(u, p))
<1>1. cs = {IF Chief(u) THEN Choice("all", "All") ELSE Choice(Absent, "All")}
           \cup {Choice(x, x) : x \in Owners(L \ Of(u, L))} \cup NoneOf(L)
           \cup (IF mine = {} THEN {} ELSE {IF Chief(u) THEN Choice(Absent, u) ELSE Choice(u, u)})
  BY DEF TaskOwnerChoices
<1>2. L \ Of(u, L) \in SUBSET Ids BY FoundIds
<1> HIDE DEF L, mine, cs
<1>3. Owners(L \ Of(u, L)) \subseteq Staff BY <1>2, OwnersStaff
<1>4. NoneOf(L) \subseteq {Choice("IsNull", None)} BY DEF NoneOf
<1>. QED BY <1>1, <1>3, <1>4 DEF cs

\* Which names the address of a list of tasks is taken for one of.
LEMMA TaskOwnerNamed ==
    ASSUME NEW u \in Staff, NEW p, DataInv
    PROVE  /\ p.owner \in {Absent, "all", "IsNull"} => ~Named(p, u, TaskOwnerChoices(u, p, Finds(u, p)))
           /\ p.owner \notin {Absent, "all", "IsNull"}
                /\ (\E c \in TaskOwnerChoices(u, p, Finds(u, p)) : c.value = p.owner)
                => p.owner \in Staff /\ Named(p, u, TaskOwnerChoices(u, p, Finds(u, p)))
<1> DEFINE cs == TaskOwnerChoices(u, p, Finds(u, p))
<1>1. \A c \in cs : \/ Chief(u) /\ c \in {Choice("all", "All"), Choice(Absent, u)}
                    \/ ~Chief(u) /\ c = Choice(Absent, "All")
                    \/ \E x \in Staff : c = Choice(x, x)
                    \/ c = Choice("IsNull", None)
  BY TaskOwnerChoice
<1>2. Named(p, u, cs) <=> p.owner \in {c.shows : c \in cs} BY DEF Named
<1> HIDE DEF cs
<1>3. \A c \in cs : c.shows \notin {Absent, "all", "IsNull"}
  BY <1>1, NamesApart DEF Choice, Absent, None
<1>4. \A c \in cs : c.value \notin {Absent, "all", "IsNull"} => c.value \in Staff /\ c.shows = c.value
  BY <1>1 DEF Choice
<1>5. ASSUME p.owner \in {Absent, "all", "IsNull"} PROVE ~Named(p, u, cs)
  BY <1>2, <1>3, <1>5
<1>6. ASSUME p.owner \notin {Absent, "all", "IsNull"}, NEW c \in cs, c.value = p.owner
      PROVE  p.owner \in Staff /\ Named(p, u, cs)
  BY <1>2, <1>4, <1>6
<1>. QED BY <1>5, <1>6 DEF cs

LEMMA TaskOwnerShown ==
    ASSUME NEW u, NEW p, Asked(u, p), kind = "tasks", "owner" \in DOMAIN page'.choices,
           Selected("owner")' # {}, NEW S \in SUBSET Ids
    PROVE  ByTaskOwner(u, p, Finds(u, p), S) =
             {r \in S : \A c \in Selected("owner")' : Fits("owner", c.shows, r)'}
<1> DEFINE Q == Finds(u, p)
           cs == TaskOwnerChoices(u, p, Q)
<1>1. Selected("owner")' = {c \in cs : c.value = p.owner}
  BY SelectedIs DEF Asked, ChoicesOf
<1>2. \A s, r : Fits("owner", s, r)' <=>
         (s = "All" \/ (IF s = None THEN rows[r].owner = None ELSE s \in PeopleOf(rows[r]))
          \/ (p.parent # 0 /\ Chief(u) /\ p.owner = Absent))
  BY PageFields DEF Asked, Fits
<1>3. \A c \in cs : \/ Chief(u) /\ c \in {Choice("all", "All"), Choice(Absent, u)}
                    \/ ~Chief(u) /\ c = Choice(Absent, "All")
                    \/ \E x \in Staff : c = Choice(x, x)
                    \/ c = Choice("IsNull", None)
  BY TaskOwnerChoice DEF Asked
<1>4. u \in Staff /\ u # None /\ u # "All" BY NamesApart DEF Asked
<1>5. /\ p.owner \in {Absent, "all", "IsNull"} => ~Named(p, u, cs)
      /\ p.owner \notin {Absent, "all", "IsNull"} /\ (\E c \in cs : c.value = p.owner)
           => p.owner \in Staff /\ Named(p, u, cs)
  BY TaskOwnerNamed DEF Asked
<1> HIDE DEF cs
<1>6. PICK c \in cs : c.value = p.owner BY <1>1
<1>7. CASE p.owner = Absent
  <2>1. CASE ~Chief(u)
    <3>1. \A d \in Selected("owner")' : d.shows = "All"
      BY <1>1, <1>3, <1>7, <2>1, NamesApart DEF Choice, Absent
    <3>2. ByTaskOwner(u, p, Q, S) = S BY <1>5, <1>7, <2>1 DEF ByTaskOwner, cs, Absent
    <3>. QED BY <3>1, <3>2, <1>2
  <2>2. CASE Chief(u) /\ p.parent # 0
    <3>1. ByTaskOwner(u, p, Q, S) = S BY <1>5, <1>7, <2>2 DEF ByTaskOwner, cs, Absent
    <3>. QED BY <3>1, <1>2, <1>7, <2>2
  <2>3. CASE Chief(u) /\ p.parent = 0
    <3>1. \A d \in Selected("owner")' : d.shows = u
      BY <1>1, <1>3, <1>7, <2>3, NamesApart DEF Choice, Absent
    <3>2. ByTaskOwner(u, p, Q, S) = Of(u, S) BY <2>3, <1>7 DEF ByTaskOwner
    <3>3. \A r \in S : (\A d \in Selected("owner")' : Fits("owner", d.shows, r)')
                         <=> u \in PeopleOf(rows[r])
      BY <3>1, <1>1, <1>2, <1>4, <1>6, <2>3
    <3>. QED BY <3>2, <3>3, OfFits
  <2>. QED BY <2>1, <2>2, <2>3
<1>8. CASE p.owner = "all"
  <2>1. \A d \in Selected("owner")' : d.shows = "All"
    BY <1>1, <1>3, <1>8, NamesApart DEF Choice, Absent
  <2>2. ByTaskOwner(u, p, Q, S) = S BY <1>5, <1>8 DEF ByTaskOwner, cs, Absent
  <2>. QED BY <2>1, <2>2, <1>2
<1>9. CASE p.owner = "IsNull"
  <2>1. \A d \in Selected("owner")' : d.shows = None
    BY <1>1, <1>3, <1>9, NamesApart DEF Choice, Absent
  <2>2. ByTaskOwner(u, p, Q, S) = Ownerless(S) BY <1>5, <1>9 DEF ByTaskOwner, cs, Absent
  <2>3. \A r \in S : (\A d \in Selected("owner")' : Fits("owner", d.shows, r)')
                       <=> rows[r].owner = None
    BY <2>1, <1>1, <1>2, <1>6, <1>9 DEF None, Absent
  <2>. QED BY <2>2, <2>3 DEF Ownerless
<1>10. CASE p.owner \notin {Absent, "all", "IsNull"}
  <2>1. p.owner \in Staff /\ Named(p, u, cs) BY <1>5, <1>6, <1>10
  <2>2. \A d \in Selected("owner")' : d.shows = p.owner
    BY <1>1, <1>3, <1>10 DEF Choice
  <2>3. ByTaskOwner(u, p, Q, S) = Of(p.owner, S) BY <2>1, <1>10 DEF ByTaskOwner, cs
  <2>4. \A r \in S : (\A d \in Selected("owner")' : Fits("owner", d.shows, r)')
                       <=> p.owner \in PeopleOf(rows[r])
    BY <2>1, <2>2, <1>1, <1>2, <1>6, <1>10, NamesApart
  <2>. QED BY <2>3, <2>4, OfFits
<1>. QED BY <1>7, <1>8, <1>9, <1>10

\* The choices of a responsible.
LEMMA ResponsibleChoice ==
    ASSUME NEW u \in Staff, NEW p, DataInv, kind = "tasks",
           NEW c \in ResponsibleChoices(u, p, Finds(u, p))
    PROVE  \/ (p.parent # 0 \/ Chief(u)) /\ c = Choice(Absent, "All")
           \/ ~(p.parent # 0 \/ Chief(u)) /\ c = Choice("all", "All")
           \/ /\ ~(p.parent # 0 \/ Chief(u)) /\ c = Choice(Absent, u)
              /\ \E r \in WithParent(p, Finds(u, p)) :
                   u \in rows[r].responsible /\ (p.owner = Absent \/ rows[r].owner = p.owner)
           \/ \E x \in Staff : c = Choice(x, x)
           \/ c = Choice("IsNull", None)
<1> DEFINE W == WithParent(p, Finds(u, p))
           S == IF p.owner = Absent THEN W ELSE {r \in W : rows[r].owner = p.owner}
           them == UNION {rows[r].responsible : r \in S}
           me == IF u \notin them \/ p.parent # 0 THEN {}
                 ELSE {IF Chief(u) THEN Choice(u, u) ELSE Choice(Absent, u)}
           first == IF p.parent # 0 \/ Chief(u) THEN Choice(Absent, "All") ELSE Choice("all", "All")
<1>1. c \in {first} \cup {Choice(x, x) : x \in them \ {u}} \cup me
           \cup (IF \E r \in S : rows[r].responsible = {} THEN {Choice("IsNull", None)} ELSE {})
  BY DEF ResponsibleChoices
<1>2. S \subseteq Ids BY FoundIds
<1>3. \A r \in Ids : rows[r].responsible \subseteq Staff BY TaskTyped
<1>4. them \subseteq Staff BY <1>2, <1>3
<1>5. \A r \in S : r \in W /\ (p.owner = Absent \/ rows[r].owner = p.owner) OBVIOUS
<1>6. CASE c = first BY <1>6
<1>7. CASE c \in {Choice(x, x) : x \in them \ {u}} BY <1>4, <1>7
<1>8. CASE c \in me
  <2>1. p.parent = 0 /\ c = IF Chief(u) THEN Choice(u, u) ELSE Choice(Absent, u) BY <1>8
  <2>2. PICK r \in S : u \in rows[r].responsible BY <1>8
  <2>. QED BY <2>1, <2>2, <1>5
<1>9. CASE c = Choice("IsNull", None) BY <1>9
<1> HIDE DEF first, me, them, S
<1>. QED BY <1>1, <1>6, <1>7, <1>8, <1>9

\* The filter by responsible shows a manager his own tasks if there are some, and
\* the choice of himself is selected if there are: of the tasks of the owner chosen.
LEMMA ResponsibleShown ==
    ASSUME NEW u, NEW p, Asked(u, p), kind = "tasks",
           {"owner", "responsible"} \subseteq DOMAIN page'.choices,
           Selected("owner")' # {}, Selected("responsible")' # {},
           ~(Chief(u) /\ p.parent = 0 /\ p.responsible = Absent
              /\ \E r \in Ids : u \in rows[r].responsible)
    PROVE  ByResponsible(u, p, ByTaskOwner(u, p, Finds(u, p), WithParent(p, Finds(u, p)))) =
             {r \in ByTaskOwner(u, p, Finds(u, p), WithParent(p, Finds(u, p))) :
                \A c \in Selected("responsible")' : Fits("responsible", c.shows, r)'}
<1> DEFINE Q == Finds(u, p)
           W == WithParent(p, Q)
           S == ByTaskOwner(u, p, Q, W)
           cs == ResponsibleChoices(u, p, Q)
<1>1. Selected("responsible")' = {c \in cs : c.value = p.responsible}
  BY SelectedIs DEF Asked, ChoicesOf
<1>2. \A s, r : Fits("responsible", s, r)' <=>
         (s = "All" \/ IF s = None THEN rows[r].responsible = {} ELSE s \in rows[r].responsible)
  BY PageFields DEF Asked, Fits
<1>3. \A c \in cs :
           \/ (p.parent # 0 \/ Chief(u)) /\ c = Choice(Absent, "All")
           \/ ~(p.parent # 0 \/ Chief(u)) /\ c = Choice("all", "All")
           \/ /\ ~(p.parent # 0 \/ Chief(u)) /\ c = Choice(Absent, u)
              /\ \E r \in W : u \in rows[r].responsible /\ (p.owner = Absent \/ rows[r].owner = p.owner)
           \/ \E x \in Staff : c = Choice(x, x)
           \/ c = Choice("IsNull", None)
  BY ResponsibleChoice DEF Asked
<1>4. u \in Staff /\ u # None /\ u # "All" BY NamesApart DEF Asked
<1>5. S \subseteq W /\ W \subseteq Ids
  BY FoundIds DEF ByTaskOwner, Of, Ownerless
<1>6. WithParent(p, S) = S BY <1>5 DEF WithParent
<1> HIDE DEF cs, S
<1>7. ByResponsible(u, p, S) =
        IF p.responsible = Absent
        THEN IF p.parent = 0 /\ Does(u, S) # {} THEN Does(u, S) ELSE S
        ELSE IF p.responsible = "all" THEN S
        ELSE IF p.responsible = "IsNull" THEN {r \in S : rows[r].responsible = {}}
        ELSE Does(p.responsible, S)
  BY <1>6 DEF ByResponsible
<1>8. PICK c \in cs : c.value = p.responsible BY <1>1
<1>9. CASE p.responsible = Absent /\ (p.parent # 0 \/ Chief(u))
  <2>1. \A d \in Selected("responsible")' : d.shows = "All"
    BY <1>1, <1>3, <1>9, NamesApart DEF Choice, Absent
  <2>2. ~(p.parent = 0 /\ Does(u, S) # {}) BY <1>5, <1>9 DEF Does
  <2>3. ByResponsible(u, p, S) = S BY <1>7, <1>9, <2>2
  <2>. QED BY <2>1, <2>3, <1>2 DEF S
<1>10. CASE p.responsible = Absent /\ ~(p.parent # 0 \/ Chief(u))
  <2>1. c = Choice(Absent, u) /\ \A d \in Selected("responsible")' : d.shows = u
    BY <1>1, <1>3, <1>8, <1>10, NamesApart DEF Choice, Absent
  <2>2. PICK r \in W : u \in rows[r].responsible /\ (p.owner = Absent \/ rows[r].owner = p.owner)
    BY <1>3, <2>1, <1>4, <1>10, NamesApart DEF Choice
  <2>3. r \in S
    <3>1. CASE p.owner = Absent
      <4>1. ~Named(p, u, TaskOwnerChoices(u, p, Q)) BY <3>1, TaskOwnerNamed DEF Asked
      <4>. QED BY <4>1, <3>1, <1>10 DEF S, ByTaskOwner, Absent
    <3>2. CASE p.owner # Absent
      <4>1. rows[r].owner = p.owner /\ r \in Ids /\ p.owner \in Staff \cup {None}
        BY <2>2, <3>2, <1>5, TaskTyped DEF Asked
      <4>2. PICK d \in TaskOwnerChoices(u, p, Q) : d.value = p.owner
        BY SelectedIs DEF Asked, ChoicesOf
      <4>3. p.owner \notin {Absent, "all", "IsNull"} BY <4>1, NamesApart DEF None, Absent
      <4>4. p.owner \in Staff /\ Named(p, u, TaskOwnerChoices(u, p, Q))
        BY <4>2, <4>3, TaskOwnerNamed DEF Asked
      <4>5. S = Of(p.owner, W) BY <4>3, <4>4 DEF S, ByTaskOwner
      <4>6. "owner" \in {"owner", "co"} \cap DOMAIN rows[r] BY <4>1, TaskTyped DEF Asked
      <4>7. rows[r].owner \in PeopleOf(rows[r]) BY <4>1, <4>4, <4>6, NamesApart DEF PeopleOf
      <4>. QED BY <4>1, <4>5, <4>7, <2>2 DEF Of, People
    <3>. QED BY <3>1, <3>2
  <2>4. Does(u, S) # {} BY <2>2, <2>3 DEF Does
  <2>5. ByResponsible(u, p, S) = Does(u, S) BY <1>7, <1>10, <2>4
  <2>6. \A x \in S : (\A d \in Selected("responsible")' : Fits("responsible", d.shows, x)')
                       <=> u \in rows[x].responsible
    BY <2>1, <1>1, <1>2, <1>4, <1>8
  <2>. QED BY <2>5, <2>6 DEF S, Does
<1>11. CASE p.responsible = "all"
  <2>1. \A d \in Selected("responsible")' : d.shows = "All"
    BY <1>1, <1>3, <1>11, NamesApart DEF Choice, Absent
  <2>2. ByResponsible(u, p, S) = S BY <1>7, <1>11 DEF Absent
  <2>. QED BY <2>1, <2>2, <1>2 DEF S
<1>12. CASE p.responsible = "IsNull"
  <2>1. \A d \in Selected("responsible")' : d.shows = None
    BY <1>1, <1>3, <1>12, NamesApart DEF Choice, Absent
  <2>2. ByResponsible(u, p, S) = {r \in S : rows[r].responsible = {}} BY <1>7, <1>12 DEF Absent
  <2>3. \A x \in S : (\A d \in Selected("responsible")' : Fits("responsible", d.shows, x)')
                       <=> rows[x].responsible = {}
    BY <2>1, <1>1, <1>2, <1>8 DEF None
  <2>. QED BY <2>2, <2>3 DEF S
<1>13. CASE p.responsible \notin {Absent, "all", "IsNull"}
  <2>1. p.responsible \in Staff /\ \A d \in Selected("responsible")' : d.shows = p.responsible
    BY <1>1, <1>3, <1>8, <1>13 DEF Choice
  <2>2. ByResponsible(u, p, S) = Does(p.responsible, S) BY <1>7, <1>13
  <2>3. \A x \in S : (\A d \in Selected("responsible")' : Fits("responsible", d.shows, x)')
                       <=> p.responsible \in rows[x].responsible
    BY <2>1, <1>1, <1>2, <1>8, NamesApart
  <2>. QED BY <2>2, <2>3 DEF S, Does
<1>. QED BY <1>9, <1>10, <1>11, <1>12, <1>13

\* What the selected choices of the filters F say of a row.
AllFit(F, r) == \A f \in F : \A c \in Selected(f)' : Fits(f, c.shows, r)'

\* The department of the list, whose filter only those with a department of the
\* session have.
LEMMA DepartmentApplied ==
    ASSUME NEW u, NEW p, Asked(u, p), \A f \in DOMAIN page'.choices : Selected(f)' # {},
           "department" \in Filters[kind], NEW S \in SUBSET Ids
    PROVE  (IF Has(u, p, "department") THEN ByDepartment(u, p, S) ELSE S) =
             {r \in S : AllFit({"department"} \cap DOMAIN page'.choices, r)}
<1>0. DOMAIN page'.choices = {g \in Filters[kind] : Has(u, p, g)} BY PageFields DEF Asked
<1>1. Has(u, p, "department") <=> "department" \in DOMAIN page'.choices BY <1>0
<1>2. CASE Has(u, p, "department")
  <2>1. ByDepartment(u, p, S) =
             {r \in S : \A c \in Selected("department")' : Fits("department", c.shows, r)'}
    BY <1>1, <1>2, DepartmentShown
  <2>2. {"department"} \cap DOMAIN page'.choices = {"department"} BY <1>1, <1>2
  <2>. QED BY <1>2, <2>1, <2>2 DEF AllFit
<1>3. CASE ~Has(u, p, "department")
  <2>1. {"department"} \cap DOMAIN page'.choices = {} BY <1>1, <1>3
  <2>. QED BY <1>3, <2>1 DEF AllFit
<1>. QED BY <1>2, <1>3

\* The filters of each kind of list, one after the other.
LEMMA DealsShown ==
    ASSUME NEW u, NEW p, Asked(u, p), \A f \in DOMAIN page'.choices : Selected(f)' # {},
           kind = "deals"
    PROVE  Shown(u, p) = {r \in WithParent(p, Finds(u, p)) : AllFit(DOMAIN page'.choices, r)}
<1> DEFINE Q == Finds(u, p)
           S == WithParent(p, Q)
           D == IF Has(u, p, "department") THEN ByDepartment(u, p, S) ELSE S
           A == ByActive(u, p, D)
           O == ByOwner(u, p, Q, A)
           P == ByProduct(p, O)
           C == ByCity(p, P)
           T == IF Has(u, p, "tag") THEN ByTag(p, C) ELSE C
<1>1. Shown(u, p) = T BY DEF Shown
<1>2. Filters[kind] = {"department", "active", "owner", "product", "city", "tag"} BY DEF Filters
<1>3. DOMAIN page'.choices = {f \in Filters[kind] : Has(u, p, f)} BY PageFields DEF Asked
<1>4. \A f \in {"active", "owner", "product", "city"} : f \in DOMAIN page'.choices
  BY <1>2, <1>3 DEF Has
<1>5. S \subseteq Ids BY FoundIds
<1> HIDE DEF S, D, A, O, P, C, T, Q
<1>6. D = {r \in S : AllFit({"department"} \cap DOMAIN page'.choices, r)}
  BY <1>2, <1>5, DepartmentApplied DEF D
<1>7. A = {r \in D : \A c \in Selected("active")' : Fits("active", c.shows, r)'}
  BY <1>4, <1>5, <1>6, ActiveShown DEF A
<1>8. O = {r \in A : \A c \in Selected("owner")' : Fits("owner", c.shows, r)'}
  <2>1. A \in SUBSET Ids /\ kind # "tasks" BY <1>5, <1>6, <1>7
  <2>2. Selected("owner")' # {} BY <1>4
  <2>. QED BY <2>1, <2>2, <1>4, OwnerShown DEF O, Q
<1>9. P = {r \in O : \A c \in Selected("product")' : Fits("product", c.shows, r)'}
  BY <1>4, <1>5, <1>6, <1>7, <1>8, ProductShown DEF P
<1>10. C = {r \in P : \A c \in Selected("city")' : Fits("city", c.shows, r)'}
  BY <1>4, <1>5, <1>6, <1>7, <1>8, <1>9, CityShown DEF C
<1>11. T = {r \in C : AllFit({"tag"} \cap DOMAIN page'.choices, r)}
  <2>1. Has(u, p, "tag") <=> "tag" \in DOMAIN page'.choices BY <1>2, <1>3
  <2>2. CASE Has(u, p, "tag")
    <3>1. C \subseteq Ids BY <1>5, <1>6, <1>7, <1>8, <1>9, <1>10
    <3>2. T = {r \in C : \A c \in Selected("tag")' : Fits("tag", c.shows, r)'}
      BY <2>1, <2>2, <3>1, TagShown DEF T
    <3>3. {"tag"} \cap DOMAIN page'.choices = {"tag"} BY <2>1, <2>2
    <3>. QED BY <3>2, <3>3 DEF AllFit
  <2>3. CASE ~Has(u, p, "tag")
    <3>1. {"tag"} \cap DOMAIN page'.choices = {} BY <2>1, <2>3
    <3>. QED BY <2>3, <3>1 DEF AllFit, T
  <2>. QED BY <2>2, <2>3
<1>12. \A r : AllFit(DOMAIN page'.choices, r) <=>
         /\ AllFit({"department"} \cap DOMAIN page'.choices, r)
         /\ AllFit({"active"}, r) /\ AllFit({"owner"}, r)
         /\ AllFit({"product"}, r) /\ AllFit({"city"}, r)
         /\ AllFit({"tag"} \cap DOMAIN page'.choices, r)
  <2>1. DOMAIN page'.choices = ({"department"} \cap DOMAIN page'.choices) \cup {"active"}
          \cup {"owner"} \cup {"product"} \cup {"city"} \cup ({"tag"} \cap DOMAIN page'.choices)
    BY <1>2, <1>3, <1>4
  <2>. QED BY ONLY <2>1 DEF AllFit
<1>13. \A r : /\ AllFit({"active"}, r) <=> \A c \in Selected("active")' : Fits("active", c.shows, r)'
              /\ AllFit({"owner"}, r) <=> \A c \in Selected("owner")' : Fits("owner", c.shows, r)'
              /\ AllFit({"product"}, r) <=> \A c \in Selected("product")' : Fits("product", c.shows, r)'
              /\ AllFit({"city"}, r) <=> \A c \in Selected("city")' : Fits("city", c.shows, r)'
  BY ONLY DEF AllFit
<1>14. \A r : r \in T <=> r \in S /\ AllFit(DOMAIN page'.choices, r)
  BY ONLY <1>6, <1>7, <1>8, <1>9, <1>10, <1>11, <1>12, <1>13
<1>. QED BY <1>1, <1>5, <1>14 DEF S, Q

LEMMA MailsShown ==
    ASSUME NEW u, NEW p, Asked(u, p), \A f \in DOMAIN page'.choices : Selected(f)' # {},
           kind = "mails"
    PROVE  Shown(u, p) = {r \in WithParent(p, Finds(u, p)) : AllFit(DOMAIN page'.choices, r)}
<1> DEFINE Q == Finds(u, p)
           S == WithParent(p, Q)
           D == IF Has(u, p, "department") THEN ByDepartment(u, p, S) ELSE S
           M == ByMailbox(p, D)
           O == ByOwner(u, p, Q, M)
<1>1. Shown(u, p) = O BY DEF Shown
<1>2. Filters[kind] = {"department", "mailbox", "owner"} BY DEF Filters
<1>3. DOMAIN page'.choices = {f \in Filters[kind] : Has(u, p, f)} BY PageFields DEF Asked
<1>4. \A f \in {"mailbox", "owner"} : f \in DOMAIN page'.choices BY <1>2, <1>3 DEF Has
<1>5. S \subseteq Ids BY FoundIds
<1> HIDE DEF S, D, M, O, Q
<1>6. D = {r \in S : AllFit({"department"} \cap DOMAIN page'.choices, r)}
  BY <1>2, <1>5, DepartmentApplied DEF D
<1>7. M = {r \in D : \A c \in Selected("mailbox")' : Fits("mailbox", c.shows, r)'}
  BY <1>4, <1>5, <1>6, MailboxShown DEF M
<1>8. O = {r \in M : \A c \in Selected("owner")' : Fits("owner", c.shows, r)'}
  <2>1. M \in SUBSET Ids /\ kind # "tasks" BY <1>5, <1>6, <1>7
  <2>2. Selected("owner")' # {} BY <1>4
  <2>. QED BY <2>1, <2>2, <1>4, OwnerShown DEF O, Q
<1>9. \A r : AllFit(DOMAIN page'.choices, r) <=>
         /\ AllFit({"department"} \cap DOMAIN page'.choices, r)
         /\ AllFit({"mailbox"}, r) /\ AllFit({"owner"}, r)
  <2>1. DOMAIN page'.choices = ({"department"} \cap DOMAIN page'.choices) \cup {"mailbox"} \cup {"owner"}
    BY <1>2, <1>3, <1>4
  <2>. QED BY ONLY <2>1 DEF AllFit
<1>10. \A r : /\ AllFit({"mailbox"}, r) <=> \A c \in Selected("mailbox")' : Fits("mailbox", c.shows, r)'
              /\ AllFit({"owner"}, r) <=> \A c \in Selected("owner")' : Fits("owner", c.shows, r)'
  BY ONLY DEF AllFit
<1>11. \A r : r \in O <=> r \in S /\ AllFit(DOMAIN page'.choices, r)
  BY ONLY <1>6, <1>7, <1>8, <1>9, <1>10
<1>. QED BY <1>1, <1>5, <1>11 DEF S, Q

LEMMA TasksShown ==
    ASSUME NEW u, NEW p, Asked(u, p), \A f \in DOMAIN page'.choices : Selected(f)' # {},
           kind = "tasks",
           ~(Chief(u) /\ p.parent = 0 /\ p.responsible = Absent
              /\ \E r \in Ids : u \in rows[r].responsible)
    PROVE  Shown(u, p) = {r \in WithParent(p, Finds(u, p)) : AllFit(DOMAIN page'.choices, r)}
<1> DEFINE Q == Finds(u, p)
           S == WithParent(p, Q)
           O == ByTaskOwner(u, p, Q, S)
           R == ByResponsible(u, p, O)
           A == ByActive(u, p, R)
<1>1. Shown(u, p) = A BY DEF Shown
<1>2. Filters[kind] = {"owner", "responsible", "active"} BY DEF Filters
<1>3. DOMAIN page'.choices = {"owner", "responsible", "active"}
  <2>1. DOMAIN page'.choices = {f \in Filters[kind] : Has(u, p, f)} BY PageFields DEF Asked
  <2>2. \A f \in {"owner", "responsible", "active"} : Has(u, p, f) BY <1>2 DEF Has
  <2>. QED BY <1>2, <2>1, <2>2
<1>4. S \subseteq Ids BY FoundIds
<1>5. R = {r \in O : \A c \in Selected("responsible")' : Fits("responsible", c.shows, r)'}
  BY <1>3, ResponsibleShown
<1> HIDE DEF S, O, R, A
<1>6. O = {r \in S : \A c \in Selected("owner")' : Fits("owner", c.shows, r)'}
  BY <1>3, <1>4, TaskOwnerShown DEF O
<1>7. A = {r \in R : \A c \in Selected("active")' : Fits("active", c.shows, r)'}
  BY <1>3, <1>4, <1>5, <1>6, ActiveShown DEF A
<1>8. \A r : AllFit(DOMAIN page'.choices, r) <=>
         /\ \A c \in Selected("owner")' : Fits("owner", c.shows, r)'
         /\ \A c \in Selected("responsible")' : Fits("responsible", c.shows, r)'
         /\ \A c \in Selected("active")' : Fits("active", c.shows, r)'
  BY ONLY <1>3 DEF AllFit
<1>9. \A r : r \in A <=> r \in S /\ AllFit(DOMAIN page'.choices, r)
  BY ONLY <1>5, <1>6, <1>7, <1>8
<1>. QED BY <1>1, <1>4, <1>9 DEF S

\* A page just made shows what its selected choices say.
LEMMA PageShowsSelected ==
    ASSUME NEW u, NEW p, Asked(u, p)
    PROVE  SelectedShown'
<1> SUFFICES ASSUME \A f \in DOMAIN page'.choices : Selected(f)' # {},
                    ~(/\ kind = "tasks" /\ Chief(u) /\ p.parent = 0 /\ p.responsible = Absent
                      /\ \E r \in Ids : u \in rows[r].responsible)
             PROVE  Shown(u, p) = {r \in WithParent(p, Finds(u, p)) : AllFit(DOMAIN page'.choices, r)}
  <2>1. /\ page'.u = u /\ page'.p = p /\ page'.at = rows /\ page'.shown = Shown(u, p)
        /\ page'.found = WithParent(p, Finds(u, p))
    BY PageFields DEF Asked
  <2>2. kind' = kind /\ Ids' = Ids BY DEF Asked, Ids
  <2>. QED BY <2>1, <2>2 DEF SelectedShown, AllFit
<1>1. kind \in Kinds BY DEF Asked, DataInv
<1>2. CASE kind = "deals" BY <1>2, DealsShown
<1>3. CASE kind = "mails" BY <1>3, MailsShown
<1>4. CASE kind = "tasks" BY <1>4, TasksShown
<1>. QED BY <1>1, <1>2, <1>3, <1>4 DEF Kinds

\* A mail has one person, its owner.
LEMMA MailPeople ==
    ASSUME DataInv, kind = "mails", NEW r \in Ids, NEW x \in Staff
    PROVE  x \in People(r) <=> rows[r].owner = x
<1>1. {"owner", "co"} \cap DOMAIN rows[r] = {"owner"} BY MailTyped
<1>2. PeopleOf(rows[r]) = {rows[r][c] : c \in {"owner"}} \ {None} BY <1>1 DEF PeopleOf
<1>. QED BY <1>2, NamesApart DEF People

\* The filter by department leaves the mails that a list has anyway.
LEMMA MailsOfDepartment ==
    ASSUME NEW u \in Staff, NEW p, IsAddress(p), SessionInv, kind = "mails",
           NEW S \in SUBSET Finds(u, p)
    PROVE  (IF Has(u, p, "department") THEN ByDepartment(u, p, S) ELSE S) = S
<1>1. Department(u, p) \in Depts \cup {None} BY DepartmentTyped
<1>2. \A r \in S : Department(u, p) # None => rows[r].dept = Department(u, p)
  BY DEF Finds, FindsInCrm
<1>3. SUFFICES ASSUME Has(u, p, "department") PROVE ByDepartment(u, p, S) = S OBVIOUS
<1>4. InSession(u) BY <1>3 DEF Has
<1>5. CASE p.department = Absent
  <2>1. DepartmentValue(u, p) = Department(u, p) BY <1>5 DEF DepartmentValue
  <2>. QED BY <2>1, <1>2 DEF ByDepartment
<1>6. CASE p.department = "all"
  <2>1. DepartmentValue(u, p) = "all" BY <1>6 DEF DepartmentValue, Absent
  <2>. QED BY <2>1 DEF ByDepartment
<1>7. CASE p.department \in Depts
  <2>1. DepartmentValue(u, p) = p.department /\ Department(u, p) = p.department
    BY <1>4, <1>7, NamesApart DEF DepartmentValue, Department
  <2>2. Department(u, p) # None BY <2>1, <1>7, NamesApart
  <2>. QED BY <2>1, <2>2, <1>2 DEF ByDepartment
<1>. QED BY <1>5, <1>6, <1>7 DEF IsAddress

\* The number in the name of the outbox is that of the mails it would show.
LEMMA OutboxRight ==
    ASSUME NEW u, NEW p, Asked(u, p), kind = "mails",
           ~SeesAll(u) \/ Superuser(u) \/ Chief(u),
           p.owner \notin {"all", "IsNull"}, Selected("owner")' # {},
           p.owner \in Staff => Department(u, p) \in {None} \cup Member[p.owner],
           p.parent = 0, "owner" \in DOMAIN page'.choices
    PROVE  OutboxNumber(u, p, Finds(u, p)) =
             Cardinality(Shown(u, [p EXCEPT !.mailbox = "outbox"]))
<1> DEFINE q == [p EXCEPT !.mailbox = "outbox"]
           Q == Finds(u, p)
           B == Q \cap InBox("outbox")
           d == Department(u, p)
           N == {r \in {x \in B : d = None \/ rows[x].dept = d} :
                   IF p.owner \notin {Absent, "all", "IsNull"}
                   THEN (d = None \/ d \in Member[p.owner]) => rows[r].owner = p.owner
                   ELSE Superuser(u) \/ Chief(u) \/ rows[r].owner = u}
<1>0. u \in Staff /\ DataInv /\ SessionInv /\ IsAddress(p) BY DEF Asked
<1>1. OutboxNumber(u, p, Q) = Cardinality(N) BY DEF OutboxNumber
<1>2. /\ \A f \in Params \ {"mailbox"} : q[f] = p[f]
      /\ q.mailbox = "outbox" /\ IsAddress(q)
  BY <1>0 DEF IsAddress, Params
<1>3. /\ q.owner = p.owner /\ q.parent = 0 /\ q.department = p.department
  BY <1>2 DEF Params
<1>4. Department(u, q) = d BY <1>3 DEF Department
<1>5. Finds(u, q) = Q BY <1>4 DEF Finds, FindsInCrm
<1>6. WithParent(q, Q) = Q /\ WithParent(p, Q) = Q BY <1>3 DEF WithParent
<1>7. (IF Has(u, q, "department") THEN ByDepartment(u, q, Q) ELSE Q) = Q
  BY <1>0, <1>2, <1>5, MailsOfDepartment
<1>8. ByMailbox(q, Q) = B BY <1>2 DEF ByMailbox, Absent
<1>9. Shown(u, q) = ByOwner(u, q, Q, B) BY <1>5, <1>6, <1>7, <1>8 DEF Shown
<1>10. OwnerChoices(u, q, Q) = OwnerChoices(u, p, Q)
  BY <1>6, <1>3 DEF OwnerChoices, OfDeal
<1>11. ByOwner(u, q, Q, B) = ByOwner(u, p, Q, B)
  BY <1>3, <1>10 DEF ByOwner, OfDeal, Named
<1>12. B \subseteq Ids /\ \A r \in B : d = None \/ rows[r].dept = d
  BY FoundIds DEF Finds, FindsInCrm
<1>13. ByOwner(u, p, Q, B) = {r \in B : \A c \in Selected("owner")' : Fits("owner", c.shows, r)'}
  BY <1>12, OwnerShown
<1> HIDE DEF q, Q, B, d
<1>14. N = {r \in B : IF p.owner \notin {Absent, "all", "IsNull"}
                     THEN (d = None \/ d \in Member[p.owner]) => rows[r].owner = p.owner
                     ELSE Superuser(u) \/ Chief(u) \/ rows[r].owner = u}
  BY <1>12
<1>15. Selected("owner")' = {c \in OwnerChoices(u, p, Q) : c.value = p.owner}
  BY SelectedIs DEF Asked, ChoicesOf, Q
<1>16. N = ByOwner(u, p, Q, B)
  <2>1. ~OfDeal(p) BY DEF OfDeal
  <2>2. CASE p.owner = Absent
    <3>1. ~SeesAll(u) => ~Superuser(u) /\ ~Chief(u) BY DEF SeesAll, InSession, Chief
    <3>2. CASE ~SeesAll(u)
      <4>1. ByOwner(u, p, Q, B) = Of(u, B) BY <2>1, <2>2, <3>2 DEF ByOwner
      <4>2. \A r \in B : u \in People(r) <=> rows[r].owner = u BY <1>0, <1>12, MailPeople
      <4>. QED BY <4>1, <4>2, <3>1, <3>2, <2>2, <1>14 DEF Of
    <3>3. CASE SeesAll(u)
      <4>1. ByOwner(u, p, Q, B) = B \/ ByOwner(u, p, Q, B) = Of(p.owner, B)
        BY <2>2, <3>3 DEF ByOwner, Absent
      <4>2. \A c \in OwnerChoices(u, p, Q) : c.shows # Absent
        <5>1. Q \subseteq Ids BY FoundIds DEF Q
        <5>2. Owners(Q) \subseteq Staff BY <5>1, <1>0, OwnersStaff
        <5>. QED BY <5>2, <2>1, <3>3, NamesApart DEF OwnerChoices, NoneOf, Choice, None, Absent
      <4>3. ByOwner(u, p, Q, B) = B BY <2>2, <3>3, <4>2 DEF ByOwner, Named, Absent
      <4>. QED BY <4>3, <3>3, <2>2, <1>14
    <3>. QED BY <3>2, <3>3
  <2>3. CASE p.owner # Absent
    <3>1. p.owner \notin {Absent, "all", "IsNull"} BY <2>3
    <3>2. p.owner \in Staff /\ p.owner \in {c.shows : c \in OwnerChoices(u, p, Q)}
      <4>1. PICK c \in OwnerChoices(u, p, Q) : c.value = p.owner BY <1>15
      <4> DEFINE others == IF SeesAll(u) THEN Q ELSE Q \ Of(u, Q)
      <4>2. OwnerChoices(u, p, Q) =
              (IF SeesAll(u) THEN {Choice(Absent, "All")}
               ELSE {Choice("all", "All"), Choice(Absent, u)})
              \cup {Choice(x, x) : x \in Owners(others)} \cup NoneOf(others)
        BY <2>1 DEF OwnerChoices
      <4>3. others \subseteq Ids BY FoundIds DEF Q
      <4> HIDE DEF others
      <4>4. Owners(others) \subseteq Staff BY <4>3, <1>0, OwnersStaff
      <4>5. PICK x \in Owners(others) : c = Choice(x, x)
        BY <4>1, <4>2, <3>1 DEF Choice, NoneOf
      <4>. QED BY <4>1, <4>4, <4>5 DEF Choice
    <3>3. ByOwner(u, p, Q, B) = Of(p.owner, B) BY <3>1, <3>2 DEF ByOwner, Named
    <3>4. \A r \in B : p.owner \in People(r) <=> rows[r].owner = p.owner
      BY <3>2, <1>0, <1>12, MailPeople
    <3>5. d = None \/ d \in Member[p.owner] BY <3>2 DEF d
    <3>. QED BY <3>1, <3>3, <3>4, <3>5, <1>14 DEF Of
  <2>. QED BY <2>2, <2>3
<1>. QED BY <1>1, <1>9, <1>11, <1>16 DEF q, Q

LEMMA PageCounted ==
    ASSUME NEW u, NEW p, Asked(u, p)
    PROVE  OutboxCounted'
<1>1. /\ page'.u = u /\ page'.p = p /\ page'.dept = Department(u, p)
      /\ page'.number = (IF kind = "mails" THEN OutboxNumber(u, p, Finds(u, p)) ELSE 0)
      /\ page'.outbox = (IF kind = "mails" THEN Shown(u, [p EXCEPT !.mailbox = "outbox"]) ELSE {})
  BY PageFields DEF Asked
<1>2. kind = "mails" => "owner" \in DOMAIN page'.choices
  <2>1. DOMAIN page'.choices = {g \in Filters[kind] : Has(u, p, g)} BY PageFields DEF Asked
  <2>. QED BY <2>1 DEF Has, Filters
<1>3. kind' = kind BY DEF Asked
<1>. QED BY <1>1, <1>2, <1>3, OutboxRight DEF OutboxCounted

\* A page shows nothing that the list does not have.
LEMMA ShownFound ==
    ASSUME NEW u, NEW p, kind \in Kinds
    PROVE  Shown(u, p) \subseteq WithParent(p, Finds(u, p))
<1>1. \A S : /\ ByActive(u, p, S) \subseteq S /\ ByDepartment(u, p, S) \subseteq S
             /\ ByProduct(p, S) \subseteq S /\ ByCity(p, S) \subseteq S
             /\ ByTag(p, S) \subseteq S /\ ByMailbox(p, S) \subseteq S
  BY DEF ByActive, Active, ByDepartment, ByProduct, ByCity, ByTag, ByMailbox
<1>2. \A S : /\ ByOwner(u, p, Finds(u, p), S) \subseteq S
             /\ ByTaskOwner(u, p, Finds(u, p), S) \subseteq S
  BY DEF ByOwner, ByTaskOwner, Of, Ownerless
<1>3. \A S : ByResponsible(u, p, S) \subseteq S BY DEF ByResponsible, Does, WithParent
<1> DEFINE Q == Finds(u, p)
           S0 == WithParent(p, Q)
           D0 == IF Has(u, p, "department") THEN ByDepartment(u, p, S0) ELSE S0
<1> HIDE DEF Q, S0
<1>4. D0 \subseteq S0 BY <1>1
<1> HIDE DEF D0
<1>5. CASE kind = "deals"
  <2> DEFINE A == ByActive(u, p, D0)
             O == ByOwner(u, p, Q, A)
             P == ByProduct(p, O)
             C == ByCity(p, P)
  <2>1. Shown(u, p) = IF Has(u, p, "tag") THEN ByTag(p, C) ELSE C
    BY <1>5 DEF Shown, D0, S0, Q
  <2>2. A \subseteq D0 BY <1>1
  <2>3. O \subseteq A BY <1>2 DEF Q
  <2> HIDE DEF A, O
  <2>4. P \subseteq O BY <1>1
  <2> HIDE DEF P
  <2>5. C \subseteq P BY <1>1
  <2> HIDE DEF C
  <2>6. ByTag(p, C) \subseteq C BY <1>1
  <2>. QED BY <1>4, <2>1, <2>2, <2>3, <2>4, <2>5, <2>6 DEF S0, Q
<1>6. CASE kind = "mails"
  <2> DEFINE M == ByMailbox(p, D0)
  <2>1. Shown(u, p) = ByOwner(u, p, Q, M) BY <1>6 DEF Shown, D0, S0, Q
  <2>2. M \subseteq D0 BY <1>1
  <2> HIDE DEF M
  <2>3. ByOwner(u, p, Q, M) \subseteq M BY <1>2 DEF Q
  <2>. QED BY <1>4, <2>1, <2>2, <2>3 DEF S0, Q
<1>7. CASE kind = "tasks"
  <2> DEFINE O == ByTaskOwner(u, p, Q, S0)
             R == ByResponsible(u, p, O)
  <2>1. Shown(u, p) = ByActive(u, p, R) BY <1>7 DEF Shown, S0, Q
  <2>2. O \subseteq S0 BY <1>2 DEF Q
  <2>3. R \subseteq O BY <1>3
  <2> HIDE DEF O, R
  <2>4. ByActive(u, p, R) \subseteq R BY <1>1
  <2>. QED BY <2>1, <2>2, <2>3, <2>4 DEF S0, Q
<1>. QED BY <1>5, <1>6, <1>7 DEF Kinds

\* A page just made is one the invariant knows.
LEMMA PageTyped ==
    ASSUME NEW u, NEW p, Asked(u, p)
    PROVE  PageInv'
<1>1. /\ page'.u = u /\ page'.p = p /\ page'.dept = Department(u, p)
      /\ page'.shown = Shown(u, p) /\ page'.found = WithParent(p, Finds(u, p))
      /\ DOMAIN page'.choices = {g \in Filters[kind] : Has(u, p, g)}
      /\ \A h \in DOMAIN page'.choices : page'.choices[h] = ChoicesOf(h, u, p, Finds(u, p))
  BY PageFields DEF Asked
<1>2. u \in Staff /\ IsAddress(p) /\ Department(u, p) \in Depts \cup {None} /\ kind \in Kinds
  BY DepartmentTyped DEF Asked, DataInv
<1>3. Shown(u, p) \subseteq WithParent(p, Finds(u, p)) /\ WithParent(p, Finds(u, p)) \subseteq Ids
  BY <1>2, ShownFound, FoundIds
<1>4. ASSUME "department" \in DOMAIN page'.choices, NEW c \in page'.choices["department"]
      PROVE  c.value \in {"all"} \cup Depts
  <2>1. c \in DepartmentChoices(u) BY <1>1, <1>4 DEF ChoicesOf
  <2>2. Member[u] \subseteq Depts BY <1>2, ListsAssumption
  <2>. QED BY <2>1, <2>2 DEF DepartmentChoices, Choice
<1>5. kind' = kind /\ Ids' = Ids BY DEF Asked, Ids
<1>. QED BY <1>1, <1>2, <1>3, <1>4, <1>5 DEF PageInv

\* Whoever finds a task can open it.
LEMMA FoundOpens ==
    ASSUME DataInv, kind = "tasks", NEW u \in Staff, NEW p, NEW r \in Finds(u, p)
    PROVE  MayView(u, r)
<1>1. r \in Ids /\ r \in FindsInTasks(u, p) BY FoundIds DEF Finds
<1>2. CASE Superuser(u) \/ Chief(u) \/ "task_operators" \in Groups[u] BY <1>2 DEF MayView
<1>3. CASE u \in People(r) \/ Takes(u, r) BY <1>1, <1>3 DEF MayView
<1>4. CASE rows[r].parent # 0 /\ u \in rows[rows[r].parent].subscribers
  <2>1. rows[r].parent \in Ids BY <1>1, <1>4 DEF DataInv
  <2>. QED BY <1>4, <2>1 DEF MayView, Takes
<1>. QED BY <1>1, <1>2, <1>3, <1>4 DEF FindsInTasks

\* The tasks that the index page counts are those of the list behind it.
LEMMA CountedFound ==
    ASSUME DataInv, kind = "tasks", NEW u \in Staff, ~Chief(u), ForMe(u) # {}
    PROVE  Shown(u, NoParams) = ForMe(u)
<1> DEFINE Q == Finds(u, NoParams)
           O == ByTaskOwner(u, NoParams, Q, Q)
           R == ByResponsible(u, NoParams, O)
<1>1. /\ NoParams.parent = 0 /\ NoParams.owner = Absent /\ NoParams.responsible = Absent
      /\ NoParams.active = Absent
  BY DEF NoParams, Params
<1>2. WithParent(NoParams, Q) = Q BY <1>1 DEF WithParent
<1>3. Shown(u, NoParams) = ByActive(u, NoParams, R) BY <1>2 DEF Shown
<1>4. O = Q
  <2>1. ~Named(NoParams, u, TaskOwnerChoices(u, NoParams, Q)) BY <1>1, TaskOwnerNamed
  <2>. QED BY <2>1, <1>1 DEF ByTaskOwner, Absent
<1>5. Does(u, Q) = Does(u, Ids)
  <2>1. Q \subseteq Ids BY FoundIds
  <2>2. \A r \in Ids : u \in rows[r].responsible => r \in Q
    BY DEF Finds, FindsInTasks, Takes
  <2>. QED BY <2>1, <2>2 DEF Does
<1>6. Does(u, Ids) # {} BY DEF ForMe
<1>7. WithParent(NoParams, O) = O BY <1>1 DEF WithParent
<1> HIDE DEF O, Q
<1>8. R = Does(u, Ids) BY <1>1, <1>4, <1>5, <1>6, <1>7 DEF ByResponsible
<1> HIDE DEF R
<1>9. ByActive(u, NoParams, R) = Active(R) \ Hidden(u)
  BY <1>1 DEF ByActive, OfCompany
<1>. QED BY <1>3, <1>8, <1>9 DEF ForMe, Active, Does

\* The invariant says what a list promises, holds at first and is kept.
LEMMA ListsHold == ListsInv => ListsRight
<1> SUFFICES ASSUME ListsInv PROVE ListsRight OBVIOUS
<1>1. ListsTypeOK BY DEF ListsInv, DataInv, SessionInv, PageInv, ListsTypeOK
<1>2. ListedOpens BY FoundOpens DEF ListsInv, ListedOpens
<1>3. TasksCounted BY CountedFound DEF ListsInv, TasksCounted
<1>. QED BY <1>1, <1>2, <1>3 DEF ListsInv, ListsRight

LEMMA ListsStart == Init => ListsInv
<1> SUFFICES ASSUME Init PROVE ListsInv OBVIOUS
<1>1. DataInv
  <2>1. kind \in Kinds /\ rows \in Rows0[kind] BY DEF Init
  <2>. QED BY <2>1, ListsAssumption DEF DataInv, Ids
<1>2. SessionInv BY DEF Init, SessionInv
<1>3. page = NoPage BY DEF Init
<1>. QED BY <1>1, <1>2, <1>3 DEF ListsInv, PageInv, SelectedShown, OutboxCounted

\* A page that is made, from the index or by a link, keeps the invariant.
LEMMA PageStep ==
    ASSUME DataInv, SessionInv, NEW u \in Staff, NEW p, IsAddress(p), Render(u, p)
    PROVE  ListsInv'
<1>1. UNCHANGED <<kind, rows>> /\ page' = PageOf(u, p) BY DEF Render
<1>2. Asked(u, p) BY <1>1 DEF Asked
<1>3. PageInv' /\ SelectedShown' /\ OutboxCounted'
  BY <1>2, PageTyped, PageShowsSelected, PageCounted
<1>4. DataInv' BY <1>1 DEF DataInv, Ids
<1>5. SessionInv'
  <2>1. Department(u, p) \in Depts \cup {None} BY DepartmentTyped
  <2>. QED BY <2>1 DEF Render, SessionInv
<1>. QED BY <1>3, <1>4, <1>5 DEF ListsInv

LEMMA OpenStep ==
    ASSUME ListsInv, NEW u \in Staff, Open(u)
    PROVE  ListsInv'
<1>1. PICK x \in {0} \cup {rows[r].parent : r \in Ids} : Render(u, [NoParams EXCEPT !.parent = x])
  BY DEF Open
<1>2. IsAddress([NoParams EXCEPT !.parent = x]) BY DEF IsAddress, NoParams, Params
<1>. QED BY <1>1, <1>2, PageStep DEF ListsInv

LEMMA ClickStep ==
    ASSUME ListsInv, page # NoPage, NEW f \in DOMAIN page.choices, Click(f)
    PROVE  ListsInv'
<1>1. PICK c \in page.choices[f] : Render(page.u, [page.p EXCEPT ![f] = c.value])
  BY DEF Click
<1> DEFINE p == [page.p EXCEPT ![f] = c.value]
<1>2. page.u \in Staff /\ IsAddress(page.p) BY DEF ListsInv, PageInv
<1>3. f = "department" => c.value \in {"all"} \cup Depts BY DEF ListsInv, PageInv
<1>4. IsAddress(p) BY <1>2, <1>3 DEF IsAddress, Params
<1>. QED BY <1>1, <1>2, <1>4, PageStep DEF ListsInv

\* Steps that leave the page and the ids alone.
LEMMA PageLeft ==
    ASSUME ListsInv, UNCHANGED <<kind, page>>, Ids' = Ids
    PROVE  PageInv' /\ SelectedShown' /\ OutboxCounted'
<1>1. PageInv' BY DEF ListsInv, PageInv
<1>2. SelectedShown'
  <2>1. \A f : Selected(f)' = Selected(f) BY DEF Selected, Value
  <2>2. \A f, s, r : Fits(f, s, r)' <=> Fits(f, s, r) BY DEF Fits
  <2>3. SelectedShown BY DEF ListsInv
  <2>. QED BY ONLY <2>1, <2>2, <2>3, UNCHANGED <<kind, page>>, Ids' = Ids DEF SelectedShown
<1>3. OutboxCounted' BY DEF ListsInv, OutboxCounted, Selected, Value
<1>. QED BY <1>1, <1>2, <1>3

LEMMA ElsewhereStep ==
    ASSUME ListsInv, NEW u \in Staff, NEW d \in Depts \cup {None}, Elsewhere(u, d)
    PROVE  ListsInv'
<1>1. UNCHANGED <<kind, rows, page>> /\ session' = [session EXCEPT ![u] = d] BY DEF Elsewhere
<1>2. Ids' = Ids BY <1>1 DEF Ids
<1>3. PageInv' /\ SelectedShown' /\ OutboxCounted' BY <1>1, <1>2, PageLeft
<1>4. DataInv' BY <1>1 DEF ListsInv, DataInv, Ids
<1>5. SessionInv' BY <1>1 DEF ListsInv, SessionInv
<1>. QED BY <1>3, <1>4, <1>5 DEF ListsInv

\* A row that is saved is a row again, and has the main task it had.
LEMMA RowSaveStep ==
    ASSUME ListsInv, NEW r \in Ids, Save(r)
    PROVE  ListsInv'
<1>0. PICK c \in DOMAIN rows[r] \ {"incoming", "hides", "parent"} : \E v \in Column[c] :
        rows' = [rows EXCEPT ![r][c] = v]
  BY DEF Save
<1>1. PICK v \in Column[c] : rows' = [rows EXCEPT ![r][c] = v] BY <1>0
<1>2. UNCHANGED <<kind, session, page>> BY DEF Save
<1>3. Ids' = Ids BY <1>1 DEF Ids
<1>4. PageInv' /\ SelectedShown' /\ OutboxCounted' BY <1>2, <1>3, PageLeft
<1>5. \A x \in Ids : rows'[x] = IF x = r THEN [rows[r] EXCEPT ![c] = v] ELSE rows[x]
  BY <1>1 DEF Ids
<1>6. ASSUME NEW x \in Ids
      PROVE  /\ IsRow(kind, rows'[x])
             /\ kind = "tasks" => rows'[x].parent = rows[x].parent
  <2>1. IsRow(kind, rows[x]) BY DEF ListsInv, DataInv
  <2>2. CASE x # r BY <1>5, <2>1, <2>2
  <2>3. CASE x = r
    <3>1. /\ DOMAIN rows'[x] = DOMAIN rows[x]
          /\ \A z \in DOMAIN rows[x] : rows'[x][z] = IF z = c THEN v ELSE rows[x][z]
      BY <1>5, <2>3
    <3>2. IsRow(kind, rows'[x]) BY <3>1, <2>1 DEF IsRow
    <3>3. kind = "tasks" => "parent" \in DOMAIN rows[x] BY <2>1 DEF IsRow, Fields
    <3>. QED BY <3>1, <3>2, <3>3, <1>1
  <2>. QED BY <2>2, <2>3
<1>7. DataInv' BY <1>2, <1>3, <1>6 DEF ListsInv, DataInv
<1>8. SessionInv' BY <1>2 DEF ListsInv, SessionInv
<1>. QED BY <1>4, <1>7, <1>8 DEF ListsInv

LEMMA ListsStep == ListsInv /\ [ListsNext]_listVars => ListsInv'
<1> SUFFICES ASSUME ListsInv, [ListsNext]_listVars PROVE ListsInv' OBVIOUS
<1>1. ASSUME NEW u \in Staff, Open(u) PROVE ListsInv' BY <1>1, OpenStep
<1>2. ASSUME NEW u \in Staff, NEW d \in Depts \cup {None}, Elsewhere(u, d) PROVE ListsInv'
  BY <1>2, ElsewhereStep
<1>3. ASSUME page # NoPage, NEW f \in DOMAIN page.choices, Click(f) PROVE ListsInv'
  BY <1>3, ClickStep
<1>4. ASSUME NEW r \in Ids, Save(r) PROVE ListsInv' BY <1>4, RowSaveStep
<1>5. CASE UNCHANGED listVars
  <2>1. UNCHANGED <<kind, rows, session, page>> BY <1>5 DEF listVars
  <2>2. Ids' = Ids BY <2>1 DEF Ids
  <2>3. PageInv' /\ SelectedShown' /\ OutboxCounted' BY <2>1, <2>2, PageLeft
  <2>4. DataInv' /\ SessionInv' BY <2>1 DEF ListsInv, DataInv, SessionInv, Ids
  <2>. QED BY <2>3, <2>4 DEF ListsInv
<1>. QED BY <1>1, <1>2, <1>3, <1>4, <1>5 DEF ListsNext

\* What a list shows is what its selected choices say it shows, whoever finds a
\* task may open it, and the numbers of waiting tasks and of mails in the outbox
\* are those of the lists behind them: for any users, roles, departments and rows,
\* whatever was saved and chosen in other tabs since the page before.
THEOREM ListsAgree == Spec => []ListsRight
<1>1. Init => ListsInv BY ListsStart
<1>2. ListsInv /\ [ListsNext]_listVars => ListsInv' BY ListsStep
<1>3. ListsInv => ListsRight BY ListsHold
<1>. QED BY <1>1, <1>2, <1>3, PTL DEF Spec
=============================================================================
