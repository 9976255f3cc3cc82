-------------------------- MODULE EmailImportProofs --------------------------
(* Theorems about EmailImport, and about the shared connections of CrmImap. *)
EXTENDS EmailImport, CrmImap, FiniteSetTheorems, SequenceTheorems, WellFoundedInduction, TLAPS

(* The first and the last of a set of mails. *)
LEMMA HasLeast ==
    ASSUME NEW S \in SUBSET Nat, S # {}
    PROVE  \E x \in S : \A y \in S : x <= y
<1> DEFINE R == OpToRel(<, Nat)
<1>1. \E x \in S : \A y \in S : <<y, x>> \notin R
  BY NatLessThanWellFounded, WFMin
<1> HIDE DEF R
<1>2. \A x, y \in S : <<y, x>> \notin R => x <= y
  <2> SUFFICES ASSUME NEW x \in S, NEW y \in S, y < x PROVE <<y, x>> \in R
    OBVIOUS
  <2> QED BY DEF R, OpToRel
<1> QED BY <1>1, <1>2

LEMMA MinIsLeast ==
    ASSUME NEW S \in SUBSET Nat, S # {}
    PROVE  Min(S) \in S /\ \A y \in S : Min(S) <= y
BY HasLeast DEF Min

LEMMA MaxIsIn ==
    ASSUME NEW n \in Nat, NEW S \in SUBSET (1..n), S # {}
    PROVE  Max(S) \in S
<1> DEFINE T == {k \in 0..n : n - k \in S}
<1>1. T \in SUBSET Nat /\ T # {}
  <2>1. PICK x \in S : TRUE
    OBVIOUS
  <2>2. n - x \in 0..n /\ n - (n - x) = x
    OBVIOUS
  <2>3. n - x \in T
    BY <2>1, <2>2
  <2>4. T \subseteq Nat
    OBVIOUS
  <2> QED BY <2>3, <2>4
<1>2. PICK k \in T : \A j \in T : k <= j
  BY <1>1, HasLeast
<1>3. n - k \in S /\ \A y \in S : n - k >= y
  <2> SUFFICES ASSUME NEW y \in S PROVE n - k >= y
    BY <1>2
  <2>1. n - y \in 0..n /\ n - (n - y) = y
    OBVIOUS
  <2>2. n - y \in T
    BY <2>1
  <2>3. k <= n - y
    BY <1>2, <2>2
  <2> QED BY <2>1, <2>3
<1> QED BY <1>3 DEF Max
------------------------------------------------------------------------------
Uidnexts == 1..(MaxMail + 1)
Starts == 0..(MaxMail + 1)
Object == [start : Uidnexts, next : Uidnexts]
Importing == [pc : {"idle", "check", "mark", "status", "search", "fetch", "save"},
              start : Starts, next : Starts, upd : BOOLEAN,
              todo : SUBSET Mails, i : Nat, first : BOOLEAN]
Restoring == [pc : {"idle", "look", "save", "inquiry", "dead"}, item : Item \cup {NoItem}]
ByHand == [todo : SUBSET Mails, t : {"ticket", "inquiry"}]

Types ==
    /\ kind \in Mailboxes /\ inbox \in 0..MaxMail
    /\ ea \in [start : Uidnexts, next : Uidnexts, recent : BOOLEAN]
    /\ rows \in [Mails -> Nat] /\ inqs \in [Mails -> Nat] /\ reqs \in [Mails -> Nat]
    /\ eaq \in [Procs -> Seq(Object)] /\ emlq \in [Procs -> Seq(Item)]
    /\ inqq \in [Procs -> Seq(Mails)]
    /\ imp \in [Procs -> Importing] /\ res \in [Procs -> Restoring]
    /\ seen \in [Procs -> Uidnexts] /\ cei \in [Procs -> 0..MaxMail]
    /\ web \in [Procs -> ByHand]
    /\ missed \in [failed : SUBSET Mails, cut : SUBSET Mails, jumped : SUBSET Mails]
    /\ raced \in SUBSET Mails
    /\ sends \in 0..MaxSends /\ manual \in 0..MaxManual /\ ops \in 0..MaxOps

(* A mail that is looked at has arrived, and a start is not beyond the end *)
(* of the box; the queues are within their sizes.                          *)
EaqHere(p) == Len(eaq[p]) <= 1 /\ \A i \in DOMAIN eaq[p] : eaq[p][i].start <= inbox + 1
EmlqHere(p) == Len(emlq[p]) <= QueueSize /\ \A i \in DOMAIN emlq[p] : emlq[p][i].uid <= inbox
InqqHere(p) == Len(inqq[p]) <= InqSize
ImpHere(p) == /\ imp[p].start <= inbox + 1 /\ (imp[p].pc # "idle" => imp[p].next >= 1)
              /\ \A m \in imp[p].todo : m <= inbox
ResHere(p) == res[p].pc \notin {"idle", "dead"} => res[p].item \in Item /\ res[p].item.uid <= inbox
WebHere(p) == \A m \in web[p].todo : m <= inbox
HereAt(p) == EaqHere(p) /\ EmlqHere(p) /\ InqqHere(p) /\ ImpHere(p) /\ ResHere(p) /\ WebHere(p)
Here == ea.start <= inbox + 1 /\ \A p \in Procs : HereAt(p)

(* A process that is about to save a mail which is there already, or which *)
(* another is about to save, has looked for it while the other did.        *)
Saving(p, m) == res[p].pc = "save" /\ res[p].item.uid = m
Races ==
    /\ OneRow
    /\ \A p \in Procs : \A m \in Mails :
          Saving(p, m) /\ (rows[m] > 0 \/ \E q \in Procs \ {p} : Saving(q, m)) => m \in raced

(* A mail that is in the database, or given up. *)
Done(m) == rows[m] > 0 \/ m \in missed.failed \cup missed.jumped
Behind(s) == \A m \in Ticketed : m < s => Done(m)

(* The mails process p has at hand, in the order they will be saved. *)
Held(p) == IF res[p].pc \in {"look", "save"} THEN {res[p].item.uid} ELSE {}
Flight(p) == Held(p) \cup {emlq[p][i].uid : i \in DOMAIN emlq[p]}

(* What a process reads ahead comes in the order of the box: everything in *)
(* front of a mail is done, or at hand in front of it.                     *)
EaqOrder(p) == \A i \in DOMAIN eaq[p] : Behind(eaq[p][i].start)
ScanOrder(p) == imp[p].pc \in {"check", "mark", "status", "search"} => Behind(imp[p].start)
FetchOrder(p) ==
    imp[p].pc = "fetch" => \A x \in imp[p].todo, m \in Ticketed :
        m < x => Done(m) \/ m \in imp[p].todo \/ m \in Flight(p)
QueueOrder(p) ==
    \A i \in DOMAIN emlq[p] : emlq[p][i].t = "scan" => \A m \in Ticketed :
        m < emlq[p][i].uid =>
            Done(m) \/ m \in Held(p) \/ \E j \in DOMAIN emlq[p] : j < i /\ emlq[p][j].uid = m
HandOrder(p) ==
    res[p].pc \in {"look", "save"} /\ res[p].item.t = "scan" => Behind(res[p].item.uid)
InOrder(p) == EaqOrder(p) /\ ScanOrder(p) /\ FetchOrder(p) /\ QueueOrder(p) /\ HandOrder(p)

Ordered == Passed /\ \A p \in Procs : InOrder(p)

(* The inductive invariant. *)
Inv == Types /\ Here /\ Races /\ Ordered
------------------------------------------------------------------------------
(* Queues. *)
LEMMA PutAtEnd ==
    ASSUME NEW S, NEW s \in Seq(S), NEW x \in S
    PROVE  /\ Append(s, x) \in Seq(S) /\ Len(Append(s, x)) = Len(s) + 1 /\ Len(s) \in Nat
           /\ DOMAIN s = 1..Len(s) /\ DOMAIN Append(s, x) = 1..(Len(s) + 1)
           /\ \A i \in DOMAIN s : i \in DOMAIN Append(s, x) /\ Append(s, x)[i] = s[i]
           /\ Append(s, x)[Len(s) + 1] = x
           /\ \A i \in DOMAIN Append(s, x) : i \in DOMAIN s \/ i = Len(s) + 1
BY AppendProperties

LEMMA TakenFromFront ==
    ASSUME NEW S, NEW s \in Seq(S), s # <<>>
    PROVE  /\ Head(s) \in S /\ Head(s) = s[1] /\ 1 \in DOMAIN s
           /\ Tail(s) \in Seq(S) /\ Len(Tail(s)) = Len(s) - 1 /\ Len(s) \in Nat
           /\ \A i \in DOMAIN Tail(s) : /\ i \in Nat \ {0} /\ i + 1 \in DOMAIN s
                                        /\ Tail(s)[i] = s[i + 1]
           /\ \A i \in DOMAIN s : i # 1 => i - 1 \in DOMAIN Tail(s) /\ Tail(s)[i - 1] = s[i]
<1>1. /\ Head(s) \in S /\ Head(s) = s[1] /\ Tail(s) \in Seq(S)
      /\ Len(Tail(s)) = Len(s) - 1 /\ Len(s) \in Nat \ {0}
      /\ \A i \in 1..Len(Tail(s)) : Tail(s)[i] = s[i + 1]
      /\ DOMAIN s = 1..Len(s) /\ DOMAIN Tail(s) = 1..Len(Tail(s))
  BY HeadTailProperties
<1>2. \A i \in DOMAIN Tail(s) : i \in Nat \ {0} /\ i + 1 \in DOMAIN s
  BY <1>1
<1>3. ASSUME NEW i \in DOMAIN s, i # 1
      PROVE  i - 1 \in DOMAIN Tail(s) /\ Tail(s)[i - 1] = s[i]
  <2>1. i \in Nat /\ i - 1 \in 1..Len(Tail(s)) /\ (i - 1) + 1 = i
    BY <1>1, <1>3
  <2> QED BY <1>1, <2>1
<1> QED BY <1>1, <1>2, <1>3
------------------------------------------------------------------------------
(* Values stay of the right kind. *)
LEMMA FoundAreMails ==
    Types => \A s : Found(s) \subseteq Mails /\ \A m \in Found(s) : m <= inbox
BY ImportAssumption DEF Types, Found, Mails

LEMMA ImporterTypes ==
    ASSUME Types, Here, NEW p \in Procs, Importer(p) PROVE Types'
<1>0. /\ MaxMail \in Nat /\ inbox \in 0..MaxMail /\ inbox + 1 \in 1..(MaxMail + 1)
      /\ imp \in [Procs -> Importing] /\ imp[p] \in Importing
      /\ eaq \in [Procs -> Seq(Object)] /\ eaq[p] \in Seq(Object)
      /\ emlq \in [Procs -> Seq(Item)] /\ emlq[p] \in Seq(Item)
      /\ ea \in [start : Uidnexts, next : Uidnexts, recent : BOOLEAN]
      /\ missed \in [failed : SUBSET Mails, cut : SUBSET Mails, jumped : SUBSET Mails]
      /\ ops \in 0..MaxOps /\ MaxOps \in Nat
  BY ImportAssumption DEF Types
<1>t. imp[p] \in Importing /\ inbox + 1 \in Starts /\ 0 \in Starts
  BY <1>0 DEF Starts
<1> DEFINE Account == [start : Uidnexts, next : Uidnexts, recent : BOOLEAN]
           History == [failed : SUBSET Mails, cut : SUBSET Mails, jumped : SUBSET Mails]
<1>a. ASSUME /\ imp' \in [Procs -> Importing] /\ eaq' \in [Procs -> Seq(Object)]
             /\ emlq' \in [Procs -> Seq(Item)]
             /\ ea' \in Account /\ missed' \in History /\ ops' \in 0..MaxOps
             /\ UNCHANGED <<box, rows, inqs, reqs, rest, tail, user, raced>>
      PROVE  Types'
  BY <1>a DEF Types, box, rest, tail, user
<1>b. ASSUME NEW t \in Importing, imp' = [imp EXCEPT ![p] = t]
      PROVE  imp' \in [Procs -> Importing]
  BY <1>0, <1>b
<1> HIDE DEF Account, History
<1>c. /\ UNCHANGED eaq => eaq' \in [Procs -> Seq(Object)]
      /\ UNCHANGED emlq => emlq' \in [Procs -> Seq(Item)]
      /\ UNCHANGED ea => ea' \in Account
      /\ UNCHANGED missed => missed' \in History
      /\ UNCHANGED ops => ops' \in 0..MaxOps
  BY <1>0 DEF Account, History
<1>1. CASE Take(p)
  <2>1. Head(eaq[p]) \in Object /\ Tail(eaq[p]) \in Seq(Object)
    BY <1>0, <1>1, TakenFromFront DEF Take
  <2> DEFINE t == [imp[p] EXCEPT !.pc = "check", !.start = Head(eaq[p]).start,
                                 !.next = Head(eaq[p]).next]
  <2>2. /\ imp' = [imp EXCEPT ![p] = t]
        /\ eaq' = [eaq EXCEPT ![p] = Tail(@)]
        /\ UNCHANGED <<box, db, emlq, rest, tail, user, ops, hist>>
    BY <1>1 DEF Take
  <2>5. Head(eaq[p]).start \in Starts /\ Head(eaq[p]).next \in Starts
    BY <1>0, <2>1 DEF Object, Starts, Uidnexts
  <2>3. t \in Importing
    BY <1>t, <2>5 DEF Importing
  <2> HIDE DEF t
  <2>4. eaq' \in [Procs -> Seq(Object)]
    BY <1>0, <2>1, <2>2
  <2> QED BY <1>a, <1>b, <1>c, <2>2, <2>3, <2>4 DEF db, hist
<1>2. CASE Check(p)
  <2> DEFINE t == IF ea.recent THEN Idle ELSE [imp[p] EXCEPT !.pc = "mark"]
  <2>1. imp' = [imp EXCEPT ![p] = t] /\ UNCHANGED <<box, db, eaq, emlq, rest, tail, user, ops, hist>>
    BY <1>2 DEF Check
  <2>2. Idle \in Importing
    BY <1>t DEF Importing, Idle
  <2>4. [imp[p] EXCEPT !.pc = "mark"] \in Importing
    BY <1>t DEF Importing
  <2>3. t \in Importing
    BY <2>2, <2>4
  <2> HIDE DEF t
  <2> QED BY <1>a, <1>b, <1>c, <2>1, <2>3 DEF db, hist
<1>3. CASE MarkTime(p)
  <2> DEFINE t == [imp[p] EXCEPT !.pc = "status"]
  <2>1. imp' = [imp EXCEPT ![p] = t] /\ ea' = [ea EXCEPT !.recent = TRUE]
        /\ UNCHANGED <<box, rows, inqs, reqs, eaq, emlq, rest, tail, user, ops, hist>>
    BY <1>3 DEF MarkTime
  <2>2. t \in Importing
    BY <1>0 DEF Importing
  <2>3. ea' \in Account
    BY <1>0, <2>1 DEF Account
  <2> HIDE DEF t
  <2> QED BY <1>a, <1>b, <1>c, <2>1, <2>2, <2>3 DEF hist
<1>4. CASE CheckBoxStatus(p)
  <2>1. \E t \in {[imp[p] EXCEPT !.pc = "search", !.next = inbox + 1, !.upd = TRUE],
                  [imp[p] EXCEPT !.pc = "save"]} : imp' = [imp EXCEPT ![p] = t]
    BY <1>4 DEF CheckBoxStatus
  <2>2. [imp[p] EXCEPT !.pc = "search", !.next = inbox + 1, !.upd = TRUE] \in Importing
    BY <1>t DEF Importing
  <2>6. [imp[p] EXCEPT !.pc = "save"] \in Importing
    BY <1>t DEF Importing
  <2>3. PICK t \in Importing : imp' = [imp EXCEPT ![p] = t]
    BY <2>1, <2>2, <2>6
  <2>4. ops' \in 0..MaxOps
    BY <1>0, <1>4 DEF CheckBoxStatus, Fail
  <2>5. UNCHANGED <<box, db, eaq, emlq, rest, tail, user, hist>>
    BY <1>4 DEF CheckBoxStatus
  <2> QED BY <1>a, <1>b, <1>c, <2>3, <2>4, <2>5 DEF db, hist
<1>5. CASE Search(p)
  <2> DEFINE t == [imp[p] EXCEPT !.pc = "fetch", !.first = TRUE, !.todo = Found(imp[p].start)]
  <2>1. imp' = [imp EXCEPT ![p] = t] /\ UNCHANGED <<box, db, eaq, emlq, rest, tail, user, ops, hist>>
    BY <1>5 DEF Search
  <2>2. t \in Importing
    BY <1>0, FoundAreMails DEF Importing
  <2> HIDE DEF t
  <2> QED BY <1>a, <1>b, <1>c, <2>1, <2>2 DEF db, hist
<1>6. CASE FetchPut(p)
  <2>1. imp[p].todo \in SUBSET Mails /\ imp[p].todo # {}
    BY <1>0, <1>6 DEF FetchPut, Importing
  <2>2. Min(imp[p].todo) \in Mails
    BY <2>1, MinIsLeast DEF Mails
  <2> DEFINE item == [uid |-> Min(imp[p].todo), t |-> "scan",
                      base |-> IF imp[p].first THEN imp[p].start ELSE 0]
  <2>3. item \in Item
    BY <1>0, <2>1, <2>2 DEF Importing, Item, Starts
  <2>4. emlq' = [emlq EXCEPT ![p] = Append(@, item)] /\ imp' = [imp EXCEPT ![p] = NextMail(@, TRUE)]
        /\ Lose("cut", IF imp[p].i + 1 = Batch THEN imp[p].todo \ {Min(imp[p].todo)} ELSE {})
        /\ UNCHANGED <<box, db, eaq, rest, tail, user, ops, raced>>
    BY <1>6 DEF FetchPut, Put
  <2> HIDE DEF item
  <2>5. Append(emlq[p], item) \in Seq(Item)
    BY <1>0, <2>3, PutAtEnd
  <2>6. emlq' \in [Procs -> Seq(Item)]
    BY <1>0, <2>4, <2>5
  <2>7. NextMail(imp[p], TRUE) \in Importing
    <3> DEFINE more == imp[p].todo \ {Min(imp[p].todo)}
    <3>1. more \in SUBSET Mails /\ imp[p].i + 1 \in Nat
      BY <1>t, <2>1 DEF Importing
    <3> HIDE DEF more
    <3>2. [imp[p] EXCEPT !.pc = "save", !.todo = {}, !.i = 0, !.first = FALSE, !.start = 0]
               \in Importing
      BY <1>t, <3>1 DEF Importing
    <3>4. [imp[p] EXCEPT !.pc = "fetch", !.todo = more, !.i = @ + 1, !.first = FALSE, !.start = 0]
               \in Importing
      BY <1>t, <3>1 DEF Importing
    <3>3. \/ NextMail(imp[p], TRUE) =
                [imp[p] EXCEPT !.pc = "save", !.todo = {}, !.i = 0, !.first = FALSE, !.start = 0]
          \/ NextMail(imp[p], TRUE) =
                [imp[p] EXCEPT !.pc = "fetch", !.todo = more, !.i = @ + 1, !.first = FALSE, !.start = 0]
      <4>1. CASE imp[p].i + 1 = Batch \/ more = {}
        BY <4>1 DEF NextMail, more
      <4>2. CASE ~(imp[p].i + 1 = Batch \/ more = {})
        BY <4>2 DEF NextMail, more
      <4> QED BY <4>1, <4>2
    <3> QED BY <3>2, <3>3, <3>4
  <2>8. missed' \in History
    BY <1>0, <2>1, <2>4 DEF Lose, History
  <2> QED BY <1>a, <1>b, <1>c, <2>4, <2>6, <2>7, <2>8 DEF db
<1>7. CASE NothingFound(p)
  <2> DEFINE t == [imp[p] EXCEPT !.pc = "save", !.first = FALSE]
  <2>1. imp' = [imp EXCEPT ![p] = t] /\ UNCHANGED <<box, db, eaq, emlq, rest, tail, user, ops, hist>>
    BY <1>7 DEF NothingFound
  <2>2. t \in Importing
    BY <1>0 DEF Importing
  <2> HIDE DEF t
  <2> QED BY <1>a, <1>b, <1>c, <2>1, <2>2 DEF db, hist
<1>8. CASE SaveAccount(p)
  <2>1. imp' = [imp EXCEPT ![p] = Idle]
        /\ ea' = [ea EXCEPT !.recent = TRUE, !.next = IF imp[p].upd THEN imp[p].next ELSE @]
        /\ UNCHANGED <<box, rows, inqs, reqs, eaq, emlq, rest, tail, user, ops, hist>>
    BY <1>8 DEF SaveAccount
  <2>2. Idle \in Importing
    BY <1>t DEF Importing, Idle
  <2>5. imp[p].next >= 1 /\ imp[p].next \in Starts
    <3>1. imp[p].next >= 1
      BY <1>8 DEF SaveAccount, Here, HereAt, ImpHere
    <3> QED BY <1>t, <3>1 DEF Importing
  <2>3. imp[p].next \in Uidnexts
    BY <1>0, <2>5 DEF Starts, Uidnexts
  <2>4. ea' \in Account
    BY <1>0, <2>1, <2>3 DEF Account
  <2> QED BY <1>a, <1>b, <1>c, <2>1, <2>2, <2>4 DEF hist
<1> QED BY <1>1, <1>2, <1>3, <1>4, <1>5, <1>6, <1>7, <1>8 DEF Importer

LEMMA UpdateEaTypes ==
    ASSUME Types, NEW p \in Procs, NEW item \in Item, UpdateEa(p, item)
    PROVE  /\ ea' \in [start : Uidnexts, next : Uidnexts, recent : BOOLEAN]
           /\ seen' \in [Procs -> Uidnexts]
           /\ missed' \in [failed : SUBSET Mails, cut : SUBSET Mails, jumped : SUBSET Mails]
<1>1. MaxMail \in Nat /\ item.uid \in Mails /\ item.uid + 1 \in Uidnexts
  BY ImportAssumption DEF Item, Mails, Uidnexts
<1>2. {m \in 1..(item.uid - 1) : rows[m] = 0 /\ kind[m] = "ticket"} \in SUBSET Mails
  BY <1>1 DEF Mails
<1>3. /\ ea \in [start : Uidnexts, next : Uidnexts, recent : BOOLEAN]
      /\ seen \in [Procs -> Uidnexts]
      /\ missed \in [failed : SUBSET Mails, cut : SUBSET Mails, jumped : SUBSET Mails]
  BY DEF Types
<1>4. ea' \in [start : Uidnexts, next : Uidnexts, recent : BOOLEAN]
  BY <1>1, <1>3 DEF UpdateEa
<1>5. seen' \in [Procs -> Uidnexts]
  BY <1>1, <1>3 DEF UpdateEa
<1>6. missed' \in [failed : SUBSET Mails, cut : SUBSET Mails, jumped : SUBSET Mails]
  BY <1>2, <1>3 DEF UpdateEa, Lose
<1> QED BY <1>4, <1>5, <1>6

(* An item that is looked at. *)
LEMMA ItemAtHand ==
    ASSUME Types, Here, NEW p \in Procs, res[p].pc \in {"look", "save", "inquiry"}
    PROVE  /\ res[p].item \in Item /\ res[p].item.uid \in Mails /\ res[p].item.uid <= inbox
           /\ res[p] \in Restoring
BY DEF Types, Here, HereAt, ResHere, Item

LEMMA RestorerTypes ==
    ASSUME Types, Here, NEW p \in Procs, Restorer(p) PROVE Types'
<1>0. /\ rows \in [Mails -> Nat] /\ inqs \in [Mails -> Nat]
      /\ emlq \in [Procs -> Seq(Item)] /\ emlq[p] \in Seq(Item)
      /\ inqq \in [Procs -> Seq(Mails)] /\ inqq[p] \in Seq(Mails)
      /\ res \in [Procs -> Restoring] /\ seen \in [Procs -> Uidnexts]
      /\ ea \in [start : Uidnexts, next : Uidnexts, recent : BOOLEAN]
      /\ missed \in [failed : SUBSET Mails, cut : SUBSET Mails, jumped : SUBSET Mails]
      /\ raced \in SUBSET Mails /\ MaxMail \in Nat
  BY ImportAssumption DEF Types
<1> DEFINE Account == [start : Uidnexts, next : Uidnexts, recent : BOOLEAN]
           History == [failed : SUBSET Mails, cut : SUBSET Mails, jumped : SUBSET Mails]
<1>a. ASSUME /\ res' \in [Procs -> Restoring] /\ seen' \in [Procs -> Uidnexts]
             /\ emlq' \in [Procs -> Seq(Item)] /\ inqq' \in [Procs -> Seq(Mails)]
             /\ rows' \in [Mails -> Nat] /\ inqs' \in [Mails -> Nat]
             /\ ea' \in Account /\ missed' \in History /\ raced' \in SUBSET Mails
             /\ UNCHANGED <<box, reqs, scan, cei, user, ops>>
      PROVE  Types'
  BY <1>a DEF Types, box, scan, user
<1>b. ASSUME NEW t \in Restoring, res' = [res EXCEPT ![p] = t]
      PROVE  res' \in [Procs -> Restoring]
  BY <1>0, <1>b
<1>c. Free \in Restoring
  BY DEF Free, Restoring
<1> HIDE DEF Account, History
<1>d. /\ UNCHANGED seen => seen' \in [Procs -> Uidnexts]
      /\ UNCHANGED emlq => emlq' \in [Procs -> Seq(Item)]
      /\ UNCHANGED inqq => inqq' \in [Procs -> Seq(Mails)]
      /\ UNCHANGED rows => rows' \in [Mails -> Nat]
      /\ UNCHANGED inqs => inqs' \in [Mails -> Nat]
      /\ UNCHANGED ea => ea' \in Account
      /\ UNCHANGED missed => missed' \in History
      /\ UNCHANGED raced => raced' \in SUBSET Mails
  BY <1>0 DEF Account, History
<1>e. ASSUME NEW item \in Item, UpdateEa(p, item)
      PROVE  ea' \in Account /\ seen' \in [Procs -> Uidnexts] /\ missed' \in History
  BY <1>e, UpdateEaTypes DEF Account, History
<1>1. CASE GetItem(p)
  <2> DEFINE item == Head(emlq[p])
             t == [pc |-> "look", item |-> item]
  <2>1. item \in Item /\ Tail(emlq[p]) \in Seq(Item)
    BY <1>0, <1>1, TakenFromFront DEF GetItem
  <2>2. t \in Restoring
    BY <2>1 DEF Restoring
  <2>3. /\ res' = [res EXCEPT ![p] = t]
        /\ seen' = [seen EXCEPT ![p] = IF item.base = 0 THEN @ ELSE item.base]
        /\ emlq' = [emlq EXCEPT ![p] = Tail(@)]
        /\ UNCHANGED <<box, db, scan, tail, user, ops, hist>>
    BY <1>1 DEF GetItem
  <2>4. item.base # 0 => item.base \in Uidnexts
    BY <1>0, <2>1 DEF Item, Uidnexts
  <2> HIDE DEF item, t
  <2>5. seen' \in [Procs -> Uidnexts]
    BY <1>0, <2>3, <2>4
  <2>6. emlq' \in [Procs -> Seq(Item)]
    BY <1>0, <2>1, <2>3
  <2> QED BY <1>a, <1>b, <1>d, <2>2, <2>3, <2>5, <2>6 DEF db, tail, hist
<1>2. CASE FromCrm(p)
  <2>1. res[p].item \in Item
    BY <1>2, ItemAtHand DEF FromCrm
  <2>2. /\ res' = [res EXCEPT ![p] = Free]
        /\ UpdateEa(p, res[p].item) \/ UNCHANGED <<ea, seen, missed>>
        /\ UNCHANGED <<box, rows, inqs, reqs, scan, emlq, tail, user, ops, raced>>
    BY <1>2 DEF FromCrm
  <2> QED BY <1>a, <1>b, <1>c, <1>d, <1>e, <2>1, <2>2 DEF tail
<1>3. CASE NoTicket(p)
  <2>1. res[p].item \in Item
    BY <1>3, ItemAtHand DEF NoTicket
  <2>2. /\ res' = [res EXCEPT ![p] = Free]
        /\ UpdateEa(p, res[p].item)
        /\ UNCHANGED <<box, rows, inqs, reqs, scan, emlq, tail, user, ops, raced>>
    BY <1>3 DEF NoTicket
  <2> QED BY <1>a, <1>b, <1>c, <1>d, <1>e, <2>1, <2>2 DEF tail
<1>4. CASE AlreadyExists(p)
  <2>1. res[p].item \in Item /\ res[p].item.uid \in Mails /\ res[p] \in Restoring
    BY <1>4, ItemAtHand DEF AlreadyExists
  <2>2. [res[p] EXCEPT !.pc = "save"] \in Restoring
    BY <2>1 DEF Restoring
  <2>3. /\ \/ res' = [res EXCEPT ![p] = Free]
           \/ res' = [res EXCEPT ![p] = [res[p] EXCEPT !.pc = "save"]]
        /\ raced' = raced \/ raced' = raced \cup {res[p].item.uid}
        /\ UNCHANGED <<box, db, scan, emlq, seen, tail, user, ops, missed>>
    BY <1>4 DEF AlreadyExists
  <2>4. raced' \in SUBSET Mails
    BY <1>0, <2>1, <2>3
  <2>5. res' \in [Procs -> Restoring]
    BY <1>b, <1>c, <2>2, <2>3
  <2> QED BY <1>a, <1>d, <2>3, <2>4, <2>5 DEF db, tail
<1>5. CASE CrmEmlSave(p)
  <2>1. res[p].item \in Item /\ res[p].item.uid \in Mails /\ res[p] \in Restoring
    BY <1>5, ItemAtHand DEF CrmEmlSave
  <2>2. [res[p] EXCEPT !.pc = "inquiry"] \in Restoring
    BY <2>1 DEF Restoring
  <2>3. /\ rows' = [rows EXCEPT ![res[p].item.uid] = @ + 1]
        /\ \/ /\ res' = [res EXCEPT ![p] = [res[p] EXCEPT !.pc = "inquiry"]]
              /\ inqs' = [inqs EXCEPT ![res[p].item.uid] = @ + 1] /\ UNCHANGED <<ea, seen, missed>>
           \/ /\ res' = [res EXCEPT ![p] = Free]
              /\ UpdateEa(p, res[p].item) /\ UNCHANGED inqs
        /\ UNCHANGED <<box, reqs, scan, emlq, tail, user, ops, raced>>
    BY <1>5 DEF CrmEmlSave
  <2>4. rows' \in [Mails -> Nat] /\ inqs' \in [Mails -> Nat]
    <3>1. rows[res[p].item.uid] + 1 \in Nat /\ inqs[res[p].item.uid] + 1 \in Nat
      BY <1>0, <2>1
    <3>2. rows' \in [Mails -> Nat]
      BY <1>0, <2>3, <3>1
    <3>3. inqs' \in [Mails -> Nat]
      BY <1>0, <2>3, <3>1
    <3> QED BY <3>2, <3>3
  <2>5. res' \in [Procs -> Restoring]
    BY <1>b, <1>c, <2>2, <2>3
  <2> QED BY <1>a, <1>d, <1>e, <2>1, <2>3, <2>4, <2>5 DEF tail
<1>6. CASE PutInquiry(p)
  <2>1. res[p].item.uid \in Mails
    BY <1>6, ItemAtHand DEF PutInquiry
  <2>2. Append(inqq[p], res[p].item.uid) \in Seq(Mails)
    BY <1>0, <2>1, PutAtEnd
  <2>3. /\ inqq' = [inqq EXCEPT ![p] = Append(@, res[p].item.uid)]
        /\ res' = [res EXCEPT ![p] = Free]
        /\ UNCHANGED <<box, db, scan, emlq, seen, cei, user, ops, hist>>
    BY <1>6 DEF PutInquiry
  <2>4. inqq' \in [Procs -> Seq(Mails)]
    BY <1>0, <2>2, <2>3
  <2> QED BY <1>a, <1>b, <1>c, <1>d, <2>3, <2>4 DEF db, hist
<1> QED BY <1>1, <1>2, <1>3, <1>4, <1>5, <1>6 DEF Restorer

(* What is lost is a set of mails. *)
LEMMA LoseTypes ==
    ASSUME Types, NEW how \in {"failed", "cut", "jumped"}, NEW S \in SUBSET Mails, Lose(how, S)
    PROVE  missed' \in [failed : SUBSET Mails, cut : SUBSET Mails, jumped : SUBSET Mails]
BY DEF Types, Lose

LEMMA FailTypes == ASSUME Types, Fail PROVE ops' \in 0..MaxOps
BY ImportAssumption DEF Types, Fail

LEMMA ByUidTypes ==
    ASSUME Types, NEW p \in Procs, web[p].todo # {}
    PROVE  NextByUid(web[p]) \in ByHand /\ Max(web[p].todo) \in Mails
<1>1. web[p] \in ByHand /\ web[p].todo \in SUBSET Mails /\ MaxMail \in Nat
  BY ImportAssumption DEF Types, ByHand
<1>2. Max(web[p].todo) \in Mails
  BY <1>1, MaxIsIn DEF Mails
<1>3. web[p].todo \ {Max(web[p].todo)} \in SUBSET Mails
  BY <1>1
<1>4. NoWeb \in ByHand
  BY DEF NoWeb, ByHand
<1> QED BY <1>1, <1>2, <1>3, <1>4 DEF NextByUid, ByHand

LEMMA OtherTypes ==
    ASSUME Types, Here,
           \/ Arrive \/ Elapse
           \/ \E p \in Procs : \/ Send(p) \/ Inquirer(p)
                               \/ EmailsImport(p) \/ GetEmailsByUid(p)
    PROVE  Types'
<1> USE DEF box, db, scan, rest, tail, user, hist
<1>1. CASE Arrive
  BY <1>1, ImportAssumption DEF Types, Arrive
<1>2. CASE Elapse
  <2>1. ea' \in [start : Uidnexts, next : Uidnexts, recent : BOOLEAN]
    BY <1>2 DEF Elapse, Types
  <2> QED BY <1>2, <2>1 DEF Elapse, Types
<1>3. ASSUME NEW p \in Procs, Send(p) PROVE Types'
  <2> DEFINE o == [start |-> ea.start, next |-> ea.next]
  <2>1. o \in Object
    BY DEF Types, Object
  <2>2. <<o>> \in Seq(Object)
    BY <2>1
  <2>3. /\ eaq' = [eaq EXCEPT ![p] = <<o>>]
        /\ UNCHANGED <<box, db, imp, emlq, rest, tail, web, manual, ops, hist>>
    BY <1>3 DEF Send
  <2>4. sends' \in 0..MaxSends
    BY <1>3, ImportAssumption DEF Send, Types
  <2> HIDE DEF o
  <2>5. eaq' \in [Procs -> Seq(Object)]
    BY <2>2, <2>3 DEF Types
  <2> QED BY <2>3, <2>4, <2>5 DEF Types
<1>4. ASSUME NEW p \in Procs, GetInquiry(p) PROVE Types'
  <2>1. inqq[p] \in Seq(Mails) /\ inqq[p] # <<>>
    BY <1>4 DEF GetInquiry, Types
  <2>2. Head(inqq[p]) \in Mails /\ Tail(inqq[p]) \in Seq(Mails)
    BY <2>1, TakenFromFront
  <2>3. /\ cei' = [cei EXCEPT ![p] = Head(inqq[p])]
        /\ inqq' = [inqq EXCEPT ![p] = Tail(@)]
        /\ UNCHANGED <<box, db, scan, emlq, rest, user, ops, hist>>
    BY <1>4 DEF GetInquiry
  <2>4. Head(inqq[p]) \in 0..MaxMail
    BY <2>2, ImportAssumption DEF Mails
  <2>5. cei' \in [Procs -> 0..MaxMail]
    BY <2>3, <2>4 DEF Types
  <2>6. inqq' \in [Procs -> Seq(Mails)]
    BY <2>2, <2>3 DEF Types
  <2> QED BY <2>3, <2>5, <2>6 DEF Types
<1>5. ASSUME NEW p \in Procs, CreateEmailRequest(p) PROVE Types'
  <2>1. /\ cei' = [cei EXCEPT ![p] = 0] /\ reqs' = [reqs EXCEPT ![cei[p]] = @ + 1]
        /\ UNCHANGED <<box, ea, rows, inqs, scan, emlq, rest, inqq, user, ops, hist>>
    BY <1>5 DEF CreateEmailRequest
  <2>2. cei[p] \in Mails
    BY <1>5, ImportAssumption DEF CreateEmailRequest, Types, Mails
  <2>3. reqs[cei[p]] + 1 \in Nat
    BY <2>2 DEF Types
  <2>4. reqs' \in [Mails -> Nat]
    BY <2>1, <2>3 DEF Types
  <2>5. cei' \in [Procs -> 0..MaxMail]
    BY <2>1, ImportAssumption DEF Types
  <2> QED BY <2>1, <2>4, <2>5 DEF Types
<1>6. ASSUME NEW p \in Procs, EmailsImport(p) PROVE Types'
  <2>1. PICK S \in (SUBSET (1..inbox)) \ {{}}, t \in {"ticket", "inquiry"} :
           web' = [web EXCEPT ![p] = [todo |-> S, t |-> t]]
    BY <1>6 DEF EmailsImport
  <2>2. S \in SUBSET Mails
    BY ImportAssumption DEF Types, Mails
  <2>3. [todo |-> S, t |-> t] \in ByHand
    BY <2>2 DEF ByHand
  <2>4. web' \in [Procs -> ByHand]
    BY <2>1, <2>3 DEF Types
  <2>5. manual' \in 0..MaxManual
    BY <1>6, ImportAssumption DEF EmailsImport, Types
  <2> QED BY <1>6, <2>4, <2>5 DEF EmailsImport, Types
<1>7. ASSUME NEW p \in Procs, GetEmailsByUid(p) PROVE Types'
  <2> DEFINE item == [uid |-> Max(web[p].todo), t |-> web[p].t, base |-> 0]
  <2>1. /\ emlq' = [emlq EXCEPT ![p] = Append(@, item)]
        /\ web' = [web EXCEPT ![p] = NextByUid(@)]
        /\ UNCHANGED <<box, db, scan, rest, tail, manual, sends, ops, hist>>
    BY <1>7 DEF GetEmailsByUid, Put
  <2>2. NextByUid(web[p]) \in ByHand /\ Max(web[p].todo) \in Mails
    BY <1>7, ByUidTypes DEF GetEmailsByUid
  <2>3. item \in Item
    BY <2>2, ImportAssumption DEF Types, ByHand, Item
  <2> HIDE DEF item
  <2>4. Append(emlq[p], item) \in Seq(Item)
    BY <2>3, PutAtEnd DEF Types
  <2>5. emlq' \in [Procs -> Seq(Item)]
    BY <2>1, <2>4 DEF Types
  <2>6. web' \in [Procs -> ByHand]
    BY <2>1, <2>2 DEF Types
  <2> QED BY <2>1, <2>5, <2>6 DEF Types
<1> QED BY <1>1, <1>2, <1>3, <1>4, <1>5, <1>6, <1>7 DEF Inquirer

LEMMA FailureTypes ==
    ASSUME Types, Here, NEW p \in Procs, Failure(p) PROVE Types'
<1> USE DEF box, db, scan, rest, tail, user, hist
<1> DEFINE History == [failed : SUBSET Mails, cut : SUBSET Mails, jumped : SUBSET Mails]
<1>0. /\ imp \in [Procs -> Importing] /\ imp[p] \in Importing /\ imp[p].todo \in SUBSET Mails
      /\ 0 \in Starts /\ Idle \in Importing /\ Free \in Restoring /\ NoWeb \in ByHand
  BY ImportAssumption DEF Types, Importing, Starts, Idle, Free, Restoring, NoWeb, ByHand
<1>e. Ended \in Restoring
  BY DEF Ended, Restoring
<1>1. CASE SearchFails(p)
  <2>1. [imp[p] EXCEPT !.pc = "save"] \in Importing
    BY <1>0 DEF Importing
  <2>2. imp' \in [Procs -> Importing]
    BY <1>0, <1>1, <2>1 DEF SearchFails
  <2>3. missed' \in History
    BY <1>1, FoundAreMails, LoseTypes DEF SearchFails
  <2> HIDE DEF History
  <2> QED BY <1>1, <2>2, <2>3, FailTypes DEF SearchFails, Types, History
<1>2. CASE FetchFails(p)
  <2>1. imp[p].todo # {} /\ Min(imp[p].todo) \in Mails
    BY <1>0, <1>2, MinIsLeast DEF FetchFails, Mails
  <2> DEFINE more == imp[p].todo \ {Min(imp[p].todo)}
  <2>2. more \in SUBSET Mails /\ imp[p].i + 1 \in Nat /\ imp[p].first \in BOOLEAN
    BY <1>0 DEF Importing
  <2>3. NextMail(imp[p], FALSE) \in Importing
    <3>1. CASE more = {}
      <4>1. NextMail(imp[p], FALSE) = [imp[p] EXCEPT !.pc = "save", !.todo = {}, !.i = 0,
                                                     !.first = FALSE, !.start = 0]
        BY <3>1 DEF NextMail
      <4> HIDE DEF more
      <4>2. [imp[p] EXCEPT !.pc = "save", !.todo = {}, !.i = 0, !.first = FALSE, !.start = 0]
               \in Importing
        BY <1>0 DEF Importing
      <4> QED BY <4>1, <4>2
    <3>2. CASE more # {}
      <4>1. NextMail(imp[p], FALSE) = [imp[p] EXCEPT !.pc = "fetch", !.todo = more, !.i = @ + 1,
                                                     !.first = @ /\ TRUE]
        BY <3>2 DEF NextMail
      <4> HIDE DEF more
      <4> QED BY <1>0, <2>2, <4>1 DEF Importing
    <3> QED BY <3>1, <3>2
  <2>4. imp' \in [Procs -> Importing]
    BY <1>0, <1>2, <2>3 DEF FetchFails
  <2>5. missed' \in History
    BY <1>2, <2>1, LoseTypes DEF FetchFails
  <2> HIDE DEF History, more
  <2> QED BY <1>2, <2>4, <2>5, FailTypes DEF FetchFails, Types, History
<1>3. CASE ImportFails(p)
  <2>1. imp' \in [Procs -> Importing]
    BY <1>0, <1>3 DEF ImportFails
  <2> QED BY <1>3, <2>1, FailTypes DEF ImportFails, Types
<1>4. CASE RestoreFails(p) \/ RestorerEnds(p)
  <2>1. res' \in [Procs -> Restoring]
    BY <1>0, <1>e, <1>4 DEF RestoreFails, RestorerEnds, Types
  <2>2. missed' \in History
    BY <1>4, ItemAtHand, LoseTypes DEF RestoreFails, RestorerEnds
  <2> HIDE DEF History
  <2> QED BY <1>4, <2>1, <2>2, FailTypes DEF RestoreFails, RestorerEnds, Types, History
<1>5. CASE CreateFails(p)
  <2>1. cei[p] \in Mails
    BY <1>5, ImportAssumption DEF CreateFails, Types, Mails
  <2>2. missed' \in History
    BY <1>5, <2>1, LoseTypes DEF CreateFails
  <2>3. cei' \in [Procs -> 0..MaxMail]
    BY <1>5, ImportAssumption DEF CreateFails, Types
  <2> HIDE DEF History
  <2> QED BY <1>5, <2>2, <2>3, FailTypes DEF CreateFails, Types, History
<1>6. CASE ByUidFails(p)
  <2>1. web' \in [Procs -> ByHand]
    BY <1>6, ByUidTypes DEF ByUidFails, Types
  <2> QED BY <1>6, <2>1, FailTypes DEF ByUidFails, Types
<1>7. CASE Restart(p)
  <2> DEFINE S == {emlq[p][i].uid : i \in DOMAIN emlq[p]} \cup Range(inqq[p])
                      \cup ({res[p].item.uid, cei[p]} \ {0})
  <2>1. S \in SUBSET Mails
    <3>1. emlq[p] \in Seq(Item) /\ inqq[p] \in Seq(Mails)
      BY DEF Types
    <3>2. \A i \in DOMAIN emlq[p] : emlq[p][i] \in Item
      BY <3>1
    <3>3. \A i \in DOMAIN inqq[p] : inqq[p][i] \in Mails
      BY <3>1
    <3>4. res[p].item \in Item \cup {NoItem} /\ cei[p] \in 0..MaxMail
      BY DEF Types, Restoring
    <3>5. {res[p].item.uid, cei[p]} \ {0} \subseteq Mails
      BY <3>4, ImportAssumption DEF Item, NoItem, Mails
    <3>6. \A i \in DOMAIN emlq[p] : emlq[p][i].uid \in Mails
      BY <3>2 DEF Item
    <3> QED BY <3>3, <3>5, <3>6 DEF Range
  <2>2. missed' \in History
    BY <1>7, <2>1, LoseTypes DEF Restart
  <2>3. /\ eaq' \in [Procs -> Seq(Object)] /\ emlq' \in [Procs -> Seq(Item)]
        /\ inqq' \in [Procs -> Seq(Mails)]
    <3>1. <<>> \in Seq(Object) /\ <<>> \in Seq(Item) /\ <<>> \in Seq(Mails)
      BY EmptySeq
    <3> QED BY <1>7, <3>1 DEF Restart, Types
  <2>4. imp' \in [Procs -> Importing] /\ res' \in [Procs -> Restoring] /\ web' \in [Procs -> ByHand]
    BY <1>0, <1>7 DEF Restart, Types
  <2>5. cei' \in [Procs -> 0..MaxMail]
    BY <1>7, ImportAssumption DEF Restart, Types
  <2> HIDE DEF History, S
  <2> QED BY <1>7, <2>2, <2>3, <2>4, <2>5, FailTypes DEF Restart, Types, History
<1> QED BY <1>1, <1>2, <1>3, <1>4, <1>5, <1>6, <1>7 DEF Failure
------------------------------------------------------------------------------
(* A step of a process leaves the others alone. *)
Own(p) == <<eaq[p], imp[p], emlq[p], res[p], inqq[p], web[p]>>
Act(p) == \/ Send(p) \/ Importer(p) \/ Restorer(p) \/ Inquirer(p)
          \/ EmailsImport(p) \/ GetEmailsByUid(p) \/ Failure(p)

LEMMA OthersStay ==
    ASSUME Types, NEW p \in Procs, Act(p), NEW q \in Procs, q # p
    PROVE  Own(q)' = Own(q)
<1> USE DEF box, db, scan, rest, tail, user, hist, Own
<1>0. /\ DOMAIN eaq = Procs /\ DOMAIN imp = Procs /\ DOMAIN emlq = Procs
      /\ DOMAIN res = Procs /\ DOMAIN inqq = Procs /\ DOMAIN web = Procs
  BY DEF Types
<1>1. CASE Send(p)
  BY <1>0, <1>1 DEF Send
<1>2. CASE Importer(p)
  BY <1>0, <1>2 DEF Importer, Take, Check, MarkTime, CheckBoxStatus, Search, FetchPut, Put,
                    NothingFound, SaveAccount
<1>3. CASE Restorer(p)
  BY <1>0, <1>3 DEF Restorer, GetItem, FromCrm, NoTicket, AlreadyExists, CrmEmlSave, PutInquiry
<1>4. CASE Inquirer(p)
  BY <1>0, <1>4 DEF Inquirer, GetInquiry, CreateEmailRequest
<1>5. CASE EmailsImport(p)
  BY <1>0, <1>5 DEF EmailsImport
<1>6. CASE GetEmailsByUid(p)
  BY <1>0, <1>6 DEF GetEmailsByUid, Put
<1>7. CASE Failure(p)
  BY <1>0, <1>7 DEF Failure, SearchFails, FetchFails, ImportFails, RestoreFails, RestorerEnds, CreateFails,
                    ByUidFails, Restart
<1> QED BY <1>1, <1>2, <1>3, <1>4, <1>5, <1>6, <1>7 DEF Act

LEMMA SameBox ==
    ASSUME Types, NEW p \in Procs, Act(p) PROVE UNCHANGED box
<1> USE DEF Act
<1>1. CASE Send(p)
  BY <1>1 DEF Send
<1>2. CASE Importer(p)
  BY <1>2 DEF Importer, Take, Check, MarkTime, CheckBoxStatus, Search, FetchPut,
              NothingFound, SaveAccount
<1>3. CASE Restorer(p)
  BY <1>3 DEF Restorer, GetItem, FromCrm, NoTicket, AlreadyExists, CrmEmlSave, PutInquiry
<1>4. CASE Inquirer(p)
  BY <1>4 DEF Inquirer, GetInquiry, CreateEmailRequest
<1>5. CASE EmailsImport(p) \/ GetEmailsByUid(p)
  BY <1>5 DEF EmailsImport, GetEmailsByUid
<1>7. CASE Failure(p)
  BY <1>7 DEF Failure, SearchFails, FetchFails, ImportFails, RestoreFails, RestorerEnds, CreateFails,
              ByUidFails, Restart
<1> QED BY <1>1, <1>2, <1>3, <1>4, <1>5, <1>7
------------------------------------------------------------------------------
(* What is looked at has arrived. *)
LEMMA HereKept ==
    ASSUME UNCHANGED box, NEW q, HereAt(q)
    PROVE  /\ UNCHANGED eaq[q] => EaqHere(q)'
           /\ UNCHANGED emlq[q] => EmlqHere(q)'
           /\ UNCHANGED inqq[q] => InqqHere(q)'
           /\ UNCHANGED imp[q] => ImpHere(q)'
           /\ UNCHANGED res[q] => ResHere(q)'
           /\ UNCHANGED web[q] => WebHere(q)'
BY DEF box, HereAt, EaqHere, EmlqHere, InqqHere, ImpHere, ResHere, WebHere

LEMMA EndsHere ==
    ASSUME Types, NEW q
    PROVE  /\ eaq'[q] = <<>> => EaqHere(q)'
           /\ emlq'[q] = <<>> => EmlqHere(q)'
           /\ inqq'[q] = <<>> => InqqHere(q)'
           /\ inbox' \in Nat /\ imp'[q] = Idle => ImpHere(q)'
           /\ res'[q] \in {Free, Ended} => ResHere(q)'
           /\ web'[q] = NoWeb => WebHere(q)'
BY ImportAssumption DEF EaqHere, EmlqHere, InqqHere, ImpHere, ResHere, WebHere, Idle, Free, Ended, NoWeb

(* A mail put at the end of eml_queue, or taken from its front. *)
LEMMA PutHere ==
    ASSUME Types, UNCHANGED box, NEW p \in Procs, HereAt(p), NEW item \in Item, Put(p, item),
           item.uid <= inbox
    PROVE  EmlqHere(p)'
<1>1. /\ emlq[p] \in Seq(Item) /\ emlq'[p] = Append(emlq[p], item) /\ Len(emlq[p]) < QueueSize
      /\ \A i \in DOMAIN emlq[p] : emlq[p][i].uid <= inbox
      /\ QueueSize \in Nat /\ inbox' = inbox
  BY ImportAssumption DEF Types, Put, HereAt, EmlqHere, box
<1> QED BY <1>1, PutAtEnd DEF EmlqHere

(* The oldest mail of a scan. *)
Oldest(t) == [uid |-> Min(t.todo), t |-> "scan", base |-> IF t.first THEN t.start ELSE 0]

LEMMA OldestIsItem ==
    ASSUME NEW t \in Importing, t.todo # {}
    PROVE  /\ Min(t.todo) \in t.todo /\ \A m \in t.todo : Min(t.todo) <= m
           /\ Oldest(t) \in Item /\ Oldest(t).uid = Min(t.todo) /\ Oldest(t).t = "scan"
<1>0. t.todo \in SUBSET Mails /\ t.first \in BOOLEAN /\ t.start \in 0..(MaxMail + 1)
      /\ 0 \in 0..(MaxMail + 1)
  BY ImportAssumption DEF Importing, Starts
<1>1. Min(t.todo) \in t.todo /\ \A m \in t.todo : Min(t.todo) <= m
  BY <1>0, MinIsLeast DEF Mails
<1>2. Oldest(t) \in Item
  BY <1>0, <1>1 DEF Oldest, Item
<1> QED BY <1>1, <1>2 DEF Oldest

LEMMA NextMailKeeps ==
    ASSUME NEW t \in Importing, NEW put \in BOOLEAN
    PROVE  /\ NextMail(t, put).start \in {0, t.start} /\ NextMail(t, put).next = t.next
           /\ NextMail(t, put).todo \subseteq t.todo \ {Min(t.todo)}
           /\ NextMail(t, put).pc \in {"save", "fetch"}
BY DEF NextMail, Importing

LEMMA ImporterHere ==
    ASSUME Types, Here, NEW p \in Procs, Importer(p) PROVE HereAt(p)' /\ UNCHANGED ea.start
<1> USE DEF box, db, rest, tail, user, hist
<1>0. /\ inbox \in Nat /\ HereAt(p) /\ imp \in [Procs -> Importing] /\ imp[p] \in Importing
      /\ eaq \in [Procs -> Seq(Object)] /\ eaq[p] \in Seq(Object) /\ DOMAIN emlq = Procs
      /\ imp[p].start \in Nat /\ imp[p].next \in Nat /\ imp[p].todo \subseteq Mails
      /\ imp[p].start <= inbox + 1 /\ (imp[p].pc # "idle" => imp[p].next >= 1)
      /\ \A m \in imp[p].todo : m <= inbox
  BY ImportAssumption DEF Types, Here, HereAt, ImpHere, Importing, Starts
<1>b. UNCHANGED box
  BY SameBox DEF Act
<1>e. ASSUME ImpHere(p)', UNCHANGED <<eaq[p], emlq[p], inqq[p], res[p], web[p]>> PROVE HereAt(p)'
  BY <1>0, <1>b, <1>e, HereKept DEF HereAt
<1>1. CASE Take(p)
  <2>1. /\ Head(eaq[p]) \in Object /\ Head(eaq[p]) = eaq[p][1] /\ 1 \in DOMAIN eaq[p]
        /\ Tail(eaq[p]) \in Seq(Object) /\ Len(Tail(eaq[p])) = Len(eaq[p]) - 1
        /\ Len(eaq[p]) \in Nat
        /\ \A i \in DOMAIN Tail(eaq[p]) : i + 1 \in DOMAIN eaq[p] /\ Tail(eaq[p])[i] = eaq[p][i + 1]
    BY <1>0, <1>1, TakenFromFront DEF Take
  <2>2. /\ eaq'[p] = Tail(eaq[p]) /\ imp'[p].start = Head(eaq[p]).start
        /\ imp'[p].next = Head(eaq[p]).next /\ imp'[p].todo = imp[p].todo /\ inbox' = inbox
        /\ UNCHANGED <<emlq[p], inqq[p], res[p], web[p], ea>>
    BY <1>0, <1>1 DEF Take, Importing
  <2>3. EaqHere(p)'
    BY <1>0, <2>1, <2>2 DEF HereAt, EaqHere
  <2>4. ImpHere(p)'
    <3>1. Head(eaq[p]).start <= inbox + 1 /\ Head(eaq[p]).next >= 1
      BY <1>0, <2>1 DEF HereAt, EaqHere, Object, Uidnexts
    <3> QED BY <1>0, <2>2, <3>1 DEF ImpHere
  <2> QED BY <1>0, <1>b, <2>2, <2>3, <2>4, HereKept DEF HereAt
<1>2. CASE Check(p)
  <2>1. CASE ea.recent
    <3>1. imp'[p] = Idle
      BY <1>0, <1>2, <2>1 DEF Check
    <3> QED BY <1>0, <1>2, <1>b, <1>e, <3>1, EndsHere DEF Check
  <2>2. CASE ~ea.recent
    <3>1. imp'[p] = [imp[p] EXCEPT !.pc = "mark"] /\ imp[p].pc = "check"
      BY <1>0, <1>2, <2>2 DEF Check
    <3>2. ImpHere(p)'
      BY <1>0, <1>b, <3>1 DEF ImpHere, Importing
    <3> QED BY <1>2, <1>e, <3>2 DEF Check
  <2> QED BY <2>1, <2>2
<1>3. CASE MarkTime(p)
  <2>1. imp'[p] = [imp[p] EXCEPT !.pc = "status"] /\ imp[p].pc = "mark" /\ ea'.start = ea.start
    BY <1>0, <1>3 DEF MarkTime, Types
  <2>2. ImpHere(p)'
    BY <1>0, <1>b, <2>1 DEF ImpHere, Importing
  <2> QED BY <1>3, <1>e, <2>1, <2>2 DEF MarkTime
<1>4. CASE CheckBoxStatus(p)
  <2>1. /\ \/ imp'[p] = [imp[p] EXCEPT !.pc = "search", !.next = inbox + 1, !.upd = TRUE]
           \/ imp'[p] = [imp[p] EXCEPT !.pc = "save"]
        /\ imp[p].pc = "status"
    BY <1>0, <1>4 DEF CheckBoxStatus
  <2>2. ImpHere(p)'
    <3>1. /\ imp'[p].start = imp[p].start /\ imp'[p].todo = imp[p].todo
          /\ imp'[p].next = inbox + 1 \/ imp'[p].next = imp[p].next
      BY <1>0, <2>1 DEF Importing
    <3> QED BY <1>0, <1>b, <2>1, <3>1 DEF ImpHere
  <2> QED BY <1>4, <1>e, <2>2 DEF CheckBoxStatus
<1>5. CASE Search(p)
  <2>1. imp'[p] = [imp[p] EXCEPT !.pc = "fetch", !.first = TRUE, !.todo = Found(imp[p].start)]
        /\ imp[p].pc = "search"
    BY <1>0, <1>5 DEF Search
  <2>2. imp'[p].start = imp[p].start /\ imp'[p].next = imp[p].next
        /\ imp'[p].todo = Found(imp[p].start)
    BY <1>0, <2>1 DEF Importing
  <2>3. ImpHere(p)'
    BY <1>0, <1>b, <2>1, <2>2, FoundAreMails DEF ImpHere
  <2> QED BY <1>5, <1>e, <2>3 DEF Search
<1>6. CASE FetchPut(p)
  <2>1. imp[p].todo # {} /\ Put(p, Oldest(imp[p])) /\ imp'[p] = NextMail(imp[p], TRUE)
        /\ imp[p].pc = "fetch"
    BY <1>0, <1>6 DEF FetchPut, Oldest
  <2>2. Oldest(imp[p]) \in Item /\ Oldest(imp[p]).uid <= inbox
    BY <1>0, <2>1, OldestIsItem
  <2>4. /\ imp'[p].start \in {0, imp[p].start} /\ imp'[p].next = imp[p].next
        /\ imp'[p].todo \subseteq imp[p].todo
    BY <1>0, <2>1, NextMailKeeps
  <2>5. ImpHere(p)'
    <3>3. imp[p].next >= 1 /\ inbox' = inbox
      BY <1>0, <1>b, <2>1
    <3>4. inbox \in Nat /\ imp[p].start <= inbox + 1
      BY <1>0
    <3>1. imp[p].next >= 1 /\ imp'[p].start <= inbox + 1 /\ inbox' = inbox
      BY <2>4, <3>3, <3>4
    <3>2. \A m \in imp'[p].todo : m <= inbox
      BY <1>0, <2>4
    <3> QED BY <2>4, <3>1, <3>2 DEF ImpHere
  <2>6. EmlqHere(p)'
    BY <1>0, <1>b, <2>1, <2>2, PutHere
  <2> QED BY <1>0, <1>6, <1>b, <2>5, <2>6, HereKept DEF FetchPut, HereAt
<1>7. CASE NothingFound(p)
  <2>1. imp'[p] = [imp[p] EXCEPT !.pc = "save", !.first = FALSE] /\ imp[p].pc = "fetch"
    BY <1>0, <1>7 DEF NothingFound
  <2>2. ImpHere(p)'
    BY <1>0, <1>b, <2>1 DEF ImpHere, Importing
  <2> QED BY <1>7, <1>e, <2>2 DEF NothingFound
<1>8. CASE SaveAccount(p)
  <2>1. imp'[p] = Idle /\ ea'.start = ea.start
    BY <1>0, <1>8 DEF SaveAccount, Types
  <2> QED BY <1>0, <1>8, <1>b, <1>e, <2>1, EndsHere DEF SaveAccount
<1> QED BY <1>1, <1>2, <1>3, <1>4, <1>5, <1>6, <1>7, <1>8 DEF Importer

LEMMA UpdateEaHere ==
    ASSUME Types, Here, NEW p, NEW item \in Item, item.uid <= inbox, UpdateEa(p, item)
    PROVE  ea'.start <= inbox + 1 /\ ea'.start = item.uid + 1
BY ImportAssumption DEF Types, UpdateEa, Item, Mails

LEMMA RestorerHere ==
    ASSUME Types, Here, NEW p \in Procs, Restorer(p)
    PROVE  HereAt(p)' /\ (ea.start <= inbox + 1)'
<1> USE DEF box, db, scan, tail, user, hist
<1>0. /\ inbox \in Nat /\ HereAt(p) /\ res \in [Procs -> Restoring] /\ res[p] \in Restoring
      /\ emlq \in [Procs -> Seq(Item)] /\ emlq[p] \in Seq(Item) /\ DOMAIN inqq = Procs
      /\ inqq[p] \in Seq(Mails) /\ ea.start <= inbox + 1
  BY DEF Types, Here
<1>b. UNCHANGED box
  BY SameBox DEF Act
<1>e. ASSUME ResHere(p)', UNCHANGED <<eaq[p], emlq[p], inqq[p], imp[p], web[p]>> PROVE HereAt(p)'
  BY <1>0, <1>b, <1>e, HereKept DEF HereAt
<1>f. ASSUME res' = [res EXCEPT ![p] = Free] PROVE ResHere(p)'
  BY <1>0, <1>f, EndsHere
<1>1. CASE GetItem(p)
  <2>1. /\ Head(emlq[p]) \in Item /\ Head(emlq[p]) = emlq[p][1] /\ 1 \in DOMAIN emlq[p]
        /\ Tail(emlq[p]) \in Seq(Item) /\ Len(Tail(emlq[p])) = Len(emlq[p]) - 1
        /\ Len(emlq[p]) \in Nat
        /\ \A i \in DOMAIN Tail(emlq[p]) : i + 1 \in DOMAIN emlq[p] /\ Tail(emlq[p])[i] = emlq[p][i + 1]
    BY <1>0, <1>1, TakenFromFront DEF GetItem
  <2>2. /\ emlq'[p] = Tail(emlq[p]) /\ res'[p] = [pc |-> "look", item |-> Head(emlq[p])]
        /\ inbox' = inbox /\ UNCHANGED <<eaq[p], inqq[p], imp[p], web[p], ea>>
    BY <1>0, <1>1 DEF GetItem
  <2>3. EmlqHere(p)'
    BY <1>0, <2>1, <2>2, ImportAssumption DEF HereAt, EmlqHere
  <2>4. ResHere(p)'
    BY <1>0, <2>1, <2>2 DEF HereAt, EmlqHere, ResHere
  <2> QED BY <1>0, <1>b, <2>2, <2>3, <2>4, HereKept DEF HereAt
<1>2. CASE FromCrm(p)
  <2>1. res[p].item \in Item /\ res[p].item.uid <= inbox
    BY <1>2, ItemAtHand DEF FromCrm
  <2>2. (ea.start <= inbox + 1)'
    BY <1>0, <1>2, <1>b, <2>1, UpdateEaHere DEF FromCrm
  <2> QED BY <1>2, <1>e, <1>f, <2>2 DEF FromCrm
<1>3. CASE NoTicket(p)
  <2>1. res[p].item \in Item /\ res[p].item.uid <= inbox
    BY <1>3, ItemAtHand DEF NoTicket
  <2>2. (ea.start <= inbox + 1)'
    BY <1>3, <1>b, <2>1, UpdateEaHere DEF NoTicket
  <2> QED BY <1>3, <1>e, <1>f, <2>2 DEF NoTicket
<1>4. CASE AlreadyExists(p)
  <2>1. res[p].item \in Item /\ res[p].item.uid <= inbox
    BY <1>4, ItemAtHand DEF AlreadyExists
  <2>2. res' = [res EXCEPT ![p] = Free] \/ res'[p] = [res[p] EXCEPT !.pc = "save"]
    BY <1>0, <1>4 DEF AlreadyExists
  <2>3. ResHere(p)'
    BY <1>0, <1>b, <1>f, <2>1, <2>2 DEF ResHere, Restoring
  <2> QED BY <1>0, <1>4, <1>b, <1>e, <2>3 DEF AlreadyExists
<1>5. CASE CrmEmlSave(p)
  <2>1. res[p].item \in Item /\ res[p].item.uid <= inbox
    BY <1>5, ItemAtHand DEF CrmEmlSave
  <2>2. res' = [res EXCEPT ![p] = Free] \/ res'[p] = [res[p] EXCEPT !.pc = "inquiry"]
    BY <1>0, <1>5 DEF CrmEmlSave
  <2>3. ResHere(p)'
    BY <1>0, <1>b, <1>f, <2>1, <2>2 DEF ResHere, Restoring
  <2>4. (ea.start <= inbox + 1)'
    BY <1>0, <1>5, <1>b, <2>1, UpdateEaHere DEF CrmEmlSave
  <2> QED BY <1>5, <1>e, <2>3, <2>4 DEF CrmEmlSave
<1>6. CASE PutInquiry(p)
  <2>1. /\ Len(inqq[p]) < InqSize /\ inqq'[p] = Append(inqq[p], res[p].item.uid)
        /\ res' = [res EXCEPT ![p] = Free] /\ inbox' = inbox
        /\ UNCHANGED <<eaq[p], emlq[p], imp[p], web[p], ea>>
    BY <1>0, <1>6 DEF PutInquiry
  <2>2. res[p].item.uid \in Mails
    BY <1>6, ItemAtHand DEF PutInquiry
  <2>3. InqqHere(p)'
    BY <1>0, <2>1, <2>2, PutAtEnd, ImportAssumption DEF InqqHere
  <2> QED BY <1>0, <1>b, <1>f, <2>1, <2>3, HereKept DEF HereAt
<1> QED BY <1>1, <1>2, <1>3, <1>4, <1>5, <1>6 DEF Restorer

LEMMA OtherHere ==
    ASSUME Types, Here, NEW p \in Procs,
           \/ Send(p) \/ Inquirer(p) \/ EmailsImport(p) \/ GetEmailsByUid(p)
    PROVE  HereAt(p)' /\ UNCHANGED ea.start
<1> USE DEF box, db, scan, rest, tail, user, hist
<1>0. /\ inbox \in Nat /\ HereAt(p) /\ DOMAIN eaq = Procs /\ DOMAIN web = Procs
      /\ inqq \in [Procs -> Seq(Mails)] /\ inqq[p] \in Seq(Mails) /\ ea.start <= inbox + 1
      /\ web[p].todo \in SUBSET Mails /\ \A m \in web[p].todo : m <= inbox
  BY DEF Types, Here, HereAt, WebHere, ByHand
<1>b. UNCHANGED box
  BY SameBox DEF Act
<1>1. CASE Send(p)
  <2>1. /\ eaq'[p] = <<[start |-> ea.start, next |-> ea.next]>> /\ inbox' = inbox
        /\ UNCHANGED <<emlq[p], inqq[p], imp[p], res[p], web[p], ea>>
    BY <1>0, <1>1 DEF Send
  <2>2. EaqHere(p)'
    BY <1>0, <2>1 DEF EaqHere
  <2> QED BY <1>0, <1>b, <2>1, <2>2, HereKept DEF HereAt
<1>2. CASE GetInquiry(p)
  <2>1. /\ inqq'[p] = Tail(inqq[p]) /\ inqq[p] # <<>>
        /\ UNCHANGED <<eaq[p], emlq[p], imp[p], res[p], web[p], ea>>
    BY <1>0, <1>2 DEF GetInquiry
  <2>2. InqqHere(p)'
    BY <1>0, <2>1, TakenFromFront, ImportAssumption DEF HereAt, InqqHere
  <2> QED BY <1>0, <1>b, <2>1, <2>2, HereKept DEF HereAt
<1>3. CASE CreateEmailRequest(p)
  BY <1>0, <1>3, <1>b, HereKept DEF CreateEmailRequest, HereAt
<1>4. CASE EmailsImport(p)
  <2>1. PICK S \in (SUBSET (1..inbox)) \ {{}}, t \in {"ticket", "inquiry"} :
           web'[p] = [todo |-> S, t |-> t]
    BY <1>0, <1>4 DEF EmailsImport
  <2>2. WebHere(p)'
    BY <1>0, <1>b, <2>1 DEF WebHere
  <2> QED BY <1>0, <1>4, <1>b, <2>2, HereKept DEF EmailsImport, HereAt
<1>5. CASE GetEmailsByUid(p)
  <2> DEFINE item == [uid |-> Max(web[p].todo), t |-> web[p].t, base |-> 0]
  <2>1. Max(web[p].todo) \in web[p].todo
    BY <1>0, <1>5, MaxIsIn, ImportAssumption DEF GetEmailsByUid, Mails
  <2>2. item \in Item
    BY <2>1, ImportAssumption DEF Types, ByHand, Item
  <2>3. item.uid <= inbox
    BY <1>0, <2>1
  <2>4. Put(p, item) /\ web'[p] = NextByUid(web[p])
        /\ UNCHANGED <<eaq[p], inqq[p], imp[p], res[p], ea>>
    BY <1>0, <1>5 DEF GetEmailsByUid
  <2> HIDE DEF item
  <2>5. EmlqHere(p)'
    BY <1>0, <1>b, <2>2, <2>3, <2>4, PutHere
  <2>6. NextByUid(web[p]).todo \subseteq web[p].todo
    BY <1>0 DEF Types, ByHand, NextByUid, NoWeb
  <2>7. WebHere(p)'
    BY <1>0, <1>b, <2>4, <2>6 DEF WebHere
  <2> QED BY <1>0, <1>b, <2>4, <2>5, <2>7, HereKept DEF HereAt
<1> QED BY <1>1, <1>2, <1>3, <1>4, <1>5 DEF Inquirer

LEMMA FailureHere ==
    ASSUME Types, Here, NEW p \in Procs, Failure(p)
    PROVE  HereAt(p)' /\ UNCHANGED ea.start
<1> USE DEF box, db, scan, rest, tail, user, hist
<1>0. /\ inbox \in Nat /\ HereAt(p) /\ imp[p] \in Importing /\ DOMAIN imp = Procs
      /\ DOMAIN res = Procs /\ DOMAIN web = Procs /\ DOMAIN eaq = Procs /\ DOMAIN emlq = Procs
      /\ DOMAIN inqq = Procs /\ web[p] \in ByHand
  BY DEF Types, Here
<1>i. /\ imp[p].start <= inbox + 1 /\ (imp[p].pc # "idle" => imp[p].next >= 1)
      /\ \A m \in imp[p].todo : m <= inbox
      /\ \A m \in web[p].todo : m <= inbox
  BY <1>0 DEF HereAt, ImpHere, WebHere
<1>b. UNCHANGED box /\ inbox' = inbox
  BY SameBox DEF Act
<1>e. ASSUME UNCHANGED <<eaq[p], emlq[p], inqq[p], ea>>,
             (ImpHere(p)' /\ UNCHANGED <<res[p], web[p]>>)
             \/ (ResHere(p)' /\ UNCHANGED <<imp[p], web[p]>>)
             \/ (WebHere(p)' /\ UNCHANGED <<imp[p], res[p]>>)
      PROVE  HereAt(p)' /\ UNCHANGED ea.start
  BY <1>0, <1>b, <1>e, HereKept DEF HereAt
<1>1. CASE SearchFails(p)
  <2>1. imp'[p] = [imp[p] EXCEPT !.pc = "save"] /\ imp[p].pc = "search"
    BY <1>0, <1>1 DEF SearchFails
  <2>2. ImpHere(p)'
    BY <1>0, <1>i, <1>b, <2>1 DEF ImpHere, Importing
  <2> QED BY <1>1, <1>e, <2>2 DEF SearchFails
<1>2. CASE FetchFails(p)
  <2>1. imp'[p] = NextMail(imp[p], FALSE) /\ imp[p].pc = "fetch"
    BY <1>0, <1>2 DEF FetchFails
  <2>2. /\ imp'[p].start \in {0, imp[p].start} /\ imp'[p].next = imp[p].next
        /\ imp'[p].todo \subseteq imp[p].todo
    BY <1>0, <2>1, NextMailKeeps
  <2>3. imp[p].next >= 1 /\ \A m \in imp'[p].todo : m <= inbox
    BY <1>i, <2>1, <2>2
  <2>4. inbox \in Nat /\ imp[p].start <= inbox + 1
    BY <1>0, <1>i
  <2>5. imp'[p].start <= inbox + 1
    BY <2>2, <2>4
  <2>6. ImpHere(p)'
    BY <1>b, <2>2, <2>3, <2>5 DEF ImpHere
  <2> QED BY <1>2, <1>e, <2>6 DEF FetchFails
<1>3. CASE ImportFails(p)
  <2>1. ImpHere(p)'
    BY <1>0, <1>3, <1>b, EndsHere DEF ImportFails
  <2> QED BY <1>3, <1>e, <2>1 DEF ImportFails
<1>4. CASE RestoreFails(p) \/ RestorerEnds(p)
  <2>1. ResHere(p)'
    BY <1>0, <1>4, EndsHere DEF RestoreFails, RestorerEnds
  <2> QED BY <1>4, <1>e, <2>1 DEF RestoreFails, RestorerEnds
<1>5. CASE CreateFails(p)
  BY <1>0, <1>5, <1>b, HereKept DEF CreateFails, HereAt
<1>6. CASE ByUidFails(p)
  <2>1. web'[p] = NextByUid(web[p])
    BY <1>0, <1>6 DEF ByUidFails
  <2>2. NextByUid(web[p]).todo \subseteq web[p].todo
    BY <1>0 DEF ByHand, NextByUid, NoWeb
  <2>3. WebHere(p)'
    BY <1>i, <1>b, <2>1, <2>2 DEF WebHere
  <2> QED BY <1>6, <1>e, <2>3 DEF ByUidFails
<1>7. CASE Restart(p)
  <2>1. /\ eaq'[p] = <<>> /\ emlq'[p] = <<>> /\ inqq'[p] = <<>> /\ imp'[p] = Idle
        /\ res'[p] = Free /\ web'[p] = NoWeb /\ UNCHANGED ea
    BY <1>0, <1>7 DEF Restart
  <2> QED BY <1>0, <1>b, <2>1, EndsHere DEF HereAt
<1> QED BY <1>1, <1>2, <1>3, <1>4, <1>5, <1>6, <1>7 DEF Failure

LEMMA HereStep == Types /\ Here /\ [Next]_vars => Here'
<1> SUFFICES ASSUME Types, Here, [Next]_vars PROVE Here'
  OBVIOUS
<1>1. ASSUME NEW p \in Procs, Act(p) PROVE Here'
  <2>1. HereAt(p)' /\ (ea.start <= inbox + 1)'
    <3>1. inbox' = inbox /\ ea.start <= inbox + 1
      BY <1>1, SameBox DEF box, Here
    <3> QED BY <1>1, <3>1, ImporterHere, RestorerHere, OtherHere, FailureHere DEF Act
  <2>2. ASSUME NEW q \in Procs, q # p PROVE HereAt(q)'
    BY <1>1, <2>2, OthersStay, SameBox, HereKept DEF Own, Here, HereAt
  <2> QED BY <2>1, <2>2 DEF Here
<1>2. CASE Arrive
  <2>1. inbox \in Nat /\ inbox' = inbox + 1 /\ UNCHANGED <<ea, eaq, imp, emlq, res, inqq, web>>
    BY <1>2 DEF Arrive, Types, db, scan, rest, tail, user
  <2>2. ASSUME NEW q \in Procs PROVE HereAt(q)'
    <3>1. /\ eaq[q] \in Seq(Object) /\ emlq[q] \in Seq(Item) /\ imp[q] \in Importing
          /\ web[q] \in ByHand /\ HereAt(q)
      BY DEF Types, Here
    <3>2. EaqHere(q)'
      <4>1. \A i \in DOMAIN eaq[q] : eaq[q][i] \in Object
        BY <3>1
      <4>2. \A i \in DOMAIN eaq[q] : eaq[q][i].start \in Int
        BY <4>1, ImportAssumption DEF Object, Uidnexts
      <4> QED BY <2>1, <3>1, <4>2 DEF HereAt, EaqHere
    <3>3. EmlqHere(q)'
      <4>1. \A i \in DOMAIN emlq[q] : emlq[q][i] \in Item
        BY <3>1
      <4>2. \A i \in DOMAIN emlq[q] : emlq[q][i].uid \in Int
        BY <4>1, ImportAssumption DEF Item, Mails
      <4> QED BY <2>1, <3>1, <4>2 DEF HereAt, EmlqHere
    <3>4. ImpHere(q)'
      <4>1. imp[q].start \in Nat /\ imp[q].todo \in SUBSET Nat
        BY <3>1, ImportAssumption DEF Importing, Starts, Mails
      <4> QED BY <2>1, <3>1, <4>1 DEF HereAt, ImpHere
    <3>5. ResHere(q)'
      <4>1. res[q].pc \notin {"idle", "dead"} => res[q].item.uid \in Nat
        BY <3>1, ImportAssumption DEF HereAt, ResHere, Item, Mails
      <4> QED BY <2>1, <3>1, <4>1 DEF HereAt, ResHere
    <3>6. WebHere(q)'
      <4>1. web[q].todo \in SUBSET Nat
        BY <3>1, ImportAssumption DEF ByHand, Mails
      <4> QED BY <2>1, <3>1, <4>1 DEF HereAt, WebHere
    <3>7. InqqHere(q)'
      BY <2>1, <3>1 DEF HereAt, InqqHere
    <3> QED BY <3>2, <3>3, <3>4, <3>5, <3>6, <3>7 DEF HereAt
  <2>3. (ea.start <= inbox + 1)'
    <3>1. ea.start \in Int
      BY ImportAssumption DEF Types, Uidnexts
    <3> QED BY <2>1, <3>1 DEF Here
  <2> QED BY <2>2, <2>3 DEF Here
<1>3. CASE Elapse \/ UNCHANGED vars
  <2>1. UNCHANGED <<box, eaq, imp, emlq, res, inqq, web>> /\ ea'.start = ea.start
    BY <1>3 DEF Elapse, vars, box, db, scan, rest, tail, user, Types
  <2>2. ASSUME NEW q \in Procs PROVE HereAt(q)'
    BY <2>1, HereKept DEF Here, HereAt
  <2> QED BY <2>1, <2>2 DEF Here, box
<1> QED BY <1>1, <1>2, <1>3 DEF Next, Act
------------------------------------------------------------------------------
(* Races. *)
LEMMA RacesKept ==
    ASSUME Races, UNCHANGED <<rows, raced>>,
           \A q \in Procs, m \in Mails : Saving(q, m)' => Saving(q, m)
    PROVE  Races'
<1>1. OneRow'
  BY DEF Races, OneRow
<1>2. ASSUME NEW p \in Procs, NEW m \in Mails, Saving(p, m)',
             (rows[m] > 0 \/ \E q \in Procs \ {p} : Saving(q, m))'
      PROVE  m \in raced'
  <2>1. Saving(p, m) /\ (rows[m] > 0 \/ \E q \in Procs \ {p} : Saving(q, m))
    BY <1>2
  <2> QED BY <2>1 DEF Races
<1> QED BY <1>1, <1>2 DEF Races

(* Only the mail a process is at is looked up, and saved. *)
LEMMA RacesStep == Types /\ Here /\ Races /\ [Next]_vars => Races'
<1> SUFFICES ASSUME Types, Here, Races, [Next]_vars PROVE Races'
  OBVIOUS
<1> USE DEF box, db, scan, rest, tail, user, hist
<1>0. rows \in [Mails -> Nat] /\ DOMAIN res = Procs
  BY DEF Types
<1>a. ASSUME NEW p \in Procs, res'[p].pc # "save", \A q \in Procs \ {p} : res'[q] = res[q],
             NEW q \in Procs, NEW m \in Mails, Saving(q, m)'
      PROVE  Saving(q, m)
  BY <1>a DEF Saving
<1>b. ASSUME NEW p \in Procs, \A q \in Procs \ {p} : res'[q] = res[q], res'[p].pc # "save",
             UNCHANGED <<rows, raced>>
      PROVE  Races'
  BY <1>a, <1>b, RacesKept
<1>c. ASSUME UNCHANGED <<res, rows, raced>> PROVE Races'
  BY <1>c, RacesKept DEF Saving
<1>1. ASSUME NEW p \in Procs, Restorer(p), ~AlreadyExists(p), ~CrmEmlSave(p) PROVE Races'
  BY <1>0, <1>1, <1>b DEF Restorer, GetItem, FromCrm, NoTicket, PutInquiry, Free
<1>2. ASSUME NEW p \in Procs, Failure(p) PROVE Races'
  <2>1. CASE SearchFails(p) \/ FetchFails(p) \/ ImportFails(p) \/ CreateFails(p) \/ ByUidFails(p)
    BY <2>1, <1>c DEF SearchFails, FetchFails, ImportFails, CreateFails, ByUidFails
  <2>2. CASE RestoreFails(p) \/ RestorerEnds(p) \/ Restart(p)
    BY <1>0, <2>2, <1>b DEF RestoreFails, RestorerEnds, Restart, Free, Ended
  <2> QED BY <1>2, <2>1, <2>2 DEF Failure
<1>3. ASSUME NEW p \in Procs, AlreadyExists(p) PROVE Races'
  <2>1. CASE rows[res[p].item.uid] > 0
    BY <1>0, <1>3, <2>1, <1>b, ItemAtHand DEF AlreadyExists, Free
  <2>2. CASE ~(rows[res[p].item.uid] > 0)
    <3> DEFINE u == res[p].item.uid
    <3>1. u \in Mails /\ rows[u] = 0
      BY <1>0, <1>3, <2>2, ItemAtHand DEF AlreadyExists
    <3>2. /\ UNCHANGED rows /\ raced \subseteq raced' /\ res[p].pc = "look"
          /\ (\E q \in Procs \ {p} : Saving(q, u)) => u \in raced'
          /\ \A q \in Procs \ {p} : res'[q] = res[q]
          /\ res'[p].item.uid = u
      BY <1>0, <1>3, <2>2, ItemAtHand DEF AlreadyExists, Saving, Restoring
    <3> HIDE DEF u
    <3>3. OneRow'
      BY <3>2 DEF Races, OneRow
    <3>4. ASSUME NEW q \in Procs, NEW m \in Mails, Saving(q, m)',
                 (rows[m] > 0 \/ \E r \in Procs \ {q} : Saving(r, m))'
          PROVE  m \in raced'
      <4>1. CASE m = u
        <5>1. \E r \in Procs \ {p} : Saving(r, u)
          BY <3>1, <3>2, <3>4, <4>1 DEF Saving
        <5> QED BY <3>2, <4>1, <5>1
      <4>2. CASE m # u
        <5>1. \A r \in Procs : Saving(r, m)' => Saving(r, m)
          BY <3>2, <4>2 DEF Saving
        <5>2. Saving(q, m) /\ (rows[m] > 0 \/ \E r \in Procs \ {q} : Saving(r, m))
          BY <3>2, <3>4, <5>1
        <5> QED BY <3>2, <5>2 DEF Races
      <4> QED BY <4>1, <4>2
    <3> QED BY <3>3, <3>4 DEF Races
  <2> QED BY <2>1, <2>2
<1>4. ASSUME NEW p \in Procs, CrmEmlSave(p) PROVE Races'
  <2> DEFINE u == res[p].item.uid
  <2>1. u \in Mails /\ res[p] \in Restoring /\ Saving(p, u)
    BY <1>4, ItemAtHand DEF CrmEmlSave, Saving
  <2>2. /\ rows' = [rows EXCEPT ![u] = @ + 1] /\ UNCHANGED raced /\ res'[p].pc # "save"
        /\ \A q \in Procs \ {p} : res'[q] = res[q]
    BY <1>0, <1>4, <2>1 DEF CrmEmlSave, Restoring, Free
  <2> HIDE DEF u
  <2>3. ASSUME NEW m \in Mails, rows'[m] > 1 PROVE m \in raced'
    <3>1. m # u => rows[m] > 1
      BY <1>0, <2>1, <2>2, <2>3
    <3>2. m = u => rows[m] > 0
      BY <1>0, <2>1, <2>2, <2>3
    <3> QED BY <2>1, <2>2, <3>1, <3>2 DEF Races, OneRow
  <2>4. ASSUME NEW q \in Procs, NEW m \in Mails, Saving(q, m)',
               (rows[m] > 0 \/ \E r \in Procs \ {q} : Saving(r, m))'
        PROVE  m \in raced'
    <3>1. q # p /\ Saving(q, m) /\ \A r \in Procs : Saving(r, m)' => Saving(r, m)
      BY <2>2, <2>4 DEF Saving
    <3>2. rows'[m] > 0 => rows[m] > 0 \/ m = u
      BY <1>0, <2>2
    <3>3. rows[m] > 0 \/ \E r \in Procs \ {q} : Saving(r, m)
      BY <2>1, <2>4, <3>1, <3>2
    <3> QED BY <2>2, <3>1, <3>3 DEF Races
  <2> QED BY <2>3, <2>4 DEF Races, OneRow
<1>5. ASSUME NEW p \in Procs,
             \/ Send(p) \/ Importer(p) \/ Inquirer(p) \/ EmailsImport(p) \/ GetEmailsByUid(p)
      PROVE  Races'
  <2>1. UNCHANGED <<res, rows, raced>>
    BY <1>5 DEF Send, Importer, Take, Check, MarkTime, CheckBoxStatus, Search, FetchPut,
                NothingFound, SaveAccount, Inquirer, GetInquiry, CreateEmailRequest,
                EmailsImport, GetEmailsByUid
  <2> QED BY <1>c, <2>1
<1>6. CASE Arrive \/ Elapse \/ UNCHANGED vars
  BY <1>6, <1>c DEF Arrive, Elapse, vars
<1> QED BY <1>1, <1>2, <1>3, <1>4, <1>5, <1>6 DEF Next
------------------------------------------------------------------------------
(* The order of the mails. *)
Grows == Ticketed' = Ticketed /\ \A m \in Ticketed : Done(m) => Done(m)'

LEMMA LoseGrows ==
    ASSUME Types, NEW how \in {"failed", "cut", "jumped"}, NEW S, Lose(how, S)
    PROVE  /\ missed.failed \subseteq missed'.failed /\ missed.jumped \subseteq missed'.jumped
           /\ how = "failed" => S \subseteq missed'.failed
           /\ how = "jumped" => S \subseteq missed'.jumped
BY DEF Types, Lose

LEMMA DoneGrows ==
    ASSUME Types, Here, NEW p \in Procs, Act(p) PROVE Grows
<1>1. Ticketed' = Ticketed
  BY SameBox DEF Ticketed, box
<1>2. /\ missed.failed \subseteq missed'.failed /\ missed.jumped \subseteq missed'.jumped
  <2>1. CASE UNCHANGED missed
    BY <2>1
  <2>2. ASSUME NEW item, UpdateEa(p, item)
        PROVE  missed.failed \subseteq missed'.failed /\ missed.jumped \subseteq missed'.jumped
    BY <2>2, LoseGrows DEF UpdateEa
  <2>3. CASE Failure(p)
    <3>1. UNCHANGED missed \/ \E S : Lose("failed", S)
      BY <2>3 DEF Failure, SearchFails, FetchFails, ImportFails, RestoreFails, RestorerEnds, CreateFails,
                  ByUidFails, Restart, hist
    <3> QED BY <2>1, <3>1, LoseGrows
  <2>4. CASE Restorer(p)
    <3>1. UNCHANGED missed \/ \E item : UpdateEa(p, item)
      BY <2>4 DEF Restorer, GetItem, FromCrm, NoTicket, AlreadyExists, CrmEmlSave, PutInquiry, hist
    <3> QED BY <2>1, <2>2, <3>1
  <2>5. CASE Importer(p)
    <3>1. UNCHANGED missed \/ \E S : Lose("cut", S)
      BY <2>5 DEF Importer, Take, Check, MarkTime, CheckBoxStatus, Search, FetchPut,
                  NothingFound, SaveAccount, hist
    <3> QED BY <2>1, <3>1, LoseGrows
  <2>6. CASE Send(p) \/ Inquirer(p) \/ EmailsImport(p) \/ GetEmailsByUid(p)
    BY <2>1, <2>6 DEF Send, Inquirer, GetInquiry, CreateEmailRequest, EmailsImport,
                      GetEmailsByUid, hist
  <2> QED BY <2>3, <2>4, <2>5, <2>6 DEF Act
<1>3. \A m \in Mails : rows[m] > 0 => rows'[m] > 0
  <2>1. CASE CrmEmlSave(p)
    <3>1. rows \in [Mails -> Nat] /\ rows' = [rows EXCEPT ![res[p].item.uid] = @ + 1]
      BY <2>1 DEF CrmEmlSave, Types
    <3> QED BY <3>1
  <2>2. CASE ~CrmEmlSave(p)
    <3>1. UNCHANGED rows
      BY <2>2 DEF Act, Failure, SearchFails, FetchFails, ImportFails, RestoreFails, RestorerEnds, CreateFails,
                  ByUidFails, Restart, Restorer, GetItem, FromCrm, NoTicket, AlreadyExists,
                  PutInquiry, Importer, Take, Check, MarkTime, CheckBoxStatus, Search, FetchPut,
                  NothingFound, SaveAccount, Send, Inquirer, GetInquiry, CreateEmailRequest,
                  EmailsImport, GetEmailsByUid, db
    <3> QED BY <3>1
  <2> QED BY <2>1, <2>2
<1>4. Ticketed \subseteq Mails
  BY ImportAssumption DEF Types, Ticketed, Mails
<1> QED BY <1>1, <1>2, <1>3, <1>4 DEF Grows, Done

LEMMA OrderKept ==
    ASSUME Grows, NEW q, InOrder(q)
    PROVE  /\ UNCHANGED eaq[q] => EaqOrder(q)'
           /\ UNCHANGED imp[q] => ScanOrder(q)'
           /\ UNCHANGED <<imp[q], emlq[q], res[q]>> => FetchOrder(q)'
           /\ UNCHANGED <<emlq[q], res[q]>> => QueueOrder(q)'
           /\ UNCHANGED res[q] => HandOrder(q)'
<1>1. UNCHANGED eaq[q] => EaqOrder(q)'
  BY DEF Grows, InOrder, EaqOrder, Behind
<1>2. UNCHANGED imp[q] => ScanOrder(q)'
  BY DEF Grows, InOrder, ScanOrder, Behind
<1>3. UNCHANGED <<imp[q], emlq[q], res[q]>> => FetchOrder(q)'
  BY DEF Grows, InOrder, FetchOrder, Flight, Held
<1>4. UNCHANGED <<emlq[q], res[q]>> => QueueOrder(q)'
  BY DEF Grows, InOrder, QueueOrder, Held
<1>5. UNCHANGED res[q] => HandOrder(q)'
  BY DEF Grows, InOrder, HandOrder, Behind
<1> QED BY <1>1, <1>2, <1>3, <1>4, <1>5

(* A process lets go of the mail at hand once it is done. *)
LEMMA LetGo ==
    ASSUME Grows, NEW q, InOrder(q), UNCHANGED <<imp[q], emlq[q], eaq[q]>>,
           Held(q)' = {}, \A m \in Held(q) \cap Ticketed : Done(m)'
    PROVE  ScanOrder(q)' /\ FetchOrder(q)' /\ QueueOrder(q)' /\ EaqOrder(q)' /\ HandOrder(q)'
<1>1. ScanOrder(q)' /\ EaqOrder(q)'
  BY OrderKept
<1>2. FetchOrder(q)'
  BY DEF Grows, InOrder, FetchOrder, Flight
<1>3. QueueOrder(q)'
  BY DEF Grows, InOrder, QueueOrder
<1>4. HandOrder(q)'
  BY DEF HandOrder, Held
<1> QED BY <1>1, <1>2, <1>3, <1>4

LEMMA ImporterOrder ==
    ASSUME Types, Here, NEW p \in Procs, InOrder(p), Importer(p) PROVE InOrder(p)'
<1> USE DEF box, db, rest, tail, user, hist
<1>0. /\ imp[p] \in Importing /\ eaq[p] \in Seq(Object) /\ DOMAIN imp = Procs
      /\ DOMAIN eaq = Procs /\ emlq[p] \in Seq(Item) /\ DOMAIN emlq = Procs
  BY DEF Types
<1>g. Grows
  BY DoneGrows DEF Act
<1>1. CASE Take(p)
  <2>1. /\ Head(eaq[p]) = eaq[p][1] /\ 1 \in DOMAIN eaq[p]
        /\ \A i \in DOMAIN Tail(eaq[p]) : i + 1 \in DOMAIN eaq[p] /\ Tail(eaq[p])[i] = eaq[p][i + 1]
    BY <1>0, <1>1, TakenFromFront DEF Take
  <2>2. /\ eaq'[p] = Tail(eaq[p]) /\ imp'[p].start = Head(eaq[p]).start /\ imp'[p].pc = "check"
        /\ UNCHANGED <<emlq, res>>
    BY <1>0, <1>1 DEF Take, Importing
  <2>3. EaqOrder(p)'
    BY <1>g, <2>1, <2>2 DEF InOrder, EaqOrder, Behind, Grows
  <2>4. ScanOrder(p)'
    BY <1>g, <2>1, <2>2 DEF InOrder, EaqOrder, ScanOrder, Behind, Grows
  <2>5. FetchOrder(p)'
    BY <2>2 DEF FetchOrder
  <2> QED BY <1>g, <2>2, <2>3, <2>4, <2>5, OrderKept DEF InOrder
<1>a. ASSUME UNCHANGED <<eaq, emlq, res>>, imp'[p].pc # "fetch",
             imp'[p].pc \in {"idle", "save"} \/
             (imp'[p].start = imp[p].start /\ imp[p].pc \in {"check", "mark", "status", "search"})
      PROVE  InOrder(p)'
  <2>1. FetchOrder(p)'
    BY <1>a DEF FetchOrder
  <2>2. ScanOrder(p)'
    BY <1>a, <1>g DEF InOrder, ScanOrder, Behind, Grows
  <2> QED BY <1>a, <1>g, <2>1, <2>2, OrderKept DEF InOrder
<1>2. CASE Check(p)
  BY <1>0, <1>2, <1>a DEF Check, Idle, Importing
<1>3. CASE MarkTime(p)
  BY <1>0, <1>3, <1>a DEF MarkTime, Importing
<1>4. CASE CheckBoxStatus(p)
  BY <1>0, <1>4, <1>a DEF CheckBoxStatus, Importing
<1>5. CASE Search(p)
  <2>1. /\ imp'[p].pc = "fetch" /\ imp'[p].todo = Found(imp[p].start) /\ imp[p].pc = "search"
        /\ UNCHANGED <<eaq, emlq, res>> /\ imp[p].start \in Int
    <3>1. imp'[p] = [imp[p] EXCEPT !.pc = "fetch", !.first = TRUE, !.todo = Found(imp[p].start)]
          /\ imp[p].pc = "search"
      BY <1>0, <1>5 DEF Search
    <3>2. imp[p].start \in Int
      BY <1>0, ImportAssumption DEF Importing, Starts
    <3> QED BY <1>0, <1>5, <3>1, <3>2 DEF Search, Importing
  <2>2. ASSUME NEW x \in Found(imp[p].start), NEW m \in Ticketed, m < x
        PROVE  Done(m) \/ m \in Found(imp[p].start)
    <3>1. CASE m < imp[p].start
      BY <2>1, <3>1 DEF InOrder, ScanOrder, Behind
    <3>2. CASE ~(m < imp[p].start)
      <4>1. inbox \in Nat /\ m \in 1..inbox /\ kind[m] # "plain"
        BY DEF Types, Ticketed
      <4>2. m >= imp[p].start
        BY <2>1, <3>2, <4>1
      <4> QED BY <4>1, <4>2 DEF Found
    <3> QED BY <3>1, <3>2
  <2>3. FetchOrder(p)'
    BY <1>g, <2>1, <2>2 DEF FetchOrder, Grows
  <2>4. ScanOrder(p)'
    BY <2>1 DEF ScanOrder
  <2> QED BY <1>g, <2>1, <2>3, <2>4, OrderKept DEF InOrder
<1>6. CASE FetchPut(p)
  <2> DEFINE x == Min(imp[p].todo)
             item == Oldest(imp[p])
  <2>1. /\ imp[p].todo # {} /\ imp'[p] = NextMail(imp[p], TRUE) /\ imp[p].pc = "fetch"
        /\ emlq'[p] = Append(emlq[p], item) /\ UNCHANGED <<eaq, res>>
    BY <1>0, <1>6 DEF FetchPut, Put, Oldest
  <2>2. /\ x \in imp[p].todo /\ \A m \in imp[p].todo : x <= m
        /\ item \in Item /\ item.uid = x /\ x \in Nat
    <3>1. imp[p].todo \in SUBSET Nat
      BY <1>0, ImportAssumption DEF Importing, Mails
    <3> QED BY <1>0, <2>1, <3>1, OldestIsItem
  <2>3. imp'[p].todo \subseteq imp[p].todo \ {x} /\ imp'[p].pc \in {"save", "fetch"}
        /\ (imp'[p].pc = "fetch" => imp'[p].todo = imp[p].todo \ {x})
    <3>1. imp'[p].pc = "fetch" => imp'[p].todo = imp[p].todo \ {x}
      BY <1>0, <2>1 DEF NextMail, Importing
    <3> QED BY <1>0, <2>1, <3>1, NextMailKeeps
  <2> HIDE DEF x, item
  <2>4. /\ Len(emlq[p]) \in Nat /\ DOMAIN emlq[p] = 1..Len(emlq[p])
        /\ Len(emlq[p]) + 1 \in DOMAIN emlq'[p] /\ emlq'[p][Len(emlq[p]) + 1] = item
        /\ \A i \in DOMAIN emlq[p] : i \in DOMAIN emlq'[p] /\ emlq'[p][i] = emlq[p][i]
        /\ \A i \in DOMAIN emlq'[p] : i \in DOMAIN emlq[p] \/ i = Len(emlq[p]) + 1
    BY <1>0, <2>1, <2>2, PutAtEnd
  <2>5. Held(p)' = Held(p) /\ Flight(p) \subseteq Flight(p)' /\ x \in Flight(p)'
    BY <2>1, <2>2, <2>4 DEF Held, Flight
  <2>6. FetchOrder(p)'
    <3> SUFFICES ASSUME imp'[p].pc = "fetch", NEW y \in imp'[p].todo, NEW m \in Ticketed, m < y
                 PROVE  Done(m)' \/ m \in imp'[p].todo \/ m \in Flight(p)'
      BY <1>g DEF FetchOrder, Grows
    <3>1. Done(m) \/ m \in imp[p].todo \/ m \in Flight(p)
      BY <2>1, <2>3 DEF InOrder, FetchOrder
    <3> QED BY <1>g, <2>3, <2>5, <3>1 DEF Grows
  <2>7. QueueOrder(p)'
    <3> SUFFICES ASSUME NEW i \in DOMAIN emlq'[p], emlq'[p][i].t = "scan", NEW m \in Ticketed,
                        m < emlq'[p][i].uid
                 PROVE  Done(m)' \/ m \in Held(p)'
                        \/ \E j \in DOMAIN emlq'[p] : j < i /\ emlq'[p][j].uid = m
      BY <1>g DEF QueueOrder, Grows
    <3>1. CASE i \in DOMAIN emlq[p]
      <4>1. Done(m) \/ m \in Held(p) \/ \E j \in DOMAIN emlq[p] : j < i /\ emlq[p][j].uid = m
        BY <2>4, <3>1 DEF InOrder, QueueOrder
      <4> QED BY <1>g, <2>4, <2>5, <4>1 DEF Grows
    <3>2. CASE i = Len(emlq[p]) + 1
      <4>1. m < x /\ m \in Nat
        BY <2>2, <2>4, <3>2 DEF Ticketed
      <4>2. m \notin imp[p].todo
        BY <2>2, <4>1
      <4>3. Done(m) \/ m \in Flight(p)
        BY <2>1, <2>2, <4>1, <4>2 DEF InOrder, FetchOrder
      <4>4. \A j \in DOMAIN emlq[p] : j < i
        BY <2>4, <3>2
      <4> QED BY <1>g, <2>4, <2>5, <4>3, <4>4 DEF Grows, Flight
    <3> QED BY <2>4, <3>1, <3>2
  <2>8. ScanOrder(p)'
    BY <2>3 DEF ScanOrder
  <2> QED BY <1>g, <2>1, <2>6, <2>7, <2>8, OrderKept DEF InOrder
<1>7. CASE NothingFound(p)
  BY <1>0, <1>7, <1>a DEF NothingFound, Importing
<1>8. CASE SaveAccount(p)
  BY <1>0, <1>8, <1>a DEF SaveAccount, Idle, Importing
<1> QED BY <1>1, <1>2, <1>3, <1>4, <1>5, <1>6, <1>7, <1>8 DEF Importer

(* The start is moved behind a mail in front of which everything is done. *)
LEMMA UpdateEaPasses ==
    ASSUME Types, Here, Grows, NEW p \in Procs, res[p].pc \in {"look", "save"}, HandOrder(p),
           UpdateEa(p, res[p].item), \A m \in Ticketed : m = res[p].item.uid => Done(m)'
    PROVE  Passed'
<1> DEFINE u == res[p].item.uid
<1>1. /\ u \in Nat /\ ea'.start = u + 1
      /\ res[p].item \in Item /\ res[p].item.uid <= inbox
  <2>1. res[p].item \in Item /\ res[p].item.uid <= inbox /\ res[p].item.uid \in Mails
    BY ItemAtHand
  <2> QED BY <2>1, UpdateEaHere, ImportAssumption DEF Mails
<1>2. ASSUME NEW m \in Ticketed, m < u PROVE Done(m)'
  <2>1. CASE res[p].item.t = "scan"
    <3>1. Done(m)
      BY <1>2, <2>1 DEF HandOrder, Behind
    <3> QED BY <3>1 DEF Grows
  <2>2. CASE res[p].item.t # "scan"
    <3> DEFINE S == {k \in 1..(u - 1) : rows[k] = 0 /\ kind[k] = "ticket"}
    <3>1. S \subseteq missed'.jumped
      BY <2>2, LoseGrows DEF UpdateEa
    <3>2. m \in 1..(u - 1) /\ kind[m] = "ticket" /\ m \in Mails
      BY <1>1, <1>2, ImportAssumption DEF Types, Ticketed, Mails
    <3>3. CASE rows[m] = 0
      <4>1. m \in S
        BY <3>2, <3>3
      <4> QED BY <3>1, <4>1 DEF Done
    <3>4. CASE rows[m] # 0
      <4>1. rows[m] > 0
        BY <3>2, <3>4 DEF Types
      <4> QED BY <1>2, <4>1 DEF Grows, Done
    <3> QED BY <3>3, <3>4
  <2> QED BY <2>1, <2>2
<1>3. ASSUME NEW m \in Ticketed, m < u + 1 PROVE Done(m)'
  <2>1. m < u \/ m = u
    BY <1>1, <1>3 DEF Ticketed
  <2> QED BY <1>2, <2>1
<1> QED BY <1>1, <1>3 DEF Passed, Done, Grows

LEMMA PassedKept ==
    ASSUME Passed, Grows, ea'.start = ea.start PROVE Passed'
BY DEF Passed, Grows, Done

LEMMA RestorerOrder ==
    ASSUME Types, Here, Passed, NEW p \in Procs, InOrder(p), Restorer(p)
    PROVE  InOrder(p)' /\ Passed'
<1> USE DEF box, db, scan, tail, user, hist
<1>0. /\ res[p] \in Restoring /\ DOMAIN res = Procs
      /\ emlq[p] \in Seq(Item) /\ DOMAIN emlq = Procs
  BY DEF Types
<1>g. Grows
  BY DoneGrows DEF Act
<1>a. ASSUME UNCHANGED <<imp, emlq, eaq>>, res'[p].pc \in {"idle", "inquiry"},
             \A m \in Held(p) \cap Ticketed : Done(m)'
      PROVE  InOrder(p)'
  BY <1>a, <1>g, LetGo DEF Held, InOrder
<1>1. CASE GetItem(p)
  <2>1. /\ Head(emlq[p]) = emlq[p][1] /\ 1 \in DOMAIN emlq[p]
        /\ \A i \in DOMAIN Tail(emlq[p]) : /\ i \in Nat \ {0} /\ i + 1 \in DOMAIN emlq[p]
                                           /\ Tail(emlq[p])[i] = emlq[p][i + 1]
        /\ \A i \in DOMAIN emlq[p] : i # 1 => /\ i - 1 \in DOMAIN Tail(emlq[p])
                                              /\ Tail(emlq[p])[i - 1] = emlq[p][i]
        /\ DOMAIN emlq[p] \subseteq Nat
    BY <1>0, <1>1, TakenFromFront DEF GetItem
  <2>2. /\ emlq'[p] = Tail(emlq[p]) /\ res'[p] = [pc |-> "look", item |-> emlq[p][1]]
        /\ res[p].pc = "idle" /\ UNCHANGED <<eaq, imp, ea>>
    BY <1>0, <1>1, <2>1 DEF GetItem
  <2>3. Held(p) = {} /\ Held(p)' = {emlq[p][1].uid}
    BY <2>2 DEF Held
  <2>4. Flight(p) \subseteq Flight(p)'
    <3>1. ASSUME NEW i \in DOMAIN emlq[p] PROVE emlq[p][i].uid \in Flight(p)'
      <4>1. CASE i = 1
        BY <2>3, <4>1 DEF Flight
      <4>2. CASE i # 1
        BY <2>1, <2>2, <4>2 DEF Flight
      <4> QED BY <4>1, <4>2
    <3> QED BY <2>3, <3>1 DEF Flight
  <2>5. FetchOrder(p)'
    BY <1>g, <2>2, <2>4 DEF InOrder, FetchOrder, Grows
  <2>6. HandOrder(p)'
    <3>1. emlq[p][1].t = "scan" => Behind(emlq[p][1].uid)
      <4> SUFFICES ASSUME emlq[p][1].t = "scan", NEW m \in Ticketed, m < emlq[p][1].uid
                   PROVE  Done(m)
        BY DEF Behind
      <4>1. \A j \in DOMAIN emlq[p] : ~(j < 1)
        <5>1. DOMAIN emlq[p] = 1..Len(emlq[p])
          BY <1>0
        <5> QED BY <5>1
      <4> QED BY <2>1, <2>3, <4>1 DEF InOrder, QueueOrder
    <3> QED BY <1>g, <2>2, <3>1 DEF HandOrder, Behind, Grows
  <2>7. QueueOrder(p)'
    <3> SUFFICES ASSUME NEW i \in DOMAIN Tail(emlq[p]), Tail(emlq[p])[i].t = "scan",
                        NEW m \in Ticketed, m < Tail(emlq[p])[i].uid
                 PROVE  Done(m)' \/ m \in Held(p)'
                        \/ \E j \in DOMAIN Tail(emlq[p]) : j < i /\ Tail(emlq[p])[j].uid = m
      BY <1>g, <2>2 DEF QueueOrder, Grows
    <3>1. Done(m) \/ \E j \in DOMAIN emlq[p] : j < i + 1 /\ emlq[p][j].uid = m
      BY <2>1, <2>3 DEF InOrder, QueueOrder
    <3>2. CASE Done(m)
      BY <1>g, <3>2 DEF Grows
    <3>3. ASSUME NEW j \in DOMAIN emlq[p], j < i + 1, emlq[p][j].uid = m
          PROVE  m \in Held(p)' \/ \E k \in DOMAIN Tail(emlq[p]) : k < i /\ Tail(emlq[p])[k].uid = m
      <4>1. CASE j = 1
        BY <2>3, <3>3, <4>1
      <4>2. CASE j # 1
        <5>1. j - 1 \in DOMAIN Tail(emlq[p]) /\ Tail(emlq[p])[j - 1].uid = m /\ j - 1 < i
          BY <2>1, <3>3, <4>2
        <5> QED BY <5>1
      <4> QED BY <4>1, <4>2
    <3> QED BY <3>1, <3>2, <3>3
  <2>8. Passed'
    BY <1>g, <2>2, PassedKept
  <2> QED BY <1>g, <2>2, <2>5, <2>6, <2>7, <2>8, OrderKept DEF InOrder
<1>2. CASE FromCrm(p)
  <2>1. res[p].pc = "look" /\ res[p].item.uid \notin Ticketed
    BY <1>2 DEF FromCrm, Ticketed
  <2>2. InOrder(p)'
    BY <1>0, <1>2, <1>a, <2>1 DEF FromCrm, Free, Held
  <2>3. Passed'
    <3>1. UpdateEa(p, res[p].item) \/ UNCHANGED ea
      BY <1>2 DEF FromCrm
    <3> QED BY <1>g, <2>1, <3>1, PassedKept, UpdateEaPasses DEF InOrder
  <2> QED BY <2>2, <2>3
<1>3. CASE NoTicket(p)
  <2>1. res[p].pc = "look" /\ res[p].item.uid \notin Ticketed /\ UpdateEa(p, res[p].item)
    BY <1>3 DEF NoTicket, Ticketed
  <2>2. InOrder(p)'
    BY <1>0, <1>3, <1>a, <2>1 DEF NoTicket, Free, Held
  <2> QED BY <1>g, <2>1, <2>2, UpdateEaPasses DEF InOrder
<1>4. CASE AlreadyExists(p)
  <2>1. Passed'
    BY <1>4, <1>g, PassedKept DEF AlreadyExists
  <2>2. CASE rows[res[p].item.uid] > 0
    <3>1. Done(res[p].item.uid)
      BY <2>2 DEF Done
    <3>2. \A m \in Held(p) \cap Ticketed : Done(m)'
      BY <1>g, <3>1 DEF Held, Grows
    <3>3. res'[p].pc = "idle" /\ UNCHANGED <<imp, emlq, eaq>>
      BY <1>0, <1>4, <2>2, ItemAtHand DEF AlreadyExists, Free, Types
    <3> QED BY <1>a, <2>1, <3>2, <3>3
  <2>3. CASE ~(rows[res[p].item.uid] > 0)
    <3>1. /\ res[p].pc = "look" /\ res'[p].pc = "save" /\ res'[p].item = res[p].item
          /\ UNCHANGED <<imp, emlq, eaq>>
      BY <1>0, <1>4, <2>3 DEF AlreadyExists, Restoring
    <3>2. Held(p)' = Held(p) /\ Flight(p)' = Flight(p)
      BY <3>1 DEF Held, Flight
    <3>3. FetchOrder(p)'
      BY <1>g, <3>1, <3>2 DEF InOrder, FetchOrder, Grows
    <3>4. QueueOrder(p)'
      BY <1>g, <3>1, <3>2 DEF InOrder, QueueOrder, Grows
    <3>5. HandOrder(p)'
      BY <1>g, <3>1 DEF InOrder, HandOrder, Behind, Grows
    <3> QED BY <1>g, <2>1, <3>1, <3>3, <3>4, <3>5, OrderKept DEF InOrder
  <2> QED BY <2>2, <2>3
<1>5. CASE CrmEmlSave(p)
  <2>1. res[p].pc = "save" /\ res[p].item.uid \in Mails
    BY <1>5, ItemAtHand DEF CrmEmlSave
  <2>2. \A m \in Ticketed : m = res[p].item.uid => Done(m)'
    <3>1. rows'[res[p].item.uid] > 0
      BY <1>5, <2>1 DEF CrmEmlSave, Types
    <3> QED BY <3>1 DEF Done
  <2>3. res'[p].pc \in {"idle", "inquiry"} /\ UNCHANGED <<imp, emlq, eaq>>
    BY <1>0, <1>5 DEF CrmEmlSave, Free, Restoring
  <2>4. InOrder(p)'
    BY <1>a, <2>2, <2>3 DEF Held
  <2>5. UpdateEa(p, res[p].item) \/ UNCHANGED ea
    BY <1>5 DEF CrmEmlSave
  <2> QED BY <1>g, <2>1, <2>2, <2>4, <2>5, PassedKept, UpdateEaPasses DEF InOrder
<1>6. CASE PutInquiry(p)
  <2>1. res[p].pc = "inquiry" /\ res'[p].pc = "idle" /\ UNCHANGED <<imp, emlq, eaq, ea>>
    BY <1>0, <1>6 DEF PutInquiry, Free
  <2> QED BY <1>a, <1>g, <2>1, PassedKept DEF Held
<1> QED BY <1>1, <1>2, <1>3, <1>4, <1>5, <1>6 DEF Restorer

LEMMA OtherOrder ==
    ASSUME Types, Here, Passed, NEW p \in Procs, InOrder(p),
           \/ Send(p) \/ Inquirer(p) \/ EmailsImport(p) \/ GetEmailsByUid(p)
    PROVE  InOrder(p)'
<1> USE DEF box, db, scan, rest, tail, user, hist
<1>0. DOMAIN eaq = Procs /\ DOMAIN emlq = Procs /\ emlq[p] \in Seq(Item)
  BY DEF Types
<1>g. Grows
  BY DoneGrows DEF Act
<1>1. CASE Send(p)
  <2>1. eaq'[p] = <<[start |-> ea.start, next |-> ea.next]>> /\ UNCHANGED <<emlq, imp, res>>
    BY <1>0, <1>1 DEF Send
  <2>2. Behind(ea.start)
    BY DEF Passed, Behind, Done
  <2>3. EaqOrder(p)'
    BY <1>g, <2>1, <2>2 DEF EaqOrder, Behind, Grows
  <2> QED BY <1>g, <2>1, <2>3, OrderKept DEF InOrder
<1>2. CASE Inquirer(p) \/ EmailsImport(p)
  BY <1>2, <1>g, OrderKept DEF Inquirer, GetInquiry, CreateEmailRequest, EmailsImport, InOrder
<1>3. CASE GetEmailsByUid(p)
  <2> DEFINE item == [uid |-> Max(web[p].todo), t |-> web[p].t, base |-> 0]
  <2>1. emlq'[p] = Append(emlq[p], item) /\ UNCHANGED <<eaq, imp, res>>
    BY <1>0, <1>3 DEF GetEmailsByUid, Put
  <2>2. item \in Item /\ item.t # "scan"
    <3>1. Max(web[p].todo) \in Mails
      BY <1>3, ByUidTypes DEF GetEmailsByUid
    <3> QED BY <3>1, ImportAssumption DEF Types, ByHand, Item
  <2> HIDE DEF item
  <2>3. /\ Len(emlq[p]) \in Nat /\ emlq'[p][Len(emlq[p]) + 1] = item
        /\ \A i \in DOMAIN emlq[p] : i \in DOMAIN emlq'[p] /\ emlq'[p][i] = emlq[p][i]
        /\ \A i \in DOMAIN emlq'[p] : i \in DOMAIN emlq[p] \/ i = Len(emlq[p]) + 1
    BY <1>0, <2>1, <2>2, PutAtEnd
  <2>4. Held(p)' = Held(p) /\ Flight(p) \subseteq Flight(p)'
    BY <2>1, <2>3 DEF Held, Flight
  <2>5. FetchOrder(p)'
    BY <1>g, <2>1, <2>4 DEF InOrder, FetchOrder, Grows
  <2>6. QueueOrder(p)'
    <3> SUFFICES ASSUME NEW i \in DOMAIN emlq'[p], emlq'[p][i].t = "scan", NEW m \in Ticketed,
                        m < emlq'[p][i].uid
                 PROVE  Done(m)' \/ m \in Held(p)'
                        \/ \E j \in DOMAIN emlq'[p] : j < i /\ emlq'[p][j].uid = m
      BY <1>g DEF QueueOrder, Grows
    <3>1. i \in DOMAIN emlq[p]
      BY <2>2, <2>3
    <3>2. Done(m) \/ m \in Held(p) \/ \E j \in DOMAIN emlq[p] : j < i /\ emlq[p][j].uid = m
      BY <2>3, <3>1 DEF InOrder, QueueOrder
    <3> QED BY <1>g, <2>3, <2>4, <3>2 DEF Grows
  <2> QED BY <1>g, <2>1, <2>5, <2>6, OrderKept DEF InOrder
<1> QED BY <1>1, <1>2, <1>3

LEMMA FailureOrder ==
    ASSUME Types, Here, NEW p \in Procs, InOrder(p), Failure(p) PROVE InOrder(p)'
<1> USE DEF box, db, scan, rest, tail, user, hist
<1>0. /\ imp[p] \in Importing /\ DOMAIN imp = Procs /\ DOMAIN eaq = Procs
      /\ DOMAIN emlq = Procs /\ DOMAIN res = Procs
  BY DEF Types
<1>g. Grows
  BY DoneGrows DEF Act
<1>1. CASE SearchFails(p) \/ ImportFails(p)
  <2>1. imp'[p].pc \in {"idle", "save"} /\ UNCHANGED <<eaq, emlq, res>>
    BY <1>0, <1>1 DEF SearchFails, ImportFails, Idle, Importing
  <2>2. ScanOrder(p)' /\ FetchOrder(p)'
    BY <2>1 DEF ScanOrder, FetchOrder
  <2> QED BY <1>g, <2>1, <2>2, OrderKept DEF InOrder
<1>2. CASE FetchFails(p)
  <2> DEFINE x == Min(imp[p].todo)
  <2>1. /\ imp[p].todo # {} /\ imp'[p] = NextMail(imp[p], FALSE) /\ imp[p].pc = "fetch"
        /\ Lose("failed", {x}) /\ UNCHANGED <<eaq, emlq, res>>
    BY <1>0, <1>2 DEF FetchFails
  <2>2. x \in missed'.failed
    BY <2>1, LoseGrows
  <2>3. imp'[p].pc \in {"save", "fetch"} /\ imp'[p].todo \subseteq imp[p].todo
        /\ (imp'[p].pc = "fetch" => imp'[p].todo = imp[p].todo \ {x})
    <3>1. imp'[p].pc = "fetch" => imp'[p].todo = imp[p].todo \ {x}
      BY <1>0, <2>1 DEF NextMail, Importing
    <3> QED BY <1>0, <2>1, <3>1, NextMailKeeps
  <2> HIDE DEF x
  <2>4. Flight(p)' = Flight(p)
    BY <2>1 DEF Flight, Held
  <2>5. FetchOrder(p)'
    <3> SUFFICES ASSUME imp'[p].pc = "fetch", NEW y \in imp'[p].todo, NEW m \in Ticketed, m < y
                 PROVE  Done(m)' \/ m \in imp'[p].todo \/ m \in Flight(p)'
      BY <1>g DEF FetchOrder, Grows
    <3>1. Done(m) \/ m \in imp[p].todo \/ m \in Flight(p)
      BY <2>1, <2>3 DEF InOrder, FetchOrder
    <3>2. m = x => Done(m)'
      BY <2>2 DEF Done
    <3> QED BY <1>g, <2>3, <2>4, <3>1, <3>2 DEF Grows
  <2>6. ScanOrder(p)'
    BY <2>3 DEF ScanOrder
  <2> QED BY <1>g, <2>1, <2>5, <2>6, OrderKept DEF InOrder
<1>3. CASE RestoreFails(p) \/ RestorerEnds(p)
  <2>1. /\ res'[p].pc \in {"idle", "dead"} /\ Lose("failed", {res[p].item.uid})
        /\ UNCHANGED <<imp, emlq, eaq>>
    BY <1>0, <1>3 DEF RestoreFails, RestorerEnds, Free, Ended
  <2>2. res[p].item.uid \in missed'.failed
    BY <2>1, LoseGrows
  <2>3. Held(p)' = {} /\ \A m \in Held(p) \cap Ticketed : Done(m)'
    BY <2>1, <2>2 DEF Held, Done
  <2> QED BY <1>g, <2>1, <2>3, LetGo DEF InOrder
<1>4. CASE CreateFails(p) \/ ByUidFails(p)
  BY <1>4, <1>g, OrderKept DEF CreateFails, ByUidFails, InOrder
<1>5. CASE Restart(p)
  <2>1. eaq'[p] = <<>> /\ emlq'[p] = <<>> /\ imp'[p].pc = "idle" /\ res'[p].pc = "idle"
    BY <1>0, <1>5 DEF Restart, Idle, Free
  <2> QED BY <2>1 DEF InOrder, EaqOrder, ScanOrder, FetchOrder, QueueOrder, HandOrder
<1> QED BY <1>1, <1>2, <1>3, <1>4, <1>5 DEF Failure

LEMMA OrderStep == Types /\ Here /\ Ordered /\ [Next]_vars => Ordered'
<1> SUFFICES ASSUME Types, Here, Ordered, [Next]_vars PROVE Ordered'
  OBVIOUS
<1>0. Passed /\ \A q \in Procs : InOrder(q)
  BY DEF Ordered
<1>1. ASSUME NEW p \in Procs, Act(p) PROVE Ordered'
  <2>1. Grows
    BY <1>1, DoneGrows
  <2>2. InOrder(p)' /\ Passed'
    <3>1. CASE Restorer(p)
      BY <1>0, <3>1, RestorerOrder
    <3>2. CASE Importer(p)
      BY <1>0, <2>1, <3>2, ImporterOrder, ImporterHere, PassedKept
    <3>3. CASE Send(p) \/ Inquirer(p) \/ EmailsImport(p) \/ GetEmailsByUid(p)
      BY <1>0, <2>1, <3>3, OtherOrder, OtherHere, PassedKept
    <3>4. CASE Failure(p)
      BY <1>0, <2>1, <3>4, FailureOrder, FailureHere, PassedKept
    <3> QED BY <1>1, <3>1, <3>2, <3>3, <3>4 DEF Act
  <2>3. ASSUME NEW q \in Procs, q # p PROVE InOrder(q)'
    BY <1>0, <1>1, <2>1, <2>3, OthersStay, OrderKept DEF Own, InOrder
  <2> QED BY <2>2, <2>3 DEF Ordered
<1>2. CASE Elapse \/ UNCHANGED vars
  <2>1. UNCHANGED <<box, rows, missed, eaq, imp, emlq, res>> /\ ea'.start = ea.start
    BY <1>2 DEF Elapse, vars, db, scan, rest, hist, Types
  <2>2. Grows
    BY <2>1 DEF Grows, Ticketed, Done, box
  <2>3. ASSUME NEW q \in Procs PROVE InOrder(q)'
    BY <1>0, <2>1, <2>2, OrderKept DEF InOrder
  <2> QED BY <1>0, <2>1, <2>2, <2>3, PassedKept DEF Ordered
<1>3. CASE Arrive
  <2>1. /\ inbox \in Nat /\ inbox' = inbox + 1
        /\ UNCHANGED <<kind, ea, rows, missed, eaq, imp, emlq, res>>
    BY <1>3 DEF Arrive, Types, db, scan, rest, hist
  <2>2. Ticketed' \subseteq Ticketed \cup {inbox + 1} /\ \A m : Done(m)' = Done(m)
    BY <2>1 DEF Ticketed, Done
  <2>3. ASSUME NEW x \in Int, x <= inbox + 1, NEW m \in Ticketed', m < x PROVE m \in Ticketed
    BY <2>1, <2>2, <2>3
  <2>4. Passed'
    <3>1. ea.start \in Int /\ ea.start <= inbox + 1
      BY ImportAssumption DEF Types, Uidnexts, Here
    <3> QED BY <1>0, <2>1, <2>3, <3>1 DEF Passed
  <2>5. ASSUME NEW q \in Procs PROVE InOrder(q)'
    <3>1. /\ eaq[q] \in Seq(Object) /\ emlq[q] \in Seq(Item) /\ imp[q] \in Importing
          /\ HereAt(q) /\ InOrder(q)
      BY <1>0 DEF Types, Here
    <3>2. EaqOrder(q)'
      <4> SUFFICES ASSUME NEW i \in DOMAIN eaq[q], NEW m \in Ticketed', m < eaq[q][i].start
                   PROVE  Done(m)
        BY <2>1, <2>2 DEF EaqOrder, Behind
      <4>1. eaq[q][i] \in Object
        BY <3>1
      <4>2. eaq[q][i].start \in Int /\ eaq[q][i].start <= inbox + 1
        BY <3>1, <4>1, ImportAssumption DEF Object, Uidnexts, HereAt, EaqHere
      <4> QED BY <2>3, <3>1, <4>2 DEF InOrder, EaqOrder, Behind
    <3>3. ScanOrder(q)'
      <4>1. imp[q].start \in Int /\ imp[q].start <= inbox + 1
        BY <3>1, ImportAssumption DEF Importing, Starts, HereAt, ImpHere
      <4> QED BY <2>1, <2>2, <2>3, <3>1, <4>1 DEF InOrder, ScanOrder, Behind
    <3>4. FetchOrder(q)'
      <4> SUFFICES ASSUME imp[q].pc = "fetch", NEW x \in imp[q].todo, NEW m \in Ticketed', m < x
                   PROVE  Done(m) \/ m \in imp[q].todo \/ m \in Flight(q)
        BY <2>1, <2>2 DEF FetchOrder, Flight, Held
      <4>1. x \in Int /\ x <= inbox + 1
        <5>1. x \in Mails /\ x <= inbox
          BY <3>1 DEF Importing, HereAt, ImpHere
        <5> QED BY <2>1, <5>1 DEF Mails
      <4> QED BY <2>3, <3>1, <4>1 DEF InOrder, FetchOrder
    <3>5. QueueOrder(q)'
      <4> SUFFICES ASSUME NEW i \in DOMAIN emlq[q], emlq[q][i].t = "scan", NEW m \in Ticketed',
                          m < emlq[q][i].uid
                   PROVE  Done(m) \/ m \in Held(q)
                          \/ \E j \in DOMAIN emlq[q] : j < i /\ emlq[q][j].uid = m
        BY <2>1, <2>2 DEF QueueOrder, Held
      <4>1. emlq[q][i] \in Item
        BY <3>1
      <4>2. emlq[q][i].uid \in Int /\ emlq[q][i].uid <= inbox + 1
        <5>1. emlq[q][i].uid \in Mails /\ emlq[q][i].uid <= inbox
          BY <3>1, <4>1 DEF Item, HereAt, EmlqHere
        <5> QED BY <2>1, <5>1 DEF Mails
      <4> QED BY <2>3, <3>1, <4>2 DEF InOrder, QueueOrder
    <3>6. HandOrder(q)'
      <4> SUFFICES ASSUME res[q].pc \in {"look", "save"}, res[q].item.t = "scan",
                          NEW m \in Ticketed', m < res[q].item.uid
                   PROVE  Done(m)
        BY <2>1, <2>2 DEF HandOrder, Behind
      <4>1. res[q].item.uid \in Int /\ res[q].item.uid <= inbox + 1
        <5>1. res[q].item.uid \in Mails /\ res[q].item.uid <= inbox
          BY <3>1 DEF Item, HereAt, ResHere
        <5> QED BY <2>1, <5>1 DEF Mails
      <4> QED BY <2>3, <3>1, <4>1 DEF InOrder, HandOrder, Behind
    <3> QED BY <3>2, <3>3, <3>4, <3>5, <3>6 DEF InOrder
  <2> QED BY <2>4, <2>5 DEF Ordered
<1> QED BY <1>1, <1>2, <1>3 DEF Next, Act

LEMMA TypesStep == Types /\ Here /\ [Next]_vars => Types'
<1> SUFFICES ASSUME Types, Here, [Next]_vars PROVE Types'
  OBVIOUS
<1>1. CASE UNCHANGED vars
  BY <1>1 DEF vars, box, db, scan, rest, tail, user, hist, Types
<1>2. CASE Next
  BY <1>2, ImporterTypes, RestorerTypes, OtherTypes, FailureTypes DEF Next
<1> QED BY <1>1, <1>2

LEMMA InitInv == Init => Inv
<1> SUFFICES ASSUME Init PROVE Inv
  OBVIOUS
<1>0. /\ MaxMail \in Nat /\ MaxSends \in Nat /\ MaxManual \in Nat /\ MaxOps \in Nat
      /\ QueueSize \in Nat /\ InqSize \in Nat
  BY ImportAssumption
<1>1. Types
  <2>1. ea \in [start : Uidnexts, next : Uidnexts, recent : BOOLEAN]
    <3>1. 1 \in Uidnexts
      BY <1>0 DEF Uidnexts
    <3> QED BY <3>1 DEF Init
  <2>2. <<>> \in Seq(Object) /\ <<>> \in Seq(Item) /\ <<>> \in Seq(Mails)
    BY EmptySeq
  <2>3. eaq \in [Procs -> Seq(Object)] /\ emlq \in [Procs -> Seq(Item)] /\ inqq \in [Procs -> Seq(Mails)]
    BY <2>2 DEF Init
  <2>4. Idle \in Importing /\ Free \in Restoring /\ NoWeb \in ByHand
    BY <1>0 DEF Idle, Importing, Starts, Free, Restoring, NoWeb, ByHand
  <2>5. imp \in [Procs -> Importing] /\ res \in [Procs -> Restoring] /\ web \in [Procs -> ByHand]
    BY <2>4 DEF Init
  <2>6. seen \in [Procs -> Uidnexts] /\ cei \in [Procs -> 0..MaxMail]
    BY <1>0 DEF Init, Uidnexts
  <2>7. missed \in [failed : SUBSET Mails, cut : SUBSET Mails, jumped : SUBSET Mails]
    BY DEF Init
  <2>8. rows \in [Mails -> Nat] /\ inqs \in [Mails -> Nat] /\ reqs \in [Mails -> Nat]
    BY DEF Init
  <2> QED BY <1>0, <2>1, <2>3, <2>5, <2>6, <2>7, <2>8 DEF Init, Types
<1>2. /\ ea.start = 1 /\ inbox = 0
      /\ \A p \in Procs : /\ eaq[p] = <<>> /\ emlq[p] = <<>> /\ inqq[p] = <<>>
                          /\ imp[p] = Idle /\ res[p] = Free /\ web[p] = NoWeb
  BY DEF Init
<1>3. Here
  BY <1>0, <1>2 DEF Here, HereAt, EaqHere, EmlqHere, InqqHere, ImpHere, ResHere, WebHere, Idle,
                    Free, NoWeb
<1>4. Races
  BY <1>2 DEF Init, Races, OneRow, Saving, Free
<1>5. Ordered
  <2>1. Ticketed = {}
    BY <1>2 DEF Ticketed
  <2> QED BY <2>1 DEF Ordered, Passed, InOrder, EaqOrder, ScanOrder, FetchOrder, QueueOrder,
                      HandOrder, Behind
<1> QED BY <1>1, <1>3, <1>4, <1>5 DEF Inv

(* The strengthened invariant of the import holds. *)
THEOREM InvHolds == Spec => []Inv
<1>1. Inv /\ [Next]_vars => Inv'
  BY TypesStep, HereStep, RacesStep, OrderStep DEF Inv
<1> QED BY InitInv, <1>1, PTL DEF Spec

(* The tables of mails, inquiries and requests are sound: values stay of   *)
(* the right kind, the queues within their sizes, and a mail is in the     *)
(* database twice only if two processes have looked for it at the same     *)
(* time (eml_already_exists and crm_eml_save are two transactions).        *)
THEOREM RowsAreSound == Spec => []RowsSound
<1>1. Inv => RowsSound
  <2> SUFFICES ASSUME Inv PROVE TypeOK /\ OneRow
    BY DEF RowsSound
  <2>0. Types /\ Here /\ OneRow
    BY DEF Inv, Races
  <2>1. kind \in Mailboxes /\ inbox \in 0..MaxMail
        /\ ea \in [start : 1..(MaxMail + 1), next : 1..(MaxMail + 1), recent : BOOLEAN]
        /\ \A f \in {rows, inqs, reqs} : f \in [Mails -> Nat]
    BY <2>0 DEF Types, Uidnexts
  <2>2. ASSUME NEW p \in Procs
        PROVE  /\ Len(eaq[p]) <= 1 /\ Len(emlq[p]) <= QueueSize /\ Len(inqq[p]) <= InqSize
               /\ \A i \in DOMAIN emlq[p] : emlq[p][i] \in Item
               /\ imp[p].pc \in {"idle", "check", "mark", "status", "search", "fetch", "save"}
               /\ res[p].pc \in {"idle", "look", "save", "inquiry", "dead"}
               /\ res[p].item \in Item \cup {NoItem}
               /\ seen[p] \in 1..(MaxMail + 1) /\ cei[p] \in 0..MaxMail
    <3>1. /\ emlq[p] \in Seq(Item) /\ imp[p] \in Importing /\ res[p] \in Restoring
          /\ seen[p] \in Uidnexts /\ cei[p] \in 0..MaxMail /\ HereAt(p)
      BY <2>0 DEF Types, Here
    <3>2. \A i \in DOMAIN emlq[p] : emlq[p][i] \in Item
      BY <3>1
    <3>3. imp[p].pc \in {"idle", "check", "mark", "status", "search", "fetch", "save"}
      BY <3>1 DEF Importing
    <3>4. /\ res[p].pc \in {"idle", "look", "save", "inquiry", "dead"}
          /\ res[p].item \in Item \cup {NoItem}
      BY <3>1 DEF Restoring
    <3> QED BY <3>1, <3>2, <3>3, <3>4 DEF HereAt, EaqHere, EmlqHere, InqqHere, Uidnexts
  <2>3. \A how \in DOMAIN missed : Uids(missed[how])
    <3>1. missed \in [failed : SUBSET Mails, cut : SUBSET Mails, jumped : SUBSET Mails]
      BY <2>0 DEF Types
    <3>2. /\ DOMAIN missed = {"failed", "cut", "jumped"}
          /\ missed.failed \subseteq Mails /\ missed.cut \subseteq Mails /\ missed.jumped \subseteq Mails
      BY <3>1
    <3> QED BY <3>2 DEF Uids
  <2>4. Uids(raced) /\ manual \in 0..MaxManual /\ sends \in 0..MaxSends /\ ops \in 0..MaxOps
    BY <2>0 DEF Types, Uids
  <2> QED BY <2>0, <2>1, <2>2, <2>3, <2>4 DEF TypeOK
<1> QED BY <1>1, InvHolds, PTL

(* start_incoming_uid never passes a mail with a ticket that is not in the *)
(* database, unless it failed or an import by hand has jumped over it:     *)
(* update_ea may write the start of any process, because what each reads   *)
(* ahead comes in the order of the box.                                    *)
THEOREM StartHasPassed == Spec => []Passed
BY InvHolds, PTL DEF Inv, Ordered
-----------------------------------------------------------------------------
(* The shared connection is with one thread at a time, and implements the  *)
(* abstract Lock, for any number of clients, objects and failures.         *)
Awaiting == {"lock", "set", "again"}

\* As long as there was no accident: who uses an object uses the stored one,
\* which he has locked, and uses it alone.
UsersLock == \A t \in Threads :
    pc[t] \in Working => obj[t] = stored /\ locked[stored]
OneUser == \A t, u \in Threads : pc[t] \in Working /\ pc[u] \in Working => t = u

\* The keeper has locked the stored object before he refers to it.
KeeperLocks == pc[Keeper] = "serve" =>
    /\ stored # None /\ locked[stored] /\ stored \notin left
    /\ \A t \in Threads : pc[t] \notin Working

\* An object that is no longer stored stays locked: whoever still waits for it
\* does not get it.
OldLocked == \A t \in Threads :
    pc[t] \in Awaiting /\ obj[t] # stored => locked[obj[t]]

\* A new object is known to the thread that makes it only.
NewAlone == \A t \in Threads : pc[t] = "put" =>
    /\ locked[obj[t]] /\ obj[t] # stored /\ obj[t] \notin closed \cup left
    /\ \A u \in Threads \ {t} : obj[u] # obj[t]

Sound == /\ UsersLock /\ OneUser /\ KeeperLocks /\ OldLocked /\ NewAlone
         /\ stored \notin closed
         /\ LockedByOne

ImapInv == ImapTypeOK /\ (~shared => Sound)

LEMMA ImapInitInv == ASSUME ImapInit PROVE ImapInv
BY ImapAssumption DEF ImapInit, ImapInv, ImapTypeOK, Sound, UsersLock, OneUser, KeeperLocks, OldLocked,
    NewAlone, LockedByOne, Working, Awaiting, Threads

LEMMA TypeStep == ASSUME ImapTypeOK, [ImapNext]_imapVars PROVE ImapTypeOK'
<1> USE ImapAssumption DEF ImapTypeOK, Working, Goto, Refer, Lock, Fails, Raise, Leave
<1> Keeper \in Threads
  BY DEF Threads
<1>1. ASSUME NEW t \in Threads, Get(t) PROVE ImapTypeOK'
  BY <1>1 DEF Get
<1>2. ASSUME NEW t \in Threads, LockWait(t) PROVE ImapTypeOK'
  BY <1>2 DEF LockWait
<1>3. ASSUME NEW t \in Threads, LockSet(t) PROVE ImapTypeOK'
  BY <1>3 DEF LockSet
<1>4. ASSUME NEW t \in Threads, Noop(t) PROVE ImapTypeOK'
  BY <1>4 DEF Noop
<1>5. ASSUME NEW t \in Threads, Drop(t) PROVE ImapTypeOK'
  BY <1>5 DEF Drop
<1>6. ASSUME NEW t \in Threads, Make(t) PROVE ImapTypeOK'
  <2>1. CASE stored = None
    <3> DEFINE o == CHOOSE x \in Fresh : TRUE
    <3>1. o \in Objects
      BY <1>6, <2>1 DEF Make, Fresh
    <3>2. /\ obj' = [obj EXCEPT ![t] = o] /\ locked' = [locked EXCEPT ![o] = TRUE]
          /\ error' = error \ {o} /\ closed' = closed \ {o} /\ pc' = [pc EXCEPT ![t] = "put"]
          /\ left' = left \ {o} /\ UNCHANGED <<stored, failures, shared>>
      BY <1>6, <2>1 DEF Make
    <3> HIDE DEF o
    <3> QED BY <3>1, <3>2
  <2> QED BY <1>6, <2>1 DEF Make
<1>7. ASSUME NEW t \in Threads, Store(t) PROVE ImapTypeOK'
  BY <1>7 DEF Store
<1>8. ASSUME NEW t \in Threads, Adopt(t) PROVE ImapTypeOK'
  BY <1>8 DEF Adopt
<1>9. ASSUME NEW t \in Threads, Login(t) PROVE ImapTypeOK'
  BY <1>9 DEF Login
<1>10. ASSUME NEW t \in Threads, Release(t) PROVE ImapTypeOK'
  BY <1>10 DEF Release
<1>11. ASSUME NEW t \in Threads, ReleaseAgain(t) PROVE ImapTypeOK'
  BY <1>11 DEF ReleaseAgain
<1>12. ASSUME NEW t \in Threads, NoopFails(t) PROVE ImapTypeOK'
  BY <1>12 DEF NoopFails
<1>13. ASSUME NEW t \in Threads, CommandFails(t) PROVE ImapTypeOK'
  BY <1>13 DEF CommandFails
<1>14. ASSUME NEW t \in Threads, LockfileTimeout(t) PROVE ImapTypeOK'
  BY <1>14 DEF LockfileTimeout
<1>15. ASSUME NEW t \in Threads, Abandon(t) \/ EmptyPage(t) PROVE ImapTypeOK'
  BY <1>15 DEF Abandon, EmptyPage
<1>16. CASE ListKeys
  BY <1>16 DEF ListKeys
<1>17. CASE Look
  BY <1>17 DEF Look
<1>18. CASE Mark
  BY <1>18 DEF Mark
<1>19. CASE Serve
  BY <1>19 DEF Serve
<1>20. CASE UNCHANGED imapVars
  BY <1>20 DEF imapVars
<1> QED
  BY <1>1, <1>2, <1>3, <1>4, <1>5, <1>6, <1>7, <1>8, <1>9, <1>10, <1>11, <1>12, <1>13, <1>14,
     <1>15, <1>16, <1>17, <1>18, <1>19, <1>20
     DEF ImapNext, Step, Connect, ImapFailure, KeepInTouch

\* A step after which there was no accident comes from a state without one.
LEMMA NoAccident == ASSUME ImapTypeOK, [ImapNext]_imapVars, ~shared' PROVE ~shared
BY DEF ImapNext, Step, Connect, ImapFailure, KeepInTouch, imapVars, ImapTypeOK, Get, LockWait, LockSet,
    Noop, Drop, Make, Store, Adopt, Login, Release, ReleaseAgain, NoopFails, CommandFails,
    LockfileTimeout, Abandon, EmptyPage, ListKeys, Look, Mark, Serve

LEMMA SoundStep == ASSUME ImapTypeOK, ImapTypeOK', Sound, [ImapNext]_imapVars, ~shared, ~shared' PROVE Sound'
<1> USE ImapAssumption DEF Sound, UsersLock, OneUser, KeeperLocks, OldLocked, NewAlone,
       LockedByOne, At, ImapTypeOK, Working, Awaiting, Goto, Refer, Lock, Threads
<1>1. ASSUME NEW t \in Threads, Get(t) PROVE Sound'
  BY <1>1 DEF Get
<1>2. ASSUME NEW t \in Threads, LockWait(t) PROVE Sound'
  BY <1>2 DEF LockWait, Raise
<1>3. ASSUME NEW t \in Threads, LockSet(t) PROVE Sound'
  BY <1>3 DEF LockSet
<1>4. ASSUME NEW t \in Threads, Noop(t) PROVE Sound'
  BY <1>4 DEF Noop
<1>5. ASSUME NEW t \in Threads, Drop(t) PROVE Sound'
  BY <1>5 DEF Drop, Raise
<1>6. ASSUME NEW t \in Threads, Make(t) PROVE Sound'
  <2>1. CASE stored = None
    <3> DEFINE o == CHOOSE x \in Fresh : TRUE
    <3>1. o \in Objects /\ o # stored /\ \A u \in Threads : obj[u] # o
      BY <1>6, <2>1 DEF Make, Fresh
    <3>2. /\ obj' = [obj EXCEPT ![t] = o] /\ locked' = [locked EXCEPT ![o] = TRUE]
          /\ error' = error \ {o} /\ closed' = closed \ {o} /\ pc' = [pc EXCEPT ![t] = "put"]
          /\ pc[t] = "make" /\ left' = left \ {o} /\ UNCHANGED <<stored, failures, shared>>
      BY <1>6, <2>1 DEF Make
    <3> HIDE DEF o
    <3> QED BY <2>1, <3>1, <3>2
  <2> QED BY <1>6, <2>1 DEF Make
<1>7. ASSUME NEW t \in Threads, Store(t) PROVE Sound'
  BY <1>7 DEF Store
<1>8. ASSUME NEW t \in Threads, Adopt(t) PROVE Sound'
  BY <1>8 DEF Adopt
<1>9. ASSUME NEW t \in Threads, Login(t) PROVE Sound'
  BY <1>9 DEF Login
<1>10. ASSUME NEW t \in Threads, Release(t) PROVE Sound'
  BY <1>10 DEF Release
<1>11. ASSUME NEW t \in Threads, ReleaseAgain(t) PROVE Sound'
  BY <1>11 DEF ReleaseAgain
<1>12. ASSUME NEW t \in Threads, NoopFails(t) PROVE Sound'
  BY <1>12 DEF NoopFails
<1>13. ASSUME NEW t \in Threads, CommandFails(t) PROVE Sound'
  BY <1>13 DEF CommandFails
<1>14. ASSUME NEW t \in Threads, LockfileTimeout(t) PROVE Sound'
  BY <1>14 DEF LockfileTimeout, Leave, Raise
<1>15. ASSUME NEW t \in Threads, Abandon(t) \/ EmptyPage(t) PROVE Sound'
  BY <1>15 DEF Abandon, EmptyPage, Leave, Raise
<1>16. CASE ListKeys
  BY <1>16 DEF ListKeys
<1>17. CASE Look
  BY <1>17 DEF Look
<1>18. CASE Mark
  BY <1>18 DEF Mark
<1>19. CASE Serve
  BY <1>19 DEF Serve
<1>20. CASE UNCHANGED imapVars
  BY <1>20 DEF imapVars
<1> QED
  BY <1>1, <1>2, <1>3, <1>4, <1>5, <1>6, <1>7, <1>8, <1>9, <1>10, <1>11, <1>12, <1>13, <1>14,
     <1>15, <1>16, <1>17, <1>18, <1>19, <1>20
     DEF ImapNext, Step, Connect, ImapFailure, KeepInTouch

LEMMA ImapInvStep == ASSUME ImapInv, [ImapNext]_imapVars PROVE ImapInv'
<1>1. ImapTypeOK'
  BY TypeStep DEF ImapInv
<1>2. ASSUME ~shared' PROVE Sound'
  <2>1. ~shared
    BY <1>2, NoAccident DEF ImapInv
  <2> QED BY <1>1, <1>2, <2>1, SoundStep DEF ImapInv
<1> QED BY <1>1, <1>2 DEF ImapInv

LEMMA SoundIsExclusive == ASSUME ImapInv PROVE Exclusive
<1>1. ASSUME ~shared, NEW o \in Objects PROVE Cardinality(At(o)) <= 1
  <2>1. \A t, u \in At(o) : t = u
    BY <1>1 DEF ImapInv, Sound, OneUser, At
  <2>2. CASE At(o) = {}
    BY <2>2, FS_EmptySet
  <2>3. CASE At(o) # {}
    <3>1. PICK t \in At(o) : TRUE
      BY <2>3
    <3>2. At(o) = {t}
      BY <2>1, <3>1
    <3>3. Cardinality({t}) = 1
      BY FS_Singleton, Zenon
    <3> QED BY <3>2, <3>3
  <2> QED BY <2>2, <2>3
<1>2. ~shared => \A t \in Threads : pc[t] \in {"check", "use"} => obj[t] \notin closed
  BY DEF ImapInv, Sound, UsersLock, Working
<1> QED BY <1>1, <1>2 DEF ImapInv, Sound, Exclusive, ExclusiveUse, OpenInUse, LockedByOne

(* As long as no test was out of date: one thread at a time talks over a    *)
(* connection, over one that nobody has closed, and a locked connection is  *)
(* locked by a thread that has it still, or by one that went without        *)
(* release() after an error, a lock-file timeout or an empty inbox; nobody  *)
(* uses that one any more (crm_imap.py, manage_imaps.py, import_emails.py). *)
THEOREM OneAtATime == ImapSpec => []Exclusive
<1>1. ImapSpec => []ImapInv
  BY ImapInitInv, ImapInvStep, PTL DEF ImapSpec
<1>2. ImapInv => Exclusive
  BY SoundIsExclusive
<1> QED BY <1>1, <1>2, PTL

-----------------------------------------------------------------------------
(* The refinement: who has the connection, thread by thread.               *)

\* The owner is the user of the stored object, or the keeper that has marked
\* it, or lost, or nobody.
LEMMA OwnerIs ==
    ASSUME ImapTypeOK, Sound
    PROVE  /\ \A t \in Threads : pc[t] \in Working => Owner = t
           /\ pc[Keeper] = "serve" => Owner = Keeper
           /\ (\A t \in Threads : pc[t] \notin Working) /\ pc[Keeper] # "serve" =>
                Owner = IF stored # None /\ locked[stored] THEN "lost" ELSE None
<1>1. ASSUME NEW t \in Threads, pc[t] \in Working PROVE Owner = t
  <2>1. At(stored) = {t} /\ stored # None
    BY <1>1, ImapAssumption DEF ImapTypeOK, Sound, UsersLock, OneUser, At
  <2> QED BY <2>1 DEF Owner
<1>2. ASSUME \A t \in Threads : pc[t] \notin Working PROVE At(stored) = {}
  BY <1>2 DEF At
<1>3. pc[Keeper] = "serve" => \A t \in Threads : pc[t] \notin Working
  BY DEF Sound, KeeperLocks
<1> QED BY <1>1, <1>2, <1>3 DEF Owner

\* Steps that neither take the connection nor give it back.
LEMMA SameOwner ==
    ASSUME ImapTypeOK, ImapTypeOK', Sound, Sound',
           \A t \in Threads : pc'[t] \in Working <=> pc[t] \in Working,
           pc'[Keeper] = "serve" <=> pc[Keeper] = "serve",
           UNCHANGED stored, stored # None => UNCHANGED locked[stored]
    PROVE  Owner' = Owner
<1>1. CASE \E t \in Threads : pc[t] \in Working
  <2>1. PICK t \in Threads : pc[t] \in Working
    BY <1>1
  <2>2. Owner = t
    BY <2>1, OwnerIs
  <2>3. At(stored)' = {t} /\ stored' # None
    BY <2>1, ImapAssumption DEF ImapTypeOK, Sound, UsersLock, OneUser, At
  <2> QED BY <2>2, <2>3 DEF Owner
<1>2. CASE \A t \in Threads : pc[t] \notin Working
  <2>1. At(stored) = {} /\ At(stored)' = {}
    BY <1>2 DEF At
  <2> QED BY <2>1 DEF Owner
<1> QED BY <1>1, <1>2

\* Who starts to use a connection that was nobody's borrows it.
LEMMA BorrowStep ==
    ASSUME ImapTypeOK, ImapTypeOK', Sound, Sound', NEW t \in Threads,
           pc'[t] \in Working \/ (t = Keeper /\ pc'[t] = "serve"),
           stored = None \/ ~locked[stored]
    PROVE  Owner = None /\ Owner' = t
<1>1. (\A u \in Threads : pc[u] \notin Working) /\ pc[Keeper] # "serve"
  BY ImapAssumption DEF Sound, UsersLock, KeeperLocks, ImapTypeOK
<1>2. Owner = None
  BY <1>1, OwnerIs
<1>3. CASE pc'[t] \in Working
  <2>1. At(stored)' = {t} /\ stored' # None
    BY <1>3, ImapAssumption DEF ImapTypeOK, Sound, UsersLock, OneUser, At
  <2> QED BY <1>2, <2>1 DEF Owner
<1>4. CASE t = Keeper /\ pc'[t] = "serve"
  <2>1. At(stored)' = {}
    BY <1>4 DEF Sound, KeeperLocks, At
  <2> QED BY <1>2, <1>4, <2>1 DEF Owner
<1> QED BY <1>3, <1>4

\* A user who leaves has given the connection back, if it is not locked any
\* more, or not stored; otherwise it is lost.
LEMMA LeaveStep ==
    ASSUME ImapTypeOK, ImapTypeOK', Sound, Sound', NEW t \in Threads, pc[t] \in Working,
           \A u \in Threads \ {t} : pc'[u] = pc[u],
           pc'[t] \notin Working \cup {"serve"}
    PROVE  Owner = t /\ Owner' = IF stored' # None /\ locked'[stored'] THEN "lost" ELSE None
<1>1. Owner = t
  BY OwnerIs
<1>2. \A u \in Threads : pc'[u] \notin Working
  BY DEF Sound, OneUser
<1>3. pc'[Keeper] # "serve"
  BY DEF Sound, KeeperLocks, Threads
<1>4. At(stored)' = {}
  BY <1>2 DEF At
<1> QED BY <1>1, <1>3, <1>4 DEF Owner

LEMMA StepImplementsLock ==
    ASSUME ImapInv, ImapInv', [ImapNext]_imapVars
    PROVE  [L!Next]_<<Owner, shared>>
<1> SUFFICES ASSUME ~shared' PROVE [L!Next]_<<Owner, shared>>
  BY DEF L!Next
<1>0. ~shared /\ ImapTypeOK /\ ImapTypeOK' /\ Sound /\ Sound'
  BY NoAccident DEF ImapInv
<1>s. shared' = shared
  BY <1>0 DEF ImapTypeOK
<1> USE <1>0, ImapAssumption DEF Goto, Refer, Lock, Working, ImapTypeOK, Threads
<1>1. ASSUME NEW t \in Threads, LockSet(t) PROVE L!Borrow(t)
  <2>1. ~locked[obj[t]] /\ pc[t] = "set" /\ pc'[t] = "check"
    BY <1>1 DEF LockSet
  <2>2. obj[t] = stored
    BY <2>1 DEF Sound, OldLocked, Awaiting
  <2> QED BY <2>1, <2>2, BorrowStep DEF L!Borrow
<1>2. ASSUME NEW t \in Threads, Store(t) PROVE L!Borrow(t)
  <2>1. stored = None /\ pc'[t] = "login"
    BY <1>2 DEF Store
  <2> QED BY <2>1, BorrowStep DEF L!Borrow
<1>3. ASSUME Mark PROVE L!Borrow(Keeper) \/ UNCHANGED Owner
  <2>1. CASE stored = None
    <3>1. pc'[Keeper] = "dead" /\ UNCHANGED stored /\ pc[Keeper] = "mark"
          /\ \A u \in Clients : pc'[u] = pc[u]
      BY <1>3, <2>1 DEF Mark
    <3> QED BY <2>1, <3>1, SameOwner
  <2>2. CASE stored # None
    <3>1. ~locked[stored] /\ pc'[Keeper] = "serve"
      BY <1>3, <2>2 DEF Mark
    <3> QED BY <3>1, BorrowStep DEF L!Borrow
  <2> QED BY <2>1, <2>2
<1>4. ASSUME NEW t \in Threads, Release(t) PROVE L!Return(t)
  <2>1. /\ pc[t] = "use" /\ pc'[t] \in {"idle", "again"} /\ obj[t] = stored
        /\ stored' = stored /\ ~locked'[stored]
        /\ \A u \in Threads \ {t} : pc'[u] = pc[u]
    BY <1>4 DEF Release, Sound, UsersLock
  <2> QED BY <2>1, LeaveStep DEF L!Return
<1>5. ASSUME NEW t \in Threads, Drop(t) PROVE L!Return(t)
  <2>1. /\ pc[t] = "drop" /\ pc'[t] = "make" /\ stored' = None
        /\ \A u \in Threads \ {t} : pc'[u] = pc[u]
    BY <1>5 DEF Drop, Sound, UsersLock
  <2> QED BY <2>1, LeaveStep DEF L!Return
<1>6. ASSUME NEW t \in Threads, LockfileTimeout(t) \/ Abandon(t) \/ EmptyPage(t) PROVE L!Lose(t)
  <2>1. /\ pc[t] \in Working /\ pc'[t] = "idle" /\ stored' = stored /\ locked' = locked
        /\ \A u \in Threads \ {t} : pc'[u] = pc[u]
    BY <1>6 DEF LockfileTimeout, Abandon, EmptyPage, Leave, Raise
  <2>2. stored # None /\ locked[stored]
    BY <2>1 DEF Sound, UsersLock
  <2> QED BY <2>1, <2>2, LeaveStep DEF L!Lose
<1>7. ASSUME Serve PROVE UNCHANGED Owner
  <2>1. pc[Keeper] = "serve" /\ stored # None /\ pc'[Keeper] \in Working
    BY <1>7 DEF Serve, Sound, KeeperLocks
  <2>2. Owner = Keeper
    BY <2>1, OwnerIs
  <2>3. At(stored)' = {Keeper} /\ stored' # None
    BY <1>7, <2>1 DEF Serve, Sound, UsersLock, OneUser, At
  <2> QED BY <2>2, <2>3 DEF Owner
<1>8. ASSUME NEW t \in Threads, Get(t) \/ LockWait(t) \/ Noop(t) \/ Login(t) \/ ReleaseAgain(t)
                               \/ NoopFails(t) \/ CommandFails(t)
      PROVE  UNCHANGED Owner
  <2>1. /\ \A u \in Threads : pc'[u] \in Working <=> pc[u] \in Working
        /\ pc'[Keeper] = "serve" <=> pc[Keeper] = "serve"
        /\ UNCHANGED stored
    BY <1>8 DEF Get, LockWait, Raise, Noop, Login, ReleaseAgain, NoopFails, CommandFails
  <2>2. UNCHANGED locked
    BY <1>8 DEF Get, LockWait, Raise, Noop, Login, ReleaseAgain, NoopFails, CommandFails
  <2> QED BY <2>1, <2>2, SameOwner
<1>9. ASSUME NEW t \in Threads, Make(t) PROVE UNCHANGED Owner
  <2>1. /\ \A u \in Threads : pc'[u] \in Working <=> pc[u] \in Working
        /\ pc'[Keeper] = "serve" <=> pc[Keeper] = "serve"
        /\ UNCHANGED stored
        /\ stored # None => UNCHANGED locked
    BY <1>9 DEF Make
  <2> QED BY <2>1, SameOwner
<1>10. ASSUME ListKeys \/ Look PROVE UNCHANGED Owner
  <2>1. /\ \A u \in Threads : pc'[u] \in Working <=> pc[u] \in Working
        /\ pc'[Keeper] = "serve" <=> pc[Keeper] = "serve"
        /\ UNCHANGED <<stored, locked>>
    BY <1>10 DEF ListKeys, Look
  <2> QED BY <2>1, SameOwner
<1>11. ASSUME NEW t \in Threads PROVE ~Adopt(t)
  BY DEF Adopt
<1>12. ASSUME UNCHANGED imapVars PROVE UNCHANGED Owner
  BY <1>12, SameOwner DEF imapVars
<1> QED
  BY <1>s, <1>1, <1>2, <1>3, <1>4, <1>5, <1>6, <1>7, <1>8, <1>9, <1>10, <1>11, <1>12
     DEF L!Next, ImapNext, Step, Connect, ImapFailure, KeepInTouch

LEMMA InitImplementsLock == ASSUME ImapInit PROVE L!Init
BY DEF ImapInit, L!Init, Owner, Threads

(* The objects, flags and the dictionary implement the lock of one           *)
(* connection: taken when it is nobody's, given back by who has it, lost     *)
(* when he gives up; nothing is promised after a test that was out of date   *)
(* (crm/utils/manage_imaps.py:52-134).                                       *)
THEOREM ConnectionIsLock == ImapSpec => Locking
<1>1. ImapSpec => []ImapInv
  BY ImapInitInv, ImapInvStep, PTL DEF ImapSpec
<1> QED
  BY <1>1, InitImplementsLock, StepImplementsLock, PTL DEF ImapSpec, Locking, L!Spec
==============================================================================
