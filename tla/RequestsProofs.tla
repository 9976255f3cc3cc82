--------------------------- MODULE RequestsProofs ---------------------------
(* Theorems about requests, and about payments and their rates, for any    *)
(* users, ids, currencies, rates of the bank and bounds.                   *)
EXTENDS Requests, Payments, FiniteSetTheorems, WellFoundedInduction, TLAPS

(* What the variables hold.  Keys that were read may be of rows that are gone. *)
Key == Ids \cup {Nobody}
ReqRow == [lead : Key, contact : Key, company : Firms,
           deal : BOOLEAN, pending : BOOLEAN, duplicate : BOOLEAN]
EndRow == [lead : Key, contact : Key]
DealRow == [lead : Key, contact : Key, partner : Key]
MailRow == [lead : Key, contact : Key, deal : BOOLEAN, late : BOOLEAN]
Arriving == [pc : {"new", "found", "saved", "done", "lost"}, row : ReqRow]
Replying == [pc : {"new", "read", "done", "lost"}, deal : BOOLEAN, ends : EndRow]
Page == [r : Reqs, row : ReqRow]
Posting == [kind : {"post"}, r : Reqs, row : ReqRow, new : {"no", "lead", "contact"},
            create : BOOLEAN, changed : SUBSET Kinds, old : ReqRow, outdated : BOOLEAN,
            alone : BOOLEAN, emptied : BOOLEAN]
Converting == [kind : {"convert"}, lead : Ids, company : Companies, contact : Key,
               alone : BOOLEAN]
Steps == 1..5
Merging == [kind : Kinds, dup : Ids, orig : Ids, step : Steps, company : Firms]

RowTypes ==
    /\ \A r \in DOMAIN request : request[r] \in ReqRow
    /\ \A r \in DOMAIN deal : deal[r] \in DealRow
    /\ \A m \in DOMAIN mail : mail[m] \in MailRow
HandTypes ==
    /\ arr \in [Reqs -> Arriving] /\ rep \in [Reqs -> Replying]
    /\ page \in [Users -> Page \cup {NoPage}]
    /\ tx \in [Users -> Posting \cup Converting \cup {NoTx}]
    /\ merge \in Merging \cup {NoMerge}

(* Ids are given out once, and stay what they are of. *)
Given == 1..(next - 1)
IdsOnce ==
    /\ next \in 3..(MaxId + 1)
    /\ Clients \subseteq Given
    /\ merge # NoMerge => /\ {merge.dup, merge.orig} \subseteq Given /\ merge.dup # merge.orig
                          /\ merge.kind = "lead" => {merge.dup, merge.orig} \cap DOMAIN contact = {}
                          /\ merge.kind = "contact" => /\ {merge.dup, merge.orig} \subseteq DOMAIN contact
                                                       /\ merge.company \in Companies
                          /\ merge.kind = "contact" => {merge.dup, merge.orig} \cap lead = {}

(* An inquiry is saved before anybody else writes its request. *)
Arrived(r) == arr[r].pc \notin {"new", "found"}
InquiryFirst ==
    /\ \A r \in DOMAIN request : Arrived(r)
    /\ \A u \in Users : page[u] # NoPage => Arrived(page[u].r)
    /\ \A u \in Users : tx[u].kind = "post" => Arrived(tx[u].r)
    /\ \A r \in Reqs : arr[r].row.pending /\ ~arr[r].row.deal

(* What LoadPost has made of the form. *)
PostRight(t) ==
    /\ t.row.lead = Nobody \/ t.row.contact = Nobody
    /\ t.row.deal = t.old.deal
    /\ t.new # "no" => t.alone /\ ~HasClient(t.row)
    /\ ~t.row.pending /\ t.new = "no" => HasClient(t.row) \/ t.row.company # NoCompany
    /\ t.new = "contact" => t.row.company # NoCompany
    /\ ~t.emptied => HasClient(t.row) /\ t.new = "no"
    /\ ~t.outdated => /\ t.row.pending => t.old.pending
                      /\ ~t.emptied => \A k \in Kinds : k \notin t.changed => t.row[k] = t.old[k]
PostsRight == \A u \in Users : tx[u].kind = "post" => PostRight(tx[u])

(* A lead that is being converted is there, for one only; the contact the   *)
(* person is is the only one, as long as nobody was made of an old search.  *)
ConvertRight(t) ==
    /\ t.lead \in lead
    /\ t.alone <=> t.contact = Nobody
    /\ ~raced /\ t.contact # Nobody => DOMAIN contact = {t.contact}
ConvertsRight ==
    /\ \A u \in Users : tx[u].kind = "convert" => ConvertRight(tx[u])
    /\ \A u, v \in Users : tx[u].kind = "convert" /\ tx[v].kind = "convert" /\ tx[u].lead = tx[v].lead
                           => u = v

(* The table a step of a merge has related names the duplicate only in rows *)
(* that were saved with it meanwhile.                                       *)
After(table) == \E i \in DOMAIN Tables(merge.kind) : Tables(merge.kind)[i] = table /\ i < merge.step
Moved ==
    merge # NoMerge =>
        LET k == merge.kind IN
        /\ After("request") => \A r \in DOMAIN request \ late : request[r][k] # merge.dup
        /\ After("deal") => \A r \in DOMAIN deal \ late : deal[r][k] # merge.dup
        /\ After("mail") => \A m \in DOMAIN mail : m[1] \notin late => mail[m][k] # merge.dup
        /\ ~There(k, merge.orig) /\ merge.step <= Len(Tables(k)) + 1 =>
               /\ \A r \in DOMAIN request \ late : request[r][k] \notin {merge.dup, merge.orig}
               /\ \A r \in DOMAIN deal \ late : deal[r][k] \notin {merge.dup, merge.orig}

(* The lead of a deal is that of its request, unless the request got a      *)
(* contact.                                                                 *)
LeadFollows == \A r \in DOMAIN deal \ (stale \cup late \cup kept) :
    deal[r].lead # Nobody =>
        \/ deal[r].lead = request[r].lead
        \/ merge.kind = "lead" /\ {deal[r].lead, request[r].lead} = {merge.dup, merge.orig}

Inv ==
    /\ RowTypes /\ HandTypes
    /\ TypeOK /\ IdsOnce
    /\ InquiryFirst /\ PostsRight /\ ConvertsRight
    /\ Moved /\ LeadFollows
    /\ SameClient /\ DealShown /\ MailsFollow /\ Served

-----------------------------------------------------------------------------
(* Minima. *)
LEMMA HasLeast ==
    ASSUME NEW S \in SUBSET Nat, S # {}
    PROVE  \E x \in S : \A y \in S : x <= y
<1> DEFINE R == OpToRel(<, Nat)
<1>1. \E x \in S : \A y \in S : <<y, x>> \notin R
  BY NatLessThanWellFounded, WFMin
<1> HIDE DEF R
<1>2. \A x, y \in S : <<y, x>> \notin R => x <= y
  <2> SUFFICES ASSUME NEW x \in S, NEW y \in S, y < x PROVE <<y, x>> \in R
    OBVIOUS
  <2> QED BY DEF R, OpToRel
<1> QED BY <1>1, <1>2

LEMMA MinIsIn ==
    ASSUME NEW S \in SUBSET Ids, S # {}
    PROVE  Min(S) \in S
<1>1. S \in SUBSET Nat
  BY RequestsAssumption DEF Ids
<1> QED BY <1>1, HasLeast DEF Min

LEMMA NobodyIsNoId == Nobody \notin Ids /\ NoMerge \notin Merging /\ NoTx \notin Posting \cup Converting
                      /\ Posting \cap Converting = {} /\ NoPage \notin Page
BY RequestsAssumption DEF Ids, Nobody, NoMerge, Merging, NoTx, Posting, Converting, NoPage, Page, Kinds
-----------------------------------------------------------------------------
LEMMA KeptParts ==
    /\ UNCHANGED <<request, deal, mail>> /\ RowTypes => RowTypes'
    /\ UNCHANGED <<lead, contact, request, deal, mail>> /\ TypeOK => TypeOK'
    /\ UNCHANGED <<next, lead, contact, merge>> /\ IdsOnce => IdsOnce'
    /\ UNCHANGED <<request, arr, page, tx>> /\ InquiryFirst => InquiryFirst'
    /\ UNCHANGED tx /\ PostsRight => PostsRight'
    /\ UNCHANGED <<tx, lead, contact, raced>> /\ ConvertsRight => ConvertsRight'
    /\ UNCHANGED <<merge, request, deal, mail, late, lead, contact>> /\ Moved => Moved'
    /\ UNCHANGED <<deal, request, merge, stale, late, kept>> /\ LeadFollows => LeadFollows'
    /\ UNCHANGED <<deal, request, merge, stale, late, raced, kept>> /\ SameClient => SameClient'
    /\ UNCHANGED <<deal, request, stale>> /\ DealShown => DealShown'
    /\ UNCHANGED <<mail, deal>> /\ MailsFollow => MailsFollow'
    /\ UNCHANGED <<request, late>> /\ Served => Served'
<1>1. UNCHANGED <<request, deal, mail>> /\ RowTypes => RowTypes'
  BY DEF RowTypes
<1>2. UNCHANGED <<lead, contact, request, deal, mail>> /\ TypeOK => TypeOK'
  BY DEF TypeOK, Refers
<1>3. UNCHANGED <<next, lead, contact, merge>> /\ IdsOnce => IdsOnce'
  BY DEF IdsOnce, Given, Clients
<1>4. UNCHANGED <<request, arr, page, tx>> /\ InquiryFirst => InquiryFirst'
  BY DEF InquiryFirst, Arrived
<1>5. UNCHANGED tx /\ PostsRight => PostsRight'
  BY DEF PostsRight
<1>6. UNCHANGED <<tx, lead, contact, raced>> /\ ConvertsRight => ConvertsRight'
  BY DEF ConvertsRight, ConvertRight
<1>7. UNCHANGED <<merge, request, deal, mail, late, lead, contact>> /\ Moved => Moved'
  BY DEF Moved, After, There
<1>8. UNCHANGED <<deal, request, merge, stale, late, kept>> /\ LeadFollows => LeadFollows'
  BY DEF LeadFollows
<1>9. UNCHANGED <<deal, request, merge, stale, late, raced, kept>> /\ SameClient => SameClient'
  BY DEF SameClient
<1>10. UNCHANGED <<deal, request, stale>> /\ DealShown => DealShown'
  BY DEF DealShown
<1>11. UNCHANGED <<mail, deal>> /\ MailsFollow => MailsFollow'
  BY DEF MailsFollow
<1>12. UNCHANGED <<request, late>> /\ Served => Served'
  BY DEF Served
<1> QED BY <1>1, <1>2, <1>3, <1>4, <1>5, <1>6, <1>7, <1>8, <1>9, <1>10, <1>11, <1>12

(* The links of one request. *)
SameAt(r) == \A k \in Kinds :
    request[r][k] # Nobody =>
        \/ deal[r][k] = request[r][k]
        \/ merge.kind = k /\ {deal[r][k], request[r][k]} = {merge.dup, merge.orig}
        \/ raced /\ r \in kept
LeadAt(r) ==
    deal[r].lead # Nobody =>
        \/ deal[r].lead = request[r].lead
        \/ merge.kind = "lead" /\ {deal[r].lead, request[r].lead} = {merge.dup, merge.orig}

LEMMA At ==
    /\ SameClient <=> \A r \in DOMAIN deal \ (stale \cup late) : SameAt(r)
    /\ LeadFollows <=> \A r \in DOMAIN deal \ (stale \cup late \cup kept) : LeadAt(r)
BY DEF SameClient, LeadFollows, SameAt, LeadAt

LEMMA AtNext ==
    /\ SameClient' <=> \A r \in DOMAIN deal' \ (stale' \cup late') : SameAt(r)'
    /\ LeadFollows' <=> \A r \in DOMAIN deal' \ (stale' \cup late' \cup kept') : LeadAt(r)'
BY DEF SameClient, LeadFollows, SameAt, LeadAt

LEMMA AtKept ==
    ASSUME NEW r, request'[r] = request[r], deal'[r] = deal[r], merge' = merge,
           raced => raced', r \in kept => r \in kept'
    PROVE  /\ SameAt(r) => SameAt(r)'
           /\ LeadAt(r) => LeadAt(r)'
BY DEF SameAt, LeadAt

LEMMA LinksKept ==
    ASSUME Inv, merge' = merge, late \subseteq late', stale \subseteq stale', kept \subseteq kept',
           raced => raced', DOMAIN deal' \subseteq DOMAIN deal,
           \A q \in DOMAIN deal' : request'[q] = request[q] /\ deal'[q] = deal[q]
    PROVE  SameClient' /\ LeadFollows' /\ DealShown'
<1>1. SameClient'
  <2>1. \A q \in DOMAIN deal' \ (stale' \cup late') : SameAt(q)'
    BY At, AtKept DEF Inv
  <2> QED BY <2>1, AtNext
<1>2. LeadFollows'
  <2>1. \A q \in DOMAIN deal' \ (stale' \cup late' \cup kept') : LeadAt(q)'
    BY At, AtKept DEF Inv
  <2> QED BY <2>1, AtNext
<1>3. DealShown'
  BY DEF Inv, DealShown
<1> QED BY <1>1, <1>2, <1>3

LEMMA StutterKeeps == Inv /\ UNCHANGED vars => Inv'
<1> SUFFICES ASSUME Inv, UNCHANGED vars PROVE Inv'
  OBVIOUS
<1>1. HandTypes'
  BY DEF Inv, HandTypes, vars, threads
<1> QED BY <1>1, KeptParts DEF Inv, vars, rows, threads, history
-----------------------------------------------------------------------------
(* The threads. *)
LEMMA FoundIs ==
    ASSUME TypeOK, NEW x \in ReqRow
    PROVE  /\ Found(x) \in ReqRow
           /\ Found(x).pending = x.pending /\ Found(x).deal = x.deal
           /\ ~HasClient(x) => Found(x).lead = Nobody \/ Found(x).contact = Nobody
           /\ Clients = {} => Found(x) = x
           /\ Clients # {} /\ ~HasClient(x) =>
                 HasClient(Found(x)) \/ Found(x).company # NoCompany
<1>1. lead \subseteq Ids /\ DOMAIN contact \subseteq Ids
  BY DEF TypeOK
<1>2. CASE DOMAIN contact # {}
  <2> DEFINE c == Min(DOMAIN contact)
  <2>1. c \in DOMAIN contact
    BY <1>1, <1>2, MinIsIn
  <2>2. c \in Key /\ c # Nobody /\ contact[c] \in Firms
    BY <1>1, <2>1, NobodyIsNoId DEF Key, TypeOK, Firms
  <2>3. Found(x) = IF x.company \in {NoCompany, contact[c]}
                   THEN [x EXCEPT !.contact = c, !.company = contact[c]] ELSE x
    BY <1>2 DEF Found
  <2> HIDE DEF c
  <2>4. CASE x.company \in {NoCompany, contact[c]}
    BY <2>2, <2>3, <2>4, <1>2 DEF ReqRow, HasClient, Clients
  <2>5. CASE x.company \notin {NoCompany, contact[c]}
    BY <2>3, <2>5, <1>2 DEF HasClient, Clients, Nobody
  <2> QED BY <2>4, <2>5
<1>3. CASE DOMAIN contact = {} /\ lead # {}
  <2>1. Min(lead) \in lead
    BY <1>1, <1>3, MinIsIn
  <2>2. Min(lead) \in Key /\ Min(lead) # Nobody
    BY <1>1, <2>1, NobodyIsNoId DEF Key
  <2>3. Found(x) = [x EXCEPT !.lead = Min(lead)]
    BY <1>3 DEF Found
  <2> QED BY <2>2, <2>3, <1>3 DEF ReqRow, HasClient, Clients
<1>4. CASE DOMAIN contact = {} /\ lead = {}
  BY <1>4 DEF Found, HasClient, Clients
<1> QED BY <1>2, <1>3, <1>4

LEMMA FindInquiryKeeps == ASSUME Inv, NEW r \in Reqs, FindInquiry(r) PROVE Inv'
<1>1. arr[r] \in Arriving /\ arr[r].pc = "new"
  BY DEF Inv, HandTypes, FindInquiry
<1> DEFINE x == Found(arr[r].row)
<1>2. arr[r].row \in ReqRow
  BY <1>1 DEF Arriving
<1>3. x \in ReqRow /\ x.pending = arr[r].row.pending /\ x.deal = arr[r].row.deal
  BY <1>2, FoundIs DEF Inv
<1>4. arr' = [arr EXCEPT ![r] = [pc |-> "found", row |-> x]]
  BY DEF FindInquiry
<1> HIDE DEF x
<1>5. HandTypes'
  <2>1. [pc |-> "found", row |-> x] \in Arriving
    BY <1>3 DEF Arriving
  <2> QED BY <1>4, <2>1 DEF Inv, HandTypes, FindInquiry
<1>6. InquiryFirst'
  BY <1>1, <1>3, <1>4 DEF Inv, HandTypes, InquiryFirst, Arrived, FindInquiry, rows
<1> QED BY <1>5, <1>6, KeptParts DEF Inv, FindInquiry, rows, history

LEMMA LostArrives == \A pc \in {"lost", "done"} :
    Arr(pc) \in Arriving /\ Arr(pc).row.pending /\ ~Arr(pc).row.deal
<1>1. Row(Nobody, Nobody, NoCompany) \in ReqRow
  BY DEF Row, ReqRow, Key, Firms
<1> QED BY <1>1 DEF Arr, Arriving, Row

LEMMA SaveInquiryKeeps == ASSUME Inv, NEW r \in Reqs, SaveInquiry(r) PROVE Inv'
<1> DEFINE x == arr[r].row
<1>1. /\ arr \in [Reqs -> Arriving] /\ arr[r] \in Arriving /\ arr[r].pc = "found"
      /\ x \in ReqRow /\ x.pending /\ ~x.deal
  BY DEF Inv, HandTypes, SaveInquiry, InquiryFirst, Arriving
<1>2. r \notin DOMAIN request /\ r \notin DOMAIN deal
  BY <1>1 DEF Inv, InquiryFirst, Arrived, TypeOK
<1>3. CASE ~Refers(x)
  <2>1. arr' = [arr EXCEPT ![r] = Arr("lost")] /\ UNCHANGED <<request, late>>
    BY <1>3 DEF SaveInquiry
  <2>2. HandTypes'
    BY <2>1, LostArrives DEF Inv, HandTypes, SaveInquiry
  <2>3. \A q \in Reqs : Arrived(q) => Arrived(q)'
    BY <1>1, <2>1 DEF Arrived, Arr
  <2>4. InquiryFirst'
    <3>1. \A q \in Reqs : arr'[q].row.pending /\ ~arr'[q].row.deal
      BY <1>1, <2>1, LostArrives DEF Inv, InquiryFirst
    <3>2. \A u \in Users : (page[u] # NoPage => page[u].r \in Reqs)
                           /\ (tx[u].kind = "post" => tx[u].r \in Reqs)
      BY DEF Inv, HandTypes, Page, Posting, Converting, NoTx
    <3>3. DOMAIN request \subseteq Reqs
      BY DEF Inv, TypeOK
    <3> QED BY <3>1, <3>2, <3>3, <2>1, <2>3 DEF Inv, InquiryFirst, SaveInquiry
  <2> QED BY <2>1, <2>2, <2>4, KeptParts DEF Inv, SaveInquiry
<1>4. CASE Refers(x)
  <2>1. /\ request' = Put(request, r, x)
        /\ arr' = [arr EXCEPT ![r].pc = "saved"]
        /\ late' = IF Doomed(x) THEN late \cup {r} ELSE late
        /\ UNCHANGED <<lead, contact, deal, mail, next, rep, page, tx, merge, ops, raced, stale, kept>>
    BY <1>4 DEF SaveInquiry
  <2>2. /\ DOMAIN request' = DOMAIN request \cup {r} /\ request'[r] = x
        /\ \A q \in DOMAIN request : request'[q] = request[q]
    BY <2>1, <1>2 DEF Put
  <2>3. RowTypes'
    BY <1>1, <2>1, <2>2 DEF Inv, RowTypes
  <2>4. HandTypes'
    <3>1. [arr[r] EXCEPT !.pc = "saved"] \in Arriving
      BY <1>1 DEF Arriving
    <3> QED BY <2>1, <3>1 DEF Inv, HandTypes
  <2>5. TypeOK'
    BY <1>1, <1>2, <1>4, <2>1, <2>2 DEF Inv, TypeOK, Refers
  <2>6. InquiryFirst'
    <3>1. \A q \in Reqs : Arrived(q) => Arrived(q)'
      BY <1>1, <2>1 DEF Arrived
    <3>2. Arrived(r)'
      BY <1>1, <2>1 DEF Arrived, Arriving
    <3>3. \A q \in Reqs : arr'[q].row.pending /\ ~arr'[q].row.deal
      BY <1>1, <2>1 DEF Inv, InquiryFirst, Arriving
    <3>4. \A u \in Users : (page[u] # NoPage => page[u].r \in Reqs)
                           /\ (tx[u].kind = "post" => tx[u].r \in Reqs)
      BY DEF Inv, HandTypes, Page, Posting, Converting, NoTx
    <3>5. DOMAIN request \subseteq Reqs
      BY DEF Inv, TypeOK
    <3> QED BY <3>1, <3>2, <3>3, <3>4, <3>5, <2>1, <2>2 DEF Inv, InquiryFirst
  <2>7. Moved'
    <3> SUFFICES ASSUME merge # NoMerge PROVE Moved'
      BY <2>1 DEF Moved
    <3>1. merge \in Merging /\ merge.kind \in Kinds
      BY DEF Inv, HandTypes, Merging
    <3>2. r \notin late' => x[merge.kind] # merge.dup
      BY <2>1, <3>1 DEF Doomed
    <3>3. ~There(merge.kind, merge.orig) => x[merge.kind] # merge.orig
      BY <1>4, <3>1, NobodyIsNoId DEF Refers, There, Kinds, Merging
    <3> QED BY <2>1, <2>2, <3>1, <3>2, <3>3 DEF Inv, Moved, After, There
  <2>8. LeadFollows' /\ SameClient' /\ DealShown'
    <3>1. DOMAIN deal \subseteq DOMAIN request
      BY DEF Inv, TypeOK
    <3>2. \A q \in DOMAIN deal : request'[q] = request[q] /\ deal'[q] = deal[q]
      BY <1>2, <2>1, <2>2, <3>1
    <3>3. late \subseteq late' /\ UNCHANGED <<deal, merge, stale, kept, raced>>
      BY <2>1
    <3> QED BY <3>2, <3>3, LinksKept
  <2>9. Served'
    BY <1>1, <2>1, <2>2 DEF Inv, Served
  <2> QED BY <2>1, <2>3, <2>4, <2>5, <2>6, <2>7, <2>8, <2>9, KeptParts DEF Inv
<1> QED BY <1>3, <1>4

LEMMA ServedKept ==
    ASSUME Served, late \subseteq late', DOMAIN request' \subseteq DOMAIN request,
           \A r \in DOMAIN request' : request'[r] = request[r]
    PROVE  Served'
BY DEF Served

(* A mail is saved with its request, and its client if it has one. *)
LEMMA MailSaved ==
    ASSUME Inv, NEW r \in Reqs, NEW k \in {"inquiry", "reply"}, NEW v \in MailRow,
           mail' = Put(mail, <<r, k>>, v), r \in DOMAIN request, Refers(v),
           v.deal => r \in DOMAIN deal, r \in DOMAIN deal => v.deal \/ v.late,
           late' = IF Doomed(v) THEN late \cup {r} ELSE late,
           UNCHANGED <<lead, contact, request, deal, merge, raced, stale, kept>>
    PROVE  /\ RowTypes' /\ TypeOK' /\ Moved' /\ MailsFollow' /\ Served'
           /\ SameClient' /\ LeadFollows' /\ DealShown'
<1> DEFINE n == <<r, k>>
<1>1. /\ DOMAIN mail' = DOMAIN mail \cup {n} /\ mail'[n] = v
      /\ \A m \in DOMAIN mail : m # n => mail'[m] = mail[m]
      /\ n \in MailIds /\ n[1] = r
  BY DEF Put, MailIds
<1> HIDE DEF n
<1>2. RowTypes'
  BY <1>1 DEF Inv, RowTypes
<1>3. TypeOK'
  <2>1. \A m \in DOMAIN mail' : Refers(mail'[m]) /\ (mail'[m].deal => m[1] \in DOMAIN deal)
                                /\ m \in MailIds /\ m[1] \in DOMAIN request
    BY <1>1 DEF Inv, TypeOK
  <2>2. \A z : Refers(z)' <=> Refers(z)
    BY DEF Refers
  <2> QED BY <2>1, <2>2 DEF Inv, TypeOK
<1>4. late \subseteq late'
  OBVIOUS
<1>5. Moved'
  <2> SUFFICES ASSUME merge # NoMerge PROVE Moved'
    BY DEF Moved
  <2>1. merge.kind \in Kinds
    BY DEF Inv, HandTypes, Merging
  <2>2. r \notin late' => v[merge.kind] # merge.dup
    BY <2>1 DEF Doomed
  <2>3. \A z : After(z)' <=> After(z)
    BY DEF After
  <2>4. There(merge.kind, merge.orig)' <=> There(merge.kind, merge.orig)
    BY DEF There
  <2> QED BY <1>1, <1>4, <2>2, <2>3, <2>4 DEF Inv, Moved
<1>6. MailsFollow'
  BY <1>1 DEF Inv, MailsFollow
<1> QED BY <1>2, <1>3, <1>4, <1>5, <1>6, LinksKept, ServedKept DEF Inv

(* A thread goes on. *)
LEMMA ArrivesKept ==
    ASSUME Inv, NEW r \in Reqs, NEW a \in Arriving, arr' = [arr EXCEPT ![r] = a],
           a.pc \notin {"new", "found"}, a.row.pending, ~a.row.deal,
           UNCHANGED <<request, rep, page, tx, merge>>
    PROVE  HandTypes' /\ InquiryFirst'
<1>1. arr \in [Reqs -> Arriving] /\ arr' \in [Reqs -> Arriving]
  BY DEF Inv, HandTypes
<1>2. \A q \in Reqs : Arrived(q) => Arrived(q)'
  BY <1>1 DEF Arrived
<1>3. \A q \in Reqs : arr'[q].row.pending /\ ~arr'[q].row.deal
  BY <1>1 DEF Inv, InquiryFirst
<1>4. \A u \in Users : (page[u] # NoPage => page[u].r \in Reqs)
                       /\ (tx[u].kind = "post" => tx[u].r \in Reqs)
  BY DEF Inv, HandTypes, Page, Posting, Converting, NoTx
<1>5. DOMAIN request \subseteq Reqs
  BY DEF Inv, TypeOK
<1>6. InquiryFirst'
  BY <1>2, <1>3, <1>4, <1>5 DEF Inv, InquiryFirst
<1> QED BY <1>1, <1>6 DEF Inv, HandTypes

LEMMA LinkInquiryKeeps == ASSUME Inv, NEW r \in Reqs, LinkInquiry(r) PROVE Inv'
<1> DEFINE x == arr[r].row
<1>1. x \in ReqRow
  BY DEF Inv, HandTypes, Arriving
<1>2. UNCHANGED <<lead, contact, request, deal, next, rep, page, tx, merge, raced, stale, kept>>
  BY DEF LinkInquiry
<1>3. CASE ~(r \in DOMAIN request /\ Refers(x))
  <2>1. arr' = [arr EXCEPT ![r] = Arr("lost")] /\ UNCHANGED <<mail, late>>
    BY <1>3 DEF LinkInquiry
  <2>2. HandTypes' /\ InquiryFirst'
    BY <2>1, <1>2, LostArrives, ArrivesKept DEF Arr
  <2> QED BY <2>1, <2>2, <1>2, KeptParts DEF Inv
<1>4. CASE r \in DOMAIN request /\ Refers(x)
  <2> DEFINE v == [lead |-> x.lead, contact |-> x.contact, deal |-> FALSE, late |-> r \in DOMAIN deal]
  <2>1. /\ mail' = Put(mail, <<r, "inquiry">>, v)
        /\ arr' = [arr EXCEPT ![r] = Arr("done")]
        /\ late' = IF Doomed(x) THEN late \cup {r} ELSE late
    BY <1>4 DEF LinkInquiry
  <2>2. /\ v \in MailRow /\ ~v.deal /\ (r \in DOMAIN deal => v.late)
        /\ v.lead = x.lead /\ v.contact = x.contact
    <3> DEFINE b == r \in DOMAIN deal
    <3>1. b \in BOOLEAN /\ x.lead \in Key /\ x.contact \in Key
      BY <1>1 DEF ReqRow
    <3> HIDE DEF b, x
    <3>2. v \in MailRow
      BY <3>1 DEF MailRow
    <3> QED BY <3>2 DEF b
  <2>3. Refers(v) /\ (Doomed(v) <=> Doomed(x))
    BY <1>4, <2>2 DEF Refers, Doomed, Kinds
  <2> HIDE DEF v
  <2>4. HandTypes' /\ InquiryFirst'
    BY <2>1, <1>2, LostArrives, ArrivesKept DEF Arr
  <2>5. late' = IF Doomed(v) THEN late \cup {r} ELSE late
    BY <2>1, <2>3
  <2>6. /\ RowTypes' /\ TypeOK' /\ Moved' /\ MailsFollow' /\ Served'
        /\ SameClient' /\ LeadFollows' /\ DealShown'
    BY <1>2, <1>4, <2>1, <2>2, <2>3, <2>5, MailSaved
  <2> QED BY <1>2, <2>4, <2>6, KeptParts DEF Inv
<1> QED BY <1>3, <1>4

LEMMA ReadReplyKeeps == ASSUME Inv, NEW r \in Reqs, ReadReply(r) PROVE Inv'
<1> DEFINE x == IF r \in DOMAIN deal THEN deal[r] ELSE request[r]
           e == [lead |-> x.lead, contact |-> x.contact]
           a == [pc |-> "read", deal |-> r \in DOMAIN deal, ends |-> e]
<1>1. rep' = [rep EXCEPT ![r] = a] /\ r \in DOMAIN request
  BY DEF ReadReply
<1>2. x.lead \in Key /\ x.contact \in Key
  <2>1. CASE r \in DOMAIN deal
    BY <2>1 DEF Inv, RowTypes, DealRow
  <2>2. CASE r \notin DOMAIN deal
    BY <2>2, <1>1 DEF Inv, RowTypes, ReqRow
  <2> QED BY <2>1, <2>2
<1> HIDE DEF x
<1>3. e \in EndRow
  BY <1>2 DEF EndRow
<1> HIDE DEF e
<1>4. a \in Replying
  BY <1>3 DEF Replying
<1> HIDE DEF a
<1>5. HandTypes'
  BY <1>1, <1>4 DEF Inv, HandTypes, ReadReply
<1> QED BY <1>5, KeptParts DEF Inv, ReadReply, rows, history

LEMMA SaveReplyKeeps == ASSUME Inv, NEW r \in Reqs, SaveReply(r) PROVE Inv'
<1> DEFINE x == rep[r].ends
<1>1. x \in EndRow /\ rep[r].deal \in BOOLEAN
  BY DEF Inv, HandTypes, Replying
<1>2. UNCHANGED <<lead, contact, request, deal, next, arr, page, tx, merge, raced, stale, kept>>
  BY DEF SaveReply
<1>3. \A pc \in {"new", "lost", "done"} : Rep(pc) \in Replying
  BY DEF Rep, Ends, Replying, EndRow, Key
<1>4. HandTypes'
  <2>1. PICK pc \in {"new", "lost", "done"} : rep' = [rep EXCEPT ![r] = Rep(pc)]
    BY DEF SaveReply
  <2> QED BY <2>1, <1>2, <1>3 DEF Inv, HandTypes
<1> DEFINE ok == r \in DOMAIN request /\ (rep[r].deal => r \in DOMAIN deal) /\ Refers(x)
<1>5. CASE ~ok
  <2>1. UNCHANGED <<mail, late>>
    BY <1>5 DEF SaveReply
  <2> QED BY <2>1, <1>2, <1>4, KeptParts DEF Inv
<1>6. CASE ok
  <2> DEFINE v == [lead |-> x.lead, contact |-> x.contact, deal |-> rep[r].deal,
                   late |-> r \in DOMAIN deal /\ ~rep[r].deal]
  <2>1. /\ mail' = Put(mail, <<r, "reply">>, v)
        /\ late' = IF Doomed(x) THEN late \cup {r} ELSE late
    BY <1>6 DEF SaveReply
  <2>2. /\ v \in MailRow /\ v.deal = rep[r].deal /\ (r \in DOMAIN deal => v.deal \/ v.late)
        /\ v.lead = x.lead /\ v.contact = x.contact
    BY <1>1 DEF MailRow, EndRow
  <2>3. Refers(v) /\ (Doomed(v) <=> Doomed(x))
    BY <1>6, <2>2 DEF Refers, Doomed, Kinds
  <2> HIDE DEF v
  <2>5. late' = IF Doomed(v) THEN late \cup {r} ELSE late
    BY <2>1, <2>3
  <2>6. /\ RowTypes' /\ TypeOK' /\ Moved' /\ MailsFollow' /\ Served'
        /\ SameClient' /\ LeadFollows' /\ DealShown'
    BY <1>2, <1>6, <2>1, <2>2, <2>3, <2>5, MailSaved
  <2> QED BY <1>2, <1>4, <2>6, KeptParts DEF Inv
<1> QED BY <1>5, <1>6
-----------------------------------------------------------------------------
(* The form of a request. *)
LEMMA OpenPageKeeps == ASSUME Inv, NEW u \in Users, NEW r \in Reqs, OpenPage(u, r) PROVE Inv'
<1>1. /\ page' = [page EXCEPT ![u] = [r |-> r, row |-> request[r]]] /\ r \in DOMAIN request
      /\ UNCHANGED <<rows, threads, tx, merge, history>>
  BY DEF OpenPage
<1>2. [r |-> r, row |-> request[r]] \in Page
  BY <1>1 DEF Inv, RowTypes, Page
<1>3. HandTypes'
  BY <1>1, <1>2 DEF Inv, HandTypes, threads
<1>4. InquiryFirst'
  <2>1. \A q : Arrived(q)' <=> Arrived(q)
    BY <1>1 DEF Arrived, threads
  <2>2. \A v \in Users : page'[v] # NoPage => page'[v] = page[v] \/ page'[v].r = r
    BY <1>1 DEF Inv, HandTypes
  <2>3. Arrived(r)
    BY <1>1 DEF Inv, InquiryFirst
  <2> QED BY <1>1, <2>1, <2>2, <2>3 DEF Inv, InquiryFirst, threads, rows
<1> QED BY <1>1, <1>3, <1>4, KeptParts DEF Inv, rows, threads, history

LEMMA FilledIs ==
    ASSUME TypeOK, NEW x \in ReqRow, Valid(x), NEW firm \in Firms
    PROVE  /\ Filled(x, firm) \in ReqRow /\ NewClient(x, firm) \in {"no", "lead", "contact"}
           /\ Filled(x, firm).deal = x.deal /\ Filled(x, firm).pending = x.pending
           /\ Filled(x, firm).lead = Nobody \/ Filled(x, firm).contact = Nobody
           /\ HasClient(x) => /\ Filled(x, firm).lead = x.lead
                              /\ Filled(x, firm).contact = x.contact
                              /\ NewClient(x, firm) = "no"
           /\ NewClient(x, firm) # "no" => Clients = {} /\ ~HasClient(Filled(x, firm))
           /\ ~x.pending /\ NewClient(x, firm) = "no" =>
                 HasClient(Filled(x, firm)) \/ Filled(x, firm).company # NoCompany
           /\ NewClient(x, firm) = "contact" => Filled(x, firm).company # NoCompany
<1> DEFINE y == IF HasClient(x) THEN x ELSE Found(x)
<1>1. /\ y \in ReqRow /\ y.pending = x.pending /\ y.deal = x.deal
      /\ y.lead = Nobody \/ y.contact = Nobody
      /\ HasClient(x) => y = x
      /\ Clients = {} => y = x
      /\ Clients # {} => HasClient(y) \/ y.company # NoCompany
  BY FoundIs DEF Valid, HasClient
<1>2. y.contact # Nobody => contact[y.contact] \in Companies
  <2>1. HasClient(x) => Refers(y)
    BY <1>1 DEF Valid
  <2>2. ~HasClient(x) /\ DOMAIN contact # {} => Refers(y)
    <3> SUFFICES ASSUME ~HasClient(x), DOMAIN contact # {} PROVE Refers(y)
      OBVIOUS
    <3> DEFINE c == Min(DOMAIN contact)
    <3>1. c \in DOMAIN contact
      BY MinIsIn DEF TypeOK
    <3>2. y = IF x.company \in {NoCompany, contact[c]}
              THEN [x EXCEPT !.contact = c, !.company = contact[c]] ELSE x
      BY DEF Found
    <3> HIDE DEF c, y
    <3>3. x.lead = Nobody /\ x.contact = Nobody
      BY DEF HasClient
    <3> QED BY <3>1, <3>2, <3>3 DEF Refers, ReqRow
  <2>3. ~HasClient(x) /\ DOMAIN contact = {} => y.contact = Nobody
    <3> SUFFICES ASSUME ~HasClient(x), DOMAIN contact = {} PROVE y.contact = Nobody
      OBVIOUS
    <3>1. x.contact = Nobody
      BY DEF HasClient
    <3>2. y = IF lead # {} THEN [x EXCEPT !.lead = Min(lead)] ELSE x
      BY DEF Found
    <3> HIDE DEF y
    <3> QED BY <3>1, <3>2 DEF ReqRow
  <2> HIDE DEF y
  <2> QED BY <2>1, <2>2, <2>3 DEF Refers, TypeOK
<1> DEFINE z == IF y.contact # Nobody THEN [y EXCEPT !.company = contact[y.contact]] ELSE y
           n == NewClient(x, firm)
<1>3. Filled(x, firm) =
         IF x.pending
         THEN IF z.company = NoCompany THEN [z EXCEPT !.company = firm] ELSE z
         ELSE IF n = "no" THEN WithCompany(y) ELSE [y EXCEPT !.company = firm]
  BY DEF Filled
<1>4. /\ n \in {"no", "lead", "contact"}
      /\ HasClient(x) \/ x.pending => n = "no"
      /\ n # "no" => Clients = {} /\ ~HasClient(x)
      /\ n = "contact" => firm # NoCompany
      /\ n = "no" /\ ~x.pending => HasClient(x) \/ Clients # {}
  BY DEF NewClient
<1>5. /\ z \in ReqRow /\ z.pending = y.pending /\ z.deal = y.deal /\ z.lead = y.lead
      /\ z.contact = y.contact
  <2> HIDE DEF y
  <2>1. contact[y.contact] \in Companies => contact[y.contact] \in Firms
    BY DEF Firms
  <2> QED BY <1>1, <1>2, <2>1 DEF ReqRow
<1>6. /\ WithCompany(y) \in ReqRow /\ WithCompany(y).pending = y.pending
      /\ WithCompany(y).deal = y.deal /\ WithCompany(y).lead = y.lead
      /\ WithCompany(y).contact = y.contact
      /\ WithCompany(y).company = NoCompany => y.company = NoCompany
  <2> HIDE DEF y
  <2>1. contact[y.contact] \in Companies => contact[y.contact] \in Firms
    BY DEF Firms
  <2> QED BY <1>1, <1>2, <2>1, RequestsAssumption DEF WithCompany, ReqRow
<1> HIDE DEF y, z, n
<1>7. CASE x.pending
  <2>1. /\ [z EXCEPT !.company = firm] \in ReqRow
        /\ [z EXCEPT !.company = firm].pending = z.pending
        /\ [z EXCEPT !.company = firm].deal = z.deal
        /\ [z EXCEPT !.company = firm].lead = z.lead
        /\ [z EXCEPT !.company = firm].contact = z.contact
    BY <1>5 DEF ReqRow
  <2>2. n = "no"
    BY <1>4, <1>7
  <2> QED BY <1>1, <1>3, <1>4, <1>5, <1>7, <2>1, <2>2 DEF n
<1>8. CASE ~x.pending
  <2>1. /\ [y EXCEPT !.company = firm] \in ReqRow
        /\ [y EXCEPT !.company = firm].pending = y.pending
        /\ [y EXCEPT !.company = firm].deal = y.deal
        /\ [y EXCEPT !.company = firm].lead = y.lead
        /\ [y EXCEPT !.company = firm].contact = y.contact
        /\ [y EXCEPT !.company = firm].company = firm
    BY <1>1 DEF ReqRow
  <2>2. \A a, b \in ReqRow : a.lead = b.lead /\ a.contact = b.contact => (HasClient(a) <=> HasClient(b))
    BY DEF HasClient
  <2>3. CASE n = "no"
    BY <1>1, <1>3, <1>4, <1>6, <1>8, <2>2, <2>3 DEF n
  <2>4. CASE n # "no"
    BY <1>1, <1>3, <1>4, <1>8, <2>1, <2>2, <2>4 DEF n
  <2> QED BY <2>3, <2>4
<1> QED BY <1>7, <1>8

(* One user begins or ends a transaction. *)
LEMMA PostBegins ==
    ASSUME Inv, NEW u \in Users, NEW t \in Posting, tx' = [tx EXCEPT ![u] = t],
           PostRight(t), Arrived(t.r),
           UNCHANGED <<rows, threads, page, merge, history>>
    PROVE  Inv'
<1>1. HandTypes'
  BY DEF Inv, HandTypes, threads
<1>2. t.kind = "post" /\ tx'[u] = t /\ \A v \in Users : v # u => tx'[v] = tx[v]
  BY DEF Inv, HandTypes, Posting
<1>3. PostsRight'
  <2>1. \A z : PostRight(z)' <=> PostRight(z)
    BY DEF PostRight
  <2> QED BY <1>2, <2>1 DEF Inv, PostsRight
<1>4. InquiryFirst'
  <2>1. \A q : Arrived(q)' <=> Arrived(q)
    BY DEF Arrived, threads
  <2> QED BY <1>2, <2>1 DEF Inv, InquiryFirst, threads, rows
<1>5. ConvertsRight'
  <2>1. \A z : ConvertRight(z)' <=> ConvertRight(z)
    BY DEF ConvertRight, rows, history
  <2> QED BY <1>2, <2>1 DEF Inv, ConvertsRight
<1> QED BY <1>1, <1>3, <1>4, <1>5, KeptParts DEF Inv, rows, threads, history

LEMMA TxEnds ==
    ASSUME Inv, NEW u \in Users, tx' = [tx EXCEPT ![u] = NoTx],
           page' \in {page, [page EXCEPT ![u] = NoPage]}, UNCHANGED <<arr, rep, merge>>
    PROVE  /\ HandTypes' /\ PostsRight'
           /\ request' = request => InquiryFirst'
           /\ \A v \in Users : tx'[v] = IF v = u THEN NoTx ELSE tx[v]
<1>1. HandTypes'
  BY DEF Inv, HandTypes
<1>2. \A v \in Users : tx'[v] = IF v = u THEN NoTx ELSE tx[v]
  BY DEF Inv, HandTypes
<1>3. PostsRight'
  <2>1. \A z : PostRight(z)' <=> PostRight(z)
    BY DEF PostRight
  <2>2. NoTx.kind # "post"
    BY DEF NoTx
  <2> QED BY <1>2, <2>1, <2>2 DEF Inv, PostsRight
<1>4. request' = request => InquiryFirst'
  <2>1. \A q : Arrived(q)' <=> Arrived(q)
    BY DEF Arrived
  <2>2. NoTx.kind # "post"
    BY DEF NoTx
  <2>3. \A v \in Users : page'[v] \in {page[v], NoPage}
    BY DEF Inv, HandTypes
  <2> QED BY <1>2, <2>1, <2>2, <2>3 DEF Inv, InquiryFirst
<1> QED BY <1>1, <1>2, <1>3, <1>4

LEMMA LoadPostKeeps == ASSUME Inv, NEW u \in Users, LoadPost(u) PROVE Inv'
<1>1. page[u] # NoPage /\ page[u].r \in DOMAIN request
      /\ UNCHANGED <<rows, threads, page, merge, history>>
  BY DEF LoadPost
<1>2. page[u] \in Page
  BY <1>1 DEF Inv, HandTypes
<1> DEFINE r == page[u].r
           now == request[r]
           old == page[u].row
<1>3. r \in Reqs /\ old \in ReqRow /\ now \in ReqRow
  BY <1>1, <1>2 DEF Page, Inv, RowTypes
<1>4. PICK l \in lead \cup {Nobody}, c \in DOMAIN contact \cup {Nobody}, posted, firm \in Firms,
           dup, create \in BOOLEAN :
        LET x == Posted(u, l, c, posted, dup, create)
            was == request[page[u].r] IN
        /\ Valid(x)
        /\ create => ~page[u].row.deal
        /\ tx' = [tx EXCEPT ![u] =
              [kind |-> "post", r |-> page[u].r, row |-> Filled(x, firm),
               new |-> NewClient(x, firm), create |-> create,
               changed |-> {k \in Kinds : x[k] # was[k]},
               old |-> page[u].row, outdated |-> page[u].row # was, alone |-> Clients = {},
               emptied |-> ~HasClient(x)]]
  BY DEF LoadPost
<1> DEFINE x == Posted(u, l, c, posted, dup, create)
           p == now.pending /\ ~create /\ ~(dup /\ ~now.duplicate)
<1>5. x = [lead |-> l, contact |-> c, company |-> posted, deal |-> old.deal,
           pending |-> p, duplicate |-> dup]
  BY DEF Posted
<1>6. l \in Key /\ c \in Key /\ p \in BOOLEAN
  BY <1>3 DEF Inv, TypeOK, Key, ReqRow
<1> HIDE DEF p
<1>7. x \in ReqRow
  BY <1>3, <1>5, <1>6 DEF ReqRow
<1>8. x.deal = old.deal /\ x.pending = p
  BY <1>5
<1> DEFINE F == Filled(x, firm)
           n == NewClient(x, firm)
           ch == {k \in Kinds : x[k] # now[k]}
           out == old # now
           alone == Clients = {}
           empty == ~HasClient(x)
           t == [kind |-> "post", r |-> r, row |-> F, new |-> n, create |-> create, changed |-> ch,
                 old |-> old, outdated |-> out, alone |-> alone, emptied |-> empty]
<1>9. /\ F \in ReqRow /\ n \in {"no", "lead", "contact"}
      /\ F.deal = x.deal /\ F.pending = x.pending
      /\ F.lead = Nobody \/ F.contact = Nobody
      /\ HasClient(x) => F.lead = x.lead /\ F.contact = x.contact /\ n = "no"
      /\ n # "no" => Clients = {} /\ ~HasClient(F)
      /\ ~x.pending /\ n = "no" => HasClient(F) \/ F.company # NoCompany
      /\ n = "contact" => F.company # NoCompany
  BY <1>4, <1>7, FilledIs DEF Inv
<1>10. tx' = [tx EXCEPT ![u] = t]
  BY <1>4
<1>11. ch \subseteq Kinds /\ out \in BOOLEAN /\ alone \in BOOLEAN /\ empty \in BOOLEAN
  OBVIOUS
<1>12. /\ HasClient(x) => HasClient(F)
       /\ ~out => now = old
       /\ p => now.pending
       /\ \A k \in Kinds : k \notin ch => x[k] = now[k]
       /\ HasClient(x) => \A k \in Kinds : F[k] = x[k]
  <2>1. HasClient(x) => HasClient(F)
    BY <1>9 DEF HasClient
  <2>2. p => now.pending
    BY DEF p
  <2>3. HasClient(x) => \A k \in Kinds : F[k] = x[k]
    BY <1>9 DEF Kinds
  <2> HIDE DEF x, F, now, old
  <2> QED BY <2>1, <2>2, <2>3
<1> HIDE DEF x, F, n, ch, out, alone, now, old, r
<1>13. t \in Posting
  <2> HIDE DEF empty
  <2> QED BY <1>3, <1>9, <1>11 DEF Posting
<1>14. PostRight(t)
  <2>1. /\ t.row = F /\ t.new = n /\ t.changed = ch /\ t.old = old /\ t.outdated = out
        /\ t.alone = alone /\ t.emptied = empty
    OBVIOUS
  <2>2. alone = (Clients = {}) /\ empty = ~HasClient(x)
    BY DEF alone
  <2> HIDE DEF t, empty
  <2> QED BY <1>8, <1>9, <1>12, <2>1, <2>2 DEF PostRight
<1>15. Arrived(t.r)
  <2>1. t.r = page[u].r
    BY DEF r
  <2> QED BY <1>1, <2>1 DEF Inv, InquiryFirst
<1> HIDE DEF t
<1> QED BY <1>1, <1>10, <1>13, <1>14, <1>15, PostBegins

LEMMA AbortPostKeeps == ASSUME Inv, NEW u \in Users, AbortPost(u) PROVE Inv'
<1>1. /\ tx' = [tx EXCEPT ![u] = NoTx] /\ page' = [page EXCEPT ![u] = NoPage]
      /\ UNCHANGED <<rows, threads, merge, history>>
  BY DEF AbortPost
<1>2. /\ HandTypes' /\ PostsRight' /\ InquiryFirst'
      /\ \A v \in Users : tx'[v] = IF v = u THEN NoTx ELSE tx[v]
  BY <1>1, TxEnds DEF rows, threads
<1>3. ConvertsRight'
  <2>1. \A z : ConvertRight(z)' <=> ConvertRight(z)
    BY <1>1 DEF ConvertRight, rows, history
  <2>2. NoTx.kind # "convert"
    BY DEF NoTx
  <2> QED BY <1>2, <2>1, <2>2 DEF Inv, ConvertsRight
<1> QED BY <1>1, <1>2, <1>3, KeptParts DEF Inv, rows, threads, history

LEMMA ChoosePartnerKeeps ==
    ASSUME Inv, NEW r \in Reqs, NEW c \in Ids, ChoosePartner(r, c) PROVE Inv'
<1>1. /\ r \in DOMAIN deal /\ c \in DOMAIN contact /\ deal' = [deal EXCEPT ![r].partner = c]
      /\ late' = IF merge.kind = "contact" /\ merge.dup = c THEN late \cup {r} ELSE late
      /\ UNCHANGED <<lead, contact, request, mail, next, threads, page, tx, merge, raced, stale, kept>>
  BY DEF ChoosePartner
<1>2. late \subseteq late'
  BY <1>1
<1>3. /\ DOMAIN deal' = DOMAIN deal
      /\ \A q \in DOMAIN deal : /\ deal'[q] \in DealRow
                                /\ deal'[q].lead = deal[q].lead
                                /\ deal'[q].contact = deal[q].contact
                                /\ deal'[q].partner \in {deal[q].partner, c}
  <2>1. DOMAIN deal' = DOMAIN deal /\ \A q \in DOMAIN deal : q # r => deal'[q] = deal[q]
    BY <1>1
  <2>2. deal'[r] = [deal[r] EXCEPT !.partner = c] /\ deal[r] \in DealRow /\ c \in Key
    BY <1>1 DEF Inv, RowTypes, Key
  <2>3. /\ deal'[r] \in DealRow /\ deal'[r].lead = deal[r].lead
        /\ deal'[r].contact = deal[r].contact /\ deal'[r].partner = c
    BY <2>2 DEF DealRow
  <2> QED BY <2>1, <2>3 DEF Inv, RowTypes
<1>4. RowTypes'
  BY <1>1, <1>3 DEF Inv, RowTypes
<1>5. TypeOK'
  BY <1>1, <1>3 DEF Inv, TypeOK, Refers
<1>6. Moved'
  <2> SUFFICES ASSUME merge # NoMerge PROVE Moved'
    BY <1>1 DEF Moved
  <2>1. \A q \in DOMAIN deal : deal'[q][merge.kind] = deal[q][merge.kind]
    BY <1>3 DEF Inv, HandTypes, Merging, Kinds
  <2>2. \A z : After(z)' <=> After(z)
    BY <1>1 DEF After
  <2>3. There(merge.kind, merge.orig)' <=> There(merge.kind, merge.orig)
    BY <1>1 DEF There
  <2> QED BY <1>1, <1>2, <1>3, <2>1, <2>2, <2>3 DEF Inv, Moved
<1>7. SameClient' /\ LeadFollows' /\ DealShown'
  <2>1. \A q \in DOMAIN deal : /\ SameAt(q) => SameAt(q)'
                               /\ LeadAt(q) => LeadAt(q)'
    BY <1>1, <1>3 DEF SameAt, LeadAt, Kinds
  <2>2. \A q \in DOMAIN deal' \ (stale' \cup late') : SameAt(q)'
    BY <1>1, <1>2, <1>3, <2>1, At DEF Inv
  <2>3. \A q \in DOMAIN deal' \ (stale' \cup late' \cup kept') : LeadAt(q)'
    BY <1>1, <1>2, <1>3, <2>1, At DEF Inv
  <2>4. DealShown'
    BY <1>1, <1>3 DEF Inv, DealShown
  <2> QED BY <2>2, <2>3, <2>4, AtNext
<1>8. MailsFollow' /\ Served'
  BY <1>1, <1>2, <1>3 DEF Inv, MailsFollow, Served
<1>9. HandTypes'
  BY <1>1 DEF Inv, HandTypes, threads
<1> QED BY <1>1, <1>4, <1>5, <1>6, <1>7, <1>8, <1>9, KeptParts DEF Inv, threads

(* What a posted form writes. *)
LEMMA WithNewIs ==
    ASSUME Inv, NEW t \in Posting, PostRight(t), t.new # "no" => next <= MaxId, Refers(t.row)
    PROVE  /\ WithNew(t) \in ReqRow
           /\ WithNew(t).lead = IF t.new = "lead" THEN next ELSE t.row.lead
           /\ WithNew(t).contact = IF t.new = "contact" THEN next ELSE t.row.contact
           /\ WithNew(t).company = t.row.company /\ WithNew(t).deal = t.row.deal
           /\ WithNew(t).pending = t.row.pending
           /\ WithNew(t).lead = Nobody \/ WithNew(t).contact = Nobody
           /\ t.new # "no" => next \in Ids /\ t.row.lead = Nobody /\ t.row.contact = Nobody
           /\ ~WithNew(t).pending => HasClient(WithNew(t)) \/ WithNew(t).company # NoCompany
<1>1. t.row \in ReqRow /\ t.new \in {"no", "lead", "contact"}
  BY DEF Posting
<1>2. t.new # "no" => next \in Ids /\ next # Nobody
  <2>1. next \in 3..(MaxId + 1)
    BY DEF Inv, IdsOnce
  <2> QED BY <2>1, RequestsAssumption DEF Ids, Nobody
<1>3. t.new # "no" => t.row.lead = Nobody /\ t.row.contact = Nobody
  BY DEF PostRight, HasClient
<1>4. CASE t.new = "no"
  BY <1>1, <1>4 DEF WithNew, PostRight
<1>5. CASE t.new = "lead"
  <2>1. WithNew(t) = [t.row EXCEPT !.lead = next]
    BY <1>5 DEF WithNew
  <2> QED BY <1>1, <1>2, <1>3, <1>5, <2>1 DEF ReqRow, Key, HasClient
<1>6. CASE t.new = "contact"
  <2>1. WithNew(t) = [t.row EXCEPT !.contact = next]
    BY <1>6 DEF WithNew
  <2> QED BY <1>1, <1>2, <1>3, <1>6, <2>1 DEF ReqRow, Key, HasClient
<1> QED BY <1>1, <1>4, <1>5, <1>6

LEMMA ChangedIs ==
    ASSUME NEW t, NEW row \in ReqRow, NEW d \in DealRow
    PROVE  /\ Changed(t, row, d) \in DealRow
           /\ Changed(t, row, d).lead = IF "lead" \in t.changed /\ row.lead # Nobody
                                        THEN row.lead ELSE d.lead
           /\ Changed(t, row, d).contact = IF "contact" \in t.changed /\ row.contact # Nobody
                                           THEN row.contact ELSE d.contact
           /\ Changed(t, row, d).partner = d.partner
<1> DEFINE l == IF "lead" \in t.changed /\ row.lead # Nobody THEN row.lead ELSE d.lead
           c == IF "contact" \in t.changed /\ row.contact # Nobody THEN row.contact ELSE d.contact
<1>1. l \in Key /\ c \in Key
  BY DEF ReqRow, DealRow
<1>2. Changed(t, row, d) = [d EXCEPT !.lead = l, !.contact = c]
  BY DEF Changed, DealRow
<1> HIDE DEF l, c
<1>3. /\ Changed(t, row, d) \in DealRow /\ Changed(t, row, d).lead = l
      /\ Changed(t, row, d).contact = c /\ Changed(t, row, d).partner = d.partner
  BY <1>1, <1>2 DEF DealRow
<1> QED BY <1>3 DEF l, c

LEMMA DealOfIs ==
    ASSUME Inv, NEW r, NEW row \in ReqRow
    PROVE  /\ DealOf(r, row) \in DealRow
           /\ r \in DOMAIN deal => DealOf(r, row) = deal[r]
           /\ r \notin DOMAIN deal =>
                 /\ DealOf(r, row).lead = IF row.contact = Nobody THEN row.lead ELSE Nobody
                 /\ DealOf(r, row).contact = row.contact
                 /\ DealOf(r, row).partner = Nobody
<1>1. CASE r \in DOMAIN deal
  BY <1>1 DEF DealOf, Inv, RowTypes
<1>2. CASE r \notin DOMAIN deal
  BY <1>2 DEF DealOf, DealRow, ReqRow, Key
<1> QED BY <1>1, <1>2

LEMMA MailsFiled ==
    ASSUME Inv, NEW t, NEW row \in ReqRow
    PROVE  LET f == Filed(t, row, Mailed(t, row)) IN
           /\ DOMAIN f = DOMAIN mail
           /\ \A m \in DOMAIN mail :
                 /\ f[m] \in MailRow
                 /\ m[1] # t.r => f[m] = mail[m]
                 /\ f[m].lead = mail[m].lead \/ (m[1] = t.r /\ f[m].lead = row.lead)
                 /\ f[m].contact = mail[m].contact
                 /\ f[m].late = mail[m].late
                 /\ mail[m].deal => f[m].deal
                 /\ f[m].deal => mail[m].deal \/ (m[1] = t.r /\ (row.deal \/ CreatesDeal(t, row)))
                 /\ m[1] = t.r /\ CreatesDeal(t, row) => f[m].deal
<1> DEFINE g == Mailed(t, row)
           f == Filed(t, row, g)
<1>1. /\ DOMAIN g = DOMAIN mail
      /\ \A m \in DOMAIN mail :
            g[m] = IF m = <<t.r, "inquiry">> /\ ~row.pending /\ ~mail[m].deal
                   THEN [mail[m] EXCEPT !.deal = row.deal, !.lead = row.lead] ELSE mail[m]
  BY DEF Mailed
<1> HIDE DEF g
<1>2. \A m \in DOMAIN mail :
         /\ g[m] \in MailRow
         /\ m[1] # t.r => g[m] = mail[m]
         /\ g[m].lead = mail[m].lead \/ (m[1] = t.r /\ g[m].lead = row.lead)
         /\ g[m].contact = mail[m].contact /\ g[m].late = mail[m].late
         /\ mail[m].deal => g[m].deal
         /\ g[m].deal => mail[m].deal \/ (m[1] = t.r /\ row.deal)
  <2> SUFFICES ASSUME NEW m \in DOMAIN mail
               PROVE  /\ g[m] \in MailRow
                      /\ m[1] # t.r => g[m] = mail[m]
                      /\ g[m].lead = mail[m].lead \/ (m[1] = t.r /\ g[m].lead = row.lead)
                      /\ g[m].contact = mail[m].contact /\ g[m].late = mail[m].late
                      /\ mail[m].deal => g[m].deal
                      /\ g[m].deal => mail[m].deal \/ (m[1] = t.r /\ row.deal)
    OBVIOUS
  <2>1. mail[m] \in MailRow
    BY DEF Inv, RowTypes
  <2>2. CASE m = <<t.r, "inquiry">> /\ ~row.pending /\ ~mail[m].deal
    <3>1. g[m] = [mail[m] EXCEPT !.deal = row.deal, !.lead = row.lead] /\ m[1] = t.r
      BY <1>1, <2>2
    <3> QED BY <2>1, <2>2, <3>1 DEF MailRow, ReqRow
  <2>3. CASE ~(m = <<t.r, "inquiry">> /\ ~row.pending /\ ~mail[m].deal)
    BY <1>1, <2>1, <2>3
  <2> QED BY <2>2, <2>3
<1>3. /\ DOMAIN f = DOMAIN mail
      /\ \A m \in DOMAIN mail :
            f[m] = IF m[1] = t.r /\ CreatesDeal(t, row) THEN [g[m] EXCEPT !.deal = TRUE] ELSE g[m]
  BY <1>1 DEF Filed
<1> HIDE DEF f
<1>4. \A m \in DOMAIN mail :
         /\ f[m] \in MailRow /\ f[m].lead = g[m].lead /\ f[m].contact = g[m].contact
         /\ f[m].late = g[m].late
         /\ m[1] = t.r /\ CreatesDeal(t, row) => f[m].deal
         /\ ~(m[1] = t.r /\ CreatesDeal(t, row)) => f[m] = g[m]
  BY <1>2, <1>3 DEF MailRow
<1>5. /\ DOMAIN f = DOMAIN mail
      /\ \A m \in DOMAIN mail :
            /\ f[m] \in MailRow
            /\ m[1] # t.r => f[m] = mail[m]
            /\ f[m].lead = mail[m].lead \/ (m[1] = t.r /\ f[m].lead = row.lead)
            /\ f[m].contact = mail[m].contact
            /\ f[m].late = mail[m].late
            /\ mail[m].deal => f[m].deal
            /\ f[m].deal => mail[m].deal \/ (m[1] = t.r /\ (row.deal \/ CreatesDeal(t, row)))
            /\ m[1] = t.r /\ CreatesDeal(t, row) => f[m].deal
  BY <1>2, <1>3, <1>4
<1> QED BY <1>5 DEF f, g

LEMMA LinkedIs ==
    ASSUME NEW t, NEW row \in ReqRow
    PROVE  /\ Linked(t, row) \in ReqRow
           /\ Linked(t, row).lead = row.lead /\ Linked(t, row).contact = row.contact
           /\ Linked(t, row).company = row.company /\ Linked(t, row).pending = row.pending
           /\ Linked(t, row).deal <=> row.deal \/ CreatesDeal(t, row)
BY DEF Linked, ReqRow

(* A client is made. *)
LEMMA ClientMade ==
    ASSUME Inv, NEW n \in {"no", "lead", "contact"}, NEW firm \in Firms,
           n # "no" => next <= MaxId, n = "contact" => firm # NoCompany,
           IF n = "no" THEN UNCHANGED <<lead, contact, next>>
           ELSE /\ next' = next + 1
                /\ lead' = IF n = "lead" THEN lead \cup {next} ELSE lead
                /\ contact' = IF n = "contact" THEN Put(contact, next, firm) ELSE contact,
           merge' = merge
    PROVE  /\ lead' = lead \cup (IF n = "lead" THEN {next} ELSE {})
           /\ DOMAIN contact' = DOMAIN contact \cup (IF n = "contact" THEN {next} ELSE {})
           /\ lead' \subseteq Ids /\ DOMAIN contact' \subseteq Ids /\ lead' \cap DOMAIN contact' = {}
           /\ \A c \in DOMAIN contact' : contact'[c] \in Companies
           /\ IdsOnce'
           /\ merge # NoMerge => (There(merge.kind, merge.orig)' => There(merge.kind, merge.orig))
           /\ merge # NoMerge => next \notin {merge.dup, merge.orig}
<1>1. /\ lead' = lead \cup (IF n = "lead" THEN {next} ELSE {})
      /\ DOMAIN contact' = DOMAIN contact \cup (IF n = "contact" THEN {next} ELSE {})
      /\ \A c \in DOMAIN contact : c # next => contact'[c] = contact[c]
      /\ n = "contact" => contact'[next] = firm
      /\ next' \in {next, next + 1} /\ (n # "no" => next' = next + 1)
  <2>1. n = "contact" => /\ DOMAIN contact' = DOMAIN contact \cup {next}
                         /\ contact'[next] = firm
                         /\ \A c \in DOMAIN contact : c # next => contact'[c] = contact[c]
    BY DEF Put
  <2> QED BY <2>1
<1>2. /\ next \in 3..(MaxId + 1) /\ MaxId \in Nat
      /\ \A i \in lead \cup DOMAIN contact : i \in 1..(next - 1) /\ i # next
      /\ lead \subseteq Ids /\ DOMAIN contact \subseteq Ids /\ lead \cap DOMAIN contact = {}
  BY RequestsAssumption DEF Inv, IdsOnce, TypeOK, Clients, Given
<1>3. n # "no" => next \in Ids
  BY <1>2 DEF Ids
<1>4. lead' \subseteq Ids /\ DOMAIN contact' \subseteq Ids /\ lead' \cap DOMAIN contact' = {}
  BY <1>1, <1>2, <1>3
<1>5. \A c \in DOMAIN contact' : contact'[c] \in Companies
  BY <1>1, <1>2 DEF Inv, TypeOK, Firms
<1>6. merge # NoMerge => /\ merge.dup \in 1..(next - 1) /\ merge.orig \in 1..(next - 1)
                         /\ next \notin {merge.dup, merge.orig}
  BY <1>2 DEF Inv, IdsOnce, Given
<1>7. Given \subseteq Given'
  <2>1. CASE n = "no"
    BY <1>1, <2>1 DEF Given
  <2>2. CASE n # "no"
    BY <1>1, <1>2, <2>2 DEF Given
  <2> QED BY <2>1, <2>2
<1>8. next' \in 3..(MaxId + 1) /\ (n # "no" => next \in Given')
  <2>1. CASE n = "no"
    BY <1>1, <1>2, <2>1
  <2>2. CASE n # "no"
    BY <1>1, <1>2, <2>2 DEF Given
  <2> QED BY <2>1, <2>2
<1>9. IdsOnce'
  <2>1. Clients' \subseteq Given'
    BY <1>1, <1>7, <1>8 DEF Inv, IdsOnce, Clients
  <2>2. merge # NoMerge => {merge.dup, merge.orig} \subseteq Given'
    BY <1>7 DEF Inv, IdsOnce
  <2>3. merge # NoMerge =>
           /\ merge.dup # merge.orig
           /\ merge.kind = "lead" => {merge.dup, merge.orig} \cap DOMAIN contact' = {}
           /\ merge.kind = "contact" => /\ {merge.dup, merge.orig} \subseteq DOMAIN contact'
                                        /\ merge.company \in Companies
           /\ merge.kind = "contact" => {merge.dup, merge.orig} \cap lead' = {}
    BY <1>1, <1>6 DEF Inv, IdsOnce
  <2> QED BY <1>8, <2>1, <2>2, <2>3 DEF IdsOnce
<1>10. merge # NoMerge => (There(merge.kind, merge.orig)' => There(merge.kind, merge.orig))
  <2> SUFFICES ASSUME merge # NoMerge, There(merge.kind, merge.orig)'
               PROVE  There(merge.kind, merge.orig)
    OBVIOUS
  <2> QED BY <1>1, <1>6 DEF There
<1> QED BY <1>1, <1>4, <1>5, <1>6, <1>9, <1>10

(* The keys of z are those of rows there will be. *)
RefersNext(z) == z.lead \in lead' \cup {Nobody} /\ z.contact \in DOMAIN contact' \cup {Nobody}

LEMMA CommitPostKeeps == ASSUME Inv, NEW u \in Users, CommitPost(u) PROVE Inv'
<1> DEFINE t == tx[u]
           r == t.r
           row == WithNew(t)
           x == Linked(t, row)
           has == row.deal \/ CreatesDeal(t, row)
           d == DealOf(r, row)
           D == Changed(t, row, d)
           f == Filed(t, row, Mailed(t, row))
<1>1. /\ t.kind = "post" /\ (t.new # "no" => next <= MaxId)
      /\ Refers(t.row) /\ (row.deal => r \in DOMAIN deal)
      /\ IF t.new = "no" THEN UNCHANGED <<lead, contact, next>>
         ELSE /\ next' = next + 1
              /\ lead' = IF t.new = "lead" THEN lead \cup {next} ELSE lead
              /\ contact' = IF t.new = "contact" THEN Put(contact, next, row.company) ELSE contact
      /\ request' = Put(request, r, x)
      /\ deal' = IF has THEN Put(deal, r, D) ELSE deal
      /\ mail' = f
  BY DEF CommitPost
<1>2. /\ raced' = (raced \/ (t.new # "no" /\ t.alone /\ Clients # {}))
      /\ stale' = IF r \notin DOMAIN request \/ t.outdated \/ request[r] # t.old
                     \/ (t.emptied /\ r \in DOMAIN deal)
                  THEN stale \cup {r} ELSE stale
      /\ kept' = IF r \in DOMAIN deal /\ deal[r].lead # Nobody /\ row.lead = Nobody
                 THEN kept \cup {r} ELSE kept
      /\ late' = IF Doomed(row) THEN late \cup {r} ELSE late
      /\ tx' = [tx EXCEPT ![u] = NoTx] /\ page' = [page EXCEPT ![u] = NoPage]
      /\ UNCHANGED <<threads, merge>>
  BY DEF CommitPost
<1>3. t \in Posting /\ PostRight(t) /\ Arrived(r) /\ r \in Reqs
  BY <1>1 DEF Inv, HandTypes, PostsRight, InquiryFirst, Posting, Converting, NoTx
<1>4. t.new \in {"no", "lead", "contact"} /\ t.row \in ReqRow /\ t.old \in ReqRow
      /\ t.outdated \in BOOLEAN /\ t.emptied \in BOOLEAN
  BY <1>3 DEF Posting
<1> HIDE DEF t, r
<1>5. /\ row \in ReqRow
      /\ row.lead = IF t.new = "lead" THEN next ELSE t.row.lead
      /\ row.contact = IF t.new = "contact" THEN next ELSE t.row.contact
      /\ row.company = t.row.company /\ row.deal = t.row.deal /\ row.pending = t.row.pending
      /\ row.lead = Nobody \/ row.contact = Nobody
      /\ t.new # "no" => next \in Ids /\ t.row.lead = Nobody /\ t.row.contact = Nobody
      /\ ~row.pending => HasClient(row) \/ row.company # NoCompany
  BY <1>1, <1>3, WithNewIs
<1> HIDE DEF row
<1>6. /\ x \in ReqRow /\ x.lead = row.lead /\ x.contact = row.contact
      /\ x.company = row.company /\ x.pending = row.pending /\ (x.deal <=> has)
  BY <1>5, LinkedIs
<1>7. /\ d \in DealRow
      /\ r \in DOMAIN deal => d = deal[r]
      /\ r \notin DOMAIN deal => /\ d.lead = IF row.contact = Nobody THEN row.lead ELSE Nobody
                                 /\ d.contact = row.contact
                                 /\ d.partner = Nobody
  BY <1>5, DealOfIs
<1>8. /\ D \in DealRow
      /\ D.lead = IF "lead" \in t.changed /\ row.lead # Nobody THEN row.lead ELSE d.lead
      /\ D.contact = IF "contact" \in t.changed /\ row.contact # Nobody
                     THEN row.contact ELSE d.contact
      /\ D.partner = d.partner
  <2> HIDE DEF d
  <2> QED BY <1>5, <1>7, ChangedIs
<1>9. /\ DOMAIN f = DOMAIN mail
      /\ \A m \in DOMAIN mail :
            /\ f[m] \in MailRow
            /\ m[1] # r => f[m] = mail[m]
            /\ f[m].lead = mail[m].lead \/ (m[1] = r /\ f[m].lead = row.lead)
            /\ f[m].contact = mail[m].contact
            /\ f[m].late = mail[m].late
            /\ mail[m].deal => f[m].deal
            /\ f[m].deal => mail[m].deal \/ (m[1] = r /\ has)
            /\ m[1] = r /\ CreatesDeal(t, row) => f[m].deal
  BY <1>5, MailsFiled DEF r
<1>10. CreatesDeal(t, row) => ~row.pending
  BY DEF CreatesDeal
<1>11. has = (row.deal \/ CreatesDeal(t, row))
  OBVIOUS
<1> HIDE DEF x, d, D, f, has
<1>12. /\ DOMAIN request' = DOMAIN request \cup {r} /\ request'[r] = x
       /\ \A q \in DOMAIN request : q # r => request'[q] = request[q]
  BY <1>1 DEF Put
<1>13. /\ DOMAIN deal' = DOMAIN deal \cup (IF has THEN {r} ELSE {})
       /\ has => deal'[r] = D
       /\ ~has => deal' = deal
       /\ \A q \in DOMAIN deal : q # r => deal'[q] = deal[q]
  <2>1. has => DOMAIN deal' = DOMAIN deal \cup {r} /\ deal'[r] = D
               /\ \A q \in DOMAIN deal : q # r => deal'[q] = deal[q]
    BY <1>1 DEF Put
  <2> QED BY <1>1, <2>1
<1>14. /\ lead' = lead \cup (IF t.new = "lead" THEN {next} ELSE {})
       /\ DOMAIN contact' = DOMAIN contact \cup (IF t.new = "contact" THEN {next} ELSE {})
       /\ lead' \subseteq Ids /\ DOMAIN contact' \subseteq Ids /\ lead' \cap DOMAIN contact' = {}
       /\ \A c \in DOMAIN contact' : contact'[c] \in Companies
       /\ IdsOnce'
       /\ merge # NoMerge => (There(merge.kind, merge.orig)' => There(merge.kind, merge.orig))
       /\ merge # NoMerge => next \notin {merge.dup, merge.orig}
  <2>1. row.company \in Firms /\ (t.new = "contact" => row.company # NoCompany)
    BY <1>3, <1>5 DEF ReqRow, PostRight
  <2> QED BY <1>1, <1>2, <1>4, <2>1, ClientMade
<1>15. /\ lead \subseteq lead' /\ DOMAIN contact \subseteq DOMAIN contact'
       /\ \A z : Refers(z) => RefersNext(z)
  BY <1>14 DEF Refers, RefersNext
<1>16. RefersNext(x) /\ (has => RefersNext(D)) /\ row.lead \in lead' \cup {Nobody}
       /\ row.contact \in DOMAIN contact' \cup {Nobody}
  <2>1. /\ row.lead \in lead' \cup {Nobody} /\ row.contact \in DOMAIN contact' \cup {Nobody}
    BY <1>1, <1>4, <1>5, <1>14 DEF Refers
  <2>2. RefersNext(d)
    <3>1. CASE r \in DOMAIN deal
      BY <1>7, <1>15, <3>1 DEF Inv, TypeOK
    <3>2. CASE r \notin DOMAIN deal
      BY <1>7, <2>1, <3>2 DEF RefersNext
    <3> QED BY <3>1, <3>2
  <2> QED BY <1>6, <1>8, <2>1, <2>2 DEF RefersNext
<1>17. late \subseteq late' /\ stale \subseteq stale' /\ kept \subseteq kept' /\ (raced => raced')
  BY <1>2
<1>18. DOMAIN deal \subseteq DOMAIN request
  BY DEF Inv, TypeOK
<1>19. r \notin stale' => /\ r \in DOMAIN request /\ ~t.outdated /\ request[r] = t.old /\ r \notin stale
                          /\ r \in DOMAIN deal => ~t.emptied
  BY <1>2
<1>20. r \notin stale' /\ r \in DOMAIN deal =>
          /\ has /\ row = t.row /\ ~row.pending
          /\ request[r].deal /\ ~request[r].pending
          /\ \A k \in Kinds : k \notin t.changed => row[k] = request[r][k]
  <2> SUFFICES ASSUME r \notin stale', r \in DOMAIN deal
               PROVE  /\ has /\ row = t.row /\ ~row.pending
                      /\ request[r].deal /\ ~request[r].pending
                      /\ \A k \in Kinds : k \notin t.changed => row[k] = request[r][k]
    OBVIOUS
  <2>1. request[r].deal /\ ~request[r].pending
    BY <1>19 DEF Inv, DealShown
  <2>2. t.new = "no" /\ row = t.row
    BY <1>3, <1>19 DEF PostRight, row, WithNew
  <2>3. has /\ ~row.pending
    BY <1>3, <1>5, <1>11, <1>19, <2>1, <2>2 DEF PostRight
  <2>4. \A k \in Kinds : k \notin t.changed => row[k] = request[r][k]
    BY <1>3, <1>19, <2>2 DEF PostRight
  <2> QED BY <2>1, <2>2, <2>3, <2>4
<1>21. RowTypes'
  BY <1>1, <1>6, <1>8, <1>9, <1>12, <1>13 DEF Inv, RowTypes
<1>22. HandTypes' /\ PostsRight' /\ \A v \in Users : tx'[v] = IF v = u THEN NoTx ELSE tx[v]
  BY <1>2, TxEnds DEF threads
<1>23. InquiryFirst'
  <2>1. \A q : Arrived(q)' <=> Arrived(q)
    BY <1>2 DEF Arrived, threads
  <2>2. \A v \in Users : page'[v] \in {page[v], NoPage}
    BY <1>2 DEF Inv, HandTypes
  <2>3. NoTx.kind # "post"
    BY DEF NoTx
  <2> QED BY <1>2, <1>3, <1>12, <1>22, <2>1, <2>2, <2>3 DEF Inv, InquiryFirst, threads
<1>24. ConvertsRight'
  <2>1. NoTx.kind # "convert"
    BY DEF NoTx
  <2>2. \A v \in Users : tx'[v].kind = "convert" => tx[v].kind = "convert" /\ tx'[v] = tx[v]
    BY <1>22, <2>1
  <2>3. \A z : ConvertRight(z) => ConvertRight(z)'
    <3> SUFFICES ASSUME NEW z, ConvertRight(z) PROVE ConvertRight(z)'
      OBVIOUS
    <3>1. ~raced' => t.new = "no" /\ ~raced
      <4>1. Clients # {}
        BY DEF ConvertRight, Clients
      <4>2. t.new # "no" => t.alone
        BY <1>3 DEF PostRight
      <4> QED BY <1>2, <4>1, <4>2
    <3>2. t.new = "no" => contact' = contact
      BY <1>1
    <3>3. z.lead \in lead'
      BY <1>15 DEF ConvertRight
    <3> QED BY <3>1, <3>2, <3>3 DEF ConvertRight
  <2> QED BY <2>2, <2>3 DEF Inv, ConvertsRight
<1>25. TypeOK'
  <2>1. DOMAIN request' \subseteq Reqs /\ DOMAIN deal' \subseteq DOMAIN request'
    BY <1>3, <1>12, <1>13 DEF Inv, TypeOK
  <2>2. \A q \in DOMAIN request' : RefersNext(request'[q]) /\ (request'[q].deal => q \in DOMAIN deal')
    BY <1>6, <1>12, <1>13, <1>15, <1>16 DEF Inv, TypeOK
  <2>3. \A q \in DOMAIN deal' : RefersNext(deal'[q])
                                /\ deal'[q].partner \in DOMAIN contact' \cup {Nobody}
    <3>1. has => D.partner \in DOMAIN contact' \cup {Nobody}
      BY <1>7, <1>8, <1>15 DEF Inv, TypeOK
    <3> QED BY <1>13, <1>15, <1>16, <3>1 DEF Inv, TypeOK
  <2>4. \A m \in DOMAIN mail' : RefersNext(mail'[m]) /\ (mail'[m].deal => m[1] \in DOMAIN deal')
                                /\ m[1] \in DOMAIN request'
    <3>1. \A m \in DOMAIN mail : RefersNext(f[m])
      BY <1>9, <1>15, <1>16 DEF Inv, TypeOK, Refers, RefersNext
    <3> QED BY <1>1, <1>9, <1>12, <1>13, <3>1 DEF Inv, TypeOK
  <2>5. DOMAIN mail' \subseteq MailIds
    BY <1>1, <1>9 DEF Inv, TypeOK
  <2> QED BY <1>14, <2>1, <2>2, <2>3, <2>4, <2>5 DEF TypeOK, Refers, RefersNext
<1>26. Moved'
  <2> SUFFICES ASSUME merge # NoMerge PROVE Moved'
    BY <1>2 DEF Moved
  <2> DEFINE k == merge.kind
  <2>1. k \in Kinds /\ merge.dup # Nobody /\ merge.orig # Nobody
    BY NobodyIsNoId DEF Inv, HandTypes, Merging
  <2>2. r \notin late' => row[k] # merge.dup
    BY <1>2, <2>1 DEF Doomed
  <2>3. ~There(k, merge.orig)' => ~There(k, merge.orig) /\ row[k] # merge.orig
    <3>1. There(k, merge.orig) => There(k, merge.orig)'
      BY <1>2, <1>15 DEF There
    <3> QED BY <1>2, <1>16, <2>1, <3>1 DEF There, Kinds
  <2>4. \A z : After(z)' <=> After(z)
    BY <1>2 DEF After
  <2>5. has => D[k] \in {row[k], Nobody} \/ (r \in DOMAIN deal /\ D[k] = deal[r][k])
    BY <1>7, <1>8, <2>1 DEF Kinds
  <2>6. x[k] = row[k]
    BY <1>6, <2>1 DEF Kinds
  <2>7. \A m \in DOMAIN mail : mail'[m][k] = mail[m][k] \/ (m[1] = r /\ mail'[m][k] = row[k])
    BY <1>1, <1>9, <2>1 DEF Kinds
  <2>8. DOMAIN mail' = DOMAIN mail
    BY <1>1, <1>9
  <2>9. After("request")' => \A q \in DOMAIN request' \ late' : request'[q][k] # merge.dup
    BY <1>12, <1>17, <2>2, <2>4, <2>6 DEF Inv, Moved
  <2>10. After("deal")' => \A q \in DOMAIN deal' \ late' : deal'[q][k] # merge.dup
    BY <1>13, <1>17, <2>1, <2>2, <2>4, <2>5 DEF Inv, Moved
  <2>11. After("mail")' => \A m \in DOMAIN mail' : m[1] \notin late' => mail'[m][k] # merge.dup
    BY <1>17, <2>2, <2>4, <2>7, <2>8 DEF Inv, Moved
  <2>12. ~There(k, merge.orig)' /\ merge.step <= Len(Tables(k)) + 1 =>
            /\ \A q \in DOMAIN request' \ late' : request'[q][k] \notin {merge.dup, merge.orig}
            /\ \A q \in DOMAIN deal' \ late' : deal'[q][k] \notin {merge.dup, merge.orig}
    <3> SUFFICES ASSUME ~There(k, merge.orig)', merge.step <= Len(Tables(k)) + 1
                 PROVE  /\ \A q \in DOMAIN request' \ late' : request'[q][k] \notin {merge.dup, merge.orig}
                        /\ \A q \in DOMAIN deal' \ late' : deal'[q][k] \notin {merge.dup, merge.orig}
      OBVIOUS
    <3>1. /\ \A q \in DOMAIN request \ late : request[q][k] \notin {merge.dup, merge.orig}
          /\ \A q \in DOMAIN deal \ late : deal[q][k] \notin {merge.dup, merge.orig}
      BY <2>3 DEF Inv, Moved
    <3> QED BY <1>12, <1>13, <1>17, <2>1, <2>2, <2>3, <2>5, <2>6, <3>1
  <2> QED BY <1>2, <2>9, <2>10, <2>11, <2>12 DEF Moved
<1>27. \A q \in DOMAIN deal : q # r => /\ SameAt(q) => SameAt(q)'
                                       /\ LeadAt(q) => LeadAt(q)'
  <2> SUFFICES ASSUME NEW q \in DOMAIN deal, q # r
               PROVE  /\ SameAt(q) => SameAt(q)'
                      /\ LeadAt(q) => LeadAt(q)'
    OBVIOUS
  <2> QED BY <1>2, <1>12, <1>13, <1>17, <1>18, AtKept
<1>28. SameClient'
  <2>1. \A z \in DOMAIN deal' \ (stale' \cup late') : z = r => SameAt(z)'
    <3> SUFFICES ASSUME NEW z, z = r, r \in DOMAIN deal', r \notin stale', r \notin late',
                        NEW k \in Kinds, request'[z][k] # Nobody
                 PROVE  \/ deal'[z][k] = request'[z][k]
                        \/ merge'.kind = k /\ {deal'[z][k], request'[z][k]} = {merge'.dup, merge'.orig}
                        \/ raced' /\ z \in kept'
      BY DEF SameAt
    <3>1. request'[r][k] = row[k] /\ row[k] # Nobody
      BY <1>6, <1>12 DEF Kinds
    <3>2. CASE r \notin DOMAIN deal
      <4>1. deal'[r] = D
        BY <1>13, <3>2
      <4>2. D[k] = row[k]
        BY <1>5, <1>7, <1>8, <3>1, <3>2 DEF Kinds
      <4> QED BY <3>1, <4>1, <4>2
    <3>3. CASE r \in DOMAIN deal
      <4>1. deal'[r] = D
        BY <1>13, <1>20, <3>3
      <4>2. CASE k \in t.changed
        <5>1. D[k] = row[k]
          BY <1>8, <3>1, <4>2 DEF Kinds
        <5> QED BY <3>1, <4>1, <5>1
      <4>3. CASE k \notin t.changed
        <5>1. D[k] = deal[r][k] /\ row[k] = request[r][k]
          BY <1>7, <1>8, <1>20, <3>3, <4>3 DEF Kinds
        <5>2. SameAt(r)
          BY <1>17, <3>3, At DEF Inv
        <5> QED BY <1>2, <1>17, <3>1, <4>1, <5>1, <5>2 DEF SameAt
      <4> QED BY <4>2, <4>3
    <3> QED BY <3>2, <3>3
  <2>2. \A q \in DOMAIN deal' \ (stale' \cup late') : SameAt(q)'
    <3> SUFFICES ASSUME NEW q, q \in DOMAIN deal' \ (stale' \cup late'), q # r PROVE SameAt(q)'
      BY <2>1
    <3>1. q \in DOMAIN deal \ (stale \cup late)
      BY <1>13, <1>17
    <3>2. SameAt(q)
      BY <3>1, At DEF Inv
    <3> QED BY <1>27, <3>1, <3>2
  <2> QED BY <2>2, AtNext
<1>29. LeadFollows'
  <2>1. \A z \in DOMAIN deal' \ (stale' \cup late' \cup kept') : z = r => LeadAt(z)'
    <3> SUFFICES ASSUME NEW z, z = r, r \in DOMAIN deal', r \notin stale', r \notin late',
                        r \notin kept', deal'[z].lead # Nobody
                 PROVE  \/ deal'[z].lead = request'[z].lead
                        \/ merge'.kind = "lead" /\
                           {deal'[z].lead, request'[z].lead} = {merge'.dup, merge'.orig}
      BY DEF LeadAt
    <3>1. request'[r].lead = row.lead
      BY <1>6, <1>12
    <3>2. CASE r \notin DOMAIN deal
      <4>1. deal'[r] = D
        BY <1>13, <3>2
      <4> QED BY <1>7, <1>8, <3>1, <3>2, <4>1
    <3>3. CASE r \in DOMAIN deal
      <4>1. deal'[r] = D /\ (deal[r].lead # Nobody => row.lead # Nobody)
        BY <1>2, <1>13, <1>20, <3>3
      <4>2. CASE "lead" \in t.changed
        BY <1>7, <1>8, <3>1, <3>3, <4>1, <4>2
      <4>3. CASE "lead" \notin t.changed
        <5>1. D.lead = deal[r].lead /\ row.lead = request[r].lead
          BY <1>7, <1>8, <1>20, <3>3, <4>3 DEF Kinds
        <5>2. LeadAt(r)
          BY <1>17, <3>3, At DEF Inv
        <5> QED BY <1>2, <3>1, <4>1, <5>1, <5>2 DEF LeadAt
      <4> QED BY <4>2, <4>3
    <3> QED BY <3>2, <3>3
  <2>2. \A q \in DOMAIN deal' \ (stale' \cup late' \cup kept') : LeadAt(q)'
    <3> SUFFICES ASSUME NEW q, q \in DOMAIN deal' \ (stale' \cup late' \cup kept'), q # r PROVE LeadAt(q)'
      BY <2>1
    <3>1. q \in DOMAIN deal \ (stale \cup late \cup kept)
      BY <1>13, <1>17
    <3>2. LeadAt(q)
      BY <3>1, At DEF Inv
    <3> QED BY <1>27, <3>1, <3>2
  <2> QED BY <2>2, AtNext
<1>30. DealShown'
  <2> SUFFICES ASSUME NEW q, q \in DOMAIN deal', q \notin stale'
               PROVE  request'[q].deal /\ ~request'[q].pending
    BY DEF DealShown
  <2>1. CASE q # r
    <3>1. q \in DOMAIN deal \ stale /\ request'[q] = request[q]
      BY <1>12, <1>13, <1>17, <1>18, <2>1
    <3> QED BY <3>1 DEF Inv, DealShown
  <2>2. CASE q = r
    <3>1. has
      BY <1>13, <1>20, <2>2
    <3>2. request'[q] = x
      BY <1>12, <2>2
    <3>3. ~row.pending
      BY <1>1, <1>6, <1>10, <1>11, <1>20, <2>2, <3>1
    <3> QED BY <1>1, <1>6, <1>10, <1>11, <3>1, <3>2, <3>3
  <2> QED BY <2>1, <2>2
<1>31. MailsFollow'
  <2>1. \A m \in DOMAIN mail : m[1] \in DOMAIN deal' => f[m].deal \/ f[m].late
    <3> SUFFICES ASSUME NEW m \in DOMAIN mail, m[1] \in DOMAIN deal' PROVE f[m].deal \/ f[m].late
      OBVIOUS
    <3>1. CASE m[1] \in DOMAIN deal
      BY <1>9, <3>1 DEF Inv, MailsFollow
    <3>2. CASE m[1] \notin DOMAIN deal
      BY <1>1, <1>9, <1>11, <1>13, <3>2
    <3> QED BY <3>1, <3>2
  <2> QED BY <1>1, <1>9, <2>1 DEF MailsFollow
<1>32. Served'
  BY <1>5, <1>6, <1>12, <1>17 DEF Inv, Served, HasClient
<1> QED BY <1>14, <1>21, <1>22, <1>23, <1>24, <1>25, <1>26, <1>28, <1>29, <1>30, <1>31, <1>32 DEF Inv
-----------------------------------------------------------------------------
(* The conversion of a lead. *)
LEMMA IdsFinite == \A S : S \subseteq Ids => IsFiniteSet(S)
<1>1. 1 \in Int /\ MaxId \in Int
  BY RequestsAssumption
<1>2. IsFiniteSet(Ids)
  BY <1>1, FS_Interval DEF Ids
<1> QED BY <1>2, FS_Subset

LEMMA LoadConvertKeeps == ASSUME Inv, NEW u \in Users, NEW l \in Ids, LoadConvert(u, l) PROVE Inv'
<1>1. PICK firm \in Companies :
         tx' = [tx EXCEPT ![u] = [kind |-> "convert", lead |-> l, company |-> firm,
                                  contact |-> ConvertTo, alone |-> DOMAIN contact = {}]]
  BY DEF LoadConvert
<1>2. /\ l \in lead \ Locked /\ Cardinality(DOMAIN contact) <= 1
      /\ UNCHANGED <<rows, threads, page, merge, history>>
  BY DEF LoadConvert
<1> DEFINE c == ConvertTo
           none == DOMAIN contact = {}
           t == [kind |-> "convert", lead |-> l, company |-> firm, contact |-> c, alone |-> none]
<1>3. c \in Key /\ (none <=> c = Nobody) /\ (c # Nobody => DOMAIN contact = {c})
  <2>1. CASE none
    BY <2>1 DEF ConvertTo, Key
  <2>2. CASE ~none
    <3>1. DOMAIN contact \in SUBSET Ids
      BY DEF Inv, TypeOK
    <3>2. c \in DOMAIN contact
      BY <2>2, <3>1, MinIsIn DEF ConvertTo
    <3>3. DOMAIN contact = {c}
      <4>1. IsFiniteSet(DOMAIN contact)
        BY <3>1, IdsFinite
      <4>2. Cardinality(DOMAIN contact) \in Nat /\ Cardinality(DOMAIN contact) # 0
        BY <4>1, <3>2, FS_CardinalityType, FS_EmptySet
      <4>3. Cardinality(DOMAIN contact) = 1
        BY <4>2, <1>2
      <4> QED BY <4>1, <4>3, <3>2, FS_Singleton
    <3> QED BY <2>2, <3>1, <3>2, <3>3, NobodyIsNoId DEF Key
  <2> QED BY <2>1, <2>2
<1>4. none \in BOOLEAN
  OBVIOUS
<1> HIDE DEF c, none
<1>5. t \in Converting
  BY <1>3, <1>4 DEF Converting
<1>6. t.kind = "convert" /\ t.lead = l /\ t.contact = c /\ t.alone = none
  OBVIOUS
<1>7. ConvertRight(t)
  <2> HIDE DEF t
  <2> QED BY <1>2, <1>3, <1>6 DEF ConvertRight
<1>8. tx' = [tx EXCEPT ![u] = t]
  BY <1>1 DEF c, none
<1> HIDE DEF t
<1>9. HandTypes' /\ \A v \in Users : tx'[v] = IF v = u THEN t ELSE tx[v]
  BY <1>2, <1>5, <1>8 DEF Inv, HandTypes, threads
<1>10. PostsRight'
  <2>1. \A z : PostRight(z)' <=> PostRight(z)
    BY DEF PostRight
  <2> QED BY <1>6, <1>9, <2>1 DEF Inv, PostsRight
<1>11. InquiryFirst'
  <2>1. \A q : Arrived(q)' <=> Arrived(q)
    BY <1>2 DEF Arrived, threads
  <2> QED BY <1>2, <1>6, <1>9, <2>1 DEF Inv, InquiryFirst, threads, rows
<1>12. ConvertsRight'
  <2>1. \A z : ConvertRight(z)' <=> ConvertRight(z)
    BY <1>2 DEF ConvertRight, rows, history
  <2>2. \A v \in Users : tx[v].kind = "convert" => tx[v].lead # l
    BY <1>2 DEF Locked
  <2> QED BY <1>6, <1>7, <1>9, <2>1, <2>2 DEF Inv, ConvertsRight
<1> QED BY <1>2, <1>9, <1>10, <1>11, <1>12, KeptParts DEF Inv, rows, threads, history

LEMMA ConvertedIs ==
    ASSUME NEW f, NEW l, NEW c \in Key,
           \A q \in DOMAIN f : f[q] \in ReqRow \cup DealRow \cup MailRow
    PROVE  /\ DOMAIN Converted(f, l, c) = DOMAIN f
           /\ \A q \in DOMAIN f :
                 /\ f[q].lead # l => Converted(f, l, c)[q] = f[q]
                 /\ f[q].lead = l => /\ Converted(f, l, c)[q].lead = Nobody
                                     /\ Converted(f, l, c)[q].contact = c
                 /\ f[q] \in ReqRow => /\ Converted(f, l, c)[q] \in ReqRow
                                       /\ Converted(f, l, c)[q].company = f[q].company
                                       /\ Converted(f, l, c)[q].deal = f[q].deal
                                       /\ Converted(f, l, c)[q].pending = f[q].pending
                 /\ f[q] \in DealRow => /\ Converted(f, l, c)[q] \in DealRow
                                        /\ Converted(f, l, c)[q].partner = f[q].partner
                 /\ f[q] \in MailRow => /\ Converted(f, l, c)[q] \in MailRow
                                        /\ Converted(f, l, c)[q].deal = f[q].deal
                                        /\ Converted(f, l, c)[q].late = f[q].late
<1>1. /\ DOMAIN Converted(f, l, c) = DOMAIN f
      /\ \A q \in DOMAIN f : Converted(f, l, c)[q] =
            IF f[q].lead = l THEN [f[q] EXCEPT !.lead = Nobody, !.contact = c] ELSE f[q]
  BY DEF Converted
<1>2. Nobody \in Key
  BY DEF Key
<1>3. \A x \in ReqRow :
         LET y == [x EXCEPT !.lead = Nobody, !.contact = c] IN
         /\ y \in ReqRow /\ y.lead = Nobody /\ y.contact = c /\ y.company = x.company
         /\ y.deal = x.deal /\ y.pending = x.pending
  BY <1>2 DEF ReqRow
<1>4. \A x \in DealRow :
         LET y == [x EXCEPT !.lead = Nobody, !.contact = c] IN
         y \in DealRow /\ y.lead = Nobody /\ y.contact = c /\ y.partner = x.partner
  BY <1>2 DEF DealRow
<1>5. \A x \in MailRow :
         LET y == [x EXCEPT !.lead = Nobody, !.contact = c] IN
         y \in MailRow /\ y.lead = Nobody /\ y.contact = c /\ y.deal = x.deal /\ y.late = x.late
  BY <1>2 DEF MailRow
<1>6. SUFFICES ASSUME NEW q \in DOMAIN f
      PROVE  /\ f[q].lead # l => Converted(f, l, c)[q] = f[q]
             /\ f[q].lead = l => /\ Converted(f, l, c)[q].lead = Nobody
                                 /\ Converted(f, l, c)[q].contact = c
             /\ f[q] \in ReqRow => /\ Converted(f, l, c)[q] \in ReqRow
                                   /\ Converted(f, l, c)[q].company = f[q].company
                                   /\ Converted(f, l, c)[q].deal = f[q].deal
                                   /\ Converted(f, l, c)[q].pending = f[q].pending
             /\ f[q] \in DealRow => /\ Converted(f, l, c)[q] \in DealRow
                                    /\ Converted(f, l, c)[q].partner = f[q].partner
             /\ f[q] \in MailRow => /\ Converted(f, l, c)[q] \in MailRow
                                    /\ Converted(f, l, c)[q].deal = f[q].deal
                                    /\ Converted(f, l, c)[q].late = f[q].late
  BY <1>1
<1>7. CASE f[q].lead # l
  BY <1>1, <1>7
<1>8. CASE f[q].lead = l
  <2>1. Converted(f, l, c)[q] = [f[q] EXCEPT !.lead = Nobody, !.contact = c]
    BY <1>1, <1>8
  <2>2. f[q] \in ReqRow \/ f[q] \in DealRow \/ f[q] \in MailRow
    OBVIOUS
  <2>3. Converted(f, l, c)[q].lead = Nobody /\ Converted(f, l, c)[q].contact = c
    BY <1>3, <1>4, <1>5, <2>1, <2>2
  <2> QED BY <1>3, <1>4, <1>5, <1>8, <2>1, <2>3
<1> QED BY <1>7, <1>8

LEMMA CommitConvertKeeps == ASSUME Inv, NEW u \in Users, CommitConvert(u) PROVE Inv'
<1> DEFINE t == tx[u]
           l == t.lead
           new == t.contact = Nobody
           c == IF new THEN next ELSE t.contact
<1>1. /\ t.kind = "convert" /\ (new => next <= MaxId) /\ tx' = [tx EXCEPT ![u] = NoTx]
      /\ UNCHANGED <<threads, page, merge, stale, kept>>
  BY DEF CommitConvert
<1>2. t \in Converting /\ ConvertRight(t)
  BY <1>1 DEF Inv, HandTypes, ConvertsRight, Posting, Converting, NoTx
<1>3. /\ HandTypes' /\ PostsRight' /\ (request' = request => InquiryFirst')
      /\ \A v \in Users : tx'[v] = IF v = u THEN NoTx ELSE tx[v]
  BY <1>1, TxEnds DEF threads
<1>4. NoTx.kind # "convert"
  BY DEF NoTx
<1>5. CASE ~new /\ c \notin DOMAIN contact
  <2>1. UNCHANGED <<rows, raced, late>>
    BY <1>5 DEF CommitConvert
  <2>2. \A z : ConvertRight(z)' <=> ConvertRight(z)
    BY <2>1 DEF ConvertRight, rows
  <2>3. ConvertsRight'
    BY <1>3, <1>4, <2>2 DEF Inv, ConvertsRight
  <2> QED BY <1>1, <1>3, <2>1, <2>3, KeptParts DEF Inv, rows, threads
<1>6. CASE ~(~new /\ c \notin DOMAIN contact)
  <2>1. /\ contact' = IF new THEN Put(contact, c, t.company) ELSE contact
        /\ next' = IF new THEN next + 1 ELSE next
        /\ deal' = Converted(deal, l, c) /\ request' = Converted(request, l, c)
        /\ mail' = Converted(mail, l, c)
        /\ lead' = lead \ {l}
        /\ raced' = (raced \/ (new /\ t.alone /\ DOMAIN contact # {}))
        /\ late' = IF merge.kind \in Kinds /\ (c = merge.dup \/ l \in {merge.dup, merge.orig})
                   THEN late \cup Touched({l, merge.dup, merge.orig}) ELSE late
    BY <1>6 DEF CommitConvert
  <2>2. /\ l \in lead /\ l \in Ids /\ t.company \in Companies /\ (t.alone <=> new)
        /\ ~raced /\ ~new => DOMAIN contact = {t.contact}
    BY <1>2 DEF ConvertRight, Converting
  <2>3. /\ next \in 3..(MaxId + 1) /\ MaxId \in Nat
        /\ \A i \in lead \cup DOMAIN contact : i \in 1..(next - 1) /\ i # next
        /\ lead \subseteq Ids /\ DOMAIN contact \subseteq Ids /\ lead \cap DOMAIN contact = {}
    BY RequestsAssumption DEF Inv, IdsOnce, TypeOK, Clients, Given
  <2>4. merge # NoMerge => /\ merge.dup \in 1..(next - 1) /\ merge.orig \in 1..(next - 1)
                           /\ next \notin {merge.dup, merge.orig}
    BY <2>3 DEF Inv, IdsOnce, Given
  <2>5. new \in BOOLEAN /\ (new => c = next) /\ (~new => c = t.contact /\ c \in DOMAIN contact)
    BY <1>6
  <2> HIDE DEF t, l, c, new
  <2>6. /\ DOMAIN contact' = DOMAIN contact \cup {c}
        /\ \A i \in DOMAIN contact' : contact'[i] \in Companies
        /\ ~new => contact' = contact
    <3>1. CASE new
      <4>1. /\ DOMAIN contact' = DOMAIN contact \cup {c} /\ contact'[c] = t.company
            /\ \A i \in DOMAIN contact : i # c => contact'[i] = contact[i]
        BY <2>1, <3>1 DEF Put
      <4> QED BY <2>2, <3>1, <4>1 DEF Inv, TypeOK
    <3>2. CASE ~new
      BY <2>1, <2>5, <3>2 DEF Inv, TypeOK
    <3> QED BY <3>1, <3>2
  <2>7. c \in Ids /\ c \in Key /\ c # Nobody /\ c \notin lead
    <3>1. new => c \in Ids
      BY <1>1, <2>3, <2>5 DEF Ids, new, t
    <3>2. c \in Ids
      BY <2>3, <2>5, <3>1
    <3> QED BY <2>3, <2>5, <3>2, NobodyIsNoId DEF Key
  <2>8. /\ DOMAIN request' = DOMAIN request
        /\ \A q \in DOMAIN request :
              /\ request[q].lead # l => request'[q] = request[q]
              /\ request[q].lead = l => request'[q].lead = Nobody /\ request'[q].contact = c
              /\ request'[q] \in ReqRow /\ request'[q].company = request[q].company
              /\ request'[q].deal = request[q].deal /\ request'[q].pending = request[q].pending
    <3>1. \A q \in DOMAIN request : request[q] \in ReqRow
      BY DEF Inv, RowTypes
    <3> QED BY <2>1, <2>7, <3>1, ConvertedIs
  <2>9. /\ DOMAIN deal' = DOMAIN deal
        /\ \A q \in DOMAIN deal :
              /\ deal[q].lead # l => deal'[q] = deal[q]
              /\ deal[q].lead = l => deal'[q].lead = Nobody /\ deal'[q].contact = c
              /\ deal'[q] \in DealRow /\ deal'[q].partner = deal[q].partner
    <3>1. \A q \in DOMAIN deal : deal[q] \in DealRow
      BY DEF Inv, RowTypes
    <3> QED BY <2>1, <2>7, <3>1, ConvertedIs
  <2>10. /\ DOMAIN mail' = DOMAIN mail
         /\ \A m \in DOMAIN mail :
               /\ mail[m].lead # l => mail'[m] = mail[m]
               /\ mail[m].lead = l => mail'[m].lead = Nobody /\ mail'[m].contact = c
               /\ mail'[m] \in MailRow /\ mail'[m].deal = mail[m].deal /\ mail'[m].late = mail[m].late
    <3>1. \A m \in DOMAIN mail : mail[m] \in MailRow
      BY DEF Inv, RowTypes
    <3> QED BY <2>1, <2>7, <3>1, ConvertedIs
  <2>11. late \subseteq late' /\ (raced => raced')
    BY <2>1
  <2>12. RowTypes'
    BY <2>8, <2>9, <2>10 DEF RowTypes
  <2>13. TypeOK'
    <3>1. lead' \subseteq Ids /\ DOMAIN contact' \subseteq Ids /\ lead' \cap DOMAIN contact' = {}
      BY <2>1, <2>3, <2>6, <2>7
    <3>2. \A z : Refers(z) /\ z.lead # l => RefersNext(z)
      BY <2>1, <2>6 DEF Refers, RefersNext
    <3>3. \A z : z.lead = Nobody /\ z.contact = c => RefersNext(z)
      BY <2>6 DEF RefersNext
    <3>4. \A q \in DOMAIN request' : RefersNext(request'[q]) /\ (request'[q].deal => q \in DOMAIN deal')
      BY <2>8, <2>9, <3>2, <3>3 DEF Inv, TypeOK
    <3>5. \A q \in DOMAIN deal' : RefersNext(deal'[q])
                                  /\ deal'[q].partner \in DOMAIN contact' \cup {Nobody}
      BY <2>6, <2>9, <3>2, <3>3 DEF Inv, TypeOK
    <3>6. \A m \in DOMAIN mail' : RefersNext(mail'[m]) /\ (mail'[m].deal => m[1] \in DOMAIN deal')
      BY <2>9, <2>10, <3>2, <3>3 DEF Inv, TypeOK
    <3>7. /\ DOMAIN request' \subseteq Reqs /\ DOMAIN deal' \subseteq DOMAIN request'
          /\ DOMAIN mail' \subseteq MailIds /\ \A m \in DOMAIN mail' : m[1] \in DOMAIN request'
      BY <2>8, <2>9, <2>10 DEF Inv, TypeOK
    <3> QED BY <2>6, <3>1, <3>4, <3>5, <3>6, <3>7 DEF TypeOK, Refers, RefersNext
  <2>14. IdsOnce'
    <3>1. next' \in 3..(MaxId + 1) /\ Given \subseteq Given' /\ c \in Given'
      <4>1. CASE new
        BY <1>1, <2>1, <2>3, <2>5, <4>1 DEF Given, new, t
      <4>2. CASE ~new
        BY <2>1, <2>3, <2>5, <4>2 DEF Given
      <4> QED BY <4>1, <4>2
    <3>2. Clients' \subseteq Given'
      BY <2>1, <2>6, <3>1 DEF Inv, IdsOnce, Clients
    <3>3. merge # NoMerge =>
             /\ {merge.dup, merge.orig} \subseteq Given' /\ merge.dup # merge.orig
             /\ merge.kind = "lead" => {merge.dup, merge.orig} \cap DOMAIN contact' = {}
             /\ merge.kind = "contact" => /\ {merge.dup, merge.orig} \subseteq DOMAIN contact'
                                          /\ merge.company \in Companies
             /\ merge.kind = "contact" => {merge.dup, merge.orig} \cap lead' = {}
      BY <2>1, <2>4, <2>5, <2>6, <3>1 DEF Inv, IdsOnce
    <3> QED BY <1>1, <3>1, <3>2, <3>3 DEF IdsOnce
  <2>15. InquiryFirst'
    <3>1. \A q : Arrived(q)' <=> Arrived(q)
      BY <1>1 DEF Arrived, threads
    <3>2. NoTx.kind # "post"
      BY DEF NoTx
    <3> QED BY <1>1, <1>3, <2>8, <3>1, <3>2 DEF Inv, InquiryFirst, threads
  <2>16. ConvertsRight'
    <3>1. \A z : ConvertRight(z) /\ z.lead # l => ConvertRight(z)'
      <4> SUFFICES ASSUME NEW z, ConvertRight(z), z.lead # l PROVE ConvertRight(z)'
        OBVIOUS
      <4>1. z.lead \in lead'
        BY <2>1 DEF ConvertRight
      <4>2. ~raced' /\ z.contact # Nobody => contact' = contact /\ ~raced
        BY <2>1, <2>2, <2>6 DEF ConvertRight
      <4> QED BY <4>1, <4>2 DEF ConvertRight
    <3>2. \A v \in Users : v # u /\ tx[v].kind = "convert" => tx[v].lead # l
      BY <1>1 DEF Inv, ConvertsRight, l, t
    <3> QED BY <1>3, <1>4, <3>1, <3>2 DEF Inv, ConvertsRight
  <2>17. ASSUME merge.kind \in Kinds, c = merge.dup \/ l \in {merge.dup, merge.orig}
         PROVE  \A q : q \notin late' =>
                   /\ q \in DOMAIN request => {request[q].lead, request[q].contact}
                                              \cap {l, merge.dup, merge.orig} = {}
                   /\ q \in DOMAIN deal => {deal[q].lead, deal[q].contact}
                                           \cap {l, merge.dup, merge.orig} = {}
                   /\ \A m \in DOMAIN mail : m[1] = q => {mail[m].lead, mail[m].contact}
                                                         \cap {l, merge.dup, merge.orig} = {}
    <3> DEFINE S == {l, merge.dup, merge.orig}
    <3>1. late' = late \cup Touched(S)
      BY <2>1, <2>17
    <3> HIDE DEF S
    <3>2. \A q : q \notin Touched(S) =>
             /\ q \in DOMAIN request => {request[q].lead, request[q].contact} \cap S = {}
             /\ q \in DOMAIN deal => {deal[q].lead, deal[q].contact} \cap S = {}
             /\ \A m \in DOMAIN mail : m[1] = q => {mail[m].lead, mail[m].contact} \cap S = {}
      BY DEF Touched
    <3>3. \A q : q \notin late' => q \notin Touched(S)
      BY <3>1
    <3> QED BY <3>2, <3>3 DEF S
  <2>18. Moved'
    <3> SUFFICES ASSUME merge # NoMerge PROVE Moved'
      BY <1>1 DEF Moved
    <3> DEFINE k == merge.kind
    <3>1. k \in Kinds /\ merge.dup # Nobody /\ merge.orig # Nobody
      BY NobodyIsNoId DEF Inv, HandTypes, Merging
    <3>2. \A z : After(z)' <=> After(z)
      BY <1>1 DEF After
    <3>3. \A q : q \notin late' => q \notin late
      BY <2>11
    <3>4. \A q : q \notin late' =>
             /\ q \in DOMAIN request => request'[q][k] = request[q][k] \/ request'[q][k] # merge.dup
             /\ q \in DOMAIN deal => deal'[q][k] = deal[q][k] \/ deal'[q][k] # merge.dup
             /\ \A m \in DOMAIN mail : m[1] = q => mail'[m][k] = mail[m][k] \/ mail'[m][k] # merge.dup
      <4>1. CASE k = "lead"
        BY <2>8, <2>9, <2>10, <3>1, <4>1
      <4>2. CASE k = "contact" /\ c # merge.dup
        BY <2>8, <2>9, <2>10, <4>2
      <4>3. CASE k = "contact" /\ c = merge.dup
        <5>1. \A q : q \notin late' =>
                 /\ q \in DOMAIN request => request[q].lead # l
                 /\ q \in DOMAIN deal => deal[q].lead # l
                 /\ \A m \in DOMAIN mail : m[1] = q => mail[m].lead # l
          BY <2>17, <3>1, <4>3
        <5> QED BY <2>8, <2>9, <2>10, <5>1
      <4> QED BY <3>1, <4>1, <4>2, <4>3 DEF Kinds
    <3>5. After("request") => \A q \in DOMAIN request' \ late' : request'[q][k] # merge.dup
      BY <2>8, <3>3, <3>4 DEF Inv, Moved
    <3>6. After("deal") => \A q \in DOMAIN deal' \ late' : deal'[q][k] # merge.dup
      BY <2>9, <3>3, <3>4 DEF Inv, Moved
    <3>7. After("mail") => \A m \in DOMAIN mail' : m[1] \notin late' => mail'[m][k] # merge.dup
      BY <2>10, <3>3, <3>4 DEF Inv, Moved
    <3>8. ~There(k, merge.orig)' /\ merge.step <= Len(Tables(k)) + 1 =>
             /\ \A q \in DOMAIN request' \ late' : request'[q][k] \notin {merge.dup, merge.orig}
             /\ \A q \in DOMAIN deal' \ late' : deal'[q][k] \notin {merge.dup, merge.orig}
      <4> SUFFICES ASSUME ~There(k, merge.orig)', merge.step <= Len(Tables(k)) + 1
                   PROVE  /\ \A q \in DOMAIN request' \ late' : request'[q][k] \notin {merge.dup, merge.orig}
                          /\ \A q \in DOMAIN deal' \ late' : deal'[q][k] \notin {merge.dup, merge.orig}
        OBVIOUS
      <4>1. k = "lead"
        BY <1>1, <2>6, <3>1 DEF Inv, IdsOnce, There, Kinds
      <4>2. ~There(k, merge.orig) \/ l = merge.orig
        BY <1>1, <2>1, <4>1 DEF There
      <4>3. /\ \A q \in DOMAIN request \ late' : request[q][k] \notin {merge.dup, merge.orig}
            /\ \A q \in DOMAIN deal \ late' : deal[q][k] \notin {merge.dup, merge.orig}
        <5>1. CASE ~There(k, merge.orig)
          BY <3>3, <5>1 DEF Inv, Moved
        <5>2. CASE l = merge.orig
          BY <2>17, <3>1, <4>1, <5>2
        <5> QED BY <4>2, <5>1, <5>2
      <4> QED BY <2>8, <2>9, <3>1, <4>1, <4>3
    <3> QED BY <1>1, <3>2, <3>5, <3>6, <3>7, <3>8 DEF Moved
  <2>19. \A q \in DOMAIN deal \ (stale \cup late') :
            /\ SameAt(q) /\ (q \notin kept => LeadAt(q)) /\ q \in DOMAIN request
    BY <2>11, At DEF Inv, TypeOK
  <2>20. \A q \in DOMAIN deal \ (stale \cup late') : merge.kind = "lead" /\
            {deal[q].lead, request[q].lead} = {merge.dup, merge.orig} =>
               deal[q].lead # l /\ request[q].lead # l
    <3> SUFFICES ASSUME NEW q \in DOMAIN deal \ (stale \cup late'), merge.kind = "lead",
                        {deal[q].lead, request[q].lead} = {merge.dup, merge.orig},
                        deal[q].lead = l \/ request[q].lead = l
                 PROVE  FALSE
      OBVIOUS
    <3>1. merge.kind \in Kinds /\ l \in {merge.dup, merge.orig}
      BY DEF Kinds
    <3> QED BY <2>17, <2>19, <3>1
  <2>21. l # Nobody
    BY <2>2, NobodyIsNoId
  <2>22. \A q \in DOMAIN deal' \ (stale' \cup late') : SameAt(q)'
    <3> SUFFICES ASSUME NEW q \in DOMAIN deal \ (stale \cup late'), NEW k \in Kinds,
                        request'[q][k] # Nobody
                 PROVE  \/ deal'[q][k] = request'[q][k]
                        \/ merge'.kind = k /\ {deal'[q][k], request'[q][k]} = {merge'.dup, merge'.orig}
                        \/ raced' /\ q \in kept'
      BY <1>1, <2>9 DEF SameAt
    <3>1. SameAt(q) /\ (q \notin kept => LeadAt(q)) /\ q \in DOMAIN request
      BY <2>19
    <3>2. CASE k = "lead"
      <4>1. request[q].lead # l /\ request'[q] = request[q]
        BY <2>8, <3>1, <3>2
      <4>2. \/ deal[q].lead = request[q].lead
            \/ merge.kind = "lead" /\ {deal[q].lead, request[q].lead} = {merge.dup, merge.orig}
            \/ raced /\ q \in kept
        BY <3>1, <3>2, <4>1 DEF SameAt
      <4>3. deal[q].lead # l => deal'[q] = deal[q]
        BY <2>9
      <4> QED BY <1>1, <2>11, <2>20, <3>2, <4>1, <4>2, <4>3
    <3>3. CASE k = "contact" /\ request[q].lead = l
      <4>1. request'[q].contact = c
        BY <2>8, <3>1, <3>3
      <4>2. CASE deal[q].lead = l
        BY <2>9, <3>3, <4>1, <4>2
      <4>3. CASE deal[q].lead # l
        <5>1. \/ merge.kind = "lead" /\ {deal[q].lead, request[q].lead} = {merge.dup, merge.orig}
              \/ raced /\ q \in kept
          BY <2>21, <3>1, <3>3, <4>3 DEF SameAt, Kinds
        <5> QED BY <1>1, <2>11, <2>20, <3>3, <5>1
      <4> QED BY <4>2, <4>3
    <3>4. CASE k = "contact" /\ request[q].lead # l
      <4>1. request'[q] = request[q] /\ request[q].contact # Nobody
        BY <2>8, <3>1, <3>4
      <4>2. CASE deal[q].lead # l
        BY <1>1, <2>9, <2>11, <3>1, <3>4, <4>1, <4>2 DEF SameAt
      <4>3. CASE deal[q].lead = l
        <5>1. q \in kept
          BY <2>20, <2>21, <3>1, <3>4, <4>3 DEF LeadAt
        <5>2. deal'[q].contact = c
          BY <2>9, <4>3
        <5>3. request[q].contact \in DOMAIN contact
          BY <3>1, <4>1 DEF Inv, TypeOK, Refers
        <5>4. ~raced' => c = request[q].contact
          BY <2>1, <2>2, <2>5, <5>3
        <5> QED BY <1>1, <3>4, <4>1, <5>1, <5>2, <5>4
      <4> QED BY <4>2, <4>3
    <3> QED BY <3>2, <3>3, <3>4 DEF Kinds
  <2>23. \A q \in DOMAIN deal' \ (stale' \cup late' \cup kept') : LeadAt(q)'
    <3> SUFFICES ASSUME NEW q \in DOMAIN deal \ (stale \cup late'), q \notin kept,
                        deal'[q].lead # Nobody
                 PROVE  \/ deal'[q].lead = request'[q].lead
                        \/ merge'.kind = "lead" /\ {deal'[q].lead, request'[q].lead} = {merge'.dup, merge'.orig}
      BY <1>1, <2>9 DEF LeadAt
    <3>1. LeadAt(q) /\ q \in DOMAIN request
      BY <2>19
    <3>2. deal[q].lead # l /\ deal'[q] = deal[q]
      BY <2>9
    <3>3. \/ deal[q].lead = request[q].lead
          \/ merge.kind = "lead" /\ {deal[q].lead, request[q].lead} = {merge.dup, merge.orig}
      BY <3>1, <3>2 DEF LeadAt
    <3>4. request[q].lead # l
      BY <2>20, <3>2, <3>3
    <3> QED BY <1>1, <2>8, <3>1, <3>2, <3>3, <3>4
  <2>24. DealShown' /\ MailsFollow'
    BY <1>1, <2>8, <2>9, <2>10 DEF Inv, DealShown, MailsFollow, TypeOK
  <2>25. Served'
    <3>1. \A q \in DOMAIN request : HasClient(request[q]) => HasClient(request'[q])
      BY <2>7, <2>8 DEF HasClient
    <3> QED BY <2>8, <2>11, <3>1 DEF Inv, Served
  <2> QED BY <1>3, <2>12, <2>13, <2>14, <2>15, <2>16, <2>18, <2>22, <2>23, <2>24, <2>25, AtNext DEF Inv
<1> QED BY <1>5, <1>6
-----------------------------------------------------------------------------
(* The removal of a duplicate. *)
LEMMA TablesIs ==
    ASSUME NEW k \in Kinds
    PROVE  /\ Len(Tables(k)) = 3 /\ DOMAIN Tables(k) = 1..3
           /\ \A n \in {"deal", "request", "mail"} : \E i \in 1..3 : Tables(k)[i] = n
           /\ \A i \in 1..3 : Tables(k)[i] \in {"deal", "request", "mail"}
<1>1. CASE k = "lead"
  <2>1. Tables(k) = <<"deal", "mail", "request">>
    BY <1>1 DEF Tables
  <2> QED BY <2>1
<1>2. CASE k = "contact"
  <2>1. Tables(k) = <<"deal", "request", "mail">>
    BY <1>2 DEF Tables
  <2> QED BY <2>1
<1> QED BY <1>1, <1>2 DEF Kinds

LEMMA MergeIs ==
    ASSUME Inv, merge.kind \in Kinds
    PROVE  /\ merge # NoMerge /\ merge \in Merging /\ merge.step \in 1..5
           /\ merge.dup \in Ids /\ merge.orig \in Ids /\ merge.dup # merge.orig
           /\ merge.dup # Nobody /\ merge.orig # Nobody
<1>1. merge # NoMerge
  BY DEF NoMerge, Kinds
<1>2. merge \in Merging
  BY <1>1 DEF Inv, HandTypes
<1>3. merge.step \in 1..5 /\ merge.dup \in Ids /\ merge.orig \in Ids
  BY <1>2 DEF Merging, Steps
<1> QED BY <1>1, <1>2, <1>3, NobodyIsNoId DEF Inv, IdsOnce

LEMMA StartMergeKeeps ==
    ASSUME Inv, NEW k \in Kinds, NEW d \in Ids, NEW o \in Ids, StartMerge(k, d, o)
    PROVE  Inv'
<1>1. /\ merge = NoMerge /\ d # o
      /\ IF k = "lead" THEN {d, o} \subseteq lead ELSE {d, o} \subseteq DOMAIN contact
      /\ merge' = [kind |-> k, dup |-> d, orig |-> o, step |-> 1,
                   company |-> IF k = "contact" THEN contact[o] ELSE NoCompany]
      /\ UNCHANGED <<rows, threads, page, tx, history>>
  BY DEF StartMerge
<1> DEFINE firm == IF k = "contact" THEN contact[o] ELSE NoCompany
<1>2. firm \in Firms /\ (k = "contact" => firm \in Companies)
  BY <1>1 DEF Inv, TypeOK, Firms, Kinds
<1>3. merge' = [kind |-> k, dup |-> d, orig |-> o, step |-> 1, company |-> firm]
  BY <1>1
<1> HIDE DEF firm
<1>4. /\ merge' \in Merging /\ merge'.kind = k /\ merge'.dup = d /\ merge'.orig = o
      /\ merge'.step = 1 /\ merge'.company = firm
  <2>1. 1 \in Steps
    BY DEF Steps
  <2>2. [kind |-> k, dup |-> d, orig |-> o, step |-> 1, company |-> firm] \in Merging
    BY <1>2, <2>1 DEF Merging
  <2> QED BY <1>3, <2>2
<1>5. HandTypes'
  BY <1>1, <1>4 DEF Inv, HandTypes, threads
<1>6. IdsOnce'
  <2>1. /\ next \in 3..(MaxId + 1) /\ Clients \subseteq Given /\ lead \cap DOMAIN contact = {}
    BY DEF Inv, IdsOnce, TypeOK
  <2>2. Given' = Given /\ Clients' = Clients /\ UNCHANGED <<next, lead, contact>>
    BY <1>1 DEF Given, Clients, rows
  <2>3. {d, o} \subseteq Clients
    BY <1>1 DEF Clients
  <2>4. k = "lead" => {d, o} \cap DOMAIN contact = {}
    BY <1>1, <2>1
  <2>5. k = "contact" => {d, o} \cap lead = {} /\ {d, o} \subseteq DOMAIN contact
    BY <1>1, <2>1
  <2> QED BY <1>1, <1>2, <1>4, <2>1, <2>2, <2>3, <2>4, <2>5 DEF IdsOnce
<1>7. Moved'
  <2>1. Len(Tables(k)) = 3 /\ DOMAIN Tables(k) = 1..3
    BY TablesIs
  <2>2. \A z : ~After(z)'
    BY <1>4, <2>1 DEF After
  <2>3. There(merge.kind, merge.orig)'
    BY <1>1, <1>4 DEF There, rows
  <2> QED BY <2>2, <2>3 DEF Moved
<1>8. SameClient' /\ LeadFollows'
  <2>1. merge.kind \notin Kinds
    BY <1>1 DEF NoMerge, Kinds
  <2>2. \A q : (SameAt(q) => SameAt(q)') /\ (LeadAt(q) => LeadAt(q)')
    BY <1>1, <2>1 DEF SameAt, LeadAt, rows, history, Kinds
  <2> QED BY <1>1, <2>2, At, AtNext DEF Inv, rows, history
<1> QED BY <1>1, <1>5, <1>6, <1>7, <1>8, KeptParts DEF Inv, rows, threads, history

LEMMA RelatedIs ==
    ASSUME Inv, merge.kind \in Kinds, NEW f,
           \A q \in DOMAIN f : f[q] \in ReqRow \cup DealRow \cup MailRow
    PROVE  /\ DOMAIN Related(f) = DOMAIN f
           /\ \A q \in DOMAIN f :
                 /\ Related(f)[q][merge.kind] =
                       IF f[q][merge.kind] = merge.dup THEN merge.orig ELSE f[q][merge.kind]
                 /\ f[q][merge.kind] # merge.dup => Related(f)[q] = f[q]
                 /\ \A k \in Kinds : k # merge.kind => Related(f)[q][k] = f[q][k]
                 /\ f[q] \in ReqRow => /\ Related(f)[q] \in ReqRow
                                       /\ Related(f)[q].company = f[q].company
                                       /\ Related(f)[q].deal = f[q].deal
                                       /\ Related(f)[q].pending = f[q].pending
                 /\ f[q] \in DealRow => /\ Related(f)[q] \in DealRow
                                        /\ Related(f)[q].partner = f[q].partner
                 /\ f[q] \in MailRow => /\ Related(f)[q] \in MailRow
                                        /\ Related(f)[q].deal = f[q].deal
                                        /\ Related(f)[q].late = f[q].late
<1> DEFINE g == Related(f)
           k == merge.kind
           o == merge.orig
<1>1. /\ DOMAIN g = DOMAIN f
      /\ \A q \in DOMAIN f : g[q] = IF f[q][k] = merge.dup THEN [f[q] EXCEPT ![k] = o] ELSE f[q]
  BY DEF Related
<1>2. o \in Key /\ k \in {"lead", "contact"}
  BY MergeIs DEF Key, Kinds
<1> HIDE DEF g, o, k
<1>3. \A x \in ReqRow :
         /\ [x EXCEPT ![k] = o] \in ReqRow
         /\ [x EXCEPT ![k] = o][k] = o
         /\ \A j \in Kinds : j # k => [x EXCEPT ![k] = o][j] = x[j]
         /\ [x EXCEPT ![k] = o].company = x.company
         /\ [x EXCEPT ![k] = o].deal = x.deal
         /\ [x EXCEPT ![k] = o].pending = x.pending
  <2>1. CASE k = "lead"
    BY <1>2, <2>1 DEF ReqRow, Kinds
  <2>2. CASE k = "contact"
    BY <1>2, <2>2 DEF ReqRow, Kinds
  <2> QED BY <1>2, <2>1, <2>2
<1>4. \A x \in DealRow :
         /\ [x EXCEPT ![k] = o] \in DealRow
         /\ [x EXCEPT ![k] = o][k] = o
         /\ \A j \in Kinds : j # k => [x EXCEPT ![k] = o][j] = x[j]
         /\ [x EXCEPT ![k] = o].partner = x.partner
  <2>1. CASE k = "lead"
    BY <1>2, <2>1 DEF DealRow, Kinds
  <2>2. CASE k = "contact"
    BY <1>2, <2>2 DEF DealRow, Kinds
  <2> QED BY <1>2, <2>1, <2>2
<1>5. \A x \in MailRow :
         /\ [x EXCEPT ![k] = o] \in MailRow
         /\ [x EXCEPT ![k] = o][k] = o
         /\ \A j \in Kinds : j # k => [x EXCEPT ![k] = o][j] = x[j]
         /\ [x EXCEPT ![k] = o].deal = x.deal
         /\ [x EXCEPT ![k] = o].late = x.late
  <2>1. CASE k = "lead"
    BY <1>2, <2>1 DEF MailRow, Kinds
  <2>2. CASE k = "contact"
    BY <1>2, <2>2 DEF MailRow, Kinds
  <2> QED BY <1>2, <2>1, <2>2
<1>6. \A q \in DOMAIN f :
         /\ g[q][k] = IF f[q][k] = merge.dup THEN o ELSE f[q][k]
         /\ f[q][k] # merge.dup => g[q] = f[q]
         /\ \A j \in Kinds : j # k => g[q][j] = f[q][j]
         /\ f[q] \in ReqRow => /\ g[q] \in ReqRow /\ g[q].company = f[q].company
                               /\ g[q].deal = f[q].deal /\ g[q].pending = f[q].pending
         /\ f[q] \in DealRow => g[q] \in DealRow /\ g[q].partner = f[q].partner
         /\ f[q] \in MailRow => /\ g[q] \in MailRow /\ g[q].deal = f[q].deal
                                /\ g[q].late = f[q].late
  <2> SUFFICES ASSUME NEW q \in DOMAIN f
      PROVE  /\ g[q][k] = IF f[q][k] = merge.dup THEN o ELSE f[q][k]
             /\ f[q][k] # merge.dup => g[q] = f[q]
             /\ \A j \in Kinds : j # k => g[q][j] = f[q][j]
             /\ f[q] \in ReqRow => /\ g[q] \in ReqRow /\ g[q].company = f[q].company
                                   /\ g[q].deal = f[q].deal /\ g[q].pending = f[q].pending
             /\ f[q] \in DealRow => g[q] \in DealRow /\ g[q].partner = f[q].partner
             /\ f[q] \in MailRow => /\ g[q] \in MailRow /\ g[q].deal = f[q].deal
                                    /\ g[q].late = f[q].late
    OBVIOUS
  <2>1. CASE f[q][k] # merge.dup
    BY <1>1, <2>1
  <2>2. CASE f[q][k] = merge.dup
    <3>1. g[q] = [f[q] EXCEPT ![k] = o]
      BY <1>1, <2>2
    <3>2. f[q] \in ReqRow \/ f[q] \in DealRow \/ f[q] \in MailRow
      OBVIOUS
    <3>3. g[q][k] = o /\ \A j \in Kinds : j # k => g[q][j] = f[q][j]
      BY <1>3, <1>4, <1>5, <3>1, <3>2
    <3> QED BY <1>3, <1>4, <1>5, <2>2, <3>1, <3>3
  <2> QED BY <2>1, <2>2
<1> QED BY <1>1, <1>6 DEF g, o, k

LEMMA RelateKeeps == ASSUME Inv, Relate PROVE Inv'
<1> DEFINE k == merge.kind
           d == merge.dup
           o == merge.orig
           table == Tables(k)[merge.step]
           refs == {x \in DOMAIN request : table = "request" /\ request[x][k] = d}
                   \cup {x \in DOMAIN deal : table = "deal" /\ deal[x][k] = d}
                   \cup {x \in DOMAIN mail : table = "mail" /\ mail[x][k] = d}
<1>1. /\ k \in Kinds /\ merge.step <= Len(Tables(k))
      /\ UNCHANGED <<lead, contact, next, threads, page, tx, history>>
  BY DEF Relate
<1>2. /\ merge # NoMerge /\ merge \in Merging /\ merge.step \in 1..5
      /\ d \in Ids /\ o \in Ids /\ d # o /\ d # Nobody /\ o # Nobody
  BY <1>1, MergeIs
<1>3. /\ Len(Tables(k)) = 3 /\ DOMAIN Tables(k) = 1..3 /\ merge.step \in 1..3
  <2>1. /\ Len(Tables(k)) = 3 /\ DOMAIN Tables(k) = 1..3
    BY <1>1, TablesIs
  <2> QED BY <1>1, <1>2, <2>1
<1>4. DOMAIN deal \subseteq DOMAIN request
  BY DEF Inv, TypeOK
<1>5. CASE ~(refs = {} \/ There(k, o))
  <2>1. merge' = NoMerge /\ UNCHANGED <<request, deal, mail>>
    BY <1>5 DEF Relate
  <2>2. HandTypes'
    BY <1>1, <2>1 DEF Inv, HandTypes, threads
  <2>3. IdsOnce'
    BY <1>1, <2>1 DEF Inv, IdsOnce, Given, Clients
  <2>4. Moved'
    BY <2>1 DEF Moved
  <2>5. /\ \A q \in DOMAIN request \ late : request[q][k] \notin {d, o}
        /\ \A q \in DOMAIN deal \ late : deal[q][k] \notin {d, o}
    BY <1>2, <1>3, <1>5 DEF Inv, Moved
  <2>6. \A q \in DOMAIN deal \ late : (SameAt(q) => SameAt(q)') /\ (LeadAt(q) => LeadAt(q)')
    <3> SUFFICES ASSUME NEW q \in DOMAIN deal \ late
                 PROVE  (SameAt(q) => SameAt(q)') /\ (LeadAt(q) => LeadAt(q)')
      OBVIOUS
    <3>1. \A j \in Kinds : ~(k = j /\ {deal[q][j], request[q][j]} = {d, o})
      BY <1>4, <2>5
    <3>2. SameAt(q) => SameAt(q)'
      BY <1>1, <2>1, <3>1 DEF SameAt, history
    <3>3. LeadAt(q) => LeadAt(q)'
      BY <1>1, <2>1, <3>1 DEF LeadAt, Kinds
    <3> QED BY <3>2, <3>3
  <2>7. SameClient' /\ LeadFollows'
    BY <1>1, <2>1, <2>6, At, AtNext DEF Inv, history
  <2> QED BY <1>1, <2>1, <2>2, <2>3, <2>4, <2>7, KeptParts DEF Inv, threads, history
<1>6. CASE refs = {} \/ There(k, o)
  <2>1. /\ request' = IF table = "request" THEN Related(request) ELSE request
        /\ deal' = IF table = "deal" THEN Related(deal) ELSE deal
        /\ mail' = IF table = "mail" THEN Related(mail) ELSE mail
        /\ merge' = [merge EXCEPT !.step = @ + 1]
    BY <1>6 DEF Relate
  <2> DEFINE To(v, w) == w = v \/ (v = d /\ w = o)
  <2>2. /\ DOMAIN request' = DOMAIN request
        /\ \A q \in DOMAIN request :
              /\ request'[q] \in ReqRow /\ request'[q].company = request[q].company
              /\ request'[q].deal = request[q].deal /\ request'[q].pending = request[q].pending
              /\ To(request[q][k], request'[q][k])
              /\ request[q][k] # d => request'[q] = request[q]
              /\ \A j \in Kinds : j # k => request'[q][j] = request[q][j]
              /\ table = "request" => request'[q][k] # d
        /\ table # "request" => request' = request
    <3>1. \A q \in DOMAIN request : request[q] \in ReqRow
      BY DEF Inv, RowTypes
    <3>2. CASE table # "request"
      BY <2>1, <3>1, <3>2
    <3>3. CASE table = "request"
      <4>1. request' = Related(request)
        BY <2>1, <3>3
      <4>2. /\ DOMAIN Related(request) = DOMAIN request
            /\ \A q \in DOMAIN request :
                  /\ Related(request)[q][k] = IF request[q][k] = d THEN o ELSE request[q][k]
                  /\ request[q][k] # d => Related(request)[q] = request[q]
                  /\ \A j \in Kinds : j # k => Related(request)[q][j] = request[q][j]
                  /\ Related(request)[q] \in ReqRow
                  /\ Related(request)[q].company = request[q].company
                  /\ Related(request)[q].deal = request[q].deal
                  /\ Related(request)[q].pending = request[q].pending
        BY <1>1, <3>1, RelatedIs
      <4> HIDE DEF k, d, o, table
      <4> QED BY <1>2, <3>3, <4>1, <4>2
    <3> QED BY <3>2, <3>3
  <2>3. /\ DOMAIN deal' = DOMAIN deal
        /\ \A q \in DOMAIN deal :
              /\ deal'[q] \in DealRow /\ deal'[q].partner = deal[q].partner
              /\ To(deal[q][k], deal'[q][k])
              /\ deal[q][k] # d => deal'[q] = deal[q]
              /\ \A j \in Kinds : j # k => deal'[q][j] = deal[q][j]
              /\ table = "deal" => deal'[q][k] # d
        /\ table # "deal" => deal' = deal
    <3>1. \A q \in DOMAIN deal : deal[q] \in DealRow
      BY DEF Inv, RowTypes
    <3>2. CASE table # "deal"
      BY <2>1, <3>1, <3>2
    <3>3. CASE table = "deal"
      <4>1. deal' = Related(deal)
        BY <2>1, <3>3
      <4>2. /\ DOMAIN Related(deal) = DOMAIN deal
            /\ \A q \in DOMAIN deal :
                  /\ Related(deal)[q][k] = IF deal[q][k] = d THEN o ELSE deal[q][k]
                  /\ deal[q][k] # d => Related(deal)[q] = deal[q]
                  /\ \A j \in Kinds : j # k => Related(deal)[q][j] = deal[q][j]
                  /\ Related(deal)[q] \in DealRow
                  /\ Related(deal)[q].partner = deal[q].partner
        BY <1>1, <3>1, RelatedIs
      <4> HIDE DEF k, d, o, table
      <4> QED BY <1>2, <3>3, <4>1, <4>2
    <3> QED BY <3>2, <3>3
  <2>4. /\ DOMAIN mail' = DOMAIN mail
        /\ \A m \in DOMAIN mail :
              /\ mail'[m] \in MailRow /\ mail'[m].deal = mail[m].deal /\ mail'[m].late = mail[m].late
              /\ To(mail[m][k], mail'[m][k])
              /\ mail[m][k] # d => mail'[m] = mail[m]
              /\ \A j \in Kinds : j # k => mail'[m][j] = mail[m][j]
              /\ table = "mail" => mail'[m][k] # d
        /\ table # "mail" => mail' = mail
    <3>1. \A m \in DOMAIN mail : mail[m] \in MailRow
      BY DEF Inv, RowTypes
    <3>2. CASE table # "mail"
      BY <2>1, <3>1, <3>2
    <3>3. CASE table = "mail"
      <4>1. mail' = Related(mail)
        BY <2>1, <3>3
      <4>2. /\ DOMAIN Related(mail) = DOMAIN mail
            /\ \A q \in DOMAIN mail :
                  /\ Related(mail)[q][k] = IF mail[q][k] = d THEN o ELSE mail[q][k]
                  /\ mail[q][k] # d => Related(mail)[q] = mail[q]
                  /\ \A j \in Kinds : j # k => Related(mail)[q][j] = mail[q][j]
                  /\ Related(mail)[q] \in MailRow
                  /\ Related(mail)[q].deal = mail[q].deal
                  /\ Related(mail)[q].late = mail[q].late
        BY <1>1, <3>1, RelatedIs
      <4> HIDE DEF k, d, o, table
      <4> QED BY <1>2, <3>3, <4>1, <4>2
    <3> QED BY <3>2, <3>3
  <2>5. ~There(k, o) => /\ \A q \in DOMAIN request : request'[q] = request[q]
                       /\ \A q \in DOMAIN deal : deal'[q] = deal[q]
    <3> SUFFICES ASSUME refs = {}
                 PROVE  /\ \A q \in DOMAIN request : request'[q] = request[q]
                        /\ \A q \in DOMAIN deal : deal'[q] = deal[q]
      BY <1>6
    <3>1. table = "request" => \A q \in DOMAIN request : request[q][k] # d
      OBVIOUS
    <3>2. table = "deal" => \A q \in DOMAIN deal : deal[q][k] # d
      OBVIOUS
    <3> QED BY <2>2, <2>3, <3>1, <3>2
  <2>6. /\ merge' \in Merging /\ merge'.kind = k /\ merge'.dup = d /\ merge'.orig = o
        /\ merge'.step = merge.step + 1 /\ merge'.company = merge.company
    <3>1. merge.step + 1 \in Steps
      BY <1>3 DEF Steps
    <3> QED BY <1>2, <2>1, <3>1 DEF Merging
  <2>7. \A n : After(n)' => After(n) \/ n = table
    <3>1. \A i \in 1..3 : i < merge.step + 1 => i < merge.step \/ i = merge.step
      BY <1>3
    <3> QED BY <1>3, <2>6, <3>1 DEF After
  <2>8. RowTypes'
    BY <2>2, <2>3, <2>4 DEF RowTypes
  <2>9. HandTypes'
    BY <1>1, <2>6 DEF Inv, HandTypes, threads
  <2> HIDE DEF table, refs
  <2>10. TypeOK'
    <3>1. \A z, y : Refers(z) /\ To(z[k], y[k]) /\ (z[k] # d => y = z)
                    /\ (\A j \in Kinds : j # k => y[j] = z[j]) /\ (There(k, o) \/ y = z)
                    => Refers(y)
      BY <1>1 DEF Refers, There, Kinds
    <3>2. \A q \in DOMAIN request' : Refers(request'[q]) /\ (request'[q].deal => q \in DOMAIN deal')
      <4> SUFFICES ASSUME NEW q \in DOMAIN request
                   PROVE  Refers(request'[q]) /\ (request'[q].deal => q \in DOMAIN deal')
        BY <2>2
      <4>1. Refers(request[q]) /\ (request[q].deal => q \in DOMAIN deal)
        BY DEF Inv, TypeOK
      <4>2. /\ To(request[q][k], request'[q][k]) /\ (request[q][k] # d => request'[q] = request[q])
            /\ \A j \in Kinds : j # k => request'[q][j] = request[q][j]
            /\ There(k, o) \/ request'[q] = request[q]
        BY <2>2, <2>5
      <4> HIDE DEF To
      <4> QED BY <2>2, <2>3, <3>1, <4>1, <4>2
    <3>3. \A q \in DOMAIN deal' : Refers(deal'[q])
                                  /\ deal'[q].partner \in DOMAIN contact' \cup {Nobody}
      <4> SUFFICES ASSUME NEW q \in DOMAIN deal
                   PROVE  Refers(deal'[q]) /\ deal'[q].partner \in DOMAIN contact' \cup {Nobody}
        BY <2>3
      <4>1. Refers(deal[q]) /\ deal[q].partner \in DOMAIN contact \cup {Nobody}
        BY DEF Inv, TypeOK
      <4>2. /\ To(deal[q][k], deal'[q][k]) /\ (deal[q][k] # d => deal'[q] = deal[q])
            /\ \A j \in Kinds : j # k => deal'[q][j] = deal[q][j]
            /\ There(k, o) \/ deal'[q] = deal[q]
        BY <2>3, <2>5
      <4> HIDE DEF To
      <4> QED BY <1>1, <2>3, <3>1, <4>1, <4>2
    <3>4. \A m \in DOMAIN mail' : Refers(mail'[m]) /\ (mail'[m].deal => m[1] \in DOMAIN deal')
      <4> SUFFICES ASSUME NEW m \in DOMAIN mail
                   PROVE  Refers(mail'[m]) /\ (mail'[m].deal => m[1] \in DOMAIN deal')
        BY <2>4
      <4>1. Refers(mail[m]) /\ (mail[m].deal => m[1] \in DOMAIN deal)
        BY DEF Inv, TypeOK
      <4>2. /\ To(mail[m][k], mail'[m][k]) /\ (mail[m][k] # d => mail'[m] = mail[m])
            /\ \A j \in Kinds : j # k => mail'[m][j] = mail[m][j]
        BY <2>4
      <4>3. There(k, o) \/ mail'[m] = mail[m]
        <5>1. ~There(k, o) => (table = "mail" => mail[m][k] # d)
          BY <1>6 DEF refs
        <5> QED BY <2>4, <5>1
      <4> HIDE DEF To
      <4> QED BY <2>3, <2>4, <3>1, <4>1, <4>2, <4>3
    <3>5. /\ DOMAIN request' \subseteq Reqs /\ DOMAIN deal' \subseteq DOMAIN request'
          /\ DOMAIN mail' \subseteq MailIds /\ \A m \in DOMAIN mail' : m[1] \in DOMAIN request'
      BY <2>2, <2>3, <2>4 DEF Inv, TypeOK
    <3>6. /\ lead' \subseteq Ids /\ DOMAIN contact' \subseteq Ids /\ lead' \cap DOMAIN contact' = {}
          /\ \A i \in DOMAIN contact' : contact'[i] \in Companies
      BY <1>1 DEF Inv, TypeOK
    <3>7. \A z : Refers(z)' <=> Refers(z)
      BY <1>1 DEF Refers
    <3> QED BY <3>2, <3>3, <3>4, <3>5, <3>6, <3>7 DEF TypeOK
  <2>11. IdsOnce'
    <3>1. Given' = Given /\ Clients' = Clients /\ UNCHANGED <<next, lead, contact>>
      BY <1>1 DEF Given, Clients
    <3> QED BY <1>2, <2>6, <3>1 DEF Inv, IdsOnce
  <2>12. InquiryFirst'
    <3>1. \A q : Arrived(q)' <=> Arrived(q)
      BY <1>1 DEF Arrived, threads
    <3> QED BY <1>1, <2>2, <3>1 DEF Inv, InquiryFirst, threads
  <2>13. Moved'
    <3>1. UNCHANGED late /\ (There(k, o) <=> There(merge.kind, merge.orig)')
      BY <1>1, <2>6 DEF There, history
    <3>2. After("request")' => \A q \in DOMAIN request' \ late' : request'[q][k] # d
      BY <1>2, <2>2, <2>7, <3>1 DEF Inv, Moved
    <3>3. After("deal")' => \A q \in DOMAIN deal' \ late' : deal'[q][k] # d
      BY <1>2, <2>3, <2>7, <3>1 DEF Inv, Moved
    <3>4. After("mail")' => \A m \in DOMAIN mail' : m[1] \notin late' => mail'[m][k] # d
      BY <1>2, <2>4, <2>7, <3>1 DEF Inv, Moved
    <3>5. ~There(k, o) => /\ \A q \in DOMAIN request' \ late' : request'[q][k] \notin {d, o}
                          /\ \A q \in DOMAIN deal' \ late' : deal'[q][k] \notin {d, o}
      BY <1>2, <1>3, <2>2, <2>3, <2>5, <3>1 DEF Inv, Moved
    <3> HIDE DEF k, d, o
    <3> QED BY <2>6, <3>1, <3>2, <3>3, <3>4, <3>5 DEF Moved
  <2>14. \A q \in DOMAIN deal : (SameAt(q) => SameAt(q)') /\ (LeadAt(q) => LeadAt(q)')
    <3> SUFFICES ASSUME NEW q \in DOMAIN deal
                 PROVE  (SameAt(q) => SameAt(q)') /\ (LeadAt(q) => LeadAt(q)')
      OBVIOUS
    <3>1. \A j \in Kinds :
             /\ j # k => deal'[q][j] = deal[q][j] /\ request'[q][j] = request[q][j]
             /\ j = k => To(deal[q][j], deal'[q][j]) /\ To(request[q][j], request'[q][j])
      BY <1>4, <2>2, <2>3
    <3>2. /\ merge'.kind = k /\ merge'.dup = d /\ merge'.orig = o
          /\ raced' = raced /\ kept' = kept
      BY <1>1, <2>6 DEF history
    <3>3. SameAt(q) => SameAt(q)'
      <4> SUFFICES ASSUME SameAt(q), NEW j \in Kinds, request'[q][j] # Nobody
                   PROVE  \/ deal'[q][j] = request'[q][j]
                          \/ merge'.kind = j /\ {deal'[q][j], request'[q][j]} = {merge'.dup, merge'.orig}
                          \/ raced' /\ q \in kept'
        BY DEF SameAt
      <4>1. CASE j # k
        BY <3>1, <3>2, <4>1 DEF SameAt
      <4>2. CASE j = k
        <5>1. request[q][j] # Nobody
          BY <1>2, <3>1, <4>2
        <5>2. \/ deal[q][j] = request[q][j] \/ {deal[q][j], request[q][j]} = {d, o}
              \/ raced /\ q \in kept
          BY <5>1 DEF SameAt
        <5> HIDE DEF k, d, o
        <5> QED BY <1>2, <3>1, <3>2, <4>2, <5>2
      <4> QED BY <4>1, <4>2
    <3>4. LeadAt(q) => LeadAt(q)'
      <4> SUFFICES ASSUME LeadAt(q), deal'[q].lead # Nobody
                   PROVE  \/ deal'[q].lead = request'[q].lead
                          \/ merge'.kind = "lead" /\ {deal'[q].lead, request'[q].lead} = {merge'.dup, merge'.orig}
        BY DEF LeadAt
      <4>1. "lead" \in Kinds
        BY DEF Kinds
      <4>2. CASE "lead" # k
        BY <3>1, <3>2, <4>1, <4>2 DEF LeadAt
      <4>3. CASE "lead" = k
        <5>1. deal[q].lead # Nobody
          BY <1>2, <3>1, <4>1, <4>3
        <5>2. deal[q].lead = request[q].lead \/ {deal[q].lead, request[q].lead} = {d, o}
          BY <5>1 DEF LeadAt
        <5> HIDE DEF k, d, o
        <5> QED BY <1>2, <3>1, <3>2, <4>1, <4>3, <5>2
      <4> QED BY <4>2, <4>3
    <3> QED BY <3>3, <3>4
  <2>15. SameClient' /\ LeadFollows'
    BY <1>1, <2>3, <2>14, At, AtNext DEF Inv, history
  <2>16. DealShown' /\ MailsFollow'
    BY <1>1, <1>4, <2>2, <2>3, <2>4 DEF Inv, DealShown, MailsFollow, history
  <2>17. Served'
    <3>1. \A q \in DOMAIN request : HasClient(request[q]) => HasClient(request'[q])
      <4>1. \A q \in DOMAIN request : \A j \in Kinds : request[q][j] # Nobody => request'[q][j] # Nobody
        BY <1>2, <2>2
      <4> QED BY <4>1 DEF HasClient, Kinds
    <3> QED BY <1>1, <2>2, <3>1 DEF Inv, Served, history
  <2> QED BY <1>1, <2>8, <2>9, <2>10, <2>11, <2>12, <2>13, <2>15, <2>16, <2>17, KeptParts
          DEF Inv, history, threads
<1> QED BY <1>5, <1>6

LEMMA SaveOriginalKeeps == ASSUME Inv, SaveOriginal PROVE Inv'
<1> DEFINE k == merge.kind
           o == merge.orig
<1>1. /\ k \in Kinds /\ merge.step = Len(Tables(k)) + 1
      /\ lead' = IF k = "lead" THEN lead \cup {o} ELSE lead
      /\ contact' = IF k = "contact" /\ ~There(k, o) THEN Put(contact, o, merge.company) ELSE contact
      /\ raced' = (raced \/ ~There(k, o))
      /\ merge' = [merge EXCEPT !.step = @ + 1]
      /\ UNCHANGED <<request, deal, mail, next, threads, page, tx, ops, stale, kept, late>>
  BY DEF SaveOriginal
<1>2. /\ merge # NoMerge /\ merge \in Merging /\ merge.step \in 1..5
      /\ merge.dup \in Ids /\ o \in Ids /\ merge.dup # o /\ merge.dup # Nobody /\ o # Nobody
  BY <1>1, MergeIs
<1>3. Len(Tables(k)) = 3 /\ DOMAIN Tables(k) = 1..3 /\ merge.step = 4
  <2>1. Len(Tables(k)) = 3 /\ DOMAIN Tables(k) = 1..3
    BY <1>1, TablesIs
  <2> QED BY <1>1, <2>1
<1>4. contact' = contact
  BY <1>1, <1>2 DEF Inv, IdsOnce, There
<1>5. /\ merge' \in Merging /\ merge'.kind = k /\ merge'.dup = merge.dup /\ merge'.orig = o
      /\ merge'.step = 5 /\ merge'.company = merge.company
  <2>1. 4 + 1 \in Steps
    BY DEF Steps
  <2> QED BY <1>1, <1>2, <1>3, <2>1 DEF Merging
<1>6. lead \subseteq lead' /\ lead' \subseteq lead \cup {o} /\ (k # "lead" => lead' = lead)
  BY <1>1
<1>7. HandTypes'
  BY <1>1, <1>5 DEF Inv, HandTypes, threads
<1>8. TypeOK'
  <2>1. \A z : Refers(z) => Refers(z)'
    BY <1>4, <1>6 DEF Refers
  <2>2. lead' \subseteq Ids /\ lead' \cap DOMAIN contact = {}
    BY <1>2, <1>6 DEF Inv, TypeOK, IdsOnce
  <2> QED BY <1>1, <1>4, <2>1, <2>2 DEF Inv, TypeOK
<1>9. IdsOnce'
  <2>1. Given' = Given
    BY <1>1 DEF Given
  <2>2. Clients' \subseteq Given
    BY <1>2, <1>4, <1>6 DEF Inv, IdsOnce, Clients
  <2>3. k = "contact" => lead' = lead
    BY <1>6
  <2> HIDE DEF k, o
  <2> QED BY <1>1, <1>2, <1>4, <1>5, <2>1, <2>2, <2>3 DEF Inv, IdsOnce, k, o
<1>10. ConvertsRight'
  <2>1. \A z : ConvertRight(z) => ConvertRight(z)'
    BY <1>1, <1>4, <1>6 DEF ConvertRight
  <2> QED BY <1>1, <2>1 DEF Inv, ConvertsRight
<1>11. Moved'
  <2>1. \A n : After(n)' => After(n)
    BY <1>3, <1>5 DEF After
  <2>2. ~(merge'.step <= Len(Tables(merge'.kind)) + 1)
    <3>1. merge'.kind \in Kinds /\ merge'.step = 5
      BY <1>1, <1>5
    <3>2. \A j \in Kinds : Len(Tables(j)) = 3
      BY TablesIs
    <3> HIDE DEF k, o
    <3>3. Len(Tables(merge'.kind)) = 3
      BY <3>1, <3>2
    <3> QED BY <3>1, <3>3
  <2> HIDE DEF k, o
  <2>3. /\ After("request") => \A r \in DOMAIN request \ late : request[r][k] # merge.dup
        /\ After("deal") => \A r \in DOMAIN deal \ late : deal[r][k] # merge.dup
        /\ After("mail") => \A m \in DOMAIN mail : m[1] \notin late => mail[m][k] # merge.dup
    BY <1>2 DEF Inv, Moved, k
  <2> QED BY <1>1, <1>5, <2>1, <2>2, <2>3 DEF Moved
<1>12. SameClient' /\ LeadFollows'
  <2>1. \A q : (SameAt(q) => SameAt(q)') /\ (LeadAt(q) => LeadAt(q)')
    BY <1>1, <1>5 DEF SameAt, LeadAt
  <2> QED BY <1>1, <2>1, At, AtNext DEF Inv
<1> QED BY <1>1, <1>7, <1>8, <1>9, <1>10, <1>11, <1>12, KeptParts DEF Inv, threads

LEMMA DeleteDuplicateKeeps == ASSUME Inv, DeleteDuplicate PROVE Inv'
<1> DEFINE k == merge.kind
           d == merge.dup
           first == {r \in DOMAIN deal : deal[r][k] = d \/ (k = "contact" /\ deal[r].partner = d)}
           gone == {r \in DOMAIN request : \/ r \in first /\ request[r].deal
                                           \/ k = "contact" /\ request[r].contact = d}
           deals == first \cup gone
           mails == {m \in DOMAIN mail : \/ m[1] \in gone
                                         \/ m[1] \in deals /\ mail[m].deal
                                         \/ mail[m][k] = d}
<1>1. /\ k \in Kinds /\ merge.step = Len(Tables(k)) + 2 /\ (k = "lead" => d \notin Locked)
      /\ lead' = IF k = "lead" THEN lead \ {d} ELSE lead
      /\ contact' = IF k = "contact" THEN Drop(contact, {d}) ELSE contact
      /\ deal' = Drop(deal, deals)
      /\ request' = [r \in DOMAIN request \ gone |->
                        IF k = "lead" /\ request[r].lead = d
                        THEN [request[r] EXCEPT !.lead = Nobody] ELSE request[r]]
      /\ mail' = Drop(mail, mails)
      /\ merge' = NoMerge
      /\ UNCHANGED <<next, threads, page, tx, history>>
  BY DEF DeleteDuplicate
<1>2. /\ merge # NoMerge /\ merge \in Merging /\ d # Nobody /\ merge.orig # d
  BY <1>1, MergeIs
<1>3. /\ \A r \in DOMAIN request \ late : request[r][k] # d
      /\ \A r \in DOMAIN deal \ late : deal[r][k] # d
  <2>1. /\ DOMAIN Tables(k) = 1..3 /\ merge.step = 5
        /\ \A n \in {"deal", "request", "mail"} : \E i \in 1..3 : Tables(k)[i] = n
    <3>1. /\ Len(Tables(k)) = 3 /\ DOMAIN Tables(k) = 1..3
          /\ \A n \in {"deal", "request", "mail"} : \E i \in 1..3 : Tables(k)[i] = n
      BY <1>1, TablesIs
    <3> QED BY <1>1, <3>1
  <2>2. \A n \in {"deal", "request", "mail"} : After(n)
    BY <2>1 DEF After
  <2> QED BY <1>2, <2>2 DEF Inv, Moved
<1>4. /\ lead' \subseteq lead /\ (k = "lead" => d \notin lead') /\ lead \ {d} \subseteq lead'
      /\ k # "lead" => lead' = lead
  BY <1>1
<1>5. /\ DOMAIN contact' = IF k = "contact" THEN DOMAIN contact \ {d} ELSE DOMAIN contact
      /\ \A c \in DOMAIN contact' : contact'[c] = contact[c]
  BY <1>1 DEF Drop, Restrict
<1>6. DOMAIN deal' = DOMAIN deal \ deals /\ \A r \in DOMAIN deal' : deal'[r] = deal[r]
  <2> HIDE DEF deals
  <2> QED BY <1>1 DEF Drop, Restrict
<1>7. DOMAIN mail' = DOMAIN mail \ mails /\ \A m \in DOMAIN mail' : mail'[m] = mail[m]
  <2> HIDE DEF mails
  <2> QED BY <1>1 DEF Drop, Restrict
<1>8. /\ DOMAIN request' = DOMAIN request \ gone
      /\ \A r \in DOMAIN request' :
            /\ request'[r] \in ReqRow
            /\ k = "lead" /\ request[r].lead = d => request'[r].lead = Nobody
            /\ ~(k = "lead" /\ request[r].lead = d) => request'[r] = request[r]
            /\ request'[r].contact = request[r].contact
            /\ request'[r].deal = request[r].deal
  <2>1. /\ DOMAIN request' = DOMAIN request \ gone
        /\ \A r \in DOMAIN request' :
              request'[r] = IF k = "lead" /\ request[r].lead = d
                            THEN [request[r] EXCEPT !.lead = Nobody] ELSE request[r]
    <3> HIDE DEF gone
    <3> QED BY <1>1
  <2>2. \A r \in DOMAIN request' : request[r] \in ReqRow
    BY <2>1 DEF Inv, RowTypes
  <2>3. Nobody \in Key
    BY DEF Key
  <2> HIDE DEF gone, k, d
  <2> QED BY <2>1, <2>2, <2>3 DEF ReqRow
<1>9. RowTypes'
  BY <1>6, <1>7, <1>8 DEF Inv, RowTypes
<1>10. HandTypes'
  BY <1>1 DEF Inv, HandTypes, threads
<1>11. \A z : Refers(z) /\ z[k] # d => RefersNext(z)
  BY <1>1, <1>4, <1>5 DEF Refers, RefersNext, Kinds
<1>12. TypeOK'
  <2>1. \A r \in DOMAIN request' : /\ RefersNext(request'[r])
                                   /\ request'[r].deal => r \in DOMAIN deal'
    <3> SUFFICES ASSUME NEW r \in DOMAIN request'
                 PROVE  RefersNext(request'[r]) /\ (request'[r].deal => r \in DOMAIN deal')
      OBVIOUS
    <3>1. Refers(request[r]) /\ (request[r].deal => r \in DOMAIN deal) /\ r \in DOMAIN request
      BY <1>8 DEF Inv, TypeOK
    <3>2. k = "contact" => request[r].contact # d
      BY <1>8
    <3>3. RefersNext(request'[r])
      <4>1. CASE k = "lead" /\ request[r].lead = d
        BY <1>5, <1>8, <3>1, <4>1 DEF Refers, RefersNext
      <4>2. CASE ~(k = "lead" /\ request[r].lead = d)
        BY <1>1, <1>8, <1>11, <3>1, <3>2, <4>2 DEF Kinds
      <4> QED BY <4>1, <4>2
    <3>4. request'[r].deal => r \in DOMAIN deal'
      <4> SUFFICES ASSUME request[r].deal PROVE r \in DOMAIN deal'
        BY <1>8
      <4>1. r \notin gone
        BY <1>8
      <4>2. r \notin first
        BY <3>1, <4>1
      <4> QED BY <1>6, <3>1, <4>1, <4>2
    <3> QED BY <3>3, <3>4
  <2>2. \A r \in DOMAIN deal' : /\ RefersNext(deal'[r])
                                /\ deal'[r].partner \in DOMAIN contact' \cup {Nobody}
    <3> SUFFICES ASSUME NEW r \in DOMAIN deal'
                 PROVE  RefersNext(deal'[r]) /\ deal'[r].partner \in DOMAIN contact' \cup {Nobody}
      OBVIOUS
    <3>1. r \in DOMAIN deal /\ deal'[r] = deal[r] /\ r \notin first
      BY <1>6
    <3>2. deal[r][k] # d /\ (k = "contact" => deal[r].partner # d)
      BY <3>1
    <3>3. Refers(deal[r]) /\ deal[r].partner \in DOMAIN contact \cup {Nobody}
      BY <3>1 DEF Inv, TypeOK
    <3> QED BY <1>5, <1>11, <3>1, <3>2, <3>3
  <2>3. \A m \in DOMAIN mail' : /\ RefersNext(mail'[m]) /\ m[1] \in DOMAIN request'
                                /\ mail'[m].deal => m[1] \in DOMAIN deal'
    <3> SUFFICES ASSUME NEW m \in DOMAIN mail'
                 PROVE  /\ RefersNext(mail'[m]) /\ m[1] \in DOMAIN request'
                        /\ mail'[m].deal => m[1] \in DOMAIN deal'
      OBVIOUS
    <3>1. m \in DOMAIN mail /\ mail'[m] = mail[m] /\ m \notin mails
      BY <1>7
    <3>2. mail[m][k] # d /\ m[1] \notin gone /\ (mail[m].deal => m[1] \notin deals)
      BY <3>1
    <3>3. Refers(mail[m]) /\ m[1] \in DOMAIN request /\ (mail[m].deal => m[1] \in DOMAIN deal)
      BY <3>1 DEF Inv, TypeOK
    <3> QED BY <1>6, <1>8, <1>11, <3>1, <3>2, <3>3
  <2>4. DOMAIN deal' \subseteq DOMAIN request'
    BY <1>6, <1>8 DEF Inv, TypeOK
  <2>5. DOMAIN request' \subseteq Reqs /\ DOMAIN mail' \subseteq MailIds
    BY <1>7, <1>8 DEF Inv, TypeOK
  <2>6. /\ lead' \subseteq Ids /\ DOMAIN contact' \subseteq Ids /\ lead' \cap DOMAIN contact' = {}
        /\ \A i \in DOMAIN contact' : contact'[i] \in Companies
    BY <1>4, <1>5 DEF Inv, TypeOK
  <2> QED BY <2>1, <2>2, <2>3, <2>4, <2>5, <2>6 DEF TypeOK, Refers, RefersNext
<1>13. IdsOnce'
  <2>1. Given' = Given /\ Clients' \subseteq Clients
    BY <1>1, <1>4, <1>5 DEF Given, Clients
  <2> QED BY <1>1, <2>1 DEF Inv, IdsOnce
<1>14. InquiryFirst'
  <2>1. \A q : Arrived(q)' <=> Arrived(q)
    BY <1>1 DEF Arrived, threads
  <2> QED BY <1>1, <1>8, <2>1 DEF Inv, InquiryFirst, threads
<1>15. ConvertsRight'
  <2>1. \A z : ConvertRight(z) /\ z.lead \in Locked => ConvertRight(z)'
    <3> SUFFICES ASSUME NEW z, ConvertRight(z), z.lead \in Locked PROVE ConvertRight(z)'
      OBVIOUS
    <3>1. z.lead \in lead'
      BY <1>1, <1>4 DEF ConvertRight
    <3>2. k = "contact" => ~(~raced /\ z.contact # Nobody)
      BY <1>2 DEF ConvertRight, Inv, IdsOnce
    <3>3. k # "contact" => DOMAIN contact' = DOMAIN contact
      BY <1>5
    <3> QED BY <1>1, <3>1, <3>2, <3>3 DEF ConvertRight, history
  <2>2. \A v \in Users : tx[v].kind = "convert" => tx[v].lead \in Locked
    BY DEF Locked
  <2> QED BY <1>1, <2>1, <2>2 DEF Inv, ConvertsRight
<1>16. \A q \in DOMAIN deal' \ late : /\ q \in DOMAIN deal /\ q \in DOMAIN request
                                      /\ deal[q][k] # d /\ request[q][k] # d
                                      /\ request'[q] = request[q] /\ deal'[q] = deal[q]
  <2>1. \A q \in DOMAIN deal' : q \in DOMAIN deal /\ q \in DOMAIN request /\ q \in DOMAIN request'
    BY <1>6, <1>8 DEF Inv, TypeOK
  <2> QED BY <1>3, <1>6, <1>8, <2>1
<1> HIDE DEF k, d, first, gone, deals, mails
<1>17. \A q \in DOMAIN deal' \ late : (SameAt(q) => SameAt(q)') /\ (LeadAt(q) => LeadAt(q)')
  <2> SUFFICES ASSUME NEW q \in DOMAIN deal' \ late
               PROVE  (SameAt(q) => SameAt(q)') /\ (LeadAt(q) => LeadAt(q)')
    OBVIOUS
  <2>1. \A j \in Kinds : ~(merge.kind = j /\ {deal[q][j], request[q][j]} = {merge.dup, merge.orig})
    BY <1>16 DEF k, d
  <2>2. SameAt(q) => SameAt(q)'
    BY <1>1, <1>16, <2>1 DEF SameAt, history
  <2>3. LeadAt(q) => LeadAt(q)'
    BY <1>16, <2>1 DEF LeadAt, Kinds
  <2> QED BY <2>2, <2>3
<1>18. SameClient' /\ LeadFollows'
  BY <1>1, <1>6, <1>17, At, AtNext DEF Inv, history
<1>19. DealShown'
  <2>1. \A q \in DOMAIN deal' : q \in DOMAIN deal /\ q \in DOMAIN request'
    BY <1>6, <1>12 DEF TypeOK
  <2>2. \A q \in DOMAIN request' : request'[q].pending = request[q].pending
    <3>1. \A q \in DOMAIN request' : request[q] \in ReqRow
      BY <1>8 DEF Inv, RowTypes
    <3>2. \A q \in DOMAIN request' :
             request'[q] = IF k = "lead" /\ request[q].lead = d
                           THEN [request[q] EXCEPT !.lead = Nobody] ELSE request[q]
      BY <1>1
    <3> QED BY <3>1, <3>2 DEF ReqRow
  <2> QED BY <1>1, <1>8, <2>1, <2>2 DEF Inv, DealShown, history
<1>20. MailsFollow'
  BY <1>6, <1>7 DEF Inv, MailsFollow
<1>21. Served'
  <2>1. \A q \in DOMAIN request' \ late : q \in DOMAIN request /\ request'[q] = request[q]
    BY <1>3, <1>8
  <2> QED BY <1>1, <2>1 DEF Inv, Served, history
<1>22. Moved'
  BY <1>1 DEF Moved
<1> QED BY <1>1, <1>9, <1>10, <1>12, <1>13, <1>14, <1>15, <1>18, <1>19, <1>20, <1>21, <1>22, KeptParts
        DEF Inv
-----------------------------------------------------------------------------
LEMMA InitInv == Init => Inv
<1> SUFFICES ASSUME Init PROVE Inv
  OBVIOUS
<1>1. PICK l \in 0..2, c \in 0..2 : /\ l <= c /\ lead = 1..l
                                    /\ contact \in [(l + 1)..c -> Companies]
  BY DEF Init
<1>2. /\ next = 3 /\ request = <<>> /\ deal = <<>> /\ mail = <<>>
      /\ arr = [r \in Reqs |-> Arr("new")] /\ rep = [r \in Reqs |-> Rep("new")]
      /\ page = [u \in Users |-> NoPage] /\ tx = [u \in Users |-> NoTx] /\ merge = NoMerge
      /\ raced = FALSE /\ stale = {} /\ kept = {} /\ late = {}
  BY DEF Init
<1>3. DOMAIN request = {} /\ DOMAIN deal = {} /\ DOMAIN mail = {}
  BY <1>2
<1>4. DOMAIN contact = (l + 1)..c
  BY <1>1
<1>5. MaxId \in Nat /\ 2 <= MaxId
  BY RequestsAssumption
<1>6. lead \subseteq Ids /\ DOMAIN contact \subseteq Ids /\ lead \cap DOMAIN contact = {}
  BY <1>1, <1>4, <1>5 DEF Ids
<1>7. TypeOK
  BY <1>1, <1>3, <1>4, <1>6 DEF TypeOK
<1>8. IdsOnce
  <2>1. Clients \subseteq 1..(3 - 1)
    BY <1>1, <1>4 DEF Clients
  <2> QED BY <1>2, <1>5, <2>1 DEF IdsOnce, Given
<1>9. HandTypes
  <2>1. Row(Nobody, Nobody, NoCompany) \in ReqRow
    BY DEF Row, ReqRow, Key, Firms
  <2>2. Arr("new") \in Arriving
    BY <2>1 DEF Arr, Arriving
  <2>3. Rep("new") \in Replying
    BY DEF Rep, Ends, Replying, EndRow, Key
  <2> QED BY <1>2, <2>2, <2>3 DEF HandTypes
<1>10. InquiryFirst
  <2>1. NoTx.kind # "post" /\ Arr("new").row.pending /\ ~Arr("new").row.deal
    BY DEF NoTx, Arr, Row
  <2> QED BY <1>2, <1>3, <2>1 DEF InquiryFirst
<1>11. PostsRight /\ ConvertsRight
  <2>1. NoTx.kind # "post" /\ NoTx.kind # "convert"
    BY DEF NoTx
  <2> QED BY <1>2, <2>1 DEF PostsRight, ConvertsRight
<1>12. RowTypes /\ Moved /\ LeadFollows /\ SameClient /\ DealShown /\ MailsFollow /\ Served
  BY <1>2, <1>3 DEF RowTypes, Moved, LeadFollows, SameClient, DealShown, MailsFollow, Served
<1> QED BY <1>7, <1>8, <1>9, <1>10, <1>11, <1>12 DEF Inv

LEMMA StepKeeps == Inv /\ [Next]_vars => Inv'
<1> SUFFICES ASSUME Inv, [Next]_vars PROVE Inv'
  OBVIOUS
<1>1. CASE UNCHANGED vars
  BY <1>1, StutterKeeps
<1>2. CASE \E r \in Reqs : FindInquiry(r) \/ SaveInquiry(r) \/ LinkInquiry(r)
                           \/ ReadReply(r) \/ SaveReply(r)
  BY <1>2, FindInquiryKeeps, SaveInquiryKeeps, LinkInquiryKeeps, ReadReplyKeeps, SaveReplyKeeps
<1>3. CASE \E u \in Users, r \in Reqs : OpenPage(u, r)
  BY <1>3, OpenPageKeeps
<1>4. CASE \E u \in Users : LoadPost(u) \/ CommitPost(u) \/ AbortPost(u) \/ CommitConvert(u)
  BY <1>4, LoadPostKeeps, CommitPostKeeps, AbortPostKeeps, CommitConvertKeeps
<1>5. CASE \E u \in Users, l \in Ids : LoadConvert(u, l)
  BY <1>5, LoadConvertKeeps
<1>6. CASE \E r \in Reqs, c \in Ids : ChoosePartner(r, c)
  BY <1>6, ChoosePartnerKeeps
<1>7. CASE \E k \in Kinds, d, o \in Ids : StartMerge(k, d, o)
  BY <1>7, StartMergeKeeps
<1>8. CASE Relate \/ SaveOriginal \/ DeleteDuplicate
  BY <1>8, RelateKeeps, SaveOriginalKeeps, DeleteDuplicateKeeps
<1> QED BY <1>1, <1>2, <1>3, <1>4, <1>5, <1>6, <1>7, <1>8 DEF Next

(* The inductive invariant holds in every state. *)
THEOREM InvHolds == Spec => []Inv
<1>1. Init => Inv
  BY InitInv
<1>2. Inv /\ [Next]_vars => Inv'
  BY StepKeeps
<1> QED BY <1>1, <1>2, PTL DEF Spec

(* A request, its client, its deal and its mails stay together, whichever   *)
(* forms, conversions, removals of duplicates and mail threads overlap and  *)
(* however many there are.                                                  *)
THEOREM Together == Spec => []DealsFollow
<1>1. Inv => DealsFollow
  BY DEF Inv, DealsFollow
<1> QED BY <1>1, InvHolds, PTL
-----------------------------------------------------------------------------
LEMMA FewerClients ==
    ASSUME Inv, NEW S, S \subseteq Clients
    PROVE  ~(Cardinality(S) > Cardinality(Clients))
<1>1. IsFiniteSet(Clients)
  BY IdsFinite DEF Inv, TypeOK, Clients
<1>2. IsFiniteSet(S) /\ Cardinality(S) <= Cardinality(Clients)
  BY <1>1, FS_Subset
<1>3. Cardinality(S) \in Nat /\ Cardinality(Clients) \in Nat
  BY <1>1, <1>2, FS_CardinalityType
<1> QED BY <1>2, <1>3

LEMMA NoClientMade ==
    ASSUME Inv, lead' = lead, contact' = contact
    PROVE  /\ Cardinality(Clients') > Cardinality(Clients) => Clients = {} \/ raced'
           /\ DOMAIN contact' \subseteq DOMAIN contact \/ DOMAIN contact = {} \/ raced'
<1>1. Clients' = Clients
  BY DEF Clients
<1>2. ~(Cardinality(Clients) > Cardinality(Clients))
  BY FewerClients
<1> QED BY <1>1, <1>2

(* Nobody is entered twice, unless the search was outdated when its result  *)
(* was used.                                                                *)
THEOREM NobodyTwice == Spec => NoNewDouble
<1> DEFINE Step == /\ Cardinality(Clients') > Cardinality(Clients) => Clients = {} \/ raced'
                   /\ DOMAIN contact' \subseteq DOMAIN contact \/ DOMAIN contact = {} \/ raced'
<1>1. Inv /\ Next => Step
  <2> SUFFICES ASSUME Inv, Next PROVE Step
    OBVIOUS
  <2>1. CASE lead' = lead /\ contact' = contact
    BY <2>1, NoClientMade
  <2>2. CASE \E u \in Users : CommitPost(u)
    <3> PICK u \in Users : CommitPost(u)
      BY <2>2
    <3>1. PostRight(tx[u])
      BY DEF CommitPost, Inv, PostsRight
    <3>2. /\ tx[u].new = "no" => lead' = lead /\ contact' = contact
          /\ raced' = (raced \/ (tx[u].new # "no" /\ tx[u].alone /\ Clients # {}))
      BY DEF CommitPost
    <3>3. tx[u].new # "no" => Clients = {} \/ raced'
      BY <3>1, <3>2 DEF PostRight
    <3>4. Clients = {} => DOMAIN contact = {}
      BY DEF Clients
    <3> QED BY <2>1, <3>2, <3>3, <3>4
  <2>3. CASE \E u \in Users : CommitConvert(u)
    <3> PICK u \in Users : CommitConvert(u)
      BY <2>3
    <3> DEFINE t == tx[u]
    <3>1. ConvertRight(t)
      BY DEF CommitConvert, Inv, ConvertsRight
    <3>2. CASE t.contact = Nobody
      <4>1. /\ contact' = Put(contact, next, t.company) /\ lead' = lead \ {t.lead}
            /\ raced' = (raced \/ (t.alone /\ DOMAIN contact # {}))
        BY <3>2 DEF CommitConvert
      <4>2. DOMAIN contact' = DOMAIN contact \cup {next}
        BY <4>1 DEF Put
      <4>3. t.lead \in lead /\ lead \cap DOMAIN contact = {} /\ next \notin Clients
        <5>1. next \in 3..(MaxId + 1) /\ Clients \subseteq 1..(next - 1)
          BY DEF Inv, IdsOnce, Given
        <5>2. next \notin 1..(next - 1)
          BY <5>1
        <5> QED BY <3>1, <5>1, <5>2 DEF ConvertRight, Inv, TypeOK
      <4>4. Clients' = (Clients \ {t.lead}) \cup {next} /\ t.lead \in Clients
        BY <4>1, <4>2, <4>3 DEF Clients
      <4>5. IsFiniteSet(Clients)
        BY IdsFinite DEF Inv, TypeOK, Clients
      <4> HIDE DEF t
      <4>6. IsFiniteSet(Clients \ {t.lead}) /\ Cardinality(Clients \ {t.lead}) = Cardinality(Clients) - 1
        BY <4>4, <4>5, FS_RemoveElement
      <4>7. Cardinality(Clients') = Cardinality(Clients) - 1 + 1
        BY <4>3, <4>4, <4>6, FS_AddElement
      <4>8. Cardinality(Clients) \in Nat
        BY <4>5, FS_CardinalityType
      <4>9. ~(Cardinality(Clients') > Cardinality(Clients))
        BY <4>7, <4>8
      <4> QED BY <3>1, <3>2, <4>1, <4>9 DEF ConvertRight
    <3>3. CASE t.contact # Nobody
      <4>1. contact' = contact /\ (lead' = lead \/ lead' = lead \ {t.lead})
        BY <3>3 DEF CommitConvert, rows
      <4>2. Clients' \subseteq Clients
        BY <4>1 DEF Clients
      <4> QED BY <4>1, <4>2, FewerClients
    <3> QED BY <3>2, <3>3
  <2>4. CASE SaveOriginal
    <3>1. raced' \/ (lead' = lead /\ contact' = contact)
      <4>1. /\ raced' = (raced \/ ~There(merge.kind, merge.orig))
            /\ lead' = IF merge.kind = "lead" THEN lead \cup {merge.orig} ELSE lead
            /\ contact' = IF merge.kind = "contact" /\ ~There(merge.kind, merge.orig)
                          THEN Put(contact, merge.orig, merge.company) ELSE contact
        BY <2>4 DEF SaveOriginal
      <4> QED BY <4>1 DEF There
    <3> QED BY <2>1, <3>1
  <2>5. CASE DeleteDuplicate
    <3>1. lead' \subseteq lead /\ DOMAIN contact' \subseteq DOMAIN contact
      <4>1. DOMAIN Drop(contact, {merge.dup}) \subseteq DOMAIN contact
        BY DEF Drop, Restrict
      <4> QED BY <2>5, <4>1 DEF DeleteDuplicate
    <3>2. Clients' \subseteq Clients
      BY <3>1 DEF Clients
    <3> QED BY <3>1, <3>2, FewerClients
  <2> HIDE DEF Step
  <2>6. CASE \E r \in Reqs : FindInquiry(r) \/ SaveInquiry(r) \/ LinkInquiry(r)
                             \/ ReadReply(r) \/ SaveReply(r)
    <3>1. lead' = lead /\ contact' = contact
      BY <2>6 DEF FindInquiry, SaveInquiry, LinkInquiry, ReadReply, SaveReply, rows
    <3> QED BY <2>1, <3>1
  <2>7. CASE \E u \in Users : LoadPost(u) \/ AbortPost(u)
    <3>1. lead' = lead /\ contact' = contact
      BY <2>7 DEF LoadPost, AbortPost, rows
    <3> QED BY <2>1, <3>1
  <2>8. CASE \/ \E u \in Users, r \in Reqs : OpenPage(u, r)
             \/ \E u \in Users, l \in Ids : LoadConvert(u, l)
             \/ \E r \in Reqs, c \in Ids : ChoosePartner(r, c)
             \/ \E k \in Kinds, d, o \in Ids : StartMerge(k, d, o)
             \/ Relate
    <3>1. lead' = lead /\ contact' = contact
      BY <2>8 DEF OpenPage, LoadConvert, ChoosePartner, StartMerge, Relate, rows
    <3> QED BY <2>1, <3>1
  <2> QED BY <2>2, <2>3, <2>4, <2>5, <2>6, <2>7, <2>8 DEF Next
<1>2. Inv /\ [Next]_vars => [Step]_vars
  <2> HIDE DEF Step
  <2> QED BY <1>1
<1> QED BY <1>2, InvHolds, PTL DEF Spec, NoNewDouble

(* Nothing is lost with a duplicate. *)
LEMMA DeleteLoses ==
    ASSUME Inv, DeleteDuplicate, NEW r \in Reqs \ late,
           r \in DOMAIN deal => deal[r].partner = Nobody \/ deal[r].partner \in DOMAIN contact'
    PROVE  /\ r \in DOMAIN request => r \in DOMAIN request'
           /\ r \in DOMAIN deal => r \in DOMAIN deal'
           /\ \A k \in {"inquiry", "reply"} : <<r, k>> \in DOMAIN mail => <<r, k>> \in DOMAIN mail'
<1> DEFINE k == merge.kind
           d == merge.dup
           first == {q \in DOMAIN deal : deal[q][k] = d \/ (k = "contact" /\ deal[q].partner = d)}
           gone == {q \in DOMAIN request : \/ q \in first /\ request[q].deal
                                           \/ k = "contact" /\ request[q].contact = d}
           deals == first \cup gone
           mails == {m \in DOMAIN mail : \/ m[1] \in gone
                                         \/ m[1] \in deals /\ mail[m].deal
                                         \/ mail[m][k] = d}
<1>1. /\ k \in Kinds /\ merge.step = Len(Tables(k)) + 2
      /\ contact' = IF k = "contact" THEN Drop(contact, {d}) ELSE contact
      /\ deal' = Drop(deal, deals) /\ mail' = Drop(mail, mails)
      /\ DOMAIN request' = DOMAIN request \ gone
  BY DEF DeleteDuplicate
<1>2. merge # NoMerge /\ d # Nobody
  BY <1>1, MergeIs
<1>3. /\ r \in DOMAIN request => request[r][k] # d
      /\ r \in DOMAIN deal => deal[r][k] # d
      /\ \A m \in DOMAIN mail : m[1] = r => mail[m][k] # d
  <2>1. /\ Len(Tables(k)) = 3 /\ DOMAIN Tables(k) = 1..3
        /\ \A n \in {"deal", "request", "mail"} : \E i \in 1..3 : Tables(k)[i] = n
    BY <1>1, TablesIs
  <2>2. merge.step = 5
    BY <1>1, <2>1
  <2>3. \A n \in {"deal", "request", "mail"} : After(n)
    BY <2>1, <2>2 DEF After
  <2> QED BY <1>2, <2>3 DEF Inv, Moved
<1>4. k = "contact" /\ r \in DOMAIN deal => deal[r].partner # d
  <2>1. k = "contact" => d \notin DOMAIN contact'
    BY <1>1 DEF Drop, Restrict
  <2> QED BY <1>2, <2>1
<1>5. r \notin first /\ r \notin gone /\ \A m \in DOMAIN mail : m[1] = r => m \notin mails
  BY <1>3, <1>4
<1> HIDE DEF first, gone, deals, mails
<1>6. DOMAIN deal' = DOMAIN deal \ deals /\ DOMAIN mail' = DOMAIN mail \ mails
  BY <1>1 DEF Drop, Restrict
<1>7. \A n : <<r, n>>[1] = r
  OBVIOUS
<1> QED BY <1>1, <1>5, <1>6, <1>7 DEF deals

(* Converting a lead and removing a duplicate lose no request, deal or      *)
(* mail, except those saved with the duplicate meanwhile and those of a     *)
(* deal whose partner contact it is.                                        *)
THEOREM NothingIsLost == Spec => NothingVanishes
<1> DEFINE Kept(r) ==
        (r \in DOMAIN deal => deal[r].partner = Nobody \/ deal[r].partner \in DOMAIN contact')
        => /\ r \in DOMAIN request => r \in DOMAIN request'
           /\ r \in DOMAIN deal => r \in DOMAIN deal'
           /\ \A k \in {"inquiry", "reply"} : <<r, k>> \in DOMAIN mail => <<r, k>> \in DOMAIN mail'
<1>1. Inv /\ Next => \A r \in Reqs \ late : Kept(r)
  <2> SUFFICES ASSUME Inv, Next PROVE \A r \in Reqs \ late : Kept(r)
    OBVIOUS
  <2>1. CASE DeleteDuplicate
    BY <2>1, DeleteLoses
  <2>2. CASE /\ DOMAIN request \subseteq DOMAIN request' /\ DOMAIN deal \subseteq DOMAIN deal'
             /\ DOMAIN mail \subseteq DOMAIN mail'
    BY <2>2
  <2> HIDE DEF Kept
  <2>3. CASE UNCHANGED <<request, deal, mail>>
    BY <2>2, <2>3
  <2>4. \A f, x, v : DOMAIN f \subseteq DOMAIN Put(f, x, v)
    BY DEF Put
  <2>5. CASE \E r \in Reqs : FindInquiry(r) \/ SaveInquiry(r) \/ LinkInquiry(r)
                             \/ ReadReply(r) \/ SaveReply(r)
    <3>1. /\ request' = request \/ \E x, v : request' = Put(request, x, v)
          /\ mail' = mail \/ \E x, v : mail' = Put(mail, x, v)
          /\ deal' = deal
      BY <2>5 DEF FindInquiry, SaveInquiry, LinkInquiry, ReadReply, SaveReply, rows
    <3> QED BY <2>2, <2>4, <3>1
  <2>6. CASE \E u \in Users : CommitPost(u)
    <3>1. /\ \E x, v : request' = Put(request, x, v)
          /\ deal' = deal \/ \E x, v : deal' = Put(deal, x, v)
          /\ \E t, row : mail' = Filed(t, row, Mailed(t, row))
      BY <2>6 DEF CommitPost
    <3>2. \A t, row : DOMAIN Filed(t, row, Mailed(t, row)) = DOMAIN mail
      BY DEF Filed, Mailed
    <3> QED BY <2>2, <2>4, <3>1, <3>2
  <2>7. CASE \E u \in Users : CommitConvert(u)
    <3>1. UNCHANGED <<request, deal, mail>> \/
          \E l, c : /\ request' = Converted(request, l, c) /\ deal' = Converted(deal, l, c)
                   /\ mail' = Converted(mail, l, c)
      BY <2>7 DEF CommitConvert, rows
    <3>2. \A f, l, c : DOMAIN Converted(f, l, c) = DOMAIN f
      BY DEF Converted
    <3> QED BY <2>2, <2>3, <3>1, <3>2
  <2>8. CASE \/ \E u \in Users : LoadPost(u) \/ AbortPost(u)
             \/ \E u \in Users, r \in Reqs : OpenPage(u, r)
             \/ \E u \in Users, l \in Ids : LoadConvert(u, l)
             \/ \E k \in Kinds, d, o \in Ids : StartMerge(k, d, o)
             \/ SaveOriginal
    <3>1. UNCHANGED <<request, deal, mail>>
      BY <2>8 DEF LoadPost, AbortPost, OpenPage, LoadConvert, StartMerge, SaveOriginal, rows
    <3> QED BY <2>3, <3>1
  <2>9. CASE \E r \in Reqs, c \in Ids : ChoosePartner(r, c)
    <3>1. request' = request /\ mail' = mail /\ DOMAIN deal' = DOMAIN deal
      BY <2>9 DEF ChoosePartner
    <3> QED BY <2>2, <3>1
  <2>10. CASE Relate
    <3>1. \A f : DOMAIN Related(f) = DOMAIN f
      BY DEF Related
    <3>2. /\ request' = request \/ request' = Related(request)
          /\ deal' = deal \/ deal' = Related(deal)
          /\ mail' = mail \/ mail' = Related(mail)
      BY <2>10 DEF Relate
    <3> QED BY <2>2, <3>1, <3>2
  <2> QED BY <2>1, <2>5, <2>6, <2>7, <2>8, <2>9, <2>10 DEF Next
<1> DEFINE Step == \A r \in Reqs \ late : Kept(r)
<1>2. Inv /\ [Next]_vars => [Step]_vars
  <2> HIDE DEF Step
  <2>1. Inv /\ Next => Step
    BY <1>1 DEF Step
  <2> QED BY <2>1
<1> QED BY <1>2, InvHolds, PTL DEF Spec, NothingVanishes
-----------------------------------------------------------------------------
(* Payments: what the variables hold.                                      *)
CurrencyRow == [rate : 0..MaxDay, mark : Marks, auto : BOOLEAN]
Table == [Currencies -> CurrencyRow]
RateRow == [currency : Currencies, date : Days, value : 0..MaxDay, official : BOOLEAN]
Numbers == SUBSET Nat
PaymentTx == [kind : {"payment"}, id : Nat, form : Forms, wanted : BOOLEAN, looked : Numbers,
              rate : 0..MaxDay]
CurrencyTx == [kind : {"currency"}, id : Currencies, form : CurrencyRow, looked : Table]
Updating == [at : {"update"}, now : Days, loaded : Table \cup {<<>>}, todo : SUBSET Currencies]
Getting == [at : {"get"}, now : Days, payment : Forms]
Saving == [at : {"save"}, now : Days, payment : Forms, row : Numbers, looked : Numbers]
PayTypes ==
    /\ day \in Days /\ currencies \in Table /\ due \in Seq(Forms) /\ rates \in Seq(RateRow)
    /\ filling \in [Clerks -> PaymentTx \cup CurrencyTx \cup {NoPost}]
    /\ loader \in {LoaderAsleep, Ended} \cup Updating \cup Getting \cup Saving

(* No rate is of today or later, in the tables or in anybody's hands.      *)
PastRates ==
    /\ \A c \in Currencies : currencies[c].rate < day
    /\ \A r \in DOMAIN rates : /\ rates[r].value < day
                               /\ rates[r].official => rates[r].value = rates[r].date
    /\ \A u \in Clerks : /\ filling[u] \in PaymentTx => filling[u].rate < day
                         /\ filling[u] \in CurrencyTx => filling[u].form.rate < day
    /\ loader \in Updating => loader.now <= day
    /\ loader \in Getting \cup Saving => loader.payment.date < loader.now /\ loader.now <= day

(* A form makes a rate if it has seen none of its currency and day, and    *)
(* otherwise there is one; a form of a currency has seen no other marked   *)
(* the same.                                                               *)
FormRight(t) ==
    /\ t \in PaymentTx =>
         /\ t.looked \subseteq DOMAIN rates
         /\ t.wanted => \A r \in t.looked : r \notin RatesOf(t.form.currency, t.form.date)
         /\ t.form.received /\ ~t.wanted => RatesOf(t.form.currency, t.form.date) # {}
    /\ t \in CurrencyTx =>
         t.form.mark = "none" \/ \A d \in Currencies \ {t.id} : t.looked[d].mark # t.form.mark
FormsRight == \A u \in Clerks : FormRight(filling[u])

(* The thread has currencies in its hands until it has updated them; the   *)
(* payment it has asked for has no official rate, and the row it will      *)
(* change is the one it has seen.                                          *)
LoaderRight ==
    LET same == RatesOf(loader.payment.currency, loader.payment.date) IN
    /\ loader \in Updating /\ loader.todo # {} => loader.loaded \in Table
    /\ loader \in Getting \cup Saving => \A r \in same : ~rates[r].official
    /\ loader \in Saving => loader.row = same \cap loader.looked /\ loader.looked \subseteq DOMAIN rates

PayInv == PayTypes /\ PastRates /\ FormsRight /\ LoaderRight /\ Rated

(* Rates stay of their currency and day, official ones stay as they are.   *)
RatesStay ==
    /\ DOMAIN rates \subseteq DOMAIN rates'
    /\ \A r \in DOMAIN rates : /\ rates'[r].currency = rates[r].currency
                               /\ rates'[r].date = rates[r].date
                               /\ rates[r].official => rates'[r] = rates[r]
-----------------------------------------------------------------------------
LEMMA Appended ==
    ASSUME NEW R, NEW s \in Seq(R), NEW x \in R
    PROVE  /\ Append(s, x) \in Seq(R) /\ Len(s) + 1 \notin DOMAIN s
           /\ DOMAIN Append(s, x) = DOMAIN s \cup {Len(s) + 1}
           /\ \A i \in DOMAIN s : Append(s, x)[i] = s[i] /\ i < Len(s) + 1
           /\ Append(s, x)[Len(s) + 1] = x
OBVIOUS

LEMMA Replaced ==
    ASSUME NEW R, NEW s \in Seq(R), NEW k \in DOMAIN s, NEW x \in R
    PROVE  /\ [s EXCEPT ![k] = x] \in Seq(R) /\ DOMAIN [s EXCEPT ![k] = x] = DOMAIN s
           /\ [s EXCEPT ![k] = x][k] = x
           /\ \A i \in DOMAIN s : i # k => [s EXCEPT ![k] = x][i] = s[i]
OBVIOUS

LEMMA ElementsOf == ASSUME NEW R, NEW s \in Seq(R) PROVE \A i \in DOMAIN s : s[i] \in R
OBVIOUS

LEMMA IndexesOf == ASSUME NEW R, NEW s \in Seq(R) PROVE DOMAIN s \subseteq Nat /\ Len(s) \in Nat
OBVIOUS

LEMMA KindsApart ==
    /\ \A t \in PaymentTx : t.kind = "payment" /\ t \notin CurrencyTx /\ t # NoPost
    /\ \A t \in CurrencyTx : t.kind = "currency" /\ t \notin PaymentTx /\ t # NoPost
    /\ NoPost \notin PaymentTx \cup CurrencyTx /\ NoPost.kind = "idle"
BY DEF PaymentTx, CurrencyTx, NoPost

LEMMA PlacesApart ==
    /\ \A l \in Updating : l.at = "update" /\ l \notin Getting /\ l \notin Saving /\ l # LoaderAsleep /\ l # Ended
    /\ \A l \in Getting : l.at = "get" /\ l \notin Updating /\ l \notin Saving /\ l # LoaderAsleep /\ l # Ended
    /\ \A l \in Saving : l.at = "save" /\ l \notin Getting /\ l \notin Updating /\ l # LoaderAsleep /\ l # Ended
    /\ LoaderAsleep.at = "asleep" /\ Ended.at = "ended"
    /\ {LoaderAsleep, Ended} \cap (Updating \cup Getting \cup Saving) = {}
BY DEF Updating, Getting, Saving, LoaderAsleep, Ended
-----------------------------------------------------------------------------
(* The rates of a currency and a day, from one state to the next.          *)
LEMMA RatesGrow ==
    ASSUME RatesStay, NEW c, NEW d
    PROVE  /\ RatesOf(c, d) \subseteq RatesOf(c, d)'
           /\ RatesOf(c, d)' \cap DOMAIN rates = RatesOf(c, d)
BY DEF RatesStay, RatesOf

LEMMA FormsStayRight ==
    ASSUME RatesStay, NEW t, FormRight(t) PROVE FormRight(t)'
<1>1. ASSUME t \in PaymentTx
      PROVE  /\ t.looked \subseteq DOMAIN rates'
             /\ t.wanted => \A r \in t.looked : r \notin RatesOf(t.form.currency, t.form.date)'
             /\ t.form.received /\ ~t.wanted => RatesOf(t.form.currency, t.form.date)' # {}
  <2>1. t.looked \subseteq DOMAIN rates /\ DOMAIN rates \subseteq DOMAIN rates'
    BY <1>1 DEF FormRight, RatesStay
  <2>2. t.wanted => \A r \in t.looked : r \notin RatesOf(t.form.currency, t.form.date)
    BY <1>1 DEF FormRight
  <2>3. t.form.received /\ ~t.wanted => RatesOf(t.form.currency, t.form.date) # {}
    BY <1>1 DEF FormRight
  <2> QED BY <2>1, <2>2, <2>3, RatesGrow
<1>2. t \in CurrencyTx => 
         t.form.mark = "none" \/ \A d \in Currencies \ {t.id} : t.looked[d].mark # t.form.mark
  BY DEF FormRight
<1> QED BY <1>1, <1>2 DEF FormRight

LEMMA FormsKept ==
    ASSUME RatesStay, FormsRight, NEW t, FormRight(t), \A v \in Clerks : filling'[v] = filling[v] \/ filling'[v] = t
    PROVE  FormsRight'
<1>1. \A v \in Clerks : FormRight(filling[v])
  BY DEF FormsRight
<1> SUFFICES ASSUME NEW v \in Clerks PROVE FormRight(filling[v])'
  BY DEF FormsRight
<1>2. PICK w : w = filling'[v] /\ FormRight(w)
  BY <1>1
<1>3. FormRight(w)'
  BY <1>2, FormsStayRight
<1> QED BY <1>2, <1>3 DEF FormRight

LEMMA StillRated ==
    ASSUME RatesStay, Rated, UNCHANGED due PROVE Rated'
<1>1. ASSUME NEW p \in DOMAIN due, due[p].received PROVE RatesOf(due[p].currency, due[p].date)' # {}
  BY <1>1, RatesGrow DEF Rated
<1> QED BY <1>1 DEF Rated

LEMMA OldestAwaits ==
    ASSUME PayTypes, NEW now \in Days, \E p \in DOMAIN due : Awaits(p, now)
    PROVE  Oldest(now) \in DOMAIN due /\ Awaits(Oldest(now), now)
<1> DEFINE W == {p \in DOMAIN due : Awaits(p, now)}
<1>1. W \subseteq Nat /\ W # {}
  BY IndexesOf DEF PayTypes
<1>2. \E p \in W : \A q \in W : p <= q
  BY <1>1, HasLeast
<1> QED BY <1>2 DEF Oldest
-----------------------------------------------------------------------------
(* The forms.                                                              *)
LEMMA PostPaymentInv ==
    ASSUME PayInv, NEW u \in Clerks, PostPayment(u) PROVE PayInv' /\ RatesStay
<1>1. PICK form \in Forms, id \in (DOMAIN due) \cup {Len(due) + 1} :
        filling' = [filling EXCEPT ![u] = [kind |-> "payment", id |-> id, form |-> form,
                   wanted |-> NeedsRate(form, {due[p] : p \in {id} \cap DOMAIN due}),
                   looked |-> DOMAIN rates,
                   rate |-> IF NeedsRate(form, {due[p] : p \in {id} \cap DOMAIN due})
                            THEN currencies[form.currency].rate ELSE 0]]
  BY Zenon DEF PostPayment
<1>2. UNCHANGED <<day, currencies, due, rates, loader>>
  BY DEF PostPayment, tables
<1> DEFINE wanted == NeedsRate(form, {due[p] : p \in {id} \cap DOMAIN due})
           t == [kind |-> "payment", id |-> id, form |-> form, wanted |-> wanted,
                 looked |-> DOMAIN rates,
                 rate |-> IF wanted THEN currencies[form.currency].rate ELSE 0]
<1>3. /\ DOMAIN rates \subseteq Nat /\ id \in Nat /\ form.currency \in Currencies
      /\ currencies[form.currency].rate \in 0..MaxDay /\ currencies[form.currency].rate < day
      /\ day \in Nat /\ 0 < day /\ MaxDay \in Nat
  <2>1. currencies[form.currency] \in CurrencyRow /\ form.currency \in Currencies
    BY DEF PayInv, PayTypes, Table, Forms
  <2>2. DOMAIN rates \subseteq Nat /\ id \in Nat
    BY IndexesOf DEF PayInv, PayTypes
  <2>3. day \in Nat /\ 0 < day /\ MaxDay \in Nat
    BY PaymentsAssumption DEF PayInv, PayTypes, Days
  <2> QED BY <2>1, <2>2, <2>3 DEF CurrencyRow, PayInv, PastRates
<1>4. wanted \in BOOLEAN /\ (wanted <=> form.received /\ RatesOf(form.currency, form.date) = {})
  BY DEF NeedsRate, Forms
<1> HIDE DEF wanted
<1>5. t \in PaymentTx /\ t.rate < day
  BY <1>3, <1>4 DEF PaymentTx, Numbers
<1>6. FormRight(t)
  BY <1>4, <1>5, KindsApart DEF FormRight
<1>7. filling' = [filling EXCEPT ![u] = t]
  BY <1>1 DEF wanted
<1> HIDE DEF t
<1>8. PayTypes'
  BY <1>2, <1>5, <1>7 DEF PayInv, PayTypes
<1>9. \A v \in Clerks : filling'[v] = filling[v] \/ filling'[v] = t
  BY <1>7 DEF PayInv, PayTypes
<1>10. RatesStay
  BY <1>2 DEF RatesStay
<1>11. FormsRight'
  BY <1>6, <1>9, <1>10, FormsKept DEF PayInv
<1>12. PastRates'
  BY <1>2, <1>5, <1>9, KindsApart DEF PayInv, PastRates
<1>13. LoaderRight' /\ Rated'
  BY <1>2 DEF PayInv, LoaderRight, Rated, RatesOf
<1> QED BY <1>8, <1>10, <1>11, <1>12, <1>13 DEF PayInv

LEMMA PostCurrencyInv ==
    ASSUME PayInv, NEW u \in Clerks, PostCurrency(u) PROVE PayInv' /\ RatesStay
<1>1. PICK c \in Currencies, mark \in Marks, auto \in BOOLEAN :
        /\ Clean(c, mark)
        /\ filling' = [filling EXCEPT ![u] = [kind |-> "currency", id |-> c, looked |-> currencies,
                      form |-> [rate |-> currencies[c].rate, mark |-> mark, auto |-> auto]]]
  BY DEF PostCurrency
<1>2. UNCHANGED <<day, currencies, due, rates, loader>>
  BY DEF PostCurrency, tables
<1> DEFINE t == [kind |-> "currency", id |-> c, looked |-> currencies,
                 form |-> [rate |-> currencies[c].rate, mark |-> mark, auto |-> auto]]
<1>3. currencies \in Table /\ currencies[c].rate \in 0..MaxDay /\ currencies[c].rate < day
  BY DEF PayInv, PayTypes, PastRates, Table, CurrencyRow
<1>4. t \in CurrencyTx /\ t.form.rate < day
  BY <1>3 DEF CurrencyTx, CurrencyRow
<1>5. FormRight(t)
  BY <1>1, <1>4, KindsApart DEF FormRight, Clean
<1>6. filling' = [filling EXCEPT ![u] = t]
  BY <1>1
<1> HIDE DEF t
<1>7. PayTypes'
  BY <1>2, <1>4, <1>6 DEF PayInv, PayTypes
<1>8. \A v \in Clerks : filling'[v] = filling[v] \/ filling'[v] = t
  BY <1>6 DEF PayInv, PayTypes
<1>9. RatesStay
  BY <1>2 DEF RatesStay
<1>10. FormsRight'
  BY <1>5, <1>8, <1>9, FormsKept DEF PayInv
<1>11. PastRates'
  BY <1>2, <1>4, <1>8, KindsApart DEF PayInv, PastRates
<1>12. LoaderRight' /\ Rated'
  BY <1>2 DEF PayInv, LoaderRight, Rated, RatesOf
<1> QED BY <1>7, <1>9, <1>10, <1>11, <1>12 DEF PayInv

LEMMA CommitPaymentInv ==
    ASSUME PayInv, NEW u \in Clerks, CommitPayment(u) PROVE PayInv' /\ RatesStay
<1> DEFINE t == filling[u]
           new == [currency |-> t.form.currency, date |-> t.form.date,
                   value |-> t.rate, official |-> FALSE]
<1>1. /\ t \in PaymentTx /\ filling' = [filling EXCEPT ![u] = NoPost]
      /\ due' = IF t.id \in DOMAIN due THEN [due EXCEPT ![t.id] = t.form] ELSE Append(due, t.form)
      /\ rates' = IF ~t.wanted THEN rates ELSE Append(rates, new)
      /\ UNCHANGED <<day, currencies, loader>>
  <2>1. filling[u] \in PaymentTx \cup CurrencyTx \cup {NoPost} /\ filling[u].kind = "payment"
    BY DEF PayInv, PayTypes, CommitPayment
  <2>2. filling[u] \in PaymentTx
    BY <2>1, KindsApart
  <2> QED BY <2>2 DEF CommitPayment, SavePayment
<1>2. /\ t.form \in Forms /\ t.rate \in 0..MaxDay /\ t.rate < day /\ t.wanted \in BOOLEAN
      /\ FormRight(t) /\ \A v \in Clerks : FormRight(filling[v])
  BY <1>1 DEF PaymentTx, PayInv, PastRates, FormsRight
<1>3. /\ t.wanted => \A r \in t.looked : r \notin RatesOf(t.form.currency, t.form.date)
      /\ t.form.received /\ ~t.wanted => RatesOf(t.form.currency, t.form.date) # {}
  BY <1>1, <1>2 DEF FormRight
<1> HIDE DEF t
<1>4. new \in RateRow /\ new.value < day /\ ~new.official
      /\ new.currency = t.form.currency /\ new.date = t.form.date
  BY <1>2 DEF RateRow, Forms
<1> HIDE DEF new
<1>5. /\ rates' \in Seq(RateRow) /\ RatesStay
      /\ \A r \in DOMAIN rates : rates'[r] = rates[r]
      /\ \A r \in DOMAIN rates' : r \in DOMAIN rates \/ (t.wanted /\ rates'[r] = new)
      /\ t.wanted => \E r \in DOMAIN rates' : rates'[r] = new
  <2>1. rates \in Seq(RateRow)
    BY DEF PayInv, PayTypes
  <2>2. CASE t.wanted
    <3>1. rates' = Append(rates, new)
      BY <1>1, <2>2
    <3> QED BY <1>4, <2>1, <2>2, <3>1, Appended DEF RatesStay
  <2>3. CASE ~t.wanted
    <3>1. rates' = rates
      BY <1>1, <2>3
    <3> QED BY <2>1, <2>3, <3>1 DEF RatesStay
  <2> QED BY <2>2, <2>3
<1>6. due' \in Seq(Forms) /\ \A p \in DOMAIN due' : due'[p] = t.form \/ (p \in DOMAIN due /\ due'[p] = due[p])
  <2>1. due \in Seq(Forms)
    BY DEF PayInv, PayTypes
  <2>2. CASE t.id \in DOMAIN due
    BY <1>1, <1>2, <2>1, <2>2, Replaced
  <2>3. CASE t.id \notin DOMAIN due
    BY <1>1, <1>2, <2>1, <2>3, Appended
  <2> QED BY <2>2, <2>3
<1>7. \A v \in Clerks : filling'[v] = filling[v] \/ filling'[v] = NoPost
  BY <1>1 DEF PayInv, PayTypes
<1>8. PayTypes'
  BY <1>1, <1>5, <1>6 DEF PayInv, PayTypes
<1>9. FormsRight'
  <2>1. FormRight(NoPost)
    BY KindsApart DEF FormRight
  <2> QED BY <1>5, <1>7, <2>1, FormsKept DEF PayInv
<1>10. PastRates'
  <2>1. \A r \in DOMAIN rates' : /\ rates'[r].value < day'
                                 /\ rates'[r].official => rates'[r].value = rates'[r].date
    BY <1>1, <1>4, <1>5 DEF PayInv, PastRates
  <2>2. \A v \in Clerks : /\ filling'[v] \in PaymentTx => filling'[v].rate < day'
                          /\ filling'[v] \in CurrencyTx => filling'[v].form.rate < day'
    BY <1>1, <1>7, KindsApart DEF PayInv, PastRates
  <2> QED BY <1>1, <2>1, <2>2 DEF PayInv, PastRates
<1>11. LoaderRight'
  <2>0. PICK c, d : c = loader.payment.currency /\ d = loader.payment.date
    OBVIOUS
  <2>1. ASSUME loader \in Getting \cup Saving, NEW r \in RatesOf(c, d)' PROVE ~rates'[r].official
    <3>1. CASE r \in DOMAIN rates
      <4>1. r \in RatesOf(c, d)
        BY <1>5, <2>1, <3>1, RatesGrow
      <4> QED BY <1>5, <2>0, <2>1, <3>1, <4>1 DEF PayInv, LoaderRight
    <3>2. CASE r \notin DOMAIN rates
      BY <1>4, <1>5, <2>1, <3>2 DEF RatesOf
    <3> QED BY <3>1, <3>2
  <2>2. ASSUME loader \in Saving
        PROVE  loader.row = RatesOf(c, d)' \cap loader.looked /\ loader.looked \subseteq DOMAIN rates'
    <3>1. loader.row = RatesOf(c, d) \cap loader.looked /\ loader.looked \subseteq DOMAIN rates
      BY <2>0, <2>2 DEF PayInv, LoaderRight
    <3>2. RatesOf(c, d)' \cap DOMAIN rates = RatesOf(c, d) /\ DOMAIN rates \subseteq DOMAIN rates'
      BY <1>5, RatesGrow DEF RatesStay
    <3> QED BY <3>1, <3>2
  <2>3. loader \in Updating /\ loader.todo # {} => loader.loaded \in Table
    BY DEF PayInv, LoaderRight
  <2>4. loader' = loader
    BY <1>1
  <2> QED BY <2>0, <2>1, <2>2, <2>3, <2>4 DEF LoaderRight, RatesOf
<1>12. Rated'
  <2> SUFFICES ASSUME NEW p \in DOMAIN due', due'[p].received
               PROVE  RatesOf(due[p].currency, due[p].date)' # {}
    BY DEF Rated
  <2>1. CASE due'[p] = t.form
    <3>1. CASE t.wanted
      BY <1>4, <1>5, <2>1, <3>1 DEF RatesOf
    <3>2. CASE ~t.wanted
      BY <1>3, <1>5, <2>1, <3>2, RatesGrow DEF RatesOf
    <3> QED BY <3>1, <3>2
  <2>2. CASE p \in DOMAIN due /\ due'[p] = due[p]
    <3>1. RatesOf(due[p].currency, due[p].date) # {}
      BY <2>2 DEF PayInv, Rated
    <3> QED BY <1>5, <2>2, <3>1, RatesGrow DEF RatesOf
  <2> QED BY <1>6, <2>1, <2>2
<1> QED BY <1>5, <1>8, <1>9, <1>10, <1>11, <1>12 DEF PayInv

LEMMA CommitCurrencyInv ==
    ASSUME PayInv, NEW u \in Clerks, CommitCurrency(u) PROVE PayInv' /\ RatesStay
<1>1. /\ filling[u] \in CurrencyTx /\ filling' = [filling EXCEPT ![u] = NoPost]
      /\ currencies' = [currencies EXCEPT ![filling[u].id] = filling[u].form]
      /\ UNCHANGED <<day, due, rates, loader>>
  <2>1. filling[u] \in PaymentTx \cup CurrencyTx \cup {NoPost} /\ filling[u].kind = "currency"
    BY DEF PayInv, PayTypes, CommitCurrency
  <2>2. filling[u] \in CurrencyTx
    BY <2>1, KindsApart
  <2> QED BY <2>2 DEF CommitCurrency
<1>2. filling[u].id \in Currencies /\ filling[u].form \in CurrencyRow /\ filling[u].form.rate < day
  BY <1>1 DEF CurrencyTx, PayInv, PastRates
<1>3. currencies' \in Table /\ \A c \in Currencies : currencies'[c] = currencies[c] \/ currencies'[c] = filling[u].form
  BY <1>1, <1>2 DEF PayInv, PayTypes, Table
<1>4. \A v \in Clerks : filling'[v] = filling[v] \/ filling'[v] = NoPost
  BY <1>1 DEF PayInv, PayTypes
<1>5. PayTypes'
  BY <1>1, <1>3 DEF PayInv, PayTypes
<1>6. RatesStay
  BY <1>1 DEF RatesStay
<1>7. FormsRight'
  <2>1. FormRight(NoPost)
    BY KindsApart DEF FormRight
  <2> QED BY <1>4, <1>6, <2>1, FormsKept DEF PayInv
<1>8. PastRates'
  BY <1>1, <1>2, <1>3, <1>4, KindsApart DEF PayInv, PastRates
<1>9. LoaderRight' /\ Rated'
  BY <1>1 DEF PayInv, LoaderRight, Rated, RatesOf
<1> QED BY <1>5, <1>6, <1>7, <1>8, <1>9 DEF PayInv

LEMMA TickInv == ASSUME PayInv, LoaderTick PROVE PayInv' /\ RatesStay
<1>1. day' = day + 1 /\ day' \in Days /\ day \in Nat /\ UNCHANGED <<currencies, due, rates, filling, loader>>
  BY PaymentsAssumption DEF PayInv, PayTypes, LoaderTick, tables, Days
<1>2. PayTypes'
  BY <1>1 DEF PayInv, PayTypes
<1>3. RatesStay
  BY <1>1 DEF RatesStay
<1>4. FormsRight'
  BY <1>1 DEF PayInv, FormsRight, FormRight, RatesOf
<1>5. LoaderRight' /\ Rated'
  BY <1>1 DEF PayInv, LoaderRight, Rated, RatesOf
<1>6. PastRates'
  <2>1. \A c \in Currencies : currencies[c].rate \in Nat
    BY DEF PayInv, PayTypes, Table, CurrencyRow
  <2>2. \A r \in DOMAIN rates : rates[r].value \in Nat
    <3>1. \A r \in DOMAIN rates : rates[r] \in RateRow
      BY ElementsOf DEF PayInv, PayTypes
    <3> QED BY <3>1 DEF RateRow
  <2>3. \A v \in Clerks : /\ filling[v] \in PaymentTx => filling[v].rate \in Nat
                          /\ filling[v] \in CurrencyTx => filling[v].form.rate \in Nat
    BY DEF PaymentTx, CurrencyTx, CurrencyRow
  <2>4. /\ loader \in Updating => loader.now \in Nat
        /\ loader \in Getting \cup Saving => loader.now \in Nat
    BY DEF Updating, Getting, Saving, Days
  <2> QED BY <1>1, <2>1, <2>2, <2>3, <2>4 DEF PayInv, PastRates
<1> QED BY <1>2, <1>3, <1>4, <1>5, <1>6 DEF PayInv
-----------------------------------------------------------------------------
(* The thread.                                                             *)
LEMMA LoaderMoves ==
    ASSUME PayInv, UNCHANGED <<day, currencies, due, rates, filling>>,
           loader' \in {LoaderAsleep, Ended} \cup Updating \cup Getting \cup Saving,
           loader' \in Updating => loader'.now <= day,
           loader' \in Getting \cup Saving => loader'.payment.date < loader'.now /\ loader'.now <= day,
           LoaderRight'
    PROVE  PayInv' /\ RatesStay
<1>1. PayTypes'
  BY DEF PayInv, PayTypes
<1>2. RatesStay
  BY DEF RatesStay
<1>3. FormsRight'
  BY DEF PayInv, FormsRight, FormRight, RatesOf
<1>4. Rated'
  BY DEF PayInv, Rated, RatesOf
<1>5. PastRates'
  BY DEF PayInv, PastRates
<1> QED BY <1>1, <1>2, <1>3, <1>4, <1>5 DEF PayInv

LEMMA Resting ==
    ASSUME loader' \in {LoaderAsleep, Ended} PROVE
        /\ LoaderRight' /\ loader' \notin Updating \cup Getting \cup Saving
<1>1. loader' \notin Updating \cup Getting \cup Saving
  BY PlacesApart
<1> QED BY <1>1 DEF LoaderRight

LEMMA StartRoundInv == ASSUME PayInv, StartRound PROVE PayInv' /\ RatesStay
<1>1. UNCHANGED <<day, currencies, due, rates, filling>>
  BY DEF StartRound, Quiet
<1>2. loader' \in Updating /\ loader'.loaded \in Table /\ loader'.now = day
  BY DEF StartRound, PayInv, PayTypes, Updating
<1>3. LoaderRight'
  BY <1>2, PlacesApart DEF LoaderRight
<1>4. day <= day
  BY DEF PayInv, PayTypes, Days
<1> QED BY <1>1, <1>2, <1>3, <1>4, LoaderMoves, PlacesApart

LEMMA UpdateCurrencyInv == ASSUME PayInv, UpdateCurrency PROVE PayInv' /\ RatesStay
<1>1. loader \in Updating
  BY PlacesApart DEF PayInv, PayTypes, UpdateCurrency
<1>2. PICK c \in loader.todo :
        LET after == [loader EXCEPT !.todo = @ \ {c}]
            drop == [after EXCEPT !.loaded = IF after.todo = {} THEN <<>> ELSE @]
        IN \/ /\ <<c, loader.now - 1>> \in Quoted
              /\ SaveCurrency(c) /\ loader' = drop /\ UNCHANGED failures
           \/ /\ <<c, loader.now - 1>> \notin Quoted
              /\ Reported(drop) /\ UNCHANGED currencies
  BY DEF UpdateCurrency
<1> DEFINE after == [loader EXCEPT !.todo = @ \ {c}]
           drop == [after EXCEPT !.loaded = IF after.todo = {} THEN <<>> ELSE @]
<1>3. /\ loader.loaded \in Table /\ c \in Currencies
      /\ loader.now \in Days /\ loader.now <= day /\ loader.todo \subseteq Currencies
  BY <1>1 DEF PayInv, LoaderRight, PastRates, Updating
<1>4. drop \in Updating /\ drop.now = loader.now /\ (drop.todo # {} => drop.loaded \in Table)
  <2>1. after \in Updating /\ after.now = loader.now /\ after.loaded = loader.loaded
    BY <1>1, <1>3 DEF Updating
  <2> HIDE DEF after
  <2> QED BY <1>3, <2>1 DEF Updating
<1>5. loader' = drop \/ loader' = Ended
  BY <1>2 DEF Reported
<1>6. UNCHANGED <<day, due, rates, filling>>
  BY DEF UpdateCurrency, Quiet
<1>7. /\ currencies' \in Table
      /\ \A d \in Currencies : currencies'[d].rate < day
  <2>1. \A d \in Currencies : currencies[d].rate < day
    BY DEF PayInv, PastRates
  <2>2. currencies \in Table
    BY DEF PayInv, PayTypes
  <2>3. CASE UNCHANGED currencies
    BY <2>1, <2>2, <2>3
  <2>4. CASE SaveCurrency(c)
    <3> DEFINE row == [loader.loaded[c] EXCEPT !.rate = loader.now - 1]
    <3>1. loader.now - 1 \in 0..MaxDay /\ loader.now - 1 < day
      BY <1>3, PaymentsAssumption DEF Days, PayInv, PayTypes
    <3>2. loader.loaded[c] \in CurrencyRow
      BY <1>3 DEF Table
    <3>3. row \in CurrencyRow /\ row.rate < day
      BY <3>1, <3>2 DEF CurrencyRow
    <3>4. currencies' = [currencies EXCEPT ![c] = row]
      BY <2>4 DEF SaveCurrency
    <3> HIDE DEF row
    <3> QED BY <2>1, <2>2, <3>3, <3>4, <1>3 DEF Table
  <2> QED BY <1>2, <2>3, <2>4
<1> HIDE DEF drop, after
<1>8. LoaderRight'
  BY <1>4, <1>5, PlacesApart DEF LoaderRight
<1>9. PayTypes'
  BY <1>4, <1>5, <1>6, <1>7 DEF PayInv, PayTypes
<1>10. RatesStay
  BY <1>6 DEF RatesStay
<1>11. FormsRight'
  BY <1>6 DEF PayInv, FormsRight, FormRight, RatesOf
<1>12. Rated'
  BY <1>6 DEF PayInv, Rated, RatesOf
<1>13. PastRates'
  BY <1>3, <1>4, <1>5, <1>6, <1>7, PlacesApart DEF PayInv, PastRates
<1> QED BY <1>8, <1>9, <1>10, <1>11, <1>12, <1>13 DEF PayInv

LEMMA AskRateInv == ASSUME PayInv, AskRate PROVE PayInv' /\ RatesStay
<1>1. loader \in Updating
  BY PlacesApart DEF PayInv, PayTypes, AskRate
<1>2. UNCHANGED <<day, currencies, due, rates, filling>>
  BY DEF AskRate, Quiet
<1>3. loader.now \in Days /\ loader.now <= day
  BY <1>1 DEF PayInv, PastRates, Updating
<1>4. CASE loader' \in {LoaderAsleep, Ended}
  BY <1>2, <1>4, Resting, LoaderMoves
<1> DEFINE p == Oldest(loader.now)
<1>5. CASE /\ \E q \in DOMAIN due : Awaits(q, loader.now)
           /\ loader' = [at |-> "get", now |-> loader.now, payment |-> due[p]]
  <2>1. p \in DOMAIN due /\ Awaits(p, loader.now)
    BY <1>3, <1>5, OldestAwaits DEF PayInv
  <2>2. due[p] \in Forms
    BY <2>1, ElementsOf DEF PayInv, PayTypes
  <2>3. due[p].date < loader.now /\ \A r \in RatesOf(due[p].currency, due[p].date) : ~rates[r].official
    BY <2>1 DEF Awaits
  <2> HIDE DEF p
  <2>4. loader' \in Getting
    BY <1>3, <1>5, <2>2 DEF Getting
  <2>5. LoaderRight'
    BY <1>2, <1>5, <2>3, <2>4, PlacesApart DEF LoaderRight, RatesOf
  <2> QED BY <1>2, <1>3, <1>5, <2>3, <2>4, <2>5, PlacesApart, LoaderMoves
<1> QED BY <1>4, <1>5 DEF AskRate, Reported

LEMMA GetRateInv == ASSUME PayInv, GetRate PROVE PayInv' /\ RatesStay
<1>1. loader \in Getting
  BY PlacesApart DEF PayInv, PayTypes, GetRate
<1>2. UNCHANGED <<day, currencies, due, rates, filling>>
  BY DEF GetRate, Quiet
<1> DEFINE same == RatesOf(loader.payment.currency, loader.payment.date)
<1>3. CASE loader' = Ended
  BY <1>2, <1>3, Resting, LoaderMoves
<1>4. CASE loader' = [at |-> "save", now |-> loader.now, payment |-> loader.payment,
                      row |-> same, looked |-> DOMAIN rates]
  <2>1. /\ loader.payment \in Forms /\ loader.now \in Days
        /\ loader.payment.date < loader.now /\ loader.now <= day
        /\ \A r \in same : ~rates[r].official
    BY <1>1 DEF Getting, PayInv, PastRates, LoaderRight
  <2>2. DOMAIN rates \subseteq Nat /\ same \subseteq DOMAIN rates
    BY IndexesOf DEF PayInv, PayTypes, RatesOf
  <2>3. same' = same
    BY <1>2, <1>4 DEF RatesOf
  <2> HIDE DEF same
  <2>4. loader' \in Saving
    BY <1>4, <2>1, <2>2 DEF Saving, Numbers
  <2>5. LoaderRight'
    BY <1>2, <1>4, <2>1, <2>2, <2>3, <2>4, PlacesApart DEF LoaderRight, same
  <2> QED BY <1>2, <1>4, <2>1, <2>4, <2>5, PlacesApart, LoaderMoves
<1> QED BY <1>3, <1>4 DEF GetRate

LEMMA SaveRateInv == ASSUME PayInv, SaveRate PROVE PayInv' /\ RatesStay
<1> DEFINE p == loader.payment
           new == [currency |-> p.currency, date |-> p.date, value |-> p.date, official |-> TRUE]
           k == CHOOSE r \in loader.row : TRUE
<1>1. loader \in Saving
  BY PlacesApart DEF PayInv, PayTypes, SaveRate
<1>2. /\ p \in Forms /\ loader.now \in Days /\ p.date < loader.now /\ loader.now <= day
      /\ \A r \in RatesOf(p.currency, p.date) : ~rates[r].official
      /\ loader.row \subseteq RatesOf(p.currency, p.date)
  BY <1>1 DEF Saving, PayInv, PastRates, LoaderRight
<1>3. /\ UNCHANGED <<day, currencies, due, filling>>
      /\ loader' = [at |-> "update", now |-> loader.now, loaded |-> <<>>, todo |-> {}]
      /\ rates' = IF loader.row = {} THEN Append(rates, new) ELSE [rates EXCEPT ![k] = new]
  BY DEF SaveRate, Quiet
<1>4. new \in RateRow /\ new.value = new.date /\ new.value < day
      /\ new.currency = p.currency /\ new.date = p.date
  BY <1>2, PaymentsAssumption DEF RateRow, Forms, Days, PayInv, PayTypes
<1>5. loader.row # {} => k \in RatesOf(p.currency, p.date)
  BY <1>2
<1> HIDE DEF k, new
<1>6. /\ rates' \in Seq(RateRow) /\ RatesStay
      /\ \A r \in DOMAIN rates' : rates'[r] = new \/ (r \in DOMAIN rates /\ rates'[r] = rates[r])
  <2>1. rates \in Seq(RateRow)
    BY DEF PayInv, PayTypes
  <2>2. CASE loader.row = {}
    <3>1. rates' = Append(rates, new)
      BY <1>3, <2>2
    <3> QED BY <1>4, <2>1, <3>1, Appended DEF RatesStay
  <2>3. CASE loader.row # {}
    <3>1. rates' = [rates EXCEPT ![k] = new]
      BY <1>3, <2>3
    <3>2. /\ k \in DOMAIN rates /\ rates[k].currency = p.currency /\ rates[k].date = p.date
          /\ ~rates[k].official
      BY <1>2, <1>5, <2>3 DEF RatesOf
    <3> QED BY <1>4, <2>1, <3>1, <3>2, Replaced DEF RatesStay
  <2> QED BY <2>2, <2>3
<1>7. loader' \in Updating /\ loader'.todo = {} /\ loader'.now = loader.now
  BY <1>2, <1>3 DEF Updating
<1>8. PayTypes'
  BY <1>3, <1>6, <1>7 DEF PayInv, PayTypes
<1>9. FormsRight'
  <2>1. FormRight(NoPost)
    BY KindsApart DEF FormRight
  <2> QED BY <1>3, <1>6, <2>1, FormsKept DEF PayInv
<1>10. LoaderRight'
  BY <1>7, PlacesApart DEF LoaderRight
<1>11. Rated'
  BY <1>3, <1>6, StillRated DEF PayInv
<1>12. PastRates'
  <2>1. \A r \in DOMAIN rates' : /\ rates'[r].value < day'
                                 /\ rates'[r].official => rates'[r].value = rates'[r].date
    BY <1>3, <1>4, <1>6 DEF PayInv, PastRates
  <2> QED BY <1>2, <1>3, <1>7, <2>1, PlacesApart DEF PayInv, PastRates
<1> QED BY <1>6, <1>8, <1>9, <1>10, <1>11, <1>12 DEF PayInv
-----------------------------------------------------------------------------
LEMMA PayInitInv == ASSUME PaymentsInit PROVE PayInv
<1>1. 0 \in 0..MaxDay /\ 1 \in Days /\ \A c \in Currencies : Marked[c] \in Marks
  BY PaymentsAssumption DEF Days
<1>2. currencies \in Table /\ \A c \in Currencies : currencies[c].rate < day
  BY <1>1 DEF PaymentsInit, Table, CurrencyRow
<1>3. PayTypes
  BY <1>1, <1>2 DEF PaymentsInit, PayTypes
<1>4. PastRates /\ LoaderRight
  <2>1. loader \notin Updating \cup Getting \cup Saving
    BY PlacesApart DEF PaymentsInit
  <2>2. \A u \in Clerks : filling[u] \notin PaymentTx \cup CurrencyTx
    BY KindsApart DEF PaymentsInit
  <2>3. DOMAIN rates = {}
    BY DEF PaymentsInit
  <2> QED BY <1>2, <2>1, <2>2, <2>3 DEF PastRates, LoaderRight
<1>5. FormsRight
  BY KindsApart DEF PaymentsInit, FormsRight, FormRight
<1>6. Rated
  BY DEF PaymentsInit, Rated
<1> QED BY <1>3, <1>4, <1>5, <1>6 DEF PayInv

LEMMA PayStuttering == ASSUME PayInv, UNCHANGED paymentVars PROVE PayInv' /\ RatesStay
<1>1. UNCHANGED <<day, currencies, due, rates, filling, loader>>
  BY DEF paymentVars
<1>2. PayTypes' /\ PastRates' /\ LoaderRight' /\ Rated'
  BY <1>1 DEF PayInv, PayTypes, PastRates, LoaderRight, Rated, RatesOf
<1>3. FormsRight'
  BY <1>1 DEF PayInv, FormsRight, FormRight, RatesOf
<1> QED BY <1>1, <1>2, <1>3 DEF PayInv, RatesStay

LEMMA PayStepInv == ASSUME PayInv, [PaymentsNext]_paymentVars PROVE PayInv' /\ RatesStay
<1>1. ASSUME NEW u \in Clerks, PostPayment(u) \/ CommitPayment(u) \/ PostCurrency(u) \/ CommitCurrency(u)
      PROVE  PayInv' /\ RatesStay
  BY <1>1, PostPaymentInv, CommitPaymentInv, PostCurrencyInv, CommitCurrencyInv
<1>2. CASE LoaderNext
  BY <1>2, StartRoundInv, UpdateCurrencyInv, AskRateInv, GetRateInv, SaveRateInv DEF LoaderNext
<1> QED BY <1>1, <1>2, TickInv, PayStuttering DEF PaymentsNext

LEMMA PayInvHolds == PaymentsSpec => []PayInv
<1>1. PaymentsInit => PayInv
  BY PayInitInv
<1>2. PayInv /\ [PaymentsNext]_paymentVars => PayInv'
  BY PayStepInv
<1> QED BY <1>1, <1>2, PTL DEF PaymentsSpec
-----------------------------------------------------------------------------
LEMMA PaymentsTyped == ASSUME PayInv PROVE PaymentsTypeOK
<1>1. \A p \in DOMAIN due : due[p] \in Forms
  BY ElementsOf DEF PayInv, PayTypes
<1>2. \A r \in DOMAIN rates : rates[r].currency \in Currencies /\ rates[r].date \in Days /\ rates[r].value < day
  <2>1. \A r \in DOMAIN rates : rates[r] \in RateRow
    BY ElementsOf DEF PayInv, PayTypes
  <2> QED BY <2>1 DEF RateRow, PayInv, PastRates
<1>3. loader.at \in {"asleep", "update", "get", "save", "ended"}
  BY PlacesApart DEF PayInv, PayTypes
<1> QED BY <1>1, <1>2, <1>3 DEF PaymentsTypeOK, PayInv, PayTypes, Table, CurrencyRow

(* The first rate of a payment's day.                                      *)
LEMMA RateOfIs ==
    ASSUME PayInv, NEW p \in DOMAIN due, RateOf(p) # 0
    PROVE  /\ RateOf(p) \in RatesOf(due[p].currency, due[p].date)
           /\ \A s \in RatesOf(due[p].currency, due[p].date) : RateOf(p) <= s
<1> DEFINE same == RatesOf(due[p].currency, due[p].date)
<1>1. same \subseteq Nat
  BY IndexesOf DEF PayInv, PayTypes, RatesOf
<1>2. same # {}
  BY DEF RateOf
<1>3. \E r \in same : \A s \in same : r <= s
  BY <1>1, <1>2, HasLeast
<1> QED BY <1>2, <1>3 DEF RateOf

LEMMA OfficialOf ==
    ASSUME PayInv, NEW p \in DOMAIN due, Official(p)
    PROVE  /\ RateOf(p) \in DOMAIN rates /\ rates[RateOf(p)].official
           /\ Valued(p) = due[p].date /\ due[p].date < day
<1>1. RateOf(p) # 0 /\ rates[RateOf(p)].official
  BY DEF Official
<1>2. RateOf(p) \in DOMAIN rates /\ rates[RateOf(p)].date = due[p].date
  BY <1>1, RateOfIs DEF RatesOf
<1> QED BY <1>1, <1>2 DEF Valued, PayInv, PastRates

LEMMA SumsArePast == ASSUME PayInv PROVE OfficialIsPast
<1> SUFFICES ASSUME NEW S \in SUBSET DOMAIN due, OfficialSums(S), NEW p \in S
             PROVE  due[p].date < day /\ Valued(p) = due[p].date
  BY DEF OfficialIsPast
<1> QED BY OfficialOf DEF OfficialSums

LEMMA OfficialStays ==
    ASSUME PayInv, PayInv', RatesStay, UNCHANGED due, NEW p \in DOMAIN due, Official(p)
    PROVE  Official(p)' /\ Valued(p)' = Valued(p)
<1> DEFINE k == RateOf(p)
<1>0. PICK c, d : c = due[p].currency /\ d = due[p].date
  OBVIOUS
<1>1. /\ k \in RatesOf(c, d) /\ k \in DOMAIN rates /\ rates[k].official
      /\ \A s \in RatesOf(c, d) : k <= s
  BY <1>0, RateOfIs, OfficialOf DEF Official
<1>2. k \in RatesOf(c, d)' /\ rates'[k] = rates[k]
  BY <1>1, RatesGrow DEF RatesStay
<1>3. \A s \in RatesOf(c, d)' : k <= s
  <2> SUFFICES ASSUME NEW s \in RatesOf(c, d)' PROVE k <= s
    OBVIOUS
  <2>1. CASE s \in DOMAIN rates
    BY <1>1, <2>1, RatesGrow
  <2>2. CASE s \notin DOMAIN rates
    <3>1. DOMAIN rates = 1..Len(rates) /\ Len(rates) \in Nat
      BY DEF PayInv, PayTypes
    <3>2. s \in Nat /\ s > 0
      BY DEF PayInv, PayTypes, RatesOf
    <3> QED BY <1>1, <2>2, <3>1, <3>2
  <2> QED BY <2>1, <2>2
<1>4. RatesOf(c, d)' \subseteq Nat /\ k \in Nat /\ k # 0
  BY <1>1, IndexesOf DEF PayInv, PayTypes, RatesOf
<1> HIDE DEF k
<1>5. RateOf(p)' = k
  <2>1. RateOf(p)' = CHOOSE r \in RatesOf(c, d)' : \A s \in RatesOf(c, d)' : r <= s
    BY <1>0, <1>2 DEF RateOf, RatesOf
  <2>2. \A r \in RatesOf(c, d)' : (\A s \in RatesOf(c, d)' : r <= s) => r = k
    BY <1>2, <1>3, <1>4
  <2> QED BY <1>2, <1>3, <2>1, <2>2
<1>6. Official(p)'
  BY <1>1, <1>2, <1>4, <1>5 DEF Official
<1>7. Valued(p)' = rates[k].value /\ Valued(p) = rates[k].value
  BY <1>2, <1>4, <1>5 DEF Valued, k
<1> QED BY <1>6, <1>7

LEMMA SumsStayStep ==
    ASSUME PayInv, PayInv', RatesStay
    PROVE  \A S \in SUBSET DOMAIN due : OfficialSums(S) /\ UNCHANGED due =>
              OfficialSums(S)' /\ \A p \in S : Valued(p)' = Valued(p)
<1> SUFFICES ASSUME NEW S \in SUBSET DOMAIN due, OfficialSums(S), UNCHANGED due
             PROVE  OfficialSums(S)' /\ \A p \in S : Valued(p)' = Valued(p)
  OBVIOUS
<1>1. \A p \in S : Official(p)' /\ Valued(p)' = Valued(p)
  BY OfficialStays DEF OfficialSums
<1> QED BY <1>1 DEF OfficialSums

LEMMA OneRateStep ==
    ASSUME PayInv, RatesStay, [PaymentsNext]_paymentVars
    PROVE  \A r \in DOMAIN rates' \ DOMAIN rates :
             LET same == RatesOf(rates'[r].currency, rates'[r].date)
                 blind(looked) == same \cap looked = {}
             IN same # {} =>
                  \/ \E u \in Clerks : filling[u].kind = "payment" /\ filling'[u] = NoPost /\ blind(filling[u].looked)
                  \/ loader.at = "save" /\ blind(loader.looked)
<1> SUFFICES ASSUME NEW r \in DOMAIN rates' \ DOMAIN rates
             PROVE  LET same == RatesOf(rates'[r].currency, rates'[r].date)
                        blind(looked) == same \cap looked = {}
                    IN  \/ \E u \in Clerks : filling[u].kind = "payment" /\ filling'[u] = NoPost /\ blind(filling[u].looked)
                        \/ loader.at = "save" /\ blind(loader.looked)
  OBVIOUS
<1>0. rates' # rates
  OBVIOUS
<1>1. CASE SaveRate
  <2> DEFINE p == loader.payment
             new == [currency |-> p.currency, date |-> p.date, value |-> p.date, official |-> TRUE]
  <2>1. loader \in Saving
    BY <1>1, PlacesApart DEF PayInv, PayTypes, SaveRate
  <2>2. loader.row = RatesOf(p.currency, p.date) \cap loader.looked
    BY <2>1 DEF PayInv, LoaderRight
  <2>3. rates \in Seq(RateRow)
    BY DEF PayInv, PayTypes
  <2>4. loader.row = {} /\ rates' = Append(rates, new)
    BY <1>1, <2>3 DEF SaveRate
  <2>5. rates'[r].currency = p.currency /\ rates'[r].date = p.date
    BY <2>3, <2>4
  <2> QED BY <2>1, <2>2, <2>4, <2>5, PlacesApart
<1>2. ASSUME NEW u \in Clerks, CommitPayment(u)
      PROVE  /\ filling[u].kind = "payment" /\ filling'[u] = NoPost
             /\ RatesOf(rates'[r].currency, rates'[r].date) \cap filling[u].looked = {}
  <2> DEFINE t == filling[u]
             new == [currency |-> t.form.currency, date |-> t.form.date,
                     value |-> t.rate, official |-> FALSE]
  <2>1. t \in PaymentTx /\ filling'[u] = NoPost
    <3>1. filling[u] \in PaymentTx \cup CurrencyTx \cup {NoPost} /\ filling[u].kind = "payment"
      BY <1>2 DEF PayInv, PayTypes, CommitPayment
    <3> QED BY <1>2, <3>1, KindsApart DEF PayInv, PayTypes, CommitPayment
  <2>2. t.wanted /\ rates' = Append(rates, new)
    BY <1>0, <1>2 DEF CommitPayment, SavePayment
  <2>3. \A q \in t.looked : q \notin RatesOf(t.form.currency, t.form.date)
    BY <2>1, <2>2 DEF PayInv, FormsRight, FormRight
  <2>4. rates \in Seq(RateRow)
    BY DEF PayInv, PayTypes
  <2> HIDE DEF t
  <2>5. rates'[r].currency = t.form.currency /\ rates'[r].date = t.form.date
    BY <2>2, <2>4
  <2> QED BY <2>1, <2>3, <2>5, KindsApart DEF t
<1>3. \/ SaveRate \/ \E u \in Clerks : CommitPayment(u)
  BY <1>0 DEF PaymentsNext, LoaderNext, PostPayment, PostCurrency, CommitCurrency, LoaderTick, tables,
     StartRound, UpdateCurrency, AskRate, GetRate, paymentVars
<1> QED BY <1>1, <1>2, <1>3

LEMMA MarkedOnceStep ==
    ASSUME PayInv, [PaymentsNext]_paymentVars, NEW c \in Currencies, NEW d \in Currencies,
           c # d, currencies'[c].mark = currencies'[d].mark, currencies'[c].mark # "none",
           ~(currencies[c].mark = currencies[d].mark /\ currencies[c].mark # "none")
    PROVE  \/ \E u \in Clerks : /\ filling[u].kind = "currency" /\ filling'[u] = NoPost
                                /\ filling[u].looked # currencies
           \/ loader.at = "update" /\ loader.loaded # currencies
<1>1. currencies' # currencies
  OBVIOUS
<1>2. CASE UpdateCurrency
  <2> SUFFICES ASSUME loader.loaded = currencies PROVE FALSE
    BY <1>2 DEF UpdateCurrency
  <2>1. PICK e : SaveCurrency(e)
    BY <1>1, <1>2 DEF UpdateCurrency
  <2>2. currencies \in Table
    BY DEF PayInv, PayTypes
  <2>3. \A f \in Currencies : currencies'[f].mark = currencies[f].mark
    BY <2>1, <2>2 DEF SaveCurrency, Table, CurrencyRow
  <2> QED BY <2>3
<1>3. ASSUME NEW u \in Clerks, CommitCurrency(u)
      PROVE  filling[u].kind = "currency" /\ filling'[u] = NoPost /\ filling[u].looked # currencies
  <2>1. filling[u] \in CurrencyTx /\ filling'[u] = NoPost
    <3>1. filling[u] \in PaymentTx \cup CurrencyTx \cup {NoPost} /\ filling[u].kind = "currency"
      BY <1>3 DEF PayInv, PayTypes, CommitCurrency
    <3> QED BY <1>3, <3>1, KindsApart DEF PayInv, PayTypes, CommitCurrency
  <2>2. filling[u].form.mark = "none" \/ \A e \in Currencies \ {filling[u].id} : filling[u].looked[e].mark # filling[u].form.mark
    BY <2>1 DEF PayInv, FormsRight, FormRight
  <2>3. currencies' = [currencies EXCEPT ![filling[u].id] = filling[u].form]
    BY <1>3 DEF CommitCurrency
  <2>4. currencies \in Table
    BY DEF PayInv, PayTypes
  <2>5. filling[u].looked # currencies
    BY <2>2, <2>3, <2>4 DEF Table
  <2> QED BY <2>1, <2>5, KindsApart
<1>4. \/ UpdateCurrency \/ \E u \in Clerks : CommitCurrency(u)
  BY <1>1 DEF PaymentsNext, LoaderNext, PostPayment, PostCurrency, CommitPayment, LoaderTick, tables,
     StartRound, SaveRate, AskRate, GetRate, Quiet, paymentVars
<1> QED BY <1>2, <1>3, <1>4

(* Whatever payments and currencies are entered by how many users, and       *)
(* whatever rates the bank knows: received payments have rates, official     *)
(* rates and sums stay, rates and marks are doubled only by someone who      *)
(* looked before the other wrote (crm/models/payment.py:137,                 *)
(* crm/utils/rates_loader.py).                                               *)
THEOREM RatesAreKept == PaymentsSpec => RatesKept
<1>1. PayInv => PaymentsTypeOK /\ Rated /\ OfficialIsPast
  BY PaymentsTyped, SumsArePast DEF PayInv
<1> DEFINE One == \A r \in DOMAIN rates' \ DOMAIN rates :
             LET same == RatesOf(rates'[r].currency, rates'[r].date)
                 blind(looked) == same \cap looked = {}
             IN same # {} =>
                  \/ \E u \in Clerks : filling[u].kind = "payment" /\ filling'[u] = NoPost /\ blind(filling[u].looked)
                  \/ loader.at = "save" /\ blind(loader.looked)
           Kept == \A r \in DOMAIN rates : rates[r].official => rates'[r] = rates[r]
           Sums == \A S \in SUBSET DOMAIN due : OfficialSums(S) /\ UNCHANGED due =>
                      OfficialSums(S)' /\ \A p \in S : Valued(p)' = Valued(p)
           Marks1 == \A c, d \in Currencies :
              LET twice(f) == c # d /\ f[c].mark = f[d].mark /\ f[c].mark # "none"
              IN twice(currencies') /\ ~twice(currencies) =>
                   \/ \E u \in Clerks : /\ filling[u].kind = "currency" /\ filling'[u] = NoPost
                                       /\ filling[u].looked # currencies
                   \/ loader.at = "update" /\ loader.loaded # currencies
<1>2. PayInv /\ PayInv' /\ [PaymentsNext]_paymentVars => One /\ Kept /\ Sums /\ Marks1
  <2> SUFFICES ASSUME PayInv, PayInv', [PaymentsNext]_paymentVars PROVE One /\ Kept /\ Sums /\ Marks1
    OBVIOUS
  <2>1. RatesStay
    BY PayStepInv
  <2>2. One
    BY <2>1, OneRateStep
  <2>3. Kept
    BY <2>1 DEF RatesStay
  <2>4. Sums
    BY <2>1, SumsStayStep
  <2>5. Marks1
    BY MarkedOnceStep
  <2> QED BY <2>2, <2>3, <2>4, <2>5
<1>3. PaymentsSpec => []PayInv /\ [][PaymentsNext]_paymentVars
  BY PayInvHolds, PTL DEF PaymentsSpec
<1>4. PaymentsSpec => [][One /\ Kept /\ Sums /\ Marks1]_paymentVars
  BY <1>2, <1>3, PTL
<1> QED BY <1>1, <1>3, <1>4, PTL DEF RatesKept, OneRate, OfficialKept, SumsStay, MarkedOnce
=============================================================================
