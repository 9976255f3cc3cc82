------------------------- MODULE MassContactsProofs -------------------------
(***************************************************************************)
(* For any number of recipients, accounts, managers, days and requests:    *)
(* nobody who has unsubscribed and was left where he was is written to     *)
(* (UnsubscribedStayOut), the queues hold the right accounts once and a    *)
(* recipient keeps his sender (QueuesAreSound), and the limit of messages  *)
(* a day is kept (LimitIsKept).                                            *)
(***************************************************************************)
EXTENDS MassContacts, FiniteSetTheorems, SequenceTheorems, TLAPS

Moves == <<cons, con, made, pc, fixing, hand, asked, moved, since>>

\* The rows: ids that were given out, and what they say.
RowsReal ==
    /\ cons \subseteq made /\ made \subseteq Contacts
    /\ con \in [Contacts -> Contact \cup {NoContact}]
    /\ \A c \in cons : con[c] \in Contact

\* Nobody has two contacts, unless somebody took him from his account.
OneEach == \A c, d \in cons :
    con[c].rcpt = con[d].rcpt /\ con[c].rcpt \notin moved => c = d

\* Those the thread is about to make a contact for have none.
MissingStill == pc = "missing" => \A r \in fixing \ moved, c \in cons : con[c].rcpt # r

\* Who has unsubscribed keeps the contact that says so.
AskedHeard == \A r \in asked \ moved :
    /\ \E c \in cons : con[c].rcpt = r
    /\ \A c \in cons : con[c].rcpt = r => ~con[c].massmail

\* Who is about to be written to had not unsubscribed when he was looked up.
InHandHeard == pc = "send" => hand[2] \notin asked \ (moved \cup since)

Inv == RowsReal /\ OneEach /\ MissingStill /\ AskedHeard /\ InHandHeard /\ asked \subseteq Recipients

LEMMA InitInv == ASSUME Init PROVE Inv
BY DEF Init, Inv, RowsReal, OneEach, MissingStill, AskedHeard, InHandHeard, NoContact

LEMMA Untouched == ASSUME Inv, UNCHANGED Moves PROVE Inv'
BY DEF Moves, Inv, RowsReal, OneEach, MissingStill, AskedHeard, InHandHeard

\* The thread goes on, without making contacts.
LEMMA MovesOn ==
    ASSUME Inv, UNCHANGED <<rows, asked, moved>>,
           pc' # "missing" \/ (pc' = pc /\ fixing' \subseteq fixing),
           pc' # "send" \/ UNCHANGED <<pc, hand, since>>
    PROVE  Inv'
BY DEF rows, Inv, RowsReal, OneEach, MissingStill, AskedHeard, InHandHeard

\* Contacts get another account, and their recipients perhaps another manager.
LEMMA Switched ==
    ASSUME Inv, NEW C \in SUBSET cons, NEW a \in Accounts,
           con' = [c \in Contacts |-> IF c \in C THEN [con[c] EXCEPT !.acc = a] ELSE con[c]],
           UNCHANGED <<cons, made, asked>>, moved \subseteq moved',
           UNCHANGED <<pc, fixing, hand, since>> \/ (pc = "wrong" /\ pc' \in {"wrong", "idle"})
    PROVE  Inv'
<1>1. \A c \in Contacts : con[c] \in Contact =>
         /\ [con[c] EXCEPT !.acc = a] \in Contact
         /\ [con[c] EXCEPT !.acc = a].rcpt = con[c].rcpt
         /\ [con[c] EXCEPT !.acc = a].massmail = con[c].massmail
  BY DEF Contact
<1>2. RowsReal'
  BY <1>1 DEF Inv, RowsReal
<1>3. \A c \in cons : con'[c].rcpt = con[c].rcpt /\ con'[c].massmail = con[c].massmail
  BY <1>1 DEF Inv, RowsReal
<1> QED BY <1>2, <1>3 DEF Inv, OneEach, MissingStill, AskedHeard, InHandHeard

\* Contacts are deleted: their recipients count as moved.
LEMMA Deleted ==
    ASSUME Inv, NEW S, cons' = cons \ S, con' = [c \in Contacts |-> IF c \in cons' THEN con[c] ELSE NoContact],
           UNCHANGED <<made, asked, pc, fixing, hand, since>>, moved \subseteq moved',
           \A c \in cons \cap S : con[c].rcpt \in moved'
    PROVE  Inv'
<1>1. RowsReal'
  BY DEF Inv, RowsReal
<1>2. \A c \in cons' : con'[c] = con[c] /\ c \in cons
  BY DEF Inv, RowsReal
<1> QED BY <1>1, <1>2 DEF Inv, OneEach, MissingStill, AskedHeard, InHandHeard

LEMMA Created ==
    ASSUME Inv, NEW c \in Contacts, NEW r \in Recipients, NEW a \in Accounts, Create(c, r, a),
           UNCHANGED <<asked, pc>>, moved \subseteq moved',
           \/ r \in moved' /\ UNCHANGED <<fixing, hand, since>>
           \/ pc = "missing" /\ r \in fixing /\ fixing' = fixing \ {r}
    PROVE  Inv'
<1>1. [rcpt |-> r, acc |-> a, massmail |-> TRUE] \in Contact
  BY DEF Contact
<1>2. RowsReal'
  BY <1>1 DEF Inv, RowsReal, Create
<1>3. /\ cons' = cons \cup {c} /\ c \notin cons /\ con'[c].rcpt = r
      /\ \A d \in cons : con'[d] = con[d]
  BY DEF Inv, RowsReal, Create
<1>4. r \in moved' \/ \A d \in cons : con[d].rcpt # r
  BY DEF Inv, MissingStill
<1>5. OneEach'
  BY <1>3, <1>4 DEF Inv, OneEach
<1>6. MissingStill'
  BY <1>3, <1>4 DEF Inv, MissingStill
<1>7. AskedHeard'
  BY <1>3, <1>4 DEF Inv, AskedHeard
<1>8. InHandHeard'
  BY DEF Inv, InHandHeard
<1> QED BY <1>2, <1>5, <1>6, <1>7, <1>8 DEF Inv

LEMMA Unsubscribed == ASSUME Inv, NEW c \in Contacts, Unsubscribe(c) PROVE Inv'
<1>1. /\ c \in cons /\ con' = [con EXCEPT ![c].massmail = FALSE]
      /\ asked' = asked \cup {con[c].rcpt}
      /\ since' = IF pc = "send" THEN since \cup {con[c].rcpt} ELSE since
      /\ UNCHANGED <<cons, made, pc, fixing, hand, moved>>
  BY DEF Unsubscribe, Request, thread
<1>2. /\ con[c] \in Contact /\ con'[c] = [con[c] EXCEPT !.massmail = FALSE]
      /\ \A d \in Contacts \ {c} : con'[d] = con[d]
  BY <1>1 DEF Inv, RowsReal
<1>3. con'[c] \in Contact /\ con'[c].rcpt = con[c].rcpt /\ ~con'[c].massmail /\ con[c].rcpt \in Recipients
  BY <1>2 DEF Contact
<1>4. RowsReal'
  BY <1>1, <1>2, <1>3 DEF Inv, RowsReal
<1>5. \A d \in cons : con'[d].rcpt = con[d].rcpt
  BY <1>2, <1>3 DEF Inv, RowsReal
<1>6. OneEach' /\ MissingStill' /\ asked' \subseteq Recipients
  BY <1>1, <1>3, <1>5 DEF Inv, OneEach, MissingStill
<1>7. AskedHeard'
  <2>1. \A d \in cons : con'[d].massmail => con[d].massmail
    BY <1>2, <1>3 DEF Inv, RowsReal
  <2>2. ASSUME con[c].rcpt \notin moved PROVE \A d \in cons : con[d].rcpt = con[c].rcpt => d = c
    BY <1>1, <2>2 DEF Inv, OneEach
  <2> QED BY <1>1, <1>3, <1>5, <2>1, <2>2 DEF Inv, AskedHeard
<1>8. InHandHeard'
  BY <1>1 DEF Inv, InHandHeard
<1> QED BY <1>4, <1>6, <1>7, <1>8 DEF Inv

\* Only accounts are in the table of accounts.
AccsReal == accs \subseteq Accounts

LEMMA AccsStep == ASSUME AccsReal, [Next]_vars PROVE AccsReal'
<1> USE DEF AccsReal, accounts
<1>1. CASE Next
  <2>1. CASE StartRound \/ EndRound \/ Fix \/ Crash \/ NewDay
    BY <2>1 DEF Fix, StartRound, EndRound, BeginMailing, FixWrong, AfterWrong, FixMissing, Crash, NewDay
  <2>2. CASE Send
    BY <2>2 DEF Send, LoadAccounts, Skip, CounterIncrement, SaveAccount, Pick, Deliver, SendError, EndMailing
  <2>3. CASE Web
    BY <2>3 DEF Web, ChangeAccount, AddAccount, DeleteAccount, SpecifyVip, ChangeMassConts, Unsubscribe, Enlist
  <2> QED BY <1>1, <2>1, <2>2, <2>3 DEF Next, Sender
<1>2. CASE UNCHANGED vars
  BY <1>2 DEF vars
<1> QED BY <1>1, <1>2

LEMMA FixStep == ASSUME Inv, AccsReal, Fix PROVE Inv'
<1> USE DEF rows, history, Forget
<1>1. ASSUME NEW u \in Users, BeginMailing(u) PROVE Inv'
  BY <1>1, MovesOn DEF BeginMailing
<1>2. ASSUME NEW c \in Contacts, FixWrong(c) PROVE Inv'
  <2>1. CASE UNCHANGED con
    BY <1>2, <2>1, MovesOn DEF FixWrong, Fixed
  <2>2. CASE c \in cons /\ Head(sq) \in accs /\ con' = [con EXCEPT ![c].acc = Head(sq)] /\ Fixed(c)
    <3>1. con' = [d \in Contacts |-> IF d \in {c} THEN [con[d] EXCEPT !.acc = Head(sq)] ELSE con[d]]
      BY <2>2 DEF Inv, RowsReal
    <3>2. Head(sq) \in Accounts /\ {c} \in SUBSET cons
      BY <2>2 DEF AccsReal
    <3>3. pc = "wrong" /\ pc' = pc /\ UNCHANGED <<cons, made, asked, moved>>
      BY <1>2, <2>2 DEF FixWrong, Fixed
    <3> QED BY <3>1, <3>2, <3>3, Switched
  <2> QED BY <1>2, <2>1, <2>2 DEF FixWrong
<1>3. CASE AfterWrong
  <2>1. UNCHANGED <<rows, asked, moved>>
    BY <1>3 DEF AfterWrong
  <2>2. CASE pc' = "idle"
    BY <2>1, <2>2, MovesOn
  <2>3. CASE pc' = "missing" /\ fixing' = Without(rids)
    <3>1. \A r \in fixing', c \in cons : con[c].rcpt # r
      BY <2>3 DEF Without, ContactsOf
    <3> QED BY <2>1, <2>3, <3>1 DEF Inv, RowsReal, OneEach, MissingStill, AskedHeard, InHandHeard
  <2> QED BY <1>3, <2>2, <2>3 DEF AfterWrong
<1>4. ASSUME NEW r \in Recipients, FixMissing(r) PROVE Inv'
  <2>1. CASE UNCHANGED rows
    BY <1>4, <2>1, MovesOn DEF FixMissing, Fixed
  <2>2. ASSUME NEW c \in Contacts, Head(sq) \in accs, Create(c, r, Head(sq)), Fixed(r) PROVE Inv'
    BY <1>4, <2>2, Created DEF FixMissing, Fixed, AccsReal
  <2> QED BY <1>4, <2>1, <2>2 DEF FixMissing
<1> QED BY <1>1, <1>2, <1>3, <1>4 DEF Fix

LEMMA SendStep == ASSUME Inv, Send \/ StartRound \/ EndRound \/ Crash \/ NewDay PROVE Inv'
<1> USE DEF rows, history, thread
<1>1. CASE LoadAccounts
  BY <1>1, MovesOn DEF LoadAccounts
<1>2. ASSUME NEW a \in Accounts, Skip(a) \/ CounterIncrement(a) PROVE Inv'
  BY <1>2, MovesOn DEF Skip, CounterIncrement
<1>3. ASSUME NEW a \in Accounts, NEW r \in Recipients, Deliver(a, r) \/ SendError(a, r) PROVE Inv'
  BY <1>3, MovesOn DEF Deliver, SendError
<1>7. ASSUME NEW a \in Accounts, NEW c \in Contacts, Pick(a, c) PROVE Inv'
  <2>1. /\ c \in cons /\ con[c].massmail /\ hand'[2] = con[c].rcpt /\ since' = {}
        /\ pc' = "send" /\ UNCHANGED <<cons, con, made, fixing, asked, moved>>
    BY <1>7 DEF Pick, GetMassContact
  <2>2. InHandHeard'
    BY <2>1 DEF Inv, AskedHeard, InHandHeard
  <2> QED BY <2>1, <2>2 DEF Inv, RowsReal, OneEach, MissingStill, AskedHeard
<1>4. CASE EndMailing \/ StartRound
  BY <1>4, MovesOn DEF EndMailing, StartRound
<1>5. CASE EndRound \/ Crash
  BY <1>5, MovesOn DEF EndRound, Crash, Forget
<1>6. CASE NewDay
  BY <1>6, MovesOn DEF NewDay
<1> QED BY <1>1, <1>2, <1>3, <1>4, <1>5, <1>6, <1>7 DEF Send

LEMMA WebStep == ASSUME Inv, AccsReal, Web PROVE Inv'
<1> USE DEF Request, thread, rows
<1>1. ASSUME NEW a \in Accounts, NEW u \in Users, NEW b \in BOOLEAN, NEW m \in BOOLEAN,
             ChangeAccount(a, u, b, m)
      PROVE  Inv'
  BY <1>1 DEF ChangeAccount, Inv, RowsReal, OneEach, MissingStill, AskedHeard, InHandHeard
<1>2. ASSUME NEW a \in Accounts, NEW m \in BOOLEAN, AddAccount(a, m) PROVE Inv'
  BY <1>2, MovesOn DEF AddAccount, history
<1>3. ASSUME NEW a \in Accounts, DeleteAccount(a) PROVE Inv'
  <2> DEFINE S == {c \in cons : con[c].acc = a}
  <2>1. /\ cons' = cons \ S /\ con' = [c \in Contacts |-> IF c \in cons' THEN con[c] ELSE NoContact]
        /\ UNCHANGED <<made, asked, pc, fixing, hand, since>>
        /\ moved' = moved \cup {con[c].rcpt : c \in cons \ cons'}
    BY <1>3 DEF DeleteAccount, Cascade
  <2> QED BY <2>1, Deleted
<1>4. ASSUME NEW r \in Recipients, SpecifyVip(r) PROVE Inv'
  <2>1. PICK a \in accs :
         IF ContactsOf(r) # {}
         THEN /\ con' = [c \in Contacts |-> IF c \in ContactsOf(r) THEN [con[c] EXCEPT !.acc = a] ELSE con[c]]
              /\ UNCHANGED <<cons, made>>
         ELSE \E c \in Contacts : Create(c, r, a)
    BY <1>4 DEF SpecifyVip
  <2>2. a \in Accounts /\ ContactsOf(r) \in SUBSET cons /\ moved' = moved \cup {r}
        /\ UNCHANGED <<asked, pc, fixing, hand, since>>
    BY <1>4, <2>1 DEF SpecifyVip, AccsReal, ContactsOf
  <2>3. CASE ContactsOf(r) # {}
    BY <2>1, <2>2, <2>3, Switched
  <2>4. CASE ContactsOf(r) = {}
    BY <2>1, <2>2, <2>4, Created
  <2> QED BY <2>3, <2>4
<1>5. ASSUME NEW r \in Recipients, NEW u \in Users, ChangeMassConts(r, u) PROVE Inv'
  <2>1. moved' = moved \cup {r} /\ UNCHANGED <<asked, pc, fixing, hand, since, made>>
    BY <1>5 DEF ChangeMassConts
  <2>2. CASE u \in queues /\ queue[u] # <<>>
    <3> DEFINE a == Head(queue[u])
    <3>1. /\ a \in accs /\ UNCHANGED cons
          /\ con' = [c \in Contacts |-> IF c \in ContactsOf(r) THEN [con[c] EXCEPT !.acc = a] ELSE con[c]]
      BY <1>5, <2>2 DEF ChangeMassConts
    <3>2. a \in Accounts /\ ContactsOf(r) \in SUBSET cons
      BY <3>1 DEF AccsReal, ContactsOf
    <3> HIDE DEF a
    <3> QED BY <2>1, <3>1, <3>2, Switched
  <2>3. CASE ~(u \in queues /\ queue[u] # <<>>)
    <3>1. cons' = cons \ ContactsOf(r) /\ con' = [c \in Contacts |-> IF c \in cons' THEN con[c] ELSE NoContact]
      BY <1>5, <2>3 DEF ChangeMassConts
    <3>2. \A c \in cons \cap ContactsOf(r) : con[c].rcpt \in moved'
      BY <2>1 DEF ContactsOf
    <3> QED BY <2>1, <3>1, <3>2, Deleted
  <2> QED BY <2>2, <2>3
<1>6. ASSUME NEW r \in Recipients, NEW u \in Users, Enlist(u, r) PROVE Inv'
  BY <1>6, MovesOn DEF Enlist, history
<1>7. ASSUME NEW c \in Contacts, Unsubscribe(c) PROVE Inv'
  BY <1>7, Unsubscribed
<1> QED BY <1>1, <1>2, <1>3, <1>4, <1>5, <1>6, <1>7 DEF Web

LEMMA InvStep == ASSUME Inv, AccsReal, [Next]_vars PROVE Inv'
<1>1. CASE UNCHANGED vars
  BY <1>1, Untouched DEF vars, Moves, rows, thread, history
<1> QED BY <1>1, FixStep, SendStep, WebStep DEF Next, Sender

(* Nobody who has unsubscribed, and was left with the account he was with, is *)
(* written to, but for a message that was begun before he did: the row that   *)
(* says so is never lost, doubled or made again, and every message after the  *)
(* one in hand reads it (massmail/views/unsubscribes.py, fix_masscontacts in  *)
(* sendmassmail.py, and the look and the sending of send_massmail).           *)
THEOREM UnsubscribedStayOut == Spec => StaysOut
<1>1. Init => Inv /\ AccsReal
  BY InitInv, ContactsAssumption DEF Init, AccsReal
<1>2. Spec => [](Inv /\ AccsReal)
  BY <1>1, InvStep, AccsStep, PTL DEF Spec
<1>3. ASSUME Inv, NEW a \in Accounts, NEW r \in Recipients, Deliver(a, r) PROVE r \notin asked \ (moved \cup since)
  BY <1>3 DEF Inv, InHandHeard, Deliver
<1>4. Inv => [\A a \in Accounts, r \in Recipients :
                 Deliver(a, r) => r \notin asked \ (moved \cup since)]_vars
  BY <1>3
<1> QED BY <1>2, <1>4, PTL DEF StaysOut
-----------------------------------------------------------------------------
(* The queues, as lists.                                                   *)

LEMMA GetNextList ==
    ASSUME NEW q \in Seq(Accounts), q # <<>>
    PROVE  /\ GetNext(q) \in Seq(Accounts)
           /\ Head(q) \in Accounts /\ Contains(q, Head(q))
           /\ \A b : Contains(GetNext(q), b) => Contains(q, b)
           /\ IsInjective(q) => IsInjective(GetNext(q))
<1>1. /\ Head(q) = q[1] /\ Len(q) \in Nat /\ Len(q) >= 1 /\ Head(q) \in Accounts
      /\ Tail(q) \in Seq(Accounts) /\ Len(Tail(q)) = Len(q) - 1
      /\ \A i \in 1..(Len(q) - 1) : Tail(q)[i] = q[i + 1]
  BY HeadTailProperties, LenProperties, EmptySeq
<1> DEFINE n == Len(q)
           g == GetNext(q)
<1>2. /\ g \in Seq(Accounts) /\ Len(g) = n
      /\ DOMAIN g = 1..n /\ DOMAIN q = 1..n
      /\ \A i \in 1..(n - 1) : g[i] = q[i + 1]
      /\ g[n] = q[1]
  <2>1. /\ g \in Seq(Accounts) /\ Len(g) = Len(Tail(q)) + 1
        /\ \A i \in 1..Len(Tail(q)) : g[i] = Tail(q)[i]
        /\ g[Len(Tail(q)) + 1] = Head(q)
    BY <1>1, AppendProperties DEF GetNext
  <2>2. DOMAIN g = 1..Len(g) /\ DOMAIN q = 1..n
    BY <2>1, LenProperties
  <2> HIDE DEF g
  <2>3. Len(g) = n /\ g[n] = q[1]
    BY <1>1, <2>1
  <2> QED BY <1>1, <2>1, <2>2, <2>3
<1> HIDE DEF g
<1>a. n \in Nat /\ n >= 1
  BY <1>1
<1> HIDE DEF n
<1>3. \A b : Contains(g, b) => Contains(q, b)
  <2> SUFFICES ASSUME NEW b, NEW i \in 1..n, g[i] = b PROVE \E j \in 1..n : q[j] = b
    BY <1>2 DEF Contains, n
  <2>1. CASE i = n
    BY <1>2, <1>a, <2>1
  <2>2. CASE i # n
    <3>1. i + 1 \in 1..n /\ g[i] = q[i + 1]
      BY <1>2, <1>a, <2>2
    <3> QED BY <3>1
  <2> QED BY <2>1, <2>2
<1>4. IsInjective(q) => IsInjective(g)
  <2> SUFFICES ASSUME IsInjective(q), NEW i \in 1..n, NEW j \in 1..n, g[i] = g[j] PROVE i = j
    BY <1>2 DEF IsInjective
  <2> DEFINE at(h) == IF h = n THEN 1 ELSE h + 1
  <2>1. \A h \in 1..n : at(h) \in 1..n /\ g[h] = q[at(h)]
    BY <1>2, <1>a
  <2> HIDE DEF at
  <2>2. at(i) = at(j)
    <3>1. at(i) \in DOMAIN q /\ at(j) \in DOMAIN q /\ q[at(i)] = q[at(j)]
      BY <1>2, <2>1
    <3> QED BY <3>1 DEF IsInjective
  <2> QED BY <1>a, <2>2 DEF at
<1>5. Contains(q, Head(q))
  BY <1>1 DEF Contains
<1> QED BY <1>1, <1>2, <1>3, <1>4, <1>5 DEF g

LEMMA AddIdList ==
    ASSUME NEW q \in Seq(Accounts), NEW a \in Accounts
    PROVE  /\ AddId(q, a) \in Seq(Accounts)
           /\ \A b : Contains(AddId(q, a), b) => Contains(q, b) \/ b = a
           /\ IsInjective(q) => IsInjective(AddId(q, a))
<1>1. CASE Contains(q, a)
  BY <1>1 DEF AddId
<1>2. CASE ~Contains(q, a)
  <2>1. /\ AddId(q, a) \in Seq(Accounts) /\ Len(q) \in Nat /\ Len(AddId(q, a)) = Len(q) + 1
        /\ DOMAIN AddId(q, a) = 1..(Len(q) + 1) /\ DOMAIN q = 1..Len(q)
        /\ \A i \in 1..Len(q) : AddId(q, a)[i] = q[i]
        /\ AddId(q, a)[Len(q) + 1] = a
    BY <1>2, AppendProperties, LenProperties DEF AddId
  <2>2. \A i \in 1..Len(q) : q[i] # a
    BY <1>2 DEF Contains
  <2>3. \A b : Contains(AddId(q, a), b) => Contains(q, b) \/ b = a
    BY <2>1 DEF Contains
  <2>4. IsInjective(q) => IsInjective(AddId(q, a))
    BY <2>1, <2>2 DEF IsInjective
  <2> QED BY <2>1, <2>3, <2>4
<1> QED BY <1>1, <1>2

LEMMA RemoveIdList ==
    ASSUME NEW q \in Seq(Accounts), NEW a
    PROVE  /\ RemoveId(q, a) \in Seq(Accounts)
           /\ \A b : Contains(RemoveId(q, a), b) => Contains(q, b)
           /\ IsInjective(q) => IsInjective(RemoveId(q, a)) /\ ~Contains(RemoveId(q, a), a)
<1>1. CASE ~Contains(q, a)
  BY <1>1 DEF RemoveId
<1>2. CASE Contains(q, a)
  <2> DEFINE k == CHOOSE i \in DOMAIN q : q[i] = a
             left == SubSeq(q, 1, k - 1)
             right == SubSeq(q, k + 1, Len(q))
             r == left \o right
  <2>1. Len(q) \in Nat /\ DOMAIN q = 1..Len(q) /\ \A i \in 1..Len(q) : q[i] \in Accounts
    BY LenProperties, ElementOfSeq
  <2>2. k \in 1..Len(q) /\ q[k] = a
    BY <1>2, <2>1 DEF Contains
  <2>3. RemoveId(q, a) = r
    BY <1>2 DEF RemoveId, RemoveAt
  <2> HIDE DEF k
  <2>4. /\ left \in Seq(Accounts) /\ Len(left) = k - 1
        /\ \A i \in 1..(k - 1) : left[i] = q[i]
    BY <2>1, <2>2, SubSeqProperties
  <2>5. /\ right \in Seq(Accounts) /\ Len(right) = Len(q) - k
        /\ \A i \in 1..(Len(q) - k) : right[i] = q[k + i]
    <3>1. \A i \in (k + 1)..Len(q) : q[i] \in Accounts
      BY <2>1, <2>2
    <3>2. /\ right \in Seq(Accounts) /\ Len(right) = IF k + 1 <= Len(q) THEN Len(q) - (k + 1) + 1 ELSE 0
          /\ \A i \in 1..(Len(q) - (k + 1) + 1) : right[i] = q[(k + 1) + i - 1]
      BY <2>1, <2>2, <3>1, SubSeqProperties
    <3> HIDE DEF right, r
    <3>3. Len(right) = Len(q) - k
      <4>1. Len(q) \in Int /\ k \in Int /\ k <= Len(q)
        BY <2>1, <2>2
      <4> QED BY <3>2, <4>1
    <3>4. ASSUME NEW i \in 1..(Len(q) - k) PROVE right[i] = q[k + i]
      <4>1. i \in 1..(Len(q) - (k + 1) + 1) /\ (k + 1) + i - 1 = k + i
        BY <2>1, <2>2
      <4> QED BY <3>2, <4>1
    <3> QED BY <3>2, <3>3, <3>4
  <2> HIDE DEF left, right
  <2>6. /\ r \in Seq(Accounts) /\ Len(r) = Len(q) - 1
        /\ \A i \in 1..(Len(q) - 1) : r[i] = IF i < k THEN q[i] ELSE q[i + 1]
    <3>1. /\ r \in Seq(Accounts) /\ Len(r) = Len(left) + Len(right)
          /\ \A i \in 1..(Len(left) + Len(right)) : r[i] = IF i <= Len(left) THEN left[i] ELSE right[i - Len(left)]
      BY <2>4, <2>5, ConcatProperties
    <3>2. ASSUME NEW i \in 1..(Len(q) - 1) PROVE r[i] = IF i < k THEN q[i] ELSE q[i + 1]
      <4>1. i \in 1..(Len(left) + Len(right)) /\ (i <= Len(left) <=> i < k)
        BY <2>1, <2>2, <2>4, <2>5
      <4>2. CASE i < k
        BY <2>2, <2>4, <3>1, <4>1, <4>2
      <4>3. CASE ~(i < k)
        <5>1. i - Len(left) \in 1..(Len(q) - k) /\ k + (i - Len(left)) = i + 1
          BY <2>1, <2>2, <2>4, <4>3
        <5> QED BY <2>5, <3>1, <4>1, <4>3, <5>1
      <4> QED BY <4>2, <4>3
    <3> QED BY <2>1, <2>2, <2>4, <2>5, <3>1, <3>2
  <2>7. DOMAIN r = 1..(Len(q) - 1)
    BY <2>6, LenProperties
  <2> HIDE DEF r
  <2> DEFINE at(i) == IF i < k THEN i ELSE i + 1
  <2>a. \A i \in 1..(Len(q) - 1) : at(i) \in 1..Len(q) /\ at(i) # k /\ r[i] = q[at(i)]
    BY <2>1, <2>2, <2>6
  <2>b. \A i, j \in 1..(Len(q) - 1) : at(i) = at(j) => i = j
    BY <2>1, <2>2
  <2> HIDE DEF at
  <2>8. \A b : Contains(r, b) => Contains(q, b)
    BY <2>6, <2>a DEF Contains
  <2>9. IsInjective(q) => IsInjective(r) /\ ~Contains(r, a)
    BY <2>1, <2>2, <2>6, <2>7, <2>a, <2>b DEF Contains, IsInjective
  <2> QED BY <2>3, <2>6, <2>8, <2>9
<1> QED BY <1>1, <1>2

LEMMA FirstQueue ==
    ASSUME NEW S \in SUBSET Accounts, IsFiniteSet(S)
    PROVE  /\ SetToSeq(S) \in Seq(Accounts) /\ IsInjective(SetToSeq(S))
           /\ \A b : Contains(SetToSeq(S), b) => b \in S
<1>1. Cardinality(S) \in Nat /\ \E f \in [1..Cardinality(S) -> S] : IsInjective(f)
  BY FS_CardinalityType DEF ExistsBijection, Bijection, Injection
<1>2. SetToSeq(S) \in [1..Cardinality(S) -> S] /\ IsInjective(SetToSeq(S))
  BY <1>1 DEF SetToSeq
<1>3. SetToSeq(S) \in Seq(S) /\ Len(SetToSeq(S)) = Cardinality(S)
  BY <1>1, <1>2
<1>4. SetToSeq(S) \in Seq(Accounts)
  BY <1>3, SeqMonotonic
<1> QED BY <1>2, <1>3, <1>4 DEF Contains
-----------------------------------------------------------------------------
(* Types, and where the thread may be.                                     *)

TablesType ==
    /\ accs \subseteq given /\ given \subseteq Accounts /\ acc \in [Accounts -> Account]
    /\ queues \subseteq Users /\ queue \in [Users -> Seq(Accounts)]
    /\ owner \in [Recipients -> Users] /\ list \in [Users -> SUBSET Recipients]

ThreadType ==
    /\ day \in Nat /\ today \in Nat
    /\ pc \in {"idle", "mailing", "wrong", "missing", "accounts", "send", "count"}
    /\ round \subseteq Users /\ su \in Users \cup {None} /\ rids \subseteq Recipients
    /\ sq \in Seq(Accounts) /\ visit \subseteq given /\ copy \in [Accounts -> Account]
    /\ hand \in (Accounts \X Recipients) \cup {Nothing}

\* What the thread has in hand at each place.
Holds ==
    /\ pc \in {"wrong", "missing", "accounts", "send", "count"} => su \in Users \ round
    /\ pc \notin {"accounts", "send", "count"} => visit = {}
    /\ pc \in {"idle", "mailing", "accounts", "send"} => fixing = {}
    /\ pc = "send" => hand \in Accounts \X Recipients /\ hand[1] \in visit
    /\ pc = "wrong" => fixing \subseteq made
    /\ pc = "missing" => fixing \subseteq rids
    /\ pc = "count" => \E a \in visit : fixing = {a}

HistoryType ==
    /\ ops \in Nat /\ raced \in BOOLEAN
    /\ real \in [Accounts -> Nat] /\ from \in [Recipients -> Accounts \cup {None}]
    /\ moved \subseteq Recipients /\ since \subseteq asked

Types == Inv /\ TablesType /\ ThreadType /\ Holds /\ HistoryType

LEMMA TypesOK == ASSUME Types PROVE TypeOK
<1>1. fixing \subseteq CASE pc = "wrong" -> Contacts [] pc = "missing" -> Recipients
                         [] pc = "count" -> Accounts [] OTHER -> {}
  <2> USE DEF Types, Inv, RowsReal, TablesType, ThreadType, Holds
  <2>1. CASE pc = "wrong"
    BY <2>1
  <2>2. CASE pc = "missing"
    BY <2>2
  <2>3. CASE pc = "count"
    BY <2>3
  <2>4. CASE pc \in {"idle", "mailing", "accounts", "send"}
    BY <2>4
  <2> QED BY <2>1, <2>2, <2>3, <2>4
<1> QED BY <1>1 DEF TypeOK, Types, Inv, RowsReal, TablesType, ThreadType, HistoryType

LEMMA FirstRowType == \A a \in Accounts : FirstRow(a) \in Account
BY ContactsAssumption DEF FirstRow, Account

LEMMA InitTypes == ASSUME Init PROVE Types
<1>1. \A u \in Users : SetToSeq({a \in AccountsAtStart \ MainAtStart : ManagerOf[a] = u}) \in Seq(Accounts)
  <2> TAKE u \in Users
  <2> DEFINE S == {a \in AccountsAtStart \ MainAtStart : ManagerOf[a] = u}
  <2>1. S \in SUBSET Accounts /\ IsFiniteSet(S)
    BY ContactsAssumption, FS_Subset
  <2> QED BY <2>1, FirstQueue
<1>2. TablesType
  BY <1>1, FirstRowType, ContactsAssumption DEF Init, TablesType
<1>3. ThreadType /\ Holds
  BY <1>2 DEF Init, ThreadType, Holds, TablesType
<1>4. HistoryType
  BY ContactsAssumption DEF Init, HistoryType
<1> QED BY <1>2, <1>3, <1>4, InitInv DEF Types

\* get_next of the thread.
LEMMA TakeNextType ==
    ASSUME Types, su \in Users, sq # <<>>, TakeNext
    PROVE  /\ queues' \subseteq Users /\ queue' \in [Users -> Seq(Accounts)]
           /\ sq' \in Seq(Accounts) /\ raced' \in BOOLEAN
<1>1. sq' \in Seq(Accounts)
  BY GetNextList DEF Types, ThreadType, TakeNext
<1> QED BY <1>1 DEF Types, TablesType, HistoryType, TakeNext

LEMMA RowCountType ==
    ASSUME NEW row \in Account
    PROVE  /\ row.count \in Nat /\ row.date \in Int /\ row.owner \in Users
           /\ row.main \in BOOLEAN /\ row.massmail \in BOOLEAN
           /\ \A n \in Nat, d \in Int : [row EXCEPT !.count = n, !.date = d] \in Account
           /\ \A n \in Nat : [row EXCEPT !.count = n] \in Account
           /\ \A b \in BOOLEAN : [row EXCEPT !.massmail = b] \in Account
           /\ \A u \in Users, b \in BOOLEAN, m \in BOOLEAN :
                 [row EXCEPT !.owner = u, !.main = b, !.massmail = m] \in Account
BY DEF Account

LEMMA FixTypes == ASSUME Types, Inv', Fix PROVE Types'
<1>1. ASSUME NEW u \in Users, BeginMailing(u) PROVE Types'
  <2>1. TablesType' /\ HistoryType'
    BY <1>1 DEF BeginMailing, Types, TablesType, HistoryType, accounts, line, people, history
  <2>2. Wrong(u, list[u]) \subseteq made
    BY DEF Wrong, Types, Inv, RowsReal
  <2>3. ThreadType' /\ Holds'
    BY <1>1, <2>2 DEF BeginMailing, Forget, Types, TablesType, ThreadType, Holds, rows, accounts
  <2> QED BY <2>1, <2>3 DEF Types
<1>2. ASSUME NEW c \in Contacts, FixWrong(c) PROVE Types'
  <2>1. su \in Users
    BY <1>2 DEF FixWrong, Types, Holds
  <2>2. TablesType' /\ HistoryType' /\ sq' \in Seq(Accounts)
    <3>1. CASE UNCHANGED <<line, sq, raced>>
      BY <1>2, <3>1 DEF FixWrong, Types, TablesType, ThreadType, HistoryType, accounts, line, people, history
    <3>2. CASE sq # <<>> /\ TakeNext
      BY <1>2, <2>1, <3>2, TakeNextType DEF FixWrong, Types, TablesType, HistoryType, accounts, people, history
    <3> QED BY <1>2, <3>1, <3>2 DEF FixWrong
  <2>3. ThreadType' /\ Holds'
    BY <1>2, <2>2 DEF FixWrong, Fixed, Forget, Types, ThreadType, Holds, accounts
  <2> QED BY <2>2, <2>3 DEF Types
<1>3. CASE AfterWrong
  <2>1. TablesType' /\ HistoryType'
    BY <1>3 DEF AfterWrong, Types, TablesType, HistoryType, accounts, line, people, history
  <2>2. Without(rids) \subseteq rids
    BY DEF Without
  <2>3. ThreadType' /\ Holds'
    BY <1>3, <2>2 DEF AfterWrong, Forget, Types, TablesType, ThreadType, Holds, rows, accounts
  <2> QED BY <2>1, <2>3 DEF Types
<1>4. ASSUME NEW r \in Recipients, FixMissing(r) PROVE Types'
  <2>1. su \in Users
    BY <1>4 DEF FixMissing, Types, Holds
  <2>2. TablesType' /\ HistoryType' /\ sq' \in Seq(Accounts)
    <3>1. CASE UNCHANGED <<line, sq, raced>>
      BY <1>4, <3>1 DEF FixMissing, Types, TablesType, ThreadType, HistoryType, accounts, line, people, history
    <3>2. CASE sq # <<>> /\ TakeNext
      BY <1>4, <2>1, <3>2, TakeNextType DEF FixMissing, Types, TablesType, HistoryType, accounts, people, history
    <3> QED BY <1>4, <3>1, <3>2 DEF FixMissing
  <2>3. ThreadType' /\ Holds'
    BY <1>4, <2>2 DEF FixMissing, Fixed, Forget, Types, ThreadType, Holds, accounts
  <2> QED BY <2>2, <2>3 DEF Types
<1> QED BY <1>1, <1>2, <1>3, <1>4 DEF Fix

LEMMA SaveAccountType ==
    ASSUME Types, NEW a \in given, NEW row \in Account, SaveAccount(a, row)
    PROVE  /\ accs' \subseteq given' /\ given' = given /\ acc' \in [Accounts -> Account]
           /\ raced' \in BOOLEAN
BY DEF SaveAccount, Types, TablesType, HistoryType

LEMMA SendTypes == ASSUME Types, Inv', Send \/ StartRound \/ EndRound \/ Crash \/ NewDay PROVE Types'
<1>1. CASE LoadAccounts
  <2>1. \A a \in Accounts : acc[a] \in Account /\ [acc[a] EXCEPT !.count = 0] \in Account
    BY RowCountType DEF Types, TablesType
  <2>2. TablesType' /\ HistoryType'
    BY <1>1 DEF LoadAccounts, Types, TablesType, HistoryType, accounts, line, people, history
  <2>3. copy' \in [Accounts -> Account]
    BY <1>1, <2>1 DEF LoadAccounts
  <2>4. ThreadType' /\ Holds'
    BY <1>1, <2>3 DEF LoadAccounts, Types, TablesType, ThreadType, Holds, accounts
  <2> QED BY <2>2, <2>4 DEF Types
<1>2. ASSUME NEW a \in Accounts, Skip(a) PROVE Types'
  BY <1>2 DEF Skip, Types, TablesType, ThreadType, Holds, HistoryType, accounts, line, people, history, rows
<1>3. ASSUME NEW a \in Accounts, CounterIncrement(a) PROVE Types'
  <2>1. a \in given /\ today \in Int
    BY <1>3 DEF CounterIncrement, Types, ThreadType, Holds
  <2>2. [copy[a] EXCEPT !.count = @ + 1, !.date = today] \in Account
    <3>1. copy[a] \in Account /\ copy[a].count + 1 \in Nat
      BY DEF Types, ThreadType, Account
    <3>2. [copy[a] EXCEPT !.count = copy[a].count + 1, !.date = today] \in Account
      BY <2>1, <3>1, RowCountType
    <3> QED BY <3>2
  <2>3. /\ accs' \subseteq given' /\ given' = given /\ acc' \in [Accounts -> Account]
        /\ raced' \in BOOLEAN
    BY <1>3, <2>1, <2>2, SaveAccountType DEF CounterIncrement
  <2>4. TablesType' /\ HistoryType'
    BY <1>3, <2>3 DEF CounterIncrement, Types, TablesType, HistoryType, line, people, history
  <2>5. ThreadType' /\ Holds'
    BY <1>3, <2>3 DEF CounterIncrement, Types, ThreadType, Holds, people
  <2> QED BY <2>4, <2>5 DEF Types
<1>4. ASSUME NEW a \in Accounts, NEW r \in Recipients, Deliver(a, r) PROVE Types'
  <2>1. su \in Users /\ a \in visit
    BY <1>4 DEF Deliver, Types, Holds
  <2>2. list' \in [Users -> SUBSET Recipients] /\ real' \in [Accounts -> Nat]
    BY <1>4, <2>1 DEF Deliver, Types, TablesType, HistoryType
  <2>3. from' \in [Recipients -> Accounts \cup {None}]
    BY <1>4, <2>1 DEF Deliver, Types, HistoryType
  <2>4. TablesType' /\ HistoryType'
    BY <1>4, <2>2, <2>3 DEF Deliver, Types, TablesType, HistoryType, accounts, line
  <2>5. ThreadType' /\ Holds'
    BY <1>4, <2>1 DEF Deliver, Types, ThreadType, Holds, accounts
  <2> QED BY <2>4, <2>5 DEF Types
<1>5. ASSUME NEW a \in Accounts, NEW r \in Recipients, SendError(a, r) PROVE Types'
  <2>1. su \in Users /\ a \in given /\ fixing = {} /\ ops' \in Nat
    BY <1>5, ContactsAssumption DEF SendError, Types, ThreadType, Holds, HistoryType
  <2>2. list' \in [Users -> SUBSET Recipients]
    BY <1>5, <2>1 DEF SendError, Types, TablesType
  <2>3. /\ accs' \subseteq given' /\ given' = given /\ acc' \in [Accounts -> Account]
        /\ raced' \in BOOLEAN
    <3>1. CASE UNCHANGED <<accounts, raced>>
      BY <3>1 DEF accounts, Types, TablesType, HistoryType
    <3>2. CASE SaveAccount(a, [copy[a] EXCEPT !.massmail = FALSE])
      BY <2>1, <3>2, SaveAccountType, RowCountType DEF Types, ThreadType
    <3> QED BY <1>5, <3>1, <3>2 DEF SendError
  <2>4. TablesType' /\ HistoryType'
    BY <1>5, <2>1, <2>2, <2>3 DEF SendError, Types, TablesType, HistoryType, line, history
  <2>5. ThreadType' /\ Holds'
    BY <1>5, <2>1, <2>3 DEF SendError, Types, ThreadType, Holds
  <2> QED BY <2>4, <2>5 DEF Types
<1>10. ASSUME NEW a \in Accounts, NEW c \in Contacts, Pick(a, c) PROVE Types'
  <2>1. c \in cons /\ con[c].rcpt \in Recipients /\ a \in visit
    BY <1>10 DEF Pick, GetMassContact, Types, Inv, RowsReal, Contact
  <2>2. TablesType' /\ HistoryType'
    BY <1>10 DEF Pick, Types, TablesType, HistoryType, accounts, line, people
  <2>3. ThreadType' /\ Holds'
    BY <1>10, <2>1 DEF Pick, Types, ThreadType, Holds, accounts
  <2> QED BY <2>2, <2>3 DEF Types
<1>6. CASE EndMailing \/ StartRound
  BY <1>6 DEF EndMailing, StartRound, Types, TablesType, ThreadType, Holds, HistoryType, accounts, line,
     people, history, rows
<1>7. CASE EndRound
  BY <1>7 DEF EndRound, Forget, Types, TablesType, ThreadType, Holds, HistoryType, accounts, line,
     people, history, rows
<1>8. CASE Crash
  BY <1>8, ContactsAssumption DEF Crash, Forget, Types, TablesType, ThreadType, Holds, HistoryType, accounts,
     line, people, history, rows
<1>9. CASE NewDay
  BY <1>9 DEF NewDay, Types, TablesType, ThreadType, Holds, HistoryType, accounts, line,
     people, thread, rows
<1> QED BY <1>1, <1>2, <1>3, <1>4, <1>5, <1>6, <1>7, <1>8, <1>9, <1>10 DEF Send

\* A request does not touch the thread.
LEMMA RequestThread ==
    ASSUME Types, Request, given \subseteq given', made \subseteq made'
    PROVE  ThreadType' /\ Holds' /\ ops' \in Nat
<1>1. ThreadType' /\ ops' \in Nat
  BY ContactsAssumption DEF Request, thread, Types, ThreadType, HistoryType
<1>2. Holds'
  BY DEF Request, thread, Types, Holds
<1> QED BY <1>1, <1>2

LEMMA WebTypes == ASSUME Types, Inv', Web PROVE Types'
<1>1. ASSUME NEW a \in Accounts, NEW u \in Users, NEW b \in BOOLEAN, NEW m \in BOOLEAN,
             ChangeAccount(a, u, b, m)
      PROVE  Types'
  <2> DEFINE new == [acc[a] EXCEPT !.owner = u, !.main = b, !.massmail = m]
  <2>1. new \in Account /\ new.owner \in Users
    BY RowCountType DEF Types, TablesType
  <2>2. /\ acc' = [acc EXCEPT ![a] = new] /\ queues' = queues \cup {u} /\ queue' = QueueAfterSave(a, acc[a], new)
        /\ moved \subseteq moved' /\ moved' \subseteq moved \cup {con[c].rcpt : c \in cons}
        /\ Request /\ UNCHANGED <<accs, given, rows, people, real, from, asked, since, raced>>
    BY <1>1 DEF ChangeAccount
  <2> HIDE DEF new
  <2>3. queue' \in [Users -> Seq(Accounts)]
    <3> DEFINE added == IF new.massmail /\ ~new.main
                        THEN [queue EXCEPT ![new.owner] = AddId(@, a)] ELSE queue
               demoted == IF new.main /\ ~acc[a].main
                          THEN [added EXCEPT ![new.owner] = RemoveId(@, a)] ELSE added
    <3>1. added \in [Users -> Seq(Accounts)]
      BY <2>1, AddIdList DEF Types, TablesType
    <3> HIDE DEF added
    <3>2. demoted \in [Users -> Seq(Accounts)]
      BY <2>1, <3>1, RemoveIdList
    <3>3. queue' = IF acc[a].owner # new.owner THEN [v \in Users |-> RemoveId(demoted[v], a)] ELSE demoted
      BY <2>2 DEF QueueAfterSave, added
    <3> HIDE DEF demoted
    <3> QED BY <3>2, <3>3, RemoveIdList
  <2>4. moved' \subseteq Recipients
    BY <2>2 DEF Types, HistoryType, Inv, RowsReal, Contact
  <2>5. TablesType'
    BY <2>1, <2>2, <2>3 DEF Types, TablesType, people
  <2>6. ThreadType' /\ Holds' /\ ops' \in Nat
    BY <2>2, RequestThread DEF rows
  <2>7. HistoryType'
    BY <2>2, <2>4, <2>6 DEF Types, HistoryType
  <2> QED BY <2>5, <2>6, <2>7 DEF Types
<1>2. ASSUME NEW a \in Accounts, NEW m \in BOOLEAN, AddAccount(a, m) PROVE Types'
  <2>1. [FirstRow(a) EXCEPT !.massmail = m] \in Account /\ ManagerOf[a] \in Users
    BY FirstRowType, RowCountType, ContactsAssumption
  <2>2. TablesType'
    BY <1>2, <2>1, AddIdList DEF AddAccount, Types, TablesType, people
  <2>3. ThreadType' /\ Holds' /\ ops' \in Nat
    BY <1>2, RequestThread DEF AddAccount, rows
  <2>4. HistoryType'
    BY <1>2, <2>3 DEF AddAccount, history, Types, HistoryType
  <2> QED BY <2>2, <2>3, <2>4 DEF Types
<1>3. ASSUME NEW a \in Accounts, DeleteAccount(a) PROVE Types'
  <2>1. queue' \in [Users -> Seq(Accounts)]
    BY <1>3, RemoveIdList DEF DeleteAccount, Types, TablesType
  <2>2. moved' \subseteq Recipients
    BY <1>3 DEF DeleteAccount, Cascade, Types, HistoryType, Inv, RowsReal, Contact
  <2>3. TablesType'
    BY <1>3, <2>1 DEF DeleteAccount, Types, TablesType, people
  <2>4. ThreadType' /\ Holds' /\ ops' \in Nat
    BY <1>3, RequestThread DEF DeleteAccount, Cascade
  <2>5. HistoryType'
    BY <1>3, <2>2, <2>4 DEF DeleteAccount, Types, HistoryType
  <2> QED BY <2>3, <2>4, <2>5 DEF Types
<1>4. ASSUME NEW r \in Recipients, SpecifyVip(r) PROVE Types'
  <2>1. ThreadType' /\ Holds' /\ ops' \in Nat
    BY <1>4, RequestThread DEF SpecifyVip, Create, accounts
  <2> QED BY <1>4, <2>1 DEF SpecifyVip, Types, TablesType, HistoryType, accounts, line, people
<1>5. ASSUME NEW r \in Recipients, NEW u \in Users, ChangeMassConts(r, u) PROVE Types'
  <2>1. queue' \in [Users -> Seq(Accounts)]
    <3>1. \A q \in Seq(Accounts) : q # <<>> => GetNext(q) \in Seq(Accounts)
      BY GetNextList
    <3>2. queue \in [Users -> Seq(Accounts)]
      BY DEF Types, TablesType
    <3>3. \/ UNCHANGED queue
          \/ queue[u] # <<>> /\ queue' = [queue EXCEPT ![u] = GetNext(queue[u])]
      BY <1>5 DEF ChangeMassConts
    <3> QED BY <3>1, <3>2, <3>3
  <2>2. TablesType'
    BY <1>5, <2>1 DEF ChangeMassConts, Types, TablesType, accounts
  <2>3. ThreadType' /\ Holds' /\ ops' \in Nat
    BY <1>5, RequestThread DEF ChangeMassConts, accounts
  <2>4. HistoryType'
    BY <1>5, <2>3 DEF ChangeMassConts, Types, HistoryType
  <2> QED BY <2>2, <2>3, <2>4 DEF Types
<1>6. ASSUME NEW r \in Recipients, NEW u \in Users, Enlist(u, r) PROVE Types'
  <2>1. ThreadType' /\ Holds' /\ ops' \in Nat
    BY <1>6, RequestThread DEF Enlist, accounts, rows
  <2> QED BY <1>6, <2>1 DEF Enlist, history, Types, TablesType, HistoryType, accounts, line
<1>7. ASSUME NEW c \in Contacts, Unsubscribe(c) PROVE Types'
  <2>1. ThreadType' /\ Holds' /\ ops' \in Nat
    BY <1>7, RequestThread DEF Unsubscribe, accounts
  <2> QED BY <1>7, <2>1 DEF Unsubscribe, Types, TablesType, HistoryType, accounts, line, people
<1> QED BY <1>1, <1>2, <1>3, <1>4, <1>5, <1>6, <1>7 DEF Web

LEMMA TypesStep == ASSUME Types, [Next]_vars PROVE Types'
<1>1. AccsReal
  BY DEF AccsReal, Types, TablesType
<1>2. Inv'
  BY <1>1, InvStep DEF Types
<1>3. CASE UNCHANGED vars
  BY <1>2, <1>3 DEF vars, accounts, rows, line, people, thread, history, Types, TablesType, ThreadType, Holds,
     HistoryType
<1> QED BY <1>2, <1>3, FixTypes, SendTypes, WebTypes DEF Next, Sender
-----------------------------------------------------------------------------
(* The queues and the senders.                                             *)

QueuesOnce == QueueDistinct /\ IsInjective(sq)

LEMMA InitQueuesOnce == ASSUME Init PROVE QueuesOnce
<1>1. \A u \in Users : IsInjective(SetToSeq({a \in AccountsAtStart \ MainAtStart : ManagerOf[a] = u}))
  <2> TAKE u \in Users
  <2> DEFINE S == {a \in AccountsAtStart \ MainAtStart : ManagerOf[a] = u}
  <2>1. S \in SUBSET Accounts /\ IsFiniteSet(S)
    BY ContactsAssumption, FS_Subset
  <2> QED BY <2>1, FirstQueue
<1>2. IsInjective(<<>>)
  BY DEF IsInjective
<1> QED BY <1>1, <1>2 DEF Init, QueuesOnce, QueueDistinct

LEMMA QueuesOnceStep == ASSUME Types, QueuesOnce, [Next]_vars PROVE QueuesOnce'
<1> USE DEF QueuesOnce, QueueDistinct
<1>a. queue \in [Users -> Seq(Accounts)] /\ sq \in Seq(Accounts)
  BY DEF Types, TablesType, ThreadType
<1>b. ASSUME UNCHANGED <<queue, sq>> PROVE QueuesOnce'
  BY <1>b
<1>c. ASSUME su \in Users, sq # <<>>, TakeNext PROVE QueuesOnce'
  <2>1. IsInjective(GetNext(sq))
    BY <1>a, <1>c, GetNextList
  <2> QED BY <1>a, <1>c, <2>1 DEF TakeNext
<1>1. ASSUME NEW u \in Users, BeginMailing(u) PROVE QueuesOnce'
  BY <1>1 DEF BeginMailing, line
<1>2. ASSUME NEW c \in Contacts, FixWrong(c) PROVE QueuesOnce'
  BY <1>2, <1>b, <1>c DEF FixWrong, line, Types, Holds
<1>3. CASE AfterWrong
  BY <1>3 DEF AfterWrong, line, Types, Holds
<1>4. ASSUME NEW r \in Recipients, FixMissing(r) PROVE QueuesOnce'
  BY <1>4, <1>b, <1>c DEF FixMissing, line, Types, Holds
<1>5. CASE Send \/ StartRound \/ EndRound \/ Crash \/ NewDay
  BY <1>5, <1>b DEF Send, LoadAccounts, Skip, CounterIncrement, Pick, Deliver, SendError, EndMailing, StartRound,
     EndRound, Crash, NewDay, line, thread
<1>6. ASSUME Request PROVE sq' = sq
  BY <1>6 DEF Request, thread
<1>7. ASSUME NEW a \in Accounts, NEW u \in Users, NEW b \in BOOLEAN, NEW m \in BOOLEAN,
             ChangeAccount(a, u, b, m)
      PROVE  QueuesOnce'
  <2> DEFINE new == [acc[a] EXCEPT !.owner = u, !.main = b, !.massmail = m]
             added == IF new.massmail /\ ~new.main
                      THEN [queue EXCEPT ![new.owner] = AddId(@, a)] ELSE queue
             demoted == IF new.main /\ ~acc[a].main
                        THEN [added EXCEPT ![new.owner] = RemoveId(@, a)] ELSE added
  <2>1. new.owner = u
    BY DEF Types, TablesType, Account
  <2>2. added \in [Users -> Seq(Accounts)] /\ \A v \in Users : IsInjective(added[v])
    BY <1>a, <2>1, AddIdList
  <2>3. queue' = IF acc[a].owner # new.owner THEN [v \in Users |-> RemoveId(demoted[v], a)] ELSE demoted
    BY <1>7 DEF ChangeAccount, QueueAfterSave
  <2> HIDE DEF added, new
  <2>4. demoted \in [Users -> Seq(Accounts)] /\ \A v \in Users : IsInjective(demoted[v])
    BY <2>1, <2>2, RemoveIdList
  <2> HIDE DEF demoted
  <2>5. \A v \in Users : IsInjective(RemoveId(demoted[v], a))
    BY <2>4, RemoveIdList
  <2> QED BY <1>6, <1>7, <2>3, <2>4, <2>5 DEF ChangeAccount
<1>8. ASSUME NEW a \in Accounts, NEW m \in BOOLEAN, AddAccount(a, m) PROVE QueuesOnce'
  BY <1>6, <1>8, <1>a, AddIdList DEF AddAccount
<1>9. ASSUME NEW a \in Accounts, DeleteAccount(a) PROVE QueuesOnce'
  BY <1>6, <1>9, <1>a, RemoveIdList DEF DeleteAccount
<1>10. ASSUME NEW r \in Recipients, NEW u \in Users, ChangeMassConts(r, u) PROVE QueuesOnce'
  <2>1. \/ UNCHANGED queue
        \/ queue[u] # <<>> /\ queue' = [queue EXCEPT ![u] = GetNext(queue[u])]
    BY <1>10 DEF ChangeMassConts
  <2>2. queue[u] # <<>> => IsInjective(GetNext(queue[u]))
    BY <1>a, GetNextList
  <2> QED BY <1>6, <1>10, <1>a, <2>1, <2>2 DEF ChangeMassConts
<1>11. ASSUME \/ \E r \in Recipients : SpecifyVip(r)
              \/ \E r \in Recipients, u \in Users : Enlist(u, r)
              \/ \E c \in Contacts : Unsubscribe(c)
       PROVE  QueuesOnce'
  BY <1>6, <1>11, <1>b DEF SpecifyVip, Enlist, Unsubscribe, line
<1>12. CASE UNCHANGED vars
  BY <1>12, <1>b DEF vars, line, thread
<1> QED BY <1>1, <1>2, <1>3, <1>4, <1>5, <1>7, <1>8, <1>9, <1>10, <1>11, <1>12 DEF Next, Sender, Fix, Web

\* A contact is on an account that exists.
OnAccount == \A c \in cons : con[c].acc \in accs

\* Whoever was left alone is on the mailing of his own manager only.
Places ==
    /\ \A u \in Users : \A r \in list[u] \ moved : owner[r] = u
    /\ \A r \in rids \ moved : owner[r] = su

\* Whoever was written to, and left alone, has a contact.
Served == \A r \in Recipients \ moved : from[r] # None => \E c \in cons : con[c].rcpt = r

\* His contact is on an account of his manager.
Home == ~raced => \A c \in cons :
            con[c].rcpt \notin moved => acc[con[c].acc].owner = owner[con[c].rcpt]

\* So fix_masscontacts finds wrong only those that were moved.
WrongMoved == ~raced /\ pc = "wrong" => \A c \in fixing \cap cons : con[c].rcpt \in moved

\* The message in hand goes out from the account its recipient is on.
InHand == pc = "send" /\ hand[2] \notin moved =>
    /\ \E c \in cons : con[c].rcpt = hand[2]
    /\ \A c \in cons : con[c].rcpt = hand[2] => con[c].acc = hand[1]

Senders == OnAccount /\ Places /\ Served /\ Home /\ WrongMoved /\ QueueOwn /\ SameSender /\ InHand

LEMMA InitSenders == ASSUME Init PROVE Senders
<1>1. \A u \in Users, a \in Accounts :
         Contains(queue[u], a) => a \in AccountsAtStart \ MainAtStart /\ ManagerOf[a] = u
  <2> TAKE u \in Users, a \in Accounts
  <2> DEFINE S == {b \in AccountsAtStart \ MainAtStart : ManagerOf[b] = u}
  <2>1. S \in SUBSET Accounts /\ IsFiniteSet(S)
    BY ContactsAssumption, FS_Subset
  <2>2. queue[u] = SetToSeq(S)
    BY DEF Init
  <2> QED BY <2>1, <2>2, FirstQueue
<1>2. QueueOwn
  BY <1>1 DEF Init, QueueOwn, FirstRow
<1> QED BY <1>2 DEF Init, Senders, OnAccount, Places, Served, Home, WrongMoved, SameSender, InHand

\* Nothing but counters, flags and the thread's place change.
LEMMA SendersStay ==
    ASSUME Types, Senders,
           UNCHANGED <<queue, cons, con, owner, from, moved>>, accs \subseteq accs',
           ~raced' => ~raced /\ \A a \in Accounts : acc'[a].owner = acc[a].owner /\ acc'[a].main = acc[a].main,
           \A u \in Users : list'[u] \subseteq list[u],
           rids' = {} \/ UNCHANGED <<rids, su>>,
           pc' # "wrong" \/ (pc = "wrong" /\ fixing' \subseteq fixing),
           pc' # "send" \/ UNCHANGED <<pc, hand>>
    PROVE  Senders'
<1> USE DEF Senders
<1>1. \A c \in cons : con[c] \in Contact /\ con[c].acc \in Accounts
  BY DEF Types, Inv, RowsReal, Contact
<1>2. OnAccount' /\ Served'
  BY DEF OnAccount, Served
<1>3. Places'
  BY DEF Places
<1>4. Home'
  BY <1>1 DEF Home
<1>5. WrongMoved' /\ SameSender'
  BY DEF WrongMoved, SameSender
<1>6. QueueOwn'
  BY DEF QueueOwn
<1>7. InHand'
  BY DEF InHand
<1> QED BY <1>2, <1>3, <1>4, <1>5, <1>6, <1>7

\* A full save of an account that undoes nothing.
LEMMA SaveAccountKeeps ==
    ASSUME Types, NEW a \in given, NEW row \in Account, SaveAccount(a, row),
           row.owner = copy[a].owner, row.main = copy[a].main
    PROVE  /\ accs \subseteq accs'
           /\ ~raced' => /\ ~raced
                         /\ \A b \in Accounts : acc'[b].owner = acc[b].owner /\ acc'[b].main = acc[b].main
<1>1. a \in Accounts /\ acc[a] \in Account /\ copy[a] \in Account
  BY DEF Types, TablesType, ThreadType
<1>2. ~raced' => ~raced /\ [acc[a] EXCEPT !.count = copy[a].count] = copy[a]
  BY DEF SaveAccount, Older, Types, HistoryType
<1>3. ~raced' => acc[a].owner = copy[a].owner /\ acc[a].main = copy[a].main
  <2>1. /\ [acc[a] EXCEPT !.count = copy[a].count].owner = acc[a].owner
        /\ [acc[a] EXCEPT !.count = copy[a].count].main = acc[a].main
    BY <1>1 DEF Account
  <2> QED BY <1>2, <2>1
<1> QED BY <1>1, <1>2, <1>3 DEF SaveAccount, Types, TablesType

LEMMA SendSenders == ASSUME Types, Senders, Send \/ StartRound \/ EndRound \/ Crash \/ NewDay PROVE Senders'
<1>0. raced \in BOOLEAN
  BY DEF Types, HistoryType
<1>1. CASE LoadAccounts
  BY <1>1, SendersStay DEF LoadAccounts, accounts, rows, line, people, history
<1>2. ASSUME NEW a \in Accounts, Skip(a) PROVE Senders'
  BY <1>2, SendersStay DEF Skip, accounts, rows, line, people, history
<1>3. ASSUME NEW a \in Accounts, CounterIncrement(a) PROVE Senders'
  <2> DEFINE row == [copy[a] EXCEPT !.count = @ + 1, !.date = today]
  <2>0. a \in given /\ today \in Int
    BY <1>3 DEF CounterIncrement, Types, ThreadType, Holds
  <2>a. copy[a] \in Account
    BY DEF Types, ThreadType
  <2>1. a \in given /\ today \in Int /\ copy[a] \in Account /\ copy[a].count + 1 \in Nat
    BY <2>0, <2>a DEF Account
  <2>2. [copy[a] EXCEPT !.count = copy[a].count + 1, !.date = today] \in Account
    BY <2>1, RowCountType
  <2>3. row \in Account /\ row.owner = copy[a].owner /\ row.main = copy[a].main
    BY <2>1, <2>2 DEF Account
  <2>4. SaveAccount(a, row) /\ pc' = "accounts"
        /\ UNCHANGED <<rows, line, people, rids, su, history>>
    BY <1>3 DEF CounterIncrement
  <2> HIDE DEF row
  <2>5. /\ accs \subseteq accs'
        /\ ~raced' => /\ ~raced
                      /\ \A b \in Accounts : acc'[b].owner = acc[b].owner /\ acc'[b].main = acc[b].main
    BY <2>1, <2>3, <2>4, SaveAccountKeeps
  <2> QED BY <2>4, <2>5, SendersStay DEF rows, line, people, history
<1>4. ASSUME NEW a \in Accounts, NEW r \in Recipients, SendError(a, r) PROVE Senders'
  <2>1. a \in given /\ su \in Users /\ copy[a] \in Account
    BY <1>4 DEF SendError, Types, ThreadType, Holds
  <2>2. /\ accs \subseteq accs'
        /\ ~raced' => /\ ~raced
                      /\ \A b \in Accounts : acc'[b].owner = acc[b].owner /\ acc'[b].main = acc[b].main
    <3>1. CASE UNCHANGED <<accounts, raced>>
      BY <3>1 DEF accounts
    <3>2. CASE SaveAccount(a, [copy[a] EXCEPT !.massmail = FALSE])
      <4>1. /\ [copy[a] EXCEPT !.massmail = FALSE] \in Account
            /\ [copy[a] EXCEPT !.massmail = FALSE].owner = copy[a].owner
            /\ [copy[a] EXCEPT !.massmail = FALSE].main = copy[a].main
        BY <2>1 DEF Account
      <4> QED BY <2>1, <3>2, <4>1, SaveAccountKeeps
    <3> QED BY <1>4, <3>1, <3>2 DEF SendError
  <2>3. \A u \in Users : list'[u] \subseteq list[u]
    BY <1>4 DEF SendError, Types, TablesType
  <2> QED BY <1>4, <2>2, <2>3, SendersStay DEF SendError, rows, line, history
<1>5. ASSUME NEW a \in Accounts, NEW r \in Recipients, Deliver(a, r) PROVE Senders'
  <2>1. /\ pc = "send" /\ hand[1] = a /\ hand[2] = r /\ pc' = "count"
        /\ UNCHANGED <<accs, acc, queue, cons, con, owner, rids, su, moved, raced>>
        /\ from' = [from EXCEPT ![r] = a]
    BY <1>5 DEF Deliver, accounts, line, rows
  <2>2. \A u \in Users : list'[u] \subseteq list[u]
    BY <1>5 DEF Deliver, Types, TablesType
  <2>3. \A q \in Recipients \ {r} : from'[q] = from[q]
    BY <2>1 DEF Types, HistoryType
  <2>4. from'[r] = a
    BY <2>1 DEF Types, HistoryType
  <2>5. Served'
    BY <2>1, <2>3 DEF Senders, Served, InHand
  <2>6. SameSender'
    <3> SUFFICES ASSUME ~raced, NEW d \in cons, from'[con[d].rcpt] # None, con[d].rcpt \notin moved
                 PROVE  con[d].acc = from'[con[d].rcpt]
      BY <2>1 DEF SameSender
    <3>1. con[d].rcpt \in Recipients
      BY DEF Types, Inv, RowsReal, Contact
    <3>2. CASE con[d].rcpt = r
      BY <2>1, <2>4, <3>2 DEF Senders, InHand
    <3>3. CASE con[d].rcpt # r
      BY <2>3, <3>1, <3>3 DEF Senders, SameSender
    <3> QED BY <3>2, <3>3
  <2>7. OnAccount' /\ Places'
    BY <2>1, <2>2 DEF Senders, OnAccount, Places
  <2>8. Home' /\ WrongMoved' /\ QueueOwn' /\ InHand'
    BY <2>1 DEF Senders, Home, WrongMoved, QueueOwn, InHand
  <2> QED BY <2>5, <2>6, <2>7, <2>8 DEF Senders
<1>8. ASSUME NEW a \in Accounts, NEW c \in Contacts, Pick(a, c) PROVE Senders'
  <2>1. /\ c \in cons /\ con[c].acc = a /\ hand'[1] = a /\ hand'[2] = con[c].rcpt /\ pc' = "send"
        /\ UNCHANGED <<accs, acc, queue, cons, con, owner, list, rids, su, moved, from, raced>>
    BY <1>8 DEF Pick, GetMassContact, accounts, line, rows, people
  <2>2. InHand'
    BY <2>1 DEF InHand, Types, Inv, OneEach
  <2> QED BY <2>1, <2>2 DEF Senders, OnAccount, Places, Served, Home, WrongMoved, QueueOwn, SameSender, InHand
<1>6. CASE EndMailing \/ StartRound \/ NewDay
  BY <1>6, SendersStay DEF EndMailing, StartRound, NewDay, accounts, rows, line, people, history, thread
<1>7. CASE EndRound \/ Crash
  BY <1>7, <1>0, SendersStay DEF EndRound, Crash, Forget, accounts, rows, line, people, history
<1> QED BY <1>1, <1>2, <1>3, <1>4, <1>5, <1>6, <1>7, <1>8 DEF Send

\* The thread takes the next account for a recipient.
LEMMA NextAccount ==
    ASSUME Types, Senders, su \in Users, sq # <<>>, TakeNext, ~raced'
    PROVE  /\ ~raced /\ queue' = [queue EXCEPT ![su] = GetNext(queue[su])]
           /\ queue[su] = sq /\ su \in queues
           /\ Head(sq) \in Accounts /\ acc[Head(sq)].owner = su
<1>1. ~raced /\ queue[su] = sq /\ su \in queues
  BY DEF TakeNext, Types, HistoryType
<1>2. Head(sq) \in Accounts /\ Contains(queue[su], Head(sq))
  BY <1>1, GetNextList DEF Types, ThreadType
<1> QED BY <1>1, <1>2 DEF TakeNext, Senders, QueueOwn

LEMMA TakenOwn ==
    ASSUME Types, Senders, su \in Users, sq # <<>>, TakeNext, UNCHANGED accounts
    PROVE  QueueOwn'
<1> SUFFICES ASSUME ~raced', NEW u \in Users, NEW a \in Accounts, Contains(queue'[u], a)
             PROVE  a \in accs /\ acc[a].owner = u /\ ~acc[a].main
  BY DEF QueueOwn, accounts
<1>1. ~raced /\ queue' = [queue EXCEPT ![su] = GetNext(queue[su])] /\ queue[su] = sq
  BY NextAccount
<1>2. queue \in [Users -> Seq(Accounts)]
  BY DEF Types, TablesType
<1>3. Contains(queue[u], a)
  BY <1>1, <1>2, GetNextList
<1> QED BY <1>1, <1>3 DEF Senders, QueueOwn

LEMMA FixSenders == ASSUME Types, Senders, Fix PROVE Senders'
<1>1. ASSUME NEW u \in Users, BeginMailing(u) PROVE Senders'
  <2>1. UNCHANGED <<accs, acc, cons, con, queue, owner, list, from, moved, raced>>
    BY <1>1 DEF BeginMailing, accounts, rows, line, people, history
  <2>2. CASE Forget
    BY <2>1, <2>2, SendersStay DEF Forget
  <2>3. CASE pc' = "wrong" /\ su' = u /\ rids' = list[u] /\ fixing' = Wrong(u, list[u])
    <3>1. Places'
      BY <2>1, <2>3 DEF Senders, Places
    <3>2. WrongMoved'
      BY <2>1, <2>3 DEF Senders, WrongMoved, Wrong, Home, Places
    <3>3. InHand'
      BY <2>3 DEF InHand
    <3> QED BY <2>1, <3>1, <3>2, <3>3 DEF Senders, OnAccount, Served, Home, QueueOwn, SameSender
  <2> QED BY <1>1, <2>2, <2>3 DEF BeginMailing
<1>2. ASSUME NEW c \in Contacts, FixWrong(c) PROVE Senders'
  <2>1. su \in Users /\ pc = "wrong" /\ c \in fixing
    BY <1>2 DEF FixWrong, Types, Holds
  <2>2. UNCHANGED <<accs, acc, cons, owner, list, from, moved>> /\ fixing' \subseteq fixing
        /\ (rids' = {} \/ UNCHANGED <<rids, su>>) /\ pc' \in {"wrong", "idle"}
    BY <1>2 DEF FixWrong, accounts, people, history, Fixed, Forget
  <2>3. CASE sq = <<>>
    BY <1>2, <2>2, <2>3, SendersStay DEF FixWrong, Fixed, line
  <2>4. CASE sq # <<>>
    <3>1. TakeNext /\ UNCHANGED accounts
      BY <1>2, <2>4 DEF FixWrong
    <3>2. QueueOwn'
      BY <2>1, <2>4, <3>1, TakenOwn
    <3>3. raced => raced'
      BY <3>1 DEF TakeNext
    <3>4. \/ UNCHANGED con
          \/ /\ c \in cons /\ Head(sq) \in accs
             /\ con' = [con EXCEPT ![c].acc = Head(sq)]
      BY <1>2, <2>4 DEF FixWrong
    <3>5. con[c] \in Contact => \A a : /\ [con[c] EXCEPT !.acc = a].acc = a
                                       /\ [con[c] EXCEPT !.acc = a].rcpt = con[c].rcpt
      BY DEF Contact
    <3>6. \A d \in cons : /\ con'[d].rcpt = con[d].rcpt
                          /\ con'[d].acc = con[d].acc \/ (d = c /\ con'[d].acc \in accs)
      <4>1. CASE UNCHANGED con
        BY <4>1
      <4>2. CASE /\ c \in cons /\ Head(sq) \in accs
                 /\ con' = [con EXCEPT ![c].acc = Head(sq)]
        <5>1. /\ con'[c] = [con[c] EXCEPT !.acc = Head(sq)]
              /\ \A d \in cons \ {c} : con'[d] = con[d]
          BY <4>2 DEF Types, Inv, RowsReal
        <5>2. con[c] \in Contact
          BY <4>2 DEF Types, Inv, RowsReal
        <5> QED BY <3>5, <4>2, <5>1, <5>2
      <4> QED BY <3>4, <4>1, <4>2
    <3>7. OnAccount' /\ Served' /\ Places'
      BY <2>2, <3>6 DEF Senders, OnAccount, Served, Places
    <3>8. ~raced' => WrongMoved /\ ~raced /\ \A d \in cons : con[d].rcpt \notin moved => con'[d].acc = con[d].acc
      BY <2>1, <3>3, <3>6 DEF Senders, WrongMoved
    <3>9. Home' /\ SameSender'
      BY <2>2, <3>6, <3>8 DEF Senders, Home, SameSender
    <3>10. WrongMoved' /\ InHand'
      BY <2>1, <2>2, <3>6, <3>8 DEF WrongMoved, InHand
    <3> QED BY <3>2, <3>7, <3>9, <3>10 DEF Senders
  <2> QED BY <2>3, <2>4
<1>3. CASE AfterWrong
  <2>1. UNCHANGED <<accs, acc, cons, con, queue, owner, list, from, moved, raced>>
    BY <1>3 DEF AfterWrong, accounts, rows, line, people, history
  <2>2. pc' \in {"missing", "idle"} /\ (rids' = {} \/ UNCHANGED <<rids, su>>)
    BY <1>3 DEF AfterWrong, Forget
  <2> QED BY <2>1, <2>2, SendersStay
<1>4. ASSUME NEW r \in Recipients, FixMissing(r) PROVE Senders'
  <2>1. su \in Users /\ pc = "missing" /\ r \in fixing /\ r \in rids
    BY <1>4 DEF FixMissing, Types, Holds
  <2>2. UNCHANGED <<accs, acc, owner, list, from, moved>>
        /\ (rids' = {} \/ UNCHANGED <<rids, su>>) /\ pc' \in {"missing", "idle"}
    BY <1>4 DEF FixMissing, accounts, people, history, Fixed, Forget
  <2>3. CASE sq = <<>>
    BY <1>4, <2>2, <2>3, SendersStay DEF FixMissing, Fixed, line, rows
  <2>4. CASE sq # <<>>
    <3>1. TakeNext /\ UNCHANGED accounts
      BY <1>4, <2>4 DEF FixMissing
    <3>2. QueueOwn'
      BY <2>1, <2>4, <3>1, TakenOwn
    <3>3. raced => raced'
      BY <3>1 DEF TakeNext
    <3>4. CASE UNCHANGED rows
      BY <2>2, <3>2, <3>3, <3>4 DEF rows, Senders, OnAccount, Served, Places, Home, SameSender, WrongMoved, InHand
    <3>5. ASSUME NEW c \in Contacts, Head(sq) \in accs, Create(c, r, Head(sq)) PROVE Senders'
      <4> DEFINE a == Head(sq)
      <4>1. /\ cons' = cons \cup {c} /\ c \notin cons /\ con'[c].rcpt = r /\ con'[c].acc = a
            /\ \A d \in cons : con'[d] = con[d]
        BY <3>5 DEF Types, Inv, RowsReal, Create
      <4>2. r \in moved \/ (from[r] = None /\ owner[r] = su)
        <5>1. r \in moved \/ \A d \in cons : con[d].rcpt # r
          BY <2>1 DEF Types, Inv, MissingStill
        <5> QED BY <2>1, <5>1 DEF Senders, Served, Places
      <4>3. ~raced' => ~raced /\ acc[a].owner = su
        BY <2>1, <2>4, <3>1, NextAccount
      <4> HIDE DEF a
      <4>4. OnAccount'
        BY <2>2, <3>5, <4>1 DEF Senders, OnAccount, a
      <4>5. Served' /\ Places'
        BY <2>2, <4>1 DEF Senders, Served, Places
      <4>6. Home' /\ SameSender'
        BY <2>2, <4>1, <4>2, <4>3 DEF Senders, Home, SameSender
      <4>7. WrongMoved' /\ InHand'
        BY <2>2 DEF WrongMoved, InHand
      <4> QED BY <3>2, <4>4, <4>5, <4>6, <4>7 DEF Senders
    <3> QED BY <1>4, <2>4, <3>4, <3>5 DEF FixMissing
  <2> QED BY <2>3, <2>4
<1> QED BY <1>1, <1>2, <1>3, <1>4 DEF Fix

\* A manager without a queue has an empty one.
OnlyQueued == \A u \in Users \ queues : queue[u] = <<>>

LEMMA OnlyQueuedStep == ASSUME Types, OnlyQueued, [Next]_vars PROVE OnlyQueued'
<1> USE DEF OnlyQueued
<1>a. queue \in [Users -> Seq(Accounts)] /\ \A a : RemoveId(<<>>, a) = <<>>
  BY DEF Types, TablesType, RemoveId, Contains
<1>b. ASSUME UNCHANGED line PROVE OnlyQueued'
  BY <1>b DEF line
<1>c. ASSUME su \in Users, TakeNext PROVE OnlyQueued'
  BY <1>a, <1>c DEF TakeNext
<1>1. CASE Fix
  BY <1>1, <1>b, <1>c DEF Fix, BeginMailing, FixWrong, AfterWrong, FixMissing, Types, Holds
<1>2. CASE Send \/ StartRound \/ EndRound \/ Crash \/ NewDay
  BY <1>2, <1>b DEF Send, LoadAccounts, Skip, CounterIncrement, Pick, Deliver, SendError, EndMailing, StartRound,
     EndRound, Crash, NewDay
<1>3. ASSUME NEW a \in Accounts, NEW u \in Users, NEW b \in BOOLEAN, NEW m \in BOOLEAN,
             ChangeAccount(a, u, b, m)
      PROVE  OnlyQueued'
  <2> DEFINE new == [acc[a] EXCEPT !.owner = u, !.main = b, !.massmail = m]
  <2>1. new.owner = u
    BY DEF Types, TablesType, Account
  <2>2. queues' = queues \cup {u} /\ queue' = QueueAfterSave(a, acc[a], new)
    BY <1>3 DEF ChangeAccount
  <2> HIDE DEF new
  <2>3. \A v \in Users \ {u} : queue'[v] \in {queue[v], RemoveId(queue[v], a)}
    BY <1>a, <2>1, <2>2 DEF QueueAfterSave
  <2> QED BY <1>a, <2>2, <2>3
<1>4. ASSUME NEW a \in Accounts, NEW m \in BOOLEAN, AddAccount(a, m) PROVE OnlyQueued'
  BY <1>4, <1>a DEF AddAccount
<1>5. ASSUME NEW a \in Accounts, DeleteAccount(a) PROVE OnlyQueued'
  BY <1>5, <1>a DEF DeleteAccount
<1>6. ASSUME NEW r \in Recipients, NEW u \in Users, ChangeMassConts(r, u) PROVE OnlyQueued'
  BY <1>6, <1>a DEF ChangeMassConts
<1>7. ASSUME \/ \E r \in Recipients : SpecifyVip(r)
             \/ \E r \in Recipients, u \in Users : Enlist(u, r)
             \/ \E c \in Contacts : Unsubscribe(c)
      PROVE  OnlyQueued'
  BY <1>7, <1>b DEF SpecifyVip, Enlist, Unsubscribe
<1>8. CASE UNCHANGED vars
  BY <1>8, <1>b DEF vars
<1> QED BY <1>1, <1>2, <1>3, <1>4, <1>5, <1>6, <1>7, <1>8 DEF Next, Sender, Web

LEMMA WebSenders == ASSUME Types, QueuesOnce, OnlyQueued, Senders, Web PROVE Senders'
<1> USE DEF Request, thread
<1>a. queue \in [Users -> Seq(Accounts)] /\ accs \subseteq Accounts /\ con \in [Contacts -> Contact \cup {NoContact}]
  BY DEF Types, TablesType, Inv, RowsReal
<1>b. \A c \in cons : con[c] \in Contact /\ con[c].rcpt \in Recipients /\ con[c].acc \in accs /\ c \in Contacts
  BY DEF Types, Inv, RowsReal, Contact, Senders, OnAccount
<1>1. ASSUME NEW a \in Accounts, NEW u \in Users, NEW b \in BOOLEAN, NEW m \in BOOLEAN,
             ChangeAccount(a, u, b, m)
      PROVE  Senders'
  <2> DEFINE new == [acc[a] EXCEPT !.owner = u, !.main = b, !.massmail = m]
             added == IF new.massmail /\ ~new.main
                      THEN [queue EXCEPT ![new.owner] = AddId(@, a)] ELSE queue
             demoted == IF new.main /\ ~acc[a].main
                        THEN [added EXCEPT ![new.owner] = RemoveId(@, a)] ELSE added
  <2>1. new.owner = u /\ new.main = b /\ new.massmail = m
    BY DEF Types, TablesType, Account
  <2>2. /\ a \in accs /\ UNCHANGED <<accs, cons, con, owner, list, from, raced, rids, su, pc, fixing, hand>>
        /\ acc' = [acc EXCEPT ![a] = new]
        /\ queue' = IF acc[a].owner # u THEN [v \in Users |-> RemoveId(demoted[v], a)] ELSE demoted
        /\ moved' = IF u = acc[a].owner THEN moved ELSE moved \cup {con[c].rcpt : c \in {k \in cons : con[k].acc = a}}
    BY <1>1, <2>1 DEF ChangeAccount, QueueAfterSave, rows, people
  <2>3. acc' = [acc EXCEPT ![a] = new] /\ acc'[a] = new /\ \A x \in Accounts \ {a} : acc'[x] = acc[x]
    BY <2>2 DEF Types, TablesType
  <2> HIDE DEF new
  <2>4. /\ added \in [Users -> Seq(Accounts)]
        /\ \A v \in Users, x \in Accounts :
              Contains(added[v], x) => Contains(queue[v], x) \/ (x = a /\ v = u /\ m /\ ~b)
        /\ \A v \in Users : IsInjective(added[v])
    BY <1>a, <2>1, AddIdList DEF QueuesOnce, QueueDistinct
  <2> HIDE DEF added
  <2>5. /\ demoted \in [Users -> Seq(Accounts)]
        /\ \A v \in Users, x \in Accounts : Contains(demoted[v], x) => Contains(added[v], x)
        /\ \A v \in Users : IsInjective(demoted[v])
    BY <2>1, <2>4, RemoveIdList
  <2>6. b /\ ~acc[a].main => demoted[u] = RemoveId(added[u], a)
    BY <2>1, <2>4
  <2> HIDE DEF demoted
  <2>7. QueueOwn'
    <3> SUFFICES ASSUME ~raced, NEW v \in Users, NEW x \in Accounts, Contains(queue'[v], x)
                 PROVE  x \in accs /\ acc'[x].owner = v /\ ~acc'[x].main
      BY <2>2 DEF QueueOwn
    <3>1. Contains(demoted[v], x) /\ (acc[a].owner # u => x # a)
      BY <2>2, <2>5, RemoveIdList
    <3>2. Contains(queue[v], x) \/ (x = a /\ v = u /\ m /\ ~b)
      BY <2>4, <2>5, <3>1
    <3>3. CASE x # a
      BY <2>3, <3>2, <3>3 DEF Senders, QueueOwn
    <3>4. CASE x = a /\ acc[a].owner = u
      <4>1. v = u /\ (~b \/ ~acc[a].main)
        BY <3>2, <3>4 DEF Senders, QueueOwn
      <4>2. b => ~Contains(demoted[u], a)
        BY <2>4, <2>6, <4>1, RemoveIdList
      <4> QED BY <2>1, <2>2, <2>3, <3>1, <3>4, <4>1, <4>2
    <3>5. CASE x = a /\ acc[a].owner # u
      BY <3>1, <3>5
    <3> QED BY <3>3, <3>4, <3>5
  <2>8. OnAccount' /\ Places' /\ Served' /\ WrongMoved' /\ SameSender' /\ InHand'
    BY <2>2 DEF Senders, OnAccount, Places, Served, WrongMoved, SameSender, InHand
  <2>9. Home'
    BY <1>b, <2>1, <2>2, <2>3 DEF Senders, Home
  <2> QED BY <2>7, <2>8, <2>9 DEF Senders
<1>2. ASSUME NEW a \in Accounts, NEW m \in BOOLEAN, AddAccount(a, m) PROVE Senders'
  <2> DEFINE row == [FirstRow(a) EXCEPT !.massmail = m]
  <2>1. /\ a \notin accs /\ accs' = accs \cup {a} /\ acc' = [acc EXCEPT ![a] = row]
        /\ UNCHANGED <<cons, con, owner, list, from, moved, raced, rids, su, pc, fixing, hand>>
        /\ queue' = IF m /\ a \notin MainAtStart
                    THEN [queue EXCEPT ![ManagerOf[a]] = AddId(@, a)] ELSE queue
    BY <1>2 DEF AddAccount, Types, TablesType, rows, people, history
  <2>2. row.owner = ManagerOf[a] /\ row.main = (a \in MainAtStart) /\ ManagerOf[a] \in Users
    BY ContactsAssumption DEF FirstRow
  <2> HIDE DEF row
  <2>3. acc'[a] = row /\ \A x \in Accounts \ {a} : acc'[x] = acc[x]
    BY <2>1 DEF Types, TablesType
  <2>4. \A v \in Users, x \in Accounts :
           Contains(queue'[v], x) => Contains(queue[v], x) \/ (x = a /\ v = ManagerOf[a] /\ a \notin MainAtStart)
    BY <1>a, <2>1, <2>2, AddIdList
  <2>5. QueueOwn'
    <3> SUFFICES ASSUME ~raced, NEW v \in Users, NEW x \in Accounts, Contains(queue'[v], x)
                 PROVE  x \in accs' /\ acc'[x].owner = v /\ ~acc'[x].main
      BY <2>1 DEF QueueOwn
    <3>1. CASE Contains(queue[v], x)
      <4>1. x \in accs /\ acc[x].owner = v /\ ~acc[x].main
        BY <3>1 DEF Senders, QueueOwn
      <4> QED BY <2>1, <2>3, <4>1
    <3>2. CASE x = a /\ v = ManagerOf[a] /\ a \notin MainAtStart
      BY <2>1, <2>2, <2>3, <3>2
    <3> QED BY <2>4, <3>1, <3>2
  <2>6. Home'
    BY <1>a, <1>b, <2>1, <2>3 DEF Senders, Home
  <2> QED BY <2>1, <2>5, <2>6 DEF Senders, OnAccount, Places, Served, WrongMoved, SameSender, InHand
<1>3. ASSUME NEW a \in Accounts, DeleteAccount(a) PROVE Senders'
  <2>1. /\ accs' = accs \ {a} /\ UNCHANGED <<acc, owner, list, from, rids, su, pc, fixing, hand>>
        /\ cons' = {c \in cons : con[c].acc # a}
        /\ \A c \in cons' : con'[c] = con[c]
        /\ moved' = moved \cup {con[c].rcpt : c \in cons \ cons'}
    BY <1>b, <1>3 DEF DeleteAccount, Cascade, people
  <2>2. QueueOwn' /\ (raced => raced')
    <3>1. CASE raced' = TRUE
      BY <3>1 DEF QueueOwn
    <3>2. CASE raced' = raced /\ queue' = IF acc[a].owner \in queues
                              THEN [queue EXCEPT ![acc[a].owner] = RemoveId(@, a)] ELSE queue
      <4> SUFFICES ASSUME ~raced, NEW v \in Users, NEW x \in Accounts, Contains(queue'[v], x)
                   PROVE  x \in accs \ {a} /\ acc[x].owner = v /\ ~acc[x].main
        BY <2>1, <3>2 DEF QueueOwn
      <4>1. Contains(queue[v], x)
        BY <1>a, <3>2, RemoveIdList
      <4>2. x \in accs /\ acc[x].owner = v /\ ~acc[x].main
        BY <3>2, <4>1 DEF Senders, QueueOwn
      <4>3. IsInjective(queue[v]) /\ v \in queues
        BY <4>1 DEF QueuesOnce, QueueDistinct, OnlyQueued, Contains
      <4>4. x = a => queue'[v] = RemoveId(queue[v], a)
        BY <1>a, <3>2, <4>2, <4>3
      <4>5. x # a
        BY <1>a, <4>3, <4>4, RemoveIdList
      <4> QED BY <4>2, <4>5
    <3> QED BY <1>3, <3>1, <3>2 DEF DeleteAccount
  <2>3. OnAccount' /\ Places'
    BY <2>1 DEF Senders, OnAccount, Places
  <2>4. Served' /\ InHand'
    BY <2>1 DEF Senders, Served, InHand
  <2>5. Home' /\ WrongMoved' /\ SameSender'
    BY <2>1, <2>2 DEF Senders, Home, WrongMoved, SameSender
  <2> QED BY <2>2, <2>3, <2>4, <2>5 DEF Senders
<1>4. ASSUME NEW r \in Recipients, SpecifyVip(r) PROVE Senders'
  <2>1. PICK a \in accs :
         IF ContactsOf(r) # {}
         THEN /\ con' = [c \in Contacts |-> IF c \in ContactsOf(r) THEN [con[c] EXCEPT !.acc = a] ELSE con[c]]
              /\ UNCHANGED <<cons, made>>
         ELSE \E c \in Contacts : Create(c, r, a)
    BY <1>4 DEF SpecifyVip
  <2>2. moved' = moved \cup {r}
        /\ UNCHANGED <<accs, acc, queue, owner, list, from, raced, rids, su, pc, fixing, hand>>
    BY <1>4 DEF SpecifyVip, accounts, line, people
  <2>3. /\ cons \subseteq cons' /\ \A c \in cons : con'[c].rcpt = con[c].rcpt
        /\ \A c \in cons : con[c].rcpt # r => con'[c].acc = con[c].acc
        /\ \A c \in cons' : con'[c].acc = a \/ (c \in cons /\ con'[c].acc = con[c].acc)
        /\ \A c \in cons' \ cons : con'[c].rcpt = r
    <3>1. \A c \in cons : [con[c] EXCEPT !.acc = a].rcpt = con[c].rcpt /\ [con[c] EXCEPT !.acc = a].acc = a
      BY <1>b DEF Contact
    <3>2. CASE ContactsOf(r) # {}
      BY <1>b, <2>1, <3>1, <3>2 DEF ContactsOf
    <3>3. CASE ContactsOf(r) = {}
      BY <1>b, <2>1, <3>3 DEF Create, Types, Inv, RowsReal
    <3> QED BY <3>2, <3>3
  <2>4. OnAccount'
    BY <1>b, <2>1, <2>2, <2>3 DEF OnAccount
  <2>5. Places' /\ Served' /\ QueueOwn'
    BY <2>2, <2>3 DEF Senders, Places, Served, QueueOwn
  <2>6. Home' /\ SameSender' /\ WrongMoved'
    <3>1. \A c \in cons' : con'[c].rcpt \notin moved' =>
             c \in cons /\ con'[c].rcpt = con[c].rcpt /\ con[c].rcpt \notin moved /\ con'[c].acc = con[c].acc
      BY <2>2, <2>3
    <3>2. \A c \in fixing \cap cons' : pc = "wrong" => c \in cons
      BY <2>1, <2>2 DEF Types, Holds, Create
    <3> QED BY <2>2, <2>3, <3>1, <3>2 DEF Senders, Home, SameSender, WrongMoved
  <2>7. InHand'
    BY <2>2, <2>3 DEF Senders, InHand
  <2> QED BY <2>4, <2>5, <2>6, <2>7 DEF Senders
<1>5. ASSUME NEW r \in Recipients, NEW u \in Users, ChangeMassConts(r, u) PROVE Senders'
  <2>1. /\ moved' = moved \cup {r} /\ owner' = [owner EXCEPT ![r] = u]
        /\ UNCHANGED <<accs, acc, list, from, raced, rids, su, pc, fixing, hand>>
    BY <1>5 DEF ChangeMassConts, accounts
  <2>2. /\ cons' \subseteq cons /\ \A c \in cons' : con'[c].rcpt = con[c].rcpt
        /\ \A c \in cons : con[c].rcpt # r => c \in cons' /\ con'[c] = con[c]
        /\ \A c \in cons' : con'[c].acc \in accs
        /\ \A v \in Users, x \in Accounts : Contains(queue'[v], x) => Contains(queue[v], x)
    <3>1. CASE u \in queues /\ queue[u] # <<>>
      <4> DEFINE a == Head(queue[u])
      <4>1. /\ a \in accs /\ UNCHANGED cons /\ queue' = [queue EXCEPT ![u] = GetNext(@)]
            /\ con' = [c \in Contacts |-> IF c \in ContactsOf(r) THEN [con[c] EXCEPT !.acc = a] ELSE con[c]]
        BY <1>5, <3>1 DEF ChangeMassConts
      <4> HIDE DEF a
      <4>2. \A c \in cons : [con[c] EXCEPT !.acc = a].rcpt = con[c].rcpt /\ [con[c] EXCEPT !.acc = a].acc = a
        BY <1>b DEF Contact
      <4>3. \A v \in Users, x \in Accounts : Contains(queue'[v], x) => Contains(queue[v], x)
        BY <1>a, <3>1, <4>1, GetNextList
      <4> QED BY <1>b, <4>1, <4>2, <4>3 DEF ContactsOf
    <3>2. CASE ~(u \in queues /\ queue[u] # <<>>)
      BY <1>5, <1>b, <3>2 DEF ChangeMassConts, ContactsOf
    <3> QED BY <3>1, <3>2
  <2>3. \A q \in Recipients \ {r} : owner'[q] = owner[q]
    BY <2>1 DEF Types, TablesType
  <2>4. OnAccount' /\ QueueOwn'
    BY <2>1, <2>2 DEF Senders, OnAccount, QueueOwn
  <2>5. Served' /\ InHand'
    BY <2>1, <2>2 DEF Senders, Served, InHand
  <2>6. Places'
    BY <2>1, <2>3 DEF Senders, Places, Types, TablesType, ThreadType
  <2>7. Home' /\ SameSender' /\ WrongMoved'
    <3>1. \A c \in cons' : con'[c].rcpt \notin moved' =>
             /\ c \in cons /\ con'[c] = con[c] /\ con[c].rcpt \notin moved
             /\ owner'[con[c].rcpt] = owner[con[c].rcpt]
      BY <1>b, <2>1, <2>2, <2>3
    <3> QED BY <2>1, <2>2, <3>1 DEF Senders, Home, SameSender, WrongMoved
  <2> QED BY <2>4, <2>5, <2>6, <2>7 DEF Senders
<1>6. ASSUME NEW r \in Recipients, NEW u \in Users, Enlist(u, r) PROVE Senders'
  <2>1. owner[r] = u /\ list' = [list EXCEPT ![u] = @ \cup {r}]
        /\ UNCHANGED <<accs, acc, queue, cons, con, owner, from, moved, raced, rids, su, pc, fixing, hand>>
    BY <1>6 DEF Enlist, accounts, rows, line, history
  <2>2. Places'
    BY <2>1 DEF Senders, Places, Types, TablesType
  <2> QED BY <2>1, <2>2 DEF Senders, OnAccount, Served, Home, WrongMoved, QueueOwn, SameSender, InHand
<1>7. ASSUME NEW c \in Contacts, Unsubscribe(c) PROVE Senders'
  <2>1. /\ con' = [con EXCEPT ![c].massmail = FALSE]
        /\ UNCHANGED <<accs, acc, queue, cons, owner, list, from, moved, raced, rids, su, pc, fixing, hand>>
    BY <1>7 DEF Unsubscribe, accounts, line, people
  <2>2. \A d \in cons : con'[d].rcpt = con[d].rcpt /\ con'[d].acc = con[d].acc
    <3>1. \A d \in cons : /\ [con[d] EXCEPT !.massmail = FALSE].rcpt = con[d].rcpt
                          /\ [con[d] EXCEPT !.massmail = FALSE].acc = con[d].acc
      BY <1>b DEF Contact
    <3> QED BY <1>a, <1>b, <2>1, <3>1
  <2> QED BY <2>1, <2>2 DEF Senders, OnAccount, Places, Served, Home, WrongMoved, QueueOwn, SameSender, InHand
<1> QED BY <1>1, <1>2, <1>3, <1>4, <1>5, <1>6, <1>7 DEF Web

QueueInv == Types /\ QueuesOnce /\ OnlyQueued /\ Senders

LEMMA QueueInvStep == ASSUME QueueInv, [Next]_vars PROVE QueueInv'
<1>1. Types' /\ QueuesOnce' /\ OnlyQueued'
  BY TypesStep, QueuesOnceStep, OnlyQueuedStep DEF QueueInv
<1>2. CASE UNCHANGED vars
  <2>1. UNCHANGED <<accs, acc, queue, cons, con, owner, list, from, moved, raced, rids, su, pc, fixing, hand>>
    BY <1>2 DEF vars, accounts, rows, line, people, thread, history
  <2>2. Senders'
    BY <2>1, SendersStay DEF QueueInv
  <2> QED BY <1>1, <2>2 DEF QueueInv
<1>3. CASE Next
  <2>1. Senders'
    <3>1. CASE Fix
      BY <3>1, FixSenders DEF QueueInv
    <3>2. CASE Send \/ StartRound \/ EndRound \/ Crash \/ NewDay
      BY <3>2, SendSenders DEF QueueInv
    <3>3. CASE Web
      BY <3>3, WebSenders DEF QueueInv
    <3> QED BY <1>3, <3>1, <3>2, <3>3 DEF Next, Sender
  <2> QED BY <1>1, <2>1 DEF QueueInv
<1> QED BY <1>2, <1>3

(* The queues hand out accounts that may be used, each once, and whoever has   *)
(* had a message keeps his sender: for any number of accounts, managers,      *)
(* recipients, rounds and requests (EmlAccountsQueue, EmailAccountAdmin,      *)
(* sendmassmail.py:197-232, change_massconts.py).                             *)
THEOREM QueuesAreSound == Spec => []QueueSound
<1>1. Init => QueueInv
  <2>1. ASSUME Init PROVE OnlyQueued
    <3>1. ASSUME NEW u \in Users \ queues PROVE queue[u] = <<>>
      <4> DEFINE S == {a \in AccountsAtStart \ MainAtStart : ManagerOf[a] = u}
      <4>1. S = {} /\ queue[u] = SetToSeq(S)
        BY <2>1 DEF Init
      <4>2. SetToSeq(S) \in Seq(Accounts) /\ \A b : ~Contains(SetToSeq(S), b)
        BY <4>1, FS_EmptySet, FirstQueue
      <4> HIDE DEF S
      <4> QED BY <4>1, <4>2, GetNextList
    <3> QED BY <3>1 DEF OnlyQueued
  <2> QED BY <2>1, InitTypes, InitQueuesOnce, InitSenders DEF QueueInv
<1>2. Spec => []QueueInv
  BY <1>1, QueueInvStep, PTL DEF Spec
<1>3. QueueInv => QueueSound
  BY TypesOK DEF QueueInv, QueueSound, QueuesOnce, Senders
<1> QED BY <1>2, <1>3, PTL
-----------------------------------------------------------------------------
(* The daily limit.                                                        *)

\* The date the thread has read is the day's, or midnight has come since.
InTime ==
    /\ pc = "idle" => today <= day
    /\ pc # "idle" => today = day \/ today + 1 = day
    /\ pc = "count" => \A a \in fixing : ~OverLimit(a)
    /\ pc = "send" => ~OverLimit(hand[1])
    /\ \A a \in Accounts \ given : real[a] = 0

\* The copies are as old as the rows, or reset.
Dated == ~raced => \A a \in Accounts :
    /\ acc[a].date <= today
    /\ a \in visit => /\ copy[a].date = acc[a].date
                      /\ copy[a].count = IF acc[a].date = today THEN acc[a].count ELSE 0

Told(a) == IF pc = "count" /\ a \in fixing THEN 1 ELSE 0
ToCome(a) == IF pc \in {"wrong", "missing"} \/ (a \in visit /\ a \notin fixing) THEN 1 ELSE 0
Counted(a) == IF acc[a].date = day THEN acc[a].count ELSE 0

\* After midnight a round goes on with one message for each manager at most;
\* otherwise the row has counted every message but those, and the one in hand.
Limits == ~raced => \A a \in Accounts :
    /\ Counted(a) <= EmailsPerDay + 1
    /\ pc # "idle" /\ today < day => real[a] + ToCome(a) <= Cardinality(Users \ round)
    /\ pc = "idle" \/ today = day => real[a] <= Cardinality(Users) + Told(a) + Counted(a)

Days == InTime /\ Dated /\ Limits

LEMMA ManagersLeft ==
    ASSUME Types
    PROVE  /\ Cardinality(Users) \in Nat /\ Cardinality(Users \ round) \in Nat
           /\ Cardinality(Users \ round) <= Cardinality(Users)
           /\ Users \ round # {} => Cardinality(Users \ round) >= 1
           /\ \A u \in round : Cardinality(Users \ (round \ {u})) = Cardinality(Users \ round) + 1
<1>1. IsFiniteSet(Users) /\ Users \ round \in SUBSET Users /\ round \subseteq Users
  BY ContactsAssumption DEF Types, ThreadType
<1>2. IsFiniteSet(Users \ round) /\ Cardinality(Users \ round) <= Cardinality(Users)
  BY <1>1, FS_Subset
<1>3. Cardinality(Users) \in Nat /\ Cardinality(Users \ round) \in Nat
  BY <1>1, <1>2, FS_CardinalityType
<1>4. Users \ round # {} => Cardinality(Users \ round) >= 1
  BY <1>2, <1>3, FS_EmptySet
<1>5. ASSUME NEW u \in round PROVE Cardinality(Users \ (round \ {u})) = Cardinality(Users \ round) + 1
  <2>1. Users \ (round \ {u}) = (Users \ round) \cup {u}
    BY <1>1
  <2> QED BY <1>2, <2>1, FS_AddElement
<1> QED BY <1>2, <1>3, <1>4, <1>5

LEMMA Numbers ==
    ASSUME Types
    PROVE  /\ day \in Nat /\ today \in Nat /\ EmailsPerDay \in Nat /\ raced \in BOOLEAN
           /\ \A a \in Accounts : /\ acc[a] \in Account /\ acc[a].count \in Nat /\ acc[a].date \in Int
                                  /\ copy[a] \in Account /\ copy[a].count \in Nat /\ copy[a].date \in Int
                                  /\ real[a] \in Nat /\ Counted(a) \in Nat
                                  /\ Told(a) \in {0, 1} /\ ToCome(a) \in {0, 1}
<1>1. \A a \in Accounts : acc[a] \in Account /\ copy[a] \in Account /\ real[a] \in Nat
  BY DEF Types, TablesType, ThreadType, HistoryType
<1>2. \A a \in Accounts : acc[a].count \in Nat /\ acc[a].date \in Int /\ copy[a].count \in Nat /\ copy[a].date \in Int
  BY <1>1 DEF Account
<1> QED BY <1>1, <1>2, ContactsAssumption DEF Counted, Told, ToCome, Types, ThreadType, HistoryType

LEMMA InitDays == ASSUME Init PROVE Days
<1>1. Types
  BY InitTypes
<1>2. \A a \in Accounts : acc[a].date = -1 /\ acc[a].count = 0
  BY DEF Init, FirstRow
<1>3. pc = "idle" /\ day = 0 /\ today = 0 /\ visit = {} /\ real = [a \in Accounts |-> 0]
  BY DEF Init
<1> QED BY <1>1, <1>2, <1>3, ManagersLeft, Numbers DEF Days, InTime, Dated, Limits, Counted

\* The rows keep their counts, and the round goes on or ends.
LEMMA DaysStay ==
    ASSUME Types, Types', Days, UNCHANGED <<day, today, real, copy>>, given \subseteq given', visit' \subseteq visit,
           ~raced' => /\ ~raced
                      /\ \A a \in Accounts : Counted(a)' = Counted(a) /\ acc'[a].date = acc[a].date
                      /\ \A a \in visit' : acc'[a].count = acc[a].count,
           pc' = "count" => pc = "count" /\ fixing' = fixing,
           pc' = "send" => IF pc = "send" THEN hand' = hand ELSE ~OverLimit(hand'[1]),
           \/ pc' = "idle" /\ (pc = "count" => raced')
           \/ /\ pc' # "idle" /\ pc # "idle" /\ UNCHANGED round
              /\ ~raced' => \A a \in Accounts : ToCome(a)' <= ToCome(a) /\ Told(a)' = Told(a)
           \/ UNCHANGED <<pc, round, visit, fixing>>
    PROVE  Days'
<1>1. InTime'
  <2>1. day \in Nat /\ today \in Nat
    BY Numbers
  <2>2. (pc' = "idle" => today <= day) /\ (pc' # "idle" => today = day \/ today + 1 = day)
    BY <2>1 DEF Days, InTime
  <2>3. pc' = "count" => \A a \in fixing' : ~OverLimit(a)'
    BY DEF Days, InTime, OverLimit
  <2>4. pc' = "send" => ~OverLimit(hand[1])'
    BY DEF Days, InTime, OverLimit
  <2> QED BY <2>2, <2>3, <2>4 DEF Days, InTime
<1>2. Dated'
  BY DEF Days, Dated, Types, TablesType, ThreadType
<1>3. Limits'
  <2> SUFFICES ASSUME ~raced', NEW a \in Accounts
               PROVE  /\ Counted(a)' <= EmailsPerDay + 1
                      /\ pc' # "idle" /\ today < day => real[a] + ToCome(a)' <= Cardinality(Users \ round')
                      /\ pc' = "idle" \/ today = day => real[a] <= Cardinality(Users) + Told(a)' + Counted(a)'
    BY DEF Limits
  <2>1. /\ Counted(a)' = Counted(a) /\ Counted(a) <= EmailsPerDay + 1
        /\ pc # "idle" /\ today < day => real[a] + ToCome(a) <= Cardinality(Users \ round)
        /\ pc = "idle" \/ today = day => real[a] <= Cardinality(Users) + Told(a) + Counted(a)
    BY DEF Days, Limits
  <2>2. /\ real[a] \in Nat /\ Counted(a) \in Nat /\ Told(a) \in {0, 1} /\ ToCome(a) \in {0, 1}
        /\ Told(a)' \in {0, 1} /\ ToCome(a)' \in {0, 1} /\ day \in Nat /\ today \in Nat
        /\ Cardinality(Users) \in Nat /\ Cardinality(Users \ round) \in Nat
        /\ Cardinality(Users \ round) <= Cardinality(Users)
    BY Numbers, ManagersLeft DEF Told, ToCome
  <2>3. CASE pc' = "idle" /\ (pc = "count" => raced')
    <3>1. pc # "count" => Told(a) = 0 /\ Told(a)' = 0
      BY <2>3 DEF Told
    <3>2. pc = "idle" \/ today = day \/ today < day
      BY <2>2 DEF Days, InTime
    <3> QED BY <2>1, <2>2, <2>3, <3>1, <3>2
  <2>4. CASE pc' # "idle" /\ pc # "idle" /\ UNCHANGED round /\ ToCome(a)' <= ToCome(a) /\ Told(a)' = Told(a)
    BY <2>1, <2>2, <2>4
  <2>5. CASE UNCHANGED <<pc, round, visit, fixing>>
    <3>1. ToCome(a)' = ToCome(a) /\ Told(a)' = Told(a)
      BY <2>5 DEF ToCome, Told
    <3> QED BY <2>1, <2>2, <2>5, <3>1
  <2> QED BY <2>3, <2>4, <2>5
<1> QED BY <1>1, <1>2, <1>3 DEF Days

LEMMA FixDays == ASSUME Types, Types', Days, Fix PROVE Days'
<1>n. day \in Nat /\ today \in Nat /\ raced \in BOOLEAN
  BY Numbers
<1>1. ASSUME NEW u \in Users, BeginMailing(u) PROVE Days'
  <2>1. UNCHANGED <<acc, given, day, today, real, copy, visit, raced>> \/ (visit' = {} /\ UNCHANGED <<acc, given, day, today, real, copy, raced>>)
    BY <1>1 DEF BeginMailing, Forget, accounts, history
  <2>2. CASE Forget
    BY <1>1, <2>1, <2>2, DaysStay DEF BeginMailing, Forget, Counted
  <2>3. CASE pc' = "wrong" /\ round' = round \ {u}
    <3>1. pc = "mailing" /\ u \in round /\ visit = {} /\ visit' = {}
      BY <1>1, <2>1 DEF BeginMailing, Types, Holds
    <3>2. InTime' /\ Dated'
      BY <2>1, <2>3, <3>1 DEF Days, InTime, Dated
    <3>3. Cardinality(Users \ round') = Cardinality(Users \ round) + 1 /\ Cardinality(Users \ round) \in Nat
      BY <2>3, <3>1, ManagersLeft
    <3>4. Limits'
      <4> SUFFICES ASSUME ~raced, NEW a \in Accounts
                   PROVE  /\ Counted(a)' <= EmailsPerDay + 1
                          /\ today < day => real[a] + ToCome(a)' <= Cardinality(Users \ round')
                          /\ today = day => real[a] <= Cardinality(Users) + Told(a)' + Counted(a)'
        BY <2>1, <2>3 DEF Limits
      <4>1. Counted(a)' = Counted(a) /\ Told(a)' = 0 /\ Told(a) = 0 /\ ToCome(a) = 0 /\ ToCome(a)' = 1
        BY <2>1, <2>3, <3>1 DEF Counted, Told, ToCome
      <4>2. real[a] \in Nat /\ Counted(a) \in Nat
        BY Numbers
      <4> QED BY <3>1, <3>3, <4>1, <4>2 DEF Days, Limits
    <3> QED BY <3>2, <3>4 DEF Days
  <2> QED BY <1>1, <2>2, <2>3 DEF BeginMailing
<1>2. ASSUME pc = "wrong" \/ pc = "missing",
             UNCHANGED <<accounts, day, today, real, copy>>, raced => raced',
             Forget \/ (pc' \in {"wrong", "missing"} /\ UNCHANGED <<round, visit>>)
      PROVE  Days'
  <2>1. pc' = "idle" \/ UNCHANGED round
    BY <1>2 DEF Forget
  <2>2. visit = {} /\ visit' = {}
    BY <1>2 DEF Types, Holds, Forget
  <2>3. \A a \in Accounts : ToCome(a) = 1 /\ ToCome(a)' \in {0, 1} /\ Told(a) = 0
    BY <1>2 DEF ToCome, Told
  <2>4. pc' # "count" /\ \A a \in Accounts : Told(a)' = 0
    BY <1>2 DEF Told, Forget
  <2> QED BY <1>2, <1>n, <2>1, <2>2, <2>3, <2>4, DaysStay DEF accounts, Counted, Forget
<1>3. ASSUME NEW c \in Contacts, FixWrong(c) PROVE Days'
  <2>1. UNCHANGED <<accounts, day, today, real, copy>>
    BY <1>3 DEF FixWrong, history
  <2>2. raced => raced'
    BY <1>3 DEF FixWrong, TakeNext
  <2>3. Forget \/ Fixed(c)
    BY <1>3 DEF FixWrong
  <2>4. pc = "wrong"
    BY <1>3 DEF FixWrong
  <2>5. Forget \/ (pc' \in {"wrong", "missing"} /\ UNCHANGED <<round, visit>>)
    BY <2>3, <2>4 DEF Fixed
  <2> QED BY <1>2, <2>1, <2>2, <2>4, <2>5
<1>4. CASE AfterWrong
  <2>1. UNCHANGED <<accounts, day, today, real, copy>> /\ (raced => raced') /\ pc = "wrong"
    BY <1>4 DEF AfterWrong, history
  <2>2. Forget \/ (pc' \in {"wrong", "missing"} /\ UNCHANGED <<round, visit>>)
    BY <1>4 DEF AfterWrong
  <2> QED BY <1>2, <2>1, <2>2
<1>5. ASSUME NEW r \in Recipients, FixMissing(r) PROVE Days'
  <2>1. UNCHANGED <<accounts, day, today, real, copy>>
    BY <1>5 DEF FixMissing, history
  <2>2. raced => raced'
    BY <1>5 DEF FixMissing, TakeNext
  <2>3. Forget \/ Fixed(r)
    BY <1>5 DEF FixMissing
  <2>4. pc = "missing"
    BY <1>5 DEF FixMissing
  <2>5. Forget \/ (pc' \in {"wrong", "missing"} /\ UNCHANGED <<round, visit>>)
    BY <2>3, <2>4 DEF Fixed
  <2> QED BY <1>2, <2>1, <2>2, <2>4, <2>5
<1> QED BY <1>1, <1>3, <1>4, <1>5 DEF Fix

\* A row saved by the thread over one that only the thread has changed.
LEMMA SavedOver ==
    ASSUME Types, NEW a \in given, NEW row \in Account, SaveAccount(a, row), ~raced'
    PROVE  /\ ~raced /\ acc[a].date = copy[a].date
           /\ acc' = [acc EXCEPT ![a] = row] /\ acc'[a] = row
           /\ \A b \in Accounts \ {a} : acc'[b] = acc[b]
<1>1. a \in Accounts /\ acc[a] \in Account /\ copy[a] \in Account
  BY DEF Types, TablesType, ThreadType
<1>2. ~raced /\ [acc[a] EXCEPT !.count = copy[a].count] = copy[a]
  BY DEF SaveAccount, Older, Types, HistoryType
<1>3. [acc[a] EXCEPT !.count = copy[a].count].date = acc[a].date
  BY <1>1 DEF Account
<1> QED BY <1>1, <1>2, <1>3 DEF SaveAccount, Types, TablesType

LEMMA LoadDays == ASSUME Types, Types', Days, LoadAccounts PROVE Days'
<1>1. /\ pc = "missing" /\ pc' = "accounts" /\ fixing = {} /\ fixing' = {}
      /\ UNCHANGED <<acc, given, day, today, round, real, raced>>
      /\ copy' = [a \in Accounts |-> IF acc[a].date = today THEN acc[a] ELSE [acc[a] EXCEPT !.count = 0]]
  BY DEF LoadAccounts, accounts, history
<1>2. \A a \in Accounts : /\ [acc[a] EXCEPT !.count = 0].count = 0
                          /\ [acc[a] EXCEPT !.count = 0].date = acc[a].date
  BY Numbers DEF Account
<1>3. InTime' /\ Dated'
  BY <1>1, <1>2 DEF Days, InTime, Dated
<1>4. \A a \in Accounts : /\ Counted(a)' = Counted(a) /\ Told(a)' = 0 /\ Told(a) = 0
                          /\ ToCome(a) = 1 /\ ToCome(a)' \in {0, 1} /\ real[a] \in Nat
  BY <1>1, Numbers DEF Counted, Told, ToCome
<1>5. Limits'
  <2> SUFFICES ASSUME ~raced, NEW a \in Accounts
               PROVE  /\ Counted(a)' <= EmailsPerDay + 1
                      /\ today < day => real[a] + ToCome(a)' <= Cardinality(Users \ round)
                      /\ today = day => real[a] <= Cardinality(Users) + Told(a)' + Counted(a)'
    BY <1>1 DEF Limits
  <2>1. /\ Counted(a) <= EmailsPerDay + 1
        /\ today < day => real[a] + ToCome(a) <= Cardinality(Users \ round)
        /\ today = day => real[a] <= Cardinality(Users) + Told(a) + Counted(a)
    BY <1>1 DEF Days, Limits
  <2>2. /\ Counted(a)' = Counted(a) /\ Told(a)' = Told(a) /\ ToCome(a)' <= ToCome(a)
        /\ ToCome(a) \in {0, 1} /\ ToCome(a)' \in {0, 1} /\ real[a] \in Nat
        /\ Cardinality(Users \ round) \in Nat
    BY <1>4, ManagersLeft
  <2> HIDE DEF ToCome, Told, Counted
  <2> QED BY <2>1, <2>2
<1> QED BY <1>3, <1>5 DEF Days

LEMMA DeliverDays ==
    ASSUME Types, Types', Days, NEW a \in Accounts, NEW r \in Recipients, Deliver(a, r)
    PROVE  Days'
<1>1. /\ pc = "send" /\ pc' = "count" /\ fixing = {} /\ fixing' = {a} /\ a \in visit /\ ~OverLimit(a)
      /\ UNCHANGED <<acc, given, day, today, round, visit, copy, raced>>
      /\ real' = [real EXCEPT ![a] = @ + 1]
  BY DEF Deliver, accounts, Types, Holds, Days, InTime
<1>2. real'[a] = real[a] + 1 /\ \A b \in Accounts \ {a} : real'[b] = real[b]
  BY <1>1 DEF Types, HistoryType
<1>3. InTime'
  <2>1. \A b \in Accounts \ given : b # a
    BY <1>1 DEF Types, ThreadType
  <2> QED BY <1>1, <1>2, <2>1 DEF Days, InTime, OverLimit
<1>4. Dated'
  BY <1>1 DEF Days, Dated
<1>5. /\ Told(a) = 0 /\ Told(a)' = 1 /\ ToCome(a) = 1 /\ ToCome(a)' = 0
      /\ \A b \in Accounts : Counted(b)' = Counted(b)
      /\ \A b \in Accounts \ {a} : Told(b)' = Told(b) /\ ToCome(b)' = ToCome(b)
  BY <1>1 DEF Told, ToCome, Counted
<1>6. Limits'
  <2> SUFFICES ASSUME ~raced, NEW b \in Accounts
               PROVE  /\ Counted(b)' <= EmailsPerDay + 1
                      /\ today < day => real'[b] + ToCome(b)' <= Cardinality(Users \ round)
                      /\ today = day => real'[b] <= Cardinality(Users) + Told(b)' + Counted(b)'
    BY <1>1 DEF Limits
  <2>1. /\ Counted(b) <= EmailsPerDay + 1
        /\ today < day => real[b] + ToCome(b) <= Cardinality(Users \ round)
        /\ today = day => real[b] <= Cardinality(Users) + Told(b) + Counted(b)
    BY <1>1 DEF Days, Limits
  <2>2. /\ real[b] \in Nat /\ Counted(b) \in Nat /\ Told(b) \in {0, 1} /\ ToCome(b) \in {0, 1}
        /\ Cardinality(Users) \in Nat /\ Cardinality(Users \ round) \in Nat
    BY Numbers, ManagersLeft DEF Told, ToCome
  <2>3. CASE b = a
    BY <1>2, <1>5, <2>1, <2>2, <2>3
  <2>4. CASE b # a
    BY <1>2, <1>5, <2>1, <2>2, <2>4
  <2> QED BY <2>3, <2>4
<1> QED BY <1>3, <1>4, <1>6 DEF Days

LEMMA CountDays == ASSUME Types, Types', Days, NEW a \in Accounts, CounterIncrement(a) PROVE Days'
<1> DEFINE row == [copy[a] EXCEPT !.count = @ + 1, !.date = today]
<1>1. /\ pc = "count" /\ pc' = "accounts" /\ fixing = {a} /\ fixing' = {} /\ visit' = visit \ {a}
      /\ UNCHANGED <<given, day, today, round, copy, real>> /\ SaveAccount(a, row)
  BY DEF CounterIncrement, SaveAccount, history
<1>2. a \in given /\ a \in visit /\ copy[a] \in Account /\ today \in Int
  <2>1. a \in fixing /\ fixing \subseteq visit
    BY <1>1 DEF Types, Holds
  <2> QED BY <2>1, Numbers DEF Types, ThreadType
<1>3. copy[a].count \in Nat /\ copy[a].count + 1 \in Nat
  BY Numbers
<1>4. row \in Account /\ row.count = copy[a].count + 1 /\ row.date = today
  <2>1. [copy[a] EXCEPT !.count = copy[a].count + 1, !.date = today] \in Account
    BY <1>2, <1>3, RowCountType
  <2> QED BY <1>2, <2>1 DEF Account
<1> HIDE DEF row
<1>5. InTime'
  BY <1>1 DEF Days, InTime
<1>6. ASSUME ~raced'
      PROVE  /\ ~raced /\ acc[a].date = copy[a].date /\ acc'[a] = row
             /\ \A b \in Accounts \ {a} : acc'[b] = acc[b]
  BY <1>1, <1>2, <1>4, <1>6, SavedOver
<1>7. Dated'
  <2> SUFFICES ASSUME ~raced', NEW b \in Accounts
               PROVE  /\ acc'[b].date <= today
                      /\ b \in visit' => /\ copy[b].date = acc'[b].date
                                         /\ copy[b].count = IF acc'[b].date = today THEN acc'[b].count ELSE 0
    BY <1>1 DEF Dated
  <2>1. CASE b = a
    BY <1>1, <1>4, <1>6, <2>1, Numbers
  <2>2. CASE b # a
    BY <1>1, <1>6, <2>2 DEF Days, Dated
  <2> QED BY <2>1, <2>2
<1>8. Limits'
  <2> SUFFICES ASSUME ~raced', NEW b \in Accounts
               PROVE  /\ Counted(b)' <= EmailsPerDay + 1
                      /\ today < day => real[b] + ToCome(b)' <= Cardinality(Users \ round)
                      /\ today = day => real[b] <= Cardinality(Users) + Told(b)' + Counted(b)'
    BY <1>1 DEF Limits
  <2>1. /\ Counted(b) <= EmailsPerDay + 1
        /\ today < day => real[b] + ToCome(b) <= Cardinality(Users \ round)
        /\ today = day => real[b] <= Cardinality(Users) + Told(b) + Counted(b)
    BY <1>1, <1>6 DEF Days, Limits
  <2>2. Told(b)' = 0 /\ day \in Nat /\ today \in Nat /\ Cardinality(Users) \in Nat /\ real[b] \in Nat
    BY <1>1, Numbers, ManagersLeft DEF Told
  <2>3. CASE b # a
    <3>1. Counted(b)' = Counted(b) /\ ToCome(b)' = ToCome(b) /\ Told(b) = 0
      BY <1>1, <1>6, <2>3 DEF Counted, ToCome, Told
    <3> QED BY <2>1, <2>2, <3>1
  <2>4. CASE b = a
    <3>1. Told(b) = 1 /\ ToCome(b) = 0 /\ ToCome(b)' = 0
      BY <1>1, <2>4 DEF Told, ToCome
    <3>2. Counted(b)' = IF today = day THEN copy[a].count + 1 ELSE 0
      BY <1>1, <1>4, <1>6, <2>4 DEF Counted
    <3>3. copy[a].count = IF acc[a].date = today THEN acc[a].count ELSE 0
      BY <1>2, <1>6 DEF Days, Dated
    <3>4. ~(copy[a].date = today /\ copy[a].count > EmailsPerDay)
      BY <1>1 DEF Days, InTime, OverLimit
    <3>5. copy[a].count <= EmailsPerDay
      BY <1>2, <1>3, <1>6, <3>3, <3>4, Numbers
    <3>6. today = day => Counted(a) = copy[a].count
      BY <3>3 DEF Counted
    <3>7. EmailsPerDay \in Nat
      BY Numbers
    <3> QED BY <1>3, <2>1, <2>2, <2>4, <3>1, <3>2, <3>5, <3>6, <3>7
  <2> QED BY <2>3, <2>4
<1> QED BY <1>5, <1>7, <1>8 DEF Days

LEMMA SendDays == ASSUME Types, Types', Days, Send \/ StartRound \/ EndRound \/ Crash \/ NewDay PROVE Days'
<1>n. day \in Nat /\ today \in Nat /\ raced \in BOOLEAN
  BY Numbers
<1>1. ASSUME NEW a \in Accounts, Skip(a) PROVE Days'
  <2>1. \A b \in Accounts : ToCome(b)' <= ToCome(b) /\ Told(b)' = Told(b)
    BY <1>1 DEF Skip, ToCome, Told
  <2> QED BY <1>1, <2>1, DaysStay DEF Skip, accounts, history, Counted
<1>7. ASSUME NEW a \in Accounts, NEW c \in Contacts, Pick(a, c) PROVE Days'
  <2>1. \A b \in Accounts : ToCome(b)' = ToCome(b) /\ Told(b)' = Told(b)
    BY <1>7 DEF Pick, ToCome, Told
  <2>2. pc = "accounts" /\ pc' = "send" /\ ~OverLimit(hand'[1])
        /\ UNCHANGED <<acc, given, day, today, real, copy, visit, round, raced>>
    BY <1>7 DEF Pick, accounts
  <2>3. \A b \in Accounts : Counted(b)' = Counted(b)
    BY <2>2 DEF Counted
  <2>4. \A b \in Accounts : ToCome(b)' <= ToCome(b)
    BY <2>1, Numbers
  <2> HIDE DEF ToCome, Told, Counted
  <2> QED BY <2>1, <2>2, <2>3, <2>4, DaysStay
<1>2. ASSUME NEW a \in Accounts, NEW r \in Recipients, SendError(a, r) PROVE Days'
  <2> DEFINE row == [copy[a] EXCEPT !.massmail = FALSE]
  <2>1. /\ pc = "send" /\ pc' = "accounts" /\ UNCHANGED <<given, day, today, round, fixing, copy, real>>
        /\ visit' = visit \ {a} /\ a \in visit
    BY <1>2 DEF SendError, accounts, SaveAccount, history, Types, Holds
  <2>2. \A b \in Accounts : ToCome(b)' <= ToCome(b) /\ Told(b)' = Told(b)
    BY <2>1 DEF ToCome, Told
  <2>3. ASSUME ~raced'
        PROVE  /\ ~raced
               /\ \A b \in Accounts : Counted(b)' = Counted(b) /\ acc'[b].date = acc[b].date
               /\ \A b \in visit' : acc'[b].count = acc[b].count
    <3>1. CASE UNCHANGED <<accounts, raced>>
      BY <2>1, <2>3, <3>1 DEF accounts, Counted
    <3>2. CASE SaveAccount(a, row)
      <4>1. /\ a \in given /\ row \in Account /\ row.count = copy[a].count /\ row.date = copy[a].date
            /\ visit \subseteq Accounts
        <5>1. a \in visit /\ visit \subseteq given /\ given \subseteq Accounts
          BY <2>1 DEF Types, TablesType, ThreadType
        <5>2. copy[a] \in Account
          BY Numbers
        <5>3. row \in Account /\ row.count = copy[a].count /\ row.date = copy[a].date
          BY <5>2 DEF Account
        <5> HIDE DEF row
        <5> QED BY <5>1, <5>3
      <4> HIDE DEF row
      <4>2. /\ ~raced /\ acc[a].date = copy[a].date /\ acc'[a] = row
            /\ \A b \in Accounts \ {a} : acc'[b] = acc[b]
        BY <2>3, <3>2, <4>1, SavedOver
      <4>3. /\ acc[a].date <= today
            /\ copy[a].count = IF acc[a].date = today THEN acc[a].count ELSE 0
        BY <2>1, <4>2 DEF Days, Dated
      <4>4. today = day \/ today + 1 = day
        BY <2>1 DEF Days, InTime
      <4>5. acc[a].date = day => acc[a].date = today
        BY <1>n, <4>3, <4>4
      <4>6. Counted(a)' = Counted(a)
        BY <2>1, <4>1, <4>2, <4>3, <4>5 DEF Counted
      <4> QED BY <2>1, <4>1, <4>2, <4>6 DEF Counted
    <3> QED BY <1>2, <3>1, <3>2 DEF SendError
  <2>4. pc # "idle" /\ pc' # "idle" /\ (raced => raced')
    BY <2>1, <2>3, <1>n
  <2>5. UNCHANGED round
    BY <2>1
  <2> QED BY <2>1, <2>2, <2>3, <2>4, <2>5, DaysStay
<1>3. CASE EndMailing
  <2>1. \A b \in Accounts : ToCome(b)' <= ToCome(b) /\ Told(b)' = Told(b)
    BY <1>3 DEF EndMailing, ToCome, Told
  <2> QED BY <1>3, <2>1, DaysStay DEF EndMailing, accounts, history, Counted
<1>4. CASE EndRound \/ Crash
  <2>1. UNCHANGED <<acc, given, day, today, real, copy>> /\ visit' = {} /\ pc' = "idle"
    BY <1>4 DEF EndRound, Crash, Forget, accounts, history
  <2>2. (raced => raced') /\ (pc = "count" => raced')
    BY <1>4, <1>n DEF EndRound, Crash
  <2> QED BY <1>n, <2>1, <2>2, DaysStay DEF Counted
<1>5. CASE StartRound
  <2>1. /\ pc = "idle" /\ pc' = "mailing" /\ today' = day /\ visit = {} /\ visit' = {}
        /\ UNCHANGED <<acc, given, day, real, raced>>
    BY <1>5 DEF StartRound, accounts, history, Types, Holds
  <2>2. \A a \in Accounts : Counted(a)' = Counted(a) /\ Told(a)' = 0 /\ Told(a) = 0
    BY <2>1 DEF Counted, Told
  <2>3. InTime' /\ Dated'
    BY <1>n, <2>1, Numbers DEF Days, InTime, Dated
  <2>4. Limits'
    BY <1>n, <2>1, <2>2 DEF Days, Limits
  <2> QED BY <2>3, <2>4 DEF Days
<1>6. CASE NewDay
  <2>1. /\ day' = day + 1 /\ real' = [a \in Accounts |-> 0] /\ (pc = "idle" \/ today = day)
        /\ UNCHANGED <<acc, given, pc, today, round, fixing, visit, hand, copy, raced>>
    BY <1>6 DEF NewDay, accounts, thread
  <2>2. InTime' /\ Dated'
    BY <1>n, <2>1 DEF Days, InTime, Dated, OverLimit, Types, TablesType
  <2>3. Limits'
    <3> SUFFICES ASSUME ~raced, NEW a \in Accounts
                 PROVE  /\ Counted(a)' <= EmailsPerDay + 1
                        /\ pc # "idle" => 0 + ToCome(a)' <= Cardinality(Users \ round)
                        /\ 0 <= Cardinality(Users) + Told(a)' + Counted(a)'
      BY <2>1 DEF Limits
    <3>1. acc[a].date <= today /\ today <= day /\ acc[a].date \in Int
      BY <1>n, <2>1, Numbers DEF Days, InTime, Dated
    <3>2. Counted(a)' = 0
      BY <1>n, <2>1, <3>1 DEF Counted
    <3>3. ToCome(a)' = ToCome(a) /\ Told(a)' = Told(a) /\ ToCome(a) \in {0, 1} /\ Told(a) \in {0, 1}
      BY <2>1, Numbers DEF ToCome, Told
    <3>4. ToCome(a) = 1 => Users \ round # {}
      BY DEF ToCome, Types, Holds
    <3>5. EmailsPerDay \in Nat
      BY Numbers
    <3> QED BY <3>2, <3>3, <3>4, <3>5, ManagersLeft
  <2> QED BY <2>2, <2>3 DEF Days
<1> QED BY <1>1, <1>2, <1>3, <1>4, <1>5, <1>6, <1>7, LoadDays, DeliverDays, CountDays DEF Send

LEMMA WebDays == ASSUME Types, Types', Days, Web PROVE Days'
<1>n. day \in Nat /\ today \in Nat /\ raced \in BOOLEAN
  BY Numbers
<1>a. ASSUME Request, given \subseteq given', raced => raced', UNCHANGED real,
             \A a \in given : acc'[a].count = acc[a].count /\ acc'[a].date = acc[a].date,
             \A a \in Accounts \ given : acc'[a] = acc[a] \/ (acc'[a].date = -1 /\ acc'[a].count = 0)
      PROVE  Days'
  <2>1. UNCHANGED <<pc, day, today, round, fixing, visit, hand, copy>>
    BY <1>a DEF Request, thread
  <2>2. visit \subseteq given /\ given \subseteq Accounts
    BY DEF Types, TablesType, ThreadType
  <2>3. InTime'
    BY <1>a, <2>1 DEF Days, InTime, OverLimit
  <2>4. Dated'
    BY <1>a, <1>n, <2>1, <2>2 DEF Days, Dated
  <2>5. Limits'
    <3> SUFFICES ASSUME ~raced, NEW a \in Accounts
                 PROVE  /\ Counted(a)' <= EmailsPerDay + 1
                        /\ pc # "idle" /\ today < day => real[a] + ToCome(a)' <= Cardinality(Users \ round)
                        /\ pc = "idle" \/ today = day => real[a] <= Cardinality(Users) + Told(a)' + Counted(a)'
      BY <1>a, <2>1 DEF Limits
    <3>1. Told(a)' = Told(a) /\ ToCome(a)' = ToCome(a) /\ Told(a) \in {0, 1} /\ real[a] \in Nat
      BY <2>1, Numbers DEF Told, ToCome
    <3>2. CASE Counted(a)' = Counted(a)
      BY <3>1, <3>2 DEF Days, Limits
    <3>3. CASE a \notin given /\ acc'[a].date = -1
      <4>1. real[a] = 0 /\ Counted(a)' = 0
        BY <1>n, <2>1, <3>3 DEF Days, InTime, Counted
      <4>2. EmailsPerDay \in Nat /\ Cardinality(Users) \in Nat
        BY Numbers, ManagersLeft
      <4> QED BY <3>1, <4>1, <4>2 DEF Days, Limits
    <3> QED BY <1>a, <2>1, <3>2, <3>3 DEF Counted
  <2> QED BY <2>3, <2>4, <2>5 DEF Days
<1>b. acc \in [Accounts -> Account] /\ given \subseteq Accounts
  BY DEF Types, TablesType
<1>1. ASSUME NEW a \in Accounts, NEW u \in Users, NEW b \in BOOLEAN, NEW m \in BOOLEAN,
             ChangeAccount(a, u, b, m)
      PROVE  Days'
  <2> DEFINE new == [acc[a] EXCEPT !.owner = u, !.main = b, !.massmail = m]
  <2>1. new.count = acc[a].count /\ new.date = acc[a].date
    BY <1>b DEF Account
  <2>2. Request /\ acc' = [acc EXCEPT ![a] = new] /\ UNCHANGED <<given, real, raced>>
    BY <1>1 DEF ChangeAccount
  <2> HIDE DEF new
  <2>3. acc'[a] = new /\ \A k \in Accounts \ {a} : acc'[k] = acc[k]
    BY <1>b, <2>2
  <2>4. \A k \in Accounts : acc'[k].count = acc[k].count /\ acc'[k].date = acc[k].date
    BY <2>1, <2>3
  <2>5. \A k \in Accounts \ given : acc'[k] = acc[k]
    BY <1>1, <2>3 DEF ChangeAccount, Types, TablesType
  <2> QED BY <1>a, <1>b, <2>2, <2>4, <2>5
<1>2. ASSUME NEW a \in Accounts, NEW m \in BOOLEAN, AddAccount(a, m) PROVE Days'
  <2>1. [FirstRow(a) EXCEPT !.massmail = m].date = -1 /\ [FirstRow(a) EXCEPT !.massmail = m].count = 0
    BY DEF FirstRow
  <2> QED BY <1>2, <1>a, <1>b, <2>1 DEF AddAccount, history
<1>3. ASSUME NEW a \in Accounts, DeleteAccount(a) PROVE Days'
  BY <1>3, <1>a DEF DeleteAccount
<1>4. ASSUME \/ \E r \in Recipients : SpecifyVip(r)
             \/ \E r \in Recipients, u \in Users : ChangeMassConts(r, u) \/ Enlist(u, r)
             \/ \E c \in Contacts : Unsubscribe(c)
      PROVE  Days'
  BY <1>4, <1>a DEF SpecifyVip, ChangeMassConts, Enlist, Unsubscribe, accounts, history
<1> QED BY <1>1, <1>2, <1>3, <1>4 DEF Web

(* At most one message of an account over the number in the settings, and one *)
(* for each manager whose mailing a round finishes after midnight, for any    *)
(* limit, date and order of rounds (sendmassmail.py, EmailAccount's counter). *)
THEOREM LimitIsKept == Spec => []DailyLimit
<1>1. Init => Types /\ Days
  BY InitTypes, InitDays
<1>2. ASSUME Types, Days, [Next]_vars PROVE Types' /\ Days'
  <2>1. Types'
    BY <1>2, TypesStep
  <2>2. CASE UNCHANGED vars
    <3>1. UNCHANGED <<acc, given, pc, day, today, round, fixing, visit, hand, copy, real, raced>>
      BY <2>2 DEF vars, accounts, thread, history
    <3>2. \A a \in Accounts : Counted(a)' = Counted(a)
      BY <3>1 DEF Counted
    <3> QED BY <1>2, <2>1, <3>1, <3>2, DaysStay
  <2>3. CASE Next
    BY <1>2, <2>1, <2>3, FixDays, SendDays, WebDays DEF Next, Sender
  <2> QED BY <1>2, <2>1, <2>2, <2>3
<1>3. Types /\ Days => DailyLimit
  <2> SUFFICES ASSUME Types, Days, ~raced, NEW a \in Accounts
               PROVE  real[a] <= EmailsPerDay + 1 + Cardinality(Users)
    BY DEF DailyLimit
  <2>1. /\ Counted(a) <= EmailsPerDay + 1
        /\ pc # "idle" /\ today < day => real[a] + ToCome(a) <= Cardinality(Users \ round)
        /\ pc = "idle" \/ today = day => real[a] <= Cardinality(Users) + Told(a) + Counted(a)
    BY DEF Days, Limits
  <2>2. /\ real[a] \in Nat /\ Counted(a) \in Nat /\ Told(a) \in {0, 1} /\ ToCome(a) \in {0, 1}
        /\ day \in Nat /\ today \in Nat /\ EmailsPerDay \in Nat
        /\ Cardinality(Users) \in Nat /\ Cardinality(Users \ round) \in Nat
        /\ Cardinality(Users \ round) <= Cardinality(Users)
    BY Numbers, ManagersLeft
  <2>3. CASE pc # "idle" /\ today < day
    BY <2>1, <2>2, <2>3
  <2>4. CASE Told(a) = 0 /\ (pc = "idle" \/ today = day)
    BY <2>1, <2>2, <2>4
  <2>5. CASE Told(a) = 1 /\ today = day
    <3>1. a \in visit /\ ~OverLimit(a)
      BY <2>5 DEF Told, Days, InTime, Types, Holds
    <3>2. Counted(a) <= EmailsPerDay
      BY <2>2, <2>5, <3>1, Numbers DEF Days, Dated, Counted, OverLimit
    <3> QED BY <2>1, <2>2, <2>5, <3>2
  <2>6. (pc # "idle" /\ today < day) \/ pc = "idle" \/ today = day
    BY <2>2 DEF Days, InTime
  <2>7. Told(a) = 1 => pc # "idle"
    BY DEF Told
  <2> QED BY <2>2, <2>3, <2>4, <2>5, <2>6, <2>7
<1>4. Spec => [](Types /\ Days)
  BY <1>1, <1>2, PTL DEF Spec
<1> QED BY <1>3, <1>4, PTL
=============================================================================
