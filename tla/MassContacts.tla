---------------------------- MODULE MassContacts ----------------------------
(***************************************************************************)
(* Which email account writes to which recipient, and how often a day: the *)
(* EmailAccount rows, the EmlAccountsQueue of every manager, the           *)
(* MassContact rows, the part of send_massmail that uses them, and the     *)
(* requests that change them (massmail/models, massmail/site/              *)
(* emailaccountadmin.py, crm/utils/change_massconts.py).                   *)
(*                                                                         *)
(* MailingOuts has the lists and the statuses of the mailings; here the    *)
(* mailing of a manager is the set of recipients still on it.  A request   *)
(* is one step: it loads and saves within milliseconds, while the thread   *)
(* works on copies that are minutes old, and makes and sends a message in  *)
(* seconds, after it has looked whether the recipient wants it.            *)
(***************************************************************************)
EXTENDS Integers, FiniteSets, SequencesExt

CONSTANTS Recipients,    \* ids of the contacts, companies or leads
          Accounts,      \* ids of EmailAccount rows
          Users,         \* managers
          Contacts,      \* ids of MassContact rows (bound: rows ever created)
          OwnerAtStart,  \* the manager of each recipient
          AccountsAtStart, \* accounts that exist at the start
          ManagerOf,     \* the manager each account is, or will be, made for
          MainAtStart,   \* accounts with the main flag
          EmailsPerDay,  \* MassmailSettings.emails_per_day
          MaxDay,        \* bound: days
          MaxOps         \* bound: requests, failures and crashes

ASSUME ContactsAssumption ==
    /\ OwnerAtStart \in [Recipients -> Users]
    /\ ManagerOf \in [Accounts -> Users]
    /\ AccountsAtStart \subseteq Accounts /\ IsFiniteSet(AccountsAtStart)
    /\ MainAtStart \subseteq Accounts
    /\ EmailsPerDay \in Nat /\ MaxDay \in Nat /\ MaxOps \in Nat
    /\ IsFiniteSet(Users)
    /\ "none" \notin Accounts \cup Recipients \cup Users

VARIABLES
    accs,      \* ids in the EmailAccount table
    acc,       \* the rows
    given,     \* ids of EmailAccounts given out so far: none is used again
    queues,    \* managers that have an EmlAccountsQueue row
    queue,     \* the queues
    cons,      \* ids in the MassContact table
    con,       \* the rows
    made,      \* ids of MassContacts given out so far
    owner,     \* the manager of each recipient
    list,      \* recipients on the active mailing of each manager
    day,       \* the date
    pc,        \* where the sender thread is
    today,     \* the date it read at the start of the round
    round,     \* managers whose mailing is still to come in the round
    su,        \* the manager whose mailing it is at
    rids,      \* the recipients of that mailing, as loaded
    fixing,    \* fix_masscontacts: what is left of the query it is at
    sq,        \* its EmlAccountsQueue object
    visit,     \* accounts of the loop still to be visited
    hand,      \* the account and the recipient of the message it is making
    copy,      \* its EmailAccount objects
    ops,       \* operations used, bounded by MaxOps
    real,      \* history: deliveries of each account on this date
    from,      \* history: the account of each recipient's last message
    asked,     \* history: recipients that have unsubscribed
    moved,     \* history: recipients that somebody took from their account
    since,     \* history: those who unsubscribed since the message was begun
    raced      \* history: a write of the thread undid a newer one, or was lost

accounts == <<accs, acc, given>>
rows     == <<cons, con, made>>
line     == <<queues, queue>>
people   == <<owner, list>>
thread   == <<pc, today, round, su, rids, fixing, sq, visit, hand,
              copy>>
history  == <<real, from, asked, moved, since>>
vars == <<accounts, rows, line, people, day, thread, ops, history, raced>>
-----------------------------------------------------------------------------
None == "none"
Nothing == <<None, None>>
Account == [owner : Users, main : BOOLEAN, massmail : BOOLEAN, count : Nat, date : Int]
Contact == [rcpt : Recipients, acc : Accounts, massmail : BOOLEAN]
NoContact == [rcpt |-> None, acc |-> None, massmail |-> FALSE]

ContactsOf(r) == {c \in cons : con[c].rcpt = r}

\* EmlAccountsQueue.get_next, add_id and remove_id, on the list in hand.
GetNext(q) == Append(Tail(q), Head(q))
Mutant_AddId(q, a) == Append(q, a)      \* not "if account_id not in queue"
AddId(q, a) == IF Contains(q, a) THEN q ELSE Append(q, a)
RemoveId(q, a) ==
    IF Contains(q, a) THEN RemoveAt(q, CHOOSE i \in DOMAIN q : q[i] = a) ELSE q

FirstRow(a) == [owner |-> ManagerOf[a], main |-> a \in MainAtStart,
                massmail |-> TRUE, count |-> 0, date |-> -1]

Init ==
    /\ accs = AccountsAtStart
    /\ acc = [a \in Accounts |-> FirstRow(a)] /\ given = AccountsAtStart
    /\ queues = {ManagerOf[a] : a \in AccountsAtStart}
    /\ queue = [u \in Users |->
           SetToSeq({a \in AccountsAtStart \ MainAtStart : ManagerOf[a] = u})]
    /\ cons = {} /\ made = {}
    /\ con = [c \in Contacts |-> NoContact]
    /\ owner = OwnerAtStart
    /\ list = [u \in Users |-> {r \in Recipients : OwnerAtStart[r] = u}]
    /\ day = 0
    /\ pc = "idle" /\ today = 0 /\ round = {} /\ su = None /\ rids = {}
    /\ fixing = {} /\ sq = <<>> /\ visit = {} /\ hand = Nothing /\ copy = acc
    /\ ops = 0
    /\ real = [a \in Accounts |-> 0]
    /\ from = [r \in Recipients |-> None]
    /\ asked = {} /\ moved = {} /\ since = {}
    /\ raced = FALSE
-----------------------------------------------------------------------------
(* The sender thread: fix_masscontacts.                                    *)

\* What is in sq, copy and today is not looked at while the thread is idle.
Forget == /\ pc' = "idle" /\ round' = {} /\ su' = None /\ rids' = {}
          /\ fixing' = {} /\ visit' = {} /\ hand' = Nothing

StartRound ==
    /\ pc = "idle"
    /\ round' \in SUBSET {u \in Users : list[u] # {}} /\ round' # {}
    /\ today' = day
    /\ pc' = "mailing"
    /\ UNCHANGED <<accounts, rows, line, people, day, su, rids, fixing, sq,
                   visit, hand, copy, ops, history, raced>>

EndRound ==
    /\ pc = "mailing" /\ round = {}
    /\ Forget
    /\ UNCHANGED <<accounts, rows, line, people, day, today, sq, copy, ops,
                   history, raced>>

\* The first query: contacts on an account of another manager.
Wrong(u, S) == {c \in cons : con[c].rcpt \in S /\ acc[con[c].acc].owner # u}

\* Without a queue EmlAccountsQueue.DoesNotExist ends the round.
BeginMailing(u) ==
    /\ pc = "mailing" /\ u \in round
    /\ LET wrong == Wrong(u, list[u]) IN
       \/ /\ wrong # {} /\ u \notin queues
          /\ Forget /\ UNCHANGED sq
       \/ /\ wrong = {} \/ u \in queues
          /\ pc' = "wrong" /\ su' = u /\ rids' = list[u]
          /\ round' = round \ {u}
          /\ fixing' = wrong /\ sq' = queue[u]
          /\ UNCHANGED <<visit, hand>>
    /\ UNCHANGED <<accounts, rows, line, people, day, today, copy, ops, history, raced>>

\* get_next rotates and saves the queue object that was loaded before the loop.
TakeNext ==
    /\ sq' = GetNext(sq)
    /\ queues' = queues \cup {su}
    /\ queue' = [queue EXCEPT ![su] = sq']
    /\ raced' = (raced \/ su \notin queues \/ queue[su] # sq)

Fixed(x) == /\ fixing' = fixing \ {x}
            /\ UNCHANGED <<pc, round, su, rids, visit, hand>>

\* Nothing happens when the queue is empty.  A contact that was deleted since
\* the query, or an account that is no more, raises.
FixWrong(c) ==
    /\ pc = "wrong" /\ c \in fixing
    /\ \/ /\ sq = <<>> /\ Fixed(c)
          /\ UNCHANGED <<line, sq, con, raced>>
       \/ /\ sq # <<>> /\ TakeNext
          /\ IF c \in cons /\ Head(sq) \in accs
             THEN con' = [con EXCEPT ![c].acc = Head(sq)] /\ Fixed(c)
             ELSE Forget /\ UNCHANGED con
    /\ UNCHANGED <<accounts, cons, made, people, day, today, copy, ops, history>>

\* The second query: recipients that have no contact.
Without(S) == {r \in S : ContactsOf(r) = {}}

AfterWrong ==
    /\ pc = "wrong" /\ fixing = {}
    /\ LET missing == Without(rids) IN
       \/ /\ missing # {} /\ su \notin queues
          /\ Forget /\ UNCHANGED sq
       \/ /\ missing = {} \/ su \in queues
          /\ pc' = "missing" /\ fixing' = missing /\ sq' = queue[su]
          /\ UNCHANGED <<round, su, rids, visit, hand>>
    /\ UNCHANGED <<accounts, rows, line, people, day, today, copy, ops, history, raced>>

Create(c, r, a) ==
    /\ c \notin made
    /\ made' = made \cup {c} /\ cons' = cons \cup {c}
    /\ con' = [con EXCEPT ![c] = [rcpt |-> r, acc |-> a, massmail |-> TRUE]]

FixMissing(r) ==
    /\ pc = "missing" /\ r \in fixing
    /\ \/ /\ sq = <<>> /\ Fixed(r)
          /\ UNCHANGED <<line, sq, rows, raced>>
       \/ /\ sq # <<>> /\ TakeNext
          /\ IF Head(sq) \in accs
             THEN (\E c \in Contacts : Create(c, r, Head(sq))) /\ Fixed(r)
             ELSE Forget /\ UNCHANGED rows
    /\ UNCHANGED <<accounts, people, day, today, copy, ops, history>>
-----------------------------------------------------------------------------
(* The sender thread: the loop over the accounts.                          *)

LoadAccounts ==
    /\ pc = "missing" /\ fixing = {}
    /\ pc' = "accounts"
    /\ visit' = {a \in accs : acc[a].owner = su /\ acc[a].massmail}
    /\ copy' = [a \in Accounts |->
                  IF acc[a].date = today THEN acc[a] ELSE [acc[a] EXCEPT !.count = 0]]
    /\ UNCHANGED <<accounts, rows, line, people, day, today, round, su, rids,
                   fixing, sq, hand, ops, history, raced>>

OverLimit(a) == copy[a].date = today /\ copy[a].count > EmailsPerDay
Mutant_GetMassContact(a) == {c \in cons : con[c].rcpt \in rids /\ con[c].acc = a}
GetMassContact(a) ==
    {c \in cons : con[c].rcpt \in rids /\ con[c].acc = a /\ con[c].massmail}

Skip(a) ==
    /\ pc = "accounts" /\ a \in visit
    /\ OverLimit(a) \/ GetMassContact(a) = {}
    /\ visit' = visit \ {a}
    /\ UNCHANGED <<accounts, rows, line, people, day, pc, today, round, su,
                   rids, fixing, sq, hand, copy, ops, history, raced>>

\* The contact is read, and its mark looked at, before the message is made.
Pick(a, c) ==
    /\ pc = "accounts" /\ a \in visit /\ ~OverLimit(a)
    /\ c \in GetMassContact(a)
    /\ pc' = "send" /\ hand' = <<a, con[c].rcpt>>
    /\ since' = {}
    /\ UNCHANGED <<accounts, rows, line, people, day, today, round, su, rids,
                   fixing, sq, visit, copy, ops, real, from, asked, moved, raced>>

Mutant_DeliverUncounted(a, r) ==        \* the account goes on before it is counted
    /\ pc = "send" /\ hand = <<a, r>>
    /\ pc' = "accounts" /\ hand' = Nothing
    /\ list' = [list EXCEPT ![su] = @ \ {r}]
    /\ real' = [real EXCEPT ![a] = @ + 1]
    /\ from' = [from EXCEPT ![r] = a]
    /\ UNCHANGED <<accounts, rows, line, owner, day, today, round, su, rids, fixing,
                   sq, visit, copy, ops, asked, moved, since, raced>>

\* The message is sent and recorded: the recipient is off the mailing.  The
\* contact is not looked at again.
Deliver(a, r) ==
    /\ pc = "send" /\ hand = <<a, r>>
    /\ pc' = "count" /\ fixing' = {a} /\ hand' = Nothing
    /\ list' = [list EXCEPT ![su] = @ \ {r}]
    /\ real' = [real EXCEPT ![a] = @ + 1]
    /\ from' = [from EXCEPT ![r] = a]
    /\ UNCHANGED <<accounts, rows, line, owner, day, today, round, su, rids, sq,
                   visit, copy, ops, asked, moved, since, raced>>

\* What a full save of a row differs from that was not the thread's to change.
Older(a) == \/ a \notin accs
            \/ [acc[a] EXCEPT !.count = copy[a].count] # copy[a]
SaveAccount(a, row) ==
    /\ accs' = accs \cup {a}
    /\ acc' = [acc EXCEPT ![a] = row] /\ UNCHANGED given
    /\ raced' = (raced \/ Older(a))

CounterIncrement(a) ==
    /\ pc = "count" /\ fixing = {a}
    /\ SaveAccount(a, [copy[a] EXCEPT !.count = @ + 1, !.date = today])
    /\ pc' = "accounts" /\ fixing' = {} /\ visit' = visit \ {a}
    /\ UNCHANGED <<rows, line, people, day, today, round, su, rids, sq, hand,
                   copy, ops, history>>

\* An SMTP error: the recipient moves to the failed ids, or the account is
\* switched off.
SendError(a, r) ==
    /\ pc = "send" /\ hand = <<a, r>>
    /\ ops < MaxOps /\ ops' = ops + 1
    /\ pc' = "accounts" /\ visit' = visit \ {a} /\ hand' = Nothing
    /\ \/ /\ list' = [list EXCEPT ![su] = @ \ {r}]
          /\ UNCHANGED <<accounts, raced>>
       \/ /\ SaveAccount(a, [copy[a] EXCEPT !.massmail = FALSE])
          /\ UNCHANGED list
    /\ UNCHANGED <<rows, line, owner, day, today, round, su, rids, fixing, sq,
                   copy, history>>

EndMailing ==
    /\ pc = "accounts" /\ visit = {}
    /\ pc' = "mailing" /\ su' = None /\ rids' = {}
    /\ UNCHANGED <<accounts, rows, line, people, day, today, round, fixing, sq,
                   visit, hand, copy, ops, history, raced>>

\* A round takes seconds for each account: never a whole day.
NewDay ==
    /\ day < MaxDay
    /\ pc = "idle" \/ today = day
    /\ day' = day + 1
    /\ real' = [a \in Accounts |-> 0]
    /\ UNCHANGED <<accounts, rows, line, people, thread, ops, from, asked, moved,
                   since, raced>>

Crash ==
    /\ pc # "idle"
    /\ ops < MaxOps /\ ops' = ops + 1
    /\ Forget
    /\ raced' = (raced \/ pc = "count")
    /\ UNCHANGED <<accounts, rows, line, people, day, today, sq, copy, history>>
-----------------------------------------------------------------------------
(* Web requests.                                                           *)

Request == /\ ops < MaxOps /\ ops' = ops + 1
           /\ UNCHANGED <<day, thread>>

Everywhere(a) == [u \in Users |-> RemoveId(queue[u], a)]
QueueAfterSave(a, old, new) ==
    LET added == IF new.massmail /\ ~new.main
                 THEN [queue EXCEPT ![new.owner] = AddId(@, a)] ELSE queue
        demoted == IF new.main /\ ~old.main
                   THEN [added EXCEPT ![new.owner] = RemoveId(@, a)] ELSE added IN
    IF old.owner # new.owner THEN [u \in Users |-> RemoveId(demoted[u], a)] ELSE demoted

\* EmailAccountAdmin.save_model.
ChangeAccount(a, u, main, massmail) ==
    /\ Request
    /\ a \in accs
    /\ LET new == [acc[a] EXCEPT !.owner = u, !.main = main, !.massmail = massmail] IN
       /\ new # acc[a]
       /\ acc' = [acc EXCEPT ![a] = new]
       /\ queues' = queues \cup {u}
       /\ queue' = QueueAfterSave(a, acc[a], new)
       /\ moved' = IF u = acc[a].owner THEN moved
                   ELSE moved \cup {con[c].rcpt : c \in {k \in cons : con[k].acc = a}}
    /\ UNCHANGED <<accs, given, rows, people, real, from, asked, since, raced>>

AddAccount(a, massmail) ==
    /\ Request
    /\ a \notin given
    /\ accs' = accs \cup {a} /\ given' = given \cup {a}
    /\ acc' = [acc EXCEPT ![a] = [FirstRow(a) EXCEPT !.massmail = massmail]]
    /\ queues' = queues \cup {ManagerOf[a]}
    /\ queue' = IF massmail /\ a \notin MainAtStart
                THEN [queue EXCEPT ![ManagerOf[a]] = AddId(@, a)] ELSE queue
    /\ UNCHANGED <<rows, people, history, raced>>

\* EmailAccount.delete takes the id out of the queue; the contacts go with it.
\* "Delete selected" of the default admin site does not call it.
Cascade(a) ==
    /\ cons' = {c \in cons : con[c].acc # a}
    /\ con' = [c \in Contacts |-> IF c \in cons' THEN con[c] ELSE NoContact]
    /\ moved' = moved \cup {con[c].rcpt : c \in cons \ cons'}
    /\ UNCHANGED made

DeleteAccount(a) ==
    /\ Request
    /\ a \in accs
    /\ accs' = accs \ {a} /\ UNCHANGED <<acc, given>>
    /\ \/ /\ queue' = IF acc[a].owner \in queues
                      THEN [queue EXCEPT ![acc[a].owner] = RemoveId(@, a)] ELSE queue
          /\ UNCHANGED raced
       \/ UNCHANGED queue /\ raced' = TRUE
    /\ Cascade(a)
    /\ UNCHANGED <<queues, people, real, from, asked, since>>

\* specify_vip_recipients: to the one main account of the manager.
SpecifyVip(r) ==
    /\ Request
    /\ \E a \in accs :
         /\ {b \in accs : acc[b].owner = owner[r] /\ acc[b].main} = {a}
         /\ IF ContactsOf(r) # {}
            THEN /\ con' = [c \in Contacts |-> IF c \in ContactsOf(r)
                              THEN [con[c] EXCEPT !.acc = a] ELSE con[c]]
                 /\ UNCHANGED <<cons, made>>
            ELSE \E c \in Contacts : Create(c, r, a)
    /\ moved' = moved \cup {r}
    /\ UNCHANGED <<accounts, line, people, real, from, asked, since, raced>>

\* The manager of a company changes: change_massconts.  An id in the queue
\* whose account was deleted raises, and the transaction is rolled back.
ChangeMassConts(r, u) ==
    /\ Request
    /\ u # owner[r]
    /\ owner' = [owner EXCEPT ![r] = u]
    /\ IF u \in queues /\ queue[u] # <<>>
       THEN LET a == Head(queue[u]) IN
            /\ a \in accs
            /\ queue' = [queue EXCEPT ![u] = GetNext(@)]
            /\ con' = [c \in Contacts |-> IF c \in ContactsOf(r)
                         THEN [con[c] EXCEPT !.acc = a] ELSE con[c]]
            /\ UNCHANGED <<cons, made>>
       ELSE /\ cons' = cons \ ContactsOf(r)
            /\ con' = [c \in Contacts |-> IF c \in cons' THEN con[c] ELSE NoContact]
            /\ UNCHANGED <<made, queue>>
    /\ moved' = moved \cup {r}
    /\ UNCHANGED <<accounts, queues, list, real, from, asked, since, raced>>

\* The link in a message has the uuid of one MassContact.
Unsubscribe(c) ==
    /\ Request
    /\ c \in cons /\ con[c].massmail /\ from[con[c].rcpt] # None
    /\ con' = [con EXCEPT ![c].massmail = FALSE]
    /\ asked' = asked \cup {con[c].rcpt}
    /\ since' = IF pc = "send" THEN since \cup {con[c].rcpt} ELSE since
    /\ UNCHANGED <<accounts, cons, made, line, people, real, from, moved, raced>>

\* make_mailing_out: Contact.massmail is off for whoever has unsubscribed.
Enlist(u, r) ==
    /\ Request
    /\ owner[r] = u /\ r \notin list[u] \cup asked
    /\ \E a \in accs : acc[a].owner = u /\ acc[a].massmail
    /\ list' = [list EXCEPT ![u] = @ \cup {r}]
    /\ UNCHANGED <<accounts, rows, line, owner, history, raced>>
-----------------------------------------------------------------------------
Fix ==
    \/ \E u \in Users : BeginMailing(u)
    \/ \E c \in Contacts : FixWrong(c)
    \/ AfterWrong
    \/ \E r \in Recipients : FixMissing(r)

Send ==
    \/ LoadAccounts
    \/ \E a \in Accounts : Skip(a) \/ CounterIncrement(a)
    \/ \E a \in Accounts, c \in Contacts : Pick(a, c)
    \/ \E a \in Accounts, r \in Recipients : Deliver(a, r) \/ SendError(a, r)
    \/ EndMailing

Sender == StartRound \/ EndRound \/ Fix \/ Send \/ Crash

Web ==
    \/ \E a \in Accounts, u \in Users, b, m \in BOOLEAN : ChangeAccount(a, u, b, m)
    \/ \E a \in Accounts, m \in BOOLEAN : AddAccount(a, m)
    \/ \E a \in Accounts : DeleteAccount(a)
    \/ \E r \in Recipients : SpecifyVip(r)
    \/ \E r \in Recipients, u \in Users : ChangeMassConts(r, u) \/ Enlist(u, r)
    \/ \E c \in Contacts : Unsubscribe(c)

Next == Sender \/ NewDay \/ Web

Spec == Init /\ [][Next]_vars
-----------------------------------------------------------------------------
(* What must hold.                                                         *)

\* Every variable has its type.
TypeOK ==
    /\ accs \subseteq given /\ given \subseteq Accounts /\ acc \in [Accounts -> Account]
    /\ queues \subseteq Users /\ queue \in [Users -> Seq(Accounts)]
    /\ cons \subseteq made /\ made \subseteq Contacts
    /\ con \in [Contacts -> Contact \cup {NoContact}]
    /\ \A c \in cons : con[c] \in Contact
    /\ owner \in [Recipients -> Users] /\ list \in [Users -> SUBSET Recipients]
    /\ day \in Nat /\ today \in Nat
    /\ pc \in {"idle", "mailing", "wrong", "missing", "accounts", "send", "count"}
    /\ round \subseteq Users /\ su \in Users \cup {None} /\ rids \subseteq Recipients
    /\ sq \in Seq(Accounts)
    /\ fixing \subseteq CASE pc = "wrong" -> Contacts [] pc = "missing" -> Recipients
                          [] pc = "count" -> Accounts [] OTHER -> {}
    /\ visit \subseteq Accounts /\ hand \in Accounts \X Recipients \cup {Nothing}
    /\ copy \in [Accounts -> Account]
    /\ ops \in Nat /\ raced \in BOOLEAN
    /\ real \in [Accounts -> Nat] /\ from \in [Recipients -> Accounts \cup {None}]
    /\ asked \subseteq Recipients /\ moved \subseteq Recipients /\ since \subseteq asked

\* An account is in a queue at most once, whichever copy of the queue is saved
\* last: the recipients of a manager are spread evenly.
QueueDistinct == \A u \in Users : IsInjective(queue[u])

\* A queue never hands out an account of somebody else, a main account or one
\* that was deleted, unless the thread saved an old copy of the queue or of the
\* account, or the account was deleted behind the model's back.
QueueOwn ==
    ~raced => \A u \in Users, a \in Accounts :
                 Contains(queue[u], a) => a \in accs /\ acc[a].owner = u /\ ~acc[a].main

\* A recipient who had a message from an account has all later ones from it,
\* as long as he, the account and the manager stay where they are.
SameSender ==
    ~raced => \A c \in cons : LET r == con[c].rcpt IN
                 from[r] # None /\ r \notin moved => con[c].acc = from[r]

\* The queues hold accounts that may be used, once, and a recipient keeps his
\* sender, however threads, forms and deletions overlap
\* (massmail/utils/sendmassmail.py:197-232).
QueueSound ==
    /\ TypeOK
    /\ QueueDistinct
    /\ QueueOwn
    /\ SameSender

\* Whatever the order of midnight, rounds and new mailings: at most one message
\* over the number in the settings, because the test is ">", and one for each
\* manager, because the date is read once for the mailings of a round.
DailyLimit ==
    ~raced => \A a \in Accounts : real[a] <= EmailsPerDay + 1 + Cardinality(Users)

\* Someone who has unsubscribed and was left where he was is not written to,
\* but for a message that was begun before: a subscription that is gone costs
\* one message at most, the one between the look and the sending
\* (massmail/utils/sendmassmail.py:109 and 127).
StaysOut ==
    [][\A a \in Accounts, r \in Recipients :
         Deliver(a, r) => r \notin asked \ (moved \cup since)]_vars
=============================================================================
