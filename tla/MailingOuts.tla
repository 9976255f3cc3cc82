---------------------------- MODULE MailingOuts ----------------------------
(***************************************************************************)
(* Mass mailing: the MailingOut rows, the SendMassmail thread that works   *)
(* on copies of them, and the web requests that load and save the same     *)
(* rows (massmail/utils/sendmassmail.py, models/mailing_out.py, the admin  *)
(* and the views of massmail).                                             *)
(*                                                                         *)
(* A Django save() writes every field of the object in memory, and on a    *)
(* row that was deleted meanwhile it inserts the row again.  The thread    *)
(* loads its objects once per round and saves them for minutes afterwards, *)
(* a request loads and saves within one request: both are modelled as a    *)
(* read step and a write step with anything in between.                    *)
(*                                                                         *)
(* All mailings carry the same message and content type: mailings of       *)
(* different messages never touch each other's lists.  A comma-separated   *)
(* list of ids is a multiset, a function to Nat (the order is not used).   *)
(***************************************************************************)
EXTENDS Integers, FiniteSets

CONSTANTS Mailings,      \* ids of MailingOut rows
          Recipients,    \* ids of the contacts, companies or leads
          Accounts,      \* ids of the email accounts
          Users,         \* sales managers
          MailingOwner,  \* the owner of each mailing
          AccountOwner,  \* the owner of each email account
          MainAccounts,  \* accounts whose main flag is set: never in a queue
          Initial,       \* mailings that exist, active, at the start
          MaxOps         \* bound: requests, switches and crashes of a behaviour

ASSUME MailingAssumption ==
    /\ IsFiniteSet(Recipients)
    /\ MailingOwner \in [Mailings -> Users]
    /\ AccountOwner \in [Accounts -> Users]
    /\ MainAccounts \subseteq Accounts
    /\ Initial \subseteq Mailings /\ IsFiniteSet(Initial)
    /\ MaxOps \in Nat
    /\ "none" \notin Accounts      \* so that no account is taken for NoMail

VARIABLES
    live,       \* ids of the rows in the MailingOut table
    mo,         \* the rows
    used,       \* ids given out so far: a primary key is never reused
    mc,         \* the account of each recipient's MassContact, or "none"
    unsub,      \* recipients whose MassContact has massmail = False
    exists,     \* recipients that are still in the CRM
    on,         \* accounts with massmail = True
    full,       \* accounts over emails_per_day today
    pc,         \* where the sender thread is
    todo,       \* mailings of the round still to be popped
    local,      \* the sender's copies of the rows
    cur,        \* the mailing being sent
    rids,       \* recipient_ids: the snapshot send_massmail searches with
    eas,        \* email accounts of the loop still to be visited
    target,     \* the account and the recipient being mailed
    web,        \* the request that has loaded a row and not yet saved it
    merge,      \* merges that are not through, by the id of the row they make
    ops,        \* operations used, bounded by MaxOps
    sent,       \* history: messages delivered to each recipient
    due,        \* history: times each recipient was put on a mailing
    lists,      \* history: recipients somebody put on a mailing that is kept
    since,      \* history: results recorded since exclude looked for them
    disturbed   \* history: a write was lost or a message sent unrecorded

db      == <<live, mo, used>>
env     == <<exists, unsub>>
sender  == <<pc, todo, local, cur, rids, eas, target>>
requests == <<web, merge, since>>
history == <<due, lists>>
vars == <<db, mc, env, on, full, sender, requests, ops, sent, history, disturbed>>
-----------------------------------------------------------------------------
(* Lists of ids and rows.                                                  *)

Ids == [Recipients -> Nat]
NoIds == [r \in Recipients |-> 0]
Members(l) == {r \in Recipients : l[r] > 0}
Drop(l, r) == [l EXCEPT ![r] = @ - 1]
Add(l, r) == [l EXCEPT ![r] = @ + 1]
Joined(l, k) == [r \in Recipients |-> l[r] + k[r]]
OnceEach(S) == [r \in Recipients |-> IF r \in S THEN 1 ELSE 0]
Size(l) == Cardinality(UNION {{r} \X (1 .. l[r]) : r \in Recipients})

Status == {"A", "E", "P", "I", "D"}
Row == [status : Status, rcpt : Ids, succ : Ids, failed : Ids, num : Int]
Blank == [status |-> "P", rcpt |-> NoIds, succ |-> NoIds,
          failed |-> NoIds, num |-> 0]
NewRow(st, S) == [Blank EXCEPT !.status = st, !.rcpt = OnceEach(S),
                               !.num = Size(OnceEach(S))]

OnLists(row) == Members(row.rcpt) \cup Members(row.succ) \cup Members(row.failed)
Covered(D, rows) == UNION {OnLists(rows[m]) : m \in D}

NoMail == "none"
NoWeb == [kind |-> "none"]
Nobody == <<>>
Pairs == Accounts \X Recipients
Requests == [kind : {"change", "failed", "exclude"}, m : Mailings, row : Row]
    \cup [kind : {"looked"}, m : Mailings, row : Row, out : SUBSET Recipients]
NoMerge == [stage |-> "none"]
Merges == [stage : {"read", "united"}, a : Mailings, b : Mailings, ra : Row, rb : Row]

\* recipients_number is a PositiveIntegerField: the database refuses the row.
Saves(row) == row.num >= 0

\* Rows whose lists have been copied to the united one, and that are about to
\* be deleted: what is written to them is lost.
Doomed == UNION {{merge[m].a, merge[m].b} : m \in {k \in Mailings : merge[k].stage = "united"}}
Kept == live \ Doomed
Stale(m, base) == m \notin Kept \/ mo[m] # base
SaveRow(m, row) == /\ live' = live \cup {m}
                   /\ mo' = [mo EXCEPT ![m] = row]
                   /\ UNCHANGED used
-----------------------------------------------------------------------------
Init ==
    /\ live = Initial /\ used = Initial
    /\ mo = [m \in Mailings |->
                IF m \in Initial THEN NewRow("A", Recipients) ELSE Blank]
    /\ mc = [r \in Recipients |-> NoMail]
    /\ unsub = {} /\ exists = Recipients
    /\ on = Accounts /\ full = {}
    /\ pc = "idle" /\ todo = {} /\ cur = NoMail /\ rids = {} /\ eas = {}
    /\ local = [m \in Mailings |-> Blank]
    /\ target = Nobody
    /\ web = NoWeb /\ since = {}
    /\ merge = [m \in Mailings |-> NoMerge]
    /\ ops = 0
    /\ sent = NoIds
    /\ due = [r \in Recipients |-> Cardinality(Initial)]
    /\ lists = IF Initial = {} THEN {} ELSE Recipients
    /\ disturbed = FALSE
-----------------------------------------------------------------------------
(* The sender thread.                                                      *)

SendingFor(m) == m \in live /\ mo[m].status \in {"A", "E"}

\* The oldest choice is random (order_by('?')); check_owners keeps one
\* mailing of each owner.
CheckOwners(S, T) ==
    /\ S \subseteq T
    /\ \A m \in T : \E k \in S : MailingOwner[k] = MailingOwner[m]
    /\ \A m, k \in S : MailingOwner[m] = MailingOwner[k] => m = k

Mutant_StartRoundActiveOnly ==          \* status "E" is not taken up again
    /\ pc = "idle"
    /\ LET active == {m \in live : mo[m].status = "A"} IN
       /\ active # {}
       /\ \E S \in SUBSET active :
            /\ CheckOwners(S, active)
            /\ todo' = S
            /\ local' = [m \in Mailings |-> IF m \in S THEN mo[m] ELSE Blank]
            /\ disturbed' = (disturbed \/ S \cap Doomed # {})
    /\ pc' = "mailing"
    /\ UNCHANGED <<db, mc, env, on, full, cur, rids, eas, target, requests, ops,
                   sent, history>>

StartRound ==
    /\ pc = "idle"
    /\ LET active == {m \in Mailings : SendingFor(m)} IN
       /\ active # {}
       /\ \E S \in SUBSET active :
            /\ CheckOwners(S, active)
            /\ todo' = S
            /\ local' = [m \in Mailings |-> IF m \in S THEN mo[m] ELSE Blank]
            /\ disturbed' = (disturbed \/ S \cap Doomed # {})
    /\ pc' = "mailing"
    /\ UNCHANGED <<db, mc, env, on, full, cur, rids, eas, target, requests, ops,
                   sent, history>>

\* An exception that reaches the outer try of send_massmail ends the round.
Forget == /\ pc' = "idle" /\ todo' = {} /\ cur' = NoMail
          /\ rids' = {} /\ eas' = {} /\ target' = Nobody
          /\ local' = [m \in Mailings |-> Blank]

EndRound ==
    /\ pc = "mailing" /\ todo = {}
    /\ Forget
    /\ UNCHANGED <<db, mc, env, on, full, requests, ops, sent, history, disturbed>>

SuccessReport(m) ==
    /\ pc = "mailing" /\ m \in todo
    /\ Members(local[m].rcpt) = {}
    /\ SaveRow(m, [local[m] EXCEPT !.status = "D"])
    /\ disturbed' = (disturbed \/ Stale(m, local[m]))
    /\ todo' = todo \ {m}
    /\ local' = [local EXCEPT ![m] = Blank]
    /\ UNCHANGED <<mc, env, on, full, pc, cur, rids, eas, target, requests, ops,
                   sent, history>>

\* fix_masscontacts: contacts without a MassContact, or with one on another
\* owner's account, get accounts of the owner's queue.
Pool(m) == {a \in Accounts \ MainAccounts : AccountOwner[a] = MailingOwner[m]}
NeedsFix(m, r) == mc[r] = NoMail \/ AccountOwner[mc[r]] # MailingOwner[m]
FixMassContacts(m, rs) ==
    mc' \in {f \in [Recipients -> Accounts \cup {NoMail}] :
               \A r \in Recipients :
                  IF r \in rs /\ NeedsFix(m, r) /\ Pool(m) # {}
                  THEN f[r] \in Pool(m)
                  ELSE f[r] = mc[r]}

Mutant_BeginMailingFreshIds(m) ==       \* ids read anew, the row in hand is old
    /\ pc = "mailing" /\ m \in todo
    /\ Members(local[m].rcpt) # {}
    /\ rids' = Members(mo[m].rcpt)
    /\ FixMassContacts(m, Members(mo[m].rcpt))
    /\ eas' = {a \in on : AccountOwner[a] = MailingOwner[m]}
    /\ cur' = m
    /\ todo' = todo \ {m}
    /\ pc' = "accounts"
    /\ UNCHANGED <<db, env, on, full, local, target, requests, ops, sent, history,
                   disturbed>>

BeginMailing(m) ==
    /\ pc = "mailing" /\ m \in todo
    /\ Members(local[m].rcpt) # {}
    /\ rids' = Members(local[m].rcpt)
    /\ FixMassContacts(m, Members(local[m].rcpt))
    /\ eas' = {a \in on : AccountOwner[a] = MailingOwner[m]}
    /\ cur' = m
    /\ todo' = todo \ {m}
    /\ pc' = "accounts"
    /\ UNCHANGED <<db, env, on, full, local, target, requests, ops, sent, history,
                   disturbed>>

\* _get_masscontact searches the snapshot, not the list as it is now.
Eligible(a) == {r \in rids \ unsub : mc[r] = a}

NextAccount(a) == eas' = eas \ {a} /\ pc' = "accounts" /\ target' = Nobody

SkipAccount(a) ==
    /\ pc = "accounts" /\ a \in eas
    /\ a \in full \/ Eligible(a) = {}
    /\ NextAccount(a)
    /\ UNCHANGED <<db, mc, env, on, full, todo, local, cur, rids, requests, ops,
                   sent, history, disturbed>>

EndMailing ==
    /\ pc = "accounts" /\ eas = {}
    /\ pc' = "mailing" /\ cur' = NoMail /\ rids' = {}
    /\ local' = [local EXCEPT ![cur] = Blank]
    /\ UNCHANGED <<db, mc, env, on, full, todo, eas, target, requests, ops, sent,
                   history, disturbed>>

\* get_recipient: the object of the contact was deleted from the CRM.
DropGone(a, r) ==
    /\ pc = "accounts" /\ a \in eas \ full
    /\ r \in Eligible(a) \ exists
    /\ LET row == [local[cur] EXCEPT !.rcpt = Drop(@, r), !.num = @ - 1] IN
       IF local[cur].rcpt[r] > 0 /\ Saves(row)
       THEN /\ SaveRow(cur, row)
            /\ local' = [local EXCEPT ![cur] = row]
            /\ disturbed' = (disturbed \/ Stale(cur, local[cur]))
            /\ mc' = [mc EXCEPT ![r] = NoMail]
            /\ NextAccount(a)
            /\ UNCHANGED <<todo, cur, rids>>
       ELSE /\ Forget
            /\ UNCHANGED <<db, mc, disturbed>>
    /\ UNCHANGED <<env, on, full, requests, ops, sent, history>>

Pick(a, r) ==
    /\ pc = "accounts" /\ a \in eas \ full
    /\ r \in Eligible(a) \cap exists
    /\ pc' = "send" /\ target' = <<a, r>>
    /\ UNCHANGED <<db, mc, env, on, full, todo, local, cur, rids, eas,
                   requests, ops, sent, history, disturbed>>

Deliver ==
    /\ pc = "send"
    /\ sent' = Add(sent, target[2])
    /\ pc' = "sent"
    /\ UNCHANGED <<db, mc, env, on, full, todo, local, cur, rids, eas, target,
                   requests, ops, history, disturbed>>

\* report(off=True): the account is switched off, the recipient stays.
AuthError ==
    /\ pc = "send"
    /\ ops < MaxOps /\ ops' = ops + 1
    /\ LET row == [local[cur] EXCEPT !.status = "E"] IN
       /\ on' = on \ {target[1]}
       /\ SaveRow(cur, row)
       /\ local' = [local EXCEPT ![cur] = row]
    /\ disturbed' = (disturbed \/ Stale(cur, local[cur]))
    /\ NextAccount(target[1])
    /\ UNCHANGED <<mc, env, full, todo, cur, rids, requests, sent, history>>

\* report(): the recipient moves to the failed ids.  The second disjunct: the
\* connection dropped after the server had taken the message.
SendError ==
    /\ pc = "send"
    /\ ops < MaxOps /\ ops' = ops + 1
    /\ LET r == target[2]
           row == [local[cur] EXCEPT !.status = "E", !.rcpt = Drop(@, r),
                                     !.failed = Add(@, r)] IN
       /\ IF local[cur].rcpt[r] > 0
          THEN /\ SaveRow(cur, row)
               /\ local' = [local EXCEPT ![cur] = row]
               /\ NextAccount(target[1])
               /\ UNCHANGED <<todo, cur, rids>>
          ELSE Forget /\ UNCHANGED db
       /\ LET base == disturbed \/ (local[cur].rcpt[r] > 0 /\ Stale(cur, local[cur])) IN
          \/ sent' = sent /\ disturbed' = base
          \/ sent' = Add(sent, r) /\ disturbed' = TRUE
    /\ UNCHANGED <<mc, env, on, full, requests, history>>

Noted == since' = IF web.kind = "looked" THEN since \cup {target[2]} ELSE since

Mutant_RecordRemovesTwice ==            \* remove_recipient_ids is called as well
    /\ pc = "sent"
    /\ LET row == [local[cur] EXCEPT !.rcpt = Drop(Drop(@, target[2]), target[2]),
                                     !.succ = Add(@, target[2])] IN
       /\ SaveRow(cur, row)
       /\ local' = [local EXCEPT ![cur] = row]
       /\ disturbed' = (disturbed \/ Stale(cur, local[cur]))
    /\ pc' = "count"
    /\ Noted
    /\ UNCHANGED <<todo, cur, rids, eas, target, mc, env, on, full, web, merge, ops,
                   sent, history>>

\* move_to_successful_ids; list.remove raises ValueError when the id is no
\* longer on the list, and report() raises it again.
Record ==
    /\ pc = "sent"
    /\ LET r == target[2]
           row == [local[cur] EXCEPT !.rcpt = Drop(@, r), !.succ = Add(@, r)] IN
       IF local[cur].rcpt[r] > 0
       THEN /\ SaveRow(cur, row)
            /\ local' = [local EXCEPT ![cur] = row]
            /\ disturbed' = (disturbed \/ Stale(cur, local[cur]))
            /\ pc' = "count"
            /\ UNCHANGED <<todo, cur, rids, eas, target>>
       ELSE /\ Forget
            /\ UNCHANGED <<db, disturbed>>
    /\ Noted
    /\ UNCHANGED <<mc, env, on, full, web, merge, ops, sent, history>>

\* The account was loaded with massmail = True and is saved with it.
CounterIncrement ==
    /\ pc = "count"
    /\ on' = on \cup {target[1]}
    /\ full' \in {full, full \cup {target[1]}}
    /\ SaveRow(cur, local[cur])
    /\ disturbed' = (disturbed \/ Stale(cur, local[cur]))
    /\ NextAccount(target[1])
    /\ UNCHANGED <<mc, env, todo, local, cur, rids, requests, ops, sent, history>>

NewDay ==
    /\ full # {} /\ full' = {}
    /\ UNCHANGED <<db, mc, env, on, sender, requests, ops, sent, history, disturbed>>

\* The process is restarted; a daemon thread loses everything it held.
Crash ==
    /\ pc # "idle"
    /\ ops < MaxOps /\ ops' = ops + 1
    /\ Forget
    /\ disturbed' = (disturbed \/ pc = "sent")
    /\ UNCHANGED <<db, mc, env, on, full, requests, sent, history>>
-----------------------------------------------------------------------------
(* Web requests.                                                           *)

Operation == ops < MaxOps /\ ops' = ops + 1

\* A new mailing, paused, for some who have not unsubscribed.
NewMailing(m, S) ==
    /\ Operation
    /\ m \notin used /\ S # {} /\ S \subseteq exists \ unsub
    /\ live' = live \cup {m} /\ used' = used \cup {m}
    /\ mo' = [mo EXCEPT ![m] = NewRow("P", S)]
    /\ due' = Joined(due, OnceEach(S))
    /\ lists' = lists \cup S
    /\ UNCHANGED <<mc, env, on, full, sender, requests, sent, disturbed>>

\* make_mailing_out, for the selected rows: the owner has an account.
MakeMailingOut(m, S) ==
    (\E a \in on : AccountOwner[a] = MailingOwner[m]) /\ NewMailing(m, S)

\* make_massmail, for the rows a form describes: he had one when he opened it.
MakeMassmail(m, S) ==
    (\E a \in Accounts : AccountOwner[a] = MailingOwner[m]) /\ NewMailing(m, S)

Load(kind, m) ==
    /\ Operation
    /\ web = NoWeb /\ m \in live
    /\ web' = [kind |-> kind, m |-> m, row |-> mo[m]]
    /\ UNCHANGED <<db, mc, env, on, full, sender, merge, since, sent, history, disturbed>>

Reply == /\ web' = NoWeb /\ since' = {}
         /\ UNCHANGED <<mc, env, on, full, sender, merge, ops, sent, due>>

\* MailingOutAdmin.save_model: without an account the mailing stays paused.
SaveModel(st) ==
    /\ web.kind = "change"
    /\ LET usable == \E a \in on : AccountOwner[a] = MailingOwner[web.m]
           new == IF st = "A" /\ web.row.status # "A" /\ ~usable THEN "P" ELSE st
       IN  SaveRow(web.m, [web.row EXCEPT !.status = new])
    /\ disturbed' = (disturbed \/ Stale(web.m, web.row))
    /\ Reply /\ UNCHANGED lists

Mutant_SendFailedKeeps ==               \* the failed ids are not emptied
    /\ web.kind = "failed"
    /\ SaveRow(web.m, [web.row EXCEPT !.status = "A", !.rcpt = Joined(@, web.row.failed)])
    /\ disturbed' = (disturbed \/ Stale(web.m, web.row))
    /\ Reply /\ UNCHANGED lists

SendFailedRecipients ==
    /\ web.kind = "failed"
    /\ SaveRow(web.m, [web.row EXCEPT !.status = "A",
                                      !.rcpt = Joined(@, web.row.failed),
                                      !.failed = NoIds])
    /\ disturbed' = (disturbed \/ Stale(web.m, web.row))
    /\ Reply /\ UNCHANGED lists

Mutant_ExcludedElsewhere(l) ==          \* the mailing's own list is forgotten
    UNION {Members(mo[k].succ) :
             k \in {j \in live \ {web.m} : Members(mo[j].succ) \cap Members(l) # {}}}

Excluded(l) ==
    UNION {Members(mo[k].succ) :
             k \in {j \in live : Members(mo[j].succ) \cap Members(l) # {}}}

\* exclude_recipients reads the other mailings after the mailing itself ...
LookForSent ==
    /\ web.kind = "exclude"
    /\ web' = [kind |-> "looked", m |-> web.m, row |-> web.row,
               out |-> Excluded(web.row.rcpt)]
    /\ since' = {}
    /\ UNCHANGED <<db, mc, env, on, full, sender, merge, ops, sent, history, disturbed>>

\* ... and then saves two fields.  Who is off the list for a result that was
\* deleted meanwhile, with its mailing, is on no list any more.
Keep(l, S) == [r \in Recipients |-> IF r \in S THEN 0 ELSE l[r]]

SaveExcluded ==
    /\ web.kind = "looked"
    /\ LET rest == Keep(web.row.rcpt, web.out) IN
       IF web.out # {} /\ web.m \in live
       THEN /\ mo' = [mo EXCEPT ![web.m].rcpt = rest, ![web.m].num = Size(rest)]
            /\ disturbed' = (disturbed \/ Stale(web.m, web.row))
            /\ lists' = lists \ (web.out \ Covered(Kept, mo'))
            /\ UNCHANGED <<live, used>>
       ELSE UNCHANGED <<db, lists, disturbed>>
    /\ Reply

\* merge_mailing_outs reads the rows, ...
ReadForMerge(a, b, m) ==
    /\ Operation
    /\ a \in live /\ b \in live \ {a} /\ m \notin used
    /\ MailingOwner[a] = MailingOwner[b] /\ MailingOwner[m] = MailingOwner[a]
    /\ used' = used \cup {m}
    /\ merge' = [merge EXCEPT ![m] =
                   [stage |-> "read", a |-> a, b |-> b, ra |-> mo[a], rb |-> mo[b]]]
    /\ UNCHANGED <<live, mo, mc, env, on, full, sender, web, since, sent, history, disturbed>>

\* ... inserts the first of them under a new id with the lists of both, ...
United(x, y) == [status |-> x.status,
                 rcpt |-> OnceEach(Members(x.rcpt) \cup Members(y.rcpt)),
                 succ |-> Joined(x.succ, y.succ),
                 failed |-> Joined(x.failed, y.failed),
                 num |-> x.num + y.num]

Mutant_DeleteMergedFirst(m) ==          \* the originals go before the union comes
    /\ merge[m].stage = "read"
    /\ live' = live \ {merge[m].a, merge[m].b} /\ UNCHANGED used
    /\ mo' = [mo EXCEPT ![merge[m].a] = Blank, ![merge[m].b] = Blank]
    /\ UNCHANGED <<mc, env, on, full, sender, requests, ops, sent, history, disturbed>>

InsertUnited(m) ==
    /\ merge[m].stage = "read"
    /\ SaveRow(m, United(merge[m].ra, merge[m].rb))
    /\ merge' = [merge EXCEPT ![m].stage = "united"]
    /\ disturbed' = (disturbed \/ Stale(merge[m].a, merge[m].ra)
                               \/ Stale(merge[m].b, merge[m].rb))
    /\ UNCHANGED <<mc, env, on, full, sender, web, since, ops, sent, history>>

Mutant_DeleteMergedNot(m) ==            \* queryset.delete() is left out
    /\ merge[m].stage = "united"
    /\ merge' = [merge EXCEPT ![m] = NoMerge]
    /\ UNCHANGED <<db, mc, env, on, full, sender, web, since, ops, sent, history, disturbed>>

\* ... and deletes those of the rows that are still there.
DeleteMerged(m) ==
    /\ merge[m].stage = "united"
    /\ live' = live \ {merge[m].a, merge[m].b} /\ UNCHANGED used
    /\ mo' = [mo EXCEPT ![merge[m].a] = Blank, ![merge[m].b] = Blank]
    /\ merge' = [merge EXCEPT ![m] = NoMerge]
    /\ UNCHANGED <<mc, env, on, full, sender, web, since, ops, sent, history, disturbed>>

\* The process ends, or the database refuses the next statement.
BreakMerge(m) ==
    /\ Operation
    /\ merge[m] # NoMerge
    /\ merge' = [merge EXCEPT ![m] = NoMerge]
    /\ disturbed' = (disturbed \/ merge[m].stage = "united")
    /\ UNCHANGED <<db, mc, env, on, full, sender, web, since, sent, history>>

DeleteMailing(m) ==
    /\ Operation
    /\ m \in live
    /\ live' = live \ {m} /\ UNCHANGED used
    /\ mo' = [mo EXCEPT ![m] = Blank]
    /\ lists' = lists \cap Covered(Kept \ {m}, mo')
    /\ UNCHANGED <<mc, env, on, full, sender, requests, sent, due, disturbed>>

Unsubscribe(r) ==
    /\ Operation
    /\ r \notin unsub /\ mc[r] # NoMail
    /\ unsub' = unsub \cup {r}
    /\ UNCHANGED <<db, mc, exists, on, full, sender, requests, sent, history, disturbed>>

\* A contact moves to another account, or is deleted and made anew later with
\* massmail = True.  Moved in the middle of a pass, it can be visited twice.
MoveContact(a, r) ==
    /\ Operation
    /\ mc' = [mc EXCEPT ![r] = a]
    /\ disturbed' = (disturbed \/ (pc # "idle" /\ r \in rids))
    /\ UNCHANGED <<db, exists, on, full, sender, requests, sent, history>>

\* specify_vip_recipients: to the owner's main account.
SpecifyVip(a, r) ==
    /\ a \in MainAccounts /\ mc[r] # a
    /\ MoveContact(a, r) /\ UNCHANGED unsub

\* change_massconts: to the next account of the new owner's queue, or none.
ChangeMassConts(a, r) ==
    /\ a \in Accounts \ MainAccounts /\ mc[r] \notin {a, NoMail}
    /\ \/ MoveContact(a, r) /\ UNCHANGED unsub
       \/ MoveContact(NoMail, r) /\ unsub' = unsub \ {r}

\* BaseContact.delete deletes the contact too; a cascade from the company does
\* not call it.
DeleteRecipient(r) ==
    /\ Operation
    /\ r \in exists
    /\ exists' = exists \ {r}
    /\ \/ mc' = [mc EXCEPT ![r] = NoMail] /\ unsub' = unsub \ {r}
       \/ UNCHANGED <<mc, unsub>>
    /\ UNCHANGED <<db, on, full, sender, requests, sent, history, disturbed>>

\* The massmail check box of EmailAccountAdmin.
SwitchAccount(a) ==
    /\ Operation
    /\ on' = IF a \in on THEN on \ {a} ELSE on \cup {a}
    /\ UNCHANGED <<db, mc, env, full, sender, requests, sent, history, disturbed>>
-----------------------------------------------------------------------------
Round ==
    \/ StartRound
    \/ EndRound
    \/ \E m \in Mailings : SuccessReport(m) \/ BeginMailing(m)
    \/ \E a \in Accounts : SkipAccount(a)
    \/ \E a \in Accounts, r \in Recipients : DropGone(a, r) \/ Pick(a, r)
    \/ EndMailing
    \/ Deliver
    \/ Record
    \/ CounterIncrement

Failure == AuthError \/ SendError \/ Crash

SaveRequest ==
    \/ \E st \in Status : SaveModel(st)
    \/ SendFailedRecipients
    \/ LookForSent
    \/ SaveExcluded
Merging == \E m \in Mailings : InsertUnited(m) \/ DeleteMerged(m)

Web ==
    \/ \E m \in Mailings, S \in SUBSET Recipients : MakeMailingOut(m, S) \/ MakeMassmail(m, S)
    \/ \E m \in Mailings, k \in {"change", "failed", "exclude"} : Load(k, m)
    \/ SaveRequest
    \/ Merging
    \/ \E a, b, m \in Mailings : ReadForMerge(a, b, m)
    \/ \E m \in Mailings : BreakMerge(m)
    \/ \E m \in Mailings : DeleteMailing(m)
    \/ \E r \in Recipients : Unsubscribe(r) \/ DeleteRecipient(r)
    \/ \E a \in Accounts, r \in Recipients : SpecifyVip(a, r) \/ ChangeMassConts(a, r)
    \/ \E a \in Accounts : SwitchAccount(a)

Next == Round \/ Failure \/ NewDay \/ Web

Spec == Init /\ [][Next]_vars

\* The thread is never blocked for good, days pass, a request that was
\* started is answered; nobody is obliged to start one.
\* Mailings of one owner are drawn at random, so each is drawn again and again.
Fairness == /\ WF_vars(Round) /\ WF_vars(NewDay) /\ WF_vars(SaveRequest) /\ WF_vars(Merging)
            /\ \A m \in Mailings : SF_vars(StartRound /\ m \in todo')
FairSpec == Spec /\ Fairness
-----------------------------------------------------------------------------
(* What must hold.                                                         *)

\* Every variable has its type, and what the sender holds fits where it is.
TypeOK ==
    /\ live \subseteq Mailings /\ used \subseteq Mailings
    /\ mo \in [Mailings -> Row]
    /\ mc \in [Recipients -> Accounts \cup {NoMail}]
    /\ unsub \subseteq Recipients /\ exists \subseteq Recipients
    /\ on \subseteq Accounts /\ full \subseteq Accounts
    /\ pc \in {"idle", "mailing", "accounts", "send", "sent", "count"}
    /\ todo \subseteq Mailings
    /\ local \in [Mailings -> Row]
    /\ cur \in Mailings \cup {NoMail}
    /\ pc \in {"accounts", "send", "sent", "count"} => cur \in Mailings
    /\ rids \subseteq Recipients /\ eas \subseteq Accounts
    /\ target \in Pairs \cup {Nobody}
    /\ pc \in {"send", "sent", "count"} => target \in Pairs
    /\ web = NoWeb \/ web \in Requests
    /\ merge \in [Mailings -> Merges \cup {NoMerge}]
    /\ since \subseteq Recipients
    /\ ops \in Nat
    /\ sent \in Ids /\ due \in Ids
    /\ lists \subseteq Recipients
    /\ disturbed \in BOOLEAN

\* A recipient put on a mailing stays on one of the three lists of some
\* mailing that is not about to go, for as long as he is in the CRM: exclude,
\* merge, retry and the sender only move him.  (disturbed: unless a write was
\* lost.)
NothingLost ==
    ~disturbed => (lists \cap exists) \subseteq Covered(Kept, mo)

\* No recipient gets the message more often than he was put on a mailing,
\* merging, retrying and restarting included, unless one of the things
\* happened that disturbed records: a crash between sending and recording, a
\* save over a newer row or over one that a merge has copied, a merge of rows
\* that are being merged or changed, or that ends half way, a round that begins
\* with a row that is already copied, a connection lost after the message was
\* taken, a contact moved to another account during the round.
AtMostOnce == ~disturbed => \A r \in Recipients : sent[r] <= due[r]

\* A message may still go to those on the list and to those who failed, and
\* does not to the one whose result is not recorded yet.
Tickets(r) == UNION {{m} \X (1 .. (mo[m].rcpt[r] + mo[m].failed[r])) : m \in Kept}
Left == [r \in Recipients |->
           Cardinality(Tickets(r)) - IF pc = "sent" /\ target[2] = r THEN 1 ELSE 0]
D == INSTANCE Delivery WITH left <- Left, accident <- disturbed

\* Sending and recording, two steps between which mailings are retried and
\* excluded from, and a merge in its three steps, are each one step to the
\* recipients: what they may still get
\* grows with a new mailing only, and each message uses one of it up.
Delivered == D!Spec

\* One pass of the sender: the recipient being mailed is still on the list of
\* the mailing in hand, so that recording the result cannot raise.
RecordCannotRaise ==
    ~disturbed /\ pc \in {"send", "sent"} => local[cur].rcpt[target[2]] > 0

\* When exclude is done, whoever is on the list and among the successful ids
\* of a mailing was recorded after exclude had looked, whatever the sender,
\* merges and deletions did since the list was loaded (a list that changed
\* meanwhile and that exclude did not save is another's).
ExcludeWorks ==
    [][\A m \in Mailings :
         web.kind = "looked" /\ web.m = m /\ web' = NoWeb
         /\ ~disturbed' /\ ~Stale(m, web.row) =>
            \A k \in live : Members(mo'[m].rcpt) \cap Members(mo[k].succ) \subseteq since]_vars

\* Once people leave the system alone, every recipient of an active mailing
\* that can be mailed leaves the list.  He cannot be mailed when he has
\* unsubscribed, has no contact or one on an account that is off, or when
\* recipients_number of some mailing has fallen below its list (the database
\* then refuses the decrement and the exception ends every round).
Mailable(r) == r \notin unsub /\ mc[r] \in on
Poisoned == \E m \in live : mo[m].num < Size(mo[m].rcpt)
Drains ==
    \A m \in Mailings, r \in Recipients :
       (ops = MaxOps /\ SendingFor(m) /\ mo[m].rcpt[r] > 0)
          ~> (~SendingFor(m) \/ mo[m].rcpt[r] = 0 \/ ~Mailable(r) \/ Poisoned)
=============================================================================
