----------------------------- MODULE EmailImport -----------------------------
(***************************************************************************)
(* How mails of a mailbox become CrmEmail rows and inquiries become        *)
(* requests: the threads ImportEmails, RestoreImapEmails and               *)
(* CreateEmailInquiry, their queues, and the view that imports mails by    *)
(* hand (crm/utils/import_emails.py, restore_imap_emails.py,               *)
(* create_email_request.py, common/views/select_emails_import.py).         *)
(*                                                                         *)
(* Every process of the site runs the three threads; they share only the   *)
(* database and the mailbox.  One account and its INBOX are modelled: the  *)
(* box of sent mails is handled the same way with columns of its own, and  *)
(* accounts do not share a row.  UIDVALIDITY does not change.              *)
(*                                                                         *)
(* The EmailAccount object a scan works on is shared by two threads.  What *)
(* the importer uses of it is in imp[p]; the restorer takes the mails of a *)
(* scan in order and has finished one scan before it meets the next, so    *)
(* the start_incoming_uid of its object is one number, seen[p].            *)
(***************************************************************************)
EXTENDS Integers, FiniteSets, Sequences, Functions, FiniteSetsExt

CONSTANTS Procs,       \* processes of the site
          MaxMail,     \* bound: mails that ever arrive; the uid is the order
          Mailboxes,   \* what the mails may be, see Kinds
          Batch,       \* mails a scan puts at most: 51 in the code
          QueueSize,   \* size of eml_queue: 4
          InqSize,     \* size of inq_eml_queue: 2
          MaxSends,    \* bound: requests that put the account; 0 for no bound
          MaxManual,   \* bound: imports by hand
          MaxOps       \* bound: failures and crashes

Mails == 1..MaxMail
\* A mail with a ticket; one the CRM sent itself, with a ticket too; one where
\* the text "[ticket:" is found but no ticket; one without that text.
Kinds == {"ticket", "crm", "text", "plain"}

ASSUME ImportAssumption ==
    /\ MaxMail \in Nat /\ Batch \in Nat \ {0}
    /\ QueueSize \in Nat \ {0} /\ InqSize \in Nat \ {0}
    /\ MaxSends \in Nat /\ MaxManual \in Nat /\ MaxOps \in Nat
    /\ Mailboxes \subseteq [Mails -> Kinds]
    /\ IsFiniteSet(Procs)

VARIABLES
    kind,     \* what each mail is, or will be
    inbox,    \* number of mails in the box: UIDNEXT is inbox + 1
    ea,       \* the EmailAccount row: start_incoming_uid, inbox_uidnext, and
              \* whether last_import_dt is less than two minutes ago
    rows,     \* number of CrmEmail rows of each mail
    inqs,     \* how many of them were imported as an inquiry
    reqs,     \* number of requests made from each mail
    eaq,      \* ea_queue of a process: the objects that wait for a scan
    imp,      \* its ImportEmails thread
    emlq,     \* its eml_queue
    res,      \* its RestoreImapEmails thread
    seen,     \* start_incoming_uid of the object whose mails res is at
    inqq,     \* its inq_eml_queue
    cei,      \* the mail CreateEmailInquiry is at, or 0
    web,      \* its request that imports by hand
    sends,    \* requests that put the account, bounded by MaxSends
    manual,   \* imports by hand used, bounded by MaxManual
    ops,      \* failures and crashes used, bounded by MaxOps
    missed,   \* history: mails a failure, the end of a batch or an import by
              \* hand has put out of sight
    raced     \* history: mails two processes looked up at the same time

box  == <<kind, inbox>>
db   == <<ea, rows, inqs, reqs>>
scan == <<eaq, imp>>
rest == <<res, seen>>
tail == <<inqq, cei>>
user == <<web, manual, sends>>
hist == <<missed, raced>>
vars == <<box, db, scan, emlq, rest, tail, user, ops, hist>>
-----------------------------------------------------------------------------
Idle == [pc |-> "idle", start |-> 0, next |-> 0, upd |-> FALSE,
         todo |-> {}, i |-> 0, first |-> FALSE]
NoItem == [uid |-> 0, t |-> "scan", base |-> 0]
Free == [pc |-> "idle", item |-> NoItem]
Ended == [pc |-> "dead", item |-> NoItem]
NoWeb == [todo |-> {}, t |-> "ticket"]

Init ==
    /\ kind \in Mailboxes /\ inbox = 0
    /\ ea = [start |-> 1, next |-> 1, recent |-> FALSE]
    /\ rows = [m \in Mails |-> 0] /\ inqs = rows /\ reqs = rows
    /\ eaq = [p \in Procs |-> <<>>] /\ emlq = eaq /\ inqq = eaq
    /\ imp = [p \in Procs |-> Idle]
    /\ res = [p \in Procs |-> Free] /\ seen = [p \in Procs |-> 1]
    /\ cei = [p \in Procs |-> 0] /\ web = [p \in Procs |-> NoWeb]
    /\ sends = 0 /\ manual = 0 /\ ops = 0
    /\ missed = [failed |-> {}, cut |-> {}, jumped |-> {}]
    /\ raced = {}

Fail == ops < MaxOps /\ ops' = ops + 1
Lose(how, S) == missed' = [missed EXCEPT ![how] = @ \cup S]

Arrive ==
    /\ inbox < MaxMail /\ inbox' = inbox + 1
    /\ UNCHANGED <<kind, db, scan, emlq, rest, tail, user, ops, hist>>

\* Two minutes pass since last_import_dt.
Elapse ==
    /\ ea.recent /\ ea' = [ea EXCEPT !.recent = FALSE]
    /\ UNCHANGED <<box, rows, inqs, reqs, scan, emlq, rest, tail, user, ops, hist>>
-----------------------------------------------------------------------------
(* ImportEmails.                                                           *)

\* Any request of the owner loads the account and puts it, unless it waits
\* already.
Send(p) ==
    /\ eaq[p] = <<>>
    /\ MaxSends = 0 \/ sends < MaxSends
    /\ sends' = IF MaxSends = 0 THEN 0 ELSE sends + 1
    /\ eaq' = [eaq EXCEPT ![p] = <<[start |-> ea.start, next |-> ea.next]>>]
    /\ UNCHANGED <<box, db, imp, emlq, rest, tail, web, manual, ops, hist>>

Take(p) ==
    /\ imp[p].pc = "idle" /\ eaq[p] # <<>>
    /\ imp' = [imp EXCEPT ![p].pc = "check", ![p].start = Head(eaq[p]).start,
                          ![p].next = Head(eaq[p]).next]
    /\ eaq' = [eaq EXCEPT ![p] = Tail(@)]
    /\ UNCHANGED <<box, db, emlq, rest, tail, user, ops, hist>>

\* Of the row only last_import_dt is read again.
Check(p) ==
    /\ imp[p].pc = "check"
    /\ imp' = [imp EXCEPT ![p] = IF ea.recent THEN Idle ELSE [@ EXCEPT !.pc = "mark"]]
    /\ UNCHANGED <<box, db, eaq, emlq, rest, tail, user, ops, hist>>

MarkTime(p) ==
    /\ imp[p].pc = "mark"
    /\ ea' = [ea EXCEPT !.recent = TRUE]
    /\ imp' = [imp EXCEPT ![p].pc = "status"]
    /\ UNCHANGED <<box, rows, inqs, reqs, eaq, emlq, rest, tail, user, ops, hist>>

\* CrmIMAP.check_box_status, and the failure of SELECT or STATUS.
CheckBoxStatus(p) ==
    /\ imp[p].pc = "status"
    /\ \/ /\ inbox + 1 # imp[p].next
          /\ imp' = [imp EXCEPT ![p].pc = "search", ![p].next = inbox + 1, ![p].upd = TRUE]
          /\ UNCHANGED ops
       \/ /\ inbox + 1 = imp[p].next
          /\ imp' = [imp EXCEPT ![p].pc = "save"] /\ UNCHANGED ops
       \/ /\ Fail /\ imp' = [imp EXCEPT ![p].pc = "save"]
    /\ UNCHANGED <<box, db, eaq, emlq, rest, tail, user, hist>>

\* SEARCH (TEXT "[ticket:" UID start:*): the range start:* always has the last
\* mail of the box.
Found(start) == {m \in 1..inbox : kind[m] # "plain" /\ (m >= start \/ m = inbox)}

Search(p) ==
    /\ imp[p].pc = "search"
    /\ imp' = [imp EXCEPT ![p].pc = "fetch", ![p].first = TRUE,
                          ![p].todo = Found(imp[p].start)]
    /\ UNCHANGED <<box, db, eaq, emlq, rest, tail, user, ops, hist>>

\* The new UIDNEXT is saved all the same.
SearchFails(p) ==
    /\ imp[p].pc = "search" /\ Fail
    /\ imp' = [imp EXCEPT ![p].pc = "save"]
    /\ Lose("failed", Found(imp[p].start))
    /\ UNCHANGED <<box, db, eaq, emlq, rest, tail, user, raced>>

\* imp[p] after one more mail of the loop, the oldest: out of it, or at the next.
NextMail(t, put) ==
    LET more == t.todo \ {Min(t.todo)}
        out == (put /\ t.i + 1 = Batch) \/ more = {} IN
    [t EXCEPT !.pc = IF out THEN "save" ELSE "fetch",
              !.todo = IF out THEN {} ELSE more,
              !.i = IF out THEN 0 ELSE @ + 1,
              !.first = @ /\ ~put /\ ~out,
              !.start = IF put \/ out THEN 0 ELSE @]

Put(p, item) == /\ Len(emlq[p]) < QueueSize
                /\ emlq' = [emlq EXCEPT ![p] = Append(@, item)]

\* uid_fetch and eml_queue.put, which waits for room; "break" after mail 50.
FetchPut(p) ==
    /\ imp[p].pc = "fetch" /\ imp[p].todo # {}
    /\ Put(p, [uid |-> Min(imp[p].todo), t |-> "scan",
               base |-> IF imp[p].first THEN imp[p].start ELSE 0])
    /\ imp' = [imp EXCEPT ![p] = NextMail(@, TRUE)]
    /\ Lose("cut", IF imp[p].i + 1 = Batch THEN imp[p].todo \ {Min(imp[p].todo)} ELSE {})
    /\ UNCHANGED <<box, db, eaq, rest, tail, user, ops, raced>>

FetchFails(p) ==
    /\ imp[p].pc = "fetch" /\ imp[p].todo # {} /\ Fail
    /\ Lose("failed", {Min(imp[p].todo)})
    /\ imp' = [imp EXCEPT ![p] = NextMail(@, FALSE)]
    /\ UNCHANGED <<box, db, eaq, emlq, rest, tail, user, raced>>

NothingFound(p) ==
    /\ imp[p].pc = "fetch" /\ imp[p].todo = {}
    /\ imp' = [imp EXCEPT ![p].pc = "save", ![p].first = FALSE]
    /\ UNCHANGED <<box, db, eaq, emlq, rest, tail, user, ops, hist>>

\* The UIDNEXT at the end of the scan, not the one it has looked at.
Mutant_SaveAccount(p) ==
    /\ imp[p].pc = "save"
    /\ ea' = [ea EXCEPT !.recent = TRUE,
                        !.next = IF imp[p].upd THEN inbox + 1 ELSE @]
    /\ imp' = [imp EXCEPT ![p] = Idle]
    /\ UNCHANGED <<box, rows, inqs, reqs, eaq, emlq, rest, tail, user, ops, hist>>

\* The importer also moves the start past what it has put.
Mutant_Advance(p) ==
    /\ imp[p].pc = "save"
    /\ ea' = [ea EXCEPT !.recent = TRUE,
                        !.next = IF imp[p].upd THEN imp[p].next ELSE @,
                        !.start = IF imp[p].upd THEN imp[p].next ELSE @]
    /\ imp' = [imp EXCEPT ![p] = Idle]
    /\ UNCHANGED <<box, rows, inqs, reqs, eaq, emlq, rest, tail, user, ops, hist>>

SaveAccount(p) ==
    /\ imp[p].pc = "save"
    /\ ea' = [ea EXCEPT !.recent = TRUE,
                        !.next = IF imp[p].upd THEN imp[p].next ELSE @]
    /\ imp' = [imp EXCEPT ![p] = Idle]
    /\ UNCHANGED <<box, rows, inqs, reqs, eaq, emlq, rest, tail, user, ops, hist>>

\* No connection, or any exception of the loop: the scan ends unsaved.
ImportFails(p) ==
    /\ imp[p].pc # "idle" /\ Fail
    /\ imp' = [imp EXCEPT ![p] = Idle]
    /\ UNCHANGED <<box, db, eaq, emlq, rest, tail, user, hist>>
-----------------------------------------------------------------------------
(* RestoreImapEmails.                                                      *)

\* update_ea, which writes the start whatever it was.
UpdateEa(p, item) ==
    /\ ea' = [ea EXCEPT !.start = item.uid + 1, !.recent = TRUE]
    /\ seen' = [seen EXCEPT ![p] = IF item.t = "scan" THEN item.uid + 1 ELSE @]
    /\ Lose("jumped", IF item.t = "scan" THEN {} ELSE
                      {m \in 1..(item.uid - 1) : rows[m] = 0 /\ kind[m] = "ticket"})

GetItem(p) ==
    /\ res[p].pc = "idle" /\ emlq[p] # <<>>
    /\ LET item == Head(emlq[p]) IN
       /\ res' = [res EXCEPT ![p] = [pc |-> "look", item |-> item]]
       /\ seen' = [seen EXCEPT ![p] = IF item.base = 0 THEN @ ELSE item.base]
    /\ emlq' = [emlq EXCEPT ![p] = Tail(@)]
    /\ UNCHANGED <<box, db, scan, tail, user, ops, hist>>

\* A mail the CRM has sent: the user is told, or a scan moves on.
FromCrm(p) ==
    LET item == res[p].item IN
    /\ res[p].pc = "look" /\ kind[item.uid] = "crm"
    /\ res' = [res EXCEPT ![p] = Free]
    /\ IF item.t = "scan" /\ item.uid > seen[p]
       THEN UpdateEa(p, item)
       ELSE UNCHANGED <<ea, seen, missed>>
    /\ UNCHANGED <<box, rows, inqs, reqs, scan, emlq, tail, user, ops, raced>>

\* A scan has found no ticket in it.
NoTicket(p) ==
    LET item == res[p].item IN
    /\ res[p].pc = "look" /\ kind[item.uid] = "text" /\ item.t = "scan"
    /\ res' = [res EXCEPT ![p] = Free]
    /\ UpdateEa(p, item)
    /\ UNCHANGED <<box, rows, inqs, reqs, scan, emlq, tail, user, ops, raced>>

Wanted(item) == /\ kind[item.uid] # "crm"
                /\ item.t = "scan" => kind[item.uid] = "ticket"

Mutant_AlreadyExists(p) ==              \* the start is not looked at again
    /\ res[p].pc = "look" /\ Wanted(res[p].item)
    /\ res' = [res EXCEPT ![p].pc = "save"]
    /\ raced' = IF \E q \in Procs \ {p} : res[q].pc = "save" /\ res[q].item.uid = res[p].item.uid
                THEN raced \cup {res[p].item.uid} ELSE raced
    /\ UNCHANGED <<box, db, scan, emlq, seen, tail, user, ops, missed>>

\* eml_already_exists; the account is not updated when it does.
AlreadyExists(p) ==
    LET m == res[p].item.uid
        other == {q \in Procs \ {p} : res[q].pc = "save" /\ res[q].item.uid = m} IN
    /\ res[p].pc = "look" /\ Wanted(res[p].item)
    /\ \/ /\ rows[m] > 0
          /\ res' = [res EXCEPT ![p] = Free] /\ UNCHANGED raced
       \/ /\ rows[m] = 0
          /\ res' = [res EXCEPT ![p].pc = "save"]
          /\ raced' = IF other = {} THEN raced ELSE raced \cup {m}
    /\ UNCHANGED <<box, db, scan, emlq, seen, tail, user, ops, missed>>

\* crm_eml_save, the transaction: the row, and the account for a mail that is
\* not an inquiry.
CrmEmlSave(p) ==
    LET item == res[p].item IN
    /\ res[p].pc = "save"
    /\ rows' = [rows EXCEPT ![item.uid] = @ + 1]
    /\ \/ /\ item.t = "inquiry"
          /\ inqs' = [inqs EXCEPT ![item.uid] = @ + 1]
          /\ res' = [res EXCEPT ![p].pc = "inquiry"]
          /\ UNCHANGED <<ea, seen, missed>>
       \/ /\ item.t # "inquiry"
          /\ UpdateEa(p, item)
          /\ res' = [res EXCEPT ![p] = Free] /\ UNCHANGED inqs
    /\ UNCHANGED <<box, reqs, scan, emlq, tail, user, ops, raced>>

Mutant_PutInquiry(p) ==                 \* dropped instead of waiting for room
    /\ res[p].pc = "inquiry"
    /\ res' = [res EXCEPT ![p] = Free]
    /\ inqq' = [inqq EXCEPT ![p] = IF Len(@) < InqSize THEN Append(@, res[p].item.uid) ELSE @]
    /\ UNCHANGED <<box, db, scan, emlq, seen, cei, user, ops, hist>>

\* After the attachments, inq_eml_queue.put, which waits for room.
PutInquiry(p) ==
    /\ res[p].pc = "inquiry" /\ Len(inqq[p]) < InqSize
    /\ inqq' = [inqq EXCEPT ![p] = Append(@, res[p].item.uid)]
    /\ res' = [res EXCEPT ![p] = Free]
    /\ UNCHANGED <<box, db, scan, emlq, seen, cei, user, ops, hist>>

\* Content that cannot be decoded, a row that cannot be saved, an attachment
\* that cannot be written: the mail is given up.
RestoreFails(p) ==
    /\ res[p].pc \in {"look", "save", "inquiry"} /\ Fail
    /\ res' = [res EXCEPT ![p] = Free]
    /\ Lose("failed", {res[p].item.uid})
    /\ UNCHANGED <<box, db, scan, emlq, seen, tail, user, raced>>

\* The handler of that error reads the owner of the account, in the database
\* too: when this raises, the thread ends.  Nothing takes a mail from the queue
\* of this process any more, and its importer waits for room in it.
RestorerEnds(p) ==
    /\ res[p].pc \in {"look", "save", "inquiry"} /\ Fail
    /\ res' = [res EXCEPT ![p] = Ended]
    /\ Lose("failed", {res[p].item.uid})
    /\ UNCHANGED <<box, db, scan, emlq, seen, tail, user, raced>>
-----------------------------------------------------------------------------
(* CreateEmailInquiry.                                                     *)

GetInquiry(p) ==
    /\ cei[p] = 0 /\ inqq[p] # <<>>
    /\ cei' = [cei EXCEPT ![p] = Head(inqq[p])]
    /\ inqq' = [inqq EXCEPT ![p] = Tail(@)]
    /\ UNCHANGED <<box, db, scan, emlq, rest, user, ops, hist>>

\* create_email_request: the Request is saved, then the mail is linked to it.
CreateEmailRequest(p) ==
    /\ cei[p] # 0 /\ cei' = [cei EXCEPT ![p] = 0]
    /\ reqs' = [reqs EXCEPT ![cei[p]] = @ + 1]
    /\ UNCHANGED <<box, ea, rows, inqs, scan, emlq, rest, inqq, user, ops, hist>>

\* Whatever it raises is only mailed to the administrators.
CreateFails(p) ==
    /\ cei[p] # 0 /\ cei' = [cei EXCEPT ![p] = 0] /\ Fail
    /\ Lose("failed", {cei[p]})
    /\ UNCHANGED <<box, db, scan, emlq, rest, inqq, user, raced>>
-----------------------------------------------------------------------------
(* The view select_emails_import, and the process.                         *)

\* The page lists the mails newest first.
EmailsImport(p) ==
    /\ manual < MaxManual /\ manual' = manual + 1
    /\ web[p].todo = {}
    /\ \E S \in (SUBSET (1..inbox)) \ {{}}, t \in {"ticket", "inquiry"} :
          web' = [web EXCEPT ![p] = [todo |-> S, t |-> t]]
    /\ UNCHANGED <<box, db, scan, emlq, rest, tail, sends, ops, hist>>

NextByUid(w) == LET more == w.todo \ {Max(w.todo)}
                IN IF more = {} THEN NoWeb ELSE [w EXCEPT !.todo = more]

GetEmailsByUid(p) ==
    /\ web[p].todo # {}
    /\ Put(p, [uid |-> Max(web[p].todo), t |-> web[p].t, base |-> 0])
    /\ web' = [web EXCEPT ![p] = NextByUid(@)]
    /\ UNCHANGED <<box, db, scan, rest, tail, manual, sends, ops, hist>>

\* A fetch that fails leaves out this mail.
ByUidFails(p) ==
    /\ web[p].todo # {} /\ Fail
    /\ web' = [web EXCEPT ![p] = NextByUid(@)]
    /\ UNCHANGED <<box, db, scan, emlq, rest, tail, manual, sends, hist>>

\* A process ends and a new one starts: what its threads held is gone.  The
\* bound on failures leaves room for it after the end of a restorer.
Restart(p) ==
    /\ Fail \/ (res[p] = Ended /\ UNCHANGED ops)
    /\ Lose("failed", {emlq[p][i].uid : i \in DOMAIN emlq[p]} \cup Range(inqq[p])
                      \cup ({res[p].item.uid, cei[p]} \ {0}))
    /\ eaq' = [eaq EXCEPT ![p] = <<>>] /\ imp' = [imp EXCEPT ![p] = Idle]
    /\ emlq' = [emlq EXCEPT ![p] = <<>>] /\ res' = [res EXCEPT ![p] = Free]
    /\ inqq' = [inqq EXCEPT ![p] = <<>>] /\ cei' = [cei EXCEPT ![p] = 0]
    /\ web' = [web EXCEPT ![p] = NoWeb]
    /\ UNCHANGED <<box, db, seen, manual, sends, raced>>
-----------------------------------------------------------------------------
Importer(p) == \/ Take(p) \/ Check(p) \/ MarkTime(p) \/ CheckBoxStatus(p)
               \/ Search(p) \/ FetchPut(p) \/ NothingFound(p) \/ SaveAccount(p)
Restorer(p) == \/ GetItem(p) \/ FromCrm(p) \/ NoTicket(p) \/ AlreadyExists(p)
               \/ CrmEmlSave(p) \/ PutInquiry(p)
Inquirer(p) == GetInquiry(p) \/ CreateEmailRequest(p)
Failure(p) == \/ SearchFails(p) \/ FetchFails(p) \/ ImportFails(p) \/ RestoreFails(p)
              \/ RestorerEnds(p) \/ CreateFails(p) \/ ByUidFails(p) \/ Restart(p)

Next == \/ Arrive \/ Elapse
        \/ \E p \in Procs : \/ Send(p) \/ Importer(p) \/ Restorer(p) \/ Inquirer(p)
                            \/ EmailsImport(p) \/ GetEmailsByUid(p) \/ Failure(p)

Spec == Init /\ [][Next]_vars

\* The threads run, time passes, and the owner of the account keeps making
\* requests to every process.
Fairness ==
    /\ WF_vars(Elapse)
    /\ \A p \in Procs :
          /\ WF_vars(Send(p)) /\ WF_vars(Importer(p))
          /\ WF_vars(Restorer(p)) /\ WF_vars(Inquirer(p))
FairSpec == Spec /\ Fairness
-----------------------------------------------------------------------------
Uids(S) == S \subseteq Mails
Item == [uid : Mails, t : {"scan", "ticket", "inquiry"}, base : 0..(MaxMail + 1)]

\* Values of the right kind, queues within their sizes.
TypeOK ==
    /\ kind \in Mailboxes /\ inbox \in 0..MaxMail
    /\ ea \in [start : 1..(MaxMail + 1), next : 1..(MaxMail + 1), recent : BOOLEAN]
    /\ \A f \in {rows, inqs, reqs} : f \in [Mails -> Nat]
    /\ \A p \in Procs :
          /\ Len(eaq[p]) <= 1 /\ Len(emlq[p]) <= QueueSize /\ Len(inqq[p]) <= InqSize
          /\ \A i \in DOMAIN emlq[p] : emlq[p][i] \in Item
          /\ imp[p].pc \in {"idle", "check", "mark", "status", "search", "fetch", "save"}
          /\ res[p].pc \in {"idle", "look", "save", "inquiry", "dead"}
          /\ res[p].item \in Item \cup {NoItem}
          /\ seen[p] \in 1..(MaxMail + 1) /\ cei[p] \in 0..MaxMail
    /\ \A how \in DOMAIN missed : Uids(missed[how])
    /\ Uids(raced) /\ manual \in 0..MaxManual /\ sends \in 0..MaxSends /\ ops \in 0..MaxOps

Ticketed == {m \in 1..inbox : kind[m] = "ticket"}

\* start_incoming_uid never passes a mail with a ticket that is not in the
\* database, although the importer of each process reads ahead from an account
\* it loaded earlier: only a mail that failed, or one an import by hand has
\* jumped over, is left behind.
Passed ==
    \A m \in Ticketed : m < ea.start =>
        rows[m] > 0 \/ m \in missed.failed \cup missed.jumped

\* A mail is in the database twice only if two processes have looked for it at
\* the same time, whatever is scanned, imported by hand or restarted.
OneRow == \A m \in Mails : rows[m] > 1 => m \in raced

\* The tables of mails, inquiries and requests are sound.
RowsSound == TypeOK /\ OneRow

Waiting == {m \in Ticketed : rows[m] = 0}
Missed == missed.failed \cup missed.cut \cup missed.jumped

\* A mail with a ticket is imported in the end, however scans, arrivals and
\* processes interleave, unless it failed, was jumped over, or was beyond the
\* end of a batch, or a restorer thread has ended and its process was not
\* started again.  (No mail waits again: the tables only grow.)
Imported == []<>(Waiting \subseteq Missed \/ \E p \in Procs : res[p].pc = "dead")
=============================================================================
