------------------------------- MODULE Outbox -------------------------------
(***************************************************************************)
(* Mails written in the CRM: how they are made (crm/views/create_email.py, *)
(* crm/views/reply_email.py, the add form), changed, sent                  *)
(* (crm/site/crmemailadmin.py, crm/utils/send_email.py, massmail/utils/    *)
(* email_creators.py) and deleted, with their files and the workflow of    *)
(* the deal they belong to.                                                *)
(*                                                                         *)
(* The form of a mail is one transaction, the mail server is asked in the  *)
(* middle of it: the row is locked from its save on, that of the deal from *)
(* the entry in the workflow on, which is made on the deal as it was when  *)
(* the form was checked.  The two views commit every statement.            *)
(***************************************************************************)
EXTENDS Files, MailAccounts

CONSTANTS Users,
          Holder,       \* the user with an account
          Texts,        \* what mails say, "" for nothing
          Inbox,        \* mails that have come, with their files
          MaxMails,     \* bound: mails
          MaxFiles,     \* bound: rows of files
          MaxClicks,       \* bound: pages and forms asked for
          MaxFailures   \* bound: transactions that fail

\* The files that have come with mails: <<stored file, mail>>.
TheirFiles == UNION {Inbox[m].paths \X {m} : m \in DOMAIN Inbox}

ASSUME OutboxAssumption ==
    /\ IsFiniteSet(Users) /\ Holder \in Users /\ "" \in Texts
    /\ Inbox \in Seq([text : Texts, deal : BOOLEAN, ticket : BOOLEAN, paths : SUBSET Paths])
    /\ MaxMails \in Nat /\ MaxFiles \in Nat /\ MaxClicks \in Nat /\ MaxFailures \in Nat
    /\ Len(Inbox) <= MaxMails
    /\ Cardinality(DealFiles) + Cardinality(TheirFiles) <= MaxFiles

VARIABLES
    mails,     \* rows of CrmEmail
    workflow,  \* of the deal: mails with an entry
    tx,        \* the form each user is in the middle of
    copying,   \* the view each user is in the middle of
    out,       \* mails the server has taken
    undone,    \* history: mails whose entry was overwritten by a form checked
               \* before it came, or that got their deal after they were sent
    clicks, failures

outboxVars == <<storage, access, mails, workflow, tx, copying, out, undone, clicks, failures>>

NoForm == [step |-> "idle", locks |-> {}]
Done == [m |-> 0, left |-> <<>>]
Row(u, text, deal, ticket) ==
    [owner |-> u, text |-> text, deal |-> deal, ticket |-> ticket, sent |-> FALSE,
     incoming |-> FALSE, live |-> TRUE]

OutboxInit ==
    /\ InitAccounts
    /\ mails = [m \in DOMAIN Inbox |-> [Row(Holder, Inbox[m].text, Inbox[m].deal, Inbox[m].ticket)
                                          EXCEPT !.incoming = TRUE]]
    /\ files = SetToSeq({File(TheDeal, p, FALSE) : p \in DealFiles})
               \o SetToSeq({File(Mail(x[2]), x[1], FALSE) : x \in TheirFiles})
    /\ disk = DealFiles \cup {x[1] : x \in TheirFiles} /\ torn = {}
    /\ workflow = {} /\ out = {} /\ undone = {}
    /\ tx = [u \in Users |-> NoForm] /\ copying = [u \in Users |-> Done]
    /\ clicks = 0 /\ failures = 0

Unused(u) == tx[u] = NoForm /\ copying[u] = Done
Use == clicks < MaxClicks /\ clicks' = clicks + 1
Quiet == UNCHANGED <<access, clicks, failures>>
-----------------------------------------------------------------------------
(* create_email and reply_email.                                           *)

Make(u, row, paths) ==
    /\ Unused(u) /\ Use /\ Len(mails) < MaxMails
    /\ mails' = Append(mails, row)
    /\ copying' = [copying EXCEPT ![u] = [m |-> Len(mails'), left |-> paths]]
    /\ UNCHANGED <<storage, access, workflow, tx, out, undone, failures>>

\* A mail to the client of the deal with files chosen on a page: a file the deal
\* has lost since raises StopIteration, after some have been copied.
CreateEmail(u) ==
    /\ FilesOf(TheDeal) # {}
    /\ \E S \in SUBSET PathsOf({i \in DOMAIN files : files[i].of = TheDeal}) :
         \E order \in SetToSeqs(S) : \E n \in 0..Len(order) :
            /\ \A k \in 1..n : order[k] \in PathsOf(FilesOf(TheDeal))
            /\ n < Len(order) => order[n + 1] \notin PathsOf(FilesOf(TheDeal))
            /\ Make(u, Row(u, "", TRUE, TRUE), SubSeq(order, 1, n))

\* A reply keeps the deal and the ticket; what is forwarded keeps the files.
Reply(u, m) == Row(u, mails[m].text, mails[m].deal, mails[m].ticket)
ReplyEmail(u, m) ==
    /\ u = Holder /\ account.main /\ mails[m].live
    /\ \E forward \in BOOLEAN : \E paths \in SetToSeqs(PathsOf(FilesOf(Mail(m)))) :
         Make(u, Reply(u, m), IF forward THEN paths ELSE <<>>)

CopyFile(u) ==
    /\ copying[u].m # 0 /\ copying[u].left # <<>> /\ Len(files) < MaxFiles
    /\ Insert(Append(files, File(Mail(copying[u].m), Head(copying[u].left), FALSE)))
    /\ copying' = [copying EXCEPT ![u].left = Tail(@)]
    /\ Quiet /\ UNCHANGED <<disk, mails, workflow, tx, out, undone>>
EndView(u) ==
    /\ copying[u].m # 0 /\ copying[u].left = <<>>
    /\ copying' = [copying EXCEPT ![u] = Done]
    /\ Quiet /\ UNCHANGED <<storage, mails, workflow, tx, out, undone>>
StopView(u) ==
    /\ copying[u].left # <<>> /\ failures < MaxFailures /\ failures' = failures + 1
    /\ copying' = [copying EXCEPT ![u] = Done]
    /\ UNCHANGED <<storage, access, mails, workflow, tx, out, undone, clicks>>
-----------------------------------------------------------------------------
(* The forms.                                                              *)

Tx(step, what, m, row) ==
    [step |-> step, what |-> what, m |-> m, row |-> row, gone |-> FALSE, del |-> {}, boxes |-> {},
     on |-> FALSE, joins |-> FALSE, send |-> FALSE, answer |-> FALSE, seen |-> workflow, log |-> {}, locks |-> {}]
Begin(u, t) ==
    /\ Unused(u) /\ Use /\ tx' = [tx EXCEPT ![u] = t]
    /\ UNCHANGED <<storage, access, mails, workflow, copying, out, undone, failures>>

\* A form that ticks or unticks, "on", the boxes T of a mail: one of the page.
\* The page of a mail without a deal has none: they are unticked by a form that
\* gives it the deal.
Ticks(m, deal, on, T) ==
    \/ T = {} /\ ~on
    \/ deal /\ Cardinality(T) = 1 /\ \A i \in T : files[i].on # on
    \/ deal /\ ~mails[m].deal /\ ~on /\ T = {i \in FilesOf(Mail(m)) : files[i].on}
Page(m, text, deal) ==
    [Tx("loaded", "mail", m, [mails[m] EXCEPT !.text = text, !.deal = deal])
       EXCEPT !.joins = deal /\ ~mails[m].deal /\ mails[m].sent]
\* The text and the deal are those of the form, of a mail that was sent as well.
\* A file of the mail may be deleted.
BeginForm(u, m) ==
    /\ mails[m].live /\ ~mails[m].incoming
    /\ \E text \in Texts, deal, send, on \in BOOLEAN :
         \E D \in SUBSET FilesOf(Mail(m)), T \in SUBSET FilesOf(Mail(m)) :
            /\ Cardinality(D) <= 1 /\ D \cap T = {} /\ Ticks(m, deal, on, T)
            /\ Begin(u, [Page(m, text, deal) EXCEPT !.send = send, !.del = D, !.boxes = T, !.on = on])
\* The page of a new mail, of the deal or of none.
BeginAdd(u) == \E text \in Texts, send, deal \in BOOLEAN :
    Begin(u, [Tx("loaded", "mail", 0, Row(u, text, deal, deal)) EXCEPT !.send = send])
BeginDelete(u, m) ==
    mails[m].live /\ Begin(u, [Tx("loaded", "mail", m, mails[m]) EXCEPT !.gone = TRUE])
\* The deal is saved whole, and may lose a file.
BeginDeal(u) == \E D \in SUBSET FilesOf(TheDeal) :
    Cardinality(D) <= 1 /\ Begin(u, [Tx("loaded", "deal", 0, <<>>) EXCEPT !.del = D])

Unlocked(u, x) == \A v \in Users \ {u} : x \notin tx[v].locks
Step(u, t) == tx' = [tx EXCEPT ![u] = t]

\* The row is saved, files are deleted.
SaveForm(u, t) ==
    /\ t.step = "loaded"
    /\ LET new == t.what = "mail" /\ t.m = 0
           m == IF new THEN Len(mails) + 1 ELSE t.m
           lock == IF t.what = "deal" THEN TheDeal ELSE Mail(m)
           D == IF t.gone THEN FilesOf(Mail(m)) ELSE t.del \cup Lost(t.boxes, t.on)
       IN  /\ new => Len(mails) < MaxMails
           /\ Unlocked(u, lock) /\ Delete(D)
           /\ mails' = IF new THEN Append(mails, [t.row EXCEPT !.live = FALSE]) ELSE mails
           /\ Step(u, [t EXCEPT !.step = "saved", !.m = m, !.del = D, !.locks = {lock},
                                !.log = IF t.what = "deal" THEN t.seen ELSE {}])
    /\ Quiet /\ UNCHANGED <<files, workflow, copying, out, undone>>

\* What is attached is what the form leaves.
Attachments(t) == PathsOf((FilesOf(Mail(t.m)) \ t.del) \cup t.boxes)
CanSend(t) == t.row.text # "" /\ t.row.owner = Holder /\ account.main
Sendable(t) == t.step = "saved" /\ t.send
\* A message tells that something is missing.
CannotSend(u, t) ==
    /\ Sendable(t) /\ ~CanSend(t) /\ Step(u, [t EXCEPT !.step = "done"])
    /\ Quiet /\ UNCHANGED <<storage, mails, workflow, copying, out, undone>>
Taken(t) == out \cup {[m |-> t.m, text |-> t.row.text, paths |-> Attachments(t),
                       whole |-> \A v \in Users : copying[v].m # t.m]}
\* The server takes the mail or not, and says so, or an error comes that the
\* code catches.
SendMail(u, t) == \E taken, ok \in BOOLEAN :
    /\ Sendable(t) /\ CanSend(t) /\ Attachments(t) \subseteq disk /\ (ok => taken)
    /\ out' = IF taken THEN Taken(t) ELSE out
    /\ Step(u, [t EXCEPT !.answer = ok, !.step = IF ok THEN "sent" ELSE "done"])
    /\ Quiet /\ UNCHANGED <<storage, mails, workflow, copying, undone>>

Entry(t) == t.seen \cup {t.m}
\* add_to_workflow, saved: the deal is locked.
EnterWorkflow(u, t) ==
    /\ t.step = "sent"
    /\ IF t.row.deal
       THEN /\ Unlocked(u, TheDeal)
            /\ Step(u, [t EXCEPT !.step = "done", !.log = Entry(t), !.locks = @ \cup {TheDeal}])
       ELSE Step(u, [t EXCEPT !.step = "done"])
    /\ Quiet /\ UNCHANGED <<storage, mails, workflow, copying, out, undone>>

Mutant_Saved(t) == [t.row EXCEPT !.sent = @ \/ t.send, !.live = ~t.gone]   \* whatever comes
Saved(t) == [t.row EXCEPT !.sent = @ \/ t.answer, !.live = ~t.gone]
Commit(u, t) ==
    /\ t.step = "done" \/ (t.step = "saved" /\ ~t.send)
    /\ mails' = IF t.what = "mail" THEN [mails EXCEPT ![t.m] = Saved(t)] ELSE mails
    /\ Len(files) + Cardinality(t.boxes) <= MaxFiles
    /\ Insert(Without(t.del, Boxes(t.boxes, t.on, files)))
    /\ workflow' = IF TheDeal \in t.locks THEN t.log ELSE workflow
    /\ undone' = undone \cup (IF TheDeal \in t.locks THEN workflow \ t.seen ELSE {})
                       \cup (IF t.joins /\ ~t.answer THEN {t.m} ELSE {})
    /\ Step(u, NoForm) /\ UNCHANGED <<access, disk, copying, out, clicks, failures>>

\* An error that nobody catches: of the server, the provider of tokens, the
\* database, or because an attached file is not there.
Missing(t) == Sendable(t) /\ CanSend(t) /\ ~(Attachments(t) \subseteq disk)
Abort(u, t) ==
    /\ t.step # "idle" /\ t.step # "loaded"
    /\ IF Missing(t) THEN UNCHANGED failures
                     ELSE failures < MaxFailures /\ failures' = failures + 1
    /\ out' \in {out} \cup (IF Sendable(t) /\ CanSend(t) /\ ~Missing(t) THEN {Taken(t)} ELSE {})
    /\ Undo(t.del) /\ Step(u, NoForm)
    /\ UNCHANGED <<files, disk, access, mails, workflow, copying, undone, clicks>>
-----------------------------------------------------------------------------
OutboxNext ==
    \/ \E u \in Users :
        \/ CreateEmail(u) \/ CopyFile(u) \/ EndView(u) \/ StopView(u)
        \/ BeginAdd(u) \/ BeginDeal(u)
        \/ \E m \in DOMAIN mails : ReplyEmail(u, m) \/ BeginForm(u, m) \/ BeginDelete(u, m)
        \/ SaveForm(u, tx[u]) \/ CannotSend(u, tx[u]) \/ SendMail(u, tx[u])
        \/ EnterWorkflow(u, tx[u]) \/ Commit(u, tx[u]) \/ Abort(u, tx[u])
    \/ /\ (ReadAccount /\ Use) \/ (WriteAccount /\ UNCHANGED clicks)
       /\ UNCHANGED <<storage, mails, workflow, tx, copying, out, undone, failures>>

OutboxSpec == OutboxInit /\ [][OutboxNext]_outboxVars
-----------------------------------------------------------------------------
OutboxTypeOK ==
    /\ Len(mails) <= MaxMails /\ Len(files) <= MaxFiles
    /\ disk \subseteq Paths /\ torn \subseteq Paths
    /\ \A i \in DOMAIN files : files[i].of \in {TheDeal} \cup {Mail(m) : m \in DOMAIN mails}
    /\ workflow \cup undone \subseteq DOMAIN mails

\* A mail is marked as sent only when the server has taken it, though forms save
\* whole rows they read before, and transactions fail after the server was asked.
SentDelivered ==
    \A m \in DOMAIN mails : mails[m].live /\ mails[m].sent => \E o \in out : o.m = m

\* A mail that becomes sent was taken with the text and with the files it has
\* then in the CRM, unless a view was still copying its files.  The mark alone
\* comes back with a form that was loaded while the mail had it, when another
\* form had taken it off meanwhile.
SentAsSaved ==
    [][\A m \in DOMAIN mails : mails'[m].sent /\ mails'[m].live /\ ~mails[m].sent =>
         \/ \E o \in out' :
              /\ o.m = m /\ o.text = mails'[m].text
              /\ o.whole => o.paths = {files'[i].path : i \in
                    {x \in DOMAIN files' : files'[x].live /\ files'[x].of = Mail(m)}}
         \/ \E u \in Users : /\ tx[u] # NoForm /\ tx'[u] = NoForm
                             /\ tx[u].what = "mail" /\ tx[u].m = m /\ tx[u].row.sent]_outboxVars

\* The file a row names is stored, though rows of mails and deals share files:
\* except while the row is deleted, after a transaction that removed it has failed, when a row was deleted
\* twice, or copied while it was deleted.
FilesThere == \A i \in DOMAIN files : files[i].live =>
    \/ files[i].path \in disk \cup torn
    \/ \E u \in Users : tx[u].step \notin {"idle", "loaded"} /\ i \in tx[u].del

\* A file that is attached to the deal stays the mail's, and the deal has it.
AttachKeeps ==
    [][\A i \in DOMAIN files : files'[i].live /\ files'[i].on /\ ~files[i].on =>
         /\ files'[i].of = files[i].of
         /\ \E j \in DOMAIN files' : files'[j].live /\ files'[j].of = TheDeal
                                      /\ files'[j].path = files[i].path]_outboxVars

\* A mail leaves as it is saved, and its files stay with it.
OutboxKept ==
    /\ SentAsSaved
    /\ AttachKeeps

\* A sent mail of the deal has its entry in the workflow, unless a form checked
\* before the entry came was saved after it, or a form has put the mail into the
\* deal when it was sent.
Logged ==
    \A m \in DOMAIN mails : mails[m].live /\ mails[m].sent /\ mails[m].deal
                             => m \in workflow \cup undone

\* The token of the account is the last one given, unless somebody has saved an
\* account that he read before it came.
TokenKept == account.token = given \/ stale

\* What the CRM says of mails, files and tokens is so outside the database as
\* well: at the mail server, on the disk, at the provider.
OutboxSound ==
    /\ OutboxTypeOK
    /\ SentDelivered
    /\ FilesThere
    /\ Logged
    /\ TokenKept
=============================================================================
