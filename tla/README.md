# Formal verification of the CRM

TLA+ models of the parts of this Django CRM where several threads, processes
and users work on the same rows, TLC runs that check them on small instances,
and TLAPS proofs that hold for instances of any size. Paths are relative to
`src/`; "the guide" is `docs/django-crm_user_guide.md`.

The program has little locking and no message passing. Its difficulties come
from three habits of the code, and the models are built around them:

* **a thread works on objects it loaded long ago**, and `save()` without
  `update_fields` writes every column back, or inserts the row again if it was
  deleted meanwhile;
* **a web request is a transaction that does not see other transactions**, and
  a form posts the values of the moment its page was opened;
* **state is spread over several rows** (a request, its deal, its mails; a
  memo and its project; a mail, its files and the files on the disk) that
  are brought into agreement by code at the end of a request, by several pieces
  of code, in an order.

Contents: 1 inventory, 2 modules, 3 runs and bounds, 4 proofs, 5 assumptions,
6 divergences, 7 plan.

## 1. Inventory

Threads. `massmail/apps.py` starts `SendMassmail`, `common/apps.py` starts
`RemindersSender` (both single per host, through a lock file) and
`NotifEmailSender` (one per process), `analytics/apps.py` starts
`MonthlySnapshotSaving` (single). `crm/apps.py` starts `ImportEmails`,
`RestoreImapEmails`, `CreateEmailInquiry` and `CrmImapManager` in **every
process** of the site, and one `RatesLoader`. Everything else runs in a web
request. The threads and the requests share the database; inside a process they
also share bounded and unbounded queues and the dictionary of IMAP connections.

| Component | State | Operations | What is hard | What makes it correct | Modules |
|---|---|---|---|---|---|
| Mass mailing (`massmail/utils/sendmassmail.py`, `models/mailing_out.py`, admin, views) | three lists of recipient ids and a status for each mailing | the sender's rounds; make, merge, retry, exclude, delete, change status | the thread saves copies that are minutes old while requests rewrite the lists; a message is sent first and recorded afterwards | nobody falls off the lists, nobody is mailed twice, exclude keeps its promise, recording cannot raise, lists empty in the end | MailingOuts, Delivery |
| Email accounts and mass contacts (`massmail/models`, `emailaccountadmin.py`, `change_massconts.py`) | accounts, a queue of ids per manager, the account of each recipient, counters | round robin, `fix_masscontacts`, account forms, VIP, unsubscribe | queue objects and accounts held by the thread, three flags that decide what happens to a queue, midnight | queues hold each usable account once, a recipient keeps his sender, the daily limit, who unsubscribed is left alone | MassContacts |
| Shared IMAP connections (`crm/utils/crm_imap.py`, `manage_imaps.py`) | connection objects under a key, their lock flag, error, closed | get, lock, noop, login, release, keep-alive | test and set in two statements, deletion by name, double release | one user per connection, nobody uses a closed one, no lock without a holder | CrmImap, Lock |
| Email import (`import_emails.py`, `restore_imap_emails.py`, `create_email_request.py`, `select_emails_import.py`) | start uid, UIDNEXT and time of the account, queues, `CrmEmail` rows | scan, restore, make a request, import by hand | three threads in each of several processes, restarts, batches, a start uid two parties advance | the start never passes a mail that is not stored, a mail is stored once, every mail and every inquiry is served | EmailImport, Inquiries |
| Tasks (`tasks/models/task.py`, `taskadmin.py`, `tasks/views`) | stage and active of a collective task and its subtasks | form, button, link in a mail, new subtask | performers finish at the same time, old pages, old copies of the main task | the last one closes the task, a closed task has no active subtask | Tasks |
| Companies and imports (`companyadmin.py`, `contactadmin.py`, `change_owner_companies.py`, `delete_duplicate_object.py`, `create_objects.py`) | companies, contacts, whose they are, deals and requests of a company | forms, change of owner, removal of a duplicate, import of a file | statements committed one by one, owners copied from row to row | contacts follow their company, nobody is entered twice, a merge loses nothing | Companies |
| Requests, leads, contacts, deals (`crm/models/request.py`, `requestadmin.py`, `leadadmin.py`, `delete_duplicate_object.py`) | links between request, client, deal and mails | inquiry and reply threads, form, conversion, removal of duplicates | searches older than the rows made of them, outdated forms, statements committed one by one, cascades | the deal stays with the client, is shown, collects its mails; nobody entered twice; nothing lost | Requests |
| Deal form and pipeline (`dealadmin.py`, `shipmentadmin.py`, `send_email.py`), telephony (`voip/views/voipwebhook.py`) | stage, closing reason, active, relevant, dates, amount, workflow text, payments, the lead | forms of managers and chiefs, mails, memo, shipment, call | flags changed one after the other; the text is rewritten whole by the form and prepended to by others | the columns of the deal agree, no entry of the workflow is lost, a lost deal has no claims left | Deals |
| Memos and projects (`memoadmin.py`, `projectadmin.py`, `tasksbasemodeladmin.py`) | stage, draft, notified, the project made of a memo | forms, review, "create project", deletion | notified is written after notifying; copies that undo what another saved | told once, and at the right step; the memo names its project | Memos, Projects |
| Notifications, reminders, chat (`common/utils/*.py`, `reminderadmin.py`, `chat/`) | a list of messages per profile, a queue in memory, reminders, unread marks | notify, show, poll and ring, post, read, edit | read-change-write of one column by everybody, mail before commit, threads that end | no message lost or repeated, reminders ring once, mails leave | Alerts = Notices + Reminders + Chat |
| Payments, currencies, rates (`payment.py`, `currencyadmin.py`, `rates_loader.py`) | payments, approximate and official rates, marks | save a payment or currency, the loader's rounds | a rate made twice, one payment that blocks the others, whole currencies saved from old copies | each payment gets its official rate in the end, one rate a day, official rates and sums stay | Payments |
| Statistics (`analytics/site/*.py`, `utils/helpers.py`) | none of its own | what each report counts, in which month | months of different lengths, the turn of the year, several ways to count one thing | parts add up to wholes, each thing is counted once, charts are in order | Reports, Statistics |
| Snapshots (`monthly_snapshot_saving.py`) | one row per department and month | sleep, save | changes of the clocks, restarts, the last hour of the month | one snapshot a month, of the right month | Snapshots |
| Outgoing mails (`create_email.py`, `reply_email.py`, `crmemailadmin.py`, `send_email.py`, `copy_files.py`, `TheFile`) | mails, rows of files, stored files | write, reply, forward, change, send, delete | the mail server is asked inside a transaction that may fail; files shared by rows | sent when taken, as saved; files are there | Outbox, Files |
| Authorization of mail accounts (`get_oauth2_tokens.py`, `emailaccountadmin.py`, `smtp.py`) | main, token | ask the provider, form, mailer | whole accounts saved from old copies | the last token stays | MailAccounts |
| Transfers (`user_transfer.py`, `copy_department.py`, `change_owner_companies.py`) | departments, their lists, owners and keys of rows | loops without a transaction | an error halfway, forms meanwhile, names looked up in another department | what ended without an error is complete, after an earlier one that did not too | Transfers, Departments |
| Contact form of other sites (`contact_form.py`, `add_request.py`, `create_form_request.py`) | lead sources, requests | post | the key is copied with the department | a form is lost only by a copied department | SiteForms |
| Users, permissions, lists (`admfilters.py`, `crmmodeladmin.py`, `tasksbasemodeladmin.py`, `usermiddleware.py`, `crmsite.py`) | roles, department of the session, rows | list, filter, open, count | conditions written down twice; links older than the session | what is shown, what is said to be shown and what may be opened agree | Lists |
| Countries, products, shipments as tables; settings, help, site, templates | rows edited by one form each, or nothing | | none that spans steps | | not modelled |

How they interact. `EmailImport` hands an inquiry to `create_email_request`,
which is `FindInquiry`/`SaveInquiry`/`LinkInquiry` of `Requests`;
`update_with_deal_and_request` of the restorer is its `ReadReply`/`SaveReply`, and
the entry it makes in the workflow is `Reply` of `Deals`. The importer borrows the
connection of `CrmImap`. `MailingOuts` sees of the accounts only which account a
recipient's contact is on, whether it is on and whether it is full;
`MassContacts` sees of the mailings only who is on the active one of each
manager. `Deals` and `Memos` tell people through `Notices`, of which they keep
who was told. The boundaries are exactly these variables, and each module leaves
the other side free: in `MailingOuts` an account may go on, off or over its limit
at any time, in `MassContacts` a recipient may be put on a mailing at any time.
Composed in TLA+ are the parts that write the same columns: `Notices` with
`Reminders` and `Chat` (`Alerts`), `Departments` with `Transfers` and `SiteForms`,
`Projects` with `Memos`, `Files` and `MailAccounts` with `Outbox`, `Reports` with
`Statistics` and `Snapshots`.

The hazards, each at its line, with the properties that would catch it, are in
`PROJECT.json`; divergences met while reading are in section 6.

## 2. The modules

Every module has its rows as variables, `Init`, one action for an operation, or
for a piece of it between two points where somebody else may act, and history
variables, which the code does not have and no guard reads. History variables
name the windows the code really leaves open, so that a property says "this
holds, except there" instead of holding nowhere; each is set at one statement of
the code and by nothing else.

**MailingOuts.** `mo` are the rows (status, the lists `rcpt`, `fail`, `succ`, the
number), `live` the ids in the table, `local`/`cur`/`rids`/`eas`/`target` what
`send_massmail` holds in its loops, `web` the request that has loaded a row and
has not saved it. A comma-separated list of ids is a bag, because the code can
put an id on a list twice. `StartRound`, `BeginMailing`, `SkipAccount`, `DropGone`,
`Pick`, `Deliver`, `Record`, `CounterIncrement`, `EndMailing`, `EndRound` are the
statements of `send_massmail` between which others act: in particular `Deliver`
(the SMTP server has the message) and `Record` (the id moves to the successful
ones). `SendError` and `AuthError` are the two branches of `report`, `Crash` a
restart of the process. `Load` and `SaveRequest` are the halves of a request that
changes a status or retries the failed ones; exclusion is three statements: the
mailing is loaded, `LookForSent` reads who has had the message, `SaveExcluded` saves
the rest, and `since` are those recorded in between. Merging is `ReadForMerge`,
`InsertUnited`, `DeleteMerged`, each committed by itself, or `BreakMerge` after any
of them; several merges may run at once (a double click), and until the last
statement the originals and the union are all on the table, and on the sender's
list if it begins a round. `Doomed` are the originals of a union already there, `Kept`
the other rows. `MakeMailingOut` and `DeleteMailing` are one step each.
`Unsubscribe`, `SpecifyVip`, `ChangeMassConts`, `SwitchAccount`, `DeleteRecipient` change
what the sender looks up. `disturbed` is set when a save overwrites a newer row
(of the originals as well, between the reading and the end of a merge), when the
process dies or the connection breaks between sending and recording, when a
merge breaks off and leaves everybody on two mailings, when a round begins with
an original beside its union, and when a contact moves to another account during the
round: from then on only the types are claimed. The code does not
prevent these, and the properties say that nothing else loses a recipient or
sends twice. **Delivery** is what the recipients are promised: a message is sent at
most as often as one was ordered, and sending it and crossing it off is one
step. The three statements of a merge are one step of it.

**MassContacts.** `acc`, `queue`, `con` are the rows of `EmailAccount`,
`EmlAccountsQueue` and `MassContact`; `sq`, `copy`, `fixing`, `visit`, `today` the
thread's objects. `FixWrong` and `FixMissing` are the two loops of
`fix_masscontacts`, `Pick` (which looks at the subscription), `Deliver` or
`SendError`, and `CounterIncrement` the part of `send_massmail` that sends and
counts; `hand` is the message between the look and the sending, `since` who
unsubscribed in between. `ChangeAccount` with `QueueAfterSave` is
`EmailAccountAdmin.save_model` with its three flags. `DeleteAccount` cascades to
the contacts. `raced` is set where the thread saves a queue or an account that
was changed since it was loaded.

**CrmImap.** The connection of one account. `Get` → `LockWait` → `LockSet` →
`Noop` is `_get_crmimap`; `Drop`, `Make`, `Store`, `Adopt`, `Login` the replacement
of a connection whose NOOP fails; `ListKeys`, `Look`, `Mark`, `Serve` the
keep-alive thread. A caller leaves without releasing in three ways: at the
timeout of the lock file (`LockfileTimeout`), after an error (`Abandon`), and, with
no error at all, when the inbox is empty (`EmptyPage`: `get_email_headers_page`
returns early). The objects so left are in `left`: `Exclusive` says that a locked
object has a user or was left in one of these ways, and that one that was left stays
locked and unused for good. `ReleaseAgain` is the double release of
`view_original_email`, which with the test that was out of date when its
assignment ran is `shared`. The module models `REUSE_IMAP_CONNECTION = True`;
`crm/settings.py` ships `False`, and then every caller has an object of its own.
**Lock** is a lock with an owner that can be lost for good.

**EmailImport.** `ea` is the account row (`start_incoming_uid`, `inbox_uidnext`,
`last_import_dt` as recent or not); `imp`, `res`, `cei` are the threads of each
process, `eaq`, `emlq`, `inqq` their queues, `web` the request that imports by
hand, `seen` the start the restorer's copy of the account has. `Check`, `MarkTime`,
`CheckBoxStatus`, `Search`, `FetchPut`, `SaveAccount` are a scan; `GetItem`, then
`FromCrm`, `NoTicket` or `AlreadyExists` and `CrmEmlSave`, `PutInquiry` the
restorer; `GetInquiry`, `CreateEmailRequest` the third thread; `EmailsImport`,
`GetEmailsByUid` the import by hand. A put waits for room, as `Queue.put` does.
Failures at every point; the handler of the restorer reads the database and may
fail in its turn, which ends the thread (`RestorerEnds`) until the process is
started again (`Restart`, which empties what is in memory). `missed`
says why a mail was left behind (failed, cut off by the batch, jumped over by an
import by hand), `raced` which mails two processes looked for at once.
**Inquiries** is the promise of the third thread.

**Tasks.** The main task, its subtasks, the pages users have open (`page`) and the
requests in progress (`req`: a copy of what the request loaded). `Post`,
`PostCompleted`, `PostNew`, `EmailCompleted`, `CompletedSubtask`,
`EmailCompletedSubtask` load and validate; `Finish` is all that follows the first
write, because that write locks the row of the main task, and everybody who
might close or reopen it writes it first. `stale` is set when a request writes
from a copy that is no longer that of the row, `byhand` when somebody sets the
stage of the main task.

**Companies.** A form is a transaction (`BeginCompany`, `BeginContact`,
`BeginPaper`, then `Write` or `Refuse`, then a commit); `StartView`, `ViewCompany`,
`LoadContacts`, `ViewContact` are the statements of the change of owners,
`StartMerge`, `Move`, `Fill`, `DeleteDuplicate` those of the removal of a duplicate,
`Check` and `Save` the import. `apart` are contacts a merge moved or somebody
wrote from outdated rows, `late` what was linked to the duplicate after the rows
of its kind had been moved. `raced` is set when two users enter the same at once
and when a copy is saved that brings back somebody who was deleted, or takes a
name away that the company got (`PersonBack`, `NamelessBack`).

**Requests.** Ids of leads and contacts, the rows of requests, deals and mails
with their foreign keys. The threads commit each statement (`FindInquiry`,
`SaveInquiry`, `LinkInquiry`; `ReadReply`, `SaveReply`). A form is `OpenPage`,
`LoadPost` (validation and the searches, on what is committed) and `CommitPost`
(`save_model` and `save_related`), or `AbortPost` if a key it refers to is gone.
`LoadConvert`/`CommitConvert` are the conversion of a lead; the lead it has
saved is locked, and writes that refer to it wait. `StartMerge`, `Relate` (one
table at a time), `SaveOriginal` and `DeleteDuplicate` are
`DeleteDuplicateObject.post`, with the `on_delete` rules of every foreign key.
`raced`: a client was made of a search that was outdated; `stale`: requests
posted from an outdated or emptied form; `kept`: requests that got a contact
while their deal kept the lead; `late`: requests saved with a client that was
being removed.

**Deals.** The row of a deal with its lead, payments and a mail. `tx` is what each
request in progress has loaded: `LoadPost`/`CommitPost` the form of managers and
chiefs (with the formset of payments, `PaymentsSaved`), `LoadShipment`, `LoadLead`,
`LoadMail` → `SaveMail`/`Deliver`/`Refuse` → `CommitMail`, `LoadMemo`, and
`LoadCall` → `TouchLead` → `SaveCall`, the telephone exchange, which commits every
statement. `SaveModel` is `DealAdmin.save_model` statement by statement (`At`,
`ReasonGiven`, `StageMoved`, `Dropped`, `SecondStage`, `Seen`). Entries of the
workflow are numbered as they are committed.

**Memos** and **Projects.** A form is `Post…` (load and compare with what is
posted) and `Save…` (save the whole row, set the people, tell them);
`PostFromMemo` and `SaveFromMemo` make a project of a memo. The form of a memo
posts the id of the project with the rest: a page opened before the project was
made posts none and takes the project off the memo again, over a fresh copy of
the row. `last` is what the forms and the makers of projects meant the memo to
name. A form changes one field, or is such an old page (`OldPageOrOneField`, a
bound). `told` and `toldOf` count the notices each person had, `joined` how
often he was put on the project; `stale` is set when a copy of the memo is saved
that undoes what another request had saved.

**Notices**, **Reminders**, **Chat**, **Alerts.** The list of messages in a profile
is read (`LoadProfile`), extended and written (`SaveProfile`, or `SaveAlone` for the
threads); inside a form the row stays locked until `Commit`; mails are in the
queue at once (`QueueMails`). `ShowMessages` is the middleware that shows and
empties the list. `Poll`, `NextRow`, `SendReminder`, `ClearBox`, `SaveReminder` are
the thread of the reminders, `Send` and `DropMail` that of the mails. The form of a
reminded object is `LoadObject` and `PostObject`: the thread may ring and clear the box
between them, and the form then writes the box back with nothing left to ring
(`WritesBack`). `Alerts` joins
them; `BreakDeadlock` is the database, when two forms wait for each other's
profiles.

**Payments.** A form is a transaction (`PostPayment`, `SavePayment`,
`CommitPayment`); the thread is `StartRound`, `SaveCurrency`, `AskRate`, `SaveRate`.
The value of a rate is the day it is of. A transaction and the round of the thread
carry what they have seen, so that a property can say who looked before another
wrote.

**Reports**, **Statistics**, **Snapshots.** Reports are operators over sets of rows
and a day (months numbered on, of different lengths), the state is the day and
the rows. `Snapshots` is a thread that computes how long it is to eleven o'clock
of the last day of the month, sleeps that long by another clock than the one on
the wall, and saves. `FailSnapshot` is an exception, after which the thread naps, or
ends when the mail about it cannot be sent; `EndProcess` and `Restart` end and start
it, with any time in between.

**Outbox**, **Files**, **MailAccounts.** `SaveForm`, `SendMail`, `EnterWorkflow`,
`Commit`/`Abort` are the form of a mail, which changes its text, its deal (in
the model there is one: a mail joins or leaves it, sent or not) and the files
(`Ticks`: the page of a mail without a deal has no boxes for files of the deal).
`CreateEmail`, `ReplyEmail`, `CopyFile`,
`EndView` the views that make one. `Files` has `TheFile` rows, the stored files and
what a delete takes with it; `MailAccounts` the token and the flag main.

**Departments**, **Transfers**, **SiteForms.** One action per statement of
`UserTransfer`, `copy_department` and `ChangeOwnerCompanies`, with `TransferDies`,
`ChangeDies`, `CopyDies` for an end halfway, and the forms that save the same rows
meanwhile. The form of a contact takes owner and department from its company
when it is checked (`Placed`), so a contact may join a company whose owner is
being changed; `early` are the forms that had read it before. Rows have the key of
their lead source, which `UserTransfer` does not translate; `DeleteSource` empties
it, and a row saved with the key of a deleted source is refused (`Dangling`).
`crossed` are rows saved by a form between the two statements of a transfer of
their model, and those of a transfer that ended there.

**Lists.** A page is what `Render` shows a user of a list with a set of selected
filters; `Click` follows a link of it later, when rows (`Save`) and the
department of the session (`Elsewhere`) have changed. `Column` has the columns
of the tables and what they hold.

The `MC*` modules give the constants that are functions or sets of records. Two
of the system's parts that share nothing are in one run where that is cheaper
than two: a variable `part` says which one moves, the other keeps an initial
state (`MCEmailImport`, `MCTasks`, `MCDeals`, `MCReports`, `MCLists`).

## 3. Runs

| Run | What it checks | Instance |
|---|---|---|
| `mailing_core` | `TypeOK`, `NothingLost`, `AtMostOnce`, `ExcludeWorks`; `Delivered` (MailingOuts implements Delivery) | 2 active mailings and room for two more (two merges at once), 1 recipient on both, 1 account, 3 operations |
| `mailing_drains` | `RecordCannotRaise`, `Drains` (liveness) | 2 recipients, 1 mailing and room for another, 2 operations |
| `contacts_core` | `QueueSound`, `DailyLimit`, `StaysOut` | 2 recipients, 3 accounts, 2 managers, 2 contacts, 2 days, limit 0, 3 operations |
| `email_core` | `Passed`, `RowsSound`; `Exclusive`, `Locking` (CrmImap implements Lock) | import: 2 processes, 2 mails (a ticket, and the text of one only), batches of 2, queues of 1, 1 import by hand, 1 failure or restart. Connection: 2 borrowers, the keep-alive thread, 4 objects, 2 failures |
| `email_drains` | `Imported`, `Requested` (liveness; Requested is Inquiries with its fairness) | 1 process, 2 mails of four sorts, 1 import by hand, 1 failure or restart (and a restart after the end of a restorer) |
| `tasks_core` | `TypeOK`, `LastOneCloses`, `NoneActive`; `CompaniesSound`, `MergeKeeps` | tasks: 2 performers and the owner, 2 subtasks, 2 requests at a time, 4 in all, one page with the button open at a time. Companies: 2 owners, 3 companies, 3 contacts, 3 edits |
| `requests_core` | `DealsFollow`, `NoNewDouble`, `NothingVanishes` | 1 inquiry with a reply, 2 users, 1 company, 4 ids, 3 operations, at most two leads and contacts at the start |
| `deals_core` | `DealSound`, `DealKept`; `PeopleTold`, `EndsTold` | deals: 2 managers, a chief, 1 payment, 2 requests at a time, 1 open page, 3 operations. Memos: author, recipient and an employee without an address, 2 projects |
| `alerts_core` | `AlertsSound`, `AlertsKept`, `AlertsGo` (liveness) | 2 users of different languages, one without an address, 2 reminders, 2 messages, 2 notices at a time, 2 operations, 1 crash |
| `reports_core` | `FiguresAgree`, `Snapshotted`; `OutboxSound`, `OutboxKept` | reports: years of 4 months of 2 or 3 days, data of 3 years, 2 departments, 1 failure or end of the process, one change of the clocks each way. Outbox: 2 users, 3 mails, 5 rows of files on 2 stored ones, 3 clicks, 1 failure, 1 token |
| `transfers_core` | `TransfersSound`, `StagesFit` | 2 departments and a third made by copying, 2 users, a deal, or a company and a contact, 3 operations, 1 failure |
| `lists_core` | `ListsRight`; `RatesKept`, `Loaded` (liveness) | lists: 4 users of different roles, 2 departments, 2 or 3 rows, 1 save, 2 pages. Payments: 2 currencies, 3 days, 2 payments, 3 rates, 2 posts, 1 failure |

A property named `…Sound` or `…Kept` is a conjunction of the named ones before it
in its module (`DealSound == TypeOK /\ ClosedRight /\ WonRight /\ StageLogged /\
SentWasDelivered`), and each module has one type invariant.

Why the bounds are enough.

* *Mailings.* Every interaction of the code is between the mailing in hand and
  one other, for one recipient at a time: two mailings and two that are merged or
  newly made, one recipient with multiplicities. States after a lost write are not
  followed (`Undisturbed`): nothing but types is claimed of them. Two recipients are needed
  only for what concerns order (who is reached behind a failing one):
  `mailing_drains`. Three operations allow a merge, a second one or another
  request beside it, and one that breaks off.
* *Contacts.* The third account belongs, or will belong, to the second manager,
  so that queues of both change. A limit of 0 makes the boundary one message
  away and 2 days contain one midnight.
* *IMAP.* Four objects: three threads each with one and one that is stored.
  Two borrowers and the keeper are enough for every pair of statements.
* *Import.* Two processes are enough for two lookups; two mails for one to be
  jumped over by the other; queues of size 1 make every put wait. In the code
  the sizes are 4, 2 and 51 mails a batch: nothing depends on the number but
  when it is reached. Sorts of mails other than the two of `email_core` are in
  `email_drains`.
* *Tasks.* Two performers are needed for "everybody has finished", two requests
  at a time for an overlap, and four requests for two completions, a page and a
  reopening. One page is open at a time (with two nothing else was found, in
  four million states).
* *Requests.* The code never relates two requests to each other except through
  the client. Checked outside the runs, with nothing new: two companies; four
  operations of one user; two requests with two operations of one user (and the
  first 11 million states with three). Four ids allow two clients
  at the start, two more made by forms or conversions, and one removed.
* *Deals.* Two requests at a time for every pair of a copy and a save; the third
  operation makes the row a copy is compared with. One payment is enough: the
  code treats each by itself.
* *Alerts, Outbox, Transfers.* What can go wrong is one step of another actor, a
  failure or a crash between two steps of one: two actors, one failure, and an
  operation more, to start again with.
* *Reports.* Lengths differ by a day and a year has several months, so that the
  first, the last and a day a month does not have all occur; the reports are
  evaluated on every day over all pairs of payments and many pairs of requests,
  and no report relates three.
* *Lists.* A page, one click and one more, with a save or a change of session in
  between: a link refers to the page it is on and to nothing earlier.

For what is proved (section 4) the bounds do not matter.

Deadlock is not an error in these runs (`CHECK_DEADLOCK FALSE`): behaviours end
when the bounds are used up. Threads that wait for each other for ever are what
`Drains`, `Imported`, `Requested`, `AlertsGo` and `Loaded` would show. Symmetry is
used only for sets the modules treat alike, and never with a liveness property.

### Fairness

* `MailingOuts!FairSpec`: the thread's loop goes on (`WF(Round)`), days pass, a
  request that was started is answered. The loop waits only for its sleeps and
  for the SMTP server, which is assumed to answer or to fail: `EMAIL_TIMEOUT` is not
  set, so one that does neither would stop the mailing. `send_massmail` loads the
  mailings in random order and `check_owners` keeps the first of each owner: strong
  fairness for each mailing to be drawn. Nobody is obliged to start a request, and
  failures and restarts are not fair.
* `EmailImport!FairSpec`: the threads run, the two minutes pass, and the owner
  of the account keeps making requests to every process: the middleware calls
  `import_emails` on each request of a user, and without users nothing is
  imported. Arrivals, failures, restarts and imports by hand are not fair.
* `Alerts!AlertsFair`: a request that was started goes on (`Progress`), the thread of
  the reminders polls, the thread of the mails takes one after the other. Nobody
  is obliged to start anything, and crashes are not fair.
* `Payments!PaymentsFair`: the loader goes on and its days pass; forms and failures
  are not fair.
* The other modules have no liveness property: their requests end by themselves.

## 4. Proofs

What is proved holds for every value of the constants that satisfies the named
assumption of the module (`MailingAssumption`, `ImportAssumption`, …: sets are
finite, functions have the right type, a value that stands for "none" is not one
of the others). Each proof module extends the modules it is about. The provers
are Z3, Zenon and LS4.

| Module | Theorem | States | Inductive invariant |
|---|---|---|---|
| MailingOutsProofs | `TypeCorrect` | `Spec => []TypeOK` | itself |
| | `NobodyIsLost` | `Spec => []NothingLost` | `IInv` |
| | `RecordingIsSafe` | `Spec => []RecordCannotRaise` | `HandInv` |
| | `SentAtMostOnce` | `Spec => []AtMostOnce` | `Accounted` |
| | `PromiseIsKept` | `Spec => Delivered` | the above |
| | `ExclusionHolds` | `Spec => ExcludeWorks` | `TypeOK`, `Looked` |
| | `AlertsAlwaysSound` (of `Alerts`) | `AlertsSpec => []AlertsSound` | `AlertsInv` |
| | `NothingIsForgotten` (of `Alerts`) | `AlertsSpec => AlertsKept` | `AlertsInv` |
| MassContactsProofs | `QueuesAreSound` | `Spec => []QueueSound` | `Inv` |
| | `LimitIsKept` | `Spec => []DailyLimit` | `Inv` |
| | `UnsubscribedStayOut` | `Spec => StaysOut` | `Inv` |
| EmailImportProofs | `RowsAreSound` | `Spec => []RowsSound` | `Inv` |
| | `StartHasPassed` | `Spec => []Passed` | `Inv` |
| | `OneAtATime` (of `CrmImap`) | `ImapSpec => []Exclusive` | `ImapInv` |
| | `ConnectionIsLock` (of `CrmImap`) | `ImapSpec => Locking` | `ImapInv` |
| TasksProofs | `TypeCorrect`, `ClosedHasNoneActive`, `LastPerformerCloses` | `Spec => []TypeOK`, `[]NoneActive`, `[]LastOneCloses` | `Inv` and what it adds |
| | `Consistent` (of `Companies`) | `CompaniesSpec => []CompaniesSound` | `CompaniesInv` |
| | `MergeTakesNobody` (of `Companies`) | `CompaniesSpec => MergeKeeps` | `CompaniesInv` |
| DealsProofs | `DealIsSound` | `Spec => []DealSound` | `Inv` |
| | `DealIsKept` | `Spec => DealKept` | `Inv` |
| | `PeopleAreTold` (of `Memos`, `Projects`) | `OfficeSpec => []PeopleTold` | `OfficeInv` |
| | `EndsAreTold` (of `Memos`, `Projects`) | `OfficeSpec => EndsTold` | `OfficeInv` |
| RequestsProofs | `Together` | `Spec => []DealsFollow` | `Inv` |
| | `NobodyTwice` | `Spec => NoNewDouble` | `Inv` |
| | `NothingIsLost` | `Spec => NothingVanishes` | `Inv` |
| | `RatesAreKept` (of `Payments`) | `PaymentsSpec => RatesKept` | `PayInv` |
| OutboxProofs | `WhatIsSaidIsSo` | `OutboxSpec => []OutboxSound` | `OutboxInv` |
| | `LeavesAsSaved` | `OutboxSpec => OutboxKept` | `OutboxInv` |
| | `SnapshotsOfMonths` (of `Snapshots`) | `SnapshotsSpec => Snapshotted` | `SnapshotsInv` |
| | `ListsAgree` (of `Lists`) | `Spec => []ListsRight` | `ListsInv` |
| TransfersProofs | `MovesWhole` | `Spec => []TransfersSound` | `SitesInv` |

The arguments, in a sentence or two each.

* *Mailings.* `TypeCorrect` is not trivial: a list is a function to `Nat`, so it
  says that no list ever loses an id it does not have. `NothingLost` alone is not
  inductive: a new mailing could take the id of one that somebody still holds a
  copy of, and saving that copy would replace the new one without being counted
  as a lost write; `IdsUsed` (every row in anybody's hands has an id given out
  before) excludes it. `HandInv` says that `rids` was taken from the copy in hand,
  and that what the sender drops from one it drops from both. `Accounted` counts: for each
  recipient, what was sent, what is still on the lists or failed, and the message
  that is sent and not recorded add up to no more than what was ordered. It is
  the sum over all mailings that makes it hard, so it is stated with the set of
  tickets, one per entry of a list, and the steps are shown to move, add or remove tickets;
  `left` of `Delivery` is the number of tickets, and `PromiseIsKept` follows
  action by action. A merge counts its recipients once while originals and union
  are both there: tickets are of the rows in `Kept`, and `InsertUnited`, the statement
  that dooms the originals, moves them. `Looked` says that between the look
  and the save of an exclusion only those in `since` have become successful.
* *Accounts.* `Inv` has the types, `QueuesOnce` and `OnlyQueued` (what the
  thread's copy of a queue may hold), `Senders` (every account a row, a copy or
  the loop of `fix_masscontacts` names is that of the manager, or the contact is
  one the loop has still to fix) and `Days` (what a stored or copied counter
  says of the messages really sent, while the date the round has read is the
  right one or yesterday's).
* *Connections.* Without an accident whoever works on an object works on the
  stored one, has locked it and is alone (`UsersLock`, `OneUser`); an object that
  is no longer stored stays locked (`OldLocked`), so that those who still wait for
  it never get it; a new one is known to its maker only (`NewAlone`). The steps
  of `ConnectionIsLock` then are borrowing, giving back, losing, or nothing.
* *Import.* `Types`; `Here` (what each thread holds belongs to what its place in
  the code says, and to mails that have arrived); `Races` (a row is looked for by
  one process at a time, or is in `raced`); `Ordered`: a mail with a ticket below
  the start anybody could write next (of the row, of an object in a queue, of a scan, of
  an item in a queue, of the item at hand) is stored, given up, or is ahead of the
  writer in the same queue, in order of the uids. `Passed` is the first of
  these; each of the others is what a put, a get or a save turns into the next.
* *Tasks.* `ClosersHaveLooked` (a request about to close the main task saw no active
  subtask when it was validated, or posts an old page), `PagesOpen` and
  `RequestsAreReal`. Between validation and `Finish` a subtask may become
  active; that is a stale write, and the proof is the case analysis that shows
  there is no other way.
* *Deals.* `Types`, `Copies` (a copy of the row in somebody's request was a row
  that was right), `Taken` (a mail being sent as sent was taken by the server) and
  `Counted` (entries of a workflow and of every copy are numbers given out). The
  heart is `PostIsRight`: from any right row and any form, `SaveModel` makes a
  right row, through its five branches. `DealIsKept` follows from the same
  invariant, by the three kinds of steps that write the deal, the lead and the payments.
* *Requests.* `RowTypes` and `HandTypes`; `IdsOnce` (an id is of one lead or of
  one contact, and a merge joins two of a kind); `InquiryFirst` (nobody has a page
  of a request that is not saved); `PostsRight` (what validation made of a form:
  one client, or none and a company, and a new client only if the search found
  nobody); `ConvertsRight` (a lead is converted by one request at a time);
  `Moved` (in a table a merge has done, only rows in `late` name the duplicate)
  and `LeadFollows` (the lead of a deal is its request's, or the merge is about to
  make it so). `SameClient` follows from `LeadFollows` at a conversion, `Served`
  from `PostsRight` at a save. The attempt found two windows that the runs,
  with three operations, did not reach: a page posted after somebody processed
  the request (`outdated`, part of `stale`), and a deal that keeps its lead when
  the request gets a contact, whose lead is then converted to another contact
  (`kept`).
* *Companies.* `CompaniesTyped`, `Refs` (rows name companies that were once there);
  `TxRights` (the rows a form will write are locked, and the company it refers to
  stays until it commits) and `LocksApart`; `ViewRight`, `MergeRight`; `MovedLate` (what
  still refers to a duplicate whose rows were moved is in `late`, and so is what
  the delete has collected); `Follows` (a contact has the owner of his company,
  or the view has still to come to him: `OwnerFollows` alone says nothing of the
  second half of the view); `Alone` (one person, one company without a name, and
  whoever is about to import one has found none). The attempt showed that
  `NoTwins` was false with four operations: a form, the view or a merge that
  saves the copy of a row from before it was deleted or named brings the person,
  or the missing name, back beside a second one. `raced` now says so, at these
  four statements.

* *Alerts.* `ApartInv` is what the messages in a profile need: a notice that
  somebody is telling is in no profile, no copy of one and nobody else's telling
  before it is committed, so that a list that lacks it was read earlier.
  `Private` is the lemma of all steps that change one request, `BatchesAre` that of
  the mails (each language once, each user in the mail of his). `RungInv` counts:
  a row that is still to ring, in the table, in the round or in the hands of the
  thread, has rung for crashes only. It needs the end of the thread as a case of its own, since
  a thread that stopped between the mail and the row never rings it again. The
  promise is of one step: `remind_me` never leaves the box checked
  without an active row that it found or made (`RemindMeIs`), unless the form
  was loaded before the reminder rang (`WritesBack`). In the chat an
  answer goes with its question because `Answers` is closed under answering.
* *Payments.* `PayTypes`; `PastRates` (no rate, in the tables or in anybody's
  hands, is of today or later, and an official one is of its own day);
  `FormsRight` (a form that will make a rate has seen none of its currency and
  day, and one that will not has one; a form of a currency has seen no other
  marked the same); `LoaderRight` (the payment the thread has asked for has no
  official rate, and the row it will change is the one it has seen); `Rated`
  itself. `RatesStay`, which every step keeps beside the invariant (a rate stays
  of its currency and day, an official one as it is), gives `OfficialKept` and,
  as the first rate of a day then stays the first, `SumsStay`. `OneRate` and
  `MarkedOnce` say of the step that writes that its writer had not looked since;
  `FormRight` is what he had seen.
* *Memos and projects.* `FormsFit` (a form was made from a project that is still
  there, of the same owner, and everybody in its copy was told) and `Remembering`
  (who is remembered as told was told) make `AllTold` inductive: the role the form
  does not change has people who were told by the time the copy was made.
  `Joining` counts: who is on a project and not remembered was told less often
  than he was put on it, so that the next notice still fits. One lemma, `Staffed`,
  does this for every way the people of a project are set. For memos, `WrittenOnce`,
  `CopiesFit` and `MemoFits` say what a row or a copy remembers of the notices
  while nobody has saved an old copy over a newer row (`stale`); what they say
  of recipient and date does not need that condition, because the count of
  notices only grows and a review keeps its date.

* *Outgoing mails.* A form is followed from its load to its commit: `Locked`
  (which rows it has locked, and that it enters the workflow it saw when it was
  checked), `Touched` (it ticks files of its mail and deletes those, or files of
  the deal) and `Answers` (what it knows of the mail: if its copy of the row is
  marked, the server took the mail; if the server has answered this form, it
  took the text and the files that the commit will leave). A mail that a form
  puts into the deal after it was sent has no entry in the workflow: the form is
  marked `joins` when it is loaded, and its mail is in `undone` from the commit
  on. The lock of the mail is why the latter stays true while other forms
  commit: their rows of files are of other mails, or of the deal (`FormFrame`,
  `CommitStep`). A file that is not stored is one that a form has deleted and
  not committed, or one in `torn`. The attempt showed that `SentAsSaved` had
  been written so that it said next to nothing (an implication had taken in the
  conjuncts before it); as it was meant, it is false with four forms: one that
  was loaded while the mail was marked brings the mark back after another, older
  one has taken it off, without anything being sent. The property now names that
  case.

* *Snapshots.* `SnapshotsInv` follows the thread from where it computes how long it
  will sleep: at which hour of which day a thread that sleeps or saves is there
  (until the evening it aimed at, or later by what the clocks were put forward;
  earlier only on the day they were put back), that a month that is over has its
  snapshot or is one the thread may miss, and that a snapshot of this month is
  there only from its last hour on. The step that saves is where all three are
  needed. The calendar is the assumption: the clocks change at most once a month.
* *Transfers.* `TypesInv` has the types, and that what a row refers to, in the database or in
  an open form, is an entry of a list of a kind its model has. `TogetherInv`: what the view
  that changes an owner has behind it has the new owner and department, as long as
  nobody else works on these rows. `MovedInv` carries `TransfersSound`: for each row that
  the transfer follows, where the transfer is (before, at the load, halfway
  through the lists, past it) says what the row is by now, while the entries of
  lists only ever move as tags to the new department; `Through`, for a row that is
  passed, must survive that. A contact that joins a company by an open form is
  the reason for the last conjunct of `TogetherInv`: the form has the new owner, or
  had read the company before it was saved (`early`). `FreshInv` says that a copied
  department to which nobody has added anything has a twin of each stage,
  reason and product, and `SureInv` that each of them is found exactly once by the rows,
  the open form and the loaded list of the transfer; with it `CopyTakesAll` holds at the
  step that would stop. `KeysInv`: two lead sources have one key only after a copy.
  The attempt found that `CopyTakesAll` was false with five
  operations, more than the run has: a form opened earlier with a
  stage of a department that was not copied, and saved in the middle of the
  transfer, makes it stop. `Chosen`, and so `sure`, now looks at the open form
  too. `LostByCopy` became sharper on the way: a lost form needs a department
  that was made by copying.
* *Lists.* `ListsInv` is little more than the types of the rows and that the address
  of a page names departments there are; the work is in the step that makes a
  page. There is one lemma for each filter: if one of its choices is selected, the
  rows it leaves are those that fit what the choice says (`OwnerShown`,
  `ResponsibleShown`, ...); `DealsShown`, `MailsShown` and `TasksShown` put the filters of a
  list together. `ResponsibleShown` is the only one that looks at another filter: whether a
  manager sees his own tasks only is decided on the rows that the filter by owner has left,
  whether his name is offered on those of the owner chosen. `OutboxRight`
  shows that the number in the name of the outbox counts the mails of the list behind it.
  The attempt found that `SelectedShown` was false for a chief on the
  list of the subtasks of a main task, which the rows of the run did not
  reach (section 6); the property now names that case, is otherwise sharper than before
  about what "All" shows a chief, and the run has such a list.

Beside the assumptions on constants, named `...Assumption` in each module, nothing
is assumed. Three of these say more than a type: the clocks of `Snapshots`; that the lists and
rows `SiteForms` starts with are consistent (each entry has a key of its
own, each row refers to entries of the kind its model has); and that the rows
of `Lists` have the columns of their tables, their main task is there, and no
id is one of the words an address may have instead. Every proof is checked
to its leaves, and no theorem is about an operator defined by recursion.

Only model-checked:

* `StagesFit`, that a row has a stage and closing reason of its own department: the
  invariant would have to follow every entry through lists that are copied,
  deleted and moved while rows that name them are in the hands of three loops.
* Liveness (`Drains`, `Imported`, `Requested`, `AlertsGo`, `Loaded`): the backends
  have no rule for fairness under quantifiers, and none for `ENABLED`.
* `FiguresAgree`: the figures are folds and sums over sets of rows. That a fold
  adds up what it should for every set is induction over data, whose theorems take
  an operator as a parameter; none of the provers can instantiate it. The model
  checks it over all the rows of its instance.

## 5. What the models assume

The database is MySQL or PostgreSQL with READ COMMITTED; there are no
`ATOMIC_REQUESTS`; a change form of the admin site is one transaction, while other
views, the middleware, the webhook and the threads commit each statement. Primary
keys are not reused. SMTP and IMAP servers answer or fail; UIDVALIDITY does not
change. All mailings of a model carry the same message; all inquiries are of one
person whom every search finds. Business hours, texts, the contents of files and
of rows nothing depends on, and permissions are left out, except where a
permission is the guard of an action (`Tasks`, `Deals`, `Memos`, `Lists`). What each
component leaves out is said in `PROJECT.json`.

## 6. Divergences seen

Where the code does otherwise than the guide, a comment or its own intention
says. Those that lie in a modelled part are behaviours of the models, and named
by the history variables where a property would otherwise fail.

* *Mailing.* A merge commits three statements: what is recorded on an original
  after they were read (`admin_actions.py:70`) is not on the union, and is sent
  again; a second click merges the same originals again, and a round between the
  insert and the delete (`:95`, `:100`) sends to both. Who becomes successful
  between the look and the save of an exclusion stays on the saved list
  (`exclude.py:25`, `:37`). `exclude.py:36` sets the number below the length of
  the list, which later decrements below zero, an error the database refuses and
  that ends every round (`Poisoned` in `Drains`). The test of the limit is `>`,
  one more than the setting (`sendmassmail.py:105`; `DailyLimit`), and `report`
  calls `list.remove` again in the handler of its own failure. `make_massmail`
  looks for accounts on GET only.
* *Accounts.* Who unsubscribes between the test and the sending is still written
  to (`sendmassmail.py:109`, `:127`: `since` in `StaysOut`). Unsubscribing
  clears a flag of one `MassContact` row. If that row goes (account deleted,
  recipient moved to a manager without a queue), the next round makes a new one
  with the flag set, and mail goes out again: the `\ moved` of `StaysOut`.
  `emailaccountadmin.py:71` can take an account out of the queue of its new
  owner too; concurrent `fix_masscontacts` and VIP make two contacts;
  `counter_increment`, `report` and `get_refresh_token` save whole accounts.
* *Import.* A scan stops after index 50 but saves the UIDNEXT of the whole box;
  later scans find the box "unchanged", and the rest waits for a new mail, while
  the guide (267) promises that mails are imported: `missed.cut` in `Imported`. An
  import by hand with a ticket moves the start past older mails with one; a
  failed SEARCH saves UIDNEXT; the handler of `RestoreImapEmails` reads the
  database and may end the thread for good (`restore_imap_emails.py:135`;
  `RestorerEnds`, named in `Imported`); a new UIDVALIDITY is handled after the search
  was prepared.
* *IMAP.* `lock()` is a test and a set; an exception in `_keep_in_touch` ends the
  thread; once a thread gives up without releasing (`LockfileTimeout`, `Abandon`)
  the connection stays locked for everybody, and so it does after a look at an
  empty inbox, which is no error (`import_emails.py:181`; `EmptyPage`).
* *Tasks.* `check_and_deacte_main_task` compares the set of users with a done
  subtask with the set of those responsible for equality: one done subtask of
  somebody else and the task never closes, against the guide (120). `LastOneCloses`
  therefore says `DoneBy(subs) = Resp`. The button Completed is not validated with
  the current stage; a changed next step saves the whole main task;
  `check_subtasks` of the link in a mail looks for the id of a user among tasks.
* *Requests.* `Deal.partner_contact` refers to contacts with CASCADE and is not
  among the fields that are related to the original: removing a duplicate
  contact deletes these deals, with their requests and mails (the premise of
  `NothingVanishes`). A contact of another company than the one named leaves
  request and deal without a client (`request.py:242`); a deal keeps its lead
  when the request gets a contact, and converting that lead later can give the
  deal another contact than the request has (`kept`); `_update_request_email`
  sets the contact but does not save it; a second company of the same name ends
  in a broken transaction (`leadadmin.py:193`).
* *Merges.* Mailings that name a duplicate are searched by id without the type of
  the recipient; one whose only recipient is the duplicate is not changed; failed
  and successful ids are not touched; `mo.save()` writes the whole row beside the
  sender. Merged cities lose their deals and contacts; moved contacts keep
  their old owner; a named duplicate of a nameless original violates a unique key.
* *Companies.* The columns of the import settings (`crm/settings.py:173`) are not
  fields of the models: an import of contacts always raises, one of leads saves
  nothing, one of companies makes one company without a name.
  The view of superusers, the lines of a company's form and the merge save whole
  rows they loaded before: contacts and companies deleted meanwhile are back, and
  a name given meanwhile is gone (`raced` in `NoTwins`).
  `ContactAdmin.get_readonly_fields` removes "owner" from the list of the class,
  for everybody from then on.
* *Deals.* `dealadmin.py:436` is a branch that is never taken; `dealadmin.py:477`
  reads an attribute of nothing when a closing reason is removed and relevant
  unchecked at once; `clean` looks at the first successful reason only; the step from
  the default stage to the second is not noted; a row deleted or converted
  meanwhile is inserted again by a `save()` in flight; in `marks()` `icon` may be
  unbound.
* *Memos.* A draft is visible to subscribers, against the guide (131); a leader
  who is the author never gets the field `draft`; `create project` in stage
  reviewed leaves the memo unlinked (`memoadmin.py:334`), and so does a page of
  the memo opened before the project was made, because the form posts the raw id
  (`memoadmin.py:67`); `has_view_permission` compares a user with a queryset;
  `TaskBase.save` swallows `IntegrityError`.
* *Notices.* `save_message`, the middleware and the form of the profile
  overwrite each other's list; notifications that cannot be sent are dropped;
  `email_to_participants` uses the subject of the first language for all;
  `RemindersSender` ends at a reminder whose object is gone; `remind_me.py:32`
  computes minute 60; a form loaded before a reminder rang checks the box again,
  with nothing left to ring (`remind_me.py:37`); a date set after ringing
  creates nothing; the chat's list raises with more than 100 messages.
* *Payments.* `Currency.save` sets `is_state_currency` to `1.0`; a round of
  `RatesLoader` ends at the first rate the bank does not know, every time; the
  marketing currency is the one of the thread's start; `bank_gov_ua_backend` does
  not import what it extends.
* *Statistics.* `LeadSourceStatAdmin` divides by the year's total also when it is
  zero (`leadsourcestatadmin.py:93`); a request linked by hand to a deal of another
  makes a primary conversion of more than 100 %; closing reasons by product count
  a deal once for each output, countries once for each pair
  (`closingreasonstatadmin.py:83`); outputs are dated by an arbitrary received
  payment (`outputstatadmin.py:251`); superusers see the month of the last payment,
  others every month; `incomestatadmin.py:362` compares months without the year;
  `get_item_list` drops one early month only; the country table of the requests
  counts duplicates. These are stated as the exceptions of `FiguresAgree`.
* *Snapshots.* A start in the last hour of the month saves none, nor does a process
  that is down over the end of it; a failure for one department is not tried
  again, and ends the thread when the administrators cannot be mailed
  (`monthly_snapshot_saving.py:51`); the sleep is computed by the wall clock.
* *Outgoing mails.* `send_email` does not look at `sent`; a form loaded before
  the mail was sent writes `sent = False` back; the deal of a mail that was sent
  can be changed, and the new deal has no entry of it (`crmemailadmin.py:218`);
  an `OSError` of the server rolls back a delivered mail; unticking a file
  deletes the first file of the deal whose name contains its stem
  (`crmemailadmin.py:340`); `TheFile.delete` counts rows by name.
* *Transfers.* The lead source of a row is not translated (`user_transfer.py:39`
  is commented out) and stays that of the old department; a contact whose form
  had read the company before its owner was changed, and is saved after the
  contacts were loaded, keeps the old owner. Tags are moved with the department;
  a stage or closing reason the other department does not have raises
  `DoesNotExist` halfway (`user_transfer.py:96`); a copied department keeps the
  uuid of its lead sources, after which a form of a site finds two; a second
  copy before renaming violates a unique name; `change_owner_companies.py:22`
  stops halfway; forms in flight keep the old department.
* *Lists.* `IsActiveFilter` (`crm/utils/admfilters.py:549`) filters nothing on the
  deals of a company. For a chief no value of the owner means himself among the
  choices of every list (`tasks/utils/admfilters.py:30`), but everybody in the
  filter on the list of the subtasks of a main task (`:51`). The number of the
  outbox is wrong when all owners are chosen; the number of memos counts drafts;
  `tasksbasemodeladmin.py:262` is always false; `set_user_department` is skipped
  for XHR. Objects of the admin site are shared by threads and keep values of a
  request (`self.today`, `parent_obj`).

## 7. Plan

Done: every component of section 1 but the last, the runs of section 3, the
proofs of section 4. What is left, in this order:

1. Wider instances where a proof stays out of reach (`FiguresAgree`), and the
   constants of the liveness runs.
2. In `Lists`, the filters by country, partner, project and date, and orderings.

The theorems of a part are in its own proof module, in that of the part it works
with (`Companies` with `Tasks`, `CrmImap` with `EmailImport`), or in one whose
names it does not share (`Snapshots` and `Lists` in OutboxProofs, `Payments` in
RequestsProofs, `Memos` and `Projects` in DealsProofs, `Alerts` in
MailingOutsProofs).
