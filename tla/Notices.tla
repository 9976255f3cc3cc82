------------------------------- MODULE Notices -------------------------------
(***************************************************************************)
(* How the users of the CRM are told of something: a message in the        *)
(* profile, shown at the next request of the user, and a mail of a queue   *)
(* in memory that one thread sends (common/utils/helpers.py,               *)
(* common/utils/notify_user.py, common/utils/email_to_participants.py,     *)
(* common/utils/usermiddleware.py, common/utils/notif_email_sender.py).    *)
(*                                                                         *)
(* The messages of a user are one column with a list: save_message reads   *)
(* the list, appends and writes the column.  In a form this is part of the *)
(* transaction of the request: the row stays locked and nobody sees the    *)
(* list until the commit; a mail is in the queue at once.  The middleware  *)
(* and the thread of the reminders commit every statement.                 *)
(*                                                                         *)
(* A message is the number of its notice.  This module has the parts;      *)
(* Alerts composes them with those that send notices.                      *)
(***************************************************************************)
EXTENDS Integers, FiniteSets, Sequences, SequencesExt

CONSTANTS CrmUsers,     \* the users of the CRM
          Language,     \* the language of each user
          MaxFlight,    \* bound: requests in progress at a time
          MaxUses       \* bound: requests

Reminding == "reminding"    \* the thread of the reminders

ASSUME NoticesAssumption ==
    /\ IsFiniteSet(CrmUsers) /\ CrmUsers # {} /\ Reminding \notin CrmUsers
    /\ DOMAIN Language = CrmUsers
    /\ {MaxFlight, MaxUses} \subseteq Nat

VARIABLES
    stored,    \* the messages in the profile of each user
    shown,     \* history: the messages each user has been shown
    tx,        \* what each user, and the thread, is in the middle of
    queue,     \* mails to send
    mailer,    \* whether the thread that sends them runs
    notices,   \* notices so far
    uses       \* requests so far, bounded by MaxUses

noticeVars == <<stored, shown, tx, queue, mailer, notices, uses>>
mailVars == <<queue, mailer>>

Idle == [kind |-> "idle", how |-> "each", todo |-> <<>>, told |-> <<>>,
         old |-> {}, writes |-> <<>>, notice |-> 0, about |-> 0]
-----------------------------------------------------------------------------
InitNotices ==
    /\ stored = [u \in CrmUsers |-> {}] /\ shown = stored
    /\ tx = [p \in CrmUsers \cup {Reminding} |-> Idle]
    /\ queue = <<>> /\ mailer = "runs"
    /\ notices = 0 /\ uses = 0

Flying == {p \in CrmUsers : tx[p].kind # "idle"}
\* The row of the profile is locked by a transaction other than p's.
Locked(u, p) == \E q \in CrmUsers \ {p} : u \in DOMAIN tx[q].writes
\* f with y for x, which may be new.
Put(f, x, y) == [z \in DOMAIN f \cup {x} |-> IF z = x THEN y ELSE f[z]]
Use == uses < MaxUses /\ uses' = uses + 1

(* save_message, in its two statements. *)

\* The profile of the next user to tell, as committed.
LoadProfile(p) ==
    /\ tx[p].kind = "notify" /\ tx[p].todo # <<>>
    /\ tx' = [tx EXCEPT ![p].kind = "append", ![p].old = stored[Head(tx[p].todo)]]
    /\ UNCHANGED <<stored, shown, notices, uses>> /\ UNCHANGED mailVars

Mail(list) == [to |-> ToSet(list), code |-> Language[Last(list)]]
Orders(S) == {s \in [1..Cardinality(S) -> S] : ToSet(s) = S}
\* email_to_participants takes a user off the list, and the others of the same
\* language with him, until the list is empty; the rest is turned round each
\* time, so that the languages come in one order or another.
Batches(list) ==
    {[i \in DOMAIN codes |-> [to |-> {u \in ToSet(list) : Language[u] = codes[i]},
                              code |-> codes[i]]] :
        codes \in Orders({Language[u] : u \in ToSet(list)})}

Mutant_SaveProfile(p) ==  \* without what was in the list
    /\ tx[p].kind = "append" /\ p \in CrmUsers
    /\ LET u == Head(tx[p].todo)
       IN /\ ~Locked(u, p)
          /\ tx' = [tx EXCEPT ![p].kind = "notify", ![p].todo = Tail(@),
                              ![p].told = Append(@, u), ![p].old = {},
                              ![p].writes = Put(@, u, [read |-> tx[p].old, list |-> {tx[p].notice}])]
    /\ UNCHANGED <<stored, shown, notices, uses>> /\ UNCHANGED mailVars
\* In a request: the row is locked until the end.
SaveProfile(p) ==
    /\ tx[p].kind = "append" /\ p \in CrmUsers
    /\ LET u == Head(tx[p].todo)
       IN /\ ~Locked(u, p)
          /\ tx' = [tx EXCEPT ![p].kind = "notify", ![p].todo = Tail(@),
                              ![p].told = Append(@, u), ![p].old = {},
                              ![p].writes = Put(@, u, [read |-> tx[p].old,
                                                       list |-> tx[p].old \cup {tx[p].notice}])]
    /\ UNCHANGED <<stored, shown, notices, uses>> /\ UNCHANGED mailVars

\* The mails to those that were told: one after the other, or at the end; of
\* a chat message it is one mail to all.
QueueMails(p) ==
    /\ tx[p].kind = "notify" /\ p \in CrmUsers /\ tx[p].told # <<>>
    /\ tx[p].todo = <<>> \/ tx[p].how = "each"
    /\ \E mails \in IF tx[p].how # "one" THEN Batches(tx[p].told)
                    ELSE {<<[Mail(tx[p].told) EXCEPT !.code = "sender"]>>} :
         queue' = queue \o mails
    /\ tx' = [tx EXCEPT ![p].told = <<>>]
    /\ UNCHANGED <<stored, shown, mailer, notices, uses>>

\* In the thread: committed at once.
SaveAlone ==
    /\ tx[Reminding].kind = "append"
    /\ LET u == Head(tx[Reminding].todo)
       IN /\ ~Locked(u, Reminding)
          /\ stored' = [stored EXCEPT ![u] = tx[Reminding].old \cup {tx[Reminding].notice}]
    /\ tx' = [tx EXCEPT ![Reminding].kind = "told"]
    /\ UNCHANGED <<shown, notices, uses>> /\ UNCHANGED mailVars

\* The end of a request: its lists become visible.
Commit(p) ==
    /\ stored' = [u \in CrmUsers |-> IF u \in DOMAIN tx[p].writes
                                  THEN tx[p].writes[u].list ELSE stored[u]]
    /\ tx' = [tx EXCEPT ![p] = Idle]
    /\ UNCHANGED <<shown, notices, uses>> /\ UNCHANGED mailVars

\* Two requests wait for each other: the database ends one of them.
BreakDeadlock(p) ==
    /\ tx[p].kind = "append"
    /\ \E q \in CrmUsers \ {p} : /\ tx[q].kind = "append"
                              /\ Head(tx[p].todo) \in DOMAIN tx[q].writes
                              /\ Head(tx[q].todo) \in DOMAIN tx[p].writes
    /\ tx' = [tx EXCEPT ![p] = Idle]
    /\ UNCHANGED <<stored, shown, notices, uses>> /\ UNCHANGED mailVars
-----------------------------------------------------------------------------
(* The middleware, and the form of the profile. *)

\* The profile of the user is loaded, then mails are imported.
BeginRequest(u, kind) ==
    /\ tx[u] = Idle /\ Cardinality(Flying) < MaxFlight /\ Use
    /\ tx' = [tx EXCEPT ![u].kind = kind, ![u].old = stored[u]]
    /\ UNCHANGED <<stored, shown, notices>> /\ UNCHANGED mailVars
\* The messages of the loaded list are shown and the empty list is saved.
ShowMessages(u) ==
    /\ tx[u].kind = "request" /\ tx[u].old # {} /\ ~Locked(u, u)
    /\ shown' = [shown EXCEPT ![u] = @ \cup tx[u].old]
    /\ stored' = [stored EXCEPT ![u] = {}]
    /\ tx' = [tx EXCEPT ![u] = Idle]
    /\ UNCHANGED <<notices, uses>> /\ UNCHANGED mailVars
NoMessages(u) ==
    /\ tx[u].kind = "request" /\ tx[u].old = {}
    /\ tx' = [tx EXCEPT ![u] = Idle]
    /\ UNCHANGED <<stored, shown, notices, uses>> /\ UNCHANGED mailVars
\* The form of the profile saves the whole row, with the list as loaded.
SaveOwnProfile(u) ==
    /\ tx[u].kind = "profile" /\ ~Locked(u, u)
    /\ stored' = [stored EXCEPT ![u] = tx[u].old]
    /\ tx' = [tx EXCEPT ![u] = Idle]
    /\ UNCHANGED <<shown, notices, uses>> /\ UNCHANGED mailVars
-----------------------------------------------------------------------------
(* The thread that sends the mails. *)

Send == /\ mailer = "runs" /\ queue # <<>> /\ queue' = Tail(queue)
        /\ UNCHANGED <<stored, shown, tx, mailer, notices, uses>>
\* Refused, or disconnected twice: the mail is dropped without a trace, and
\* the thread goes on.
DropMail == /\ mailer = "runs" /\ queue # <<>> /\ queue' = Tail(queue)
        /\ UNCHANGED <<stored, shown, tx, mailer, notices, uses>>

\* The process dies: the queue and the requests with it.
CrashNotices ==
    /\ queue' = <<>> /\ mailer' = "runs"
    /\ tx' = [p \in DOMAIN tx |-> Idle]
    /\ UNCHANGED <<stored, shown, notices, uses>>

MailerNext == Send \/ DropMail
==============================================================================
