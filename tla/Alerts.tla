-------------------------------- MODULE Alerts --------------------------------
(***************************************************************************)
(* The notices of the CRM with those that send them: requests that notify  *)
(* users, the messages of the chat, and the thread of the reminders.  They *)
(* share the messages in the profiles and the queue of mails.              *)
(***************************************************************************)
EXTENDS Reminders, Chat

alertVars == <<noticeVars, reminderVars, chatVars>>

InitAlerts == InitNotices /\ InitReminders /\ InitChat

\* A form of a deal, task or memo tells users: notify_user of each, or
\* save_message to each and one list of mails.
Notify(u) ==
    /\ tx[u] = Idle /\ Cardinality(Flying) < MaxFlight
    /\ Use /\ notices' = notices + 1
    /\ \E to \in (SUBSET CrmUsers) \ {{}} : \E list \in Orders(to), how \in {"each", "batch"} :
         /\ Len(list) = 1 => how = "each"
         /\ tx' = [tx EXCEPT ![u] = [Idle EXCEPT !.kind = "notify", !.how = how,
                                     !.todo = list, !.notice = notices + 1]]
    /\ UNCHANGED <<stored, shown>> /\ UNCHANGED mailVars
EndNotify(u) == /\ tx[u].kind = "notify" /\ tx[u].how # "one"
                /\ tx[u].todo = <<>> /\ tx[u].told = <<>> /\ Commit(u)

\* What a started request does next.
Continue(u) == \/ LoadProfile(u) \/ SaveProfile(u) \/ QueueMails(u) \/ EndNotify(u)
               \/ BreakDeadlock(u) \/ ShowMessages(u) \/ NoMessages(u)
               \/ SaveOwnProfile(u)
NoticesNext ==
    \/ \E u \in CrmUsers : \/ Notify(u) \/ Continue(u)
                        \/ \E kind \in {"request", "profile"} : BeginRequest(u, kind)
    \/ MailerNext
Remind == ThreadNext \/ ((LoadProfile(Reminding) \/ SaveAlone) /\ UNCHANGED reminderVars)
CrashAlerts == CrashNotices /\ CrashReminders /\ UNCHANGED chatVars

NextAlerts == \/ (NoticesNext /\ UNCHANGED <<reminderVars, chatVars>>)
        \/ (Remind /\ UNCHANGED chatVars)
        \/ (FormNext /\ UNCHANGED <<stored, shown, tx, queue, mailer, notices, chatVars>>)
        \/ (Tick /\ UNCHANGED <<noticeVars, chatVars>>)
        \/ (ChatNext /\ UNCHANGED reminderVars)
        \/ CrashAlerts
AlertsSpec == InitAlerts /\ [][NextAlerts]_alertVars

\* Some request that has started, and both threads, go on; nobody has to
\* start a request, and nothing has to fail.
Progress == \E u \in CrmUsers :
    \/ Continue(u) /\ UNCHANGED <<reminderVars, chatVars>>
    \/ (CommitMessage(u) \/ AbortMessage(u)) /\ UNCHANGED reminderVars
AlertsFair == /\ AlertsSpec /\ WF_alertVars(Progress) /\ WF_alertVars(Remind /\ UNCHANGED chatVars)
            /\ WF_alertVars(Send /\ UNCHANGED <<reminderVars, chatVars>>)
-----------------------------------------------------------------------------
(* Rows, transactions and threads are what they should be. *)
AlertsTypeOK ==
    /\ \A u \in CrmUsers : stored[u] \cup shown[u] \subseteq 1..notices
    /\ \A p \in DOMAIN tx : /\ tx[p].kind \in {"idle", "notify", "append", "told",
                                               "request", "profile"}
                            /\ DOMAIN tx[p].writes \subseteq CrmUsers
    /\ \A i \in DOMAIN queue : queue[i].to \subseteq CrmUsers
    /\ object \in [there : BOOLEAN, step : Steps, date : Dates, remind : BOOLEAN]
    /\ \A u \in CrmUsers : posted[u].on => posted[u].copy.there /\ posted[u].form.there
    /\ \A r \in Rows : rows[r] \in [there : BOOLEAN, owner : CrmUsers, step : Steps,
                                    date : Dates, active : BOOLEAN, mail : BOOLEAN]
    /\ thread.at \in {"next", "tell", "flag", "save", "ended"}
    /\ DOMAIN round \subseteq Rows /\ now \in 0..2
    /\ \A m \in DOMAIN chat : chat[m].unread \subseteq CrmUsers /\ chat[m].to # {}

\* What p has read of the list of u.
Holds(p, u, n) == n \in IF u \in DOMAIN tx[p].writes THEN tx[p].writes[u].read ELSE tx[p].old
(* A message of a committed notice leaves the profile unseen only when    *)
(* somebody writes a list read before the message was committed; one that *)
(* was shown comes back only in a list read before it was shown.          *)
MessagesKept ==
    [][\A u \in CrmUsers :
         /\ \A n \in stored[u] \ (stored'[u] \cup shown'[u]) :
              \E p \in DOMAIN tx : tx[p] # Idle /\ ~Holds(p, u, n)
         /\ \A n \in (stored'[u] \ stored[u]) \cap shown[u] :
              \E p \in DOMAIN tx : tx[p] # Idle /\ Holds(p, u, n)]_alertVars

(* The users told together are mailed once each, in their own language.   *)
MailedOnce ==
    [][\A u \in CrmUsers : QueueMails(u) /\ tx[u].how # "one" =>
         LET new == SubSeq(queue', Len(queue) + 1, Len(queue'))
         IN /\ \A v \in ToSet(tx[u].told) :
                 \E i \in DOMAIN new : v \in new[i].to /\ new[i].code = Language[v]
            /\ \A i, j \in DOMAIN new : i # j => new[i].to \cap new[j].to = {}]_alertVars

(* A reminder rings once for every time it is set, or again after a       *)
(* crash between its message and its row                                  *)
(* (common/utils/reminders_sender.py:70-104).                             *)
RungOnce == \A r \in Rows : rung[r] <= 1 + crashes

(* The box "remind me" is checked only while an active reminder is to ring,*)
(* unless somebody deletes it or switches it off in the form of the       *)
(* reminders, the thread has loaded the object before the box was         *)
(* checked, or a form that has loaded the object while it was checked     *)
(* writes it back after the thread has cleared it, or after the object    *)
(* was deleted (common/utils/remind_me.py:33-64).                         *)
Finishing(r) == thread.at = "save" /\ Cur = r
Promised == object.there /\ object.remind =>
              \E r \in Rows : rows[r].there /\ rows[r].active /\ ~Finishing(r)
WritesBack(u) == posted[u].copy.remind /\ ~(object.there /\ object.remind)
PromiseKept ==
    [][Promised => \/ Promised'
                   \/ \E u \in CrmUsers : EditReminder(u) \/ DeleteReminder(u)
                   \/ thread.at = "flag" /\ ~thread.remind
                   \/ \E u \in CrmUsers : PostObject(u) /\ WritesBack(u)]_alertVars

(* Nobody has unread messages that are not shown to him.                  *)
UnreadVisible == \A m \in DOMAIN chat : chat[m].unread \subseteq chat[m].to

(* Nobody but the reader marks a message as read: others take it back     *)
(* only by editing or deleting the message.                               *)
ReadByReader ==
    [][\A m \in DOMAIN chat : \A u \in chat[m].unread :
         Exists(m)' /\ chat'[m].owner = chat[m].owner /\ u \notin chat'[m].unread =>
            \/ ReadMessages(u) \/ CommitMessage(u)
            \/ \E v \in CrmUsers : CommitMessage(v) /\ tx[v].about.kind = "edit"]_alertVars

\* A message, a mail, a promised reminder and an unread mark vanish only by
\* the step that is meant to take them, or by an old copy that is saved.
AlertsKept ==
    /\ MessagesKept
    /\ MailedOnce
    /\ PromiseKept
    /\ ReadByReader

(* An answer is not left without the message it answers.                  *)
AnswersKept == \A m \in DOMAIN chat : chat[m].answers = None \/ Exists(chat[m].answers)

\* Reminders ring as often as they were set; unread messages are visible to
\* their readers, answers have their questions.
AlertsSound ==
    /\ AlertsTypeOK
    /\ RungOnce
    /\ UnreadVisible
    /\ AnswersKept

(* Every mail leaves the queue, sent or dropped.                          *)
MailsLeave == queue # <<>> ~> queue = <<>>

(* A reminder that is due rings, is changed, or the thread has ended.     *)
Rings == \A r \in Rows : r \in Due ~> (r \notin Due \/ thread = Ended)

\* Whatever was promised is told in the end: a due reminder and a queued mail.
AlertsGo ==
    /\ Rings
    /\ MailsLeave
=============================================================================
