------------------------------ MODULE Reminders ------------------------------
(***************************************************************************)
(* Reminders of a deal, task or project: the check box of its form         *)
(* (common/utils/remind_me.py), the users' own forms of the reminders      *)
(* (common/site/reminderadmin.py), and the thread that tells the owners of *)
(* those that are due (common/utils/reminders_sender.py).                  *)
(*                                                                         *)
(* The thread reads the rows that are due once in a round, and commits     *)
(* each of its statements; only one process of the machine runs it.  It    *)
(* ends at the first exception: the object of a reminder is gone, or a row *)
(* it updates is, or the administrators cannot be mailed about a user      *)
(* without an address.  Time is whether a date has come.                   *)
(***************************************************************************)
EXTENDS Notices

CONSTANTS MaxRows,      \* bound: reminders
          NoAddress,    \* users without an email address
          MaxCrashes    \* bound: crashes

Rows == 1..MaxRows

ASSUME RemindersAssumption ==
    NoAddress \subseteq CrmUsers /\ {MaxRows, MaxCrashes} \subseteq Nat

VARIABLES
    object,   \* the deal: next step, its date, and the check box
    posted,   \* the form of the object each user has sent, with the object as
              \* the request has loaded it
    rows,     \* the reminders, by id
    lastRow,  \* ids are not used again, bounded by MaxRows
    thread,   \* where the thread is in its loop, or that it has ended
    round,    \* the rows it has read and not come to yet, by id
    now,      \* the date that has come
    rung,     \* history: how often each reminder rang since it was set
    crashes   \* history: how often the process died

reminderVars == <<object, posted, rows, lastRow, thread, round, now, rung, crashes>>

Dates == {1, 2}
Steps == {"call", "visit"}
NoRow == [there |-> FALSE, owner |-> CHOOSE u \in CrmUsers : TRUE,
          step |-> "call", date |-> 1, active |-> FALSE, mail |-> FALSE]
Awake(at, r) == [at |-> at, id |-> r.id, row |-> r.row, remind |-> r.remind]
Ready == [at |-> "next"]
Ended == [at |-> "ended"]
NoForm == [on |-> FALSE]

InitReminders ==
    /\ object = [there |-> TRUE, step |-> "call", date |-> 1, remind |-> FALSE]
    /\ posted = [u \in CrmUsers |-> NoForm]
    /\ rows = [r \in Rows |-> NoRow]
    /\ lastRow = 0 /\ thread = Ready /\ round = <<>>
    /\ now = 1 /\ rung = [r \in Rows |-> 0] /\ crashes = 0
-----------------------------------------------------------------------------
(* Forms. *)

Free == {lastRow + 1} \cap Rows
\* Rows set anew have not rung.
Set(new) == /\ rows' = new
            /\ lastRow' = IF \E r \in Free : new[r].there THEN lastRow + 1 ELSE lastRow
            /\ rung' = [r \in Rows |-> IF new[r].there /\ new[r].active /\ new[r] # rows[r]
                                       THEN 0 ELSE rung[r]]

\* The active reminders of the object that remind_me looks for.
Mine(u) == {r \in Rows : rows[r].there /\ rows[r].owner = u /\ rows[r].active}
With(step) == {r \in Rows : rows[r].step = step}
On(date) == {r \in Rows : rows[r].date = date}
Update(these, step, date) ==
    [r \in Rows |-> IF r \in these THEN [rows[r] EXCEPT !.step = step, !.date = date]
                    ELSE rows[r]]

\* What remind_me makes of the reminders after the form of the object: which
\* of them it looks for depends on what has changed in the copy.
RemindMe(u, copy, form) ==
    LET step == form.step # copy.step   date == form.date # copy.date
    IN IF ~form.remind
       THEN {IF ~copy.remind THEN rows
             ELSE [r \in Rows |-> IF r \in Mine(u) \cap With(form.step)
                                  THEN NoRow ELSE rows[r]]}
       ELSE IF ~copy.remind
       THEN {[rows EXCEPT ![r] = [there |-> TRUE, owner |-> u, step |-> form.step,
                date |-> form.date, active |-> TRUE, mail |-> TRUE]] : r \in Free}
       ELSE {Update(IF step THEN IF date THEN Mine(u) ELSE Mine(u) \cap On(form.date)
                    ELSE IF date THEN Mine(u) \cap With(form.step) ELSE {},
                    form.step, form.date)}

\* The form of the object: the request loads the object and looks what the
\* form changes of it.
LoadObject(u) ==
    /\ object.there /\ posted[u] = NoForm /\ Use
    /\ \E form \in [there : {TRUE}, step : Steps, date : Dates, remind : BOOLEAN] :
          posted' = [posted EXCEPT ![u] = [on |-> TRUE, copy |-> object, form |-> form]]
    /\ UNCHANGED <<object, rows, lastRow, thread, round, now, rung, crashes>>
\* The whole row is saved, whatever became of it, then remind_me is called.  The
\* row is locked until both are committed.
PostObject(u) ==
    /\ posted[u] # NoForm /\ posted' = [posted EXCEPT ![u] = NoForm]
    /\ object' = posted[u].form
    /\ \E new \in RemindMe(u, posted[u].copy, posted[u].form) : Set(new)
    /\ UNCHANGED <<uses, thread, round, now, crashes>>
DeleteObject ==
    /\ object.there /\ Use /\ object' = [object EXCEPT !.there = FALSE]
    /\ UNCHANGED <<posted, rows, lastRow, thread, round, now, rung, crashes>>

AddReminder(u) ==
    /\ object.there /\ Use
    /\ \E r \in Free, d \in Dates :
         Set([rows EXCEPT ![r] = [there |-> TRUE, owner |-> u, step |-> "call",
                                  date |-> d, active |-> TRUE, mail |-> TRUE]])
    /\ UNCHANGED <<object, posted, thread, round, now, crashes>>
\* The form of the reminder posts every field; a mail is wanted again.
EditReminder(u) ==
    /\ Use
    /\ \E r \in Rows, d \in Dates, on \in BOOLEAN :
         /\ rows[r].there /\ rows[r].owner = u
         /\ Set([rows EXCEPT ![r].date = d, ![r].active = on, ![r].mail = TRUE])
    /\ UNCHANGED <<object, posted, thread, round, now, crashes>>
DeleteReminder(u) ==
    /\ Use
    /\ \E r \in Rows : /\ rows[r].there /\ rows[r].owner = u
                       /\ Set([rows EXCEPT ![r] = NoRow])
    /\ UNCHANGED <<object, posted, thread, round, now, crashes>>
FormNext == \/ \E u \in CrmUsers : \/ LoadObject(u) \/ PostObject(u) \/ AddReminder(u)
                                \/ EditReminder(u) \/ DeleteReminder(u)
            \/ DeleteObject
\* A date comes; it is told from the one before only by a reminder.
Tick == /\ now < 2 /\ now' = now + 1
        /\ \E r \in Rows : rows[r].there /\ rows[r].active /\ rows[r].date = now'
        /\ UNCHANGED <<object, posted, rows, lastRow, thread, round, rung, crashes>>
-----------------------------------------------------------------------------
(* The thread. *)

Due == {r \in Rows : rows[r].there /\ rows[r].active /\ rows[r].date <= now}
Cur == thread.id
Alone == UNCHANGED noticeVars
End == thread' = Ended /\ round' = <<>>

Mutant_Poll ==  \* not those of this very moment
    LET due == {r \in Due : rows[r].date < now}
    IN /\ thread = Ready /\ round = <<>> /\ due # {}
       /\ round' = Restrict(rows, due)
       /\ UNCHANGED <<object, posted, rows, lastRow, thread, now, rung, crashes>> /\ Alone
\* After the interval the rows that are due are read.
Poll == /\ thread = Ready /\ round = <<>> /\ Due # {}
        /\ round' = Restrict(rows, Due)
        /\ UNCHANGED <<object, posted, rows, lastRow, thread, now, rung, crashes>> /\ Alone

\* The next row as it was read: its object is loaded, and save_message of its
\* owner begins.
NextRow ==
    /\ thread = Ready /\ round # <<>>
    /\ IF object.there
       THEN \E r \in DOMAIN round :
              /\ thread' = [at |-> "tell", id |-> r, row |-> round[r],
                            remind |-> object.remind]
              /\ round' = Restrict(round, DOMAIN round \ {r})
              /\ notices' = notices + 1
              /\ tx' = [tx EXCEPT ![Reminding] =
                          [Idle EXCEPT !.kind = "notify", !.todo = <<round[r].owner>>,
                                       !.notice = notices + 1]]
       ELSE End /\ UNCHANGED <<notices, tx>>
    /\ UNCHANGED <<stored, shown, uses, object, posted, rows, lastRow, now, rung, crashes>>
    /\ UNCHANGED mailVars

\* The mail, to the owner or about his missing address.
SendReminder ==
    /\ tx[Reminding].kind = "told" /\ tx' = [tx EXCEPT ![Reminding] = Idle]
    /\ rung' = [rung EXCEPT ![Cur] = @ + 1]
    /\ LET u == thread.row.owner
       IN \/ /\ ~thread.row.mail \/ u \in NoAddress
             /\ thread' = Awake("flag", thread)
             /\ UNCHANGED <<round, queue, uses>>
          \/ /\ thread.row.mail /\ u \notin NoAddress
             /\ queue' = Append(queue, Mail(<<u>>))
             /\ thread' = Awake("flag", [thread EXCEPT !.row.mail = FALSE])
             /\ UNCHANGED <<round, uses>>
          \/ /\ thread.row.mail /\ u \in NoAddress /\ End /\ UNCHANGED <<queue, uses>>
    /\ UNCHANGED <<stored, shown, mailer, notices, object, posted, rows, lastRow, now, crashes>>

\* The check box of the object, as it was loaded, is cleared.
ClearBox ==
    /\ thread.at = "flag"
    /\ IF ~thread.remind
       THEN thread' = Awake("save", thread) /\ UNCHANGED <<object, round>>
       ELSE IF object.there
       THEN /\ object' = [object EXCEPT !.remind = FALSE]
            /\ thread' = Awake("save", thread) /\ UNCHANGED round
       ELSE End /\ UNCHANGED object
    /\ UNCHANGED <<posted, rows, lastRow, now, rung, crashes>> /\ Alone
Mutant_SaveReminder ==  \* it stays active when it was sent by mail
    /\ thread.at = "save"
    /\ IF rows[Cur].there
       THEN /\ rows' = [rows EXCEPT ![Cur].mail = thread.row.mail]
            /\ thread' = Ready /\ UNCHANGED round
       ELSE End /\ UNCHANGED rows
    /\ UNCHANGED <<object, posted, lastRow, now, rung, crashes>> /\ Alone
\* Two columns of the reminder: it is done.
SaveReminder ==
    /\ thread.at = "save"
    /\ IF rows[Cur].there
       THEN /\ rows' = [rows EXCEPT ![Cur].active = FALSE, ![Cur].mail = thread.row.mail]
            /\ thread' = Ready /\ UNCHANGED round
       ELSE End /\ UNCHANGED rows
    /\ UNCHANGED <<object, posted, lastRow, now, rung, crashes>> /\ Alone

ThreadNext == Poll \/ NextRow \/ SendReminder \/ ClearBox \/ SaveReminder
CrashReminders == /\ crashes < MaxCrashes /\ thread' = Ready /\ round' = <<>>
                  /\ crashes' = crashes + 1 /\ posted' = [u \in CrmUsers |-> NoForm]
                  /\ UNCHANGED <<object, rows, lastRow, now, rung>>
==============================================================================
