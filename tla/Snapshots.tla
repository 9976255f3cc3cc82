------------------------------ MODULE Snapshots ------------------------------
(***************************************************************************)
(* The thread that saves the income report of every department on the last *)
(* evening of a month (analytics/utils/monthly_snapshot_saving.py).        *)
(*                                                                         *)
(* An hour is one of three parts of a day: before ten, from ten to eleven  *)
(* and from eleven to midnight.  The thread computes how long it is to     *)
(* eleven by the wall clock and sleeps that long: when the clocks are put  *)
(* forward meanwhile it wakes an hour too late, put back an hour too early.*)
(* Time does not pass while the thread is awake.  It ends with the process,*)
(* or when the mail about an exception cannot be sent, and is started with *)
(* the process again, at any later hour.                                   *)
(***************************************************************************)
EXTENDS Reports

CONSTANTS Departments,  \* those with managers
          Forward,      \* dates on which the clocks are put forward
          Back,         \* dates on which they are put back
          LastMonth,    \* bound: the month the clock stops in
          MaxStops      \* bound: ends of the process, and failures

\* The clocks are changed once a month at most.
ASSUME SnapshotsAssumption ==
    /\ IsFiniteSet(Departments) /\ {LastMonth, MaxStops} \subseteq Nat
    /\ Forward \cap Back = {} /\ \A a, b \in Forward \cup Back : a.m = b.m => a = b

VARIABLES
    hour,    \* the part of the day, 0, 1 or 2
    thread,  \* what it does, and until when it sleeps, or that it does not run
    saved,   \* the snapshots, numbered for each department: month shown, month meant
    late,    \* history: months in whose last hour the thread was started or failed
    stops    \* ends of the process and failures so far, bounded by MaxStops

threadVars == <<thread, saved, late, stops>>
vars == <<today, payments, requests, hour, threadVars>>

Start == [at |-> "start"]
Stopped == [at |-> "stopped"]
Evening(m) == [date |-> [m |-> m, d |-> Length(m)], hour |-> 2]
Now == [date |-> today, hour |-> hour]
Later(t) == IF t.hour < 2 THEN [t EXCEPT !.hour = @ + 1] ELSE [date |-> NextDay(t.date), hour |-> 0]
Earlier(t) == [t EXCEPT !.hour = @ - 1]
Nap == [at |-> "nap", until |-> Later(Now)]
Reached(t) == Before(t.date, today) \/ (t.date = today /\ t.hour <= hour)
InitSnapshots == /\ hour \in 0..2 /\ thread = Start /\ saved = {} /\ late = {} /\ stops = 0
-----------------------------------------------------------------------------
Mutant_Compute ==  \* the last evening of the next month
    /\ thread = Start
    /\ thread' = [at |-> "sleep", until |-> Evening(today.m + 1), meant |-> today.m + 1]
    /\ UNCHANGED <<saved, late, stops, hour>>
\* The last evening of this month, if it is still to come.
Compute ==
    /\ thread = Start
    /\ IF Reached(Evening(today.m))
       THEN thread' = Nap /\ late' = late \cup {today.m}
       ELSE /\ thread' = [at |-> "sleep", until |-> Evening(today.m), meant |-> today.m]
            /\ UNCHANGED late
    /\ UNCHANGED <<saved, stops, hour>>
\* The departments one after the other, as the report is at that moment.
WakeUp ==
    /\ thread.at = "sleep" /\ Reached(thread.until)
    /\ thread' = [at |-> "save", todo |-> Departments, meant |-> thread.meant]
    /\ UNCHANGED <<saved, late, stops, hour>>
SaveSnapshot ==
    /\ thread.at = "save" /\ thread.todo # {}
    /\ \E d \in thread.todo :
         /\ saved' = saved \cup {[of |-> d, nr |-> 1 + Cardinality({s \in saved : s.of = d}),
                                  month |-> today.m, meant |-> thread.meant, shows |-> ThisMonth]}
         /\ thread' = [thread EXCEPT !.todo = @ \ {d}]
    /\ UNCHANGED <<late, stops, hour>>
SavedAll == /\ thread.at = "save" /\ thread.todo = {} /\ thread' = Nap
            /\ UNCHANGED <<saved, late, stops, hour>>
Stop == stops < MaxStops /\ stops' = stops + 1
\* The administrators are told, the departments left over are not tried again.
\* When they cannot be told the thread ends.
FailSnapshot ==
    /\ thread.at = "save" /\ thread.todo # {} /\ Stop /\ thread' \in {Nap, Stopped}
    /\ late' = late \cup {thread.meant} /\ UNCHANGED <<saved, hour>>
\* An hour after it slept: before ten there is time for many of them.
NapOver == /\ thread.at = "nap" /\ (Reached(thread.until) \/ hour = 0)
           /\ thread' = Start /\ UNCHANGED <<saved, late, stops, hour>>
\* The process ends; it is started in this hour or in a later one.
EndProcess == /\ thread # Stopped /\ Stop /\ thread' = Stopped /\ UNCHANGED <<saved, late, hour>>
Restart == /\ thread = Stopped /\ thread' = Start /\ UNCHANGED <<saved, late, stops, hour>>

Asleep == thread.at \in {"sleep", "nap"} /\ ~Reached(thread.until)
\* The hour passes; a sleep that a change of the clocks falls into ends an
\* hour later, or earlier, by the clock.
Tick ==
    /\ Asleep \/ thread = Stopped
    /\ (today.m < LastMonth \/ today.d < Length(today.m) \/ hour < 2)
    /\ LET next == Later(Now)
           shift == IF next.hour # 0 \/ thread.at # "sleep" THEN "none"
                    ELSE IF next.date \in Forward THEN "later"
                    ELSE IF next.date \in Back THEN "earlier" ELSE "none"
       IN /\ today' = next.date /\ hour' = next.hour
          /\ thread' = CASE shift = "none" -> thread
                         [] shift = "later" -> [thread EXCEPT !.until = Later(@)]
                         [] shift = "earlier" -> [thread EXCEPT !.until = Earlier(@)]
    /\ UNCHANGED <<saved, late, stops, payments, requests>>

ThreadNext == Compute \/ WakeUp \/ SaveSnapshot \/ SavedAll \/ FailSnapshot \/ NapOver
              \/ EndProcess \/ Restart
Next == (ThreadNext /\ UNCHANGED <<today, payments, requests>>) \/ Tick

\* Of any payments and requests, from any day on.
SnapshotsSpec == /\ InitSnapshots /\ today \in DatesOf(0..LastMonth)
                 /\ [][Next]_vars
-----------------------------------------------------------------------------
TypeOK ==
    /\ hour \in 0..2 /\ today \in DatesOf(0..LastMonth)
    /\ thread.at \in {"start", "sleep", "save", "nap", "stopped"}
    /\ \A s \in saved : s.of \in Departments /\ s.shows \subseteq Received
    /\ stops \in 0..MaxStops

Changed(m, dates) == \E d \in 1..Length(m) : [m |-> m, d |-> d] \in dates

(* A snapshot shows the month whose end the thread waited for, unless the *)
(* clocks were put forward in that month.                                 *)
RightMonth == \A s \in saved : s.month = s.meant \/ Changed(s.meant, Forward)

(* A department has one snapshot of a month, unless the clocks were       *)
(* changed in it or in the month before, however often the thread was     *)
(* started again or failed.                                               *)
OneSnapshot == \A s, t \in saved :
    s # t /\ s.of = t.of /\ s.month = t.month =>
        \E m \in {s.month - 1, s.month} : Changed(m, Forward \cup Back)

(* When a month is over every department has its snapshot, unless the     *)
(* thread does not run then, was started in the last hour, or failed, or  *)
(* the clocks were put forward.                                           *)
SavedInTime ==
    [][today'.m # today.m =>
         \/ \A d \in Departments : \E s \in saved : s.of = d /\ s.month = today.m
         \/ thread = Stopped \/ today.m \in late \/ Changed(today.m, Forward)]_vars

\* A department gets one snapshot of a month, of the right month and in time if
\* the thread runs then, through restarts, failures and changes of the clocks.
Snapshotted ==
    /\ []TypeOK
    /\ []RightMonth
    /\ []OneSnapshot
    /\ SavedInTime
=============================================================================
