------------------------------ MODULE Delivery ------------------------------
(* What massmail promises the recipients: a message is sent to each of     *)
(* them at most as often as he was put on a mailing; sending one and       *)
(* crossing it off is one step.  Nothing is promised any more after an     *)
(* accident: a write that was lost, or a crash in between.                 *)
EXTENDS Integers

CONSTANT Recipients

VARIABLES due,      \* times each recipient was put on a mailing
          left,     \* messages he may still get
          sent,     \* messages he was sent
          accident

Init == /\ due \in [Recipients -> Nat] /\ left = due
        /\ sent = [r \in Recipients |-> 0]
        /\ accident = FALSE

\* A new mailing.
Order(S) ==
    /\ due' = [r \in Recipients |-> due[r] + IF r \in S THEN 1 ELSE 0]
    /\ \A r \in Recipients : left'[r] - left[r] <= due'[r] - due[r]
    /\ UNCHANGED sent

Deliver(r) ==
    /\ left' = [left EXCEPT ![r] = @ - 1]
    /\ sent' = [sent EXCEPT ![r] = @ + 1]
    /\ sent[r] < due[r]
    /\ UNCHANGED due

\* Excluded, deleted, given up; mailings merged, failures tried again.
Withdraw ==
    /\ \A r \in Recipients : left'[r] <= left[r]
    /\ UNCHANGED <<due, sent>>

Next == \/ accident'
        \/ /\ accident' = accident
           /\ \/ \E S \in SUBSET Recipients : Order(S)
              \/ \E r \in Recipients : Deliver(r)
              \/ Withdraw

Spec == Init /\ [][Next]_<<due, left, sent, accident>>
=============================================================================
