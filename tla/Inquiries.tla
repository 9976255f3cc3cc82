----------------------------- MODULE Inquiries ------------------------------
(* What the import of inquiries promises: every mail that was saved as an  *)
(* inquiry becomes a request, once, or is given up by a failure or a       *)
(* restart; no request is made of a mail that is not saved.                *)
EXTENDS Naturals

CONSTANT Mails

VARIABLES saved,   \* rows of each mail saved as an inquiry
          made,    \* requests made of it
          lost     \* mails some failure has hit

Init == saved = [m \in Mails |-> 0] /\ made = saved /\ lost = {}

Save(m) == saved' = [saved EXCEPT ![m] = @ + 1] /\ UNCHANGED <<made, lost>>
Make(m) == made[m] < saved[m] /\ made' = [made EXCEPT ![m] = @ + 1] /\ UNCHANGED <<saved, lost>>
Lose == lost \subseteq lost' /\ lost' \subseteq Mails /\ UNCHANGED <<saved, made>>

Next == Lose \/ \E m \in Mails : Save(m) \/ Make(m)

Spec == Init /\ [][Next]_<<saved, made, lost>>

\* Fair: no inquiry is left alone for ever.
FairSpec == Spec /\ []<>(\A m \in Mails : made[m] = saved[m] \/ m \in lost)
=============================================================================
