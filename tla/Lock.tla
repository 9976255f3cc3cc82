-------------------------------- MODULE Lock --------------------------------
(* What the storage of IMAP connections promises its users                 *)
(* (crm/utils/manage_imaps.py): the connection of an account is with one   *)
(* thread at a time, which gives it back.  A thread that leaves without    *)
(* giving it back takes it away from everybody, for good.  Nothing is      *)
(* promised any more after an accident, a test that was out of date.       *)
CONSTANTS Threads, Nobody, Lost

VARIABLES owner, accident

Init == owner = Nobody /\ accident = FALSE

Borrow(t) == owner = Nobody /\ owner' = t
Return(t) == owner = t /\ owner' = Nobody
Lose(t) == owner = t /\ owner' = Lost

Next == \/ accident'
        \/ accident' = accident /\ \E t \in Threads : Borrow(t) \/ Return(t) \/ Lose(t)

Spec == Init /\ [][Next]_<<owner, accident>>
=============================================================================
