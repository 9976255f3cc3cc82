-------------------------- MODULE MCMailingOuts --------------------------
(* One manager, a main and a second email account, two recipients: the     *)
(* instances TLC checks MailingOuts on.                                     *)
EXTENDS MailingOuts, TLC

CONSTANTS m1, m2, m3, m4, r1, r2, a1, a2, u1

MCRecipients == {r1, r2}
MCAccounts == {a1, a2}
MCMailingOwner == [m \in Mailings |-> u1]
MCAccountOwner == [a \in Accounts |-> u1]
MCMain == {a2}
\* Nothing is said of what comes after a lost write, types apart.
Undisturbed == ~disturbed
NewIds == Permutations({m3, m4})
=============================================================================
