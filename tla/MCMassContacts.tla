-------------------------- MODULE MCMassContacts --------------------------
(* The instances TLC checks MassContacts on: everything starts with the     *)
(* first manager; the second has, or may get, the third account.            *)
EXTENDS MassContacts

CONSTANTS r1, r2, r3, a1, a2, a3, u1, u2, c1, c2, c3

MCOwner == [r \in Recipients |-> u1]
MCManager == [a \in Accounts |-> IF a = a3 THEN u2 ELSE u1]
Symmetric == Permutations(Contacts) \cup Permutations(Recipients)
=============================================================================
