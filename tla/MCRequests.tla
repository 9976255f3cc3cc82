----------------------------- MODULE MCRequests -----------------------------
(* The instances TLC checks Requests on.                                   *)
EXTENDS Requests, TLC

CONSTANTS r1, r2, u1, u2, c1, c2

Symmetric == Permutations(Reqs) \cup Permutations(Users) \cup Permutations(Companies)
=============================================================================
