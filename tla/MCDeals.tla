------------------------------ MODULE MCDeals -------------------------------
(* Deals and Memos for TLC: one part of the system moves, the other keeps  *)
(* its initial state.  Managers are interchangeable.                      *)
EXTENDS Deals, Memos, TLC

CONSTANTS m1, m2, c1, p1, a, c, w

Some == {{}, {a}, {w}, {c, w}}
Requests == {[memo |-> 4, project |-> 0], [memo |-> 2, project |-> 1], [memo |-> 0, project |-> 3]}
None0 == [memo |-> 0, project |-> 0]

VARIABLE part
MCInit == /\ Init
          /\ \/ part = "deals" /\ InitProjects /\ InitMemos /\ left = None0
             \/ part = "memos" /\ OfficeInit
MCNext == /\ \/ part = "deals" /\ Next /\ UNCHANGED officeVars
             \/ part = "memos" /\ OfficeNext /\ UNCHANGED vars
          /\ UNCHANGED part
MCSpec == MCInit /\ [][MCNext]_<<vars, officeVars, part>>

Symmetric == Permutations(Managers)
=============================================================================
