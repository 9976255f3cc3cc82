------------------------------ MODULE MCTasks -------------------------------
(* Tasks and Companies for TLC: one part of the system moves, the other    *)
(* keeps one of its initial states.                                       *)
EXTENDS Tasks, Companies, TLC

CONSTANTS u1, u2, h1, boss, s1, s2, s3, a, b

VARIABLE part
MCInit == /\ Init /\ CompaniesInit
          /\ \/ part = "tasks" /\ companies[1] = companies[2]
             \/ part = "companies"
MCNext == /\ \/ part = "tasks" /\ Next /\ UNCHANGED companyVars
             \/ part = "companies" /\ CompaniesNext /\ UNCHANGED vars
          /\ UNCHANGED part
MCSpec == MCInit /\ [][MCNext]_<<vars, companyVars, part>>

Symmetric == Permutations(Resp) \cup Permutations(Subs) \cup Permutations(Teams)
=============================================================================
