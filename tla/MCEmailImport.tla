--------------------------- MODULE MCEmailImport ----------------------------
(* EmailImport and CrmImap for TLC: one part of the system moves, the      *)
(* other keeps its initial state.  The mails come in order; two processes  *)
(* scan the box, or two threads share a connection with the manager's.     *)
EXTENDS EmailImport, CrmImap, TLC

CONSTANTS p1, p2, k, o1, o2, o3, o4

MCTicketText == {<<"ticket", "text">>}
MCLast == {<<"crm", "ticket">>, <<"text", "plain">>}

VARIABLE part
MCInit == Init /\ ImapInit /\ part \in {"import", "imap"}
MCNext == /\ \/ part = "import" /\ Next /\ UNCHANGED imapVars
             \/ part = "imap" /\ ImapNext /\ UNCHANGED vars
          /\ UNCHANGED part
MCSpec == MCInit /\ [][MCNext]_<<vars, imapVars, part>>

Symmetric == Permutations(Procs)

(* The import alone, with fairness.                                        *)
LiveInit == MCInit /\ part = "import"
LiveNext == Next /\ UNCHANGED <<imapVars, part>>
LiveSpec == LiveInit /\ [][LiveNext]_<<vars, imapVars, part>> /\ Fairness

\* Every inquiry in the database becomes a request in the end, once, unless a
\* failure or a restart has hit it: the abstract specification with its
\* fairness.
Q == INSTANCE Inquiries WITH saved <- inqs, made <- reqs, lost <- missed.failed
Requested == Q!FairSpec
=============================================================================
