------------------------------ MODULE MCAlerts ------------------------------
(* Alerts for TLC: two users of different languages, one of them a leader. *)
EXTENDS Alerts

CONSTANTS u1, u2

Speaks == [u \in CrmUsers |-> IF u = u1 THEN "en" ELSE "uk"]
=============================================================================
