---------------------------- MODULE MCTransfers ----------------------------
(***************************************************************************)
(* Two departments, and a third that can be made by copying; a deal and a  *)
(* company with a contact of one user; forms of a site.                    *)
(***************************************************************************)
EXTENDS SiteForms, TLC

CONSTANTS u1, u2, d1, d2, d3, f1

MCHome == u1 :> d1 @@ u2 :> d2
Entry(i, k, d, n) == [kind |-> k, name |-> n, dept |-> d, key |-> i]
Own == << Entry(1, "stage", d1, "new"), Entry(2, "type", d1, "client"),
          Entry(3, "tag", d1, "vip"), Entry(4, "source", d1, "site"),
          Entry(5, "source", d2, "site"), Entry(6, "reason", d1, "new"),
          Entry(7, "reason", d2, "new"), Entry(8, "industry", d1, "steel") >>
\* The other department has the same stage and industry, or not.
MCLists == {Own, Own \o << Entry(9, "stage", d2, "new"), Entry(10, "industry", d2, "steel") >>}
ADeal == [Row("deal", u1, d1, 0) EXCEPT !.fk = [stage |-> 1, reason |-> 6], !.m2m = {3}]
ACompany(S) == [Row("company", u1, d1, 0) EXCEPT !.fk = [type |-> 2, source |-> 4], !.m2m = S]
AContact(c) == [Row("contact", u1, d1, c) EXCEPT !.m2m = {3}]
MCOwned == {<<ADeal>>, <<ACompany({3, 8}), AContact(1)>>}
MCAddable == {<<"stage", "new">>}
MCAdding == {"contact"}
=============================================================================
