------------------------------ MODULE MCLists ------------------------------
(***************************************************************************)
(* Lists and, with fairness, Payments for TLC: one part of the system      *)
(* moves, the other keeps one of its initial states.  Lists: two managers  *)
(* of one department, the first of them its head, a superoperator of two   *)
(* departments and a chief; two or three rows.  Payments: of one currency  *)
(* the bank knows only some days.                                          *)
(***************************************************************************)
EXTENDS Lists, Payments, TLC

CONSTANTS m1, m2, so, ch, d1, d2, c1, t1, x1, u1, u2, usd, eur

MCGroups == m1 :> {"managers", "department heads"} @@ m2 :> {"managers"}
            @@ so :> {"operators"} @@ ch :> {"chiefs"}
MCMember == m1 :> {d1} @@ m2 :> {d1} @@ so :> {d1, d2} @@ ch :> {}
Deal(u, x, d) == [owner |-> u, co |-> x, dept |-> d, active |-> TRUE, city |-> c1,
                  tags |-> {t1}, products |-> {x1}, parent |-> IF x = None THEN 0 ELSE 1]
Mail(u, d, in, deal) == [owner |-> u, dept |-> d, incoming |-> in, sent |-> FALSE, trash |-> FALSE,
                         parent |-> deal]
Task(u, R, p, h) == [owner |-> u, co |-> None, responsible |-> R, subscribers |-> {},
                     active |-> TRUE, hides |-> h, parent |-> p]
MCSold == x1 :> {d1}
MCRows == [deals |-> {<<Deal(m1, m2, d1), Deal(m2, None, d1)>>,
                      <<Deal(m1, None, d1), Deal(None, None, d2)>>},
           mails |-> {<<Mail(m1, d1, FALSE, 1), Mail(m2, d1, FALSE, 1)>>,
                      <<Mail(m1, d2, TRUE, 0), Mail(None, d1, FALSE, 1)>>},
           tasks |-> {<<Task(ch, {m1, m2}, 0, FALSE), Task(m2, {m1}, 1, TRUE),
                        Task(ch, {m1}, 0, FALSE)>>,
                      <<Task(ch, {}, 0, FALSE), Task(ch, {m1}, 1, FALSE),
                        Task(m2, {m1}, 1, FALSE)>>}]

AtFirst == [c \in Currencies |-> IF c = usd THEN "marketing" ELSE "state"]
Listed == {<<usd, 0>>, <<usd, 1>>, <<usd, 2>>, <<eur, 0>>, <<eur, 2>>}

VARIABLE part
MCInit == /\ Init /\ PaymentsInit
          /\ \/ part = "lists"
             \/ part = "payments" /\ kind = "deals" /\ rows[1].co = None
MCNext == /\ \/ part = "lists" /\ ListsNext /\ UNCHANGED paymentVars
             \/ part = "payments" /\ PaymentsNext /\ UNCHANGED listVars
          /\ UNCHANGED part
MCSpec == MCInit /\ [][MCNext]_<<listVars, paymentVars, part>> /\ PaymentsFair
=============================================================================
