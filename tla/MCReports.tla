------------------------------ MODULE MCReports ------------------------------
(* Reports, Statistics and Snapshots, and Outbox, for TLC.  Reports: a year *)
(* of four months of two or three days, and data of three years.  Outbox:  *)
(* the deal has a file f1, a mail came with f2, whose name is found in that *)
(* of f1.  One of the two parts moves, the other keeps an initial state.   *)
EXTENDS Snapshots, Statistics, Outbox

CONSTANTS d1, d2, s1, r1, r2, c1, c2, u1, u2, f1, f2

Names == {<<f1, f1>>, <<f2, f2>>, <<f1, f2>>}
Came == <<[text |-> "a", deal |-> TRUE, ticket |-> TRUE, paths |-> {f2}]>>

TwoThree == <<3, 2>>
From0 == 2 * Year + 1
Summer == {[m |-> From0 + 1, d |-> 2]}
Winter == {[m |-> From0 + 2, d |-> 2]}
\* The first and last days of the months.
Span == {date \in DatesOf(0..(From0 + Year)) : date.d \in {1, Length(date.m)}}
Payments == [date : Span, status : {"received", "expected"}]
Firsts == {p \in Payments : p.date.d = 1 /\ From0 <= p.date.m}
Requests == {r \in [receipt : Span, created : Span, disqualified : BOOLEAN] :
               From(r.created, r.receipt)}
Entered == {[receipt |-> First(m), created |-> First(From0), disqualified |-> FALSE] : m \in 0..From0}

Old == [m |-> LastMonth - Year, d |-> 1]
Edge == NextDay(Old)   \* a year before the end
Recent == First(LastMonth)
Inquiry == [receipt |-> Recent, created |-> Recent, counts |-> TRUE, subsequent |-> FALSE,
            deal |-> 0, source |-> None]
Deal == [request |-> 0, won |-> FALSE, relevant |-> TRUE, active |-> FALSE, stage |-> 1,
         reason |-> None, closing |-> Recent, country |-> c1, outputs |-> 1]
NoBooks == inquiries = <<>> /\ deals = <<>>
Books ==
    \/ /\ inquiries \in [1..2 -> [receipt : {Old, Edge, Recent}, created : {Recent}, counts : BOOLEAN,
                                  subsequent : BOOLEAN, deal : 0..2, source : {None}]]
       /\ \E won \in [1..2 -> BOOLEAN], relevant \in BOOLEAN :
            deals = [i \in 1..2 |-> [Deal EXCEPT !.request = i, !.won = won[i],
                                                 !.relevant = (i = 1 \/ relevant)]]
    \/ /\ deals = <<>>
       /\ \E made \in [1..3 -> {Old, Recent}], source \in [1..3 -> Sources \cup {None}] :
            inquiries = [i \in 1..3 |-> [Inquiry EXCEPT !.created = made[i], !.source = source[i]]]
    \/ /\ inquiries = <<>>
       /\ deals \in [1..3 -> [request : {0}, won : {FALSE}, relevant : BOOLEAN, active : BOOLEAN,
              stage : 1..Stages, reason : {None}, closing : {Old, Recent}, country : {c1}, outputs : {1}]]
       /\ deals[1].stage <= deals[2].stage /\ deals[2].stage <= deals[3].stage
    \/ /\ inquiries = <<>>
       /\ deals \in [1..2 -> [request : {0}, won : {FALSE}, relevant : {TRUE}, active : BOOLEAN,
              stage : {1}, reason : Reasons \cup {None}, closing : {Recent}, country : Countries,
              outputs : 0..2]]

UsedUp == /\ hour = 0 /\ thread = Start /\ saved = {} /\ late = {} /\ stops = MaxStops
\* The last hour: nothing happens any more.
Over == /\ hour = 2 /\ thread = [at |-> "nap", until |-> [date |-> First(LastMonth + 1), hour |-> 0]]
        /\ saved = {} /\ late = {} /\ stops = MaxStops
\* The thread is stopped, or fails, with at most one payment.
Init == \/ /\ today = First(From0) /\ NoBooks
           /\ \/ /\ requests = {} /\ payments \in {{p} : p \in Firsts} \cup {{}}
                 /\ InitSnapshots
              \/ /\ requests = {} /\ payments \in {{p, q} : p, q \in Payments}
                 /\ UsedUp
              \/ /\ payments = {} /\ UsedUp
                 /\ requests \in {{r} : r \in Requests} \cup {{r, q} : r, q \in Entered}
        \/ /\ today = [m |-> LastMonth, d |-> Length(LastMonth)] /\ Over
           /\ requests = {} /\ payments = {} /\ Books
NoReports == /\ today = First(From0) /\ requests = {} /\ payments = {} /\ NoBooks /\ UsedUp
VARIABLE part
MCInit == /\ OutboxInit
          /\ \/ part = "reports" /\ Init
             \/ part = "outbox" /\ NoReports
MCNext == /\ \/ part = "reports" /\ Next /\ UNCHANGED <<books, outboxVars>>
             \/ part = "outbox" /\ OutboxNext /\ UNCHANGED <<vars, books>>
          /\ UNCHANGED part
MCSpec == MCInit /\ [][MCNext]_<<vars, books, outboxVars, part>>
=============================================================================
