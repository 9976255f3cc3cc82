------------------------------- MODULE Reports -------------------------------
(***************************************************************************)
(* The months of the statistics: which payments and requests the reports   *)
(* of a day count, and under which month (analytics/utils/helpers.py,      *)
(* analytics/site/*.py).                                                   *)
(*                                                                         *)
(* Months are numbered on, a year has Year of them, and they differ in     *)
(* length; a date is a month and a day of it.  A sum is the set of what    *)
(* is added up.                                                            *)
(***************************************************************************)
EXTENDS Integers, FiniteSets, Sequences, SequencesExt

CONSTANTS Year,      \* months of a year
          Lengths    \* days of the months, in turn

ASSUME ReportsAssumption ==
    /\ Year \in Nat /\ Year > 3
    /\ Lengths \in Seq(Nat \ {0}) /\ Len(Lengths) > 0 /\ Year % Len(Lengths) = 0

VARIABLES today,     \* the date
          payments,  \* payments of one deal: date and status
          requests   \* requests: dates of receipt and creation, disqualified or not

Length(m) == Lengths[(m % Len(Lengths)) + 1]
DatesOf(months) == UNION {{[m |-> m, d |-> d] : d \in 1..Length(m)} : m \in months}
Before(a, b) == a.m < b.m \/ (a.m = b.m /\ a.d < b.d)
From(a, b) == ~Before(a, b)
First(m) == [m |-> m, d |-> 1]
\* relativedelta(months=k): a day the month does not have is its last.
Plus(a, k) == [m |-> a.m + k, d |-> IF a.d <= Length(a.m + k) THEN a.d ELSE Length(a.m + k)]
NextDay(a) == IF a.d < Length(a.m) THEN [a EXCEPT !.d = @ + 1] ELSE First(a.m + 1)
YearAgo == Plus(today, 0 - Year)
-----------------------------------------------------------------------------
(* Charts: one bar a month. *)

\* get_item_list: of the months with something to show the first is dropped
\* when it is too early, and those missing are inserted where they belong.
MonthList(months, start) ==
    LET sorted == SetToSortSeq(months, <)
        all[i \in 0..Year] ==
          IF i = 0 THEN IF sorted # <<>> /\ Head(sorted) < start THEN Tail(sorted) ELSE sorted
          ELSE LET l == all[i - 1]   m == start + i - 1
               IN IF m \in ToSet(l) THEN l ELSE InsertAt(l, i, m)
    IN all[Year]
\* check_time_periods: the last bar is of the month of the given date.
Bars(months, last) == MonthList(months, last.m - (Year - 1))
MonthsOf(S) == {x.date.m : x \in S}
-----------------------------------------------------------------------------
(* The income of this year, of the year before, averaged, and expected. *)

Received == {p \in payments : p.status = "received"}
Current == {p \in Received : Before(YearAgo, p.date)}
Previous == {p \in Received : /\ Before(p.date, First(YearAgo.m + 1))
                              /\ From(p.date, NextDay(Plus(YearAgo, 0 - Year)))}
CurrentBars == Bars(MonthsOf(Current), today)
PreviousBars == Bars(MonthsOf(Previous), YearAgo)
\* What a bar of the month shows.
Bar(S, bars, m) == IF m \in ToSet(bars) THEN {p \in S : p.date.m = m} ELSE {}
ThisMonth == {p \in Current : p.date.m = today.m}

\* The income of the year that ends with the month.
Averaged(m) ==
    {p \in Received : /\ Before(p.date, First(m + 1))
                      /\ From(p.date, NextDay(First(m + 1 - Year)))}

Expected == {p \in payments : p.status = "expected"}
\* A deal is listed when a payment of it is due within three months.
Listed == \E p \in Expected : Before(p.date, First(today.m + 3))
Due == IF Listed THEN {p \in Expected : Before(p.date, First(today.m + 1))} ELSE {}
Mutant_DueIn(k) == IF Listed THEN {p \in Expected : p.date.m <= today.m + k} ELSE {}
\* The month of the year is compared, not the year.
DueIn(k) == IF Listed THEN {p \in Expected : p.date.m % Year = (today.m + k) % Year} ELSE {}
\* The table: a column for this month and one for each of the next two; the
\* total of its rows adds up the columns.
Table == <<Due, DueIn(1), DueIn(2)>>
TimesAdded(p) == Cardinality({k \in DOMAIN Table : p \in Table[k]})
-----------------------------------------------------------------------------
(* Requests of the last year, and their months. *)

Counted == {r \in requests : From(r.receipt, YearAgo) /\ ~r.disqualified}
RequestBars == Bars({r.receipt.m : r \in Counted}, today)
\* Those of a source are chosen by when they were entered.
OfSource == {r \in requests : From(r.created, YearAgo)}
SourceBars == Bars({r.receipt.m : r \in OfSource}, today)
-----------------------------------------------------------------------------
Increasing(l) == \A i, j \in DOMAIN l : i < j => l[i] < l[j]

(* A chart has the months of a year in order; more only for what is dated *)
(* in the future.                                                         *)
Ordered(l, last) ==
    /\ Increasing(l)
    /\ (last.m - Year + 1)..last.m \subseteq ToSet(l)
    /\ \A m \in ToSet(l) : m > last.m - Year
ChartsOrdered == /\ Ordered(CurrentBars, today) /\ Ordered(PreviousBars, YearAgo)
                 /\ Ordered(RequestBars, today)

(* A request that was received long before it was entered is the one that *)
(* puts the months of a source out of order.                              *)
SourceOrdered ==
    \/ Ordered(SourceBars, today)
    \/ \E r, q \in OfSource : r.receipt.m < q.receipt.m /\ q.receipt.m <= YearAgo.m

(* A payment of the last two years is shown once, under its own month.    *)
ShownOnce ==
    \A p \in Received : p.date.m \in (today.m - 2 * Year + 1)..today.m /\ From(today, p.date) =>
      LET one(S, bars) == {m \in ToSet(bars) : p \in Bar(S, bars, m)}
      IN \/ one(Current, CurrentBars) = {p.date.m} /\ one(Previous, PreviousBars) = {}
         \/ one(Current, CurrentBars) = {} /\ one(Previous, PreviousBars) = {p.date.m}

(* The last average is of the year the chart shows, but for what was      *)
(* received on the first day of that year.                                *)
AveragedYear ==
    LET year == {p \in Received : p.date.m \in (today.m - Year + 1)..today.m}
    IN Averaged(today.m) = year \ {p \in year : p.date = First(today.m - Year + 1)}

(* The total adds an expected payment once, twice only one that is overdue*)
(* for most of a year and is taken for one of the next months.            *)
ExpectedOnce ==
    \A p \in Expected : TimesAdded(p) > 1 => TimesAdded(p) = 2 /\ p.date.m <= today.m + 2 - Year
(* No payment due in the next months of a listed deal is left out.        *)
ExpectedAll ==
    \A p \in Expected : Before(p.date, First(today.m + 3)) => TimesAdded(p) > 0
=============================================================================
