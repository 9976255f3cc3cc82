----------------------------- MODULE Statistics -----------------------------
(***************************************************************************)
(* The summaries of requests, deals and sales: conversion of requests,     *)
(* sources of requests, the sales funnel, closing reasons and products     *)
(* sold (analytics/site/*statadmin.py, salesfunnelsadmin.py).              *)
(*                                                                         *)
(* They are functions of the rows: what is counted is given as sets, so    *)
(* that parts can be compared with the whole.  Percentages are whole.      *)
(***************************************************************************)
EXTENDS Reports, FiniteSetsExt

CONSTANTS Stages,    \* number of stages, in their order
          Sources, Reasons, Countries

ASSUME StatisticsAssumption ==
    Stages \in Nat /\ IsFiniteSet(Sources) /\ IsFiniteSet(Reasons) /\ IsFiniteSet(Countries)

VARIABLES inquiries,  \* requests: when received and entered, whether they count,
                      \* subsequent or primary, the deal, the source
          deals       \* deals: the request, won, relevant, active, the stage, the
                      \* closing reason and date, the country, and how many outputs

None == "none"
books == <<inquiries, deals>>
Of(S, m) == {i \in S : inquiries[i].receipt.m = m}
Chart(S) == Bars({inquiries[i].receipt.m : i \in S}, today)
-----------------------------------------------------------------------------
(* RequestStatAdmin and ConversionStatAdmin.                               *)

Total == {i \in DOMAIN inquiries : From(inquiries[i].receipt, YearAgo) /\ inquiries[i].counts}
\* Those whose deal is won by its closing reason or its stage.
TotalWon == {i \in Total : inquiries[i].deal # 0 /\ deals[inquiries[i].deal].won}
Primary == {i \in Total : ~inquiries[i].subsequent}
Subsequent == {i \in Total : inquiries[i].subsequent}
\* Of the won, those whose deal was made for a request of S.
WonOf(S) == {i \in TotalWon : deals[inquiries[i].deal].request \in S}
\* Two charts are laid one over the other, bar by bar.
ConversionBars(won, all) ==
    LET x == Chart(won)  y == Chart(all)
    IN  [k \in DOMAIN x \cap DOMAIN y |-> [won |-> Of(won, x[k]), all |-> Of(all, y[k])]]

\* DealStatAdmin, by the date of the request.
YearDeals(kinds) == {i \in DOMAIN inquiries :
    /\ From(inquiries[i].receipt, YearAgo)
    /\ \E d \in DOMAIN deals : deals[d].request = i /\ deals[d].relevant \in kinds}
DealChart(kinds) == Chart(YearDeals(kinds))
-----------------------------------------------------------------------------
(* LeadSourceStatAdmin, for the sources that are chosen.                   *)

ThisYear == {i \in DOMAIN inquiries : From(inquiries[i].created, YearAgo)}
With(S, sources) == {i \in S : inquiries[i].source \in sources}
All(S, sources) == With(S, sources) \cup With(S, {None})
\* Parts of the year are divided when there are requests of any year.
SourcesFail(chosen) == All(DOMAIN inquiries, chosen) # {} /\ All(ThisYear, chosen) = {}
-----------------------------------------------------------------------------
(* SalesFunnelAdmin.                                                       *)

Closed == {d \in DOMAIN deals : deals[d].relevant /\ ~deals[d].active}
Funnel == {d \in Closed : From(deals[d].closing, YearAgo)}
At(s) == {d \in Funnel : deals[d].stage = s}
Rows == SetToSortSeq({s \in 1..Stages : At(s) # {}}, <)
Left ==
    LET left[k \in 0..Len(Rows)] ==
          IF k = 0 THEN Cardinality(Funnel) ELSE left[k - 1] - Cardinality(At(Rows[k]))
    IN  left
\* The last stage shows what is at it.
RestOf(k) == IF Left[k] # 0 THEN Left[k] ELSE Cardinality(At(Rows[k]))
\* The lengths of the bars, the first for all of them.
Pct == LET rest == [k \in 1..(Len(Rows) + 1) |-> IF k = 1 THEN Left[0] ELSE RestOf(k - 1)]
           low == Min({rest[k] : k \in 2..Len(rest)})
       IN  [k \in DOMAIN rest |-> IF Rows # <<>> /\ rest[1] > low THEN (100 * rest[k]) \div rest[1] ELSE 2]
-----------------------------------------------------------------------------
(* ClosingReasonStatAdmin, for a product or for none.                      *)

\* A deal with two outputs of the product is there twice.
Times(d, product) == IF product THEN deals[d].outputs ELSE 1
TotalDeals(product) == MapThenSumSet(LAMBDA d : Times(d, product), Closed)
ReasonTotal(r, product) ==
    Cardinality({d \in Closed : deals[d].reason = r /\ Times(d, product) > 0})
\* The product is asked for again: twice twice.
CountryTotal(c, product) ==
    MapThenSumSet(LAMBDA d : Times(d, product) * Times(d, product), {d \in Closed : deals[d].country = c})
-----------------------------------------------------------------------------
(* OutputStatAdmin: in which months the products of a deal are sold.       *)

Newest(p) == \A q \in Received : From(p.date, q.date)
\* Whoever sees all departments sees the last payment of a deal only.
SoldIn(m, everything) == \E p \in Received : p.date.m = m /\ (everything => Newest(p))
-----------------------------------------------------------------------------
Linked == \A i \in DOMAIN inquiries : inquiries[i].deal # 0 => deals[inquiries[i].deal].request = i

(* Conversions compare won requests with those they are part of, in total *)
(* and month by month, unless a request was linked by hand to the deal of *)
(* another; and the bars of relevant and irrelevant deals add up.         *)
PartsAdd == inquiries # <<>> =>
    /\ \A k \in DOMAIN ConversionBars(TotalWon, Total) :
          LET b == ConversionBars(TotalWon, Total)[k] IN b.won \subseteq b.all
    /\ Linked =>
        /\ WonOf(Primary) \subseteq Primary /\ WonOf(Subsequent) \subseteq Subsequent
        /\ TotalWon = WonOf(Primary) \cup WonOf(Subsequent)
        /\ \A k \in DOMAIN ConversionBars(WonOf(Primary), Primary) :
              LET b == ConversionBars(WonOf(Primary), Primary)[k] IN b.won \subseteq b.all
    /\ LET all == DealChart(BOOLEAN) IN \A r \in BOOLEAN :
        /\ DealChart({r}) = all
        /\ \A m \in ToSet(all) : Of(YearDeals({r}), m) \cup Of(YearDeals({~r}), m) = Of(YearDeals(BOOLEAN), m)

(* The summary of sources is shown whenever there are requests of the     *)
(* year.  Closing reasons and countries share the deals that are closed,  *)
(* and all of them unless a deal has two outputs of the product, or, for  *)
(* reasons, has none.                                                     *)
SharesAdd == books # <<<<>>, <<>>>> =>
    /\ \A chosen \in SUBSET Sources : All(ThisYear, chosen) # {} => ~SourcesFail(chosen)
    /\ \A product \in BOOLEAN :
        LET reasons == MapThenSumSet(LAMBDA r : ReasonTotal(r, product), Reasons)
            countries == MapThenSumSet(LAMBDA c : CountryTotal(c, product), Countries)
            twice == \E d \in Closed : Times(d, product) > 1
            open == \E d \in Closed : Times(d, product) > 0 /\ deals[d].reason = None
        IN  /\ reasons <= TotalDeals(product) /\ TotalDeals(product) <= countries
            /\ ~twice => countries = TotalDeals(product)
            /\ ~twice /\ ~open => reasons = TotalDeals(product)

(* After a stage the funnel shows the deals of the stages that follow, and *)
(* after the last those of the last; its bars never grow, but are all the *)
(* same size when every deal was closed at one stage.                     *)
FunnelShrinks == deals # <<>> =>
    /\ \A k \in DOMAIN Rows :
        LET later == {d \in Funnel : deals[d].stage > Rows[k]}
        IN  RestOf(k) = Cardinality(IF later = {} THEN At(Rows[k]) ELSE later)
    /\ \A k \in 2..Len(Pct) : Pct[k] <= Pct[k - 1] /\ Pct[k] \in 1..100
    /\ Len(Rows) > 1 => Pct[1] = 100

(* The products of a deal are sold in one month for those who see all     *)
(* departments, the month of its last payment; others see them in every   *)
(* month that brought a payment.                                          *)
SoldOnce ==
    LET months(everything) == {m \in {p.date.m : p \in Received} : SoldIn(m, everything)}
    IN  /\ months(TRUE) = IF Received = {} THEN {} ELSE {Max({p.date.m : p \in Received})}
        /\ months(FALSE) = {p.date.m : p \in Received}

\* The figures of the reports agree with the rows and with each other, on
\* every day of the year.
FiguresAgree ==
    /\ ChartsOrdered
    /\ SourceOrdered
    /\ ShownOnce
    /\ AveragedYear
    /\ ExpectedOnce
    /\ ExpectedAll
    /\ PartsAdd
    /\ SharesAdd
    /\ FunnelShrinks
    /\ SoldOnce
=============================================================================
