------------------------------- MODULE Payments -------------------------------
(***************************************************************************)
(* Payments, currencies and exchange rates (crm/models/payment.py, the     *)
(* form of the currencies crm/site/currencyadmin.py, and the thread that   *)
(* asks a bank for rates crm/utils/rates_loader.py).                       *)
(*                                                                         *)
(* A received payment makes an approximate rate of its currency and day    *)
(* when there is none; every day the thread replaces the rates of past     *)
(* payments by those of the bank, and the rates of the currencies.  A form *)
(* is a transaction that sees what is committed and is seen when it ends;  *)
(* the thread commits every statement, and saves whole currencies as it    *)
(* loaded them when its round began.                                       *)
(*                                                                         *)
(* The value of a rate is the day it is of.                                *)
(***************************************************************************)
EXTENDS Integers, FiniteSets, Sequences, SequencesExt

CONSTANTS Clerks,
          Currencies,
          Marked,        \* how the currencies are marked at first
          Quoted,        \* the rates the bank knows: <<currency, day>>
          MaxDay,        \* bound: days that differ
          MaxPayments,   \* bound: payments
          MaxRates,      \* bound: rates
          MaxPosts,        \* bound: forms posted
          MaxFailures    \* bound: failures of the bank and of the mail server

Days == 1..MaxDay
Marks == {"none", "state", "marketing"}

ASSUME PaymentsAssumption ==
    /\ IsFiniteSet(Clerks) /\ IsFiniteSet(Currencies)
    /\ {MaxDay, MaxPayments, MaxRates, MaxPosts, MaxFailures} \subseteq Nat
    /\ Marked \in [Currencies -> Marks]
    /\ MaxDay > 0 /\ Quoted \subseteq Currencies \X (0..MaxDay)

VARIABLES
    day,         \* today
    currencies,  \* the rows of the currencies
    due,    \* the rows of the payments, by id
    rates,       \* the rows of the rates, by id
    filling,          \* the form each user is in the middle of
    loader,      \* where the thread is
    failures,    \* failures so far, bounded by MaxFailures
    posts          \* forms posted so far, bounded by MaxOps

paymentVars == <<day, currencies, due, rates, filling, loader, failures, posts>>
tables == <<currencies, due, rates>>

NoPost == [kind |-> "idle"]
LoaderAsleep == [at |-> "asleep"]
Ended == [at |-> "ended"]
-----------------------------------------------------------------------------
PaymentsInit ==
    /\ day = 1 /\ due = <<>> /\ rates = <<>>
    /\ currencies = [c \in Currencies |-> [rate |-> 0, mark |-> Marked[c], auto |-> TRUE]]
    /\ filling = [u \in Clerks |-> NoPost]
    \* The thread ends at once when there is no marketing currency.
    /\ loader = IF \E c \in Currencies : currencies[c].mark = "marketing" THEN LoaderAsleep ELSE Ended
    /\ failures = 0 /\ posts = 0

RatesOf(c, d) == {r \in DOMAIN rates : rates[r].currency = c /\ rates[r].date = d}
Use == posts < MaxPosts /\ posts' = posts + 1

(* The form of a payment: Payment.save. *)

\* An approximate rate is made: the payment is received and no rate of its
\* currency and day is there.
NeedsRate(form, old) == form.received /\ RatesOf(form.currency, form.date) = {}

Forms == [currency : Currencies, date : Days, received : BOOLEAN]
PostPayment(u) ==
    /\ filling[u] = NoPost /\ Use
    /\ \E form \in Forms, id \in (DOMAIN due) \cup {Len(due) + 1} :
         /\ form.date <= day /\ id <= MaxPayments
         /\ \A v \in Clerks : filling[v].kind = "payment" => filling[v].id # id
         /\ LET old == {due[p] : p \in {id} \cap DOMAIN due}
                wanted == NeedsRate(form, old)
            IN filling' = [filling EXCEPT ![u] =
                        [kind |-> "payment", id |-> id, form |-> form, wanted |-> wanted,
                         looked |-> DOMAIN rates,
                         rate |-> IF wanted THEN currencies[form.currency].rate ELSE 0]]
    /\ UNCHANGED <<day, loader, failures>> /\ UNCHANGED tables
Mutant_SavePayment(u, t) ==  \* the rate takes the place of one that is there
    LET new == [currency |-> t.form.currency, date |-> t.form.date, value |-> t.rate, official |-> FALSE]
        same == RatesOf(t.form.currency, t.form.date)
    IN rates' = IF ~t.form.received THEN rates
                ELSE IF same # {} THEN [rates EXCEPT ![CHOOSE r \in same : TRUE] = new]
                ELSE Append(rates, new)
\* The rate it makes of the currency it has read.
SavePayment(u, t) ==
    rates' = IF ~t.wanted THEN rates
             ELSE Append(rates, [currency |-> t.form.currency, date |-> t.form.date,
                                 value |-> t.rate, official |-> FALSE])
CommitPayment(u) ==
    /\ filling[u].kind = "payment" /\ filling' = [filling EXCEPT ![u] = NoPost]
    /\ Len(rates) < MaxRates \/ ~filling[u].wanted
    /\ due' = IF filling[u].id \in DOMAIN due
                   THEN [due EXCEPT ![filling[u].id] = filling[u].form]
                   ELSE Append(due, filling[u].form)
    /\ SavePayment(u, filling[u])
    /\ UNCHANGED <<day, currencies, loader, failures, posts>>

(* The form of a currency. *)

\* No other currency is marked the same.
Clean(c, mark) == mark = "none" \/ \A d \in Currencies \ {c} : currencies[d].mark # mark
\* The form saves every column: the rate as it was typed, or on the page.
PostCurrency(u) ==
    /\ filling[u] = NoPost /\ Use
    /\ \E c \in Currencies, mark \in Marks, auto \in BOOLEAN :
         /\ \A v \in Clerks : filling[v].kind = "currency" => filling[v].id # c
         /\ Clean(c, mark)
         /\ filling' = [filling EXCEPT ![u] = [kind |-> "currency", id |-> c, looked |-> currencies,
                      form |-> [rate |-> currencies[c].rate, mark |-> mark, auto |-> auto]]]
    /\ UNCHANGED <<day, loader, failures>> /\ UNCHANGED tables
CommitCurrency(u) ==
    /\ filling[u].kind = "currency" /\ filling' = [filling EXCEPT ![u] = NoPost]
    /\ currencies' = [currencies EXCEPT ![filling[u].id] = filling[u].form]
    /\ UNCHANGED <<day, due, rates, loader, failures, posts>>
LoaderTick == /\ day < MaxDay /\ day' = day + 1
        /\ UNCHANGED <<filling, loader, failures, posts>> /\ UNCHANGED tables
-----------------------------------------------------------------------------
(* The thread. *)

Quiet == UNCHANGED <<day, due, filling, posts>>
Fault == failures < MaxFailures /\ failures' = failures + 1
\* The administrators are told of an error; that may fail too.
Reported(next) == /\ loader' \in {next, Ended}
              /\ IF loader' = Ended THEN Fault ELSE UNCHANGED failures

\* A round of a day: the currencies that are updated are loaded.
StartRound ==
    /\ loader = LoaderAsleep
    /\ loader' = [at |-> "update", now |-> day, loaded |-> currencies,
                  todo |-> {c \in Currencies : currencies[c].auto}]
    /\ UNCHANGED failures /\ Quiet /\ UNCHANGED <<currencies, rates>>

\* The rate of yesterday, in the row as it was loaded.
SaveCurrency(c) ==
    currencies' = [currencies EXCEPT ![c] = [loader.loaded[c] EXCEPT !.rate = loader.now - 1]]
UpdateCurrency ==
    /\ loader.at = "update"
    /\ \E c \in loader.todo :
         LET next == [loader EXCEPT !.todo = @ \ {c}]
           drop == [next EXCEPT !.loaded = IF next.todo = {} THEN <<>> ELSE @]
         IN \/ /\ <<c, loader.now - 1>> \in Quoted
               /\ SaveCurrency(c) /\ loader' = drop /\ UNCHANGED failures
            \/ /\ <<c, loader.now - 1>> \notin Quoted
               /\ Reported(drop) /\ UNCHANGED currencies
    /\ Quiet /\ UNCHANGED rates

\* Received before today and without an official rate.
Awaits(p, now) ==
    /\ p \in DOMAIN due /\ due[p].received /\ due[p].date < now
    /\ \A r \in RatesOf(due[p].currency, due[p].date) : ~rates[r].official
Known(p) == <<due[p].currency, due[p].date>> \in Quoted
Mutant_Oldest(now) ==  \* the last one
    CHOOSE p \in DOMAIN due : Awaits(p, now) /\ \A q \in DOMAIN due : Awaits(q, now) => q <= p
\* first() of the rows: the lowest id.
Oldest(now) ==
    CHOOSE p \in DOMAIN due : Awaits(p, now) /\ \A q \in DOMAIN due : Awaits(q, now) => p <= q

\* The first payment that waits is asked for; without an answer the round ends.
AskRate ==
    /\ loader.at = "update" /\ loader.todo = {}
    /\ LET now == loader.now
           waiting == {p \in DOMAIN due : Awaits(p, now)}
       IN \/ waiting = {} /\ loader' = LoaderAsleep /\ UNCHANGED failures
          \/ /\ waiting # {} /\ Known(Oldest(now)) /\ UNCHANGED failures
             /\ loader' = [at |-> "get", now |-> now, payment |-> due[Oldest(now)]]
          \/ /\ waiting # {} /\ ~Known(Oldest(now)) /\ Reported(LoaderAsleep)
          \/ /\ waiting # {} /\ Fault /\ loader' \in {LoaderAsleep, Ended}
    /\ Quiet /\ UNCHANGED <<currencies, rates>>

\* The one row to change, or a new one; two are an error nobody catches.
GetRate ==
    /\ loader.at = "get"
    /\ LET same == RatesOf(loader.payment.currency, loader.payment.date)
       IN loader' = IF Cardinality(same) > 1 THEN Ended
                    ELSE [at |-> "save", now |-> loader.now, payment |-> loader.payment,
                          row |-> same, looked |-> DOMAIN rates]
    /\ UNCHANGED failures /\ Quiet /\ UNCHANGED <<currencies, rates>>
SaveRate ==
    /\ loader.at = "save"
    /\ LET p == loader.payment
           new == [currency |-> p.currency, date |-> p.date, value |-> p.date, official |-> TRUE]
       IN IF loader.row = {}
          THEN Len(rates) < MaxRates /\ rates' = Append(rates, new)
          ELSE rates' = [rates EXCEPT ![CHOOSE r \in loader.row : TRUE] = new]
    /\ loader' = [at |-> "update", now |-> loader.now, loaded |-> <<>>, todo |-> {}]
    /\ UNCHANGED failures /\ Quiet /\ UNCHANGED currencies
LoaderNext == StartRound \/ UpdateCurrency \/ AskRate \/ GetRate \/ SaveRate
-----------------------------------------------------------------------------
(* The list of payments, with their sums.                                  *)

\* The first rate of the currency and day, or 0.
RateOf(p) ==
    LET same == RatesOf(due[p].currency, due[p].date)
    IN IF same = {} THEN 0 ELSE CHOOSE r \in same : \A s \in same : r <= s
Official(p) == RateOf(p) # 0 /\ rates[RateOf(p)].official
\* Without one, by the rate of the currency as it is now.
Valued(p) == IF RateOf(p) = 0 THEN currencies[due[p].currency].rate ELSE rates[RateOf(p)].value
\* The sums of the list are called official, those of an empty one are not.
OfficialSums(S) == S # {} /\ \A p \in S : Official(p)
-----------------------------------------------------------------------------
PaymentsNext ==
    \/ \E u \in Clerks : \/ PostPayment(u) \/ CommitPayment(u)
                        \/ PostCurrency(u) \/ CommitCurrency(u)
    \/ LoaderNext \/ LoaderTick
PaymentsSpec == PaymentsInit /\ [][PaymentsNext]_paymentVars
\* The thread runs while it does not end, and days pass.
PaymentsFair == WF_paymentVars(LoaderNext) /\ WF_paymentVars(LoaderTick)
FairPayments == PaymentsSpec /\ PaymentsFair
-----------------------------------------------------------------------------
PaymentsTypeOK ==
    /\ currencies \in [Currencies -> [rate : 0..MaxDay, mark : Marks, auto : BOOLEAN]]
    /\ \A p \in DOMAIN due : due[p] \in Forms
    /\ \A r \in DOMAIN rates : /\ rates[r].currency \in Currencies /\ rates[r].date \in Days
                               /\ rates[r].value < day
    /\ loader.at \in {"asleep", "update", "get", "save", "ended"}

(* Every received payment has a rate of its day to be valued by           *)
(* (crm/models/payment.py:137-153), whoever saved it and however often.   *)
Rated == \A p \in DOMAIN due :
    due[p].received => RatesOf(due[p].currency, due[p].date) # {}

(* A currency and day get a second rate only from somebody who looked     *)
(* before the first was there.                                            *)
OneRate ==
    [][\A r \in DOMAIN rates' \ DOMAIN rates :
         LET same == RatesOf(rates'[r].currency, rates'[r].date)
             blind(looked) == same \cap looked = {}
         IN same # {} =>
              \/ \E u \in Clerks : filling[u].kind = "payment" /\ filling'[u] = NoPost /\ blind(filling[u].looked)
              \/ loader.at = "save" /\ blind(loader.looked)]_paymentVars

(* An official rate stays as the bank gave it.                            *)
OfficialKept == [][\A r \in DOMAIN rates : rates[r].official => rates'[r] = rates[r]]_paymentVars

(* Sums that are called official are of the rates the bank gave for the   *)
(* days of the payments, and stay the same until a payment is changed     *)
(* (PaymentAdmin.changelist_view).                                        *)
OfficialIsPast == \A S \in SUBSET DOMAIN due : OfficialSums(S) =>
    \A p \in S : due[p].date < day /\ Valued(p) = due[p].date
SumsStay ==
    [][\A S \in SUBSET DOMAIN due : OfficialSums(S) /\ UNCHANGED due =>
         OfficialSums(S)' /\ \A p \in S : Valued(p)' = Valued(p)]_paymentVars

(* Two currencies are marked the same only after somebody looked at, or   *)
(* loaded, the currencies as they were before the other was marked.       *)
MarkedOnce ==
    [][\A c, d \in Currencies :
         LET twice(f) == c # d /\ f[c].mark = f[d].mark /\ f[c].mark # "none"
         IN twice(currencies') /\ ~twice(currencies) =>
              \/ \E u \in Clerks : /\ filling[u].kind = "currency" /\ filling'[u] = NoPost
                                  /\ filling[u].looked # currencies
              \/ loader.at = "update" /\ loader.loaded # currencies]_paymentVars

\* Received payments have rates, official rates and sums stay, and neither rates
\* nor marks are doubled, except by someone who looked before the other wrote.
RatesKept ==
    /\ []PaymentsTypeOK
    /\ []Rated
    /\ []OfficialIsPast
    /\ OneRate
    /\ OfficialKept
    /\ SumsStay
    /\ MarkedOnce

(* A payment the bank knows the rate of gets it, unless an older payment  *)
(* waits for a rate the bank does not know, it changes, or the thread     *)
(* has ended.                                                             *)
Blocked(p) == \E q \in 1..(p - 1) : Awaits(q, MaxDay) /\ ~Known(q)
Loaded == \A p \in 1..MaxPayments :
    Awaits(p, MaxDay) /\ Known(p) ~> ~Awaits(p, MaxDay) \/ ~Known(p) \/ Blocked(p) \/ loader = Ended
=============================================================================
