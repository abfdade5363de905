------------------------------ MODULE Position ------------------------------
(***************************************************************************)
(* What a CFD pays: margins, profit, and the payout curve the CETs and the *)
(* settlement proposals are made from, for one order and the CFD its taker *)
(* records from Open on.  The maker is short at leverage 1, the taker long *)
(* at Leverage.  Refunds are left out.                                     *)
(*                                                                         *)
(* Amounts are satoshis, Coin of them to a bitcoin; prices are dollars.    *)
(* Prices inside the curve are rational: they are kept as multiples of     *)
(* 1/Grain dollars.  The spline that stands for the curve between its ends *)
(* deviates from it by at most FitError satoshis, by which is left open    *)
(* (`fit').  InversePrice is exact here (28 digits in the code).           *)
(***************************************************************************)

EXTENDS Integers, FiniteSets

CONSTANTS
    None,
    Coin,        \* satoshis in a bitcoin (10^8 in the code)
    Leverage,    \* leverage of the long side (2 in Order::new)
    NPayouts,    \* N_PAYOUTS (200 in the code)
    Prices,      \* prices an order is made at
    Quantities,  \* quantities it is taken with
    Quotes,      \* prices the price feed reports and the oracle attests
    FitError,    \* bound on the error of the spline
    MaxCloses    \* bound: settlements the taker signs

ASSUME CoinAssumption == Coin \in Nat \ {0} /\ FitError \in Nat /\ MaxCloses \in Nat
ASSUME LeverageAssumption == Leverage \in 1..255
ASSUME PayoutsAssumption == NPayouts \in Nat /\ NPayouts >= 3
ASSUME PriceAssumption ==
    /\ Prices \subseteq Nat \ {0}
    /\ Quantities \subseteq Nat \ {0}
    /\ Quotes \subseteq Nat \ {0}

VARIABLES
    order,     \* price and quantity of the CFD
    fit,       \* error of the spline at each inner sample
    oracle,    \* the price the oracle attests
    market,    \* the taker's latest quote
    feed,      \* the price feed is still read
    proposal,  \* the settlement the taker proposes, or None
    signed,    \* the settlements the taker has signed: the maker may publish them
    end,       \* the transaction that spent the contract, or None
    phase,     \* "open", "committed" or "closed": the state of the record
    close,     \* its collaborative_close, or None
    attested,  \* its attestation's price, or None
    forgot     \* the record has lost a settlement the taker signed

terms == <<order, fit, oracle>>
quote == <<market, feed>>
record == <<phase, close, attested>>
vars == <<terms, quote, proposal, signed, end, record, forgot>>

(***************************************************************************)
(* Margins and profit                                                      *)
(***************************************************************************)

\* Usd / Price and Usd * InversePrice: a quotient rescaled to whole satoshis
Sats(num, den) == (2 * num + den) \div (2 * den)

LongMargin(o) == Sats(o.quantity * Coin, o.price * Leverage)
ShortMargin(o) == Sats(o.quantity * Coin, o.price)
Margin(o, side) == IF side = "long" THEN LongMargin(o) ELSE ShortMargin(o)

\* closing_price <= price * leverage / (leverage + 1)
LongIsLiquidated(o, price) == price * (Leverage + 1) <= o.price * Leverage

AmountChanged(o, price) ==
    Sats(o.quantity * Coin, o.price) - Sats(o.quantity * Coin, price)

PayoutAt(o, side, price) ==
    CASE side = "long"  /\ LongIsLiquidated(o, price) -> 0
      [] side = "long"  /\ ~LongIsLiquidated(o, price) ->
            LongMargin(o) + AmountChanged(o, price)
      [] side = "short" /\ LongIsLiquidated(o, price) ->
            LongMargin(o) + ShortMargin(o)
      [] side = "short" /\ ~LongIsLiquidated(o, price) ->
            ShortMargin(o) - AmountChanged(o, price)

\* a closing price of 0 cannot be inverted: the UI then shows 0
ProfitAt(o, side, price) ==
    IF price = 0 THEN 0 ELSE PayoutAt(o, side, price) - Margin(o, side)

ClosingPrice ==
    CASE close # None -> close.price
      [] close = None /\ attested # None -> attested
      [] close = None /\ attested = None -> market

ShownProfit(side) == ProfitAt(order, side, ClosingPrice)

(***************************************************************************)
(* The payout curve                                                        *)
(***************************************************************************)

\* both ends of the curve and its sample points are whole in this unit
Grain == 4 * NPayouts * (Leverage + 1)
Round(x) == (2 * x + Grain) \div (2 * Grain)

LowerCorner(o) == 4 * NPayouts * o.price * Leverage
UpperCorner(o) == 2 * o.price * Grain
Delta(o) == (UpperCorner(o) - LowerCorner(o)) \div NPayouts

\* total_value in satoshis is PoolNum / PoolDen
PoolNum(o) == o.quantity * Coin * (Leverage + 1)
PoolDen(o) == o.price * Leverage

Sample(o, i) ==
    CASE i = 0 -> 0
      [] i = 1 -> LowerCorner(o)
      [] i \in 2..NPayouts -> LowerCorner(o) + Delta(o) \div 2 + (i - 2) * Delta(o)
      [] i = NPayouts + 1 -> UpperCorner(o)

Middle(o, i) == (Sample(o, i) + Sample(o, i + 1)) \div 2

\* the payout of the long side at a sample, and what is left of the pool
LongAt(o, e, i) ==
    LET x == Sample(o, i)
    IN  IF i = 1 THEN 0
        ELSE (o.quantity * Coin * ((Leverage + 1) * x - PoolDen(o) * Grain))
                \div (PoolDen(o) * x)  + (IF i \in DOMAIN e THEN e[i] ELSE 0)

(* Mutant: the short side is paid by the curve and not from the pool.      *)
ShortAtOwnCurve(o, e, i) ==
    IF i = 1 THEN PoolNum(o) \div PoolDen(o)
    ELSE (o.quantity * Coin * Grain) \div Sample(o, i)

ShortAt(o, e, i) ==
    IF i = 1 THEN PoolNum(o) \div PoolDen(o)
    ELSE (o.quantity * Coin * Grain) \div Sample(o, i)
            - (IF i \in DOMAIN e THEN e[i] ELSE 0)

(* Mutant: a range starts where the last one ends.                         *)
LeftOfLast(o, i) ==
    CASE i = 1 -> 0
      [] i = 2 -> Round(Sample(o, 1))
      [] i \in 3..(NPayouts + 1) -> Round(Middle(o, i - 1))

LeftOf(o, i) ==
    CASE i = 1 -> 0
      [] i = 2 -> Round(Sample(o, 1)) + 1
      [] i \in 3..(NPayouts + 1) -> Round(Middle(o, i - 1)) + 1

RightOf(o, i) ==
    IF i \in {1, NPayouts + 1} THEN Round(Sample(o, i)) ELSE Round(Middle(o, i))

\* calculate: a range of prices for each sample, and what it pays
Payouts(o, e) ==
    { [left  |-> LeftOf(o, i),     right |-> RightOf(o, i),
       taker |-> LongAt(o, e, i),  maker |-> ShortAt(o, e, i)]
      : i \in 1..(NPayouts + 1) }

\* to_sats refuses a negative amount, generate_payouts an empty range
Payable(o, e) ==
    \A r \in Payouts(o, e) : r.taker >= 0 /\ r.maker >= 0 /\ r.left <= r.right

RangesOf(price) == {r \in Payouts(order, fit) : price \in r.left..r.right}

(***************************************************************************)
(* The life of the contract, as far as it tells what is paid               *)
(***************************************************************************)

Init ==
    /\ order \in [price : Prices, quantity : Quantities]
    /\ fit \in [2..NPayouts -> {-FitError, 0, FitError}]
    /\ Payable(order, fit)
    /\ oracle \in Quotes \cup {0}
    /\ market = order.price /\ feed = TRUE
    /\ proposal = None /\ signed = {} /\ end = None
    /\ phase = "open" /\ close = None /\ attested = None
    /\ forgot = FALSE

\* a new quote
Quote(price) ==
    /\ feed
    /\ market' = price
    /\ UNCHANGED <<terms, feed, proposal, signed, end, record, forgot>>

\* the first message that is no text, or an error, ends the feed for good:
\* the last quote stays
FeedEnds ==
    /\ feed /\ feed' = FALSE
    /\ UNCHANGED <<terms, market, proposal, signed, end, record, forgot>>

\* the taker proposes to settle at its current quote
ProposeSettlement ==
    /\ phase = "open" /\ proposal = None /\ close = None
    /\ Cardinality(signed) < MaxCloses
    /\ \E r \in RangesOf(market) :
        proposal' = [price |-> market, taker |-> r.taker, maker |-> r.maker]
    /\ UNCHANGED <<terms, quote, signed, end, record, forgot>>

(* Mutant: the close is recorded at the quote of the moment.               *)
ConcludeAtMarket(agreed) ==
    /\ proposal # None /\ (agreed => phase = "open")
    /\ proposal' = None
    /\ close' = IF agreed THEN [proposal EXCEPT !.price = market] ELSE close
    /\ signed' = IF agreed THEN signed \cup {proposal} ELSE signed
    /\ UNCHANGED <<terms, quote, end, phase, attested, forgot>>

\* the maker rejects it, or accepts it and the taker signs and records it
ConcludeSettlement(agreed) ==
    /\ proposal # None /\ (agreed => phase = "open")
    /\ proposal' = None
    /\ close' = IF agreed THEN proposal ELSE close
    /\ signed' = IF agreed THEN signed \cup {proposal} ELSE signed
    /\ UNCHANGED <<terms, quote, end, phase, attested, forgot>>

\* the taker stops between sending its signature and writing the record
StopAfterSigning ==
    /\ proposal # None /\ phase = "open"
    /\ proposal' = None
    /\ signed' = signed \cup {proposal}
    /\ forgot' = TRUE
    /\ UNCHANGED <<terms, quote, end, record>>

\* an Open record takes an attestation again and drops its close; one that
\* is committed takes it once; it counts only if a CET covers its price
Attest ==
    /\ RangesOf(oracle) # {}
    /\ \/ phase = "open"
       \/ phase = "committed" /\ attested = None
    /\ attested' = oracle
    /\ close' = None
    /\ forgot' = (forgot \/ close # None)
    /\ UNCHANGED <<terms, quote, proposal, signed, end, phase>>

\* CommitTxSent, CommitFinality and CetTimelockExpired drop the close
Commit ==
    /\ phase = "open" /\ phase' = "committed"
    /\ close' = None
    /\ forgot' = (forgot \/ close # None)
    /\ UNCHANGED <<terms, quote, proposal, signed, end, attested>>

\* a close confirms: CloseFinality closes a record that still holds one
CloseConfirms(c) ==
    /\ end = None
    /\ end' = [by |-> "close", price |-> c.price, taker |-> c.taker]
    /\ phase' = IF close # None THEN "closed" ELSE phase
    /\ UNCHANGED <<terms, quote, proposal, signed, close, attested, forgot>>

\* the CET of the attested price confirms, whoever published it: CetFinality
\* closes a record that has the attestation
CetConfirms ==
    /\ end = None /\ phase = "committed"
    /\ \E r \in RangesOf(oracle) :
        end' = [by |-> "cet", price |-> oracle, taker |-> r.taker]
    /\ phase' = IF attested # None THEN "closed" ELSE phase
    /\ UNCHANGED <<terms, quote, proposal, signed, close, attested, forgot>>

Next ==
    \/ \E price \in Quotes : Quote(price)
    \/ FeedEnds
    \/ ProposeSettlement
    \/ \E agreed \in BOOLEAN : ConcludeSettlement(agreed)
    \/ StopAfterSigning
    \/ Attest
    \/ Commit
    \/ \E c \in signed : CloseConfirms(c)
    \/ CetConfirms

Spec == Init /\ [][Next]_vars

-----------------------------------------------------------------------------
(* Properties.                                                             *)

Curve == 0..(2 * order.price)
Lock == LongMargin(order) + ShortMargin(order)

(* Whatever is attested between 0 and twice the initial price, exactly one *)
(* CET pays it, and none pays a price above: the half segments at both     *)
(* ends and the rounding of every bound neither leave a price out nor give *)
(* it to two CETs.                                                         *)
EveryPriceOnce ==
    LET ranges == Payouts(order, fit)
        Of(price) == {r \in ranges : price \in r.left..r.right}
    IN  /\ \A price \in Curve : \E r \in Of(price) : Of(price) = {r}
        /\ \A price \in Quotes \ Curve : Of(price) = {}

(* The two payouts of a range never take more than the two margins lock   *)
(* and leave at most two satoshis of it to the fee: margins are rounded up *)
(* or down each on its own, the pool is not.                               *)
LockCoversPayouts ==
    \A r \in Payouts(order, fit) : r.taker + r.maker \in (Lock - 2)..Lock

\* what the taker gets: what spent the contract pays, before that the close
\* on record, before that the CET of the attestation on record
Payment ==
    CASE end # None -> {end}
      [] end = None /\ close # None -> {close}
      [] end = None /\ close = None /\ attested # None ->
            {[price |-> attested, taker |-> r.taker] : r \in RangesOf(attested)}
      [] OTHER -> {}

\* how much the profit varies over one range, and the spline's error
Slack(r) ==
    LET below == IF r.left > 2 THEN r.left - 2 ELSE 1
    IN  ProfitAt(order, "long", r.right + 1) - ProfitAt(order, "long", below)
            + FitError + 2

(* What the UI shows is what is paid: of a CFD that is settled, attested   *)
(* or spent, the profit shown to the taker differs from the change the     *)
(* taker is paid by no more than the profit varies over one range, and the *)
(* spline's error, through late and repeated attestations, commits and     *)
(* stops.  The formula is implemented twice, in calculate_profit and in    *)
(* the payout curve.  Three cases are excepted: an attested price of 0 is  *)
(* shown as no profit; the CET is shown only once the attestation is       *)
(* learnt; and a close may confirm that an attestation, a commit or a stop *)
(* of the taker took from the record, while the page shows the attested    *)
(* price, the market's or that of another close.                           *)
ShownIsPaid ==
    \A p \in Payment :
        \/ p.price = 0
        \/ end # None /\ end.by = "cet" /\ attested = None
        \/ end # None /\ end.by = "close" /\ forgot
        \/ \A r \in RangesOf(p.price) :
             p.taker - LongMargin(order) - ShownProfit("long")
                 \in -Slack(r)..Slack(r)

=============================================================================
