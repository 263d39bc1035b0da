------------------------------- MODULE Sizing -------------------------------
(***************************************************************************)
(* How big a position is: Quote and BuildPlan (common/engine/engine.go,    *)
(* math.go) size it, openLeg and tradeAll build it, RefreshHealth          *)
(* (health.go) watches it.                                                 *)
(*                                                                         *)
(* Money is counted in units of which there are Unit to an ADA (in the code*)
(* the lovelace, or a float64), rounded down, and the target token in units*)
(* worth one of ADA's at entry; leverage and LTVs are percentages, except  *)
(* the per-leg LTV (percent times the 0.75 safety buffer), which is in     *)
(* tenths of a percent; prices and thresholds are tenths.  A long supplies *)
(* the target and owes ADA, a short the reverse; the plan values both alike*)
(* at entry, and the position is built and watched at later prices: what   *)
(* DexHunter trades at, and what the lender counts with.                   *)
(***************************************************************************)
EXTENDS Integers, Sequences

CONSTANTS
    Unit,           \* units of money to an ADA
    Amounts,        \* capital a user may bring
    Leverages,      \* leverages a user may ask for
    MarketLTVs,     \* maximum LTVs the market may report (0: none)
    MinSupplies,    \* minimum borrows the market may report (0: none)
    Thresholds,     \* liquidation thresholds of markets (0: not reported)
    Slips,          \* what a trade may lose, in tenths of a percent
    Prices,         \* prices of the target, in tenths of the price at entry
    MaxMoves,       \* bound: how often one of the two prices moves
    MaxBuilt        \* bound: the legs of the longest plan that is built

ASSUME UnitAssumption == Unit \in Nat \ {0}
ASSUME AmountsAssumption == Amounts \subseteq Nat \ {0}
ASSUME LeveragesAssumption == Leverages \subseteq Nat
ASSUME MarketAssumption ==
    /\ MarketLTVs \subseteq Nat
    /\ MinSupplies \subseteq Nat
    /\ Thresholds \subseteq Nat
ASSUME SlipsAssumption == Slips \subseteq 0..1000
ASSUME PricesAssumption == Prices \subseteq Nat \ {0}
ASSUME BoundsAssumption == MaxMoves \in Nat /\ MaxBuilt \in Nat

VARIABLES
    phase,      \* where the request is
    dir,        \* "long" or "short"
    amount,     \* capital, in ADA terms
    leverage,   \* the leverage asked for
    market,     \* the market Quote picked
    plan,       \* the plan under construction, then the job's
    built,      \* what the loop has really built
    price,      \* DexHunter's price of the target
    oracle,     \* the lender's: the quotient of the market's two PriceUsd
    moves       \* how often one of them has moved

request == <<dir, amount, leverage, market>>
world == <<price, oracle, moves>>
vars == <<phase, request, plan, built, world>>

----------------------------------------------------------------------------
(* Constants of the code and arithmetic. *)

MaxLeverage == 180
minLegBorrowAda == 20 * Unit
maxLegs == 8

\* The price Open probes: prices are counted in tenths of it.
EntryPrice == 10

Least(a, b) == IF a < b THEN a ELSE b
Greatest(a, b) == IF a > b THEN a ELSE b

\* p tenths of a percent of x.
Portion(x, p) == (x * p) \div 1000

\* The market's LTV, 0.5 if it does not report one, less the safety buffer.
LegLTV(m) == (75 * (IF m.ltv \in 1..99 THEN m.ltv ELSE 50)) \div 10

\* No borrow below the protocol's minimum or the engine's own.
MinBorrow(m) == Greatest(m.minSupply, minLegBorrowAda)

\* The exposure to build: what was asked for, clamped to [1, MaxLeverage] and to
\* the limit 1/(1-ltv) of infinite looping.
Target(a, lev, ltv) ==
    Least((Least(Greatest(lev, 100), MaxLeverage) * a) \div 100,
          (1000 * a) \div (1000 - ltv))

Leg == [supply: Nat, borrow: Nat, cum: Nat]

\* A leg as it was built: what was supplied, what borrowAmount counted it for (in
\* the borrowed asset) and at which price, what was borrowed on it, at which price
\* the supply had been bought, and the threshold of the market it was borrowed in.
Lent == [supply: Nat, value: Nat, borrow: Nat, at: Nat, bought: Nat, threshold: Nat]

\* What c units of the collateral are worth at price x, in the borrowed asset ...
InBorrowed(c, x) == IF dir = "long" THEN (c * x) \div EntryPrice ELSE (c * EntryPrice) \div x

\* ... and what b units of the borrowed asset buy of the collateral.
InCollateral(b, x) == IF dir = "long" THEN (b * EntryPrice) \div x ELSE (b * x) \div EntryPrice

Init ==
    /\ phase = "idle"
    /\ dir \in {"long", "short"}
    /\ amount \in Amounts
    /\ leverage \in Leverages
    /\ market \in [ltv: MarketLTVs, minSupply: MinSupplies, threshold: Thresholds]
    /\ plan = [target |-> 0, ltv |-> 0, legs |-> <<>>, exposure |-> 0, borrowed |-> 0, held |-> 0]
    /\ built = [lent |-> <<>>, loose |-> 0, bought |-> EntryPrice, proceeds |-> 0]
    /\ price = EntryPrice
    /\ oracle = EntryPrice
    /\ moves = 0

----------------------------------------------------------------------------
(* Quote and BuildPlan. *)

\* Up to the loop of BuildPlan.
Quote ==
    /\ phase = "idle"
    /\ LET ltv == LegLTV(market) IN
        plan' = [target |-> Target(amount, leverage, ltv), ltv |-> ltv, legs |-> <<>>,
                 exposure |-> amount, borrowed |-> 0, held |-> amount]
    /\ phase' = "planning"
    /\ UNCHANGED <<request, built, world>>

\* Mutated form: one leg too many.
LoopGoesOnLonger == Len(plan.legs) <= maxLegs /\ plan.exposure < plan.target

LoopGoesOn == Len(plan.legs) < maxLegs /\ plan.exposure < plan.target

\* The whole LTV, tapered to what is left to the target.
NextBorrow == Least(Portion(plan.held, plan.ltv), plan.target - plan.exposure)

\* A leg below the minimum ends the loop, tapered or not.
Executable(b) == b > 0 /\ b >= MinBorrow(market)

\* Mutated form: the minimum is not checked.
AddLegAnySize ==
    /\ phase = "planning" /\ LoopGoesOn
    /\ LET b == NextBorrow IN
        plan' = [plan EXCEPT
            !.legs = Append(@, [supply |-> plan.held, borrow |-> b, cum |-> plan.exposure + b]),
            !.exposure = @ + b, !.borrowed = @ + b, !.held = b]
    /\ UNCHANGED <<phase, request, built, world>>

\* Mutated form: the last leg is not tapered.
AddLegUntapered ==
    /\ phase = "planning" /\ LoopGoesOn
    /\ LET b == Portion(plan.held, plan.ltv) IN
        /\ Executable(b)
        /\ plan' = [plan EXCEPT
            !.legs = Append(@, [supply |-> plan.held, borrow |-> b, cum |-> plan.exposure + b]),
            !.exposure = @ + b, !.borrowed = @ + b, !.held = b]
    /\ UNCHANGED <<phase, request, built, world>>

AddLeg ==
    /\ phase = "planning" /\ LoopGoesOn
    /\ LET b == NextBorrow IN
        /\ Executable(b)
        /\ plan' = [plan EXCEPT
            !.legs = Append(@, [supply |-> plan.held, borrow |-> b, cum |-> plan.exposure + b]),
            !.exposure = @ + b, !.borrowed = @ + b, !.held = b]
    /\ UNCHANGED <<phase, request, built, world>>

\* The loop ends: with no leg although leverage was asked for, the request is
\* rejected (too small, or its leverage too low); otherwise there is a quote, and
\* Open saves the job with its plan and the price of the moment.
PlanDone ==
    /\ phase = "planning"
    /\ ~(LoopGoesOn /\ Executable(NextBorrow))
    /\ phase' = IF plan.legs = <<>> /\ plan.target > amount THEN "rejected" ELSE "quoted"
    /\ UNCHANGED <<request, plan, built, world>>

----------------------------------------------------------------------------
(* The funding, openLeg, tradeAll: the position as it is built. *)

\* The capital arrives: a short supplies it as it is, a long trades it first.
Fund ==
    /\ phase = "quoted" /\ Len(plan.legs) <= MaxBuilt
    /\ phase' = "building"
    /\ built' = IF dir = "long" THEN [built EXCEPT !.proceeds = amount]
                               ELSE [built EXCEPT !.loose = amount]
    /\ UNCHANGED <<request, plan, world>>

\* tradeAll swaps the capital, or what the last leg has borrowed, at DexHunter's price.
Trade ==
    /\ phase = "building" /\ built.proceeds > 0
    /\ \E s \in Slips :
        built' = [built EXCEPT !.proceeds = 0, !.bought = price,
                               !.loose = Portion(InCollateral(built.proceeds, price), 1000 - s)]
    /\ UNCHANGED <<phase, request, plan, world>>

\* What openLeg supplies in the market it picks for this leg: all it holds, counted for
\* v at price x; it borrows the plan's LTV of that, whatever the plan's leg says.
LendAt(v, x, t) ==
    LET b == Portion(v, plan.ltv) IN
    /\ b > 0
    /\ built' = [lent |-> Append(built.lent,
                        [supply |-> built.loose, value |-> v, borrow |-> b, at |-> x,
                         bought |-> built.bought, threshold |-> t]),
                 loose |-> 0, bought |-> built.bought, proceeds |-> b]

\* Mutated form: borrowAmount divides the lender's two prices the wrong way round.
OpenLegInverse ==
    /\ phase = "building" /\ Len(built.lent) < Len(plan.legs)
    /\ built.loose > 0
    /\ \E t \in Thresholds \ {0} :
        LendAt(InBorrowed(built.loose, (EntryPrice * EntryPrice) \div oracle), oracle, t)
    /\ UNCHANGED <<phase, request, plan, world>>

\* borrowAmount counts at the lender's own prices, or on DexHunter's estimate if the
\* market has none.
OpenLeg ==
    /\ phase = "building" /\ Len(built.lent) < Len(plan.legs)
    /\ built.loose > 0
    /\ \E t \in Thresholds \ {0} :
        \/ LendAt(InBorrowed(built.loose, oracle), oracle, t)
        \/ \E s \in Slips : LendAt(Portion(InBorrowed(built.loose, price), 1000 - s), price, t)
    /\ UNCHANGED <<phase, request, plan, world>>

\* All legs are done and their proceeds traded: the position is open.
Finish ==
    /\ phase = "building" /\ Len(built.lent) = Len(plan.legs) /\ built.proceeds = 0
    /\ phase' = "open"
    /\ UNCHANGED <<request, plan, built, world>>

\* From Open on a price moves at any time: before the funding, between a trade and
\* the leg that supplies what it bought, before a Retry, under an open position.
PriceMoves ==
    /\ phase \in {"quoted", "building", "open"} /\ moves < MaxMoves
    /\ moves' = moves + 1
    /\ \/ price' \in Prices /\ oracle' = oracle
       \/ oracle' \in Prices /\ price' = price
    /\ UNCHANGED <<phase, request, plan, built>>

Next ==
    \/ Quote \/ AddLeg \/ PlanDone
    \/ Fund \/ Trade \/ OpenLeg \/ Finish \/ PriceMoves

Spec == Init /\ [][Next]_vars

----------------------------------------------------------------------------
(* Health. *)

\* The health factor of c units of collateral and d of debt is above 1 at price x and
\* threshold t: a rising price lifts a long's collateral and a short's debt.
Healthy(c, d, x, t) ==
    IF dir = "long" THEN c * x * t > 100 * d
                    ELSE c * 10 * t > 10 * d * x

\* The threshold RefreshHealth uses: 0.8 if the quoted market reports none.
Threshold == IF market.threshold = 0 THEN 8 ELSE market.threshold

\* Mutated form: the ratio is applied to a short as it is to a long.
ReportsAsLong == plan.borrowed > 0 => plan.exposure * price * Threshold > 100 * plan.borrowed

\* RefreshHealth reports a health factor above 1: it values the plan at DexHunter's
\* price.  (It reports nothing of a job whose entry price Open could not probe.)
ReportsHealthy == plan.borrowed > 0 => Healthy(plan.exposure, plan.borrowed, price, Threshold)

\* The lender values each leg by what was supplied and borrowed, at its own price; d
\* is the unit that the leg's borrow was rounded down by.
Liquidatable(l, d) == ~Healthy(l.supply, l.borrow + d, oracle, l.threshold)

----------------------------------------------------------------------------
(* Properties. *)

\* The state is well-typed, and a position has at most 8 legs.
TypeOK ==
    /\ phase \in {"idle", "planning", "rejected", "quoted", "building", "open"}
    /\ dir \in {"long", "short"}
    /\ amount \in Nat \ {0}
    /\ leverage \in Nat
    /\ market \in [ltv: Nat, minSupply: Nat, threshold: Nat]
    /\ plan \in [target: Nat, ltv: 0..999, legs: Seq(Leg), exposure: Nat, borrowed: Nat, held: Nat]
    /\ Len(plan.legs) <= maxLegs
    /\ built \in [lent: Seq(Lent), loose: Nat, bought: Nat \ {0}, proceeds: Nat]
    /\ Len(built.lent) <= maxLegs
    /\ price \in Nat \ {0} /\ oracle \in Nat \ {0}
    /\ moves \in Nat

\* No planned leg borrows less than the minimum ("we stop there ... rather than
\* emitting an un-executable dust leg", math.go:60-61) or more than the leg's LTV
\* of what it supplies, the last, tapered one included.
PlanExecutable ==
    \A i \in 1..Len(plan.legs) :
        LET l == plan.legs[i] IN MinBorrow(market) <= l.borrow /\ l.borrow <= Portion(l.supply, plan.ltv)

\* A plan with legs stays at or below its target, and the debt it adds up is the
\* exposure it adds to the capital.
PlanWithinTarget ==
    plan.legs # <<>> =>
        /\ plan.exposure <= plan.target
        /\ plan.exposure = amount + plan.borrowed

\* Collateral counts for no more at price x than at price y.
NoBetter(x, y) == IF dir = "long" THEN x <= y ELSE y <= x

\* The loop overshoots the plan in its last leg only, which openLeg does not taper: as
\* long as no leg was counted at a better price than its supply had been bought at,
\* every leg borrows at most what BuildPlan planned for it, and the last at most the
\* full LTV of what the plan supplies in it, whatever the trades lose, the markets the
\* legs were borrowed in and the prices in between.
BuiltWithinPlan ==
    \A k \in 1..Len(built.lent) :
        (\A j \in 1..k : NoBetter(built.lent[j].at, built.lent[j].bought))
            => built.lent[k].borrow <= IF k < Len(plan.legs) THEN plan.legs[k].borrow
                                       ELSE Portion(plan.legs[k].supply, plan.ltv)

\* When the monitor, which values the plan at DexHunter's price, reports a health
\* factor of at most 1, the lender may liquidate every leg that was counted for at
\* least its worth at entry in a market whose threshold is no higher than the
\* monitor's, unless its own price is the better one for the position.  (Alarms on
\* other legs may be false; the converse does not hold either, since the plan counts
\* as collateral what is not with the lender.)
AlarmsTrue ==
    phase = "open" /\ ~ReportsHealthy =>
        \A i \in 1..Len(built.lent) :
            LET l == built.lent[i] IN
            l.supply <= l.value /\ l.threshold <= Threshold /\ NoBetter(oracle, price)
                => Liquidatable(l, 1)
=============================================================================
