---------------------------- MODULE SizingProofs ----------------------------
(***************************************************************************)
(* Proofs about Sizing, for every set of amounts, leverages, markets,      *)
(* slippages and prices, however often they move: what BuildPlan emits is  *)
(* executable and stays within its target, what the loop builds overshoots *)
(* the plan in its last leg only, and when the monitor's alarms are true.  *)
(***************************************************************************)
EXTENDS Sizing, TLAPS

----------------------------------------------------------------------------
(* Arithmetic. *)

\* A portion is a natural number, and exact up to rounding down.
LEMMA PortionBounds ==
    ASSUME NEW x \in Nat, NEW p \in Nat
    PROVE  Portion(x, p) \in Nat /\ 1000 * Portion(x, p) <= x * p
<1>1. x * p \in Nat
  BY SMT
<1>2. ASSUME NEW y \in Nat PROVE y \div 1000 \in Nat /\ 1000 * (y \div 1000) <= y
  BY SMT
<1> QED
  BY <1>1, <1>2, SMT DEF Portion

\* A portion is at most its share.
PortionBelow(x, p) == 1000 * Portion(x, p) <= x * p

LEMMA PortionShare ==
    ASSUME NEW x \in Nat, NEW p \in Nat
    PROVE  Portion(x, p) \in Nat /\ PortionBelow(x, p)
  BY PortionBounds DEF PortionBelow

\* A portion is a natural number.
LEMMA PortionType ==
    ASSUME NEW x \in Nat, NEW p \in Nat
    PROVE  Portion(x, p) \in Nat
  BY PortionBounds

\* A per-leg LTV is below 100%.
LegLTVs == 0..999

LEMMA LegLTVBounds ==
    ASSUME NEW m \in [ltv: Nat, minSupply: Nat, threshold: Nat]
    PROVE  LegLTV(m) \in LegLTVs
<1> DEFINE l == IF m.ltv \in 1..99 THEN m.ltv ELSE 50
<1>1. l \in 1..99
  OBVIOUS
<1> HIDE DEF l
<1>2. (75 * l) \div 10 \in 0..999
  BY <1>1
<1> QED
  BY <1>2 DEF LegLTV, LegLTVs, l

\* A target exposure is a natural number.
LEMMA TargetType ==
    ASSUME NEW a \in Nat, NEW lev \in Nat, NEW ltv \in LegLTVs
    PROVE  Target(a, lev, ltv) \in Nat
<1> DEFINE l == Least(Greatest(lev, 100), MaxLeverage)
<1>1. l \in Nat
  BY DEF Least, Greatest, MaxLeverage
<1>2. l * a \in Nat
  BY <1>1
<1>3. (l * a) \div 100 \in Nat
  BY <1>2
<1>4. (1000 * a) \div (1000 - ltv) \in Nat
  <2>1. 1000 * a \in Nat /\ 1000 - ltv \in Nat \ {0}
    BY DEF LegLTVs
  <2>2. ASSUME NEW n \in Nat, NEW d \in Nat \ {0} PROVE n \div d \in Nat
    OBVIOUS
  <2> QED
    BY <2>1, <2>2
<1> QED
  BY <1>3, <1>4 DEF Least, Target

\* Products keep the order.
LEMMA ProductMono ==
    ASSUME NEW x \in Nat, NEW y \in Nat, NEW z \in Nat, x <= y
    PROVE  z * x <= z * y /\ z * x \in Nat /\ z * y \in Nat
<1>1. z * (y - x) >= 0
  BY SMT
<1>2. z * (y - x) = z * y - z * x
  BY SMT
<1>3. z * x \in Nat /\ z * y \in Nat
  BY SMT
<1>4. QED
  BY <1>1, <1>2, <1>3

\* What may be cancelled on both sides.
LEMMA ProductCancel ==
    ASSUME NEW x \in Nat, NEW y \in Nat, NEW z \in Nat, z # 0, z * x <= z * y
    PROVE  x <= y
<1>1. SUFFICES ASSUME x > y PROVE FALSE
  OBVIOUS
<1>2. z * (x - y) > 0
  BY <1>1, SMT
<1>3. z * (x - y) = z * x - z * y
  BY SMT
<1>4. QED
  BY <1>2, <1>3, ProductMono

\* Rounding down loses less than a unit.
LEMMA PortionExact ==
    ASSUME NEW x \in Nat, NEW p \in Nat
    PROVE  x * p < 1000 * Portion(x, p) + 1000
<1>1. x * p \in Nat
  BY SMT
<1>2. ASSUME NEW y \in Nat PROVE y < 1000 * (y \div 1000) + 1000
  BY SMT
<1>3. QED
  BY <1>1, <1>2, SMT DEF Portion

\* What a trade may leave, in tenths of a percent.
Shares == 0..1000

\* A share of at most the whole is at most the whole.
LEMMA PortionAtMost ==
    ASSUME NEW x \in Nat, NEW p \in Shares
    PROVE  Portion(x, p) \in Nat /\ Portion(x, p) <= x
<1>1. p \in Nat /\ p <= 1000
  BY DEF Shares
<1>2. Portion(x, p) \in Nat /\ PortionBelow(x, p)
  BY <1>1, PortionShare, Zenon
<1>3. x * p <= x * 1000 /\ x * p \in Nat
  BY <1>1, ProductMono
<1>4. QED
  BY <1>2, <1>3 DEF PortionBelow

\* A share of less is no more.
LEMMA PortionMono ==
    ASSUME NEW x \in Nat, NEW y \in Nat, NEW p \in Nat, x <= y
    PROVE  Portion(x, p) <= Portion(y, p)
<1>1. p * x <= p * y /\ p * x \in Nat /\ p * y \in Nat
  BY ProductMono
<1>2. x * p = p * x /\ y * p = p * y
  BY SMT
<1>3. Portion(x, p) \in Nat /\ 1000 * Portion(x, p) <= x * p
  BY PortionBounds
<1>4. Portion(y, p) \in Nat
  BY PortionType
<1>5. y * p < 1000 * Portion(y, p) + 1000
  BY PortionExact
<1>6. 1000 * Portion(x, p) < 1000 * Portion(y, p) + 1000
  BY <1>1, <1>2, <1>3, <1>4, <1>5
<1>7. QED
  BY <1>3, <1>4, <1>6

\* Whole division rounds down.
LEMMA DivBounds ==
    ASSUME NEW n \in Nat, NEW d \in Nat \ {0}
    PROVE  n \div d \in Nat /\ d * (n \div d) <= n
  BY SMT

----------------------------------------------------------------------------
(* Type correctness. *)

\* The fields of the plan.
LEMMA PlanTypes ==
    ASSUME TypeOK
    PROVE  /\ plan.target \in Nat /\ plan.ltv \in Nat /\ plan.legs \in Seq(Leg)
           /\ plan.exposure \in Nat /\ plan.borrowed \in Nat /\ plan.held \in Nat
<1>1. plan.ltv \in 0..999
  BY DEF TypeOK
<1>2. plan.ltv \in Nat
  BY <1>1
<1> QED
  BY <1>2 DEF TypeOK

Building == [lent: Seq(Lent), loose: Nat, bought: Nat \ {0}, proceeds: Nat]

\* The fields of the position as it is built.
LEMMA BuiltTypes ==
    ASSUME TypeOK
    PROVE  /\ built \in Building
           /\ built.lent \in Seq(Lent) /\ Len(built.lent) \in Nat
           /\ built.loose \in Nat /\ built.proceeds \in Nat /\ built.bought \in Nat \ {0}
<1>1. built \in Building
  BY DEF TypeOK, Building
<1>2. built.lent \in Seq(Lent)
  BY <1>1 DEF Building
<1> QED
  BY <1>1, <1>2 DEF Building

\* Conversions give amounts.
LEMMA Converts ==
    ASSUME NEW c \in Nat, NEW x \in Nat \ {0}
    PROVE  InBorrowed(c, x) \in Nat /\ InCollateral(c, x) \in Nat
<1>1. EntryPrice \in Nat \ {0} /\ c * x \in Nat /\ c * EntryPrice \in Nat
  BY SMT DEF EntryPrice
<1>2. (c * x) \div EntryPrice \in Nat /\ (c * EntryPrice) \div x \in Nat
  BY <1>1, DivBounds
<1> QED
  BY <1>2 DEF InBorrowed, InCollateral

\* What adding a leg does to a well-typed plan.
NewLeg == [supply |-> plan.held, borrow |-> NextBorrow, cum |-> plan.exposure + NextBorrow]

LegAdded ==
    /\ NextBorrow \in Nat
    /\ NextBorrow <= Portion(plan.held, plan.ltv)
    /\ NextBorrow <= plan.target - plan.exposure
    /\ MinBorrow(market) <= NextBorrow
    /\ plan' = [target |-> plan.target, ltv |-> plan.ltv,
                legs |-> Append(plan.legs, NewLeg),
                exposure |-> plan.exposure + NextBorrow,
                borrowed |-> plan.borrowed + NextBorrow, held |-> NextBorrow]
    /\ Len(plan.legs) < maxLegs
    /\ phase = "planning" /\ phase' = "planning"
    /\ UNCHANGED <<request, built, world>>

\* The new leg's borrow is a natural number between the minimum and both limits.
LEMMA AddLegPlan ==
    ASSUME TypeOK, AddLeg
    PROVE  LegAdded
<1>1. plan.held \in Nat /\ plan.ltv \in Nat /\ plan.target \in Nat /\ plan.exposure \in Nat
  BY PlanTypes
<1>2. Portion(plan.held, plan.ltv) \in Nat
  BY <1>1, PortionType, Zenon
<1>3. plan.exposure < plan.target /\ Len(plan.legs) < maxLegs
  BY DEF AddLeg, LoopGoesOn
<1>4. NextBorrow \in Nat /\ NextBorrow <= Portion(plan.held, plan.ltv)
      /\ NextBorrow <= plan.target - plan.exposure
  BY <1>1, <1>2, <1>3 DEF NextBorrow, Least
<1>5. MinBorrow(market) <= NextBorrow
  <2>1. MinBorrow(market) \in Nat
    BY UnitAssumption DEF TypeOK, MinBorrow, Greatest, minLegBorrowAda
  <2>2. NextBorrow >= MinBorrow(market)
    BY DEF AddLeg, Executable
  <2> QED
    BY <1>4, <2>1, <2>2
<1>6. plan' = [target |-> plan.target, ltv |-> plan.ltv,
               legs |-> Append(plan.legs, NewLeg),
               exposure |-> plan.exposure + NextBorrow,
               borrowed |-> plan.borrowed + NextBorrow, held |-> NextBorrow]
  BY DEF TypeOK, AddLeg, NewLeg
<1> QED
  BY <1>3, <1>4, <1>5, <1>6 DEF AddLeg, LegAdded

\* The new leg of the position: counted for v at price x in a market of threshold t.
NewLent(v, x, t) ==
    [supply |-> built.loose, value |-> v, borrow |-> Portion(v, plan.ltv), at |-> x,
     bought |-> built.bought, threshold |-> t]

\* What openLeg does, whichever way borrowAmount counts.
LegLent(v, x, t) ==
    /\ v \in Nat /\ x \in Nat \ {0} /\ t \in Nat
    /\ v <= InBorrowed(built.loose, x)
    /\ Portion(v, plan.ltv) \in Nat
    /\ NewLent(v, x, t) \in Lent
    /\ built' = [lent |-> Append(built.lent, NewLent(v, x, t)), loose |-> 0,
                 bought |-> built.bought, proceeds |-> Portion(v, plan.ltv)]

LEMMA OpenLegLends ==
    ASSUME TypeOK, OpenLeg
    PROVE  \E v \in Nat, x \in Nat \ {0}, t \in Nat : LegLent(v, x, t)
<1>1. PICK t \in Thresholds \ {0} :
        \/ LendAt(InBorrowed(built.loose, oracle), oracle, t)
        \/ \E s \in Slips : LendAt(Portion(InBorrowed(built.loose, price), 1000 - s), price, t)
  BY DEF OpenLeg
<1>2. t \in Nat
  BY MarketAssumption
<1>3. /\ built.loose \in Nat /\ built.bought \in Nat /\ plan.ltv \in Nat
      /\ price \in Nat \ {0} /\ oracle \in Nat \ {0}
  BY PlanTypes, BuiltTypes DEF TypeOK
<1>4. ASSUME NEW v \in Nat, NEW x \in Nat \ {0}, v <= InBorrowed(built.loose, x), LendAt(v, x, t)
      PROVE  LegLent(v, x, t)
  <2>1. Portion(v, plan.ltv) \in Nat
    BY <1>3, PortionType, Zenon
  <2>2. NewLent(v, x, t) \in Lent
    BY <1>2, <1>3, <1>4, <2>1 DEF NewLent, Lent
  <2>3. built' = [lent |-> Append(built.lent, NewLent(v, x, t)), loose |-> 0,
                  bought |-> built.bought, proceeds |-> Portion(v, plan.ltv)]
    BY <1>4, Zenon DEF LendAt, NewLent
  <2> QED
    BY <1>2, <1>4, <2>1, <2>2, <2>3 DEF LegLent
<1>5. CASE LendAt(InBorrowed(built.loose, oracle), oracle, t)
  <2>1. InBorrowed(built.loose, oracle) \in Nat
    BY <1>3, Converts
  <2>2. LegLent(InBorrowed(built.loose, oracle), oracle, t)
    BY <1>3, <1>4, <1>5, <2>1
  <2> QED
    BY <1>2, <1>3, <2>1, <2>2, Zenon
<1>6. CASE \E s \in Slips : LendAt(Portion(InBorrowed(built.loose, price), 1000 - s), price, t)
  <2>1. PICK s \in Slips : LendAt(Portion(InBorrowed(built.loose, price), 1000 - s), price, t)
    BY <1>6
  <2> DEFINE c == InBorrowed(built.loose, price)
             p == 1000 - s
             v == Portion(c, p)
  <2>2. c \in Nat /\ p \in Shares
    BY <1>3, Converts, SlipsAssumption DEF Shares
  <2>3. v \in Nat /\ v <= c
    <3> HIDE DEF c, p
    <3> QED
      BY <2>2, PortionAtMost, Zenon
  <2>4. LendAt(v, price, t)
    BY <2>1
  <2>5. LegLent(v, price, t)
    <3> HIDE DEF v
    <3> QED
      BY <1>3, <1>4, <2>3, <2>4
  <2> HIDE DEF v
  <2> QED
    BY <1>2, <1>3, <2>3, <2>5, Zenon
<1> QED
  BY <1>1, <1>5, <1>6

\* What tradeAll brings is a share of what the proceeds buy.
LEMMA TradeBrings ==
    ASSUME TypeOK, Trade
    PROVE  \E p \in Shares :
             LET y == Portion(InCollateral(built.proceeds, price), p) IN
             /\ y \in Nat
             /\ built' = [built EXCEPT !.proceeds = 0, !.bought = price, !.loose = y]
<1>1. PICK s \in Slips :
        built' = [built EXCEPT !.proceeds = 0, !.bought = price,
                               !.loose = Portion(InCollateral(built.proceeds, price), 1000 - s)]
  BY DEF Trade
<1> DEFINE p == 1000 - s
           c == InCollateral(built.proceeds, price)
<1>2. p \in Shares
  BY SlipsAssumption DEF Shares
<1>3. c \in Nat
  BY BuiltTypes, Converts DEF TypeOK
<1>4. Portion(c, p) \in Nat
  <2> HIDE DEF c, p
  <2> QED
    BY <1>2, <1>3, PortionAtMost, Zenon
<1>5. built' = [built EXCEPT !.proceeds = 0, !.bought = price, !.loose = Portion(c, p)]
  BY <1>1
<1> HIDE DEF p
<1> QED
  BY <1>2, <1>4, <1>5

\* The initial state is well-typed.
LEMMA TypeInit == Init => TypeOK
<1> SUFFICES ASSUME Init PROVE TypeOK
  OBVIOUS
<1>1. amount \in Nat \ {0} /\ leverage \in Nat
  BY AmountsAssumption, LeveragesAssumption DEF Init
<1>2. market \in [ltv: Nat, minSupply: Nat, threshold: Nat]
  BY MarketAssumption DEF Init
<1>3. plan \in [target: Nat, ltv: 0..999, legs: Seq(Leg), exposure: Nat, borrowed: Nat, held: Nat]
  BY DEF Init
<1>4. Len(plan.legs) <= maxLegs /\ Len(built.lent) <= maxLegs
  BY DEF Init, maxLegs
<1>5. built \in [lent: Seq(Lent), loose: Nat, bought: Nat \ {0}, proceeds: Nat]
  BY DEF Init, EntryPrice
<1>6. price \in Nat \ {0} /\ oracle \in Nat \ {0} /\ moves \in Nat
  BY DEF Init, EntryPrice
<1> QED
  BY <1>1, <1>2, <1>3, <1>4, <1>5, <1>6 DEF Init, TypeOK

\* Every step keeps the state well-typed.
LEMMA TypeStep == TypeOK /\ [Next]_vars => TypeOK'
<1> SUFFICES ASSUME TypeOK, [Next]_vars PROVE TypeOK'
  OBVIOUS
<1> USE DEF request, world
<1>1. CASE Quote
  <2>1. LegLTV(market) \in LegLTVs
    <3>1. market \in [ltv: Nat, minSupply: Nat, threshold: Nat]
      BY DEF TypeOK
    <3> QED
      BY <3>1, LegLTVBounds, Zenon
  <2>2. Target(amount, leverage, LegLTV(market)) \in Nat
    <3>1. amount \in Nat /\ leverage \in Nat
      BY DEF TypeOK
    <3> QED
      BY <2>1, <3>1, TargetType, Zenon
  <2>3. plan' \in [target: Nat, ltv: 0..999, legs: Seq(Leg), exposure: Nat, borrowed: Nat, held: Nat]
    <3>1. plan' = [target |-> Target(amount, leverage, LegLTV(market)), ltv |-> LegLTV(market),
                   legs |-> <<>>, exposure |-> amount, borrowed |-> 0, held |-> amount]
      BY <1>1 DEF Quote
    <3>2. amount \in Nat
      BY DEF TypeOK
    <3>3. << >> \in Seq(Leg)
      OBVIOUS
    <3> QED
      BY <2>1, <2>2, <3>1, <3>2, <3>3 DEF LegLTVs
  <2>4. Len(plan'.legs) <= maxLegs
    BY <1>1 DEF Quote, maxLegs
  <2> QED
    BY <1>1, <2>3, <2>4 DEF TypeOK, Quote
<1>2. CASE AddLeg
  <2>1. LegAdded
    BY <1>2, AddLegPlan
  <2>2. NewLeg \in Leg
    BY <2>1, PlanTypes DEF LegAdded, Leg, NewLeg
  <2>3. plan'.legs \in Seq(Leg) /\ Len(plan'.legs) <= maxLegs
    BY <2>1, <2>2 DEF LegAdded, TypeOK, maxLegs
  <2>4. plan' \in [target: Nat, ltv: 0..999, legs: Seq(Leg), exposure: Nat, borrowed: Nat, held: Nat]
    <3>1. plan.ltv \in 0..999
      BY DEF TypeOK
    <3> QED
      BY <2>1, <2>3, <3>1, PlanTypes DEF LegAdded
  <2> QED
    BY <2>1, <2>3, <2>4 DEF LegAdded, TypeOK
<1>3. CASE PlanDone
  BY <1>3 DEF TypeOK, PlanDone
<1>4. CASE Fund
  <2>1. built' \in Building
    <3>1. built \in Building /\ amount \in Nat
      BY BuiltTypes DEF TypeOK
    <3>2. built' = [built EXCEPT !.proceeds = amount] \/ built' = [built EXCEPT !.loose = amount]
      BY <1>4 DEF Fund
    <3> QED
      BY <3>1, <3>2 DEF Building
  <2>2. built'.lent = built.lent
    BY <1>4, BuiltTypes DEF Fund, Building
  <2> QED
    BY <1>4, <2>1, <2>2 DEF TypeOK, Fund, Building
<1>5. CASE Trade
  <2>1. PICK y \in Nat : built' = [built EXCEPT !.proceeds = 0, !.bought = price, !.loose = y]
    BY <1>5, TradeBrings
  <2>2. built \in Building /\ price \in Nat \ {0}
    BY BuiltTypes DEF TypeOK
  <2>3. built' \in Building /\ built'.lent = built.lent
    BY <2>1, <2>2 DEF Building
  <2> QED
    BY <1>5, <2>3 DEF TypeOK, Trade, Building
<1>6. CASE OpenLeg
  <2>1. PICK v \in Nat, x \in Nat \ {0}, t \in Nat : LegLent(v, x, t)
    BY <1>6, OpenLegLends
  <2>2. Len(built.lent) < Len(plan.legs) /\ Len(plan.legs) <= maxLegs /\ Len(plan.legs) \in Nat
    BY <1>6, PlanTypes DEF OpenLeg, TypeOK
  <2>3. built'.lent = Append(built.lent, NewLent(v, x, t)) /\ NewLent(v, x, t) \in Lent
    BY <2>1 DEF LegLent
  <2>4. built'.lent \in Seq(Lent) /\ Len(built'.lent) = Len(built.lent) + 1
    BY <2>3, BuiltTypes
  <2>5. Len(built'.lent) <= maxLegs
    BY <2>2, <2>4, BuiltTypes DEF maxLegs
  <2>6. built' \in Building
    BY <2>1, <2>3, <2>4, BuiltTypes DEF LegLent, Building
  <2> QED
    BY <1>6, <2>5, <2>6 DEF TypeOK, OpenLeg, Building
<1>7. CASE Finish
  BY <1>7 DEF TypeOK, Finish
<1>8. CASE PriceMoves
  <2>1. price' \in Nat \ {0} /\ oracle' \in Nat \ {0}
    <3>1. price \in Nat \ {0} /\ oracle \in Nat \ {0}
      BY DEF TypeOK
    <3>2. (price' \in Prices /\ oracle' = oracle) \/ (oracle' \in Prices /\ price' = price)
      BY <1>8 DEF PriceMoves
    <3> QED
      BY <3>1, <3>2, PricesAssumption
  <2>2. UNCHANGED <<phase, request, plan, built>> /\ moves' = moves + 1
    BY <1>8 DEF PriceMoves
  <2>3. moves' \in Nat
    BY <2>2 DEF TypeOK
  <2> QED
    BY <2>1, <2>2, <2>3 DEF TypeOK
<1>9. CASE UNCHANGED vars
  BY <1>9 DEF TypeOK, vars
<1> QED
  BY <1>1, <1>2, <1>3, <1>4, <1>5, <1>6, <1>7, <1>8, <1>9 DEF Next

\* Every variable keeps its type, and a plan has at most maxLegs legs, whatever
\* the user asks for and the market reports (Quote and BuildPlan, math.go:69-141).
THEOREM SizingTypeCorrect == Spec => []TypeOK
  BY TypeInit, TypeStep, PTL DEF Spec

----------------------------------------------------------------------------
(* Plans. *)

\* What makes the two plan properties inductive: the debt is what the exposure
\* exceeds the capital by, from the moment the plan is begun.
PlanInv ==
    /\ PlanExecutable
    /\ PlanWithinTarget
    /\ phase = "planning" => plan.exposure = amount + plan.borrowed

\* Only Quote and BuildPlan's loop touch the plan.
LEMMA PlanKept ==
    ASSUME [Next]_vars, ~Quote, ~AddLeg
    PROVE  /\ UNCHANGED <<plan, request>>
           /\ phase' = "idle" <=> phase = "idle"
           /\ phase' = "planning" => phase = "planning"
<1>1. CASE PlanDone
  BY <1>1 DEF PlanDone
<1>2. CASE Fund
  BY <1>2 DEF Fund
<1>3. CASE Trade
  BY <1>3 DEF Trade
<1>4. CASE OpenLeg
  BY <1>4 DEF OpenLeg
<1>5. CASE Finish
  BY <1>5 DEF Finish
<1>6. CASE PriceMoves
  BY <1>6 DEF PriceMoves
<1>7. CASE UNCHANGED vars
  BY <1>7 DEF vars
<1> QED
  BY <1>1, <1>2, <1>3, <1>4, <1>5, <1>6, <1>7 DEF Next

\* Every step keeps the plan sound.
LEMMA PlanStep == TypeOK /\ PlanInv /\ [Next]_vars => PlanInv'
<1> SUFFICES ASSUME TypeOK, PlanInv, [Next]_vars PROVE PlanInv'
  OBVIOUS
<1> USE DEF request
<1>1. CASE Quote
  BY <1>1 DEF TypeOK, PlanInv, PlanExecutable, PlanWithinTarget, Quote
<1>2. CASE AddLeg
  <2>0. LegAdded
    BY <1>2, AddLegPlan
  <2>1. plan'.legs = Append(plan.legs, NewLeg) /\ plan'.ltv = plan.ltv /\ market' = market
    BY <2>0 DEF LegAdded
  <2>2. NewLeg \in Leg
    BY <2>0, PlanTypes DEF LegAdded, Leg, NewLeg
  <2>3. PlanExecutable'
    <3> SUFFICES ASSUME NEW i \in 1..Len(plan'.legs)
                 PROVE  /\ MinBorrow(market') <= plan'.legs[i].borrow
                        /\ plan'.legs[i].borrow <= Portion(plan'.legs[i].supply, plan'.ltv)
      BY DEF PlanExecutable, MinBorrow, Portion
    <3>1. CASE i = Len(plan.legs) + 1
      <4>1. plan'.legs[i] = NewLeg
        BY <2>1, <2>2, <3>1 DEF TypeOK
      <4> QED
        BY <4>1, <2>0, <2>1 DEF LegAdded, NewLeg
    <3>2. CASE i # Len(plan.legs) + 1
      <4>1. i \in 1..Len(plan.legs) /\ plan'.legs[i] = plan.legs[i]
        BY <2>1, <2>2, <3>2 DEF TypeOK
      <4> QED
        BY <4>1, <2>1 DEF PlanInv, PlanExecutable
    <3> QED
      BY <3>1, <3>2
  <2>4. plan'.exposure = amount' + plan'.borrowed
    BY <2>0 DEF LegAdded, TypeOK, PlanInv
  <2>5. plan'.exposure <= plan'.target
    BY <2>0 DEF LegAdded, TypeOK
  <2> QED
    BY <2>3, <2>4, <2>5 DEF PlanInv, PlanWithinTarget
<1>3. CASE ~Quote /\ ~AddLeg
  BY <1>3, PlanKept DEF PlanInv, PlanExecutable, PlanWithinTarget, MinBorrow, request
<1> QED
  BY <1>1, <1>2, <1>3

\* A plan is sound from the start.
LEMMA PlanInit == Init => PlanInv
  BY DEF Init, PlanInv, PlanExecutable, PlanWithinTarget

\* Every leg BuildPlan emits borrows at least the minimum and at most the per-leg
\* LTV of its supply (math.go:99-125).
THEOREM PlansAreExecutable == Spec => []PlanExecutable
<1>1. PlanInv => PlanExecutable
  BY DEF PlanInv
<1> QED
  BY <1>1, TypeInit, TypeStep, PlanInit, PlanStep, PTL DEF Spec

\* No plan exceeds the exposure asked for, and its debt is the exposure beyond the
\* capital (math.go:99-136).
THEOREM PlansStayWithinTarget == Spec => []PlanWithinTarget
<1>1. PlanInv => PlanWithinTarget
  BY DEF PlanInv
<1> QED
  BY <1>1, TypeInit, TypeStep, PlanInit, PlanStep, PTL DEF Spec

----------------------------------------------------------------------------
(* The built position. *)

\* Every leg of the plan supplies what the one before it borrows, the first the capital,
\* and each but the last takes its whole LTV: a tapered one reaches the target.
Full(k) == plan.legs[k].borrow = Portion(plan.legs[k].supply, plan.ltv)

ChainInv ==
    /\ phase # "idle" =>
        plan.held = IF plan.legs = <<>> THEN amount ELSE plan.legs[Len(plan.legs)].borrow
    /\ \A k \in 1..Len(plan.legs) :
        /\ plan.legs[k].supply = IF k = 1 THEN amount ELSE plan.legs[k - 1].borrow
        /\ k < Len(plan.legs) \/ plan.exposure < plan.target => Full(k)

LEMMA ChainInit == Init => ChainInv
  BY DEF Init, ChainInv

LEMMA ChainStep == TypeOK /\ ChainInv /\ [Next]_vars => ChainInv'
<1> SUFFICES ASSUME TypeOK, ChainInv, [Next]_vars PROVE ChainInv'
  OBVIOUS
<1>1. CASE Quote
  <2>1. plan'.legs = <<>> /\ plan'.held = amount /\ amount' = amount
    BY <1>1 DEF Quote, request
  <2> QED
    BY <2>1 DEF ChainInv
<1>2. CASE AddLeg
  <2>1. LegAdded
    BY <1>2, AddLegPlan
  <2>2. NewLeg \in Leg /\ plan.legs \in Seq(Leg) /\ Len(plan.legs) \in Nat
    BY <2>1, PlanTypes DEF LegAdded, Leg, NewLeg
  <2>3. /\ plan'.legs = Append(plan.legs, NewLeg) /\ plan'.ltv = plan.ltv
        /\ plan'.target = plan.target /\ plan'.exposure = plan.exposure + NextBorrow
        /\ plan'.held = NextBorrow /\ amount' = amount
    BY <2>1 DEF LegAdded, request
  <2>4. /\ Len(plan'.legs) = Len(plan.legs) + 1 /\ plan'.legs # <<>>
        /\ plan'.legs[Len(plan'.legs)] = NewLeg
        /\ \A k \in 1..Len(plan.legs) : plan'.legs[k] = plan.legs[k]
    BY <2>2, <2>3
  <2>5. plan.exposure < plan.target /\ phase # "idle"
    BY <1>2 DEF AddLeg, LoopGoesOn
  <2>6. ASSUME NEW k \in 1..Len(plan'.legs)
        PROVE  /\ plan'.legs[k].supply = IF k = 1 THEN amount' ELSE plan'.legs[k - 1].borrow
               /\ k < Len(plan'.legs) \/ plan'.exposure < plan'.target => Full(k)'
    <3>1. CASE k # Len(plan'.legs)
      <4>1. k \in 1..Len(plan.legs)
        BY <2>2, <2>4, <3>1
      <4>2. plan'.legs[k] = plan.legs[k] /\ (k # 1 => plan'.legs[k - 1] = plan.legs[k - 1])
        BY <2>2, <2>4, <4>1
      <4>3. Full(k)
        BY <2>5, <4>1 DEF ChainInv
      <4>4. Full(k)'
        BY <2>3, <4>2, <4>3 DEF Full, Portion
      <4>5. plan.legs[k].supply = IF k = 1 THEN amount ELSE plan.legs[k - 1].borrow
        BY <4>1 DEF ChainInv
      <4> QED
        BY <2>3, <4>2, <4>4, <4>5
    <3>2. CASE k = Len(plan'.legs)
      <4>1. plan'.legs[k] = NewLeg /\ NewLeg.supply = plan.held /\ NewLeg.borrow = NextBorrow
        BY <2>4, <3>2 DEF NewLeg
      <4>2. plan.held = IF k = 1 THEN amount ELSE plan'.legs[k - 1].borrow
        <5>1. k = 1 <=> plan.legs = <<>>
          BY <2>2, <2>4, <3>2
        <5>2. k # 1 => plan'.legs[k - 1] = plan.legs[Len(plan.legs)]
          BY <2>2, <2>4, <3>2
        <5> QED
          BY <2>5, <5>1, <5>2 DEF ChainInv
      <4>3. ASSUME plan'.exposure < plan'.target PROVE Full(k)'
        <5>1. plan.target \in Nat /\ plan.exposure \in Nat /\ NextBorrow \in Nat
          BY <2>1, PlanTypes DEF LegAdded
        <5>2. NextBorrow # plan.target - plan.exposure
          BY <2>3, <4>3, <5>1
        <5>3. NextBorrow = Portion(plan.held, plan.ltv)
          BY <5>2 DEF NextBorrow, Least
        <5> QED
          BY <2>3, <4>1, <5>3 DEF Full, Portion
      <4> QED
        BY <2>2, <2>3, <2>4, <3>2, <4>1, <4>2, <4>3
    <3> QED
      BY <3>1, <3>2
  <2> QED
    BY <2>3, <2>4, <2>6 DEF ChainInv, NewLeg
<1>3. CASE ~Quote /\ ~AddLeg
  BY <1>3, PlanKept DEF ChainInv, Full, Portion, request
<1> QED
  BY <1>1, <1>2, <1>3

\* What is converted there and back at a price that is no better is no more.
ThereAndBack(b, p, y, x) == NoBetter(x, p) => InBorrowed(y, x) <= b

LEMMA RoundTrip ==
    ASSUME NEW b \in Nat, NEW p \in Nat \ {0}, NEW q \in Shares, NEW x \in Nat \ {0}
    PROVE  ThereAndBack(b, p, Portion(InCollateral(b, p), q), x)
<1> DEFINE z == InCollateral(b, p)
           y == Portion(z, q)
<1>1. z \in Nat
  BY Converts
<1>2. y \in Nat /\ y <= z
  <2> HIDE DEF z
  <2> QED
    BY <1>1, PortionAtMost, Zenon
<1>3. ASSUME dir = "long", x <= p PROVE InBorrowed(y, x) <= b
  <2>1. b * EntryPrice \in Nat /\ b * EntryPrice = 10 * b
    BY SMT DEF EntryPrice
  <2>2. p * z <= 10 * b
    BY <1>3, <2>1, DivBounds DEF InCollateral
  <2> HIDE DEF y, z
  <2>3. y * x <= y * p /\ p * y <= p * z /\ y * x \in Nat /\ p * y \in Nat /\ p * z \in Nat
    BY <1>1, <1>2, <1>3, ProductMono
  <2>4. y * p = p * y
    BY <1>2, SMT
  <2>5. y * x <= 10 * b
    BY <2>2, <2>3, <2>4
  <2>6. (y * x) \div 10 <= b
    <3>1. ASSUME NEW m \in Nat, m <= 10 * b PROVE m \div 10 <= b
      BY <3>1, SMT
    <3> QED
      BY <2>3, <2>5, <3>1
  <2> QED
    BY <1>3, <2>6 DEF InBorrowed, EntryPrice
<1>4. ASSUME dir # "long", p <= x PROVE InBorrowed(y, x) <= b
  <2>1. b * p \in Nat /\ 10 * z <= b * p
    <3>1. b * p \in Nat
      BY SMT
    <3>2. z = (b * p) \div 10
      BY <1>4 DEF InCollateral, EntryPrice
    <3> QED
      BY <3>1, <3>2, DivBounds
  <2>2. b * p <= b * x /\ b * x \in Nat
    BY <1>4, ProductMono
  <2> HIDE DEF y, z
  <2> DEFINE w == (y * 10) \div x
  <2>3. w \in Nat /\ x * w <= 10 * y
    BY <1>2, DivBounds
  <2>4. InBorrowed(y, x) = w
    BY <1>4 DEF InBorrowed, EntryPrice
  <2> HIDE DEF w
  <2>5. x * w <= x * b
    <3>1. b * x = x * b /\ x * w \in Nat
      BY <2>3, SMT
    <3> QED
      BY <1>1, <1>2, <2>1, <2>2, <2>3, <3>1
  <2>6. w <= b
    BY <2>3, <2>5, ProductCancel
  <2> QED
    BY <2>4, <2>6
<1> HIDE DEF y
<1> QED
  BY <1>3, <1>4 DEF ThereAndBack, NoBetter, y

\* No leg so far was counted at a better price than it had been bought at.
FairSoFar == \A j \in 1..Len(built.lent) : NoBetter(built.lent[j].at, built.lent[j].bought)

\* What the next leg has to go by: the capital, or what the last leg borrowed.
Budget == IF built.lent = <<>> THEN amount ELSE built.lent[Len(built.lent)].borrow

\* What waits to be supplied was bought with the budget.
Worth == \A x \in Nat \ {0} : NoBetter(x, built.bought) => InBorrowed(built.loose, x) <= Budget

\* What makes BuiltWithinPlan inductive.
BuiltInv ==
    /\ BuiltWithinPlan
    /\ \A k \in 1..Len(built.lent) : built.lent[k].borrow = Portion(built.lent[k].value, plan.ltv)
    /\ phase \notin {"building", "open"} =>
        /\ built.lent = <<>> /\ built.loose = 0 /\ built.bought = EntryPrice
        /\ built.proceeds = 0
    /\ Len(built.lent) <= Len(plan.legs)
    /\ built.proceeds > 0 => built.proceeds = Budget
    /\ built.loose > 0 => Worth

LEMMA BuiltInit == Init => BuiltInv
  BY DEF Init, BuiltInv, BuiltWithinPlan

\* The leg that openLeg adds: what it was counted for, if fairly, is within the budget,
\* and the budget is within what the plan supplies.
LEMMA LegWithinPlan ==
    ASSUME TypeOK, ChainInv, BuiltInv, OpenLeg,
           NEW v \in Nat, NEW x \in Nat \ {0}, NEW t \in Nat, LegLent(v, x, t),
           FairSoFar, NoBetter(x, built.bought)
    PROVE  LET k == Len(built.lent) + 1 IN
           Portion(v, plan.ltv) <= IF k < Len(plan.legs) THEN plan.legs[k].borrow
                                   ELSE Portion(plan.legs[k].supply, plan.ltv)
<1> DEFINE n == Len(built.lent)
           k == n + 1
<1>1. n \in Nat /\ Len(plan.legs) \in Nat /\ n < Len(plan.legs) /\ built.loose > 0
  BY PlanTypes, BuiltTypes DEF OpenLeg
<1>2. k \in 1..Len(plan.legs)
  BY <1>1
<1>3. plan.legs[k] \in Leg
  BY <1>2, PlanTypes
<1>4. plan.legs[k].supply \in Nat /\ plan.ltv \in Nat
  BY <1>3, PlanTypes DEF Leg
<1>5. Budget <= plan.legs[k].supply /\ Budget \in Nat
  <2>1. CASE n = 0
    <3>1. built.lent = <<>>
      BY <2>1, BuiltTypes
    <3>2. Budget = amount /\ plan.legs[k].supply = amount
      BY <1>2, <2>1, <3>1 DEF Budget, ChainInv
    <3> QED
      BY <3>2 DEF TypeOK
  <2>2. CASE n # 0
    <3>1. n \in 1..Len(built.lent) /\ n \in 1..Len(plan.legs) /\ n < Len(plan.legs)
      BY <1>1, <2>2
    <3>2. built.lent # <<>> /\ Budget = built.lent[n].borrow /\ built.lent[n] \in Lent
      BY <2>2, <3>1, BuiltTypes DEF Budget
    <3>3. built.lent[n].borrow <= plan.legs[n].borrow
      BY <3>1 DEF BuiltInv, BuiltWithinPlan, FairSoFar
    <3>4. plan.legs[k].supply = plan.legs[n].borrow
      <4>1. k # 1 /\ k - 1 = n
        BY <1>1, <2>2
      <4> QED
        BY <1>2, <4>1 DEF ChainInv
    <3> QED
      BY <3>2, <3>3, <3>4 DEF Lent
  <2> QED
    BY <2>1, <2>2
<1>6. v <= plan.legs[k].supply
  <2>1. InBorrowed(built.loose, x) <= Budget
    BY <1>1 DEF BuiltInv, Worth
  <2>2. InBorrowed(built.loose, x) \in Nat /\ v <= InBorrowed(built.loose, x)
    BY BuiltTypes, Converts DEF LegLent
  <2> QED
    BY <1>4, <1>5, <2>1, <2>2
<1>7. Portion(v, plan.ltv) <= Portion(plan.legs[k].supply, plan.ltv)
  BY <1>4, <1>6, PortionMono
<1>8. k < Len(plan.legs) => plan.legs[k].borrow = Portion(plan.legs[k].supply, plan.ltv)
  BY <1>2 DEF ChainInv, Full
<1> QED
  BY <1>7, <1>8

\* Every step keeps the position within the plan.
LEMMA BuiltStep == TypeOK /\ ChainInv /\ BuiltInv /\ [Next]_vars => BuiltInv'
<1> SUFFICES ASSUME TypeOK, ChainInv, BuiltInv, [Next]_vars PROVE BuiltInv'
  OBVIOUS
<1> USE DEF request
<1>1. CASE Quote
  <2>1. built' = built /\ built.lent = <<>> /\ built.loose = 0 /\ built.proceeds = 0
        /\ built.bought = EntryPrice /\ plan'.legs = <<>>
    BY <1>1 DEF Quote, BuiltInv
  <2>2. Len(built'.lent) = 0 /\ Len(plan'.legs) = 0
    BY <2>1
  <2> QED
    BY <2>1, <2>2 DEF BuiltInv, BuiltWithinPlan, EntryPrice
<1>2. CASE AddLeg
  <2>1. LegAdded
    BY <1>2, AddLegPlan
  <2>2. built' = built /\ built.lent = <<>> /\ built.loose = 0 /\ built.proceeds = 0
        /\ built.bought = EntryPrice
    BY <2>1 DEF LegAdded, BuiltInv
  <2>3. Len(built'.lent) = 0 /\ Len(plan'.legs) \in Nat
    <3>1. NewLeg \in Leg
      BY <2>1, PlanTypes DEF LegAdded, Leg, NewLeg
    <3> QED
      BY <2>1, <2>2, <3>1, PlanTypes DEF LegAdded
  <2> QED
    BY <2>2, <2>3 DEF BuiltInv, BuiltWithinPlan, EntryPrice
<1>3. CASE Fund
  <2>1. /\ phase' = "building" /\ plan' = plan /\ amount' = amount /\ dir' = dir
        /\ built.lent = <<>> /\ built.loose = 0 /\ built.proceeds = 0 /\ built.bought = EntryPrice
        /\ amount \in Nat
    BY <1>3 DEF Fund, BuiltInv, TypeOK
  <2>2. CASE dir = "long"
    <3>1. built' = [built EXCEPT !.proceeds = amount]
      BY <1>3, <2>2 DEF Fund
    <3>2. built'.lent = <<>> /\ built'.loose = 0 /\ built'.proceeds = amount
      BY <2>1, <3>1, BuiltTypes DEF Building
    <3>3. Len(built'.lent) = 0 /\ Len(plan'.legs) \in Nat
      BY <2>1, <3>2, PlanTypes
    <3> QED
      BY <2>1, <3>2, <3>3 DEF BuiltInv, BuiltWithinPlan, Budget
  <2>3. CASE dir # "long"
    <3>1. built' = [built EXCEPT !.loose = amount]
      BY <1>3, <2>3 DEF Fund
    <3>2. built'.lent = <<>> /\ built'.loose = amount /\ built'.proceeds = 0
          /\ built'.bought = EntryPrice
      BY <2>1, <3>1, BuiltTypes DEF Building
    <3>3. Len(built'.lent) = 0 /\ Len(plan'.legs) \in Nat
      BY <2>1, <3>2, PlanTypes
    <3>4. ASSUME NEW x \in Nat \ {0}, EntryPrice <= x
          PROVE  (amount * EntryPrice) \div x <= amount
      <4> DEFINE w == (amount * EntryPrice) \div x
      <4>1. amount * EntryPrice \in Nat /\ amount * EntryPrice <= amount * x /\ amount * x \in Nat
        BY <2>1, <3>4, ProductMono DEF EntryPrice
      <4>2. w \in Nat /\ x * w <= amount * EntryPrice
        BY <4>1, DivBounds
      <4> HIDE DEF w
      <4>3. amount * x = x * amount /\ x * w \in Nat
        BY <2>1, <4>2, SMT
      <4>4. x * w <= x * amount
        BY <4>1, <4>2, <4>3
      <4>5. w <= amount
        BY <2>1, <4>2, <4>4, ProductCancel
      <4> QED
        BY <4>5 DEF w
    <3>5. Worth'
      BY <2>1, <2>3, <3>2, <3>4 DEF Worth, Budget, NoBetter, InBorrowed
    <3> QED
      BY <2>1, <3>2, <3>3, <3>5 DEF BuiltInv, BuiltWithinPlan
  <2> QED
    BY <2>2, <2>3
<1>4. CASE Trade
  <2>1. PICK p \in Shares :
          LET y == Portion(InCollateral(built.proceeds, price), p) IN
          /\ y \in Nat
          /\ built' = [built EXCEPT !.proceeds = 0, !.bought = price, !.loose = y]
    BY <1>4, TradeBrings
  <2> DEFINE y == Portion(InCollateral(built.proceeds, price), p)
  <2>2. /\ built'.lent = built.lent /\ built'.proceeds = 0 /\ built'.bought = price
        /\ built'.loose = y
    BY <2>1, BuiltTypes DEF Building
  <2>3. /\ phase = "building" /\ phase' = "building" /\ UNCHANGED <<plan, amount, dir>>
        /\ built.proceeds > 0
    BY <1>4 DEF Trade
  <2>4. built.proceeds \in Nat /\ price \in Nat \ {0} /\ built.proceeds = Budget
    BY <2>3, BuiltTypes DEF TypeOK, BuiltInv
  <2>5. Budget' = Budget
    BY <2>2, <2>3 DEF Budget
  <2>6. Worth'
    <3>1. ASSUME NEW x \in Nat \ {0}, NoBetter(x, price) PROVE InBorrowed(y, x) <= Budget
      <4>1. ThereAndBack(built.proceeds, price, y, x)
        BY <2>1, <2>4, RoundTrip, Zenon
      <4> QED
        BY <2>4, <3>1, <4>1 DEF ThereAndBack
    <3> HIDE DEF y
    <3> QED
      BY <2>2, <2>3, <2>5, <3>1 DEF Worth, NoBetter, InBorrowed
  <2> HIDE DEF y
  <2>7. BuiltWithinPlan'
    BY <2>2, <2>3 DEF BuiltInv, BuiltWithinPlan, NoBetter, Portion
  <2>8. \A k \in 1..Len(built'.lent) : built'.lent[k].borrow = Portion(built'.lent[k].value, plan'.ltv)
    BY <2>2, <2>3 DEF BuiltInv
  <2> QED
    BY <2>2, <2>3, <2>6, <2>7, <2>8 DEF BuiltInv, Portion
<1>5. CASE OpenLeg
  <2>1. PICK v \in Nat, x \in Nat \ {0}, t \in Nat : LegLent(v, x, t)
    BY <1>5, OpenLegLends
  <2> DEFINE n == Len(built.lent)
             new == NewLent(v, x, t)
  <2>2. /\ built'.lent = Append(built.lent, new) /\ built'.loose = 0
        /\ built'.proceeds = Portion(v, plan.ltv) /\ new \in Lent
    BY <2>1 DEF LegLent
  <2>3. /\ new.value = v /\ new.borrow = Portion(v, plan.ltv) /\ new.at = x
        /\ new.bought = built.bought
    BY DEF NewLent
  <2>4. /\ phase = "building" /\ phase' = "building" /\ UNCHANGED <<plan, amount, dir>>
        /\ n < Len(plan.legs)
    BY <1>5 DEF OpenLeg
  <2> HIDE DEF new
  <2>5. n \in Nat /\ Len(plan.legs) \in Nat /\ built.lent \in Seq(Lent)
    BY PlanTypes, BuiltTypes
  <2>6. /\ Len(built'.lent) = n + 1 /\ built'.lent[n + 1] = new /\ built'.lent # <<>>
        /\ \A j \in 1..n : built'.lent[j] = built.lent[j]
    BY <2>2, <2>5
  <2>7. BuiltWithinPlan'
    <3> SUFFICES ASSUME NEW k \in 1..Len(built'.lent),
                        \A j \in 1..k : NoBetter(built'.lent[j].at, built'.lent[j].bought)
                 PROVE  built'.lent[k].borrow <= IF k < Len(plan.legs) THEN plan.legs[k].borrow
                                                 ELSE Portion(plan.legs[k].supply, plan.ltv)
      BY <2>4 DEF BuiltWithinPlan, NoBetter, Portion
    <3>1. CASE k = n + 1
      <4>1. FairSoFar
        BY <2>5, <2>6, <3>1 DEF FairSoFar
      <4>2. NoBetter(x, built.bought)
        <5>1. k \in 1..k
          BY <2>5, <3>1
        <5> QED
          BY <2>3, <2>6, <3>1, <5>1
      <4>3. LET i == Len(built.lent) + 1 IN
            Portion(v, plan.ltv) <= IF i < Len(plan.legs) THEN plan.legs[i].borrow
                                    ELSE Portion(plan.legs[i].supply, plan.ltv)
        BY <1>5, <2>1, <4>1, <4>2, LegWithinPlan
      <4> QED
        BY <2>3, <2>6, <3>1, <4>3
    <3>2. CASE k # n + 1
      <4>1. k \in 1..Len(built.lent) /\ built'.lent[k] = built.lent[k]
        BY <2>5, <2>6, <3>2
      <4>2. ASSUME NEW j \in 1..k PROVE NoBetter(built.lent[j].at, built.lent[j].bought)
        <5>1. j \in 1..n /\ NoBetter(built'.lent[j].at, built'.lent[j].bought)
          BY <2>5, <4>1
        <5> QED
          BY <2>6, <5>1
      <4> QED
        BY <4>1, <4>2 DEF BuiltInv, BuiltWithinPlan
    <3> QED
      BY <3>1, <3>2
  <2>8. ASSUME NEW k \in 1..Len(built'.lent)
        PROVE  built'.lent[k].borrow = Portion(built'.lent[k].value, plan.ltv)
    <3>1. CASE k = n + 1
      BY <2>3, <2>6, <3>1
    <3>2. CASE k # n + 1
      <4>1. k \in 1..Len(built.lent) /\ built'.lent[k] = built.lent[k]
        BY <2>5, <2>6, <3>2
      <4> QED
        BY <4>1 DEF BuiltInv
    <3> QED
      BY <3>1, <3>2
  <2>9. built'.proceeds = Budget'
    BY <2>2, <2>3, <2>6 DEF Budget
  <2>10. Len(built'.lent) <= Len(plan'.legs)
    BY <2>4, <2>5, <2>6
  <2>11. phase' \in {"building", "open"} /\ ~(built'.loose > 0)
    BY <2>2, <2>4
  <2>12. \A k \in 1..Len(built'.lent) : built'.lent[k].borrow = Portion(built'.lent[k].value, plan'.ltv)
    BY <2>4, <2>8 DEF Portion
  <2> QED
    BY <2>7, <2>9, <2>10, <2>11, <2>12 DEF BuiltInv
<1>6. CASE PlanDone \/ Finish \/ PriceMoves \/ UNCHANGED vars
  <2>1. /\ UNCHANGED <<built, plan, amount, dir>>
        /\ phase' \notin {"building", "open"} => phase \notin {"building", "open"}
    BY <1>6 DEF PlanDone, Finish, PriceMoves, vars
  <2>2. BuiltWithinPlan'
    BY <2>1 DEF BuiltInv, BuiltWithinPlan, NoBetter, Portion
  <2>3. (Worth <=> Worth') /\ Budget' = Budget
    BY <2>1 DEF Worth, Budget, NoBetter, InBorrowed
  <2> QED
    BY <2>1, <2>2, <2>3 DEF BuiltInv, Portion
<1> QED
  BY <1>1, <1>2, <1>3, <1>4, <1>5, <1>6 DEF Next

\* A position never borrows more in a leg than its plan, but for the last leg, which
\* openLeg does not taper, as long as no leg was counted at a better price than its supply
\* had been bought at (engine.go:662-686, 708-731, 1332-1373; math.go:105-139).
THEOREM BuildsWithinPlan == Spec => []BuiltWithinPlan
<1>1. BuiltInv => BuiltWithinPlan
  BY DEF BuiltInv
<1> QED
  BY <1>1, TypeInit, TypeStep, ChainInit, ChainStep, BuiltInit, BuiltStep, PTL DEF Spec

----------------------------------------------------------------------------
(* Alarms.                                                                 *)

\* A plan that borrows b and holds h of its exposure e keeps the LTV l.
Margin(b, l, e, h) == 1000 * b <= l * (e - h)

\* a is to c at most as d is to b.
AtMost(a, b, c, d) == a * b <= c * d

\* Whichever side the price acts on, it acts on both alike.
LEMMA SameSide ==
    ASSUME NEW c \in Nat, NEW b \in Nat, NEW e \in Nat, NEW d \in Nat, NEW x \in Nat, NEW y \in Nat,
           b # 0, AtMost(c, b, e, d), AtMost(e, x, b, y)
    PROVE  AtMost(c, x, d, y)
<1>1. x * (c * b) <= x * (e * d) /\ d * (e * x) <= d * (b * y)
  <2>1. c * b \in Nat /\ e * d \in Nat /\ e * x \in Nat /\ b * y \in Nat
    BY SMT
  <2>2. QED
    BY <2>1, ProductMono DEF AtMost
<1>2. /\ x * (c * b) = b * (c * x) /\ x * (e * d) = d * (e * x)
      /\ d * (b * y) = b * (d * y)
  BY SMT
<1>3. c * x \in Nat /\ d * y \in Nat
  BY SMT
<1>4. b * (c * x) <= b * (d * y)
  <2>1. x * (c * b) \in Nat /\ x * (e * d) \in Nat /\ d * (b * y) \in Nat
    BY <1>2, <1>3, ProductMono
  <2>2. QED
    BY <1>1, <1>2, <2>1
<1>5. QED
  BY <1>3, <1>4, ProductCancel DEF AtMost

\* The plan borrows its LTV of all it holds but the proceeds of the last leg.
MarginInv ==
    phase # "idle" => plan.held <= plan.exposure /\ Margin(plan.borrowed, plan.ltv, plan.exposure, plan.held)

LEMMA MarginInit == Init => MarginInv
  BY DEF Init, MarginInv

LEMMA MarginStep == TypeOK /\ MarginInv /\ [Next]_vars => MarginInv'
<1> SUFFICES ASSUME TypeOK, MarginInv, [Next]_vars PROVE MarginInv'
  OBVIOUS
<1>1. CASE Quote
  <2>1. /\ plan'.ltv = LegLTV(market) /\ plan'.held = amount /\ plan'.exposure = amount
        /\ plan'.borrowed = 0 /\ amount \in Nat
    BY <1>1 DEF Quote, TypeOK
  <2>2. plan'.ltv \in Nat
    <3>1. LegLTV(market) \in LegLTVs
      BY LegLTVBounds DEF TypeOK
    <3> QED
      BY <2>1, <3>1 DEF LegLTVs
  <2>3. plan'.ltv * (plan'.exposure - plan'.held) = 0
    <3>1. plan'.exposure - plan'.held = 0
      BY <2>1
    <3> QED
      BY <2>2, <3>1
  <2> QED
    BY <2>1, <2>3 DEF MarginInv, Margin
<1>2. CASE AddLeg
  <2>1. LegAdded
    BY <1>2, AddLegPlan
  <2>2. /\ plan.held \in Nat /\ plan.ltv \in Nat /\ plan.exposure \in Nat /\ plan.borrowed \in Nat
    BY PlanTypes
  <2>3. PICK b \in Nat :
          /\ b <= Portion(plan.held, plan.ltv)
          /\ plan'.ltv = plan.ltv /\ plan'.exposure = plan.exposure + b
          /\ plan'.borrowed = plan.borrowed + b /\ plan'.held = b
    BY <2>1 DEF LegAdded
  <2>4. 1000 * b <= plan.ltv * plan.held
    <3>1. Portion(plan.held, plan.ltv) \in Nat /\ PortionBelow(plan.held, plan.ltv)
      BY <2>2, PortionShare, Zenon
    <3>2. plan.held * plan.ltv = plan.ltv * plan.held /\ plan.ltv * plan.held \in Nat
      BY <2>2, ProductMono
    <3> QED
      BY <2>3, <3>1, <3>2 DEF PortionBelow
  <2>5. /\ plan.held <= plan.exposure
        /\ 1000 * plan.borrowed <= plan.ltv * (plan.exposure - plan.held)
    BY <2>1 DEF LegAdded, MarginInv, Margin
  <2>6. plan.ltv * (plan.exposure - plan.held) + plan.ltv * plan.held = plan.ltv * plan.exposure
    <3>1. ASSUME NEW v \in Nat, NEW e \in Nat, NEW h \in Nat
          PROVE  v * (e - h) + v * h = v * e
      BY SMT
    <3> QED
      BY <2>2, <3>1
  <2>7. 1000 * plan'.borrowed <= plan'.ltv * (plan'.exposure - plan'.held)
    <3>1. plan'.exposure - plan'.held = plan.exposure
      BY <2>2, <2>3
    <3>2. /\ plan.ltv * (plan.exposure - plan.held) \in Nat /\ plan.ltv * plan.held \in Nat
          /\ plan.ltv * plan.exposure \in Nat
      BY <2>2, <2>5, ProductMono
    <3> QED
      BY <2>2, <2>3, <2>4, <2>5, <2>6, <3>1, <3>2
  <2>8. plan'.held <= plan'.exposure
    BY <2>2, <2>3
  <2> QED
    BY <2>7, <2>8 DEF MarginInv, Margin
<1>3. CASE ~Quote /\ ~AddLeg
  BY <1>3, PlanKept DEF MarginInv, Margin
<1> QED
  BY <1>1, <1>2, <1>3

\* A leg of supply c that borrows its LTV l of at least c, less than a unit d of rounding
\* away, is as indebted as the plan it belongs to, which borrows b on e.
LEMMA LegNoSafer ==
    ASSUME NEW e \in Nat, NEW b \in Nat, NEW h \in Nat, NEW l \in Nat,
           NEW c \in Nat, NEW v \in Nat, c <= v, h <= e, Margin(b, l, e, h)
    PROVE  AtMost(c, b, e, Portion(v, l) + 1)
<1> DEFINE d == Portion(v, l) + 1
<1>1. d \in Nat /\ v * l <= 1000 * d
  <2>1. Portion(v, l) \in Nat
    BY PortionType
  <2>2. v * l < 1000 * Portion(v, l) + 1000
    BY PortionExact
  <2> QED
    BY <2>1, <2>2
<1> HIDE DEF d
<1>2. l * (e - h) <= l * e /\ l * e \in Nat
  BY ProductMono
<1>3. 1000 * b <= l * e
  BY <1>2 DEF Margin
<1>4. l * c <= l * v /\ l * c \in Nat /\ l * v \in Nat /\ l * v = v * l
  BY ProductMono
<1>5. l * c <= 1000 * d
  BY <1>1, <1>4
<1>6. c * (1000 * b) <= c * (l * e) /\ e * (l * c) <= e * (1000 * d)
  BY <1>1, <1>2, <1>3, <1>4, <1>5, ProductMono
<1>7. c * (1000 * b) = 1000 * (c * b) /\ c * (l * e) = e * (l * c) /\ e * (1000 * d) = 1000 * (e * d)
  BY <1>1, SMT
<1>8. c * b \in Nat /\ e * d \in Nat /\ e * (l * c) \in Nat
  BY <1>1, <1>4, ProductMono
<1>9. c * b <= e * d
  BY <1>6, <1>7, <1>8
<1> QED
  BY <1>9 DEF AtMost, d

\* A debt d on c, at price o and threshold t, is no safer than b on e, at p and s, which
\* is unsafe.
NoSafer(c, d, o, t, e, b, p, s) ==
    b # 0 /\ AtMost(c, b, e, d) /\ NoBetter(o, p) /\ t <= s /\ ~Healthy(e, b, p, s)

\* Less collateral per debt at a worse price and a lower threshold is no healthier.
LEMMA Unhealthy ==
    ASSUME NEW e \in Nat, NEW b \in Nat, NEW p \in Nat, NEW s \in Nat,
           NEW c \in Nat, NEW d \in Nat, NEW o \in Nat, NEW t \in Nat,
           NoSafer(c, d, o, t, e, b, p, s)
    PROVE  ~Healthy(c, d, o, t)
<1>1. NoBetter(o, p) /\ t <= s /\ ~Healthy(e, b, p, s)
  BY DEF NoSafer
<1>2. b # 0 /\ AtMost(c, b, e, d)
  BY DEF NoSafer
<1>3. CASE dir = "long"
  <2> DEFINE x == p * s
             z == o * t
             y == 100
  <2>1. x \in Nat /\ z \in Nat /\ z <= x
    <3>1. o <= p
      BY <1>1, <1>3 DEF NoBetter
    <3>2. o * t <= o * s /\ s * o <= s * p /\ o * t \in Nat /\ s * o \in Nat /\ s * p \in Nat
      BY <1>1, <3>1, ProductMono
    <3>3. o * s = s * o /\ s * p = p * s
      BY SMT
    <3> QED
      BY <3>2, <3>3
  <2>2. AtMost(e, x, b, y)
    <3>1. e * p * s = e * x /\ e * x \in Nat
      BY <2>1, SMT
    <3>2. ~(e * p * s > 100 * b)
      BY <1>1, <1>3 DEF Healthy
    <3> QED
      BY <3>1, <3>2 DEF AtMost
  <2>3. c * o * t = c * z
    BY SMT
  <2> HIDE DEF x, z
  <2>4. AtMost(c, x, d, y)
    <3>1. y \in Nat
      OBVIOUS
    <3> HIDE DEF y
    <3> QED
      BY <1>2, <2>1, <2>2, <3>1, SameSide
  <2>5. c * z <= c * x /\ c * z \in Nat /\ c * x \in Nat
    BY <2>1, ProductMono
  <2>6. c * z <= 100 * d
    BY <2>4, <2>5 DEF AtMost
  <2> QED
    BY <1>3, <2>3, <2>5, <2>6 DEF Healthy
<1>4. CASE dir # "long"
  <2>1. AtMost(e, s, b, p)
    <3>1. ~(e * 10 * s > 10 * b * p)
      BY <1>1, <1>4 DEF Healthy
    <3>2. e * 10 * s = 10 * (e * s) /\ 10 * b * p = 10 * (b * p) /\ e * s \in Nat /\ b * p \in Nat
      BY SMT
    <3> QED
      BY <3>1, <3>2 DEF AtMost
  <2>2. AtMost(c, s, d, p)
    BY <1>2, <2>1, SameSide
  <2>3. p <= o
    BY <1>1, <1>4 DEF NoBetter
  <2>4. c * t <= c * s /\ d * p <= d * o /\ c * t \in Nat /\ d * o \in Nat /\ c * s \in Nat /\ d * p \in Nat
    BY <1>1, <2>3, ProductMono
  <2>5. c * t <= d * o
    BY <2>2, <2>4 DEF AtMost
  <2>6. c * 10 * t = 10 * (c * t) /\ 10 * d * o = 10 * (d * o)
    BY SMT
  <2> QED
    BY <1>4, <2>4, <2>5, <2>6 DEF Healthy
<1> QED
  BY <1>3, <1>4

LEMMA AlarmsFollow ==
    ASSUME TypeOK, BuiltInv, MarginInv
    PROVE  AlarmsTrue
<1> SUFFICES ASSUME phase = "open", ~ReportsHealthy, NEW i \in 1..Len(built.lent),
                    built.lent[i].supply <= built.lent[i].value,
                    built.lent[i].threshold <= Threshold, NoBetter(oracle, price)
             PROVE  Liquidatable(built.lent[i], 1)
  BY DEF AlarmsTrue
<1> DEFINE l == built.lent[i]
<1>1. /\ plan.held \in Nat /\ plan.ltv \in Nat /\ plan.exposure \in Nat /\ plan.borrowed \in Nat
  BY PlanTypes
<1>2. l \in Lent
  BY BuiltTypes
<1>3. /\ l.supply \in Nat /\ l.value \in Nat /\ l.borrow \in Nat /\ l.threshold \in Nat
      /\ l.borrow = Portion(l.value, plan.ltv)
  BY <1>2 DEF Lent, BuiltInv
<1>4. price \in Nat /\ oracle \in Nat /\ Threshold \in Nat
  BY DEF TypeOK, Threshold
<1>5. plan.borrowed # 0 /\ ~Healthy(plan.exposure, plan.borrowed, price, Threshold)
  BY <1>1 DEF ReportsHealthy
<1>6. AtMost(l.supply, plan.borrowed, plan.exposure, l.borrow + 1)
  <2>1. plan.held <= plan.exposure /\ Margin(plan.borrowed, plan.ltv, plan.exposure, plan.held)
    BY DEF MarginInv
  <2>2. AtMost(l.supply, plan.borrowed, plan.exposure, Portion(l.value, plan.ltv) + 1)
    BY <1>1, <1>3, <2>1, LegNoSafer
  <2> QED
    BY <1>3, <2>2
<1> DEFINE d == l.borrow + 1
<1>7. d \in Nat /\ l.threshold <= Threshold /\ AtMost(l.supply, plan.borrowed, plan.exposure, d)
  BY <1>3, <1>6
<1>8. NoSafer(l.supply, d, oracle, l.threshold, plan.exposure, plan.borrowed, price, Threshold)
  BY <1>5, <1>7 DEF NoSafer
<1> HIDE DEF l, d
<1>9. ~Healthy(l.supply, d, oracle, l.threshold)
  BY <1>1, <1>3, <1>4, <1>7, <1>8, Unhealthy
<1> QED
  BY <1>9 DEF Liquidatable, l, d

\* Whatever leverage, market, losses in trades and prices, and however often they moved
\* since the quote: when the monitor reports a health factor of at most 1, the lender may
\* liquidate every leg of which the monitor's assumptions hold (health.go:75-128,
\* math.go:99-136, engine.go:708-862, 1355-1373).
THEOREM AlarmsAreTrue == Spec => []AlarmsTrue
<1>1. Init => TypeOK /\ ChainInv /\ BuiltInv /\ MarginInv
  BY TypeInit, ChainInit, BuiltInit, MarginInit
<1>2. TypeOK /\ ChainInv /\ BuiltInv /\ MarginInv /\ [Next]_vars =>
        (TypeOK /\ ChainInv /\ BuiltInv /\ MarginInv)'
  BY TypeStep, ChainStep, BuiltStep, MarginStep
<1>3. TypeOK /\ ChainInv /\ BuiltInv /\ MarginInv => AlarmsTrue
  BY AlarmsFollow
<1> QED
  BY <1>1, <1>2, <1>3, PTL DEF Spec
=============================================================================
