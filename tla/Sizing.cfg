CONSTANTS
    Unit = 1
    Amounts <- SomeAmounts
    Leverages <- SomeLeverages
    MarketLTVs <- SomeLTVs
    MinSupplies <- SomeMinSupplies
    Thresholds <- SomeThresholds
    Slips <- SomeSlips
    Prices <- SomePrices
    MaxMoves = 2
    MaxBuilt = 2
SPECIFICATION Spec
INVARIANTS TypeOK PlanExecutable PlanWithinTarget BuiltWithinPlan AlarmsTrue
CHECK_DEADLOCK FALSE
