------------------------------ MODULE MCSizing ------------------------------
(* Instances of Sizing for TLC, around the figures of math_test.go, in ADA. *)
EXTENDS Sizing

SomeAmounts == {50, 120, 250, 40000}
SomeLeverages == {50, 130, 170, 500}
SomeLTVs == {0, 58, 80, 99}
SomeMinSupplies == {0, 81}
SomeThresholds == {0, 5, 8}
SomeSlips == {0, 30}
SomePrices == {5, 8, 13, 20}
=============================================================================
