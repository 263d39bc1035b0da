--------------------------- MODULE MCCloseOrders ---------------------------
(* Instances of CloseOrders for TLC: two positions, and the two ways in which the   *)
(* loop may have spread them over the pools.                                        *)
EXTENDS CloseOrders, TLC

CONSTANTS p1, p2

TwoPositions == {p1, p2}
TwoPools == {"A", "B"}

\* A pool for every leg, or the cheapest one for all.
OwnPools == (p1 :> "A" @@ p2 :> "B")
OnePool == (p1 :> "A" @@ p2 :> "A")

AnyPools == {OwnPools, OnePool}
=============================================================================
