------------------------------ MODULE MCUnwind ------------------------------
(* Instances of Unwind for TLC: the positions and pools of MCCloseOrders.            *)
EXTENDS Unwind, MCCloseOrders
=============================================================================
