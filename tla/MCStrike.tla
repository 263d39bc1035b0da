------------------------------ MODULE MCStrike ------------------------------
(* Instances of Strike for TLC: challenges and handlers are interchangeable; both *)
(* transfers are of one wallet, next to another one that connects too.            *)
EXTENDS Strike, TLC

CONSTANTS a, b

Addresses == {a, b}
Owners == [t \in Deposit \cup Withdrawal |-> a]

Same == Permutations(Nonce) \cup Permutations(Handler)
=============================================================================
