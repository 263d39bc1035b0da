------------------------------ MODULE MCUserTx ------------------------------
(* Instances of UserTx for TLC: two borrows in one pool of Surf and two loans that *)
(* one transaction has made at Liqwid, two transactions, one request at a time.     *)
EXTENDS UserTx, TLC

CONSTANTS s1, s2, q1, q2

Loans == {s1, s2, q1, q2}
Lenders == (s1 :> "surf" @@ s2 :> "surf" @@ q1 :> "liqwid" @@ q2 :> "liqwid")
Pools == (s1 :> "P" @@ s2 :> "P" @@ q1 :> "Q" @@ q2 :> "Q")

Moves == (s1 :> 2 @@ s2 :> 1 @@ q1 :> 0 @@ q2 :> 0)

\* One transaction has made both loans; every other output comes from one of its own.
Transactions == [o \in Loans \X (0..2) |-> IF o[1] \in {q1, q2} THEN "one" ELSE o]

\* The position that the filling of the order of s1 has just made.
JustFilled == {<<s1, 1>>}

Same == Permutations(Tx) \cup Permutations({q1, q2}) \cup Permutations(Request) \cup Permutations(Coin)
=============================================================================
