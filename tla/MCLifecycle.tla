---------------------------- MODULE MCLifecycle ----------------------------
(* Instances of Lifecycle for TLC: slots are interchangeable. *)
EXTENDS Lifecycle, TLC

AllCalls == {"start", "retry", "reverse", "sweep"}
ReverseOnly == {"reverse"}
ReverseAndRestart == {"start", "retry", "reverse"}

\* Sound for the runs without liveness properties only.
Slots == Permutations(Goroutine)
=============================================================================
