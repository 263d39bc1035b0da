---------------------------- MODULE MCReadCache ----------------------------
(* Instances of ReadCache for TLC: callers are interchangeable. *)
EXTENDS ReadCache, TLC

Callers == Permutations(Caller)
=============================================================================
