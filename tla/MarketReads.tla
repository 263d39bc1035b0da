---------------------------- MODULE MarketReads ----------------------------
(***************************************************************************)
(* What FetchMarkets of a wrapped source promises its callers, with no     *)
(* cache, lock or channel in sight (the comments of CachedSource in        *)
(* common/sources/cache.go): the upstream is asked by one caller at a      *)
(* time, "a failed refresh returns the error to all waiters and the next   *)
(* call retries fresh".  How old the markets may be is left to the TTL.    *)
(***************************************************************************)
EXTENDS Naturals

CONSTANTS
    Caller,         \* goroutines that call FetchMarkets
    MaxFetches      \* bound on the upstream calls of a behaviour

VARIABLES
    open,       \* the upstream call under way, or 0
    begun,      \* upstream calls so far
    outcome,    \* outcome[n]: how upstream call n ended
    asked,      \* asked[c]: the first upstream call that ends after c has asked, or 0
    told        \* told[c]: what c was told last

vars == <<open, begun, outcome, asked, told>>

UpstreamCall == 1..MaxFetches

Init ==
    /\ open = 0 /\ begun = 0
    /\ outcome = [n \in UpstreamCall |-> "none"]
    /\ asked = [c \in Caller |-> 0]
    /\ told = [c \in Caller |-> [says |-> "none", flight |-> 0]]

Ask(c) ==
    /\ asked[c] = 0
    /\ asked' = [asked EXCEPT ![c] = IF open # 0 THEN open ELSE begun + 1]
    /\ told' = [told EXCEPT ![c] = [says |-> "none", flight |-> 0]]
    /\ UNCHANGED <<open, begun, outcome>>

\* The upstream is asked only on behalf of a caller, and not while it is being asked.
Begin ==
    /\ open = 0 /\ begun < MaxFetches
    /\ \E c \in Caller : asked[c] # 0
    /\ begun' = begun + 1
    /\ open' = begun + 1
    /\ UNCHANGED <<outcome, asked, told>>

End ==
    /\ open # 0
    /\ \E o \in {"ok", "error"} : outcome' = [outcome EXCEPT ![open] = o]
    /\ open' = 0
    /\ UNCHANGED <<begun, asked, told>>

Tell(c, says, n) ==
    /\ asked[c] # 0
    /\ told' = [told EXCEPT ![c] = [says |-> says, flight |-> n]]
    /\ asked' = [asked EXCEPT ![c] = 0]
    /\ UNCHANGED <<open, begun, outcome>>

\* Markets are those of a call that has ended well.
Markets(c) == \E n \in UpstreamCall : outcome[n] = "ok" /\ Tell(c, "markets", n)

\* An error is told to those who asked before the failed call ended, and to nobody later.
Error(c) ==
    \E n \in UpstreamCall : n >= asked[c] /\ outcome[n] = "error" /\ Tell(c, "error", n)

\* A caller's context ends.
GivesUp(c) == Tell(c, "ended", 0)

Next ==
    \/ \E c \in Caller : Ask(c) \/ Markets(c) \/ Error(c) \/ GivesUp(c)
    \/ Begin
    \/ End

Spec == Init /\ [][Next]_vars
=============================================================================
