---------------------------- MODULE MarketCache ----------------------------
(***************************************************************************)
(* FetchMarkets of one wrapped source: CachedSource around PersistedSource *)
(* (common/sources/cache.go, persister.go; main.go composes them), called  *)
(* concurrently by API handlers and engine goroutines.                     *)
(*                                                                         *)
(* A flight is one pendingFetch: its leader asks the upstream, everyone    *)
(* who comes while it is pending waits for it.  Flights are numbered in    *)
(* the order in which they start, and the number stands for the markets    *)
(* the flight brings back: a higher one is newer.                          *)
(***************************************************************************)
EXTENDS Naturals, FiniteSets

CONSTANTS
    Caller,         \* goroutines that call FetchMarkets
    MaxFetches,     \* bound on the flights of a behaviour
    CanFail,        \* TRUE: the upstream may fail
    CanCancel,      \* TRUE: a caller's context may end
    CacheErrs       \* TRUE: the cache (Redis) may fail

ASSUME MaxFetchesAssumption == MaxFetches \in Nat
ASSUME FiniteAssumption == IsFiniteSet(Caller)

VARIABLES
    cache,      \* the entry of the source in the cache, 0 if there is none
    fresh,      \* the entry has not expired
    pending,    \* c.pending: the flight under way, or 0
    started,    \* flights so far
    result,     \* result[n]: p.markets and p.err of flight n
    closed,     \* flights whose p.done is closed
    pc,         \* where each caller is
    flight,     \* the flight a caller leads or waits for
    got,        \* what a leader's upstream call returned
    done,       \* done[c]: the context of c has ended
    asked,      \* asked[c]: the first flight that had not landed when c called, or 0
    told        \* told[c]: what the last call of c returned

shared == <<cache, fresh, pending, started, result, closed>>

vars == <<shared, pc, flight, got, done, asked, told>>

----------------------------------------------------------------------------
Flight == 1..MaxFetches

Where == {"idle", "get", "lock", "wait", "fetch", "publish", "close", "set"}

Goto(c, l) == pc' = [pc EXCEPT ![c] = l]

\* What FetchMarkets returns: the markets or the error of a flight, or the error of the
\* caller's own context.
Answer == [says: {"none", "markets", "error", "ended"}, flight: 0..MaxFetches]

NoAnswer == [says |-> "none", flight |-> 0]

OfFlight(n, r) == [says |-> IF r = "ok" THEN "markets" ELSE "error", flight |-> n]

\* The call is over.
Return(c, answer) ==
    /\ Goto(c, "idle")
    /\ told' = [told EXCEPT ![c] = answer]
    /\ asked' = [asked EXCEPT ![c] = 0]
    /\ flight' = [flight EXCEPT ![c] = 0]
    /\ got' = [got EXCEPT ![c] = "none"]
    /\ done' = [done EXCEPT ![c] = FALSE]

Init ==
    /\ cache = 0 /\ fresh = FALSE
    /\ pending = 0 /\ started = 0
    /\ result = [n \in Flight |-> "none"]
    /\ closed = {}
    /\ pc = [c \in Caller |-> "idle"]
    /\ flight = [c \in Caller |-> 0]
    /\ got = [c \in Caller |-> "none"]
    /\ done = [c \in Caller |-> FALSE]
    /\ asked = [c \in Caller |-> 0]
    /\ told = [c \in Caller |-> NoAnswer]

----------------------------------------------------------------------------
(* FetchMarkets. *)

\* A call; no more are made than MaxFetches has flights for.
Call(c) ==
    /\ pc[c] = "idle"
    /\ started + Cardinality({d \in Caller : pc[d] \in {"get", "lock"}}) < MaxFetches
    /\ Goto(c, "get")
    /\ asked' = [asked EXCEPT ![c] = IF pending # 0 THEN pending ELSE started + 1]
    /\ told' = [told EXCEPT ![c] = NoAnswer]
    /\ UNCHANGED <<shared, flight, got, done>>

CacheGet(c) ==
    /\ pc[c] = "get"
    /\ \/ fresh /\ Return(c, OfFlight(cache, "ok"))
       \/ /\ ~fresh \/ CacheErrs
          /\ Goto(c, "lock")
          /\ UNCHANGED <<flight, got, done, asked, told>>
    /\ UNCHANGED shared

\* c becomes the leader of a new flight.
NewFlight(c) ==
    /\ started' = started + 1
    /\ pending' = started + 1
    /\ flight' = [flight EXCEPT ![c] = started + 1]
    /\ Goto(c, "fetch")

\* Mutated form: the pending flight is not looked at.
LockUnchecked(c) ==
    /\ pc[c] = "lock"
    /\ NewFlight(c)
    /\ UNCHANGED <<cache, fresh, result, closed, got, done, asked, told>>

\* The first critical section: join the pending flight, or lead a new one.
Lock(c) ==
    /\ pc[c] = "lock"
    /\ \/ /\ pending # 0
          /\ flight' = [flight EXCEPT ![c] = pending]
          /\ Goto(c, "wait")
          /\ UNCHANGED <<pending, started>>
       \/ /\ pending = 0
          /\ NewFlight(c)
    /\ UNCHANGED <<cache, fresh, result, closed, got, done, asked, told>>

\* The select of a waiter: the flight has landed, or its own context has ended.
Wait(c) ==
    /\ pc[c] = "wait"
    /\ \/ flight[c] \in closed /\ Return(c, OfFlight(flight[c], result[flight[c]]))
       \/ done[c] /\ Return(c, [says |-> "ended", flight |-> 0])
    /\ UNCHANGED shared

\* PersistedSource.FetchMarkets: the upstream call with the leader's context.  The copy
\* written to Mongo, whose failure is not fatal, is read by nobody here.
Fetch(c) ==
    /\ pc[c] = "fetch"
    /\ \/ got' = [got EXCEPT ![c] = "ok"]
       \/ /\ CanFail \/ done[c]
          /\ got' = [got EXCEPT ![c] = "error"]
    /\ Goto(c, "publish")
    /\ UNCHANGED <<shared, flight, done, asked, told>>

\* Mutated form: the flight is published before the upstream has answered.
PublishEarly(c) ==
    /\ pc[c] \in {"fetch", "publish"}
    /\ result' = [result EXCEPT ![flight[c]] = got[c]]
    /\ pending' = 0
    /\ Goto(c, "close")
    /\ UNCHANGED <<cache, fresh, started, closed, flight, got, done, asked, told>>

\* Mutated form: the pending flight is not cleared.
PublishKeeps(c) ==
    /\ pc[c] = "publish"
    /\ result' = [result EXCEPT ![flight[c]] = got[c]]
    /\ Goto(c, "close")
    /\ UNCHANGED <<cache, fresh, pending, started, closed, flight, got, done, asked, told>>

\* The second critical section.
Publish(c) ==
    /\ pc[c] = "publish"
    /\ result' = [result EXCEPT ![flight[c]] = got[c]]
    /\ pending' = 0
    /\ Goto(c, "close")
    /\ UNCHANGED <<cache, fresh, started, closed, flight, got, done, asked, told>>

\* Mutated form: p.done is closed only if the fetch succeeded.
CloseOnSuccess(c) ==
    /\ pc[c] = "close"
    /\ closed' = IF got[c] = "ok" THEN closed \cup {flight[c]} ELSE closed
    /\ Goto(c, "set")
    /\ UNCHANGED <<cache, fresh, pending, started, result, flight, got, done, asked, told>>

CloseDone(c) ==
    /\ pc[c] = "close"
    /\ closed' = closed \cup {flight[c]}
    /\ Goto(c, "set")
    /\ UNCHANGED <<cache, fresh, pending, started, result, flight, got, done, asked, told>>

\* Mutated form: an error is written as well.
CacheSetAlways(c) ==
    /\ pc[c] = "set"
    /\ cache' = flight[c] /\ fresh' = TRUE
    /\ Return(c, OfFlight(flight[c], got[c]))
    /\ UNCHANGED <<pending, started, result, closed>>

\* A success is written to the cache, best effort.
CacheSet(c) ==
    /\ pc[c] = "set"
    /\ \/ /\ got[c] = "ok"
          /\ cache' = flight[c] /\ fresh' = TRUE
       \/ /\ got[c] = "error" \/ CacheErrs
          /\ UNCHANGED <<cache, fresh>>
    /\ Return(c, OfFlight(flight[c], got[c]))
    /\ UNCHANGED <<pending, started, result, closed>>

FetchMarkets(c) ==
    CacheGet(c) \/ Lock(c) \/ Wait(c) \/ Fetch(c) \/ Publish(c) \/ CloseDone(c) \/ CacheSet(c)

----------------------------------------------------------------------------
(* The environment. *)

\* The entry's TTL is over.
Expire ==
    /\ fresh
    /\ fresh' = FALSE
    /\ UNCHANGED <<cache, pending, started, result, closed, pc, flight, got, done, asked, told>>

\* The request of c times out, or a Reverse cancels the loop c belongs to.
CancelCtx(c) ==
    /\ CanCancel
    /\ pc[c] # "idle" /\ ~done[c]
    /\ done' = [done EXCEPT ![c] = TRUE]
    /\ UNCHANGED <<shared, pc, flight, got, asked, told>>

Next ==
    \/ \E c \in Caller : Call(c) \/ FetchMarkets(c) \/ CancelCtx(c)
    \/ Expire

Spec == Init /\ [][Next]_vars

\* Goroutines run on, and every upstream call ends: its client has a timeout.
FairSpec == Spec /\ \A c \in Caller : WF_vars(FetchMarkets(c))

----------------------------------------------------------------------------
(* Properties. *)

Leads(c) == pc[c] \in {"fetch", "publish"}

\* Every variable has its type.
TypeOK ==
    /\ cache \in 0..MaxFetches
    /\ fresh \in BOOLEAN
    /\ pending \in 0..MaxFetches
    /\ started \in 0..MaxFetches
    /\ result \in [Flight -> {"none", "ok", "error"}]
    /\ closed \subseteq Flight
    /\ pc \in [Caller -> Where]
    /\ flight \in [Caller -> 0..MaxFetches]
    /\ got \in [Caller -> {"none", "ok", "error"}]
    /\ done \in [Caller -> BOOLEAN]
    /\ asked \in [Caller -> 0..MaxFetches]
    /\ told \in [Caller -> Answer]
    /\ \A n \in closed : result[n] # "none"

\* "only one fetch at a time per source" (cache.go:89).
OneFetch == \A c, d \in Caller : Leads(c) /\ Leads(d) => c = d

\* A flight is never abandoned: the pending one has a leader that will clear it, and
\* whoever waits waits for a flight that has landed or whose leader will land it.
NoAbandonedFlight ==
    /\ pending # 0 => \E c \in Caller : Leads(c) /\ flight[c] = pending
    /\ \A c \in Caller :
        pc[c] = "wait" =>
            \/ flight[c] \in closed
            \/ \E d \in Caller : (Leads(d) \/ pc[d] = "close") /\ flight[d] = flight[c]

\* "Errors are not cached" (cache.go:34), however late the cache write comes.
ErrorsNotCached == cache # 0 => result[cache] = "ok"

\* The cache, its lock and its flights are a way to serve MarketReads: the callers cannot
\* tell them from one upstream that is asked by one caller at a time.
Reads == INSTANCE MarketReads WITH open <- pending, begun <- started, outcome <- result

ServesReads == Reads!Spec

\* Every call returns, also when the leader it waits for fails or is cancelled.
CallsReturn == \A c \in Caller : (pc[c] # "idle") ~> (pc[c] = "idle")
=============================================================================
