----------------------------- MODULE ReadCache -----------------------------
(***************************************************************************)
(* The two caches in front of what belongs to one address: its orders at   *)
(* a lender (FetchOrders, common/sources/cache.go) and its wallet balance  *)
(* (FetchBalance, common/wallet/client.go), over Redis or the process's    *)
(* own memory.  Unlike markets, concurrent fetches are not joined.         *)
(*                                                                         *)
(* Both are fetched by two queries: active positions at Surf, then pending *)
(* orders; lovelace and tokens at the same time.  (Liqwid's one query is a *)
(* special case.)  What a query returns is stood for by the time at which  *)
(* it was answered, so a value is a pair of times and has an age.          *)
(***************************************************************************)
EXTENDS Naturals

CONSTANTS
    Caller,     \* handlers and engine goroutines that read
    TTL,        \* orderTTL, or the ttl of the wallet client
    Timeout,    \* no call takes longer: contexts and HTTP clients have deadlines
    MaxTime,    \* bound on the clock
    CacheErrs   \* TRUE: the cache (Redis) may fail

ASSUME TimesAssumption == TTL \in Nat /\ Timeout \in Nat /\ MaxTime \in Nat \ {0}

VARIABLES
    kind,       \* "orders" or "balance"
    now,        \* the clock
    entry,      \* the cached value
    pc,         \* where each call is
    refresh,    \* q.Refresh of the call
    began,      \* when the call began
    asked,      \* the queries of the call that have ended
    got,        \* what the call has read
    shown,      \* when the refresh began whose result was written last
    late        \* the calls that were fetching when it was written

vars == <<kind, now, entry, pc, refresh, began, asked, got, shown, late>>

----------------------------------------------------------------------------
Query == {1, 2}

Time == 1..MaxTime

\* 0: the query has not been answered.
Value == [Query -> Time \cup {0}]

Nothing == [q \in Query |-> 0]

\* expires of an absent entry is 0.  late: its writer was fetching when the last
\* refresh was written.
Entry == [value: Value, expires: 0..(MaxTime + TTL), late: BOOLEAN]

Goto(c, l) == pc' = [pc EXCEPT ![c] = l]

Init ==
    /\ kind \in {"orders", "balance"}
    /\ now = 1
    /\ entry = [value |-> Nothing, expires |-> 0, late |-> FALSE]
    /\ pc = [c \in Caller |-> "idle"]
    /\ refresh = [c \in Caller |-> FALSE]
    /\ began = [c \in Caller |-> 1]
    /\ asked = [c \in Caller |-> {}]
    /\ got = [c \in Caller |-> Nothing]
    /\ shown = 0 /\ late = {}

----------------------------------------------------------------------------
(* A call. *)

\* Only orders can be refreshed; a refresh does not look at the cache.
Call(c) ==
    /\ pc[c] = "idle"
    /\ \E r \in BOOLEAN :
        /\ r => kind = "orders"
        /\ refresh' = [refresh EXCEPT ![c] = r]
        /\ Goto(c, IF r THEN "fetch" ELSE "get")
    /\ began' = [began EXCEPT ![c] = now]
    /\ UNCHANGED <<kind, now, entry, asked, got, shown, late>>

\* Mutated form: a hit prolongs the entry.
HitRenews(c) ==
    /\ pc[c] = "get"
    /\ now <= entry.expires
    /\ got' = [got EXCEPT ![c] = entry.value]
    /\ entry' = [entry EXCEPT !.expires = now + TTL]
    /\ Goto(c, "reply")
    /\ UNCHANGED <<kind, now, refresh, began, asked, shown, late>>

Hit(c) ==
    /\ pc[c] = "get"
    /\ now <= entry.expires
    /\ got' = [got EXCEPT ![c] = entry.value]
    /\ Goto(c, "reply")
    /\ UNCHANGED <<kind, now, entry, refresh, began, asked, shown, late>>

\* An entry that expires now is gone from Redis and still there in memory.
Miss(c) ==
    /\ pc[c] = "get"
    /\ now >= entry.expires \/ CacheErrs
    /\ Goto(c, "fetch")
    /\ UNCHANGED <<kind, now, entry, refresh, began, asked, got, shown, late>>

\* A query is answered, or fails.  Positions are asked for before pending orders.
Answer(c, q) ==
    /\ pc[c] = "fetch" /\ q \in Query \ asked[c]
    /\ kind = "orders" /\ q = 2 => 1 \in asked[c]
    /\ \E t \in {0, now} : got' = [got EXCEPT ![c][q] = t]
    /\ asked' = [asked EXCEPT ![c] = @ \cup {q}]
    /\ UNCHANGED <<kind, now, entry, pc, refresh, began, shown, late>>

\* Half a listing of orders passes for a whole one, half a balance is an error.
Usable(v) ==
    IF kind = "orders" THEN \E q \in Query : v[q] # 0 ELSE \A q \in Query : v[q] # 0

\* The call is over.
Return(c) ==
    /\ Goto(c, "idle")
    /\ asked' = [asked EXCEPT ![c] = {}]
    /\ got' = [got EXCEPT ![c] = Nothing]
    /\ refresh' = [refresh EXCEPT ![c] = FALSE]
    /\ began' = [began EXCEPT ![c] = 1]
    /\ late' = late \ {c}

\* Mutated form: the errors of the queries are not looked at.
FetchedUnchecked(c) ==
    /\ pc[c] = "fetch" /\ asked[c] = Query
    /\ Goto(c, "set")
    /\ UNCHANGED <<kind, now, entry, refresh, began, asked, got, shown, late>>

Fetched(c) ==
    /\ pc[c] = "fetch" /\ asked[c] = Query
    /\ Usable(got[c])
    /\ Goto(c, "set")
    /\ UNCHANGED <<kind, now, entry, refresh, began, asked, got, shown, late>>

\* The error is returned; for orders the query for the pools may fail first.
FetchFails(c) ==
    /\ pc[c] = "fetch"
    /\ \/ asked[c] = Query /\ ~Usable(got[c])
       \/ asked[c] = {} /\ kind = "orders"
    /\ Return(c)
    /\ UNCHANGED <<kind, now, entry, shown>>

\* Mutated form: a valid entry is kept.
SetIfAbsent(c) ==
    /\ pc[c] = "set"
    /\ entry' = IF now <= entry.expires THEN entry
                ELSE [value |-> got[c], expires |-> now + TTL, late |-> c \in late]
    /\ IF refresh[c]
       THEN /\ shown' = IF began[c] > shown THEN began[c] ELSE shown
            /\ late' = {d \in Caller \ {c} : pc[d] \in {"fetch", "set"}}
       ELSE UNCHANGED <<shown, late>>
    /\ Goto(c, "reply")
    /\ UNCHANGED <<kind, now, refresh, began, asked, got>>

\* The value is cached from now on for TTL.
Set(c) ==
    /\ pc[c] = "set"
    /\ entry' = [value |-> got[c], expires |-> now + TTL, late |-> c \in late]
    /\ IF refresh[c]
       THEN /\ shown' = IF began[c] > shown THEN began[c] ELSE shown
            /\ late' = {d \in Caller \ {c} : pc[d] \in {"fetch", "set"}}
       ELSE UNCHANGED <<shown, late>>
    /\ Goto(c, "reply")
    /\ UNCHANGED <<kind, now, refresh, began, asked, got>>

\* The cache write is best-effort.
SetFails(c) ==
    /\ pc[c] = "set" /\ CacheErrs
    /\ Goto(c, "reply")
    /\ UNCHANGED <<kind, now, entry, refresh, began, asked, got, shown, late>>

Reply(c) ==
    /\ pc[c] = "reply"
    /\ Return(c)
    /\ UNCHANGED <<kind, now, entry, shown>>

\* Time passes; the deadlines of the calls under way hold it.
Tick ==
    /\ now < MaxTime
    /\ \A c \in Caller : pc[c] # "reply" /\ (pc[c] # "idle" => now < began[c] + Timeout)
    /\ now' = now + 1
    /\ UNCHANGED <<kind, entry, pc, refresh, began, asked, got, shown, late>>

Next ==
    \/ \E c \in Caller :
        \/ Call(c) \/ Hit(c) \/ Miss(c)
        \/ \E q \in Query : Answer(c, q)
        \/ Fetched(c) \/ FetchFails(c) \/ Set(c) \/ SetFails(c) \/ Reply(c)
    \/ Tick

Spec == Init /\ [][Next]_vars

----------------------------------------------------------------------------
(* Properties. *)

\* Every variable has its type; a cached or returned value was usable when read.
TypeOK ==
    /\ kind \in {"orders", "balance"}
    /\ now \in Time
    /\ entry \in Entry
    /\ entry.expires # 0 => Usable(entry.value)
    /\ pc \in [Caller -> {"idle", "get", "fetch", "set", "reply"}]
    /\ refresh \in [Caller -> BOOLEAN]
    /\ began \in [Caller -> Time]
    /\ asked \in [Caller -> SUBSET Query]
    /\ got \in [Caller -> Value]
    /\ \A c \in Caller : pc[c] \in {"set", "reply"} => Usable(got[c])
    /\ shown \in 0..MaxTime
    /\ late \subseteq Caller

\* What a call returns was read upstream at most TTL and the length of one call ago,
\* whoever fetched it and however often it was hit since (cache.go:136, client.go:91).
BoundedStaleness ==
    \A c \in Caller : pc[c] = "reply" =>
        \A q \in Query : got[c][q] # 0 => got[c][q] + TTL + Timeout >= now

\* What a refresh has written stays until it expires or something newer replaces it;
\* only a call that was already fetching can put older orders back (cache.go:123-124).
RefreshSticks ==
    entry.expires >= now /\ ~entry.late =>
        \A q \in Query : entry.value[q] # 0 => entry.value[q] >= shown
=============================================================================
