-------------------------- MODULE MarketCacheProofs --------------------------
(***************************************************************************)
(* Proofs about MarketCache, for every number of callers and flights and   *)
(* every behaviour of the upstream, the cache and the callers' contexts.   *)
(***************************************************************************)
EXTENDS MarketCache, FiniteSetTheorems, TLAPS

----------------------------------------------------------------------------
(* The parts of the inductive invariant. *)

\* Callers that may still start a flight; the bound on calls leaves each one.
Undecided == {d \in Caller : pc[d] \in {"get", "lock"}}

Budget == started + Cardinality(Undecided) <= MaxFetches

\* A leader leads the pending flight.
LeaderInv == \A c \in Caller : Leads(c) => pending # 0 /\ flight[c] = pending

\* The pending flight is the newest, and has no result yet.
FlightInv ==
    /\ pending \in {0, started}
    /\ \A n \in Flight : n > started => result[n] = "none"
    /\ pending # 0 => result[pending] = "none"

\* A leader that has its answer publishes it, and then keeps it.
AnswerInv ==
    /\ \A c \in Caller : pc[c] \in {"publish", "close", "set"} => got[c] # "none"
    /\ \A c \in Caller :
        pc[c] \in {"close", "set"} => flight[c] \in Flight /\ result[flight[c]] = got[c]

\* A valid entry is that of a flight.
FreshInv == fresh => cache # 0

\* A call is served by a flight that had not landed when it was made.
AskedInv ==
    \A c \in Caller :
        CASE pc[c] = "idle" -> asked[c] = 0
          [] pc[c] \in {"get", "lock"} ->
                asked[c] # 0 /\ asked[c] <= IF pending # 0 THEN pending ELSE started + 1
          [] OTHER -> asked[c] # 0 /\ flight[c] \in Flight /\ asked[c] <= flight[c]

----------------------------------------------------------------------------
(* Counting callers. *)

\* The number of undecided callers is a natural number.
LEMMA UndecidedFinite == IsFiniteSet(Undecided) /\ Cardinality(Undecided) \in Nat
<1>1. Undecided \subseteq Caller
  BY DEF Undecided
<1> QED
  BY <1>1, FiniteAssumption, FS_Subset, FS_CardinalityType

\* Deciding makes room, and calling takes it.
LEMMA UndecidedRemoved ==
    ASSUME NEW c \in Caller, c \in Undecided, Undecided' = Undecided \ {c}
    PROVE  Cardinality(Undecided') = Cardinality(Undecided) - 1 /\ Cardinality(Undecided) >= 1
<1>1. Cardinality(Undecided \ {c}) = Cardinality(Undecided) - 1
  BY UndecidedFinite, FS_RemoveElement
<1>2. IsFiniteSet(Undecided \ {c})
  BY UndecidedFinite, FS_RemoveElement
<1>3. Cardinality(Undecided \ {c}) \in Nat
  BY <1>2, FS_CardinalityType
<1> QED
  BY <1>1, <1>3, UndecidedFinite

\* A caller that looks at the pending flight has a flight number to spare.
LEMMA LockBudget ==
    ASSUME TypeOK, Budget, NEW c \in Caller, Lock(c)
    PROVE  started + 1 \in Flight
<1>1. c \in Undecided
  BY DEF Lock, Undecided
<1>2. Undecided' = Undecided \ {c}
  BY DEF TypeOK, Lock, NewFlight, Goto, Undecided
<1>3. Cardinality(Undecided) >= 1
  BY <1>1, <1>2, UndecidedRemoved
<1> QED
  BY <1>3, UndecidedFinite, MaxFetchesAssumption DEF TypeOK, Budget, Flight

\* Every step keeps the bound on the flights.
LEMMA BudgetStep == TypeOK /\ Budget /\ [Next]_vars => Budget'
<1> SUFFICES ASSUME TypeOK, Budget, [Next]_vars PROVE Budget'
  OBVIOUS
<1>1. ASSUME NEW c \in Caller, Call(c) PROVE Budget'
  <2>1. c \notin Undecided /\ Undecided' = Undecided \cup {c}
    BY <1>1 DEF TypeOK, Undecided, Goto, Call
  <2>2. Cardinality(Undecided \cup {c}) = Cardinality(Undecided) + 1
    BY <2>1, UndecidedFinite, FS_AddElement
  <2>3. started + Cardinality(Undecided) < MaxFetches /\ started' = started
    BY <1>1 DEF Call, shared, Undecided
  <2> QED
    BY <2>1, <2>2, <2>3, UndecidedFinite, MaxFetchesAssumption DEF TypeOK, Budget
<1>2. ASSUME NEW c \in Caller, CacheGet(c) PROVE Budget'
  <2>1. started' = started
    BY <1>2 DEF CacheGet, shared
  <2>2. CASE pc' = [pc EXCEPT ![c] = "lock"]
    <3>1. Undecided' = Undecided
      BY <1>2, <2>2 DEF TypeOK, Undecided, CacheGet
    <3> QED
      BY <2>1, <3>1 DEF Budget
  <2>3. CASE pc' = [pc EXCEPT ![c] = "idle"]
    <3>1. c \in Undecided /\ Undecided' = Undecided \ {c}
      BY <1>2, <2>3 DEF TypeOK, Undecided, CacheGet
    <3>2. Cardinality(Undecided') = Cardinality(Undecided) - 1
      BY <3>1, UndecidedRemoved
    <3> QED
      BY <2>1, <3>2, UndecidedFinite, MaxFetchesAssumption DEF TypeOK, Budget
  <2> QED
    BY <1>2, <2>2, <2>3 DEF CacheGet, Return, Goto
<1>3. ASSUME NEW c \in Caller, Lock(c) PROVE Budget'
  <2>1. c \in Undecided /\ Undecided' = Undecided \ {c}
    BY <1>3 DEF TypeOK, Undecided, Goto, Lock, NewFlight
  <2>2. Cardinality(Undecided') = Cardinality(Undecided) - 1
    BY <2>1, UndecidedRemoved
  <2>3. started' \in {started, started + 1}
    BY <1>3 DEF Lock, NewFlight
  <2> QED
    BY <2>2, <2>3, UndecidedFinite, MaxFetchesAssumption DEF TypeOK, Budget
<1>4. ASSUME NEW c \in Caller, Wait(c) PROVE Budget'
  <2>1. Undecided' = Undecided
    BY <1>4 DEF TypeOK, Undecided, Goto, Wait, Return, shared
  <2> QED
    BY <1>4, <2>1 DEF Budget, Wait, Return, shared
<1>5. ASSUME NEW c \in Caller, Fetch(c) PROVE Budget'
  <2>1. Undecided' = Undecided
    BY <1>5 DEF TypeOK, Undecided, Goto, Fetch, shared
  <2> QED
    BY <1>5, <2>1 DEF Budget, Fetch, shared
<1>6. ASSUME NEW c \in Caller, Publish(c) PROVE Budget'
  <2>1. Undecided' = Undecided
    BY <1>6 DEF TypeOK, Undecided, Goto, Publish
  <2> QED
    BY <1>6, <2>1 DEF Budget, Publish
<1>7. ASSUME NEW c \in Caller, CloseDone(c) PROVE Budget'
  <2>1. Undecided' = Undecided
    BY <1>7 DEF TypeOK, Undecided, Goto, CloseDone
  <2> QED
    BY <1>7, <2>1 DEF Budget, CloseDone
<1>8. ASSUME NEW c \in Caller, CacheSet(c) PROVE Budget'
  <2>1. Undecided' = Undecided
    BY <1>8 DEF TypeOK, Undecided, Goto, CacheSet, Return
  <2> QED
    BY <1>8, <2>1 DEF Budget, CacheSet, Return
<1>9. ASSUME NEW c \in Caller, CancelCtx(c) PROVE Budget'
  <2>1. Undecided' = Undecided
    BY <1>9 DEF TypeOK, Undecided, Goto, CancelCtx, shared
  <2> QED
    BY <1>9, <2>1 DEF Budget, CancelCtx, shared
<1>10. CASE Expire
  BY <1>10 DEF Budget, Undecided, Expire
<1>11. CASE UNCHANGED vars
  BY <1>11 DEF Budget, Undecided, vars, shared
<1> QED
  BY <1>1, <1>2, <1>3, <1>4, <1>5, <1>6, <1>7, <1>8, <1>9, <1>10, <1>11 DEF Next, FetchMarkets

----------------------------------------------------------------------------
(* Type correctness. *)

\* A returning call keeps the types.
LEMMA ReturnTypes ==
    ASSUME TypeOK, NEW c \in Caller, NEW answer \in Answer, Return(c, answer)
    PROVE  /\ pc' \in [Caller -> Where]
           /\ flight' \in [Caller -> 0..MaxFetches]
           /\ got' \in [Caller -> {"none", "ok", "error"}]
           /\ done' \in [Caller -> BOOLEAN]
           /\ asked' \in [Caller -> 0..MaxFetches]
           /\ told' \in [Caller -> Answer]
  BY MaxFetchesAssumption DEF TypeOK, Return, Goto, Where

\* What a flight says is an answer.
LEMMA FlightAnswers ==
    ASSUME NEW n \in 0..MaxFetches, NEW says PROVE OfFlight(n, says) \in Answer
  BY DEF OfFlight, Answer

\* Every step keeps the types.
LEMMA TypeStep == TypeOK /\ Budget /\ LeaderInv /\ AnswerInv /\ [Next]_vars => TypeOK'
<1> SUFFICES ASSUME TypeOK, Budget, LeaderInv, AnswerInv, [Next]_vars PROVE TypeOK'
  OBVIOUS
<1>1. ASSUME NEW c \in Caller, Call(c) PROVE TypeOK'
  <2>1. started + 1 \in 0..MaxFetches
    <3>1. started + Cardinality(Undecided) < MaxFetches
      BY <1>1 DEF Call, Undecided
    <3> QED
      BY <3>1, UndecidedFinite, MaxFetchesAssumption DEF TypeOK
  <2>2. asked' \in [Caller -> 0..MaxFetches]
    BY <1>1, <2>1 DEF TypeOK, Call
  <2>3. told' \in [Caller -> Answer]
    BY <1>1, MaxFetchesAssumption DEF TypeOK, Call, Answer, NoAnswer
  <2> QED
    BY <1>1, <2>2, <2>3, MaxFetchesAssumption DEF TypeOK, Where, Call, Goto, shared
<1>2. ASSUME NEW c \in Caller, CacheGet(c) PROVE TypeOK'
  <2>1. UNCHANGED shared
    BY <1>2 DEF CacheGet
  <2>2. CASE Return(c, OfFlight(cache, "ok"))
    <3>1. OfFlight(cache, "ok") \in Answer
      BY FlightAnswers DEF TypeOK
    <3> QED
      BY <2>1, <2>2, <3>1, ReturnTypes DEF TypeOK, shared
  <2>3. CASE ~Return(c, OfFlight(cache, "ok"))
    BY <1>2, <2>1, <2>3 DEF TypeOK, CacheGet, shared, Goto, Where
  <2> QED
    BY <2>2, <2>3
<1>3. ASSUME NEW c \in Caller, Lock(c) PROVE TypeOK'
  <2>1. started + 1 \in Flight
    BY <1>3, LockBudget
  <2>2. started + 1 \in 0..MaxFetches
    BY <2>1, MaxFetchesAssumption DEF Flight
  <2> QED
    BY <1>3, <2>2 DEF TypeOK, Lock, NewFlight, Goto, Where
<1>4. ASSUME NEW c \in Caller, Wait(c) PROVE TypeOK'
  <2>1. UNCHANGED shared
    BY <1>4 DEF Wait
  <2>2. PICK answer \in Answer : Return(c, answer)
    <3>1. OfFlight(flight[c], result[flight[c]]) \in Answer
      BY FlightAnswers DEF TypeOK
    <3>2. [says |-> "ended", flight |-> 0] \in Answer
      BY MaxFetchesAssumption DEF Answer
    <3> QED
      BY <1>4, <3>1, <3>2 DEF Wait
  <2> QED
    BY <2>1, <2>2, ReturnTypes DEF TypeOK, shared
<1>5. ASSUME NEW c \in Caller, Fetch(c) PROVE TypeOK'
  BY <1>5, MaxFetchesAssumption DEF TypeOK, Where, Fetch, Goto, shared
<1>6. ASSUME NEW c \in Caller, Publish(c) PROVE TypeOK'
  <2>1. flight[c] \in Flight /\ got[c] # "none"
    BY <1>6, MaxFetchesAssumption DEF TypeOK, LeaderInv, AnswerInv, Publish, Leads, Flight
  <2>2. result' \in [Flight -> {"none", "ok", "error"}]
    BY <1>6, <2>1 DEF TypeOK, Publish
  <2>3. \A n \in closed : result'[n] # "none"
    BY <1>6, <2>1 DEF TypeOK, Publish
  <2> QED
    BY <1>6, <2>2, <2>3, MaxFetchesAssumption DEF TypeOK, Publish, Goto, Where
<1>7. ASSUME NEW c \in Caller, CloseDone(c) PROVE TypeOK'
  <2>1. flight[c] \in Flight /\ result[flight[c]] # "none"
    BY <1>7 DEF AnswerInv, CloseDone
  <2> QED
    BY <1>7, <2>1 DEF TypeOK, CloseDone, Goto, Where
<1>8. ASSUME NEW c \in Caller, CacheSet(c) PROVE TypeOK'
  <2>1. OfFlight(flight[c], got[c]) \in Answer
    BY FlightAnswers DEF TypeOK
  <2>2. pc' \in [Caller -> Where] /\ flight' \in [Caller -> 0..MaxFetches]
        /\ got' \in [Caller -> {"none", "ok", "error"}] /\ done' \in [Caller -> BOOLEAN]
        /\ asked' \in [Caller -> 0..MaxFetches] /\ told' \in [Caller -> Answer]
    BY <1>8, <2>1, ReturnTypes DEF CacheSet
  <2>3. cache' \in 0..MaxFetches /\ fresh' \in BOOLEAN
    BY <1>8 DEF TypeOK, CacheSet
  <2> QED
    BY <1>8, <2>2, <2>3 DEF TypeOK, CacheSet
<1>9. ASSUME NEW c \in Caller, CancelCtx(c) PROVE TypeOK'
  BY <1>9, MaxFetchesAssumption DEF TypeOK, Where, CancelCtx, shared
<1>10. CASE Expire
  BY <1>10, MaxFetchesAssumption DEF TypeOK, Where, Expire
<1>11. CASE UNCHANGED vars
  BY <1>11, MaxFetchesAssumption DEF TypeOK, Where, vars, shared
<1> QED
  BY <1>1, <1>2, <1>3, <1>4, <1>5, <1>6, <1>7, <1>8, <1>9, <1>10, <1>11 DEF Next, FetchMarkets

----------------------------------------------------------------------------
(* Leaders and flights. *)

\* Every step keeps the leader of the pending flight.
LEMMA LeaderStep == TypeOK /\ LeaderInv /\ OneFetch /\ [Next]_vars => (LeaderInv /\ OneFetch)'
<1> SUFFICES ASSUME TypeOK, LeaderInv, OneFetch, [Next]_vars PROVE (LeaderInv /\ OneFetch)'
  OBVIOUS
<1>1. ASSUME NEW c \in Caller, Call(c) PROVE (LeaderInv /\ OneFetch)'
  BY <1>1 DEF TypeOK, LeaderInv, OneFetch, Leads, Call, Goto, shared
<1>2. ASSUME NEW c \in Caller, CacheGet(c) PROVE (LeaderInv /\ OneFetch)'
  BY <1>2 DEF TypeOK, LeaderInv, OneFetch, Leads, CacheGet, Goto, shared, Return
<1>3. ASSUME NEW c \in Caller, Lock(c) PROVE (LeaderInv /\ OneFetch)'
  BY <1>3 DEF TypeOK, LeaderInv, OneFetch, Leads, Lock, Goto, NewFlight
<1>4. ASSUME NEW c \in Caller, Wait(c) PROVE (LeaderInv /\ OneFetch)'
  BY <1>4 DEF TypeOK, LeaderInv, OneFetch, Leads, Wait, Goto, shared, Return
<1>5. ASSUME NEW c \in Caller, Fetch(c) PROVE (LeaderInv /\ OneFetch)'
  BY <1>5 DEF TypeOK, LeaderInv, OneFetch, Leads, Fetch, Goto, shared
<1>6. ASSUME NEW c \in Caller, Publish(c) PROVE (LeaderInv /\ OneFetch)'
  BY <1>6 DEF TypeOK, LeaderInv, OneFetch, Leads, Publish, Goto
<1>7. ASSUME NEW c \in Caller, CloseDone(c) PROVE (LeaderInv /\ OneFetch)'
  BY <1>7 DEF TypeOK, LeaderInv, OneFetch, Leads, CloseDone, Goto
<1>8. ASSUME NEW c \in Caller, CacheSet(c) PROVE (LeaderInv /\ OneFetch)'
  BY <1>8 DEF TypeOK, LeaderInv, OneFetch, Leads, CacheSet, Goto, Return
<1>9. ASSUME NEW c \in Caller, CancelCtx(c) PROVE (LeaderInv /\ OneFetch)'
  BY <1>9 DEF TypeOK, LeaderInv, OneFetch, Leads, CancelCtx, shared
<1>10. CASE Expire
  BY <1>10 DEF TypeOK, LeaderInv, OneFetch, Leads, Expire
<1>11. CASE UNCHANGED vars
  BY <1>11 DEF TypeOK, LeaderInv, OneFetch, Leads, vars, shared
<1> QED
  BY <1>1, <1>2, <1>3, <1>4, <1>5, <1>6, <1>7, <1>8, <1>9, <1>10, <1>11 DEF Next, FetchMarkets

\* Every step keeps the pending flight the newest.
LEMMA FlightStep == TypeOK /\ Budget /\ LeaderInv /\ FlightInv /\ [Next]_vars => FlightInv'
<1> SUFFICES ASSUME TypeOK, Budget, LeaderInv, FlightInv, [Next]_vars PROVE FlightInv'
  OBVIOUS
<1>1. ASSUME NEW c \in Caller, Call(c) PROVE FlightInv'
  BY <1>1 DEF TypeOK, FlightInv, Call, Goto, shared
<1>2. ASSUME NEW c \in Caller, CacheGet(c) PROVE FlightInv'
  BY <1>2 DEF TypeOK, FlightInv, CacheGet, Goto, shared, Return
<1>3. ASSUME NEW c \in Caller, Lock(c) PROVE FlightInv'
  <2>1. started + 1 \in Flight
    BY <1>3, LockBudget
  <2> QED
    BY <1>3, <2>1, MaxFetchesAssumption DEF TypeOK, FlightInv, Lock, NewFlight, Flight
<1>4. ASSUME NEW c \in Caller, Wait(c) PROVE FlightInv'
  BY <1>4 DEF TypeOK, FlightInv, Wait, Goto, shared, Return
<1>5. ASSUME NEW c \in Caller, Fetch(c) PROVE FlightInv'
  BY <1>5 DEF TypeOK, FlightInv, Fetch, Goto, shared
<1>6. ASSUME NEW c \in Caller, Publish(c) PROVE FlightInv'
  <2>1. flight[c] = pending /\ pending \in Flight
    BY <1>6, MaxFetchesAssumption DEF TypeOK, LeaderInv, Leads, Publish, Flight
  <2>2. pending = started
    BY <2>1, MaxFetchesAssumption DEF FlightInv, Flight
  <2> QED
    BY <1>6, <2>1, <2>2, MaxFetchesAssumption DEF TypeOK, FlightInv, Publish, Flight
<1>7. ASSUME NEW c \in Caller, CloseDone(c) PROVE FlightInv'
  BY <1>7 DEF TypeOK, FlightInv, CloseDone, Goto
<1>8. ASSUME NEW c \in Caller, CacheSet(c) PROVE FlightInv'
  BY <1>8 DEF TypeOK, FlightInv, CacheSet, Goto, Return
<1>9. ASSUME NEW c \in Caller, CancelCtx(c) PROVE FlightInv'
  BY <1>9 DEF TypeOK, FlightInv, CancelCtx, shared
<1>10. CASE Expire
  BY <1>10 DEF TypeOK, FlightInv, Expire
<1>11. CASE UNCHANGED vars
  BY <1>11 DEF TypeOK, FlightInv, vars, shared
<1> QED
  BY <1>1, <1>2, <1>3, <1>4, <1>5, <1>6, <1>7, <1>8, <1>9, <1>10, <1>11 DEF Next, FetchMarkets

\* Every step keeps a published answer.
LEMMA AnswerStep == TypeOK /\ LeaderInv /\ FlightInv /\ AnswerInv /\ [Next]_vars => AnswerInv'
<1> SUFFICES ASSUME TypeOK, LeaderInv, FlightInv, AnswerInv, [Next]_vars PROVE AnswerInv'
  OBVIOUS
<1>1. ASSUME NEW c \in Caller, Call(c) PROVE AnswerInv'
  BY <1>1 DEF TypeOK, AnswerInv, Call, Goto, shared
<1>2. ASSUME NEW c \in Caller, CacheGet(c) PROVE AnswerInv'
  BY <1>2 DEF TypeOK, AnswerInv, CacheGet, Goto, shared, Return
<1>3. ASSUME NEW c \in Caller, Lock(c) PROVE AnswerInv'
  BY <1>3 DEF TypeOK, AnswerInv, Lock, Goto, NewFlight
<1>4. ASSUME NEW c \in Caller, Wait(c) PROVE AnswerInv'
  BY <1>4 DEF TypeOK, AnswerInv, Wait, Goto, shared, Return
<1>5. ASSUME NEW c \in Caller, Fetch(c) PROVE AnswerInv'
  BY <1>5 DEF TypeOK, AnswerInv, Fetch, Goto, shared
<1>6. ASSUME NEW c \in Caller, Publish(c) PROVE AnswerInv'
  <2>1. flight[c] = pending /\ pending \in Flight /\ result[pending] = "none"
    BY <1>6, MaxFetchesAssumption DEF TypeOK, LeaderInv, FlightInv, Leads, Publish, Flight
  <2> QED
    BY <1>6, <2>1 DEF TypeOK, AnswerInv, Publish, Goto
<1>7. ASSUME NEW c \in Caller, CloseDone(c) PROVE AnswerInv'
  BY <1>7 DEF TypeOK, AnswerInv, CloseDone, Goto
<1>8. ASSUME NEW c \in Caller, CacheSet(c) PROVE AnswerInv'
  BY <1>8 DEF TypeOK, AnswerInv, CacheSet, Goto, Return
<1>9. ASSUME NEW c \in Caller, CancelCtx(c) PROVE AnswerInv'
  BY <1>9 DEF TypeOK, AnswerInv, CancelCtx, shared
<1>10. CASE Expire
  BY <1>10 DEF TypeOK, AnswerInv, Expire
<1>11. CASE UNCHANGED vars
  BY <1>11 DEF TypeOK, AnswerInv, vars, shared
<1> QED
  BY <1>1, <1>2, <1>3, <1>4, <1>5, <1>6, <1>7, <1>8, <1>9, <1>10, <1>11 DEF Next, FetchMarkets

\* Every step keeps the cache free of errors.
LEMMA CacheStep == TypeOK /\ LeaderInv /\ FlightInv /\ AnswerInv /\ ErrorsNotCached /\ [Next]_vars => ErrorsNotCached'
<1> SUFFICES ASSUME TypeOK, LeaderInv, FlightInv, AnswerInv, ErrorsNotCached, [Next]_vars PROVE ErrorsNotCached'
  OBVIOUS
<1>1. ASSUME NEW c \in Caller, Call(c) PROVE ErrorsNotCached'
  BY <1>1 DEF TypeOK, ErrorsNotCached, Call, Goto, shared
<1>2. ASSUME NEW c \in Caller, CacheGet(c) PROVE ErrorsNotCached'
  BY <1>2 DEF TypeOK, ErrorsNotCached, CacheGet, Goto, shared, Return
<1>3. ASSUME NEW c \in Caller, Lock(c) PROVE ErrorsNotCached'
  BY <1>3 DEF TypeOK, ErrorsNotCached, Lock, Goto, NewFlight
<1>4. ASSUME NEW c \in Caller, Wait(c) PROVE ErrorsNotCached'
  BY <1>4 DEF TypeOK, ErrorsNotCached, Wait, Goto, shared, Return
<1>5. ASSUME NEW c \in Caller, Fetch(c) PROVE ErrorsNotCached'
  BY <1>5 DEF TypeOK, ErrorsNotCached, Fetch, Goto, shared
<1>6. ASSUME NEW c \in Caller, Publish(c) PROVE ErrorsNotCached'
  <2>1. flight[c] = pending /\ pending \in Flight /\ result[pending] = "none"
    BY <1>6, MaxFetchesAssumption DEF TypeOK, LeaderInv, FlightInv, Leads, Publish, Flight
  <2> QED
    BY <1>6, <2>1 DEF TypeOK, ErrorsNotCached, Publish
<1>7. ASSUME NEW c \in Caller, CloseDone(c) PROVE ErrorsNotCached'
  BY <1>7 DEF TypeOK, ErrorsNotCached, CloseDone, Goto
<1>8. ASSUME NEW c \in Caller, CacheSet(c) PROVE ErrorsNotCached'
  <2>1. result[flight[c]] = got[c]
    BY <1>8 DEF AnswerInv, CacheSet
  <2> QED
    BY <1>8, <2>1 DEF TypeOK, ErrorsNotCached, CacheSet
<1>9. ASSUME NEW c \in Caller, CancelCtx(c) PROVE ErrorsNotCached'
  BY <1>9 DEF TypeOK, ErrorsNotCached, CancelCtx, shared
<1>10. CASE Expire
  BY <1>10 DEF TypeOK, ErrorsNotCached, Expire
<1>11. CASE UNCHANGED vars
  BY <1>11 DEF TypeOK, ErrorsNotCached, vars, shared
<1> QED
  BY <1>1, <1>2, <1>3, <1>4, <1>5, <1>6, <1>7, <1>8, <1>9, <1>10, <1>11 DEF Next, FetchMarkets

\* Every step keeps every flight in someone's hands.
LEMMA LandStep == TypeOK /\ LeaderInv /\ OneFetch /\ NoAbandonedFlight /\ [Next]_vars => NoAbandonedFlight'
<1> SUFFICES ASSUME TypeOK, LeaderInv, OneFetch, NoAbandonedFlight, [Next]_vars PROVE NoAbandonedFlight'
  OBVIOUS
<1>1. ASSUME NEW c \in Caller, Call(c) PROVE NoAbandonedFlight'
  <2>1. pending' # 0 => \E d \in Caller : Leads(d)' /\ flight'[d] = pending'
    BY <1>1 DEF TypeOK, NoAbandonedFlight, Leads, Call, Goto, shared
  <2>2. ASSUME NEW w \in Caller, pc'[w] = "wait"
        PROVE  \/ flight'[w] \in closed'
               \/ \E d \in Caller : (Leads(d)' \/ pc'[d] = "close") /\ flight'[d] = flight'[w]
    BY <1>1, <2>2 DEF TypeOK, NoAbandonedFlight, Leads, Call, Goto, shared
  <2> QED
    BY <2>1, <2>2 DEF NoAbandonedFlight, Leads
<1>2. ASSUME NEW c \in Caller, CacheGet(c) PROVE NoAbandonedFlight'
  <2>1. pending' # 0 => \E d \in Caller : Leads(d)' /\ flight'[d] = pending'
    BY <1>2 DEF TypeOK, NoAbandonedFlight, Leads, CacheGet, Return, Goto, shared
  <2>2. ASSUME NEW w \in Caller, pc'[w] = "wait"
        PROVE  \/ flight'[w] \in closed'
               \/ \E d \in Caller : (Leads(d)' \/ pc'[d] = "close") /\ flight'[d] = flight'[w]
    BY <1>2, <2>2 DEF TypeOK, NoAbandonedFlight, Leads, CacheGet, Return, Goto, shared
  <2> QED
    BY <2>1, <2>2 DEF NoAbandonedFlight, Leads
<1>3. ASSUME NEW c \in Caller, Lock(c) PROVE NoAbandonedFlight'
  <2>1. pending' # 0 => \E d \in Caller : Leads(d)' /\ flight'[d] = pending'
    BY <1>3 DEF TypeOK, NoAbandonedFlight, Leads, Lock, NewFlight, Goto
  <2>2. ASSUME NEW w \in Caller, pc'[w] = "wait"
        PROVE  \/ flight'[w] \in closed'
               \/ \E d \in Caller : (Leads(d)' \/ pc'[d] = "close") /\ flight'[d] = flight'[w]
    BY <1>3, <2>2 DEF TypeOK, NoAbandonedFlight, Leads, Lock, NewFlight, Goto
  <2> QED
    BY <2>1, <2>2 DEF NoAbandonedFlight, Leads
<1>4. ASSUME NEW c \in Caller, Wait(c) PROVE NoAbandonedFlight'
  <2>1. pending' # 0 => \E d \in Caller : Leads(d)' /\ flight'[d] = pending'
    BY <1>4 DEF TypeOK, NoAbandonedFlight, Leads, Wait, Return, Goto, shared
  <2>2. ASSUME NEW w \in Caller, pc'[w] = "wait"
        PROVE  \/ flight'[w] \in closed'
               \/ \E d \in Caller : (Leads(d)' \/ pc'[d] = "close") /\ flight'[d] = flight'[w]
    BY <1>4, <2>2 DEF TypeOK, NoAbandonedFlight, Leads, Wait, Return, Goto, shared
  <2> QED
    BY <2>1, <2>2 DEF NoAbandonedFlight, Leads
<1>5. ASSUME NEW c \in Caller, Fetch(c) PROVE NoAbandonedFlight'
  <2>1. pending' # 0 => \E d \in Caller : Leads(d)' /\ flight'[d] = pending'
    BY <1>5 DEF TypeOK, NoAbandonedFlight, Leads, Fetch, Goto, shared
  <2>2. ASSUME NEW w \in Caller, pc'[w] = "wait"
        PROVE  \/ flight'[w] \in closed'
               \/ \E d \in Caller : (Leads(d)' \/ pc'[d] = "close") /\ flight'[d] = flight'[w]
    BY <1>5, <2>2 DEF TypeOK, NoAbandonedFlight, Leads, Fetch, Goto, shared
  <2> QED
    BY <2>1, <2>2 DEF NoAbandonedFlight, Leads
<1>6. ASSUME NEW c \in Caller, Publish(c) PROVE NoAbandonedFlight'
  <2>1. pending' # 0 => \E d \in Caller : Leads(d)' /\ flight'[d] = pending'
    BY <1>6 DEF TypeOK, NoAbandonedFlight, Leads, Publish, Goto, LeaderInv, OneFetch
  <2>2. ASSUME NEW w \in Caller, pc'[w] = "wait"
        PROVE  \/ flight'[w] \in closed'
               \/ \E d \in Caller : (Leads(d)' \/ pc'[d] = "close") /\ flight'[d] = flight'[w]
    BY <1>6, <2>2 DEF TypeOK, NoAbandonedFlight, Leads, Publish, Goto, LeaderInv, OneFetch
  <2> QED
    BY <2>1, <2>2 DEF NoAbandonedFlight, Leads
<1>7. ASSUME NEW c \in Caller, CloseDone(c) PROVE NoAbandonedFlight'
  <2>1. pending' # 0 => \E d \in Caller : Leads(d)' /\ flight'[d] = pending'
    BY <1>7 DEF TypeOK, NoAbandonedFlight, Leads, CloseDone, Goto
  <2>2. ASSUME NEW w \in Caller, pc'[w] = "wait"
        PROVE  \/ flight'[w] \in closed'
               \/ \E d \in Caller : (Leads(d)' \/ pc'[d] = "close") /\ flight'[d] = flight'[w]
    BY <1>7, <2>2 DEF TypeOK, NoAbandonedFlight, Leads, CloseDone, Goto
  <2> QED
    BY <2>1, <2>2 DEF NoAbandonedFlight, Leads
<1>8. ASSUME NEW c \in Caller, CacheSet(c) PROVE NoAbandonedFlight'
  <2>1. pending' # 0 => \E d \in Caller : Leads(d)' /\ flight'[d] = pending'
    BY <1>8 DEF TypeOK, NoAbandonedFlight, Leads, CacheSet, Return, Goto
  <2>2. ASSUME NEW w \in Caller, pc'[w] = "wait"
        PROVE  \/ flight'[w] \in closed'
               \/ \E d \in Caller : (Leads(d)' \/ pc'[d] = "close") /\ flight'[d] = flight'[w]
    BY <1>8, <2>2 DEF TypeOK, NoAbandonedFlight, Leads, CacheSet, Return, Goto
  <2> QED
    BY <2>1, <2>2 DEF NoAbandonedFlight, Leads
<1>9. ASSUME NEW c \in Caller, CancelCtx(c) PROVE NoAbandonedFlight'
  <2>1. pending' # 0 => \E d \in Caller : Leads(d)' /\ flight'[d] = pending'
    BY <1>9 DEF TypeOK, NoAbandonedFlight, Leads, CancelCtx, shared
  <2>2. ASSUME NEW w \in Caller, pc'[w] = "wait"
        PROVE  \/ flight'[w] \in closed'
               \/ \E d \in Caller : (Leads(d)' \/ pc'[d] = "close") /\ flight'[d] = flight'[w]
    BY <1>9, <2>2 DEF TypeOK, NoAbandonedFlight, Leads, CancelCtx, shared
  <2> QED
    BY <2>1, <2>2 DEF NoAbandonedFlight, Leads
<1>10. CASE Expire
  BY <1>10 DEF TypeOK, NoAbandonedFlight, Leads, Expire
<1>11. CASE UNCHANGED vars
  BY <1>11 DEF TypeOK, NoAbandonedFlight, Leads, vars, shared
<1> QED
  BY <1>1, <1>2, <1>3, <1>4, <1>5, <1>6, <1>7, <1>8, <1>9, <1>10, <1>11 DEF Next, FetchMarkets

\* Every step keeps the flight numbers of a valid entry and of the calls.
LEMMA FreshStep == TypeOK /\ LeaderInv /\ AnswerInv /\ FreshInv /\ [Next]_vars => FreshInv'
<1> SUFFICES ASSUME TypeOK, LeaderInv, AnswerInv, FreshInv, [Next]_vars PROVE FreshInv'
  OBVIOUS
<1>1. ASSUME NEW c \in Caller, Call(c) PROVE FreshInv'
  BY <1>1 DEF TypeOK, FreshInv, Call, Goto, shared
<1>2. ASSUME NEW c \in Caller, CacheGet(c) PROVE FreshInv'
  BY <1>2 DEF TypeOK, FreshInv, CacheGet, Goto, shared, Return
<1>3. ASSUME NEW c \in Caller, Lock(c) PROVE FreshInv'
  BY <1>3 DEF TypeOK, FreshInv, Lock, Goto, NewFlight
<1>4. ASSUME NEW c \in Caller, Wait(c) PROVE FreshInv'
  BY <1>4 DEF TypeOK, FreshInv, Wait, Goto, shared, Return
<1>5. ASSUME NEW c \in Caller, Fetch(c) PROVE FreshInv'
  BY <1>5 DEF TypeOK, FreshInv, Fetch, Goto, shared
<1>6. ASSUME NEW c \in Caller, Publish(c) PROVE FreshInv'
  BY <1>6 DEF TypeOK, FreshInv, Publish, Goto
<1>7. ASSUME NEW c \in Caller, CloseDone(c) PROVE FreshInv'
  BY <1>7 DEF TypeOK, FreshInv, CloseDone, Goto
<1>8. ASSUME NEW c \in Caller, CacheSet(c) PROVE FreshInv'
  <2>1. flight[c] # 0
    BY <1>8 DEF AnswerInv, CacheSet, Flight
  <2> QED
    BY <1>8, <2>1 DEF TypeOK, FreshInv, CacheSet
<1>9. ASSUME NEW c \in Caller, CancelCtx(c) PROVE FreshInv'
  BY <1>9 DEF TypeOK, FreshInv, CancelCtx, shared
<1>10. CASE Expire
  BY <1>10 DEF TypeOK, FreshInv, Expire
<1>11. CASE UNCHANGED vars
  BY <1>11 DEF TypeOK, FreshInv, vars, shared
<1> QED
  BY <1>1, <1>2, <1>3, <1>4, <1>5, <1>6, <1>7, <1>8, <1>9, <1>10, <1>11 DEF Next, FetchMarkets

LEMMA AskedStep == TypeOK /\ Budget /\ LeaderInv /\ FlightInv /\ AskedInv /\ [Next]_vars => AskedInv'
<1> SUFFICES ASSUME TypeOK, Budget, LeaderInv, FlightInv, AskedInv, [Next]_vars PROVE AskedInv'
  OBVIOUS
<1>1. ASSUME NEW c \in Caller, Call(c) PROVE AskedInv'
  BY <1>1 DEF TypeOK, AskedInv, Call, Goto, shared
<1>2. ASSUME NEW c \in Caller, CacheGet(c) PROVE AskedInv'
  BY <1>2 DEF TypeOK, AskedInv, CacheGet, Goto, shared, Return
<1>3. ASSUME NEW c \in Caller, Lock(c) PROVE AskedInv'
  <2>1. started + 1 \in Flight
    BY <1>3, LockBudget
  <2> QED
    BY <1>3, <2>1, MaxFetchesAssumption DEF TypeOK, AskedInv, FlightInv, Flight, Lock, Goto, NewFlight
<1>4. ASSUME NEW c \in Caller, Wait(c) PROVE AskedInv'
  BY <1>4 DEF TypeOK, AskedInv, Wait, Goto, shared, Return
<1>5. ASSUME NEW c \in Caller, Fetch(c) PROVE AskedInv'
  BY <1>5 DEF TypeOK, AskedInv, Fetch, Goto, shared
<1>6. ASSUME NEW c \in Caller, Publish(c) PROVE AskedInv'
  <2>1. pending \in {0, started} /\ flight[c] = pending
    BY <1>6 DEF FlightInv, LeaderInv, Leads, Publish
  <2> QED
    BY <1>6, <2>1, MaxFetchesAssumption DEF TypeOK, AskedInv, Publish, Goto, Flight
<1>7. ASSUME NEW c \in Caller, CloseDone(c) PROVE AskedInv'
  BY <1>7 DEF TypeOK, AskedInv, CloseDone, Goto
<1>8. ASSUME NEW c \in Caller, CacheSet(c) PROVE AskedInv'
  BY <1>8 DEF TypeOK, AskedInv, CacheSet, Goto, Return
<1>9. ASSUME NEW c \in Caller, CancelCtx(c) PROVE AskedInv'
  BY <1>9 DEF TypeOK, AskedInv, CancelCtx, shared
<1>10. CASE Expire
  BY <1>10 DEF TypeOK, AskedInv, Expire
<1>11. CASE UNCHANGED vars
  BY <1>11 DEF TypeOK, AskedInv, vars, shared
<1> QED
  BY <1>1, <1>2, <1>3, <1>4, <1>5, <1>6, <1>7, <1>8, <1>9, <1>10, <1>11 DEF Next, FetchMarkets

----------------------------------------------------------------------------
(* The theorems. *)

IInv ==
    /\ TypeOK /\ Budget /\ LeaderInv /\ OneFetch /\ FlightInv /\ AnswerInv
    /\ ErrorsNotCached /\ NoAbandonedFlight /\ FreshInv /\ AskedInv

\* The parts hold at the start ...
LEMMA InitInv == Init => IInv
<1> SUFFICES ASSUME Init PROVE IInv
  OBVIOUS
<1>1. Undecided = {}
  BY DEF Init, Undecided
<1>2. Budget
  BY <1>1, FS_EmptySet, MaxFetchesAssumption DEF Init, Budget
<1>3. TypeOK
  <2>1. 0 \in 0..MaxFetches
    BY MaxFetchesAssumption
  <2>2. cache \in 0..MaxFetches /\ pending \in 0..MaxFetches /\ started \in 0..MaxFetches
        /\ flight \in [Caller -> 0..MaxFetches]
    BY <2>1 DEF Init
  <2>3. fresh \in BOOLEAN /\ done \in [Caller -> BOOLEAN]
    BY DEF Init
  <2>4. pc \in [Caller -> Where] /\ got \in [Caller -> {"none", "ok", "error"}]
    BY DEF Init, Where
  <2>5. result \in [Flight -> {"none", "ok", "error"}] /\ closed = {}
    BY DEF Init
  <2>6. asked \in [Caller -> 0..MaxFetches] /\ told \in [Caller -> Answer]
    BY <2>1 DEF Init, Answer, NoAnswer
  <2> QED
    BY <2>2, <2>3, <2>4, <2>5, <2>6 DEF TypeOK
<1>4. LeaderInv /\ OneFetch /\ FlightInv /\ AnswerInv /\ ErrorsNotCached /\ NoAbandonedFlight
      /\ FreshInv /\ AskedInv
  BY DEF Init, FreshInv, AskedInv, LeaderInv, OneFetch, FlightInv, AnswerInv, ErrorsNotCached, NoAbandonedFlight, Leads
<1> QED
  BY <1>2, <1>3, <1>4 DEF IInv

\* ... and carry each other over a step.
LEMMA StepInv == IInv /\ [Next]_vars => IInv'
  BY BudgetStep, TypeStep, LeaderStep, FlightStep, AnswerStep, CacheStep, LandStep, FreshStep, AskedStep DEF IInv

\* Every variable keeps its type; flights are only closed with a result (cache.go:107-112).
THEOREM MarketCacheTypes == Spec => []TypeOK
<1>1. IInv => TypeOK
  BY DEF IInv
<1> QED
  BY <1>1, InitInv, StepInv, PTL DEF Spec

\* At most one goroutine asks the upstream of a source (cache.go:89-103).
THEOREM OneFetchAtATime == Spec => []OneFetch
<1>1. IInv => OneFetch
  BY DEF IInv
<1> QED
  BY <1>1, InitInv, StepInv, PTL DEF Spec

\* No waiter is left with a flight that nobody will land (cache.go:91-112).
THEOREM FlightsLand == Spec => []NoAbandonedFlight
<1>1. IInv => NoAbandonedFlight
  BY DEF IInv
<1> QED
  BY <1>1, InitInv, StepInv, PTL DEF Spec

----------------------------------------------------------------------------
(* Refinement. *)

\* A flight that has answered answers a caller as MarketReads does.
LEMMA FlightTells ==
    ASSUME TypeOK, NEW c \in Caller, NEW n \in Flight, asked[c] # 0, asked[c] <= n,
           result[n] # "none", Return(c, OfFlight(n, result[n])),
           UNCHANGED <<pending, started, result>>
    PROVE  Reads!Markets(c) \/ Reads!Error(c)
<1>1. CASE result[n] = "ok"
  BY <1>1 DEF Return, OfFlight, Flight, Reads!Markets, Reads!Tell, Reads!UpstreamCall
<1>2. CASE result[n] = "error"
  BY <1>2, MaxFetchesAssumption
     DEF TypeOK, Return, OfFlight, Flight, Reads!Error, Reads!Tell, Reads!UpstreamCall
<1> QED
  BY <1>1, <1>2 DEF TypeOK

\* Every step of the cache is a step of MarketReads or hidden from it.
LEMMA ReadsStep == IInv /\ [Next]_vars => [Reads!Next]_(Reads!vars)
<1> SUFFICES ASSUME IInv, [Next]_vars PROVE Reads!Next \/ UNCHANGED Reads!vars
  OBVIOUS
<1> USE DEF IInv
<1>1. ASSUME NEW c \in Caller, Call(c) PROVE Reads!Next
  BY <1>1 DEF AskedInv, Call, shared, NoAnswer, Reads!Next, Reads!Ask
<1>2. ASSUME NEW c \in Caller, CacheGet(c) PROVE Reads!Next \/ UNCHANGED Reads!vars
  <2>1. CASE fresh /\ Return(c, OfFlight(cache, "ok"))
    <3>1. cache \in Flight /\ result[cache] = "ok"
      BY <2>1, MaxFetchesAssumption DEF TypeOK, FreshInv, ErrorsNotCached, Flight
    <3>2. asked[c] # 0
      BY <1>2 DEF AskedInv, CacheGet
    <3>3. Reads!Markets(c)
      BY <1>2, <2>1, <3>1, <3>2
         DEF CacheGet, Return, OfFlight, shared, Flight,
             Reads!Markets, Reads!Tell, Reads!UpstreamCall
    <3> QED
      BY <3>3 DEF Reads!Next
  <2>2. CASE ~(fresh /\ Return(c, OfFlight(cache, "ok")))
    BY <1>2, <2>2 DEF CacheGet, shared, Reads!vars
  <2> QED
    BY <2>1, <2>2
<1>3. ASSUME NEW c \in Caller, Lock(c) PROVE Reads!Next \/ UNCHANGED Reads!vars
  <2>1. started + 1 \in Flight
    BY <1>3, LockBudget
  <2>2. CASE pending # 0
    BY <1>3, <2>2 DEF Lock, Reads!vars
  <2>3. CASE pending = 0
    <3>1. asked[c] # 0
      BY <1>3 DEF AskedInv, Lock
    <3>2. started < MaxFetches
      BY <2>1, MaxFetchesAssumption DEF TypeOK, Flight
    <3>3. Reads!Begin
      BY <1>3, <2>3, <3>1, <3>2 DEF Lock, NewFlight, Reads!Begin
    <3> QED
      BY <3>3 DEF Reads!Next
  <2> QED
    BY <2>2, <2>3
<1>4. ASSUME NEW c \in Caller, Wait(c) PROVE Reads!Next
  <2>1. asked[c] # 0 /\ flight[c] \in Flight /\ asked[c] <= flight[c]
    BY <1>4 DEF AskedInv, Wait
  <2>2. CASE flight[c] \in closed /\ Return(c, OfFlight(flight[c], result[flight[c]]))
    <3>1. Reads!Markets(c) \/ Reads!Error(c)
      BY <1>4, <2>1, <2>2, FlightTells DEF TypeOK, Wait, shared
    <3> QED
      BY <3>1 DEF Reads!Next
  <2>3. CASE Return(c, [says |-> "ended", flight |-> 0])
    <3>1. Reads!GivesUp(c)
      BY <1>4, <2>1, <2>3 DEF Wait, Return, shared, Reads!GivesUp, Reads!Tell
    <3> QED
      BY <3>1 DEF Reads!Next
  <2> QED
    BY <1>4, <2>2, <2>3 DEF Wait
<1>5. ASSUME NEW c \in Caller, Fetch(c) PROVE UNCHANGED Reads!vars
  BY <1>5 DEF Fetch, shared, Reads!vars
<1>6. ASSUME NEW c \in Caller, Publish(c) PROVE Reads!Next
  <2>1. flight[c] = pending /\ pending # 0 /\ got[c] \in {"ok", "error"}
    BY <1>6 DEF TypeOK, LeaderInv, AnswerInv, Leads, Publish
  <2>2. Reads!End
    BY <1>6, <2>1 DEF Publish, Reads!End
  <2> QED
    BY <2>2 DEF Reads!Next
<1>7. ASSUME NEW c \in Caller, CloseDone(c) PROVE UNCHANGED Reads!vars
  BY <1>7 DEF CloseDone, Reads!vars
<1>8. ASSUME NEW c \in Caller, CacheSet(c) PROVE Reads!Next
  <2>1. asked[c] # 0 /\ flight[c] \in Flight /\ asked[c] <= flight[c]
    BY <1>8 DEF AskedInv, CacheSet
  <2>2. result[flight[c]] = got[c] /\ got[c] # "none"
    BY <1>8 DEF AnswerInv, CacheSet
  <2>3. Reads!Markets(c) \/ Reads!Error(c)
    BY <1>8, <2>1, <2>2, FlightTells DEF CacheSet
  <2> QED
    BY <2>3 DEF Reads!Next
<1>9. ASSUME NEW c \in Caller, CancelCtx(c) PROVE UNCHANGED Reads!vars
  BY <1>9 DEF CancelCtx, shared, Reads!vars
<1>10. CASE Expire
  BY <1>10 DEF Expire, Reads!vars
<1>11. CASE UNCHANGED vars
  BY <1>11 DEF vars, shared, Reads!vars
<1> QED
  BY <1>1, <1>2, <1>3, <1>4, <1>5, <1>6, <1>7, <1>8, <1>9, <1>10, <1>11 DEF Next, FetchMarkets

\* The cache, the lock and the flights of CachedSource.FetchMarkets (cache.go:80-119)
\* implement MarketReads: calls of the upstream do not overlap, markets come from a
\* call that ended well, and an error is told to nobody who asked after it.
THEOREM CacheServesReads == Spec => ServesReads
<1>1. Init => Reads!Init
  BY DEF Init, NoAnswer, Flight, Reads!Init, Reads!UpstreamCall
<1> QED
  BY <1>1, ReadsStep, InitInv, StepInv, PTL DEF Spec, ServesReads, Reads!Spec
=============================================================================
