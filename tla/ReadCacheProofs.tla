-------------------------- MODULE ReadCacheProofs --------------------------
(***************************************************************************)
(* Proofs about ReadCache, for any callers, TTL, timeout and time bound:   *)
(* its types, how old an answer may be, and that a refresh is not undone.  *)
(***************************************************************************)
EXTENDS ReadCache, TLAPS

----------------------------------------------------------------------------
(* The inductive invariant. *)

\* A call that has not fetched yet has read nothing.
NothingRead ==
    \A c \in Caller : pc[c] \in {"idle", "get"} => got[c] = Nothing /\ asked[c] = {}

\* No call lasts longer than Timeout.
InTime ==
    \A c \in Caller : pc[c] # "idle" => began[c] <= now /\ now <= began[c] + Timeout

\* What a call fetches was answered after it began.
ReadSince ==
    \A c \in Caller : pc[c] \in {"fetch", "set"} =>
        \A q \in Query : got[c][q] # 0 => got[c][q] >= began[c]

\* An entry expires TTL after a call that took no longer than Timeout.
ExpiresInTime ==
    entry.expires # 0 =>
        \A q \in Query : entry.value[q] # 0 => entry.expires <= entry.value[q] + TTL + Timeout

\* Whoever was not yet fetching when a refresh was written reads what is newer.
ReadSinceRefresh ==
    /\ shown <= now
    /\ \A c \in Caller : pc[c] \in {"fetch", "set"} /\ c \notin late =>
        \A q \in Query : got[c][q] # 0 => got[c][q] >= shown

EntrySinceRefresh ==
    ~entry.late => \A q \in Query : entry.value[q] # 0 => entry.value[q] >= shown

Ages == InTime /\ ReadSince /\ ExpiresInTime /\ BoundedStaleness

Refreshes == ReadSinceRefresh /\ EntrySinceRefresh

IInv == TypeOK /\ NothingRead /\ Ages /\ Refreshes

----------------------------------------------------------------------------
LEMMA NothingType == Nothing \in Value
BY DEF Nothing, Value

LEMMA InitInv == Init => IInv
<1>1. ASSUME Init PROVE IInv
  <2>1. 1 \in Time /\ now = 1
    BY <1>1, TimesAssumption DEF Init, Time
  <2>2. entry \in Entry /\ entry.expires = 0 /\ entry.value = Nothing
    BY <1>1, NothingType, TimesAssumption DEF Init, Entry
  <2>3. TypeOK
    BY <1>1, <2>1, <2>2, NothingType, TimesAssumption DEF Init, TypeOK
  <2>4. NothingRead /\ Ages
    BY <1>1, <2>2, TimesAssumption DEF Init, NothingRead, Ages, InTime, ReadSince, ExpiresInTime,
       BoundedStaleness
  <2>5. Refreshes
    BY <1>1, <2>1, <2>2 DEF Init, Refreshes, ReadSinceRefresh, EntrySinceRefresh, Nothing
  <2>6. QED
    BY <2>3, <2>4, <2>5 DEF IInv
<1>2. QED
  BY <1>1

\* c goes on; nobody else does.
LEMMA GotoType ==
    ASSUME TypeOK, NEW c \in Caller, NEW l, Goto(c, l)
    PROVE  pc'[c] = l /\ \A d \in Caller \ {c} : pc'[d] = pc[d]
BY DEF TypeOK, Goto

LEMMA CallStep ==
    ASSUME IInv, NEW c \in Caller, Call(c)
    PROVE  IInv'
<1>1. /\ pc[c] = "idle" /\ began' = [began EXCEPT ![c] = now]
      /\ UNCHANGED <<kind, now, entry, asked, got, shown, late>>
  BY DEF Call
<1>2. PICK r \in BOOLEAN :
        refresh' = [refresh EXCEPT ![c] = r] /\ Goto(c, IF r THEN "fetch" ELSE "get")
  BY DEF Call
<1>3. /\ pc'[c] \in {"get", "fetch"} /\ \A d \in Caller \ {c} : pc'[d] = pc[d]
      /\ pc' \in [Caller -> {"idle", "get", "fetch", "set", "reply"}]
  BY <1>2 DEF Goto, IInv, TypeOK
<1>4. /\ began'[c] = now /\ \A d \in Caller \ {c} : began'[d] = began[d]
      /\ got[c] = Nothing /\ asked[c] = {} /\ now \in Nat
  BY <1>1 DEF IInv, TypeOK, NothingRead, Time
<1>5. TypeOK'
  BY <1>1, <1>2, <1>3 DEF IInv, TypeOK, Usable
<1>6. NothingRead'
  BY <1>1, <1>3, <1>4 DEF IInv, NothingRead
<1>7. Ages'
  <2>1. InTime'
    BY <1>1, <1>3, <1>4, TimesAssumption DEF IInv, Ages, InTime
  <2>2. ReadSince'
    BY <1>1, <1>3, <1>4 DEF IInv, Ages, ReadSince, Nothing
  <2>3. ExpiresInTime' /\ BoundedStaleness'
    BY <1>1, <1>3 DEF IInv, Ages, ExpiresInTime, BoundedStaleness
  <2>4. QED
    BY <2>1, <2>2, <2>3 DEF Ages
<1>8. Refreshes'
  BY <1>1, <1>3, <1>4 DEF IInv, Refreshes, ReadSinceRefresh, EntrySinceRefresh, Nothing
<1>9. QED
  BY <1>5, <1>6, <1>7, <1>8 DEF IInv

LEMMA HitStep ==
    ASSUME IInv, NEW c \in Caller, Hit(c)
    PROVE  IInv'
<1>1. /\ now <= entry.expires /\ got' = [got EXCEPT ![c] = entry.value] /\ Goto(c, "reply")
      /\ UNCHANGED <<kind, now, entry, refresh, began, asked, shown, late>> /\ pc[c] = "get"
  BY DEF Hit
<1>2. pc'[c] = "reply" /\ \A d \in Caller \ {c} : pc'[d] = pc[d]
  BY <1>1, GotoType DEF IInv
<1>3. /\ got'[c] = entry.value /\ \A d \in Caller \ {c} : got'[d] = got[d]
      /\ got' \in [Caller -> Value] /\ entry.value \in Value /\ now \in Nat \ {0}
      /\ entry.expires \in Nat
  BY <1>1, TimesAssumption DEF IInv, TypeOK, Entry, Time
<1>4. entry.expires # 0 /\ Usable(entry.value)
  BY <1>1, <1>3 DEF IInv, TypeOK
<1>5. TypeOK'
  <2>1. pc' \in [Caller -> {"idle", "get", "fetch", "set", "reply"}]
    BY <1>1 DEF Goto, IInv, TypeOK
  <2>2. \A d \in Caller : pc'[d] \in {"set", "reply"} => Usable(got[d])'
    <3>1. Usable(got[c])'
      BY <1>1, <1>3, <1>4 DEF Usable
    <3>2. QED
      BY <1>1, <1>2, <1>3, <3>1 DEF IInv, TypeOK, Usable
  <2>3. QED
    BY <1>1, <1>3, <2>1, <2>2 DEF IInv, TypeOK, Usable
<1>6. NothingRead'
  BY <1>1, <1>2, <1>3 DEF IInv, NothingRead
<1>7. Ages'
  <2>1. InTime' /\ ReadSince' /\ ExpiresInTime'
    BY <1>1, <1>2, <1>3 DEF IInv, Ages, InTime, ReadSince, ExpiresInTime
  <2>2. \A q \in Query : entry.value[q] # 0 => entry.value[q] + TTL + Timeout >= now
    <3>1. ASSUME NEW q \in Query, entry.value[q] # 0
          PROVE  entry.value[q] + TTL + Timeout >= now
      <4>1. entry.value[q] \in Nat /\ entry.expires <= entry.value[q] + TTL + Timeout
        BY <1>3, <1>4, <3>1 DEF IInv, Ages, ExpiresInTime, Value, Time
      <4>2. QED
        BY <1>1, <1>3, <4>1, TimesAssumption
    <3>2. QED
      BY <3>1
  <2>3. BoundedStaleness'
    BY <1>1, <1>2, <1>3, <2>2 DEF IInv, Ages, BoundedStaleness
  <2>4. QED
    BY <2>1, <2>3 DEF Ages
<1>8. Refreshes'
  BY <1>1, <1>2, <1>3 DEF IInv, Refreshes, ReadSinceRefresh, EntrySinceRefresh
<1>9. QED
  BY <1>5, <1>6, <1>7, <1>8 DEF IInv

LEMMA AnswerStep ==
    ASSUME IInv, NEW c \in Caller, NEW q \in Query, Answer(c, q)
    PROVE  IInv'
<1>1. /\ pc[c] = "fetch" /\ asked' = [asked EXCEPT ![c] = @ \cup {q}]
      /\ UNCHANGED <<kind, now, entry, pc, refresh, began, shown, late>>
  BY DEF Answer
<1>2. PICK t \in {0, now} : got' = [got EXCEPT ![c][q] = t]
  BY DEF Answer
<1>3. /\ got'[c] = [got[c] EXCEPT ![q] = t] /\ \A d \in Caller \ {c} : got'[d] = got[d]
      /\ got[c] \in Value /\ now \in Time
  BY <1>2 DEF IInv, TypeOK
<1>4. /\ got'[c] \in Value /\ got'[c][q] = t
      /\ \A p \in Query \ {q} : got'[c][p] = got[c][p]
  BY <1>3 DEF Value
<1>5. TypeOK'
  <2>1. got' \in [Caller -> Value]
    BY <1>2, <1>3, <1>4 DEF IInv, TypeOK
  <2>2. asked' \in [Caller -> SUBSET Query]
    BY <1>1 DEF IInv, TypeOK
  <2>3. \A d \in Caller : pc'[d] \in {"set", "reply"} => Usable(got[d])'
    BY <1>1, <1>3 DEF IInv, TypeOK, Usable
  <2>4. QED
    BY <1>1, <2>1, <2>2, <2>3 DEF IInv, TypeOK, Usable
<1>6. NothingRead'
  <2>1. \A d \in Caller \ {c} : asked'[d] = asked[d]
    BY <1>1 DEF IInv, TypeOK
  <2>2. QED
    BY <1>1, <1>3, <2>1 DEF IInv, NothingRead
<1>7. began[c] <= now /\ shown <= now
  BY <1>1 DEF IInv, Ages, InTime, Refreshes, ReadSinceRefresh
<1>8. Ages'
  <2>1. InTime' /\ ExpiresInTime' /\ BoundedStaleness'
    BY <1>1, <1>3 DEF IInv, Ages, InTime, ExpiresInTime, BoundedStaleness
  <2>2. \A p \in Query : got'[c][p] # 0 => got'[c][p] >= began[c]
    BY <1>1, <1>4, <1>7 DEF IInv, Ages, ReadSince
  <2>3. ReadSince'
    BY <1>1, <1>3, <2>2 DEF IInv, Ages, ReadSince
  <2>4. QED
    BY <2>1, <2>3 DEF Ages
<1>9. Refreshes'
  <2>1. c \notin late => \A p \in Query : got'[c][p] # 0 => got'[c][p] >= shown
    BY <1>1, <1>4, <1>7 DEF IInv, Refreshes, ReadSinceRefresh
  <2>2. QED
    BY <1>1, <1>3, <2>1 DEF IInv, Refreshes, ReadSinceRefresh, EntrySinceRefresh
<1>10. QED
  BY <1>5, <1>6, <1>8, <1>9 DEF IInv

LEMMA MissStep ==
    ASSUME IInv, NEW c \in Caller, Miss(c)
    PROVE  IInv'
<1>1. /\ pc[c] = "get" /\ Goto(c, "fetch")
      /\ UNCHANGED <<kind, now, entry, refresh, began, asked, got, shown, late>>
  BY DEF Miss
<1>2. pc'[c] = "fetch" /\ \A d \in Caller \ {c} : pc'[d] = pc[d]
  BY <1>1, GotoType DEF IInv
<1>3. got[c] = Nothing
  BY <1>1 DEF IInv, NothingRead
<1>4. TypeOK'
  <2>1. pc' \in [Caller -> {"idle", "get", "fetch", "set", "reply"}]
    BY <1>1 DEF Goto, IInv, TypeOK
  <2>2. QED
    BY <1>1, <1>2, <2>1 DEF IInv, TypeOK, Usable
<1>5. NothingRead'
  BY <1>1, <1>2 DEF IInv, NothingRead
<1>6. Ages'
  BY <1>1, <1>2, <1>3 DEF IInv, Ages, InTime, ReadSince, ExpiresInTime, BoundedStaleness, Nothing
<1>7. Refreshes'
  BY <1>1, <1>2, <1>3 DEF IInv, Refreshes, ReadSinceRefresh, EntrySinceRefresh, Nothing
<1>8. QED
  BY <1>4, <1>5, <1>6, <1>7 DEF IInv

LEMMA FetchedStep ==
    ASSUME IInv, NEW c \in Caller, Fetched(c)
    PROVE  IInv'
<1>1. /\ pc[c] = "fetch" /\ Usable(got[c]) /\ Goto(c, "set")
      /\ UNCHANGED <<kind, now, entry, refresh, began, asked, got, shown, late>>
  BY DEF Fetched
<1>2. pc'[c] = "set" /\ \A d \in Caller \ {c} : pc'[d] = pc[d]
  BY <1>1, GotoType DEF IInv
<1>3. TypeOK'
  <2>1. pc' \in [Caller -> {"idle", "get", "fetch", "set", "reply"}]
    BY <1>1 DEF Goto, IInv, TypeOK
  <2>2. QED
    BY <1>1, <1>2, <2>1 DEF IInv, TypeOK, Usable
<1>4. NothingRead'
  BY <1>1, <1>2 DEF IInv, NothingRead
<1>5. Ages'
  BY <1>1, <1>2 DEF IInv, Ages, InTime, ReadSince, ExpiresInTime, BoundedStaleness
<1>6. Refreshes'
  BY <1>1, <1>2 DEF IInv, Refreshes, ReadSinceRefresh, EntrySinceRefresh
<1>7. QED
  BY <1>3, <1>4, <1>5, <1>6 DEF IInv

\* A call that ends takes what it has read with it.
LEMMA ReturnStep ==
    ASSUME IInv, NEW c \in Caller, Return(c), UNCHANGED <<kind, now, entry, shown>>
    PROVE  IInv'
<1>1. pc'[c] = "idle" /\ \A d \in Caller \ {c} : pc'[d] = pc[d]
  BY GotoType DEF IInv, Return
<1>2. \A d \in Caller \ {c} :
        got'[d] = got[d] /\ asked'[d] = asked[d] /\ began'[d] = began[d]
  BY DEF Return, IInv, TypeOK
<1>3. got'[c] = Nothing /\ asked'[c] = {}
  BY DEF Return, IInv, TypeOK
<1>4. TypeOK'
  <2>1. /\ pc' \in [Caller -> {"idle", "get", "fetch", "set", "reply"}]
        /\ refresh' \in [Caller -> BOOLEAN] /\ asked' \in [Caller -> SUBSET Query]
        /\ late' \subseteq Caller
    BY DEF Return, Goto, IInv, TypeOK
  <2>2. began' \in [Caller -> Time]
    <3>1. 1 \in Time
      BY TimesAssumption DEF Time
    <3>2. QED
      BY <3>1 DEF Return, IInv, TypeOK
  <2>3. got' \in [Caller -> Value]
    BY NothingType DEF Return, IInv, TypeOK
  <2>4. QED
    BY <1>1, <1>2, <2>1, <2>2, <2>3 DEF IInv, TypeOK, Usable
<1>5. NothingRead'
  BY <1>1, <1>2, <1>3 DEF IInv, NothingRead
<1>6. Ages'
  BY <1>1, <1>2 DEF IInv, Ages, InTime, ReadSince, ExpiresInTime, BoundedStaleness
<1>7. Refreshes'
  <2>1. late' = late \ {c}
    BY DEF Return
  <2>2. QED
    BY <1>1, <1>2, <2>1 DEF IInv, Refreshes, ReadSinceRefresh, EntrySinceRefresh
<1>8. QED
  BY <1>4, <1>5, <1>6, <1>7 DEF IInv

LEMMA SetStep ==
    ASSUME IInv, NEW c \in Caller, Set(c)
    PROVE  IInv'
<1>1. /\ pc[c] = "set" /\ Goto(c, "reply")
      /\ entry' = [value |-> got[c], expires |-> now + TTL, late |-> c \in late]
      /\ UNCHANGED <<kind, now, refresh, began, asked, got>>
  BY DEF Set
<1>2. pc'[c] = "reply" /\ \A d \in Caller \ {c} : pc'[d] = pc[d]
  BY <1>1, GotoType DEF IInv
<1>3. /\ now \in Nat /\ now <= MaxTime /\ began[c] \in Nat /\ shown \in Nat /\ got[c] \in Value
      /\ \A q \in Query : got[c][q] \in Nat
  BY DEF IInv, TypeOK, Time, Value
<1>4. /\ began[c] <= now /\ now <= began[c] + Timeout
      /\ \A q \in Query : got[c][q] # 0 => got[c][q] >= began[c]
  BY <1>1 DEF IInv, Ages, InTime, ReadSince
<1>5. \/ /\ shown' = IF began[c] > shown THEN began[c] ELSE shown
         /\ late' = {d \in Caller \ {c} : pc[d] \in {"fetch", "set"}}
      \/ UNCHANGED <<shown, late>>
  BY DEF Set
<1>6. TypeOK'
  <2>1. pc' \in [Caller -> {"idle", "get", "fetch", "set", "reply"}]
    BY <1>1 DEF Goto, IInv, TypeOK
  <2>2. entry' \in Entry /\ entry'.value = got[c]
    BY <1>1, <1>3, TimesAssumption DEF Entry
  <2>3. Usable(got[c]) /\ kind' = kind
    BY <1>1 DEF IInv, TypeOK
  <2>4. shown' \in 0..MaxTime /\ late' \subseteq Caller
    <3>1. shown \in 0..MaxTime /\ late \subseteq Caller /\ began[c] \in 0..MaxTime
      BY <1>3, <1>4, TimesAssumption DEF IInv, TypeOK
    <3>2. QED
      BY <1>5, <3>1
  <2>5. Usable(entry.value)'
    <3>1. Usable(entry'.value) <=> Usable(got[c])
      BY <2>2
    <3>2. Usable(entry.value)' <=> Usable(entry'.value)
      BY <1>1 DEF Usable
    <3>3. QED
      BY <2>3, <3>1, <3>2
  <2>6. \A d \in Caller : pc'[d] \in {"set", "reply"} => Usable(got[d])'
    <3>1. \A d \in Caller : pc[d] \in {"set", "reply"} => Usable(got[d])
      BY DEF IInv, TypeOK
    <3>2. \A d \in Caller : Usable(got[d])' <=> Usable(got[d])
      BY <1>1 DEF Usable
    <3>3. QED
      BY <1>1, <1>2, <3>1, <3>2
  <2>7. QED
    BY <1>1, <2>1, <2>2, <2>4, <2>5, <2>6 DEF IInv, TypeOK
<1>7. NothingRead'
  BY <1>1, <1>2 DEF IInv, NothingRead
<1>8. Ages'
  <2>1. InTime' /\ ReadSince'
    BY <1>1, <1>2 DEF IInv, Ages, InTime, ReadSince
  <2>2. ExpiresInTime'
    BY <1>1, <1>3, <1>4, TimesAssumption DEF ExpiresInTime
  <2>3. \A q \in Query : got[c][q] # 0 => got[c][q] + TTL + Timeout >= now
    BY <1>3, <1>4, TimesAssumption
  <2>4. BoundedStaleness'
    BY <1>1, <1>2, <2>3 DEF IInv, Ages, BoundedStaleness
  <2>5. QED
    BY <2>1, <2>2, <2>4 DEF Ages
<1>9. Refreshes'
  <2>1. c \notin late => \A q \in Query : got[c][q] # 0 => got[c][q] >= shown
    BY <1>1 DEF IInv, Refreshes, ReadSinceRefresh
  <2>2. EntrySinceRefresh'
    BY <1>1, <1>3, <1>4, <1>5, <2>1 DEF EntrySinceRefresh
  <2>3. shown' <= now'
    BY <1>1, <1>3, <1>4, <1>5 DEF IInv, Refreshes, ReadSinceRefresh
  <2>4. ASSUME NEW d \in Caller, pc'[d] \in {"fetch", "set"}, d \notin late',
               NEW q \in Query, got'[d][q] # 0
        PROVE  got'[d][q] >= shown'
    <3>1. d # c /\ pc[d] = pc'[d] /\ got'[d] = got[d]
      BY <1>1, <1>2, <2>4
    <3>2. shown' = shown /\ late' = late
      BY <1>5, <2>4, <3>1
    <3>3. QED
      BY <2>4, <3>1, <3>2 DEF IInv, Refreshes, ReadSinceRefresh
  <2>5. QED
    BY <2>2, <2>3, <2>4 DEF Refreshes, ReadSinceRefresh
<1>10. QED
  BY <1>6, <1>7, <1>8, <1>9 DEF IInv

LEMMA SetFailsStep ==
    ASSUME IInv, NEW c \in Caller, SetFails(c)
    PROVE  IInv'
<1>1. /\ pc[c] = "set" /\ Goto(c, "reply")
      /\ UNCHANGED <<kind, now, entry, refresh, began, asked, got, shown, late>>
  BY DEF SetFails
<1>2. pc'[c] = "reply" /\ \A d \in Caller \ {c} : pc'[d] = pc[d]
  BY <1>1, GotoType DEF IInv
<1>3. TypeOK'
  <2>1. pc' \in [Caller -> {"idle", "get", "fetch", "set", "reply"}]
    BY <1>1 DEF Goto, IInv, TypeOK
  <2>2. QED
    BY <1>1, <1>2, <2>1 DEF IInv, TypeOK, Usable
<1>4. NothingRead'
  BY <1>1, <1>2 DEF IInv, NothingRead
<1>5. Ages'
  <2>1. InTime' /\ ReadSince' /\ ExpiresInTime'
    BY <1>1, <1>2 DEF IInv, Ages, InTime, ReadSince, ExpiresInTime
  <2>2. ASSUME NEW q \in Query, got[c][q] # 0
        PROVE  got[c][q] + TTL + Timeout >= now
    <3>1. got[c][q] \in Nat /\ began[c] \in Nat /\ now \in Nat
      BY DEF IInv, TypeOK, Value, Time
    <3>2. now <= began[c] + Timeout /\ got[c][q] >= began[c]
      BY <1>1, <2>2 DEF IInv, Ages, InTime, ReadSince
    <3>3. QED
      BY <3>1, <3>2, TimesAssumption
  <2>3. BoundedStaleness'
    BY <1>1, <1>2, <2>2 DEF IInv, Ages, BoundedStaleness
  <2>4. QED
    BY <2>1, <2>3 DEF Ages
<1>6. Refreshes'
  BY <1>1, <1>2 DEF IInv, Refreshes, ReadSinceRefresh, EntrySinceRefresh
<1>7. QED
  BY <1>3, <1>4, <1>5, <1>6 DEF IInv

LEMMA TickStep ==
    ASSUME IInv, Tick
    PROVE  IInv'
<1>1. /\ now < MaxTime /\ now' = now + 1
      /\ \A c \in Caller : pc[c] # "reply" /\ (pc[c] # "idle" => now < began[c] + Timeout)
      /\ UNCHANGED <<kind, entry, pc, refresh, began, asked, got, shown, late>>
  BY DEF Tick
<1>2. now \in Nat /\ shown \in Nat /\ \A c \in Caller : began[c] \in Nat
  BY DEF IInv, TypeOK, Time
<1>3. TypeOK'
  <2>1. now' \in Time
    BY <1>1, TimesAssumption DEF IInv, TypeOK, Time
  <2>2. QED
    BY <1>1, <2>1 DEF IInv, TypeOK, Usable
<1>4. NothingRead'
  BY <1>1 DEF IInv, NothingRead
<1>5. Ages'
  <2>1. InTime'
    BY <1>1, <1>2, TimesAssumption DEF IInv, Ages, InTime
  <2>2. ReadSince' /\ ExpiresInTime' /\ BoundedStaleness'
    BY <1>1 DEF IInv, Ages, ReadSince, ExpiresInTime, BoundedStaleness
  <2>3. QED
    BY <2>1, <2>2 DEF Ages
<1>6. Refreshes'
  BY <1>1, <1>2 DEF IInv, Refreshes, ReadSinceRefresh, EntrySinceRefresh
<1>7. QED
  BY <1>3, <1>4, <1>5, <1>6 DEF IInv

LEMMA NextInv == IInv /\ [Next]_vars => IInv'
<1>1. ASSUME IInv, Next PROVE IInv'
  <2>1. ASSUME NEW c \in Caller, Call(c) PROVE IInv'
    BY <1>1, <2>1, CallStep
  <2>2. ASSUME NEW c \in Caller, Hit(c) PROVE IInv'
    BY <1>1, <2>2, HitStep
  <2>3. ASSUME NEW c \in Caller, Miss(c) PROVE IInv'
    BY <1>1, <2>3, MissStep
  <2>4. ASSUME NEW c \in Caller, NEW q \in Query, Answer(c, q) PROVE IInv'
    BY <1>1, <2>4, AnswerStep
  <2>5. ASSUME NEW c \in Caller, Fetched(c) PROVE IInv'
    BY <1>1, <2>5, FetchedStep
  <2>6. ASSUME NEW c \in Caller, FetchFails(c) PROVE IInv'
    BY <1>1, <2>6, ReturnStep DEF FetchFails
  <2>7. ASSUME NEW c \in Caller, Set(c) PROVE IInv'
    BY <1>1, <2>7, SetStep
  <2>8. ASSUME NEW c \in Caller, SetFails(c) PROVE IInv'
    BY <1>1, <2>8, SetFailsStep
  <2>9. ASSUME NEW c \in Caller, Reply(c) PROVE IInv'
    BY <1>1, <2>9, ReturnStep DEF Reply
  <2>10. CASE Tick
    BY <1>1, <2>10, TickStep
  <2>11. QED
    BY <1>1, <2>1, <2>2, <2>3, <2>4, <2>5, <2>6, <2>7, <2>8, <2>9, <2>10 DEF Next
<1>2. ASSUME IInv, UNCHANGED vars PROVE IInv'
  BY <1>2 DEF vars, IInv, TypeOK, Usable, NothingRead, Ages, InTime, ReadSince, ExpiresInTime,
     BoundedStaleness, Refreshes, ReadSinceRefresh, EntrySinceRefresh
<1>3. QED
  BY <1>1, <1>2

\* Every run of the specification keeps the inductive invariant.
LEMMA InvHolds == Spec => []IInv
BY InitInv, NextInv, PTL DEF Spec

----------------------------------------------------------------------------
(* The theorems. *)

\* Every variable has its type, and a value that is cached or returned was usable: whole
\* for a balance, at least half a listing for orders (cache.go:119-134, client.go:84-101).
THEOREM ReadCacheTypes == Spec => []TypeOK
<1>1. IInv => TypeOK
  BY DEF IInv
<1>2. QED
  BY <1>1, InvHolds, PTL

\* For any TTL and call length, what a call returns was read upstream at most TTL and one
\* call ago, however many calls passed it on (cache.go:136, client.go:91).
THEOREM AnswersAreRecent == Spec => []BoundedStaleness
<1>1. IInv => BoundedStaleness
  BY DEF IInv, Ages
<1>2. QED
  BY <1>1, InvHolds, PTL

\* What a refresh has written is only undone by a call that was already fetching
\* (cache.go:123-124).
THEOREM RefreshesStick == Spec => []RefreshSticks
<1>1. IInv => RefreshSticks
  BY DEF IInv, Refreshes, EntrySinceRefresh, RefreshSticks
<1>2. QED
  BY <1>1, InvHolds, PTL
=============================================================================
