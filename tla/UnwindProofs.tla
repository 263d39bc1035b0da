---------------------------- MODULE UnwindProofs ----------------------------
(***************************************************************************)
(* Proofs about CloseOrders and Unwind, for any positions, pools and       *)
(* number of polls: what closeOpenOrders never undoes and what it leaves,  *)
(* and what waitBalanceStable and the one sweep after it guarantee.        *)
(***************************************************************************)
EXTENDS Unwind, FiniteSetTheorems, TLAPS

\* The types that the argument needs.
WaitTypes ==
    /\ stage \in {"close", "return", "trade", "fill", "settle", "sweep", "reversed"}
    /\ IsFiniteSet(held)
    /\ last \in Int /\ stable \in Nat /\ polls \in Nat /\ quiet \in Nat
    /\ swept \in BOOLEAN /\ late \in BOOLEAN /\ selling \in BOOLEAN

\* Before the wait nothing has been seen, and no sweep made.
NothingSeen ==
    stage \in {"close", "return", "trade", "fill"} => last = NotSeen /\ polls = 0

\* While it waits: a balance equal to the last one has been so for stable polls, in
\* which nothing has come; anything that comes makes it differ.
CountTrue ==
    stage = "settle" =>
        /\ polls < settleMaxPolls
        /\ last <= Balance
        /\ last = Balance => stable < quiet

\* After the wait: the balance was stable, or the wait ran out.
WaitOver ==
    stage \in {"sweep", "reversed"} => late \/ TimedOut \/ quiet > settleStableN

\* The sweep is the last step.
SweptLast == swept => stage = "reversed"

\* What is paid once has not been paid yet.
NotYetPaid == selling => Proceeds \notin held

IInv == WaitTypes /\ NothingSeen /\ CountTrue /\ WaitOver /\ SweptLast /\ NotYetPaid /\ SweepComplete

----------------------------------------------------------------------------
LEMMA InitInv == UnwindInit => IInv
<1>1. ASSUME UnwindInit PROVE IInv
  <2>1. /\ stage = "close" /\ held = {} /\ selling = FALSE /\ swept = FALSE /\ late = FALSE
        /\ last = NotSeen /\ stable = 0 /\ polls = 0 /\ quiet = 0
    BY <1>1 DEF UnwindInit
  <2>2. IsFiniteSet(held)
    BY <2>1, FS_EmptySet
  <2>3. WaitTypes
    <3>1. last \in Int /\ stable \in Nat /\ polls \in Nat /\ quiet \in Nat
      BY <2>1 DEF NotSeen
    <3>2. swept \in BOOLEAN /\ late \in BOOLEAN /\ selling \in BOOLEAN
      BY <2>1
    <3>3. stage \in {"close", "return", "trade", "fill", "settle", "sweep", "reversed"}
      BY <2>1
    <3>4. QED
      BY <2>2, <3>1, <3>2, <3>3 DEF WaitTypes
  <2>4. NothingSeen /\ CountTrue /\ WaitOver /\ SweptLast /\ NotYetPaid /\ SweepComplete
    BY <2>1 DEF NothingSeen, CountTrue, WaitOver, SweptLast, NotYetPaid, SweepComplete
  <2>5. QED
    BY <2>3, <2>4 DEF IInv
<1>2. QED
  BY <1>1

\* Whatever comes adds to the balance.
LEMMA BalanceGrows ==
    ASSUME IsFiniteSet(held), NEW i, i \notin held, held' = held \cup {i}
    PROVE  IsFiniteSet(held') /\ Balance' = Balance + 1 /\ Balance \in Nat
BY FS_AddElement, FS_CardinalityType DEF Balance

\* Closing, waiting and selling leave the wait before its beginning.
LEMMA BeforeStep ==
    ASSUME IInv, Close \/ CloseReturns \/ WaitReturn \/ TradeFails \/ WaitFill
    PROVE  IInv'
<1>1. /\ UNCHANGED <<held, selling, settling, swept, quiet, late>>
      /\ stage \in {"close", "return", "trade", "fill"}
      /\ stage' \in {"close", "return", "trade", "fill", "settle"}
  BY DEF Close, CloseReturns, WaitReturn, TradeFails, WaitFill
<1>2. last = NotSeen /\ polls = 0 /\ ~swept
  BY <1>1 DEF IInv, NothingSeen, SweptLast
<1>3. Balance \in Nat /\ Balance' = Balance
  BY <1>1, FS_CardinalityType DEF IInv, WaitTypes, Balance
<1>4. WaitTypes' /\ NothingSeen' /\ NotYetPaid'
  BY <1>1, <1>2 DEF IInv, WaitTypes, NothingSeen, NotYetPaid, settling
<1>5. CountTrue'
  BY <1>1, <1>2, <1>3, PollsAssumption DEF CountTrue, NotSeen, settling
<1>6. WaitOver' /\ SweptLast' /\ SweepComplete'
  BY <1>1, <1>2 DEF WaitOver, SweptLast, SweepComplete
<1>7. QED
  BY <1>4, <1>5, <1>6 DEF IInv

LEMMA TradeStep ==
    ASSUME IInv, Trade
    PROVE  IInv'
<1>1. /\ UNCHANGED <<settling, swept, quiet, late>> /\ held' = {} /\ selling' = TRUE
      /\ stage = "trade" /\ stage' \in {"fill", "settle"}
  BY DEF Trade
<1>2. last = NotSeen /\ polls = 0 /\ ~swept
  BY <1>1 DEF IInv, NothingSeen, SweptLast
<1>3. IsFiniteSet(held') /\ Balance' = 0
  BY <1>1, FS_EmptySet DEF Balance
<1>4. WaitTypes' /\ NothingSeen' /\ NotYetPaid'
  BY <1>1, <1>2, <1>3 DEF IInv, WaitTypes, NothingSeen, NotYetPaid, settling
<1>5. CountTrue'
  BY <1>1, <1>2, <1>3, PollsAssumption DEF CountTrue, NotSeen, settling
<1>6. WaitOver' /\ SweptLast' /\ SweepComplete'
  BY <1>1, <1>2 DEF WaitOver, SweptLast, SweepComplete
<1>7. QED
  BY <1>4, <1>5, <1>6 DEF IInv

\* A poll: either it counts one more, or it starts again; equal polls are quiet ones.
LEMMA PollStep ==
    ASSUME IInv, Poll \/ PollFails
    PROVE  IInv'
<1>1. /\ stage = "settle" /\ UNCHANGED <<held, selling, swept, late>>
      /\ polls' = polls + 1 /\ quiet' = quiet + 1
      /\ stage' \in {"settle", "sweep"}
  BY DEF Poll, PollFails, PollEnds
<1>2. ~swept /\ polls < settleMaxPolls /\ last <= Balance /\ (last = Balance => stable < quiet)
  BY <1>1 DEF IInv, CountTrue, SweptLast
<1>3. Balance' = Balance /\ Balance \in Nat
  BY <1>1, FS_CardinalityType DEF IInv, WaitTypes, Balance
<1>4. /\ last' \in Int /\ stable' \in Nat /\ last' <= Balance
      /\ last' = Balance => stable' < quiet'
  <2>1. CASE Poll
    BY <1>1, <1>2, <1>3, <2>1 DEF Poll, IInv, WaitTypes
  <2>2. CASE PollFails
    BY <1>1, <1>2, <2>2 DEF PollFails, IInv, WaitTypes
  <2>3. QED
    BY <2>1, <2>2
<1>5. stage' = "settle" => polls' < settleMaxPolls
  <2>1. polls + 1 >= settleMaxPolls => stage' = "sweep"
    BY DEF Poll, PollFails, PollEnds
  <2>2. QED
    BY <1>1, <2>1, PollsAssumption DEF IInv, WaitTypes
<1>6. stage' = "sweep" => TimedOut' \/ quiet' > settleStableN
  <2>1. CASE polls + 1 >= settleMaxPolls
    <3>1. polls' = settleMaxPolls
      BY <1>1, <1>2, <2>1, PollsAssumption DEF IInv, WaitTypes
    <3>2. QED
      BY <3>1 DEF TimedOut
  <2>2. CASE ~(polls + 1 >= settleMaxPolls)
    <3>1. stage' = "sweep" => Poll /\ stable' >= settleStableN
      BY <2>2 DEF Poll, PollFails, PollEnds
    <3>2. Poll => last' = Balance
      BY DEF Poll
    <3>3. QED
      BY <1>1, <1>4, <3>1, <3>2 DEF settleStableN, IInv, WaitTypes
  <2>3. QED
    BY <2>1, <2>2
<1>7. WaitTypes' /\ NothingSeen' /\ NotYetPaid'
  BY <1>1, <1>4 DEF IInv, WaitTypes, NothingSeen, NotYetPaid
<1>8. CountTrue'
  BY <1>1, <1>3, <1>4, <1>5 DEF CountTrue
<1>9. WaitOver' /\ SweptLast' /\ SweepComplete'
  BY <1>1, <1>2, <1>6 DEF WaitOver, SweptLast, SweepComplete
<1>10. QED
  BY <1>7, <1>8, <1>9 DEF IInv

LEMMA SweepStep ==
    ASSUME IInv, Sweep
    PROVE  IInv'
<1>1. /\ stage = "sweep" /\ stage' = "reversed"
      /\ UNCHANGED <<selling, settling, quiet, late>>
      /\ \/ held' = {} /\ swept' \in BOOLEAN
         \/ held' = held /\ swept' = swept
  BY DEF Sweep, SweepInputs
<1>2. IsFiniteSet(held') /\ held' \subseteq held
  BY <1>1, FS_EmptySet DEF IInv, WaitTypes
<1>3. WaitTypes' /\ NothingSeen' /\ NotYetPaid' /\ CountTrue'
  BY <1>1, <1>2 DEF IInv, WaitTypes, NothingSeen, NotYetPaid, CountTrue, settling
<1>4. WaitOver' /\ SweptLast'
  BY <1>1 DEF IInv, WaitOver, SweptLast, TimedOut, settling
<1>5. ~swept
  BY <1>1 DEF IInv, SweptLast
<1>6. SweepComplete'
  BY <1>1, <1>5 DEF SweepComplete
<1>7. QED
  BY <1>3, <1>4, <1>6 DEF IInv

\* Something comes: during the wait it starts the count again, after it it is late.
LEMMA ArrivesStep ==
    ASSUME IInv, NEW i, i \notin held, Arrives(i), selling' \in BOOLEAN,
           selling' => selling /\ i # Proceeds
    PROVE  IInv'
<1>1. /\ held' = held \cup {i} /\ quiet' = 0 /\ late' = (late \/ quiet > settleStableN)
      /\ UNCHANGED <<stage, settling, swept>>
  BY DEF Arrives
<1>2. IsFiniteSet(held') /\ Balance' = Balance + 1 /\ Balance \in Nat
  BY <1>1, BalanceGrows DEF IInv, WaitTypes
<1>3. late' \in BOOLEAN
  BY <1>1
<1>4. WaitTypes' /\ NothingSeen' /\ NotYetPaid'
  BY <1>1, <1>2, <1>3 DEF IInv, WaitTypes, NothingSeen, NotYetPaid, settling
<1>5. CountTrue'
  BY <1>1, <1>2 DEF IInv, WaitTypes, CountTrue, settling
<1>6. stage \in {"sweep", "reversed"} => late' \/ TimedOut'
  BY <1>1 DEF IInv, WaitOver, TimedOut, settling
<1>7. WaitOver' /\ SweptLast'
  BY <1>1, <1>6 DEF IInv, WaitOver, SweptLast
<1>8. SweepComplete'
  BY <1>1, <1>6 DEF IInv, SweptLast, SweepComplete
<1>9. QED
  BY <1>4, <1>5, <1>7, <1>8 DEF IInv

LEMMA NextInv ==
    ASSUME IInv, [UnwindNext]_uvars
    PROVE  IInv'
<1>1. CASE Unwinding
  BY <1>1, BeforeStep, TradeStep, PollStep, SweepStep DEF Unwinding
<1>2. ASSUME NEW p \in Position, Release(p)
      PROVE  IInv'
  <2>1. p \notin held /\ Arrives(p) /\ selling' = selling /\ p # Proceeds
    BY <1>2, ProceedsAssumption DEF Release
  <2>2. QED
    BY <2>1, ArrivesStep DEF IInv, WaitTypes
<1>3. CASE Pays
  <2>1. Proceeds \notin held /\ Arrives(Proceeds) /\ selling' = FALSE
    BY <1>3 DEF Pays, IInv, NotYetPaid
  <2>2. QED
    BY <2>1, ArrivesStep
<1>4. CASE (\E p \in Position : Settles(p)) \/ UNCHANGED uvars
  <2>1. UNCHANGED <<stage, held, selling, settling, swept, quiet, late>>
    BY <1>4 DEF Settles, uvars
  <2>2. QED
    BY <2>1 DEF IInv, WaitTypes, NothingSeen, CountTrue, WaitOver, SweptLast, NotYetPaid,
                SweepComplete, TimedOut, Balance, settling
<1>5. QED
  BY <1>1, <1>2, <1>3, <1>4 DEF UnwindNext

----------------------------------------------------------------------------
(* What closeOpenOrders keeps.                                             *)

\* The orders of a position are numbered by its repays.
OrderNumbers ==
    \A p \in Position :
        /\ surf[p].st \in {"pending", "cancelBorrow"} => surf[p].n = 0
        /\ surf[p].st \in {"repaying", "stuck", "cancelRepay"} => surf[p].n # 0

\* A listed order is a borrow if and only if no repay of its position came before it.
TodoNumbers == \A o \in todo : ~o.active => (o.borrow <=> o.n = 0)

\* The pool of a repay of this unwind is remembered.
OwnRemembered == \A p \in Position : own[p] # 0 => pool[p] \in closedMarkets

Limit ==
    IF phase = "done" THEN maxCloseRounds + 1 ELSE IF phase = "orders" THEN round + 2 ELSE round + 1

\* A position is repaid at most once in a round: while positions are treated, one that
\* was repaid in the round does not come back, since orders are cancelled after them.
OneRepayARound ==
    /\ phase # "done" => round < maxCloseRounds
    /\ \A p \in Position : surf[p].n <= Limit
    /\ phase = "orders" /\ (\E o \in todo : o.active) =>
            \A p \in Position : surf[p].n <= round + 1 \/ surf[p].st \in {"repaying", "closed"}

CloseInv == TypeOK /\ OrderNumbers /\ TodoNumbers /\ OwnRemembered /\ OneRepayARound

LEMMA CloseInit == Init => CloseInv
<1> SUFFICES ASSUME Init PROVE CloseInv
  OBVIOUS
<1>1. TypeOK
  <2>1. surf \in [Position -> [st: SurfStatus, n: OrderNo]]
    BY DEF Init, SurfStatus, OrderNo, maxCloseRounds
  <2>2. round \in 0..maxCloseRounds /\ own \in [Position -> OrderNo]
    BY DEF Init, OrderNo, maxCloseRounds
  <2>3. QED
    BY <2>1, <2>2, Zenon DEF Init, TypeOK
<1>2. OrderNumbers /\ TodoNumbers /\ OwnRemembered
  BY DEF Init, OrderNumbers, TodoNumbers, OwnRemembered
<1>3. OneRepayARound
  BY DEF Init, OneRepayARound, Limit, maxCloseRounds
<1>4. QED
  BY <1>1, <1>2, <1>3 DEF CloseInv

\* The entries of a listing are orders, numbered as their positions are.
LEMMA EntriesNumbered ==
    ASSUME CloseInv
    PROVE  /\ Entries \subseteq Order
           /\ \A o \in Entries : ~o.active => (o.borrow <=> o.n = 0)
<1> SUFFICES ASSUME NEW p \in Position, surf[p].st # "closed"
             PROVE  /\ Entry(p) \in Order
                    /\ ~Entry(p).active => (Entry(p).borrow <=> Entry(p).n = 0)
  BY DEF Entries
<1>1. surf[p] \in [st: SurfStatus, n: OrderNo]
  BY DEF CloseInv, TypeOK
<1>2. Entry(p) \in Order
  BY <1>1 DEF Entry, Order
<1>3. /\ surf[p].st \in {"pending", "cancelBorrow"} => surf[p].n = 0
      /\ surf[p].st \in {"repaying", "stuck", "cancelRepay"} => surf[p].n # 0
  BY DEF CloseInv, OrderNumbers
<1>4. surf[p].st \in {"pending", "active", "repaying", "stuck", "cancelBorrow", "cancelRepay"}
  BY <1>1 DEF SurfStatus
<1>5. ~Entry(p).active => (Entry(p).borrow <=> Entry(p).n = 0)
  BY <1>3, <1>4 DEF Entry
<1>6. QED
  BY <1>2, <1>5

LEMMA FetchStep ==
    ASSUME CloseInv, FetchPositions \/ FetchPending \/ FetchFails \/ EndRound
    PROVE  CloseInv'
<1>1. UNCHANGED <<surf, closedMarkets, cancelledOrders, cancelledRepayMarkets, closedAny, own, pool>>
  BY DEF FetchPositions, FetchPending, FetchFails, EndRound, engine
<1>2. OrderNumbers' /\ OwnRemembered'
  BY <1>1 DEF CloseInv, OrderNumbers, OwnRemembered
<1>3. todo' \subseteq todo \cup Entries
  BY DEF FetchPositions, FetchPending, FetchFails, EndRound
<1>4. TodoNumbers' /\ todo' \subseteq Order
  BY <1>3, EntriesNumbered DEF CloseInv, TodoNumbers, TypeOK
<1>5. round' \in 0..maxCloseRounds /\ phase' \in {"fetch", "pending", "pendingOnly", "orders", "done"}
  BY DEF FetchPositions, FetchPending, FetchFails, EndRound, CloseInv, TypeOK, OneRepayARound, maxCloseRounds
<1>6. openLeft' \in BOOLEAN /\ didSubmit' \in BOOLEAN /\ smooth' \in BOOLEAN
  BY DEF FetchPositions, FetchPending, FetchFails, EndRound, engine, CloseInv, TypeOK
<1>7. TypeOK'
  BY <1>1, <1>4, <1>5, <1>6 DEF CloseInv, TypeOK
<1>8. OneRepayARound'
  BY <1>1 DEF FetchPositions, FetchPending, FetchFails, EndRound, CloseInv, TypeOK, OneRepayARound, Limit, maxCloseRounds, OrderNo
<1>9. QED
  BY <1>2, <1>4, <1>7, <1>8 DEF CloseInv

\* Only the lender's side of a step moves: nothing is repaid twice.
LEMMA BatcherStep ==
    ASSUME CloseInv, NEW p \in Position, Batcher(p)
    PROVE  CloseInv'
<1>1. /\ UNCHANGED <<phase, round, todo, openLeft, closedMarkets, cancelledOrders,
                     cancelledRepayMarkets, closedAny, didSubmit, own, pool>>
      /\ \E st \in {"active", "closed"} : surf' = [surf EXCEPT ![p].st = st]
  BY DEF Batcher, FillBorrow, FillRepay, SettleCancel, Becomes, engine
<1>2. surf' \in [Position -> [st: SurfStatus, n: OrderNo]]
  BY <1>1 DEF CloseInv, TypeOK, SurfStatus
<1>3. smooth' \in BOOLEAN
  BY DEF Batcher, FillBorrow, FillRepay, SettleCancel, CloseInv, TypeOK
<1>4. TypeOK'
  BY <1>1, <1>2, <1>3 DEF CloseInv, TypeOK
<1>5. OrderNumbers' /\ TodoNumbers' /\ OwnRemembered'
  BY <1>1 DEF CloseInv, TypeOK, OrderNumbers, TodoNumbers, OwnRemembered
<1>6. \A q \in Position :
        /\ surf'[q].n = surf[q].n
        /\ surf[q].st \in {"repaying", "closed"} => surf'[q].st \in {"repaying", "closed"} \/ surf[q].n = 0
  BY <1>1 DEF Batcher, FillBorrow, FillRepay, SettleCancel, Becomes, CloseInv, TypeOK
<1>7. OneRepayARound'
  BY <1>1, <1>6 DEF CloseInv, TypeOK, OneRepayARound, Limit, OrderNo, maxCloseRounds
<1>8. QED
  BY <1>4, <1>5, <1>7 DEF CloseInv

\* Treating an entry only takes it from the list.
LEMMA TreatsKeeps ==
    ASSUME CloseInv, NEW o \in todo, Treats(o)
    PROVE  /\ UNCHANGED <<phase, round, openLeft, pool>> /\ phase = "orders"
           /\ todo' \subseteq todo /\ TodoNumbers'
           /\ o \in Order /\ o.pos \in Position /\ pool[o.pos] \in PoolName
           /\ ~o.active => \A x \in todo : ~x.active
<1>1. /\ UNCHANGED <<phase, round, openLeft, pool>> /\ phase = "orders" /\ todo' \subseteq todo
      /\ ~o.active => \A x \in todo : ~x.active
  BY DEF Treats
<1>2. TodoNumbers'
  BY <1>1 DEF CloseInv, TodoNumbers
<1>3. o \in Order /\ o.pos \in Position
  BY DEF CloseInv, TypeOK, Order
<1>4. pool[o.pos] \in PoolName
  BY <1>3, AssignmentsAssumption DEF CloseInv, TypeOK
<1>5. QED
  BY <1>1, <1>2, <1>3, <1>4

LEMMA SkipStep ==
    ASSUME CloseInv, NEW o \in todo, Skip(o)
    PROVE  CloseInv'
<1>1. Treats(o) /\ UNCHANGED <<surf, engine, smooth>>
  BY DEF Skip
<1>2. TypeOK'
  BY <1>1, TreatsKeeps DEF CloseInv, TypeOK, engine
<1>3. OrderNumbers' /\ OwnRemembered'
  BY <1>1, TreatsKeeps DEF CloseInv, OrderNumbers, OwnRemembered, engine
<1>4. OneRepayARound'
  BY <1>1, TreatsKeeps DEF CloseInv, OneRepayARound, Limit
<1>5. QED
  BY <1>1, <1>2, <1>3, <1>4, TreatsKeeps DEF CloseInv

\* A repay goes to a position that is active, hence not repaid in this round.
LEMMA RepaySurf ==
    ASSUME CloseInv, NEW o \in todo, Treats(o), o.active, NEW q \in Repayable(o), RepayOrder(q)
    PROVE  /\ surf' \in [Position -> [st: SurfStatus, n: OrderNo]]
           /\ OrderNumbers' /\ OneRepayARound'
           /\ q \in Position /\ surf[q].n + 1 \in OrderNo /\ pool[q] = pool[o.pos]
<1>1. q \in Position /\ surf[q].st = "active" /\ pool[q] = pool[o.pos]
  BY DEF Repayable
<1>2. surf \in [Position -> [st: SurfStatus, n: OrderNo]] /\ round \in 0..maxCloseRounds
  BY DEF CloseInv, TypeOK
<1>3. phase = "orders" /\ round < maxCloseRounds /\ surf[q].n <= round + 1
  BY <1>1, TreatsKeeps DEF CloseInv, OneRepayARound
<1>4. surf[q].n \in Nat /\ surf[q].n + 1 \in OrderNo /\ surf[q].n + 1 # 0
  BY <1>1, <1>2, <1>3 DEF OrderNo, maxCloseRounds
<1>5. surf' = [surf EXCEPT ![q] = [st |-> "repaying", n |-> surf[q].n + 1]]
  BY DEF RepayOrder
<1>6. [st |-> "repaying", n |-> surf[q].n + 1] \in [st: SurfStatus, n: OrderNo]
  BY <1>4 DEF SurfStatus
<1>7. surf' \in [Position -> [st: SurfStatus, n: OrderNo]]
  BY <1>2, <1>5, <1>6
<1>8. surf'[q].st = "repaying" /\ surf'[q].n = surf[q].n + 1
  BY <1>1, <1>2, <1>5
<1>9. \A p \in Position : p # q => surf'[p] = surf[p]
  BY <1>2, <1>5
<1>10. OrderNumbers'
  BY <1>4, <1>8, <1>9 DEF CloseInv, OrderNumbers
<1>11. \A p \in Position : surf'[p].n <= round + 2
  BY <1>2, <1>3, <1>4, <1>8, <1>9 DEF CloseInv, OneRepayARound, Limit
<1>12. (\E x \in todo : x.active) =>
          \A p \in Position : surf'[p].n <= round + 1 \/ surf'[p].st \in {"repaying", "closed"}
  BY <1>3, <1>8, <1>9 DEF CloseInv, OneRepayARound
<1>13. OneRepayARound'
  BY <1>3, <1>11, <1>12, TreatsKeeps DEF OneRepayARound, Limit
<1>14. QED
  BY <1>1, <1>4, <1>7, <1>10, <1>13

LEMMA RepayStep ==
    ASSUME CloseInv, NEW o \in todo, Repay(o)
    PROVE  CloseInv'
<1>1. PICK q \in Repayable(o) : RepayOrder(q) /\ own' = [own EXCEPT ![q] = surf[q].n + 1]
  BY DEF Repay
<1>2. /\ Treats(o) /\ o.active
      /\ closedMarkets' = closedMarkets \cup {pool[o.pos]}
      /\ cancelledRepayMarkets' = cancelledRepayMarkets \ {pool[o.pos]}
      /\ closedAny' = TRUE /\ didSubmit' = TRUE
      /\ UNCHANGED <<cancelledOrders, smooth>>
  BY DEF Repay
<1>3. own' \in [Position -> OrderNo]
  BY <1>1, <1>2, RepaySurf DEF CloseInv, TypeOK
<1>4. TypeOK'
  BY <1>1, <1>2, <1>3, RepaySurf, TreatsKeeps DEF CloseInv, TypeOK
<1>5. \A p \in Position : own'[p] # 0 => p = q \/ own[p] # 0
  BY <1>1 DEF CloseInv, TypeOK
<1>6. OwnRemembered'
  BY <1>1, <1>2, <1>5, RepaySurf, TreatsKeeps DEF CloseInv, OwnRemembered
<1>7. QED
  BY <1>1, <1>2, <1>4, <1>6, RepaySurf, TreatsKeeps DEF CloseInv

LEMMA RepayFailsStep ==
    ASSUME CloseInv, NEW o \in todo, RepayFails(o)
    PROVE  CloseInv'
<1>1. Treats(o) /\ o.active /\ UNCHANGED engine
  BY DEF RepayFails
<1>2. smooth' \in BOOLEAN
  BY DEF RepayFails, CloseInv, TypeOK
<1>3. surf' \in [Position -> [st: SurfStatus, n: OrderNo]] /\ OrderNumbers' /\ OneRepayARound'
  <2>1. CASE UNCHANGED surf
    BY <1>1, <2>1, TreatsKeeps DEF CloseInv, TypeOK, OrderNumbers, OneRepayARound, Limit
  <2>2. CASE \E q \in Repayable(o) : RepayOrder(q)
    BY <1>1, <2>2, RepaySurf
  <2>3. QED
    BY <2>1, <2>2 DEF RepayFails
<1>4. TypeOK'
  BY <1>1, <1>2, <1>3, TreatsKeeps DEF CloseInv, TypeOK, engine
<1>5. OwnRemembered'
  BY <1>1, TreatsKeeps DEF CloseInv, OwnRemembered, engine
<1>6. QED
  BY <1>1, <1>3, <1>4, <1>5, TreatsKeeps DEF CloseInv

\* The number of the order tells a borrow from a repay: a cancel is of what was listed.
LEMMA CancelSurf ==
    ASSUME CloseInv, NEW o \in todo, Treats(o), ~o.active, StillPending(o), CancelOrder(o)
    PROVE  /\ surf' \in [Position -> [st: SurfStatus, n: OrderNo]]
           /\ OrderNumbers' /\ OneRepayARound'
           /\ \A p \in Position : p # o.pos => surf'[p] = surf[p]
<1>1. surf \in [Position -> [st: SurfStatus, n: OrderNo]] /\ o.pos \in Position
  BY TreatsKeeps DEF CloseInv, TypeOK
<1>2. PICK st \in {"cancelBorrow", "cancelRepay"} :
        surf' = [surf EXCEPT ![o.pos].st = st] /\ (st = "cancelBorrow" <=> o.borrow)
  BY DEF CancelOrder
<1>3. surf' \in [Position -> [st: SurfStatus, n: OrderNo]]
  BY <1>1, <1>2 DEF SurfStatus
<1>4. surf'[o.pos].st = st /\ surf'[o.pos].n = surf[o.pos].n
  BY <1>1, <1>2
<1>5. \A p \in Position : p # o.pos => surf'[p] = surf[p]
  BY <1>1, <1>2
<1>6. st = "cancelBorrow" <=> surf[o.pos].n = 0
  BY <1>2 DEF CloseInv, TodoNumbers, StillPending
<1>7. OrderNumbers'
  BY <1>4, <1>5, <1>6 DEF CloseInv, OrderNumbers
<1>8. OneRepayARound'
  BY <1>1, <1>4, <1>5, TreatsKeeps DEF CloseInv, OneRepayARound, Limit
<1>9. QED
  BY <1>3, <1>5, <1>7, <1>8

LEMMA CancelStep ==
    ASSUME CloseInv, NEW o \in todo, Cancel(o)
    PROVE  CloseInv'
<1>1. /\ Treats(o) /\ ~o.active /\ StillPending(o) /\ CancelOrder(o)
      /\ cancelledOrders' = cancelledOrders \cup {Key(o)}
      /\ cancelledRepayMarkets' \subseteq cancelledRepayMarkets \cup {pool[o.pos]}
      /\ closedAny' = TRUE /\ didSubmit' = TRUE
      /\ UNCHANGED <<closedMarkets, own, smooth>>
  BY DEF Cancel
<1>2. Key(o) \in Position \X OrderNo
  BY <1>1, TreatsKeeps DEF Key, Order
<1>3. TypeOK'
  BY <1>1, <1>2, CancelSurf, TreatsKeeps DEF CloseInv, TypeOK
<1>4. OwnRemembered'
  BY <1>1, TreatsKeeps DEF CloseInv, OwnRemembered
<1>5. QED
  BY <1>1, <1>3, <1>4, CancelSurf, TreatsKeeps DEF CloseInv

LEMMA CancelFailsStep ==
    ASSUME CloseInv, NEW o \in todo, CancelFails(o)
    PROVE  CloseInv'
<1>1. Treats(o) /\ ~o.active /\ UNCHANGED engine
  BY DEF CancelFails
<1>2. smooth' \in BOOLEAN
  BY DEF CancelFails, CloseInv, TypeOK
<1>3. surf' \in [Position -> [st: SurfStatus, n: OrderNo]] /\ OrderNumbers' /\ OneRepayARound'
  <2>1. CASE UNCHANGED surf
    BY <1>1, <2>1, TreatsKeeps DEF CloseInv, TypeOK, OrderNumbers, OneRepayARound, Limit
  <2>2. CASE StillPending(o) /\ CancelOrder(o)
    BY <1>1, <2>2, CancelSurf
  <2>3. QED
    BY <2>1, <2>2 DEF CancelFails
<1>4. TypeOK'
  BY <1>1, <1>2, <1>3, TreatsKeeps DEF CloseInv, TypeOK, engine
<1>5. OwnRemembered'
  BY <1>1, TreatsKeeps DEF CloseInv, OwnRemembered, engine
<1>6. QED
  BY <1>1, <1>3, <1>4, <1>5, TreatsKeeps DEF CloseInv

\* When closeOpenOrders returns it forgets what it has repaid.
LEMMA CloseReturnsStep ==
    ASSUME CloseInv, CloseReturns
    PROVE  CloseInv'
<1>1. /\ closedMarkets' = {} /\ cancelledOrders' = {} /\ cancelledRepayMarkets' = {}
      /\ closedAny' = FALSE /\ didSubmit' = FALSE /\ openLeft' = FALSE
      /\ own' = [p \in Position |-> 0]
      /\ UNCHANGED <<surf, phase, round, todo, pool, smooth>>
  BY DEF CloseReturns
<1>2. own' \in [Position -> OrderNo]
  BY <1>1 DEF OrderNo, maxCloseRounds
<1>3. TypeOK'
  BY <1>1, <1>2 DEF CloseInv, TypeOK
<1>4. OrderNumbers' /\ TodoNumbers' /\ OwnRemembered'
  BY <1>1 DEF CloseInv, OrderNumbers, TodoNumbers, OwnRemembered
<1>5. OneRepayARound'
  BY <1>1 DEF CloseInv, OneRepayARound, Limit
<1>6. QED
  BY <1>3, <1>4, <1>5 DEF CloseInv

LEMMA CloseIdle == ASSUME CloseInv, UNCHANGED closing PROVE CloseInv'
BY DEF closing, engine, CloseInv, TypeOK, OrderNumbers, TodoNumbers, OwnRemembered, OneRepayARound, Limit

LEMMA CloseOrdersNext ==
    ASSUME CloseInv, [Next]_vars
    PROVE  CloseInv'
<1>1. CASE CloseOpenOrders
  BY <1>1, FetchStep, SkipStep, RepayStep, RepayFailsStep, CancelStep, CancelFailsStep DEF CloseOpenOrders
<1>2. CASE \E p \in Position : Batcher(p)
  BY <1>2, BatcherStep
<1>3. CASE UNCHANGED vars
  BY <1>3, CloseIdle DEF vars, closing
<1>4. QED
  BY <1>1, <1>2, <1>3 DEF Next

\* What a step of the unwind is to the orders.
LEMMA UnwindStepOfOrders ==
    ASSUME [UnwindNext]_uvars
    PROVE  [Next]_vars \/ CloseReturns
<1>1. Close \/ CloseReturns \/ (\E p \in Position : Settles(p)) \/ UNCHANGED closing
  BY DEF UnwindNext, Unwinding, WaitReturn, Trade, TradeFails, WaitFill, Poll, PollFails, PollEnds,
         Sweep, Release, Pays, Arrives, uvars
<1>2. QED
  BY <1>1 DEF Close, Settles, Next, vars, closing

LEMMA CloseNext ==
    ASSUME CloseInv, [UnwindNext]_uvars
    PROVE  CloseInv'
BY UnwindStepOfOrders, CloseOrdersNext, CloseReturnsStep

\* A repay of this unwind that is pending stays so until it is filled: its pool is
\* remembered, and a listed repay of such a pool is left.
LEMMA OwnRepayStep ==
    ASSUME CloseInv, [UnwindNext]_uvars,
           NEW p \in Position, surf[p].st = "repaying", own[p] = surf[p].n
    PROVE  surf'[p].st \in {"repaying", "closed"}
<1>1. surf \in [Position -> [st: SurfStatus, n: OrderNo]] /\ own[p] # 0 /\ pool[p] \in closedMarkets
  BY DEF CloseInv, TypeOK, OrderNumbers, OwnRemembered
<1>2. ASSUME NEW q, q \in Position, q # p, NEW st, surf' = [surf EXCEPT ![q] = st]
      PROVE  surf'[p] = surf[p]
  BY <1>1, <1>2
<1>3. ASSUME NEW o \in todo, Skip(o) \/ Repay(o) \/ RepayFails(o) \/ Cancel(o) \/ CancelFails(o)
      PROVE  surf'[p].st \in {"repaying", "closed"}
  <2>1. CASE UNCHANGED surf
    BY <2>1
  <2>2. ASSUME NEW q \in Repayable(o), RepayOrder(q) PROVE surf'[p] = surf[p]
    BY <1>2, <2>2 DEF Repayable, RepayOrder
  <2>3. CASE Treats(o) /\ ~o.active /\ ~Leaves(o) /\ StillPending(o) /\ CancelOrder(o)
    <3>1. \A q \in Position : q # o.pos => surf'[q] = surf[q]
      BY <2>3, CancelSurf
    <3>2. o.pos = p => ~o.borrow
      BY <1>1, <2>3 DEF CloseInv, TodoNumbers, StillPending
    <3>3. o.pos # p
      BY <1>1, <2>3, <3>2 DEF Leaves
    <3>4. QED
      BY <3>1, <3>3
  <2>4. QED
    BY <1>3, <2>1, <2>2, <2>3 DEF Skip, Repay, RepayFails, Cancel, CancelFails
<1>4. ASSUME NEW q \in Position, Batcher(q)
      PROVE  surf'[p].st \in {"repaying", "closed"}
  <2>1. PICK st \in {"active", "closed"} : surf' = [surf EXCEPT ![q].st = st]
    BY <1>4 DEF Batcher, FillBorrow, FillRepay, SettleCancel, Becomes
  <2>2. q = p => surf' = [surf EXCEPT ![p].st = "closed"]
    BY <1>4 DEF Batcher, FillBorrow, FillRepay, SettleCancel, Becomes
  <2>3. CASE q = p
    BY <1>1, <2>2, <2>3
  <2>4. CASE q # p
    BY <1>1, <2>1, <2>4
  <2>5. QED
    BY <2>3, <2>4
<1>5. CASE UNCHANGED surf
  BY <1>5
<1>6. \/ \E o \in todo : Skip(o) \/ Repay(o) \/ RepayFails(o) \/ Cancel(o) \/ CancelFails(o)
      \/ \E q \in Position : Batcher(q)
      \/ UNCHANGED surf
  BY UnwindStepOfOrders DEF Next, CloseOpenOrders, FetchPositions, FetchPending, FetchFails, EndRound,
                            CloseReturns, vars
<1>7. QED
  BY <1>3, <1>4, <1>5, <1>6

----------------------------------------------------------------------------
(* With pools of their own, everything is closed.                          *)

\* The repays of this unwind are what closedMarkets says, and are under way.
OwnRepays ==
    \A p \in Position :
        /\ own[p] # 0 <=> pool[p] \in closedMarkets
        /\ own[p] # 0 => own[p] = surf[p].n /\ surf[p].st \in {"repaying", "closed"}

\* An order that was cancelled does not wait any more.
CancelsDone ==
    \A p \in Position, k \in OrderNo :
        <<p, k>> \in cancelledOrders =>
            /\ k <= surf[p].n
            /\ k = surf[p].n => surf[p].st \notin {"pending", "repaying", "stuck"}

\* The pool of p owes a repay once p is active again.
Owed(p) == pool[p] \in cancelledRepayMarkets \ closedMarkets

RevertsOwed == \A p \in Position : surf[p].st = "cancelRepay" => Owed(p)

\* p has an order or a position nothing is done about yet.
Untreated(p) ==
    \/ surf[p].st \in {"active", "pending", "stuck"}
    \/ surf[p].st = "repaying" /\ own[p] = 0

\* What a complete listing shows is treated in the round, or in a later one.
Listed ==
    /\ phase = "pending" => \A p \in Position : surf[p].st = "active" => Entry(p) \in todo
    /\ phase = "pendingOnly" => \A p \in Position : surf[p].st # "active"
    /\ phase = "orders" =>
        \A p \in Position :
            Untreated(p) => Entry(p) \in todo \/ (surf[p].st = "active" /\ Owed(p))

ListedActive == \A o \in todo : o.active => o = Entry(o.pos) /\ surf[o.pos].st = "active"

\* An empty listing is a closed address, and the unwind only stops with nothing to do.
StopsWithNothing ==
    /\ phase = "orders" /\ ~openLeft => \A p \in Position : surf[p].st = "closed"
    /\ Ended => Settled

SeparateParts == OwnRepays /\ CancelsDone /\ RevertsOwed /\ Listed /\ ListedActive /\ StopsWithNothing

SeparateInv == smooth /\ Separate => SeparateParts

LEMMA SeparateInit == Init => SeparateInv
<1> SUFFICES ASSUME Init PROVE SeparateParts
  BY DEF SeparateInv
<1>1. \A p \in Position : own[p] = 0
  BY DEF Init
<1>2. \A p \in Position : surf[p].st # "cancelRepay"
  <2>1. \A r \in {[st |-> "pending", n |-> 0], [st |-> "active", n |-> 0],
                 [st |-> "repaying", n |-> 1], [st |-> "stuck", n |-> 1]} : r.st # "cancelRepay"
    OBVIOUS
  <2>2. QED
    BY <2>1 DEF Init
<1>3. QED
  BY <1>1, <1>2 DEF Init, SeparateParts, OwnRepays, CancelsDone, RevertsOwed, Listed, ListedActive,
              StopsWithNothing, Ended

\* A listing shows every position in the status it has: between its two halves none turns active.
LEMMA ListingStep ==
    ASSUME CloseInv, SeparateParts, smooth', FetchPositions \/ FetchPending
    PROVE  SeparateParts'
<1>1. UNCHANGED <<surf, round, closedMarkets, cancelledOrders, cancelledRepayMarkets, own, pool>>
  BY DEF FetchPositions, FetchPending, engine
<1>2. \A p \in Position :
        /\ Entry(p)' = Entry(p) /\ Entry(p).pos = p
        /\ Entry(p).active <=> surf[p].st = "active"
        /\ surf[p].st # "closed" => Entry(p) \in Entries
        /\ Owed(p)' <=> Owed(p)
        /\ Untreated(p)' <=> Untreated(p)
  BY <1>1 DEF Entry, Entries, Owed, Untreated
<1>3. \A o \in Entries : o.pos \in Position /\ o = Entry(o.pos)
  BY DEF Entry, Entries
<1>4. OwnRepays' /\ CancelsDone' /\ RevertsOwed'
  BY <1>1, <1>2 DEF SeparateParts, OwnRepays, CancelsDone, RevertsOwed
<1>5. CASE FetchPositions
  <2>1. \/ todo' = {o \in Entries : o.active} /\ phase' = "pending"
        \/ todo' = {} /\ phase' = "pendingOnly" /\ \A o \in Entries : ~o.active
    BY <1>5 DEF FetchPositions
  <2>2. Listed' /\ ListedActive'
    BY <1>1, <1>2, <1>3, <2>1 DEF Listed, ListedActive
  <2>3. StopsWithNothing'
    BY <2>1 DEF StopsWithNothing, Ended
  <2>4. QED
    BY <1>4, <2>2, <2>3 DEF SeparateParts
<1>6. CASE FetchPending
  <2>1. /\ phase' = "orders" /\ openLeft' = (todo' # {})
        /\ todo \subseteq todo' /\ {o \in Entries : ~o.active} \subseteq todo'
        /\ todo' \subseteq todo \cup {o \in Entries : ~o.active}
    BY <1>6 DEF FetchPending
  <2>2. \A p \in Position : surf[p].st = "active" => Entry(p) \in todo
    BY <1>6 DEF FetchPending, SeparateParts, Listed
  <2>3. \A p \in Position : surf[p].st # "closed" => Entry(p) \in todo'
    BY <1>2, <2>1, <2>2
  <2>4. Listed'
    BY <1>2, <2>1, <2>3 DEF Listed, Untreated
  <2>5. ListedActive'
    BY <1>1, <1>2, <2>1 DEF SeparateParts, ListedActive, CloseInv, TypeOK, Order
  <2>6. StopsWithNothing'
    BY <1>1, <2>1, <2>3 DEF StopsWithNothing, Ended
  <2>7. QED
    BY <1>4, <2>4, <2>5, <2>6 DEF SeparateParts
<1>7. QED
  BY <1>5, <1>6

\* The round ends with its list treated: what is untreated is owed a repay.
LEMMA EndRoundStep ==
    ASSUME CloseInv, SeparateParts, EndRound
    PROVE  SeparateParts'
<1>1. /\ UNCHANGED <<surf, todo, closedMarkets, cancelledOrders, cancelledRepayMarkets, own, pool>>
      /\ phase = "orders" /\ phase' \in {"fetch", "done"} /\ todo = {}
      /\ phase' = "done" /\ round' < maxCloseRounds => StopsHere
  BY DEF EndRound, engine, CloseInv, TypeOK, maxCloseRounds
<1>2. OwnRepays' /\ CancelsDone' /\ RevertsOwed' /\ Listed' /\ ListedActive'
  BY <1>1 DEF SeparateParts, OwnRepays, CancelsDone, RevertsOwed, Owed, Listed, ListedActive
<1>3. ASSUME StopsHere PROVE Settled
  <2>1. CASE ~openLeft
    BY <1>1, <2>1 DEF SeparateParts, StopsWithNothing, Settled
  <2>2. CASE ~AwaitingRevert
    <3>1. \A p \in Position : ~Owed(p)
      BY <2>2 DEF AwaitingRevert, Owed
    <3>2. \A p \in Position : ~Untreated(p) /\ surf[p].st # "cancelRepay"
      BY <1>1, <3>1 DEF SeparateParts, Listed, RevertsOwed
    <3>3. \A p \in Position : surf[p].st \in SurfStatus /\ (own[p] # 0 => own[p] = surf[p].n)
      BY DEF CloseInv, TypeOK, SeparateParts, OwnRepays
    <3>4. QED
      BY <3>2, <3>3 DEF Settled, Untreated, SurfStatus
  <2>3. QED
    BY <1>3, <2>1, <2>2 DEF StopsHere
<1>4. StopsWithNothing'
  BY <1>1, <1>3 DEF StopsWithNothing, Ended, Settled
<1>5. QED
  BY <1>2, <1>4 DEF SeparateParts

\* An entry is treated, and the position it shows is none of those it must be treated for.
LEMMA EntryDone ==
    ASSUME CloseInv, SeparateParts, NEW o \in todo, Treats(o), UNCHANGED <<surf, engine>>,
           \A p \in Position : Untreated(p) => o # Entry(p)
    PROVE  SeparateParts'
<1>1. /\ UNCHANGED <<surf, phase, round, openLeft, closedMarkets, cancelledOrders, cancelledRepayMarkets, own, pool>>
      /\ phase = "orders" /\ todo' = todo \ {o}
  BY DEF Treats, engine
<1>2. \A p \in Position : Entry(p)' = Entry(p) /\ (Owed(p)' <=> Owed(p)) /\ (Untreated(p)' <=> Untreated(p))
  BY <1>1 DEF Entry, Owed, Untreated
<1>3. OwnRepays' /\ CancelsDone' /\ RevertsOwed'
  BY <1>1, <1>2 DEF SeparateParts, OwnRepays, CancelsDone, RevertsOwed
<1>4. Listed'
  BY <1>1, <1>2 DEF SeparateParts, Listed
<1>5. ListedActive'
  BY <1>1, <1>2 DEF SeparateParts, ListedActive, CloseInv, TypeOK, Order
<1>6. StopsWithNothing'
  BY <1>1 DEF SeparateParts, StopsWithNothing, Ended, Settled
<1>7. QED
  BY <1>3, <1>4, <1>5, <1>6 DEF SeparateParts

\* What is left is settling.
LEMMA LeftAlone ==
    ASSUME CloseInv, SeparateParts, NEW o \in todo, NEW p \in Position, Untreated(p), o = Entry(p)
    PROVE  /\ ~Leaves(o) /\ ~LeavesActive(o)
           /\ o.active => p \in Repayable(o)
           /\ ~o.active => StillPending(o)
<1>1. o.pos = p /\ o.n = surf[p].n /\ (o.active <=> surf[p].st = "active")
  BY DEF Entry
<1>2. own[p] = 0
  BY DEF Untreated, SeparateParts, OwnRepays
<1>3. pool[p] \notin closedMarkets
  BY <1>2 DEF SeparateParts, OwnRepays
<1>4. o.n \in OrderNo
  BY <1>1 DEF CloseInv, TypeOK
<1>5. ~o.active => Key(o) \notin cancelledOrders
  BY <1>1, <1>4 DEF Untreated, SeparateParts, CancelsDone, Key
<1>6. QED
  BY <1>1, <1>3, <1>5 DEF Leaves, LeavesActive, Repayable, StillPending, Untreated

LEMMA SeparateSkip ==
    ASSUME CloseInv, SeparateParts, NEW o \in todo, Skip(o) PROVE SeparateParts'
BY EntryDone, LeftAlone DEF Skip

LEMMA SeparateRepayFails ==
    ASSUME CloseInv, SeparateParts, NEW o \in todo, RepayFails(o), smooth' PROVE SeparateParts'
<1>1. Treats(o) /\ o.active /\ Repayable(o) = {} /\ UNCHANGED engine
  BY DEF RepayFails
<1>2. UNCHANGED surf
  BY <1>1 DEF RepayFails
<1>3. QED
  BY <1>1, <1>2, EntryDone, LeftAlone

LEMMA SeparateCancelFails ==
    ASSUME CloseInv, SeparateParts, NEW o \in todo, CancelFails(o), smooth' PROVE SeparateParts'
<1>1. Treats(o) /\ ~o.active /\ ~StillPending(o) /\ UNCHANGED engine
  BY DEF CancelFails
<1>2. UNCHANGED surf
  BY <1>1 DEF CancelFails
<1>3. QED
  BY <1>1, <1>2, EntryDone, LeftAlone

\* With a pool of its own the position that is repaid is the one that is listed.
LEMMA SeparateRepay ==
    ASSUME CloseInv, SeparateParts, Separate, NEW o \in todo, Repay(o) PROVE SeparateParts'
<1>1. PICK q \in Repayable(o) : RepayOrder(q) /\ own' = [own EXCEPT ![q] = surf[q].n + 1]
  BY DEF Repay
<1>2. /\ Treats(o) /\ o.active
      /\ closedMarkets' = closedMarkets \cup {pool[o.pos]}
      /\ cancelledRepayMarkets' = cancelledRepayMarkets \ {pool[o.pos]}
      /\ UNCHANGED <<cancelledOrders, phase, round, openLeft, pool>>
      /\ phase = "orders" /\ todo' = todo \ {o}
  BY DEF Repay, Treats
<1>3. /\ q \in Position /\ surf[q].st = "active" /\ pool[q] = pool[o.pos]
      /\ surf \in [Position -> [st: SurfStatus, n: OrderNo]] /\ own \in [Position -> OrderNo]
  BY DEF Repayable, CloseInv, TypeOK
<1>4. q = o.pos /\ o = Entry(q)
  BY <1>2, <1>3, TreatsKeeps DEF Separate, SeparateParts, ListedActive
<1>5. /\ surf'[q].st = "repaying" /\ surf'[q].n = surf[q].n + 1 /\ own'[q] = surf[q].n + 1
      /\ surf[q].n \in Nat
  BY <1>1, <1>3 DEF RepayOrder, OrderNo
<1>6. \A p \in Position : p # q =>
        /\ surf'[p] = surf[p] /\ own'[p] = own[p] /\ pool[p] # pool[q]
        /\ Entry(p)' = Entry(p) /\ (Owed(p)' <=> Owed(p)) /\ (Untreated(p)' <=> Untreated(p))
  <2>1. \A p \in Position : p # q => surf'[p] = surf[p] /\ own'[p] = own[p] /\ pool[p] # pool[q]
    BY <1>1, <1>3 DEF RepayOrder, Separate
  <2>2. QED
    BY <1>2, <1>3, <2>1 DEF Entry, Owed, Untreated
<1>7. OwnRepays'
  BY <1>2, <1>3, <1>5, <1>6 DEF SeparateParts, OwnRepays
<1>8. CancelsDone'
  <2>1. \A p \in Position, k \in OrderNo :
          <<p, k>> \in cancelledOrders =>
            k <= surf'[p].n /\ (k = surf'[p].n => surf'[p].st \notin {"pending", "repaying", "stuck"})
    <3> SUFFICES ASSUME NEW p \in Position, NEW k \in OrderNo, <<p, k>> \in cancelledOrders
                 PROVE  k <= surf'[p].n /\ (k = surf'[p].n => surf'[p].st \notin {"pending", "repaying", "stuck"})
      OBVIOUS
    <3>1. k <= surf[p].n /\ (k = surf[p].n => surf[p].st \notin {"pending", "repaying", "stuck"})
      BY DEF SeparateParts, CancelsDone
    <3>2. CASE p = q
      BY <1>5, <3>1, <3>2 DEF OrderNo
    <3>3. CASE p # q
      BY <1>6, <3>1, <3>3
    <3>4. QED
      BY <3>2, <3>3
  <2>2. QED
    BY <1>2, <2>1 DEF CancelsDone
<1>9. RevertsOwed'
  BY <1>5, <1>6 DEF SeparateParts, RevertsOwed
<1>10. Listed'
  <2>1. ~Untreated(q)'
    BY <1>5 DEF Untreated
  <2>2. \A p \in Position : p # q => Entry(p) # o
    BY <1>4 DEF Entry
  <2>3. QED
    BY <1>2, <1>6, <2>1, <2>2 DEF SeparateParts, Listed
<1>11. ListedActive'
  <2>1. \A x \in todo' : x.active => x.pos # q /\ x.pos \in Position
    BY <1>2, <1>4 DEF SeparateParts, ListedActive, CloseInv, TypeOK, Order
  <2>2. QED
    BY <1>2, <1>6, <2>1 DEF SeparateParts, ListedActive
<1>12. StopsWithNothing'
  BY <1>2, <1>3 DEF SeparateParts, StopsWithNothing, Ended
<1>13. QED
  BY <1>7, <1>8, <1>9, <1>10, <1>11, <1>12 DEF SeparateParts

\* A repay that is cancelled was not one of this unwind, and is owed.
LEMMA SeparateCancel ==
    ASSUME CloseInv, SeparateParts, Separate, NEW o \in todo, Cancel(o) PROVE SeparateParts'
<1>1. /\ Treats(o) /\ ~o.active /\ ~Leaves(o) /\ StillPending(o) /\ CancelOrder(o)
      /\ cancelledOrders' = cancelledOrders \cup {Key(o)}
      /\ cancelledRepayMarkets' =
              IF o.borrow THEN cancelledRepayMarkets ELSE cancelledRepayMarkets \cup {pool[o.pos]}
      /\ UNCHANGED <<closedMarkets, own, phase, round, openLeft, pool>>
      /\ phase = "orders" /\ todo' = todo \ {o}
  BY DEF Cancel, Treats
<1>2. surf \in [Position -> [st: SurfStatus, n: OrderNo]] /\ o.pos \in Position /\ o.n = surf[o.pos].n
  BY <1>1, TreatsKeeps DEF CloseInv, TypeOK, StillPending
<1>3. PICK st \in {"cancelBorrow", "cancelRepay"} :
        surf' = [surf EXCEPT ![o.pos].st = st] /\ (st = "cancelBorrow" <=> o.borrow)
  BY <1>1 DEF CancelOrder
<1>4. surf'[o.pos].st = st /\ surf'[o.pos].n = surf[o.pos].n
  BY <1>2, <1>3
<1>5. \A p \in Position : p # o.pos => surf'[p] = surf[p]
  BY <1>2, <1>3
<1>6. surf[o.pos].st \in {"pending", "repaying", "stuck"} /\ \A x \in todo : ~x.active
  BY <1>1 DEF StillPending, Treats
<1>7. own[o.pos] = 0 \/ (own[o.pos] = surf[o.pos].n /\ surf[o.pos].st = "repaying")
  BY <1>2, <1>6 DEF SeparateParts, OwnRepays
<1>8. o.borrow \/ pool[o.pos] \notin closedMarkets
  BY <1>1 DEF Leaves
<1>9. own[o.pos] = 0
  <2>1. CASE o.borrow
    BY <1>1, <1>2, <1>6, <1>7, <2>1 DEF CloseInv, TodoNumbers
  <2>2. CASE ~o.borrow
    BY <1>2, <1>8, <2>2 DEF SeparateParts, OwnRepays
  <2>3. QED
    BY <2>1, <2>2
<1>10. OwnRepays'
  BY <1>1, <1>4, <1>5, <1>9 DEF SeparateParts, OwnRepays
<1>11. CancelsDone'
  <2>1. \A p \in Position : surf'[p].n = surf[p].n
    BY <1>4, <1>5
  <2>2. \A p \in Position :
          surf'[p].st \in {"pending", "repaying", "stuck"} => surf[p].st \in {"pending", "repaying", "stuck"} /\ p # o.pos
    BY <1>4, <1>5
  <2>3. Key(o) = <<o.pos, o.n>>
    BY DEF Key
  <2>4. \A p \in Position, k \in OrderNo :
          <<p, k>> \in cancelledOrders' => <<p, k>> \in cancelledOrders \/ (p = o.pos /\ k = surf[p].n)
    BY <1>1, <1>2, <2>3
  <2>5. \A p \in Position : surf[p].n \in Nat
    BY <1>2 DEF OrderNo
  <2>6. QED
    BY <2>1, <2>2, <2>4, <2>5 DEF SeparateParts, CancelsDone
<1>12. \A p \in Position : Owed(p) => Owed(p)'
  BY <1>1 DEF Owed
<1>13. RevertsOwed'
  <2>1. ASSUME st = "cancelRepay" PROVE Owed(o.pos)'
    BY <1>1, <1>3, <1>8, <2>1 DEF Owed
  <2>2. QED
    BY <1>4, <1>5, <1>12, <2>1 DEF SeparateParts, RevertsOwed
<1>14. Listed'
  <2>1. ~Untreated(o.pos)'
    BY <1>4 DEF Untreated
  <2>2. \A p \in Position : p # o.pos =>
          Entry(p)' = Entry(p) /\ Entry(p) # o /\ (Untreated(p)' <=> Untreated(p))
    BY <1>1, <1>5 DEF Entry, Untreated
  <2>3. QED
    BY <1>1, <1>5, <1>12, <2>1, <2>2 DEF SeparateParts, Listed
<1>15. ListedActive'
  BY <1>1, <1>6 DEF ListedActive
<1>16. StopsWithNothing'
  BY <1>1, <1>2, <1>6 DEF SeparateParts, StopsWithNothing, Ended
<1>17. QED
  BY <1>10, <1>11, <1>13, <1>14, <1>15, <1>16 DEF SeparateParts

\* What the batcher does leaves nothing untreated that was not listed or owed.
LEMMA SeparateBatcher ==
    ASSUME CloseInv, SeparateParts, NEW p \in Position, Batcher(p), smooth' PROVE SeparateParts'
<1>1. /\ UNCHANGED <<phase, round, todo, openLeft, closedMarkets, cancelledOrders,
                     cancelledRepayMarkets, own, pool>>
      /\ surf \in [Position -> [st: SurfStatus, n: OrderNo]]
  BY DEF Batcher, FillBorrow, FillRepay, SettleCancel, Becomes, engine, CloseInv, TypeOK
<1>2. PICK st \in {"active", "closed"} : surf' = [surf EXCEPT ![p].st = st]
  BY DEF Batcher, FillBorrow, FillRepay, SettleCancel, Becomes
<1>3. surf'[p].st = st /\ surf'[p].n = surf[p].n /\ \A q \in Position : q # p => surf'[q] = surf[q]
  BY <1>1, <1>2
<1>4. st = "active" =>
        \/ surf[p].st = "pending" /\ phase = "fetch"
        \/ surf[p].st = "cancelRepay" /\ phase \notin {"pending", "pendingOnly"}
  <2>1. Becomes(p, "closed") => st = "closed"
    BY <1>1, <1>3 DEF Becomes
  <2>2. QED
    BY <1>3, <2>1 DEF Batcher, FillBorrow, FillRepay, SettleCancel, Overlooks
<1>5. st = "closed" => surf[p].st \in {"repaying", "cancelBorrow"}
  <2>1. Becomes(p, "active") => st = "active"
    BY <1>1, <1>3 DEF Becomes
  <2>2. QED
    BY <2>1 DEF Batcher, FillBorrow, FillRepay, SettleCancel
<1>6. surf[p].st # "closed" /\ surf[p].st # "active"
  BY DEF Batcher, FillBorrow, FillRepay, SettleCancel
<1>7. \A q \in Position : (Owed(q)' <=> Owed(q)) /\
        (q # p => Entry(q)' = Entry(q) /\ (Untreated(q)' <=> Untreated(q)))
  BY <1>1, <1>3 DEF Owed, Entry, Untreated
<1>8. own[p] # 0 => surf[p].st = "repaying"
  BY <1>6 DEF SeparateParts, OwnRepays
<1>9. own[p] # 0 => st = "closed"
  BY <1>4, <1>8
<1>10. OwnRepays'
  BY <1>1, <1>3, <1>9 DEF SeparateParts, OwnRepays
<1>11. CancelsDone'
  BY <1>1, <1>3 DEF SeparateParts, CancelsDone
<1>12. RevertsOwed'
  BY <1>3, <1>7 DEF SeparateParts, RevertsOwed
<1>13. Listed'
  <2>1. Untreated(p)' => st = "active"
    BY <1>3 DEF Untreated
  <2>2. phase = "orders" /\ st = "active" => Owed(p)
    BY <1>4 DEF SeparateParts, RevertsOwed
  <2>3. st = "active" => phase \notin {"pending", "pendingOnly"}
    BY <1>4
  <2>4. QED
    BY <1>1, <1>3, <1>7, <2>1, <2>2, <2>3 DEF SeparateParts, Listed
<1>14. ListedActive'
  <2>1. \A x \in todo : x.active => x.pos # p /\ x.pos \in Position
    BY <1>6 DEF SeparateParts, ListedActive, CloseInv, TypeOK, Order
  <2>2. QED
    BY <1>1, <1>3, <1>7, <2>1 DEF SeparateParts, ListedActive
<1>15. StopsWithNothing'
  <2>1. ASSUME Ended, surf[p].st = "cancelRepay" PROVE FALSE
    BY <2>1 DEF SeparateParts, StopsWithNothing, Settled
  <2>2. ASSUME Ended PROVE Settled'
    BY <1>1, <1>3, <1>4, <1>5, <2>1, <2>2 DEF SeparateParts, StopsWithNothing, Settled, Ended
  <2>3. phase = "orders" => openLeft
    BY <1>6 DEF SeparateParts, StopsWithNothing, CloseInv, TypeOK
  <2>4. QED
    BY <1>1, <2>2, <2>3 DEF StopsWithNothing, Ended
<1>16. QED
  BY <1>10, <1>11, <1>12, <1>13, <1>14, <1>15 DEF SeparateParts

LEMMA SeparateNext ==
    ASSUME CloseInv, SeparateInv, [Next]_vars
    PROVE  SeparateInv'
<1> SUFFICES ASSUME smooth', Separate' PROVE SeparateParts'
  BY DEF SeparateInv
<1>1. UNCHANGED pool /\ (smooth' => smooth)
  BY DEF Next, CloseOpenOrders, FetchPositions, FetchPending, FetchFails, EndRound, Skip, Repay, RepayFails,
         Cancel, CancelFails, Treats, Batcher, FillBorrow, FillRepay, SettleCancel, Becomes, vars
<1>2. smooth /\ Separate /\ SeparateParts
  BY <1>1 DEF Separate, SeparateInv
<1>3. CASE CloseOpenOrders
  <2>1. ~FetchFails
    BY DEF FetchFails
  <2>2. QED
    BY <1>2, <1>3, <2>1, ListingStep, EndRoundStep, SeparateSkip, SeparateRepay, SeparateRepayFails,
       SeparateCancel, SeparateCancelFails DEF CloseOpenOrders
<1>4. CASE \E p \in Position : Batcher(p)
  BY <1>2, <1>4, SeparateBatcher
<1>5. CASE UNCHANGED vars
  BY <1>2, <1>5 DEF vars, engine, SeparateParts, OwnRepays, CancelsDone, RevertsOwed, Owed, Listed, Untreated, Entry,
                    ListedActive, StopsWithNothing, Ended, Settled
<1>6. QED
  BY <1>3, <1>4, <1>5 DEF Next

----------------------------------------------------------------------------
(* Where the funds are, and how far the wait is.                           *)

\* Nothing is in two places: before the sale nothing is sold, before the sweep nothing
\* is home, and the proceeds are paid once.
Places ==
    /\ held \subseteq Item /\ home \subseteq Item /\ sold \subseteq Position
    /\ held \cap sold = {} /\ held \cap home = {} /\ sold \cap home = {}
    /\ stage \in {"close", "return", "trade"} => sold = {} /\ held \subseteq Position /\ ~selling
    /\ stage # "reversed" => home = {}
    /\ selling => Proceeds \notin held \cup home

\* The balance never exceeds what there is, and every poll is counted.
Counts ==
    /\ last \in NotSeen..Cardinality(Item)
    /\ stable <= settleStableN
    /\ stage \in {"close", "return", "trade", "fill"} => stable = 0
    /\ stage = "settle" => stable < settleStableN
    /\ polls <= settleMaxPolls
    /\ quiet <= polls

SettleInv == IInv /\ Places /\ Counts

LEMMA BalanceBound ==
    ASSUME Places
    PROVE  Balance \in 0..Cardinality(Item) /\ Cardinality(Item) \in Nat
<1>1. IsFiniteSet(Item)
  BY PositionAssumption, FS_AddElement DEF Item
<1>2. held \subseteq Item
  BY DEF Places
<1>3. QED
  BY <1>1, <1>2, FS_Subset, FS_CardinalityType DEF Balance

LEMMA SettleInit == UnwindInit => Places /\ Counts
<1> SUFFICES ASSUME UnwindInit PROVE Places /\ Counts
  OBVIOUS
<1>1. Places
  BY DEF UnwindInit, Places
<1>2. Balance \in 0..Cardinality(Item) /\ Cardinality(Item) \in Nat
  BY <1>1, BalanceBound
<1>3. Counts
  BY <1>2, PollsAssumption DEF UnwindInit, Counts, NotSeen, settleStableN
<1>4. QED
  BY <1>1, <1>3

LEMMA PlacesNext ==
    ASSUME SettleInv, [UnwindNext]_uvars
    PROVE  Places'
<1>1. CASE UNCHANGED <<held, sold, home, selling>>
  <2>1. stage \notin {"close", "return", "trade"} => stage' \notin {"close", "return", "trade"}
    BY DEF UnwindNext, Unwinding, Close, CloseReturns, WaitReturn, Trade, TradeFails, WaitFill,
           Poll, PollFails, PollEnds, Sweep, Settles, Release, Pays, Arrives, uvars
  <2>2. stage = "reversed" => stage' = "reversed"
    BY DEF UnwindNext, Unwinding, Close, CloseReturns, WaitReturn, Trade, TradeFails, WaitFill,
           Poll, PollFails, PollEnds, Sweep, Settles, Release, Pays, Arrives, uvars
  <2>3. QED
    BY <1>1, <2>1, <2>2 DEF SettleInv, Places
<1>2. CASE Trade
  BY <1>2 DEF Trade, SettleInv, Places
<1>3. CASE Sweep
  BY <1>3 DEF Sweep, SweepInputs, SettleInv, Places
<1>4. ASSUME NEW p \in Position, Release(p)
      PROVE  Places'
  BY <1>4, ProceedsAssumption DEF Release, Arrives, SettleInv, Places, Item
<1>5. CASE Pays
  BY <1>5, ProceedsAssumption DEF Pays, Arrives, SettleInv, Places, Item
<1>6. \/ Trade \/ Sweep \/ Pays \/ (\E p \in Position : Release(p))
      \/ UNCHANGED <<held, sold, home, selling>>
  BY DEF UnwindNext, Unwinding, Close, CloseReturns, WaitReturn, TradeFails, WaitFill,
         Poll, PollFails, PollEnds, Settles, uvars
<1>7. QED
  BY <1>1, <1>2, <1>3, <1>4, <1>5, <1>6

LEMMA CountsNext ==
    ASSUME SettleInv, [UnwindNext]_uvars
    PROVE  Counts'
<1>1. /\ last \in Int /\ stable \in Nat /\ polls \in Nat /\ quiet \in Nat
      /\ Balance \in 0..Cardinality(Item) /\ Cardinality(Item) \in Nat
  BY BalanceBound DEF SettleInv, IInv, WaitTypes
<1>2. CASE Poll \/ PollFails
  <2>1. polls' = polls + 1 /\ quiet' = quiet + 1 /\ stage = "settle" /\ stage' \in {"settle", "sweep"}
    BY <1>2 DEF Poll, PollFails, PollEnds
  <2>2. polls < settleMaxPolls
    BY <2>1 DEF SettleInv, IInv, CountTrue
  <2>3. last' \in NotSeen..Cardinality(Item)
    <3>1. last' = Balance \/ last' = last
      BY <1>2 DEF Poll, PollFails
    <3>2. Balance \in NotSeen..Cardinality(Item)
      BY <1>1 DEF NotSeen
    <3>3. QED
      BY <3>1, <3>2 DEF SettleInv, Counts
  <2>4. stable' <= settleStableN /\ (stage' = "settle" => stable' < settleStableN)
    <3>1. CASE Poll
      BY <1>1, <2>1, <3>1 DEF Poll, PollEnds, SettleInv, Counts, settleStableN
    <3>2. CASE PollFails
      BY <1>1, <2>1, <3>2 DEF PollFails, SettleInv, Counts, settleStableN
    <3>3. QED
      BY <1>2, <3>1, <3>2
  <2>5. polls' <= settleMaxPolls /\ quiet' <= polls'
    BY <1>1, <2>1, <2>2, PollsAssumption DEF SettleInv, Counts
  <2>6. QED
    BY <2>1, <2>3, <2>4, <2>5 DEF Counts
<1>3. CASE UNCHANGED settling /\ quiet' \in {0, quiet}
  <2>1. stage = "settle" \/ stable = 0 => stable < settleStableN
    BY DEF SettleInv, Counts, settleStableN
  <2>2. stage' \in {"close", "return", "trade", "fill"} => stage \in {"close", "return", "trade", "fill"}
    BY <1>3 DEF UnwindNext, Unwinding, Close, CloseReturns, WaitReturn, Trade, TradeFails, WaitFill,
                Poll, PollFails, PollEnds, Sweep, Settles, Release, Pays, Arrives, uvars
  <2>3. stage' = "settle" => stage \in {"close", "return", "trade", "fill", "settle"}
    BY <1>3 DEF UnwindNext, Unwinding, Close, CloseReturns, WaitReturn, Trade, TradeFails, WaitFill,
                Poll, PollFails, PollEnds, Sweep, Settles, Release, Pays, Arrives, uvars
  <2>4. QED
    BY <1>1, <1>3, <2>1, <2>2, <2>3 DEF SettleInv, Counts, settling, settleStableN
<1>4. Poll \/ PollFails \/ (UNCHANGED settling /\ quiet' \in {0, quiet})
  BY DEF UnwindNext, Unwinding, Close, CloseReturns, WaitReturn, Trade, TradeFails, WaitFill,
         Sweep, Settles, Release, Pays, Arrives, uvars
<1>5. QED
  BY <1>2, <1>3, <1>4

LEMMA UnwindTypesFollow == CloseInv /\ SettleInv => UnwindTypeOK
<1> SUFFICES ASSUME CloseInv, SettleInv PROVE UnwindTypeOK
  OBVIOUS
<1>1. TypeOK
  BY DEF CloseInv
<1>2. /\ stable \in 0..settleStableN /\ polls \in 0..settleMaxPolls /\ quiet \in 0..settleMaxPolls
      /\ last \in NotSeen..Cardinality(Item)
  BY PollsAssumption DEF SettleInv, Counts, IInv, WaitTypes, settleStableN
<1>3. /\ stage \in {"close", "return", "trade", "fill", "settle", "sweep", "reversed"}
      /\ {selling, swept, late} \subseteq BOOLEAN
  BY DEF SettleInv, IInv, WaitTypes
<1>4. /\ {held, home} \subseteq SUBSET Item /\ sold \subseteq Position
      /\ held \cap sold = {} /\ held \cap home = {} /\ sold \cap home = {}
  BY DEF SettleInv, Places
<1>5. QED
  BY <1>1, <1>2, <1>3, <1>4 DEF UnwindTypeOK

----------------------------------------------------------------------------
(* Theorems. *)

\* After an acknowledged sweep something lies at the temp address only if it came after a
\* gap of more than settleStableN polls, or if the wait ran out (sweepAll).
THEOREM SweepTakesEverything == UnwindSpec => []SweepComplete
<1>1. IInv => SweepComplete
  BY DEF IInv
<1>2. QED
  BY <1>1, InitInv, NextInv, PTL DEF UnwindSpec

\* Positions in pools of their own are all closed, or their closes under way, when the unwind
\* stops of itself and the lender answered: stale and stuck repays of an earlier unwind and
\* borrows that fill between two rounds included (closeOpenOrders, engine.go:937-938).
THEOREM SeparatePoolsAreClosed == Spec => []ClosesSeparate
<1>1. Init => CloseInv /\ SeparateInv
  BY CloseInit, SeparateInit
<1>2. CloseInv /\ SeparateInv /\ [Next]_vars => (CloseInv /\ SeparateInv)'
  BY CloseOrdersNext, SeparateNext
<1>3. SeparateInv => ClosesSeparate
  BY DEF SeparateInv, SeparateParts, StopsWithNothing, ClosesSeparate, ClosesEverything
<1>4. QED
  BY <1>1, <1>2, <1>3, PTL DEF Spec

\* Every variable keeps its type, no more than maxCloseRounds rounds are made and no
\* position is repaid more often than that, and what is held, sold and home is disjoint,
\* however Surf, the DEX and the listings behave (unwindWith).
THEOREM UnwindTypes == UnwindSpec => []UnwindTypeOK
<1>1. UnwindInit => CloseInv /\ SettleInv
  BY CloseInit, InitInv, SettleInit DEF UnwindInit, SettleInv
<1>2. CloseInv /\ SettleInv /\ [UnwindNext]_uvars => (CloseInv /\ SettleInv)'
  <2> SUFFICES ASSUME CloseInv, SettleInv, [UnwindNext]_uvars PROVE CloseInv' /\ SettleInv'
    OBVIOUS
  <2>1. CloseInv'
    BY CloseNext
  <2>2. IInv'
    BY NextInv DEF SettleInv
  <2>3. QED
    BY <2>1, <2>2, PlacesNext, CountsNext DEF SettleInv
<1>3. QED
  BY <1>1, <1>2, UnwindTypesFollow, PTL DEF UnwindSpec

\* A repay this unwind has submitted is never cancelled by it: whatever a late or partial
\* listing says, whichever position of the pool Surf repays instead (closeOpenOrders).
THEOREM NeverUndoesItsRepay == UnwindSpec => OwnRepayKept
<1>1. UnwindInit => CloseInv
  BY CloseInit DEF UnwindInit
<1>2. CloseInv /\ [UnwindNext]_uvars => CloseInv'
  BY CloseNext
<1>3. CloseInv /\ [UnwindNext]_uvars =>
        [\A p \in Position :
            surf[p].st = "repaying" /\ own[p] = surf[p].n => surf'[p].st \in {"repaying", "closed"}]_vars
  BY OwnRepayStep
<1>4. QED
  BY <1>1, <1>2, <1>3, PTL DEF UnwindSpec, OwnRepayKept
=============================================================================
