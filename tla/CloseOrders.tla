---------------------------- MODULE CloseOrders ----------------------------
(***************************************************************************)
(* How an unwind closes what the temp address has open at the lender:      *)
(* closeOpenOrders (common/engine/engine.go) against the Surf client       *)
(* (common/sources/surf/client.go).                                        *)
(*                                                                         *)
(* The engine works in rounds: it lists the orders and positions, treats   *)
(* each listed one, waits, and lists again.  Surf's batcher fills and      *)
(* settles orders at any time, so a listed entry may be out of date when   *)
(* it is treated, or be missing; listings may fail wholly or in part,      *)
(* submissions may fail or lose their reply, and an earlier unwind may     *)
(* have left repays.  An action treats one entry, from the checks to the   *)
(* answer of the submission.                                               *)
(***************************************************************************)
EXTENDS Naturals

CONSTANTS
    Position,       \* the borrows the loop has made
    PoolName,       \* lending pools (order.MarketID)
    Assignments     \* the pools the loop may have borrowed from, leg by leg

ASSUME AssignmentsAssumption == Assignments \subseteq [Position -> PoolName]

VARIABLES
    surf,               \* what the lender has of each position
    phase,              \* "fetch", "pending", "pendingOnly", "orders" or "done"
    round,              \* rounds completed
    todo,               \* listed entries of the round still to be treated
    openLeft,           \* the listing of the round was not empty
    didSubmit,          \* something was submitted in the round
    closedMarkets,      \* pools a repay was submitted for
    cancelledOrders,    \* pending orders a cancel was submitted for
    cancelledRepayMarkets,  \* pools whose stale repay was cancelled
    closedAny,          \* the result of closeOpenOrders
    own,                \* own[p]: the last repay of p submitted and acknowledged, or 0
    pool,               \* pool[p]: the lending pool p is in
    smooth              \* no failure, lost reply, late fill or overlooked order so far

engine == <<closedMarkets, cancelledOrders, cancelledRepayMarkets, closedAny, didSubmit, own>>

vars == <<surf, phase, round, todo, openLeft, engine, pool, smooth>>

----------------------------------------------------------------------------
(* Data. *)

maxCloseRounds == 6

\* "pending": the borrow order waits to be filled; "active": a position;
\* "repaying": a repay order waits to be filled; "stuck": one that never will be;
\* "cancelBorrow", "cancelRepay": the order is cancelled, but still listed.
\* n tells the orders of one position apart.
SurfStatus == {"pending", "active", "repaying", "stuck", "cancelBorrow", "cancelRepay", "closed"}

OrderNo == 0..(maxCloseRounds + 1)

\* An entry of FetchOrders.
Order == [pos: Position, active: BOOLEAN, borrow: BOOLEAN, n: OrderNo]

Entry(p) ==
    [pos |-> p, active |-> surf[p].st = "active",
     borrow |-> surf[p].st \in {"pending", "active", "cancelBorrow"}, n |-> surf[p].n]

Entries == {Entry(p) : p \in {q \in Position : surf[q].st # "closed"}}

Key(o) == <<o.pos, o.n>>

Init ==
    /\ surf \in [Position -> {[st |-> "pending", n |-> 0], [st |-> "active", n |-> 0],
                             [st |-> "repaying", n |-> 1], [st |-> "stuck", n |-> 1]}]
    /\ phase = "fetch" /\ round = 0 /\ todo = {}
    /\ openLeft = FALSE /\ didSubmit = FALSE
    /\ closedMarkets = {} /\ cancelledOrders = {} /\ cancelledRepayMarkets = {}
    /\ closedAny = FALSE
    /\ own = [p \in Position |-> 0]
    /\ pool \in Assignments
    /\ smooth = TRUE

----------------------------------------------------------------------------
(* The engine. *)

\* FetchOrders first asks for the active positions.
FetchPositions ==
    /\ phase = "fetch"
    /\ \/ /\ todo' = {o \in Entries : o.active}
          /\ phase' = "pending"
          /\ UNCHANGED smooth
       \/ /\ todo' = {}
          /\ phase' = "pendingOnly"
          /\ smooth' = (smooth /\ \A o \in Entries : ~o.active)
    /\ didSubmit' = FALSE
    /\ UNCHANGED <<surf, round, openLeft, closedMarkets, cancelledOrders, cancelledRepayMarkets, closedAny, own, pool>>

\* Then for the pending orders; an error of only one of the two queries is dropped.
FetchPending ==
    /\ \/ /\ phase \in {"pending", "pendingOnly"}
          /\ todo' = todo \cup {o \in Entries : ~o.active}
          /\ UNCHANGED smooth
       \/ /\ phase = "pending"
          /\ smooth' = (smooth /\ \A o \in Entries : o.active)
          /\ UNCHANGED todo
    /\ openLeft' = (todo' # {})
    /\ phase' = "orders"
    /\ UNCHANGED <<surf, round, engine, pool>>

\* The pools, or both queries, could not be read.
FetchFails ==
    /\ phase \in {"fetch", "pendingOnly"}
    /\ phase' = "done"
    /\ smooth' = FALSE
    /\ UNCHANGED <<surf, round, todo, openLeft, engine, pool>>

\* The next listed entry: the positions come before the pending orders.
Treats(o) ==
    /\ phase = "orders" /\ o \in todo
    /\ o.active \/ \A x \in todo : ~x.active
    /\ todo' = todo \ {o}
    /\ UNCHANGED <<phase, round, openLeft, pool>>

\* Mutated form: the repays of this unwind are not told apart.
LeavesNoRepay(o) == ~o.active /\ Key(o) \in cancelledOrders

\* A cancelled order, or a repay of this unwind, is settling.
Leaves(o) ==
    \/ ~o.active /\ Key(o) \in cancelledOrders
    \/ ~o.active /\ ~o.borrow /\ pool[o.pos] \in closedMarkets

\* The position's repay is under way.
LeavesActive(o) == o.active /\ pool[o.pos] \in closedMarkets

Skip(o) ==
    /\ Treats(o)
    /\ Leaves(o) \/ LeavesActive(o)
    /\ UNCHANGED <<surf, engine, smooth>>

\* BuildClose does not repay the position it is given: freshOutRef takes the first
\* active one of the pool.
Repayable(o) == {q \in Position : pool[q] = pool[o.pos] /\ surf[q].st = "active"}

RepayOrder(q) == surf' = [surf EXCEPT ![q] = [st |-> "repaying", n |-> surf[q].n + 1]]

Repay(o) ==
    /\ Treats(o)
    /\ o.active /\ ~LeavesActive(o)
    /\ \E q \in Repayable(o) :
        /\ RepayOrder(q)
        /\ own' = [own EXCEPT ![q] = surf[q].n + 1]
    /\ closedMarkets' = closedMarkets \cup {pool[o.pos]}
    /\ cancelledRepayMarkets' = cancelledRepayMarkets \ {pool[o.pos]}
    /\ closedAny' = TRUE /\ didSubmit' = TRUE
    /\ UNCHANGED <<cancelledOrders, smooth>>

\* The build or the submission failed, or seems to have.
RepayFails(o) ==
    /\ Treats(o)
    /\ o.active /\ ~LeavesActive(o)
    /\ \/ UNCHANGED surf
       \/ \E q \in Repayable(o) : RepayOrder(q)
    /\ smooth' = (smooth /\ Repayable(o) = {})
    /\ UNCHANGED engine

\* The listed order can still be cancelled.
StillPending(o) ==
    surf[o.pos].n = o.n /\ surf[o.pos].st \in {"pending", "repaying", "stuck"}

CancelOrder(o) ==
    surf' = [surf EXCEPT ![o.pos].st = IF o.borrow THEN "cancelBorrow" ELSE "cancelRepay"]

\* Mutated form: a cancelled repay's pool is not remembered.
CancelForgets(o) ==
    /\ Treats(o)
    /\ ~o.active /\ ~Leaves(o)
    /\ StillPending(o)
    /\ CancelOrder(o)
    /\ cancelledOrders' = cancelledOrders \cup {Key(o)}
    /\ closedAny' = TRUE
    /\ UNCHANGED <<didSubmit, closedMarkets, cancelledRepayMarkets, own, smooth>>

\* An unfilled borrow or a repay of an earlier unwind is cancelled.
Cancel(o) ==
    /\ Treats(o)
    /\ ~o.active /\ ~Leaves(o)
    /\ StillPending(o)
    /\ CancelOrder(o)
    /\ cancelledOrders' = cancelledOrders \cup {Key(o)}
    /\ cancelledRepayMarkets' =
            IF o.borrow THEN cancelledRepayMarkets ELSE cancelledRepayMarkets \cup {pool[o.pos]}
    /\ closedAny' = TRUE /\ didSubmit' = TRUE
    /\ UNCHANGED <<closedMarkets, own, smooth>>

\* The build, the submission or the wait for its confirmation failed.
CancelFails(o) ==
    /\ Treats(o)
    /\ ~o.active /\ ~Leaves(o)
    /\ \/ UNCHANGED surf
       \/ StillPending(o) /\ CancelOrder(o)
    /\ smooth' = (smooth /\ ~StillPending(o))
    /\ UNCHANGED engine

\* A cancelled repay owes its pool another one once the position is active again.
AwaitingRevert == cancelledRepayMarkets \ closedMarkets # {}

\* Nothing is open, or nothing more to do.
StopsHere == ~openLeft \/ (~didSubmit /\ ~AwaitingRevert)

\* Mutated form: one round too many.
EndRoundOffByOne ==
    /\ phase = "orders" /\ todo = {}
    /\ \/ StopsHere /\ phase' = "done" /\ UNCHANGED round
       \/ /\ ~StopsHere
          /\ round' = round + 1
          /\ phase' = IF round <= maxCloseRounds THEN "fetch" ELSE "done"
    /\ UNCHANGED <<surf, todo, openLeft, engine, pool, smooth>>

EndRound ==
    /\ phase = "orders" /\ todo = {}
    /\ \/ StopsHere /\ phase' = "done" /\ UNCHANGED round
       \/ /\ ~StopsHere
          /\ round' = round + 1
          /\ phase' = IF round + 1 < maxCloseRounds THEN "fetch" ELSE "done"
    /\ UNCHANGED <<surf, todo, openLeft, engine, pool, smooth>>

CloseOpenOrders ==
    \/ FetchPositions \/ FetchPending \/ FetchFails \/ EndRound
    \/ \E o \in todo : Skip(o) \/ Repay(o) \/ RepayFails(o) \/ Cancel(o) \/ CancelFails(o)

----------------------------------------------------------------------------
(* Surf's batcher. *)

Becomes(p, st) ==
    /\ surf' = [surf EXCEPT ![p].st = st]
    /\ UNCHANGED <<phase, round, todo, openLeft, engine, pool>>

\* p turns active between the two queries of a listing: it is in neither.
Overlooks(p) == phase \in {"pending", "pendingOnly"} /\ surf'[p].st = "active"

FillBorrow(p) ==
    /\ surf[p].st = "pending"
    /\ Becomes(p, "active")
    /\ smooth' = (smooth /\ phase = "fetch")

FillRepay(p) ==
    /\ surf[p].st = "repaying"
    /\ Becomes(p, "closed")
    /\ UNCHANGED smooth

SettleCancel(p) ==
    /\ \/ surf[p].st = "cancelBorrow" /\ Becomes(p, "closed")
       \/ surf[p].st = "cancelRepay" /\ Becomes(p, "active")
    /\ smooth' = (smooth /\ ~Overlooks(p))

Batcher(p) == FillBorrow(p) \/ FillRepay(p) \/ SettleCancel(p)

Next == CloseOpenOrders \/ \E p \in Position : Batcher(p)

Spec == Init /\ [][Next]_vars

----------------------------------------------------------------------------
(* Properties. *)

\* Every variable has its type; no more than maxCloseRounds rounds are made.
TypeOK ==
    /\ surf \in [Position -> [st: SurfStatus, n: OrderNo]]
    /\ phase \in {"fetch", "pending", "pendingOnly", "orders", "done"}
    /\ round \in 0..maxCloseRounds
    /\ todo \subseteq Order
    /\ {openLeft, didSubmit, closedAny} \subseteq BOOLEAN
    /\ closedMarkets \subseteq PoolName
    /\ cancelledOrders \subseteq Position \X OrderNo
    /\ cancelledRepayMarkets \subseteq PoolName
    /\ own \in [Position -> OrderNo]
    /\ pool \in Assignments
    /\ smooth \in BOOLEAN

\* A repay this unwind has submitted is never cancelled by it ("that would undo our
\* own repay", engine.go:944), however late or partial the listings are.
OwnRepayKept ==
    [][\A p \in Position :
        surf[p].st = "repaying" /\ own[p] = surf[p].n => surf'[p].st \in {"repaying", "closed"}]_vars

\* Only closes under way remain: cancelled borrows and repays of this unwind.
Settled ==
    \A p \in Position :
        \/ surf[p].st \in {"closed", "cancelBorrow"}
        \/ surf[p].st = "repaying" /\ own[p] = surf[p].n

\* The unwind has ended of itself, not because its rounds ran out.
Ended == phase = "done" /\ round < maxCloseRounds

\* No two positions share a pool.
Separate == \A p, q \in Position : pool[p] = pool[q] => p = q

\* With positions in pools of their own and a lender that answers, every position is
\* closed in the end unless the rounds run out, those with a stale or stuck repay of an
\* earlier unwind included: the round that cancels one is never the last, nor does the
\* unwind stop before the position it frees is repaid (engine.go:1066-1078).
AllClosed ==
    <>(\/ round = maxCloseRounds \/ ~smooth \/ ~Separate
       \/ \A p \in Position : surf[p].st = "closed")

----------------------------------------------------------------------------
(* What the comments say and the code does not do. *)

\* closeOpenOrders "closes everything the temp address has open at the lending
\* source, LOOPING until nothing new is left to submit" (engine.go:937-938).
ClosesEverything == Ended /\ smooth => Settled

\* What it does: with positions in pools of their own, listings that show what is there
\* and submissions that are answered, it stops with nothing left to close.
ClosesSeparate == Separate => ClosesEverything
=============================================================================
