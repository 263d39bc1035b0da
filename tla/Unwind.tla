------------------------------- MODULE Unwind -------------------------------
(***************************************************************************)
(* The whole reversal of a position, unwindWith in common/engine/engine.go:*)
(* closeOpenOrders (CloseOrders), then the wait for the collateral, the    *)
(* sale of what has come back, the wait until the balance is stable, and   *)
(* one sweep to the user.                                                  *)
(*                                                                         *)
(* What a close or a sale releases comes to the temp address when Surf's   *)
(* batcher and the DEX settle it, and is seen when the indexer has it.     *)
(* Nothing tells the engine that everything has come: it infers it from    *)
(* polls of the balance.  A poll stands for settlePollWait.                *)
(***************************************************************************)
EXTENDS CloseOrders, Integers, FiniteSets

CONSTANTS
    settleMaxPolls, \* the polls of settleMaxWait
    Proceeds        \* what a sale brings

ASSUME PollsAssumption == settleMaxPolls \in Nat \ {0}
ASSUME ProceedsAssumption == Proceeds \notin Position
\* A plan has finitely many legs.
ASSUME PositionAssumption == IsFiniteSet(Position)

VARIABLES
    stage,      \* where unwindWith is
    held,       \* what lies at the temp address; p is what closing p releases
    sold,       \* what the sale has taken
    home,       \* what has been swept to the user
    selling,    \* the proceeds of the sale are still to come
    last,       \* the balance of the last poll, or NotSeen
    stable,     \* polls in a row that found it unchanged
    polls,      \* polls so far
    swept,      \* the sweep was acknowledged
    quiet,      \* polls since something came
    late        \* something came after a longer gap than the engine waits for

closing == <<surf, phase, round, todo, openLeft, engine, pool, smooth>>

settling == <<last, stable, polls>>

uvars == <<closing, stage, held, sold, home, selling, settling, swept, quiet, late>>

----------------------------------------------------------------------------
settleStableN == 3

Item == Position \cup {Proceeds}

\* What LovelaceAt reads: every arrival adds to it.
Balance == Cardinality(held)

NotSeen == -1

UnwindInit ==
    /\ Init
    /\ stage = "close"
    /\ held = {} /\ sold = {} /\ home = {} /\ selling = FALSE
    /\ last = NotSeen /\ stable = 0 /\ polls = 0
    /\ swept = FALSE /\ quiet = 0 /\ late = FALSE

----------------------------------------------------------------------------
(* The engine. *)

Close ==
    /\ stage = "close"
    /\ CloseOpenOrders
    /\ UNCHANGED <<stage, held, sold, home, selling, settling, swept, quiet, late>>

\* closeOpenOrders returns, and its locals are gone.
CloseReturns ==
    /\ stage = "close" /\ phase = "done"
    /\ stage' = IF closedAny THEN "return" ELSE "trade"
    /\ closedMarkets' = {} /\ cancelledOrders' = {} /\ cancelledRepayMarkets' = {}
    /\ closedAny' = FALSE /\ didSubmit' = FALSE /\ openLeft' = FALSE
    /\ own' = [p \in Position |-> 0]
    /\ UNCHANGED <<surf, phase, round, todo, pool, smooth>>
    /\ UNCHANGED <<held, sold, home, selling, settling, swept, quiet, late>>

\* waitForBalanceIncrease: the first release has come, or batchTimeout is over.
WaitReturn ==
    /\ stage = "return"
    /\ stage' = "trade"
    /\ UNCHANGED <<closing, held, sold, home, selling, settling, swept, quiet, late>>

\* tradeAll sells the collateral that has come so far, all of it.
Trade ==
    /\ stage = "trade" /\ held # {}
    /\ sold' = held /\ held' = {} /\ selling' = TRUE
    /\ stage' \in {"fill", "settle"}    \* "settle": the reply of the submission was lost
    /\ UNCHANGED <<closing, home, settling, swept, quiet, late>>

\* Nothing to sell (a short gets its collateral back in ADA), or the swap failed.
TradeFails ==
    /\ stage = "trade"
    /\ stage' = "settle"
    /\ UNCHANGED <<closing, held, sold, home, selling, settling, swept, quiet, late>>

\* waitForBalanceIncrease again: the proceeds, something else, or batchTimeout.
WaitFill ==
    /\ stage = "fill"
    /\ stage' = "settle"
    /\ UNCHANGED <<closing, held, sold, home, selling, settling, swept, quiet, late>>

\* The deadline is looked at after the balance.
PollEnds(settled) ==
    /\ polls' = polls + 1
    /\ quiet' = quiet + 1
    /\ stage' = IF settled \/ polls + 1 >= settleMaxPolls THEN "sweep" ELSE "settle"
    /\ UNCHANGED <<closing, held, sold, home, selling, swept, late>>

\* Mutated form: a change does not start the count again.
PollKeepsCount ==
    /\ stage = "settle"
    /\ last' = Balance
    /\ stable' = IF Balance = last THEN stable + 1 ELSE stable
    /\ PollEnds(stable' >= settleStableN)

\* One round of waitBalanceStable.
Poll ==
    /\ stage = "settle"
    /\ last' = Balance
    /\ stable' = IF Balance = last THEN stable + 1 ELSE 0
    /\ PollEnds(stable' >= settleStableN)

\* The balance could not be read.
PollFails ==
    /\ stage = "settle"
    /\ UNCHANGED <<last, stable>>
    /\ PollEnds(FALSE)

\* Mutated form: only as much as the fee needs.
SweepInputsForFee == IF held = {} THEN {} ELSE {CHOOSE i \in held : TRUE}

\* BuildSweepTx forces every output of the address in.
SweepInputs == held

\* sweepAll; the job is reversed whether or not the sweep succeeds.
Sweep ==
    /\ stage = "sweep"
    /\ stage' = "reversed"
    /\ \/ /\ home' = home \cup SweepInputs
          /\ held' = held \ SweepInputs
          /\ swept' \in BOOLEAN      \* FALSE: the reply of the submission was lost
       \/ UNCHANGED <<home, held, swept>>
    /\ UNCHANGED <<closing, sold, selling, settling, quiet, late>>

Unwinding ==
    Close \/ CloseReturns \/ WaitReturn \/ Trade \/ TradeFails \/ WaitFill
        \/ Poll \/ PollFails \/ Sweep

----------------------------------------------------------------------------
(* The chain, Surf's batcher and the DEX. *)

Settles(p) ==
    /\ Batcher(p)
    /\ UNCHANGED <<stage, held, sold, home, selling, settling, swept, quiet, late>>

\* i comes to the address.  A gap of settleStableN polls is waited for, a longer one is not.
Arrives(i) ==
    /\ held' = held \cup {i}
    /\ quiet' = 0
    /\ late' = (late \/ quiet > settleStableN)
    /\ UNCHANGED <<closing, stage, sold, home, settling, swept>>

\* A repaid position releases its collateral, a cancelled borrow what it had put in.
Release(p) ==
    /\ surf[p].st = "closed"
    /\ p \notin held \cup sold \cup home
    /\ Arrives(p)
    /\ UNCHANGED selling

Pays ==
    /\ selling
    /\ selling' = FALSE
    /\ Arrives(Proceeds)

UnwindNext ==
    \/ Unwinding
    \/ \E p \in Position : Settles(p) \/ Release(p)
    \/ Pays

\* The unwind goroutine runs on; Surf, the DEX and the chain serve what they can.
UnwindSpec ==
    /\ UnwindInit /\ [][UnwindNext]_uvars
    /\ WF_uvars(Unwinding)
    /\ \A p \in Position : WF_uvars(Settles(p)) /\ WF_uvars(Release(p))
    /\ WF_uvars(Pays)

----------------------------------------------------------------------------
(* Properties. *)

\* Every variable has its type, and nothing is in two places.
UnwindTypeOK ==
    /\ TypeOK
    /\ stage \in {"close", "return", "trade", "fill", "settle", "sweep", "reversed"}
    /\ {held, home} \subseteq SUBSET Item /\ sold \subseteq Position
    /\ held \cap sold = {} /\ held \cap home = {} /\ sold \cap home = {}
    /\ last \in NotSeen..Cardinality(Item)
    /\ stable \in 0..settleStableN
    /\ polls \in 0..settleMaxPolls
    /\ {selling, swept, late} \subseteq BOOLEAN
    /\ quiet \in 0..settleMaxPolls

\* The wait ran out before the balance was stable.
TimedOut == polls = settleMaxPolls

\* One sweep is enough (engine.go:1185-1188): however the closes and the sale settle,
\* what comes in gaps of at most settleStableN polls is not left at the address.
SweepComplete == swept => held = {} \/ late \/ TimedOut

\* The reversal brings everything home.  The positions are closed under the conditions of
\* AllClosed; beyond those only three things are known to leave something behind: a
\* settlement that comes late, settlements for longer than the wait, and a failed sweep.
FundsReturn ==
    <>(\/ round = maxCloseRounds \/ ~smooth \/ ~Separate
       \/ late \/ TimedOut \/ (stage = "reversed" /\ ~swept)
       \/ Position \subseteq home \cup sold /\ (sold # {} => Proceeds \in home))
=============================================================================
