----------------------------- MODULE BuildLoop -----------------------------
(***************************************************************************)
(* The loop that builds a position, between its transactions: run,         *)
(* openLeg and tradeAll of common/engine/engine.go, the two batchers they  *)
(* wait for, and the resumption by Retry or after a restart from the steps *)
(* the job has recorded.                                                   *)
(*                                                                         *)
(* A leg supplies all the collateral held and borrows against it; the      *)
(* proceeds are swapped into the next leg's collateral.  So the working    *)
(* capital is in one place at a time, and "capital" is that place.         *)
(* Ownership and reversals of a job are in Lifecycle, amounts in Sizing.   *)
(***************************************************************************)
EXTENDS Naturals

CONSTANTS
    Legs,           \* legs of the job's plan
    MaxFaults,      \* bound on calls that fail or time out without need
    MaxReplies,     \* bound on submissions whose reply is lost
    MaxSaves,       \* bound on lost writes of the job
    MaxCrashes      \* bound on restarts of the process

ASSUME LegsAssumption == Legs \in Nat
ASSUME BoundsAssumption ==
    MaxFaults \in Nat /\ MaxReplies \in Nat /\ MaxSaves \in Nat /\ MaxCrashes \in Nat

VARIABLES
    dir,        \* direction of the job
    saved,      \* the job in the store
    job,        \* the copy of the loop goroutine
    pc,         \* where the loop is, "idle" if there is none
    leg,        \* the loop variable i
    blind,      \* the balance before the wait could not be read and counts as 0
    watch,      \* a funding watcher of the recovery is waiting
    capital,    \* where the working capital is
    lent,       \* legs whose collateral the lender holds
    sent,       \* borrow orders a node has accepted
    resumed,    \* the loop has been resumed at least once
    faults, replies, saves, crashes

vars == <<dir, saved, job, pc, leg, blind, watch, capital, lent, sent, resumed,
          faults, replies, saves, crashes>>

chain == <<capital, lent, sent>>
bounds == <<faults, replies, saves, crashes>>

----------------------------------------------------------------------------
\* The steps of a job that resumption counts, and its status.
Job == [status: {"running", "failed", "open"}, traded: BOOLEAN, borrows: Nat]

\* "bor" and "col": held at the temp address, in the borrowed asset or in the
\* collateral; "swapSent" and "orderSent": in a transaction a node has accepted;
\* "swap" and "order": in a batcher's order on chain.
Place == {"bor", "swapSent", "swap", "col", "orderSent", "order"}

PC == {"idle", "run", "trade", "recordTrade", "batch", "head",
       "recordBorrow", "confirm", "proceeds", "fail"}

\* A long borrows ADA, a short swaps into ADA: the fee reserve is always there.
AdaHeld(place) == (dir = "long") <=> (place = "bor")

Init ==
    /\ dir \in {"long", "short"}
    /\ saved = [status |-> "running", traded |-> FALSE, borrows |-> 0]
    /\ job = saved
    /\ pc = "run" /\ leg = 0 /\ blind = FALSE /\ watch = FALSE
    /\ capital = IF dir = "long" THEN "bor" ELSE "col"
    /\ lent = 0 /\ sent = 0 /\ resumed = FALSE
    /\ faults = 0 /\ replies = 0 /\ saves = 0 /\ crashes = 0

----------------------------------------------------------------------------
(* Steps of the loop. *)

\* save: the document is replaced, or the write fails and nobody notices.  A lost write
\* stands for those of the following notes too, which would carry the same steps.
Save(j) ==
    \/ saved' = j /\ UNCHANGED saves
    \/ saves < MaxSaves /\ saves' = saves + 1 /\ UNCHANGED saved

\* A call fails, or a wait ends before what it waits for comes.
Fault == faults < MaxFaults /\ faults' = faults + 1

\* The balance a wait starts from: it is read, or the failed read passes for 0.
Snapshot ==
    \/ blind' = FALSE /\ UNCHANGED faults
    \/ blind' = TRUE /\ Fault

\* A node accepts a transaction; the reply of SubmitRaw may still be lost, since after
\* an error of the first endpoint the second one refuses a known transaction.
Accepted(recording) ==
    \/ pc' = recording /\ UNCHANGED replies
    \/ replies < MaxReplies /\ replies' = replies + 1 /\ pc' = "fail"

\* Mutated form: the recorded borrows are not counted.
RunFromStart ==
    /\ pc = "run"
    /\ leg' = 0
    /\ pc' = IF dir = "long" /\ (~job.traded \/ capital = "bor") THEN "trade" ELSE "head"
    /\ UNCHANGED <<dir, saved, job, blind, watch, chain, resumed, bounds>>

\* Mutated form: a resumed long does not look for a stranded base asset.
RunNoCatchUp ==
    /\ pc = "run"
    /\ leg' = IF job.borrows > Legs THEN Legs ELSE job.borrows
    /\ pc' = IF dir = "long" /\ ~job.traded THEN "trade" ELSE "head"
    /\ UNCHANGED <<dir, saved, job, blind, watch, chain, resumed, bounds>>

\* run up to its leg loop: completed legs are skipped, a long whose initial trade is
\* recorded only sells the base asset it finds stranded, if it can read the balance.
Run ==
    /\ pc = "run"
    /\ leg' = IF job.borrows > Legs THEN Legs ELSE job.borrows
    /\ \/ /\ dir = "long" /\ (~job.traded \/ capital = "bor")
          /\ pc' = "trade"
          /\ UNCHANGED faults
       \/ /\ dir = "short" \/ (job.traded /\ capital # "bor")
          /\ pc' = "head"
          /\ UNCHANGED faults
       \/ /\ dir = "long" /\ job.traded /\ capital = "bor"
          /\ Fault
          /\ pc' = "head"
    /\ UNCHANGED <<dir, saved, job, blind, watch, chain, resumed, replies, saves, crashes>>

\* tradeAll up to the submission: all of the borrowed asset, if there is any.
Trade ==
    /\ pc = "trade"
    /\ \/ /\ capital = "bor"
          /\ capital' = "swapSent"
          /\ Accepted("recordTrade")
          /\ Snapshot
       \/ /\ capital # "bor"
          /\ pc' = "fail"
          /\ UNCHANGED <<capital, blind, faults, replies>>
       \/ /\ Fault
          /\ pc' = "fail"
          /\ UNCHANGED <<capital, blind, replies>>
    /\ UNCHANGED <<dir, saved, job, leg, watch, lent, sent, resumed, saves, crashes>>

RecordTrade ==
    /\ pc = "recordTrade"
    /\ job' = [job EXCEPT !.traded = TRUE]
    /\ Save(job')
    /\ pc' = "batch"
    /\ UNCHANGED <<dir, leg, blind, watch, chain, resumed, faults, replies, crashes>>

\* Mutated form: a timeout of the DEX batch is taken for its delivery.
BatchIgnoresTimeout ==
    /\ pc = "batch"
    /\ pc' = "head"
    /\ UNCHANGED <<dir, saved, job, leg, blind, watch, chain, resumed, bounds>>

\* waitForBalanceIncrease after a swap.  With an unread balance before it, the fee
\* reserve of a short passes for the proceeds.
Batch ==
    /\ pc = "batch"
    /\ \/ /\ capital = "col" \/ (blind /\ AdaHeld("col"))
          /\ pc' = "head"
          /\ UNCHANGED faults
       \/ /\ capital = "bor" \* the swap was dropped
          /\ pc' = "fail"
          /\ UNCHANGED faults
       \/ /\ capital # "col" /\ Fault
          /\ pc' = "fail"
    /\ UNCHANGED <<dir, saved, job, leg, blind, watch, chain, resumed, replies, saves, crashes>>

\* Mutated form: one leg too many.
OpenLegPast ==
    /\ pc = "head" /\ leg <= Legs
    /\ capital = "col"
    /\ capital' = "orderSent" /\ sent' = sent + 1
    /\ Accepted("recordBorrow")
    /\ UNCHANGED <<dir, saved, job, leg, blind, watch, lent, resumed, faults, saves, crashes>>

\* Mutated form: the borrow is recorded before it is submitted.
OpenLegRecordsFirst ==
    /\ pc = "head" /\ leg < Legs
    /\ job' = [job EXCEPT !.borrows = @ + 1]
    /\ saved' = job'
    /\ \/ capital = "col" /\ capital' = "orderSent" /\ sent' = sent + 1 /\ pc' = "confirm"
       \/ pc' = "fail" /\ UNCHANGED <<capital, sent>>
    /\ UNCHANGED <<dir, leg, blind, watch, lent, resumed, bounds>>

\* pickBorrowMarket, and openLeg up to the submission: all the collateral held.
OpenLeg ==
    /\ pc = "head" /\ leg < Legs
    /\ \/ /\ capital = "col"
          /\ capital' = "orderSent" /\ sent' = sent + 1
          /\ Accepted("recordBorrow")
          /\ Snapshot
       \/ /\ capital # "col"
          /\ pc' = "fail"
          /\ UNCHANGED <<capital, sent, blind, faults, replies>>
       \/ /\ Fault
          /\ pc' = "fail"
          /\ UNCHANGED <<capital, sent, blind, replies>>
    /\ UNCHANGED <<dir, saved, job, leg, watch, lent, resumed, saves, crashes>>

RecordBorrow ==
    /\ pc = "recordBorrow"
    /\ job' = [job EXCEPT !.borrows = @ + 1]
    /\ Save(job')
    /\ pc' = "confirm"
    /\ UNCHANGED <<dir, leg, blind, watch, chain, resumed, faults, replies, crashes>>

\* WaitConfirmed.
Confirm ==
    /\ pc = "confirm"
    /\ \/ /\ capital \in {"order", "bor"}
          /\ pc' = "proceeds"
          /\ UNCHANGED faults
       \/ /\ capital = "col" \* the order was dropped
          /\ pc' = "fail"
          /\ UNCHANGED faults
       \/ /\ Fault
          /\ pc' = "fail"
    /\ UNCHANGED <<dir, saved, job, leg, blind, watch, chain, resumed, replies, saves, crashes>>

\* waitForBalanceIncrease after a borrow; for a long the fee reserve may pass for
\* the proceeds.
Proceeds ==
    /\ pc = "proceeds"
    /\ \/ /\ capital = "bor" \/ (blind /\ AdaHeld("bor"))
          /\ leg' = leg + 1
          /\ pc' = "trade"
          /\ UNCHANGED faults
       \/ /\ capital # "bor" /\ Fault
          /\ pc' = "fail"
          /\ UNCHANGED leg
    /\ UNCHANGED <<dir, saved, job, blind, watch, chain, resumed, replies, saves, crashes>>

\* fail: the loop ends, the job may be retried.
Fail ==
    /\ pc = "fail"
    /\ job' = [job EXCEPT !.status = "failed"]
    /\ Save(job')
    /\ pc' = "idle"
    /\ UNCHANGED <<dir, leg, blind, watch, chain, resumed, faults, replies, crashes>>

\* All legs are done: the position is open.
Open ==
    /\ pc = "head" /\ leg >= Legs
    /\ job' = [job EXCEPT !.status = "open"]
    /\ Save(job')
    /\ pc' = "idle"
    /\ UNCHANGED <<dir, leg, blind, watch, chain, resumed, faults, replies, crashes>>

Loop ==
    \/ Run \/ Trade \/ RecordTrade \/ Batch
    \/ OpenLeg \/ RecordBorrow \/ Confirm \/ Proceeds \/ Fail \/ Open

----------------------------------------------------------------------------
(* Resumption and restart. *)

\* The loop starts anew from the job as the store has it.
Resume ==
    /\ job' = [saved EXCEPT !.status = "running"]
    /\ Save(job')
    /\ pc' = "run"
    /\ resumed' = TRUE

Retry ==
    /\ pc = "idle" /\ saved.status = "failed"
    /\ Resume
    /\ UNCHANGED <<dir, leg, blind, watch, chain, faults, replies, crashes>>

\* The process restarts; RecoverInflight finds the job if it is stored as running.
Crash ==
    /\ crashes < MaxCrashes
    /\ crashes' = crashes + 1
    /\ pc' = "idle"
    /\ watch' = (saved.status = "running")
    /\ UNCHANGED <<dir, saved, job, leg, blind, chain, resumed, faults, replies, saves>>

\* funded, at once or for the watcher, depends on the ADA at the address.
Recover ==
    /\ watch /\ pc = "idle"
    /\ watch' = FALSE
    /\ Resume
    /\ UNCHANGED <<dir, leg, blind, chain, faults, replies, crashes>>

\* The watcher gives up.
RecoverExpires ==
    /\ watch
    /\ watch' = FALSE
    /\ UNCHANGED <<dir, saved, job, pc, leg, blind, chain, resumed, bounds>>

----------------------------------------------------------------------------
(* The chain and the batchers. *)

\* A transaction gets into a block.
Lands ==
    /\ \/ capital = "swapSent" /\ capital' = "swap"
       \/ capital = "orderSent" /\ capital' = "order"
    /\ UNCHANGED <<dir, saved, job, pc, leg, blind, watch, lent, sent, resumed, bounds>>

\* A transaction is dropped: its inputs are free again.
Drops ==
    /\ Fault
    /\ \/ capital = "swapSent" /\ capital' = "bor"
       \/ capital = "orderSent" /\ capital' = "col"
    /\ UNCHANGED <<dir, saved, job, pc, leg, blind, watch, lent, sent, resumed, replies, saves, crashes>>

\* The DEX batcher fills the swap; Surf's takes the collateral and pays the loan.
Fills ==
    /\ \/ capital = "swap" /\ capital' = "col" /\ UNCHANGED lent
       \/ capital = "order" /\ capital' = "bor" /\ lent' = lent + 1
    /\ UNCHANGED <<dir, saved, job, pc, leg, blind, watch, sent, resumed, bounds>>

Next ==
    \/ Loop
    \/ Retry \/ Crash \/ Recover \/ RecoverExpires
    \/ Lands \/ Drops \/ Fills

Spec == Init /\ [][Next]_vars

\* The loop runs on, its waits are bounded, batchers fill; a user who sees a failed
\* job retries it.
FairSpec == Spec /\ WF_vars(Loop) /\ WF_vars(Lands) /\ WF_vars(Fills) /\ WF_vars(Retry)

----------------------------------------------------------------------------
(* Properties. *)

\* Every variable has its type; the loop variable never runs past the plan.
TypeOK ==
    /\ dir \in {"long", "short"}
    /\ saved \in Job /\ job \in Job
    /\ pc \in PC
    /\ leg \in 0..Legs
    /\ blind \in BOOLEAN /\ watch \in BOOLEAN /\ resumed \in BOOLEAN
    /\ capital \in Place
    /\ lent \in Nat /\ sent \in Nat
    /\ faults \in 0..MaxFaults /\ replies \in 0..MaxReplies
    /\ saves \in 0..MaxSaves /\ crashes \in 0..MaxCrashes

\* However often it is resumed, the loop borrows each leg of its plan once, and once
\* more at most for each submission it cannot know of: one whose reply, whose write or
\* whose process was lost before the record ("skip completed legs", engine.go:622).
OrdersBounded == sent <= Legs + replies + saves + crashes

\* The lender never holds more legs than were ordered, and a leg that is recorded was
\* ordered: resumption never skips a leg that no node has accepted.
RecordsTrue == lent <= sent /\ job.borrows <= sent /\ saved.borrows <= sent

\* A loop that was never resumed opens the position when every leg is lent and the
\* last swap has come back, unless a short could not read its balance before it.
FirstRunOpensBuilt ==
    ~resumed /\ job.status = "open" /\ (dir = "long" \/ ~blind) => lent = Legs /\ capital = "col"

\* A long that is retried as long as it fails ends up open, if no record was lost.
LongOpens ==
    dir = "long" ~> (saved.status = "open" \/ replies + saves + crashes > 0)

=============================================================================
