----------------------------- MODULE Lifecycle -----------------------------
(***************************************************************************)
(* The life of one leveraged position in common/engine/engine.go: who owns *)
(* a job, and what the API handlers, the build goroutine, the funding      *)
(* watcher, the unwind and sweep goroutines, the health monitor and the    *)
(* recovery after a restart do to the stored job.                          *)
(*                                                                         *)
(* They coordinate through two things only (engine.go:64-65): the job      *)
(* document in the store, always written whole from a private copy, and    *)
(* the map e.cancels, guarded by e.mu.  An action below is what one of     *)
(* them does between two points where the others can run: a store call, a  *)
(* critical section of e.mu, or a chain/HTTP call.  Jobs never share state *)
(* (the map is keyed by job id), so one job is modelled.                   *)
(***************************************************************************)
EXTENDS Naturals

CONSTANTS
    Goroutine,      \* slots for request handlers and the goroutines they spawn
    Nobody,         \* no entry for the job in e.cancels
    Legs,           \* length of job.Plan.Legs
    Calls,          \* the API calls the clients of this instance make
    SerialClient,   \* TRUE: a client waits for its call to return before the next
    CanFail,        \* TRUE: chain, lending and DEX operations may fail
    StoreFails,     \* TRUE: a store write or listing may fail
    KeyMayChange,   \* TRUE: a restart may come up with another ENGINE_ENC_KEY
    Monitored,      \* TRUE: the health monitor runs (a DexHunter client exists)
    MaxReversals,   \* bound on the Reverse calls that pass the status check
    MaxCrashes      \* bound on process crashes

ASSUME NobodyAssumption == Nobody \notin Goroutine
ASSUME LegsAssumption == Legs \in Nat
ASSUME BoundsAssumption == MaxReversals \in Nat /\ MaxCrashes \in Nat

Call == {"start", "retry", "reverse", "sweep"}

ASSUME CallsAssumption == Calls \subseteq Call

VARIABLES
    store,      \* the persisted job document
    cancels,    \* e.cancels[job.ID]: the goroutine whose context it cancels
    ctxDone,    \* ctxDone[g]: the loop context of g has been cancelled
    pc,         \* where each goroutine is
    job,        \* job[g]: the *Job copy g works on
    health,     \* the copy the health monitor is refreshing, or NoJob
    boot,       \* "up", or the status RecoverInflight lists next
    key,        \* e.encSecret opens the job's sealed key
    chain,      \* what the temp address holds and has lent
    reversals,  \* Reverse calls that passed the status check so far
    crashes     \* crashes so far

others == <<health, boot, key, reversals, crashes>>

vars == <<store, cancels, ctxDone, pc, job, chain, others>>

----------------------------------------------------------------------------
(* Data. *)

Status == {"awaiting_funding", "running", "open", "reversing", "reversed", "failed"}

\* The fields of Job the lifecycle reads: its status and the number of "borrow"
\* steps recorded, from which run() resumes.
Job == [status: Status \cup {"none"}, legs: 0..Legs]

NoJob == [status |-> "none", legs |-> 0]

\* ada: "full" when the lovelace at the temp address passes the test of funded()
\* (half of FundingLovelace), "low" when funds are there but do not, "none" when
\* it is empty.  lent: a lending position is open.  landed: the user's funding
\* transaction has confirmed.
Chain == [ada: {"none", "low", "full"}, lent: BOOLEAN, landed: BOOLEAN]

\* Where a goroutine can be.  "register" to "markRunning" are beginLifecycle;
\* "waiting" and "polling" waitFundingThenRun; "cancelSweep" sweepOnCancel;
\* "retry*" Retry; "run" to "openSave" run; "failSave" and "failDelete" fail;
\* "reverse*" Reverse; "sweep*" Sweep; "unwind" unwind; "unwind*" unwindWith.
HandlerPC == {"register", "begin", "retryRegister", "retryRecord",
              "reverseMark", "reverseSignal", "sweepCheck"}

BuildPC == {"trade", "loop", "leg", "legRecord", "legTrade"}

UnwindPC == {"unwindRecord", "unwindClose", "unwindSweep"}

\* The points at which a goroutine holds, or has been cancelled out of, a
\* registration in e.cancels.
OwnerPC == BuildPC \cup {"begin", "markRunning", "waiting", "polling", "retryRecord",
                         "run", "opError", "finalize", "failSave", "failDelete"}

PC == HandlerPC \cup OwnerPC \cup UnwindPC \cup
      {"idle", "openSave", "unwind", "cancelSweep", "reversedSave",
       "sweepQuery", "sweepMark", "sweepUnwind", "sweepNote", "sweepLoose"}

----------------------------------------------------------------------------
(* Helpers. *)

Goto(g, l) == pc' = [pc EXCEPT ![g] = l]

\* A step after which only control has changed.
OnlyMoves == UNCHANGED <<store, cancels, ctxDone, job, chain, others>>

\* e.save, the tail of record(): the whole document is replaced by a copy.  An
\* error of the store is ignored.
Save(j) ==
    \/ store' = j
    \/ StoreFails /\ UNCHANGED store

\* A goroutine sets the status of its copy and saves it.
SaveAs(g, s) ==
    /\ Save([job[g] EXCEPT !.status = s])
    /\ job' = [job EXCEPT ![g].status = s]

\* A goroutine returns; its copy and its context are garbage.
Return(g) ==
    /\ Goto(g, "idle")
    /\ job' = [job EXCEPT ![g] = NoJob]
    /\ ctxDone' = [ctxDone EXCEPT ![g] = FALSE]

Idle(g) == pc[g] = "idle"

\* An API request for call c enters the server on slot g.
Receives(g, c) ==
    /\ boot = "up" /\ Idle(g)
    /\ c \in Calls
    /\ SerialClient => \A h \in Goroutine : pc[h] \notin HandlerPC

\* store.Get followed by the handler's status check.
Loads(g, allowed, l) ==
    /\ store.status \in allowed
    /\ job' = [job EXCEPT ![g] = store]
    /\ Goto(g, l)

\* Mutated form: the exists check is dropped.
TakesOwnershipUnchecked(g, l) ==
    /\ cancels' = g
    /\ Goto(g, l)
    /\ UNCHANGED <<job, ctxDone>>

\* The critical section in which a goroutine takes the job, or is turned away
\* because someone has it.
TakesOwnership(g, l) ==
    \/ /\ cancels = Nobody
       /\ cancels' = g
       /\ Goto(g, l)
       /\ UNCHANGED <<job, ctxDone>>
    \/ /\ cancels # Nobody
       /\ Return(g)
       /\ UNCHANGED cancels

\* funded(): at least half the expected lovelace is at the address.  A failed
\* balance read counts as not funded.
SeesFunding == chain.ada = "full"

SeesNoFunding == chain.ada # "full" \/ CanFail

\* sweep(): everything loose goes to the user and a step is recorded, or it
\* fails, which its callers ignore.
SweepFunds(g) ==
    \/ /\ chain.ada # "none"
       /\ chain' = [chain EXCEPT !.ada = "none"]
       /\ Save(job[g])
    \/ /\ CanFail \/ chain.ada = "none"
       /\ UNCHANGED <<store, chain>>

Init ==
    /\ store = NoJob
    /\ cancels = Nobody
    /\ ctxDone = [g \in Goroutine |-> FALSE]
    /\ pc = [g \in Goroutine |-> "idle"]
    /\ job = [g \in Goroutine |-> NoJob]
    /\ chain = [ada |-> "none", lent |-> FALSE, landed |-> FALSE]
    /\ health = NoJob
    /\ boot = "up"
    /\ key = TRUE
    /\ reversals = 0
    /\ crashes = 0

----------------------------------------------------------------------------
(* Open, Start, beginLifecycle. *)

\* Open persists the new job (an error there ends it) and calls beginLifecycle on
\* the same goroutine.
Open(g) ==
    /\ boot = "up" /\ Idle(g)
    /\ store.status = "none"
    /\ LET j == [status |-> "awaiting_funding", legs |-> 0] IN
        /\ store' = j
        /\ job' = [job EXCEPT ![g] = j]
    /\ Goto(g, "register")
    /\ UNCHANGED <<cancels, ctxDone, chain, others>>

Start(g) ==
    /\ Receives(g, "start")
    /\ Loads(g, {"awaiting_funding", "failed"}, "register")
    /\ UNCHANGED <<store, cancels, ctxDone, chain, others>>

\* beginLifecycle's critical section: a second owner is turned away.
Register(g) ==
    /\ pc[g] = "register"
    /\ TakesOwnership(g, "begin")
    /\ UNCHANGED <<store, chain, others>>

Begin(g) ==
    /\ pc[g] = "begin"
    /\ \/ SeesFunding /\ Goto(g, "markRunning")
       \/ SeesNoFunding /\ Goto(g, "waiting")
    /\ OnlyMoves

MarkRunning(g) ==
    /\ pc[g] = "markRunning"
    /\ SaveAs(g, "running")
    /\ Goto(g, "run")
    /\ UNCHANGED <<cancels, ctxDone, chain, others>>

----------------------------------------------------------------------------
(* waitFundingThenRun, sweepOnCancel. *)

\* The check of the context, at the top of the loop and in its select.
WaitCheck(g) ==
    /\ pc[g] = "waiting" /\ ~ctxDone[g]
    /\ Goto(g, "polling")
    /\ OnlyMoves

\* A cancelled watcher drops the job's registration (whoever holds it by now).
WaitCancelled(g) ==
    /\ pc[g] = "waiting" /\ ctxDone[g]
    /\ cancels' = Nobody
    /\ Goto(g, "cancelSweep")
    /\ UNCHANGED <<store, ctxDone, job, chain, others>>

WaitPoll(g) ==
    /\ pc[g] = "polling"
    /\ \/ SeesFunding /\ Goto(g, "markRunning")
       \/ SeesNoFunding /\ Goto(g, "waiting")
    /\ OnlyMoves

\* The deadline fundingWaitTimeout has passed.
WaitExpire(g) ==
    /\ pc[g] = "polling"
    /\ SeesNoFunding
    /\ cancels' = Nobody
    /\ Return(g)
    /\ UNCHANGED <<store, chain, others>>

CancelSweep(g) ==
    /\ pc[g] = "cancelSweep"
    /\ \/ key /\ SweepFunds(g)
       \/ ~key /\ UNCHANGED <<store, chain>>
    /\ Goto(g, "reversedSave")
    /\ UNCHANGED <<cancels, ctxDone, job, others>>

----------------------------------------------------------------------------
(* Retry. *)

Retry(g) ==
    /\ Receives(g, "retry")
    /\ Loads(g, {"failed"}, "retryRegister")
    /\ UNCHANGED <<store, cancels, ctxDone, chain, others>>

RetryRegister(g) ==
    /\ pc[g] = "retryRegister"
    /\ TakesOwnership(g, "retryRecord")
    /\ UNCHANGED <<store, chain, others>>

RetryRecord(g) ==
    /\ pc[g] = "retryRecord"
    /\ SaveAs(g, "running")
    /\ Goto(g, "run")
    /\ UNCHANGED <<cancels, ctxDone, chain, others>>

----------------------------------------------------------------------------
(* run, the build loop, and fail. *)

\* An operation of the loop can end in an error when it fails, or when a
\* Reverse has cancelled the context its HTTP calls run under; what it has
\* submitted by then may have been accepted all the same.
OpErrs(g) == CanFail \/ ctxDone[g]

\* run opens the key (a failure there goes straight to fail), records that it
\* builds or resumes, and then, as the direction and the recorded progress ask
\* for, checks the context, trades first, or enters the leg loop.
Run(g) ==
    /\ pc[g] = "run"
    /\ \/ /\ key
          /\ Save(job[g])
          /\ \/ Goto(g, "loop") \/ Goto(g, "trade")
             \/ ctxDone[g] /\ Goto(g, "unwindRecord")
       \/ /\ ~key
          /\ Goto(g, "failSave")
          /\ UNCHANGED store
    /\ UNCHANGED <<cancels, ctxDone, job, chain, others>>

\* tradeAll before the loop: the ADA becomes target token.
Trade(g) ==
    /\ pc[g] = "trade"
    /\ \/ /\ chain.ada # "none"
          /\ chain' = [chain EXCEPT !.ada = "low"]
          /\ Save(job[g])
          /\ Goto(g, "loop")
       \/ /\ OpErrs(g) \/ chain.ada = "none"
          /\ chain' \in {chain, [chain EXCEPT !.ada = IF @ = "none" THEN @ ELSE "low"]}
          /\ Goto(g, "opError")
          /\ UNCHANGED store
    /\ UNCHANGED <<cancels, ctxDone, job, others>>

\* Mutated form: the loop runs while i <= len(Legs).
LoopHeadOffByOne(g) ==
    /\ pc[g] = "loop" /\ job[g].legs <= Legs
    /\ ~ctxDone[g]
    /\ Save(job[g])
    /\ Goto(g, "leg")
    /\ UNCHANGED <<cancels, ctxDone, job, chain, others>>

\* The head of the leg loop: the cancellation check, then the "leg start" step.
LoopHead(g) ==
    /\ pc[g] = "loop" /\ job[g].legs < Legs
    /\ \/ /\ ctxDone[g]
          /\ Goto(g, "unwindRecord")
          /\ UNCHANGED store
       \/ /\ ~ctxDone[g]
          /\ Save(job[g])
          /\ Goto(g, "leg")
    /\ UNCHANGED <<cancels, ctxDone, job, chain, others>>

\* Mutated form: the last leg is skipped.
LoopExitEarly(g) ==
    /\ pc[g] = "loop" /\ job[g].legs + 1 >= Legs
    /\ Goto(g, "finalize")
    /\ OnlyMoves

LoopExit(g) ==
    /\ pc[g] = "loop" /\ job[g].legs = Legs
    /\ Goto(g, "finalize")
    /\ OnlyMoves

\* What a leg can leave at the address and with the lender.
AfterBorrow ==
    {[chain EXCEPT !.ada = a, !.lent = TRUE] : a \in {"low", "full"}}

\* pickBorrowMarket and openLeg up to the submission of the borrow.
LegSubmit(g) ==
    /\ pc[g] = "leg"
    /\ \/ /\ chain.ada # "none" /\ chain' \in AfterBorrow
          /\ Goto(g, "legRecord")
       \/ /\ OpErrs(g) \/ chain.ada = "none"
          /\ chain' = chain \/ (chain.ada # "none" /\ chain' \in AfterBorrow)
          /\ Goto(g, "opError")
    /\ UNCHANGED <<store, cancels, ctxDone, job, others>>

\* signSubmit records the "borrow" step that run() counts on a resume.
LegRecord(g) ==
    /\ pc[g] = "legRecord"
    /\ LET j == [job[g] EXCEPT !.legs = @ + 1] IN
        /\ Save(j)
        /\ job' = [job EXCEPT ![g] = j]
    /\ Goto(g, "legTrade")
    /\ UNCHANGED <<cancels, ctxDone, chain, others>>

\* The waits for confirmation and proceeds, then the trade of the proceeds: that of a
\* long spends ADA, that of a short brings it back.
LegTrade(g) ==
    /\ pc[g] = "legTrade"
    /\ \E a \in {"low", "full"} :
          chain' = [chain EXCEPT !.ada = IF @ = "none" THEN @ ELSE a]
    /\ \/ /\ Save(job[g])
          /\ Goto(g, "loop")
       \/ /\ OpErrs(g)
          /\ Goto(g, "opError")
          /\ UNCHANGED store
    /\ UNCHANGED <<cancels, ctxDone, job, others>>

\* failOrUnwind: an error after a cancellation is the reversal's doing.
OpError(g) ==
    /\ pc[g] = "opError"
    /\ \/ ctxDone[g] /\ Goto(g, "unwindRecord")
       \/ ~ctxDone[g] /\ Goto(g, "failSave")
    /\ OnlyMoves

FailSave(g) ==
    /\ pc[g] = "failSave"
    /\ SaveAs(g, "failed")
    /\ Goto(g, "failDelete")
    /\ UNCHANGED <<cancels, ctxDone, chain, others>>

\* Mutated form: fail does not drop the registration.
FailDeleteMissing(g) ==
    /\ pc[g] = "failDelete"
    /\ Return(g)
    /\ UNCHANGED <<store, cancels, chain, others>>

\* The registration is dropped whoever holds it by now.
FailDelete(g) ==
    /\ pc[g] = "failDelete"
    /\ cancels' = Nobody
    /\ Return(g)
    /\ UNCHANGED <<store, chain, others>>

\* Mutated form: the late cancellation check is dropped.
FinalizeUnchecked(g) ==
    /\ pc[g] = "finalize"
    /\ cancels' = Nobody
    /\ Goto(g, "openSave")
    /\ UNCHANGED <<store, ctxDone, job, chain, others>>

\* The cancellation check and the removal of the registration, in one critical
\* section of e.mu.
Finalize(g) ==
    /\ pc[g] = "finalize"
    /\ \/ /\ ctxDone[g]
          /\ Goto(g, "unwindRecord")
          /\ UNCHANGED cancels
       \/ /\ ~ctxDone[g]
          /\ cancels' = Nobody
          /\ Goto(g, "openSave")
    /\ UNCHANGED <<store, ctxDone, job, chain, others>>

OpenSave(g) ==
    /\ pc[g] = "openSave"
    /\ Save([job[g] EXCEPT !.status = "open"])
    /\ Return(g)
    /\ UNCHANGED <<cancels, chain, others>>

----------------------------------------------------------------------------
(* Reverse and unwindWith. *)

Reverse(g) ==
    /\ Receives(g, "reverse")
    /\ reversals < MaxReversals
    /\ store.status \in Status \ {"reversing"}
    /\ job' = [job EXCEPT ![g] = [store EXCEPT !.status = "reversing"]]
    /\ Goto(g, "reverseMark")
    /\ reversals' = reversals + 1
    /\ UNCHANGED <<store, cancels, ctxDone, health, boot, key, chain, crashes>>

\* The error of this Save, under the request's 15 s context, is discarded too.
ReverseMark(g) ==
    /\ pc[g] = "reverseMark"
    /\ Save(job[g])
    /\ Goto(g, "reverseSignal")
    /\ UNCHANGED <<cancels, ctxDone, job, chain, others>>

\* Mutated form: Reverse unwinds itself whether or not the job has an owner.
ReverseSignalUnwinds(g) ==
    /\ pc[g] = "reverseSignal"
    /\ ctxDone' = [h \in Goroutine |-> IF h = cancels THEN TRUE ELSE ctxDone[h]]
    /\ cancels' = Nobody
    /\ Goto(g, "unwind")
    /\ UNCHANGED <<store, job, chain, others>>

\* The critical section of Reverse: cancel the owner and leave the unwind to it,
\* or unwind here when the job has no owner.
ReverseSignal(g) ==
    /\ pc[g] = "reverseSignal"
    /\ \/ /\ cancels # Nobody
          /\ ctxDone' = [ctxDone EXCEPT ![cancels] = TRUE, ![g] = FALSE]
          /\ cancels' = Nobody
          /\ Goto(g, "idle")
          /\ job' = [job EXCEPT ![g] = NoJob]
       \/ /\ cancels = Nobody
          /\ Goto(g, "unwind")
          /\ UNCHANGED <<cancels, ctxDone, job>>
    /\ UNCHANGED <<store, chain, others>>

\* unwind opens the sealed key; without it the job fails.
Unwind(g) ==
    /\ pc[g] = "unwind"
    /\ \/ key /\ Goto(g, "unwindRecord")
       \/ ~key /\ Goto(g, "failSave")
    /\ OnlyMoves

UnwindRecord(g) ==
    /\ pc[g] = "unwindRecord"
    /\ Save(job[g])
    /\ Goto(g, "unwindClose")
    /\ UNCHANGED <<cancels, ctxDone, job, chain, others>>

\* closeOpenOrders and the waits (module CloseOrders has the detail): the
\* released collateral comes back to the address.
UnwindClose(g) ==
    /\ pc[g] = "unwindClose"
    /\ \/ /\ chain.lent
          /\ \E a \in {"low", "full"} : chain' = [chain EXCEPT !.ada = a, !.lent = FALSE]
       \/ (~chain.lent \/ CanFail) /\ UNCHANGED chain
    /\ Save(job[g])
    /\ Goto(g, "unwindSweep")
    /\ UNCHANGED <<cancels, ctxDone, job, others>>

UnwindSweep(g) ==
    /\ pc[g] = "unwindSweep"
    /\ SweepFunds(g)
    /\ Goto(g, "reversedSave")
    /\ UNCHANGED <<cancels, ctxDone, job, others>>

\* The last write of unwindWith, Sweep and sweepOnCancel.
ReversedSave(g) ==
    /\ pc[g] = "reversedSave"
    /\ Save([job[g] EXCEPT !.status = "reversed"])
    /\ Return(g)
    /\ UNCHANGED <<cancels, chain, others>>

----------------------------------------------------------------------------
(* Sweep. *)

Sweep(g) ==
    /\ Receives(g, "sweep")
    /\ Loads(g, Status \ {"running", "reversing"}, "sweepCheck")
    /\ UNCHANGED <<store, cancels, ctxDone, chain, others>>

SweepCheck(g) ==
    /\ pc[g] = "sweepCheck"
    /\ \/ /\ cancels = Nobody /\ key
          /\ Goto(g, "sweepQuery")
          /\ UNCHANGED <<job, ctxDone>>
       \/ (cancels # Nobody \/ ~key) /\ Return(g)
    /\ UNCHANGED <<store, cancels, chain, others>>

\* hasOpenPositions: a failed query counts as open positions.
SweepQuery(g) ==
    /\ pc[g] = "sweepQuery"
    /\ \/ (chain.lent \/ CanFail) /\ Goto(g, "sweepMark")
       \/ ~chain.lent /\ Goto(g, "sweepNote")
    /\ OnlyMoves

\* The "open positions found" step is recorded under the old status ...
SweepMark(g) ==
    /\ pc[g] = "sweepMark"
    /\ Save(job[g])
    /\ Goto(g, "sweepUnwind")
    /\ UNCHANGED <<cancels, ctxDone, job, chain, others>>

\* ... and only then is the job saved as reversing and unwound.
SweepUnwind(g) ==
    /\ pc[g] = "sweepUnwind"
    /\ SaveAs(g, "reversing")
    /\ Goto(g, "unwindRecord")
    /\ UNCHANGED <<cancels, ctxDone, chain, others>>

SweepNote(g) ==
    /\ pc[g] = "sweepNote"
    /\ Save(job[g])
    /\ Goto(g, "sweepLoose")
    /\ UNCHANGED <<cancels, ctxDone, job, chain, others>>

SweepLoose(g) ==
    /\ pc[g] = "sweepLoose"
    /\ SweepFunds(g)
    /\ Goto(g, "reversedSave")
    /\ UNCHANGED <<cancels, ctxDone, job, others>>

----------------------------------------------------------------------------
(* Health monitor, funding, crash and recovery. *)

\* pollHealth lists the open jobs, each as a private copy.
HealthList ==
    /\ Monitored /\ health = NoJob
    /\ store.status = "open"
    /\ health' = store
    /\ UNCHANGED <<store, cancels, ctxDone, pc, job, boot, key, chain, reversals, crashes>>

\* RefreshHealth, after its price request, writes the copy back; a failed
\* request leaves the job alone.
HealthSave ==
    /\ health # NoJob
    /\ \/ Save(health)
       \/ CanFail /\ UNCHANGED store
    /\ health' = NoJob
    /\ UNCHANGED <<cancels, ctxDone, pc, job, boot, key, chain, reversals, crashes>>

\* The user's funding transaction confirms.
FundingLands ==
    /\ store.status # "none" /\ ~chain.landed
    /\ chain' = [chain EXCEPT !.ada = "full", !.landed = TRUE]
    /\ UNCHANGED <<store, cancels, ctxDone, pc, job, others>>

\* Goroutines, contexts and the map die with the process; the next one may have
\* another secret than the one the job, if there is one, was sealed with.
Crash ==
    /\ crashes < MaxCrashes
    /\ crashes' = crashes + 1
    /\ cancels' = Nobody
    /\ ctxDone' = [g \in Goroutine |-> FALSE]
    /\ pc' = [g \in Goroutine |-> "idle"]
    /\ job' = [g \in Goroutine |-> NoJob]
    /\ health' = NoJob
    /\ boot' = "awaiting_funding"
    /\ key' \in IF KeyMayChange /\ store.status # "none" THEN BOOLEAN ELSE {TRUE}
    /\ UNCHANGED <<store, chain, reversals>>

\* RecoverInflight lists one status after the other; each job it finds goes
\* through beginLifecycle (which returns before the next job or status) or, for
\* a reversing job, to an unwind goroutine.
Recovering(s) ==
    /\ boot = s
    /\ \A h \in Goroutine : pc[h] \notin {"register", "begin"}

AfterBoot(s) ==
    CASE s = "awaiting_funding" -> "running"
      [] s = "running" -> "reversing"
      [] OTHER -> "up"

Recover(g, s, l) ==
    /\ Recovering(s)
    /\ store.status = s /\ Idle(g)
    /\ job' = [job EXCEPT ![g] = store]
    /\ Goto(g, l)
    /\ boot' = AfterBoot(s)
    /\ UNCHANGED <<store, cancels, ctxDone, health, key, chain, reversals, crashes>>

\* Mutated form: recovery finds no reversing job.
RecoverSkipReversing(s) ==
    /\ Recovering(s)
    /\ store.status # s \/ s = "reversing"
    /\ boot' = AfterBoot(s)
    /\ UNCHANGED <<store, cancels, ctxDone, pc, job, health, key, chain, reversals, crashes>>

\* Nothing to recover in status s, or listing it failed.
RecoverSkip(s) ==
    /\ Recovering(s)
    /\ store.status # s \/ StoreFails
    /\ boot' = AfterBoot(s)
    /\ UNCHANGED <<store, cancels, ctxDone, pc, job, health, key, chain, reversals, crashes>>

RecoverInflight ==
    \/ \E g \in Goroutine :
        \/ Recover(g, "awaiting_funding", "register")
        \/ Recover(g, "running", "register")
        \/ Recover(g, "reversing", "unwind")
    \/ \E s \in {"awaiting_funding", "running", "reversing"} : RecoverSkip(s)

----------------------------------------------------------------------------
(* The specification. *)

\* A client's request arrives.
Request(g) == Open(g) \/ Start(g) \/ Retry(g) \/ Reverse(g) \/ Sweep(g)

LifecycleStep(g) ==
    \/ Register(g) \/ Begin(g) \/ MarkRunning(g)
    \/ WaitCheck(g) \/ WaitCancelled(g) \/ WaitPoll(g) \/ WaitExpire(g)
    \/ CancelSweep(g)
    \/ RetryRegister(g) \/ RetryRecord(g)

RunStep(g) ==
    \/ Run(g) \/ Trade(g) \/ LoopHead(g) \/ LoopExit(g)
    \/ LegSubmit(g) \/ LegRecord(g) \/ LegTrade(g)
    \/ OpError(g) \/ FailSave(g) \/ FailDelete(g)
    \/ Finalize(g) \/ OpenSave(g)

ReverseStep(g) ==
    \/ ReverseMark(g) \/ ReverseSignal(g)
    \/ Unwind(g) \/ UnwindRecord(g) \/ UnwindClose(g) \/ UnwindSweep(g) \/ ReversedSave(g)
    \/ SweepCheck(g) \/ SweepQuery(g) \/ SweepMark(g) \/ SweepUnwind(g)
    \/ SweepNote(g) \/ SweepLoose(g)

GoStep(g) == LifecycleStep(g) \/ RunStep(g) \/ ReverseStep(g)

Next ==
    \/ \E g \in Goroutine : Request(g) \/ GoStep(g)
    \/ HealthList \/ HealthSave
    \/ FundingLands
    \/ Crash \/ RecoverInflight

Spec == Init /\ [][Next]_vars

\* The Go scheduler runs every goroutine that can run, and every wait in them has
\* a deadline; main runs the recovery to its end.  Nothing is assumed of clients,
\* of the user's funding transaction or of crashes.  The watcher's deadline is a
\* wall-clock time, so of its infinitely many polls one comes after it.
Fairness ==
    /\ \A g \in Goroutine : WF_vars(GoStep(g)) /\ SF_vars(WaitExpire(g))
    /\ WF_vars(RecoverInflight)

FairSpec == Spec /\ Fairness

----------------------------------------------------------------------------
(* Properties that hold. *)

Builds(g) == pc[g] \in BuildPC

\* g spends the UTxOs of the temp address to give them back.
Unwinds(g) == pc[g] \in UnwindPC \cup {"cancelSweep"}

\* Every variable has its type; in particular a job never records more borrows
\* than its plan has legs, however often it is resumed from a stale copy.
TypeOK ==
    /\ store \in Job
    /\ cancels \in Goroutine \cup {Nobody}
    /\ ctxDone \in [Goroutine -> BOOLEAN]
    /\ pc \in [Goroutine -> PC]
    /\ job \in [Goroutine -> Job]
    /\ health \in Job
    /\ boot \in {"up", "awaiting_funding", "running", "reversing"}
    /\ key \in BOOLEAN
    /\ chain \in Chain
    /\ reversals \in 0..MaxReversals
    /\ crashes \in 0..MaxCrashes

\* The entry in e.cancels always belongs to a goroutine that is alive, has not
\* been cancelled, and is at a point from which it still drops the entry itself;
\* and a cancelled context is only ever that of a goroutine on its way out.  A
\* leaked entry would make the job unstartable: Start would be ignored and Retry
\* and Sweep refused until the process restarts.
Registry ==
    /\ cancels # Nobody => ~ctxDone[cancels] /\ pc[cancels] \in OwnerPC
    /\ \A g \in Goroutine :
        ctxDone[g] => pc[g] \in OwnerPC \cup UnwindPC \cup {"cancelSweep", "reversedSave"}

\* A job is open only with every leg of its plan recorded, whichever stale copy
\* Start, Retry, Sweep, the recovery or the health monitor writes back last.
OpenComplete ==
    /\ store.status = "open" => store.legs = Legs
    /\ health.status = "open" => health.legs = Legs
    /\ \A g \in Goroutine :
        job[g].status = "open" \/ pc[g] \in {"finalize", "openSave"} => job[g].legs = Legs

\* Until a Reverse is accepted, repeated and overlapping Open, Start, Retry, Sweep and
\* recovery never leave two goroutines submitting the transactions of the loop.
AtMostOneBuilder ==
    reversals = 0 => \A g, h \in Goroutine : Builds(g) /\ Builds(h) => g = h

\* "running two unwinds against the same temp UTxOs concurrently would produce
\* conflicting txs" (engine.go:475-476): an unwind has the address to itself.
UnwindExclusive ==
    \A g, h \in Goroutine : g # h /\ Unwinds(g) => ~Unwinds(h) /\ ~Builds(h)

\* Where a cancelled owner has a check of its context still ahead of it.  Not
\* among them: the points before run has opened the key, whose error goes to fail
\* unchecked, and those after the last check, "failSave" and "failDelete".
Cancellable == BuildPC \cup {"waiting", "opError", "finalize"}

\* A goroutine that a Reverse cancels while a check of its context is still ahead
\* takes the reversal over and brings the job to reversed, whatever fails but the
\* process.
CancelHonoured ==
    \A g \in Goroutine :
        (ctxDone[g] /\ pc[g] \in Cancellable) ~> (store.status = "reversed" \/ boot # "up")

\* The job is always given back: no registration is held for ever, even by a
\* watcher whose funding never comes or a loop whose every operation fails.
RegistrationReleased == (cancels # Nobody) ~> (cancels = Nobody)

\* After a restart with the same secret a job found reversing is unwound to the end.
RestartFinishesReversal ==
    (boot = "reversing" /\ store.status = "reversing") ~> (store.status = "reversed" \/ ~key)
=============================================================================
