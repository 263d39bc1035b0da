-------------------------- MODULE BuildLoopProofs --------------------------
(***************************************************************************)
(* Proofs about BuildLoop: its invariants hold for every number of legs    *)
(* and every number of faults.                                             *)
(***************************************************************************)
EXTENDS BuildLoop, TLAPS

----------------------------------------------------------------------------
(* The inductive invariant. *)

\* An order the loop is about to record, an order the lender has yet to fill.
Recording == IF pc = "recordBorrow" THEN 1 ELSE 0
Ordering == IF capital \in {"orderSent", "order"} THEN 1 ELSE 0

\* The submissions whose record may be missing.
Unrecorded == replies + saves + crashes

\* Inside the plan the loop variable counts the recorded borrows; while a borrow is
\* awaited it is one behind.
LegInv ==
    /\ pc \in {"recordBorrow", "confirm", "proceeds"} => leg < Legs
    /\ pc \in {"trade", "recordTrade", "batch", "head", "recordBorrow"} =>
          leg = Legs \/ job.borrows <= leg
    /\ pc \in {"confirm", "proceeds"} => job.borrows <= leg + 1

\* The loop's copy and the stored job both miss at most the unrecorded submissions.
RecordsInv ==
    /\ sent <= job.borrows + Recording + Unrecorded
    /\ sent <= saved.borrows + Recording + Unrecorded
    /\ job.borrows + Recording <= sent
    /\ saved.borrows + Recording <= sent
    /\ lent + Ordering <= sent

\* Where a loop that was never resumed has the capital, and how many legs are lent.
Awaited == IF capital = "bor" THEN leg + 1 ELSE leg

FirstInv ==
    ~resumed =>
        /\ pc = "run" => /\ lent = 0 /\ job.borrows = 0 /\ ~job.traded
                         /\ capital = IF dir = "long" THEN "bor" ELSE "col"
        /\ pc = "trade" => \/ capital = "bor" /\ lent = leg
                           \/ capital = "order" /\ lent + 1 = leg
        /\ pc \in {"recordTrade", "batch", "head"} =>
              capital \notin {"orderSent", "order"} /\ lent = leg
        /\ pc = "head" /\ (dir = "long" \/ ~blind) => capital = "col"
        /\ pc \in {"recordBorrow", "confirm"} =>
              capital \in {"orderSent", "order", "bor", "col"} /\ lent = Awaited
        /\ pc = "proceeds" => capital \in {"order", "bor"} /\ lent = Awaited
        /\ job.status = "open" => pc = "idle"
        /\ pc = "idle" /\ job.status = "open" /\ (dir = "long" \/ ~blind) =>
              lent = Legs /\ capital = "col"

IInv == TypeOK /\ LegInv /\ RecordsInv /\ OrdersBounded /\ FirstInv

----------------------------------------------------------------------------
(* Saving. *)

\* A write replaces the stored job or is counted as lost.
LEMMA SaveEffect ==
    ASSUME NEW j \in Job, Save(j), TypeOK
    PROVE  /\ saved' \in Job /\ saves' \in 0..MaxSaves
           /\ \/ saved' = j /\ saves' = saves
              \/ saved' = saved /\ saves' = saves + 1
  BY BoundsAssumption DEF Save, TypeOK

\* The fields of a job.
LEMMA JobFields ==
    ASSUME NEW j \in Job
    PROVE  /\ j.borrows \in Nat /\ j.traded \in BOOLEAN
           /\ j.status \in {"running", "failed", "open"}
  BY DEF Job

\* A copy with another status.
LEMMA WithStatus ==
    ASSUME NEW j \in Job, NEW s \in {"running", "failed", "open"}
    PROVE  /\ [j EXCEPT !.status = s] \in Job
           /\ [j EXCEPT !.status = s].borrows = j.borrows
           /\ [j EXCEPT !.status = s].traded = j.traded
           /\ [j EXCEPT !.status = s].status = s
  BY DEF Job

\* A copy with a trade recorded.
LEMMA WithTrade ==
    ASSUME NEW j \in Job
    PROVE  /\ [j EXCEPT !.traded = TRUE] \in Job
           /\ [j EXCEPT !.traded = TRUE].borrows = j.borrows
           /\ [j EXCEPT !.traded = TRUE].status = j.status
  BY DEF Job

\* A copy with a borrow recorded.
LEMMA WithBorrow ==
    ASSUME NEW j \in Job
    PROVE  /\ [j EXCEPT !.borrows = @ + 1] \in Job
           /\ [j EXCEPT !.borrows = @ + 1].borrows = j.borrows + 1
           /\ [j EXCEPT !.borrows = @ + 1].status = j.status
  BY DEF Job

----------------------------------------------------------------------------
(* Every step preserves the invariant. *)

\* The initial states satisfy it.
LEMMA InitIInv == Init => IInv
<1> SUFFICES ASSUME Init PROVE IInv
  OBVIOUS
<1>1. saved = [status |-> "running", traded |-> FALSE, borrows |-> 0] /\ job = saved
  BY DEF Init
<1>2. saved \in Job /\ saved.borrows = 0 /\ saved.traded = FALSE /\ saved.status = "running"
  BY <1>1 DEF Job
<1>3. TypeOK
  <2>1. saved \in Job /\ job \in Job
    BY <1>1, <1>2
  <2>2. /\ blind \in BOOLEAN /\ watch \in BOOLEAN /\ resumed \in BOOLEAN
        /\ dir \in {"long", "short"} /\ pc \in PC
    BY DEF Init, PC
  <2>3. capital \in Place
    BY DEF Init, Place
  <2>4. /\ leg \in 0..Legs /\ lent \in Nat /\ sent \in Nat
        /\ faults \in 0..MaxFaults /\ replies \in 0..MaxReplies
        /\ saves \in 0..MaxSaves /\ crashes \in 0..MaxCrashes
    BY LegsAssumption, BoundsAssumption DEF Init
  <2> QED
    BY <2>1, <2>2, <2>3, <2>4 DEF TypeOK
<1>4. LegInv
  BY <1>1, <1>2 DEF Init, LegInv
<1>5. RecordsInv
  BY <1>1, <1>2 DEF Init, RecordsInv, Recording, Ordering, Unrecorded
<1>6. OrdersBounded
  BY LegsAssumption DEF Init, OrdersBounded
<1>7. FirstInv
  BY <1>1, <1>2 DEF Init, FirstInv
<1> QED
  BY <1>3, <1>4, <1>5, <1>6, <1>7 DEF IInv

\* Entering the loop: the loop variable starts at the recorded borrows.
LEMMA RunIInv == ASSUME IInv, Run PROVE IInv'
<1> USE DEF IInv
<1>1. saved \in Job /\ job \in Job /\ saved' = saved /\ job' = job
  BY DEF TypeOK, Run
<1>2. job.borrows \in Nat /\ saved.borrows \in Nat
  BY <1>1, JobFields
<1>3. TypeOK'
  BY <1>1, <1>2, LegsAssumption, BoundsAssumption DEF TypeOK, Run, Fault, PC, Place, chain, bounds
<1>4. LegInv'
  BY <1>1, <1>2, LegsAssumption DEF TypeOK, LegInv, Run, Fault, chain, bounds
<1>5. RecordsInv'
  BY <1>1, <1>2, BoundsAssumption
     DEF TypeOK, RecordsInv, Recording, Ordering, Unrecorded, Run, Fault, chain, bounds
<1>6. OrdersBounded'
  BY <1>1, <1>2, LegsAssumption, BoundsAssumption
     DEF TypeOK, LegInv, RecordsInv, OrdersBounded, Recording, Unrecorded, Run, Fault, chain, bounds
<1>7. FirstInv'
  BY <1>1, <1>2, LegsAssumption DEF TypeOK, FirstInv, Awaited, AdaHeld, Run, Fault, chain, bounds
<1> QED
  BY <1>3, <1>4, <1>5, <1>6, <1>7

\* A swap is submitted, or the loop fails.
LEMMA TradeIInv == ASSUME IInv, Trade PROVE IInv'
<1> USE DEF IInv
<1>1. saved \in Job /\ job \in Job /\ saved' = saved /\ job' = job
  BY DEF TypeOK, Trade
<1>2. job.borrows \in Nat /\ saved.borrows \in Nat
  BY <1>1, JobFields
<1>3. /\ sent \in Nat /\ lent \in Nat /\ leg \in Nat /\ Legs \in Nat
      /\ replies \in Nat /\ saves \in Nat /\ crashes \in Nat
  BY LegsAssumption, BoundsAssumption DEF TypeOK
<1>4. \/ /\ capital = "bor" /\ capital' = "swapSent" /\ sent' = sent
         /\ \/ pc' = "recordTrade" /\ replies' = replies
            \/ pc' = "fail" /\ replies' = replies + 1
      \/ pc' = "fail" /\ capital' = capital /\ sent' = sent /\ replies' = replies
  BY DEF Trade, Accepted
<1>5. blind' \in BOOLEAN /\ faults' \in 0..MaxFaults /\ replies' \in 0..MaxReplies
  <2>1. replies' \in 0..MaxReplies
    BY BoundsAssumption DEF TypeOK, Trade, Accepted
  <2>2. blind' \in BOOLEAN
    BY DEF TypeOK, Trade, Snapshot
  <2>3. faults' \in 0..MaxFaults
    BY BoundsAssumption DEF TypeOK, Trade, Snapshot, Fault
  <2> QED
    BY <2>1, <2>2, <2>3
<1>6. /\ pc = "trade" /\ leg' = leg /\ lent' = lent /\ saves' = saves /\ crashes' = crashes
      /\ dir' = dir /\ watch' = watch /\ resumed' = resumed
  BY DEF Trade
<1>7. TypeOK'
  <2>1. pc' \in PC /\ capital' \in Place
    BY <1>4 DEF TypeOK, PC, Place
  <2>2. sent' \in Nat
    BY <1>3, <1>4
  <2> QED
    BY <1>1, <1>5, <1>6, <2>1, <2>2 DEF TypeOK
<1>8. LegInv'
  BY <1>1, <1>2, <1>4, <1>6, LegsAssumption DEF TypeOK, LegInv
<1>9. RecordsInv'
  BY <1>1, <1>2, <1>3, <1>4, <1>6 DEF RecordsInv, Recording, Ordering, Unrecorded
<1>10. OrdersBounded'
  BY <1>1, <1>2, <1>3, <1>4, <1>6
     DEF LegInv, RecordsInv, OrdersBounded, Recording, Unrecorded
<1>11. FirstInv'
  BY <1>1, <1>2, LegsAssumption DEF TypeOK, FirstInv, Awaited, AdaHeld, Trade, Accepted, Snapshot, Fault, chain, bounds
<1> QED
  BY <1>7, <1>8, <1>9, <1>10, <1>11

\* The wait for the DEX ends.
LEMMA BatchIInv == ASSUME IInv, Batch PROVE IInv'
<1> USE DEF IInv
<1>1. saved \in Job /\ job \in Job /\ saved' = saved /\ job' = job
  BY DEF TypeOK, Batch
<1>2. job.borrows \in Nat /\ saved.borrows \in Nat
  BY <1>1, JobFields
<1>3. TypeOK'
  BY <1>1, <1>2, LegsAssumption, BoundsAssumption DEF TypeOK, Batch, Fault, PC, Place, chain, bounds
<1>4. LegInv'
  BY <1>1, <1>2, LegsAssumption DEF TypeOK, LegInv, Batch, Fault, chain, bounds
<1>5. RecordsInv'
  BY <1>1, <1>2, BoundsAssumption
     DEF TypeOK, RecordsInv, Recording, Ordering, Unrecorded, Batch, Fault, chain, bounds
<1>6. OrdersBounded'
  BY <1>1, <1>2, LegsAssumption, BoundsAssumption
     DEF TypeOK, LegInv, RecordsInv, OrdersBounded, Recording, Unrecorded, Batch, Fault, chain, bounds
<1>7. FirstInv'
  BY <1>1, <1>2, LegsAssumption DEF TypeOK, FirstInv, Awaited, AdaHeld, Batch, Fault, chain, bounds
<1> QED
  BY <1>3, <1>4, <1>5, <1>6, <1>7

\* A borrow is submitted; it is the one order more the bound leaves room for.
LEMMA OpenLegIInv == ASSUME IInv, OpenLeg PROVE IInv'
<1> USE DEF IInv
<1>1. saved \in Job /\ job \in Job /\ saved' = saved /\ job' = job
  BY DEF TypeOK, OpenLeg
<1>2. job.borrows \in Nat /\ saved.borrows \in Nat
  BY <1>1, JobFields
<1>3. /\ sent \in Nat /\ lent \in Nat /\ leg \in Nat /\ Legs \in Nat
      /\ replies \in Nat /\ saves \in Nat /\ crashes \in Nat
  BY LegsAssumption, BoundsAssumption DEF TypeOK
<1>4. \/ /\ capital = "col" /\ capital' = "orderSent" /\ sent' = sent + 1
         /\ \/ pc' = "recordBorrow" /\ replies' = replies
            \/ pc' = "fail" /\ replies' = replies + 1
      \/ pc' = "fail" /\ capital' = capital /\ sent' = sent /\ replies' = replies
  BY DEF OpenLeg, Accepted
<1>5. blind' \in BOOLEAN /\ faults' \in 0..MaxFaults /\ replies' \in 0..MaxReplies
  <2>1. replies' \in 0..MaxReplies
    BY BoundsAssumption DEF TypeOK, OpenLeg, Accepted
  <2>2. blind' \in BOOLEAN
    BY DEF TypeOK, OpenLeg, Snapshot
  <2>3. faults' \in 0..MaxFaults
    BY BoundsAssumption DEF TypeOK, OpenLeg, Snapshot, Fault
  <2> QED
    BY <2>1, <2>2, <2>3
<1>6. /\ pc = "head" /\ leg' = leg /\ lent' = lent /\ saves' = saves /\ crashes' = crashes
      /\ dir' = dir /\ watch' = watch /\ resumed' = resumed /\ leg < Legs
  BY DEF OpenLeg
<1>7. TypeOK'
  <2>1. pc' \in PC /\ capital' \in Place
    BY <1>4 DEF TypeOK, PC, Place
  <2>2. sent' \in Nat
    BY <1>3, <1>4
  <2> QED
    BY <1>1, <1>5, <1>6, <2>1, <2>2 DEF TypeOK
<1>8. LegInv'
  BY <1>1, <1>2, <1>4, <1>6, LegsAssumption DEF TypeOK, LegInv
<1>9. RecordsInv'
  BY <1>1, <1>2, <1>3, <1>4, <1>6 DEF RecordsInv, Recording, Ordering, Unrecorded
<1>10. OrdersBounded'
  BY <1>1, <1>2, <1>3, <1>4, <1>6
     DEF LegInv, RecordsInv, OrdersBounded, Recording, Unrecorded
<1>11. FirstInv'
  BY <1>1, <1>2, LegsAssumption DEF TypeOK, FirstInv, Awaited, AdaHeld, OpenLeg, Accepted, Snapshot, Fault, chain, bounds
<1> QED
  BY <1>7, <1>8, <1>9, <1>10, <1>11

\* The wait for the confirmation ends.
LEMMA ConfirmIInv == ASSUME IInv, Confirm PROVE IInv'
<1> USE DEF IInv
<1>1. saved \in Job /\ job \in Job /\ saved' = saved /\ job' = job
  BY DEF TypeOK, Confirm
<1>2. job.borrows \in Nat /\ saved.borrows \in Nat
  BY <1>1, JobFields
<1>3. TypeOK'
  BY <1>1, <1>2, LegsAssumption, BoundsAssumption DEF TypeOK, Confirm, Fault, PC, Place, chain, bounds
<1>4. LegInv'
  BY <1>1, <1>2, LegsAssumption DEF TypeOK, LegInv, Confirm, Fault, chain, bounds
<1>5. RecordsInv'
  BY <1>1, <1>2, BoundsAssumption
     DEF TypeOK, RecordsInv, Recording, Ordering, Unrecorded, Confirm, Fault, chain, bounds
<1>6. OrdersBounded'
  BY <1>1, <1>2, LegsAssumption, BoundsAssumption
     DEF TypeOK, LegInv, RecordsInv, OrdersBounded, Recording, Unrecorded, Confirm, Fault, chain, bounds
<1>7. FirstInv'
  BY <1>1, <1>2, LegsAssumption DEF TypeOK, FirstInv, Awaited, AdaHeld, Confirm, Fault, chain, bounds
<1> QED
  BY <1>3, <1>4, <1>5, <1>6, <1>7

\* The wait for the proceeds ends.
LEMMA ProceedsIInv == ASSUME IInv, Proceeds PROVE IInv'
<1> USE DEF IInv
<1>1. saved \in Job /\ job \in Job /\ saved' = saved /\ job' = job
  BY DEF TypeOK, Proceeds
<1>2. job.borrows \in Nat /\ saved.borrows \in Nat
  BY <1>1, JobFields
<1>3. TypeOK'
  <2>1. leg' \in 0..Legs
    BY LegsAssumption DEF TypeOK, LegInv, Proceeds
  <2>2. faults' \in 0..MaxFaults
    BY BoundsAssumption DEF TypeOK, Proceeds, Fault
  <2> QED
    BY <2>1, <2>2 DEF TypeOK, Proceeds, PC, chain
<1>4. LegInv'
  BY <1>1, <1>2, LegsAssumption DEF TypeOK, LegInv, Proceeds, Fault, chain, bounds
<1>5. RecordsInv'
  BY <1>1, <1>2, BoundsAssumption
     DEF TypeOK, RecordsInv, Recording, Ordering, Unrecorded, Proceeds, Fault, chain, bounds
<1>6. OrdersBounded'
  BY <1>1, <1>2, LegsAssumption, BoundsAssumption
     DEF TypeOK, LegInv, RecordsInv, OrdersBounded, Recording, Unrecorded, Proceeds, Fault, chain, bounds
<1>7. FirstInv'
  BY <1>1, <1>2, LegsAssumption DEF TypeOK, FirstInv, Awaited, AdaHeld, Proceeds, Fault, chain, bounds
<1> QED
  BY <1>3, <1>4, <1>5, <1>6, <1>7

\* A restart: the borrow that was to be recorded is lost with the loop.
LEMMA CrashIInv == ASSUME IInv, Crash PROVE IInv'
<1> USE DEF IInv
<1>1. saved \in Job /\ job \in Job /\ saved' = saved /\ job' = job
  BY DEF TypeOK, Crash
<1>2. job.borrows \in Nat /\ saved.borrows \in Nat
  BY <1>1, JobFields
<1>3. TypeOK'
  BY <1>1, <1>2, LegsAssumption, BoundsAssumption DEF TypeOK, Crash, PC, Place, chain, bounds
<1>4. LegInv'
  BY <1>1, <1>2, LegsAssumption DEF TypeOK, LegInv, Crash, chain, bounds
<1>5. RecordsInv'
  BY <1>1, <1>2, BoundsAssumption
     DEF TypeOK, RecordsInv, Recording, Ordering, Unrecorded, Crash, chain, bounds
<1>6. OrdersBounded'
  BY <1>1, <1>2, LegsAssumption, BoundsAssumption
     DEF TypeOK, LegInv, RecordsInv, OrdersBounded, Recording, Unrecorded, Crash, chain, bounds
<1>7. FirstInv'
  BY <1>1, <1>2, LegsAssumption DEF TypeOK, FirstInv, Awaited, AdaHeld, Crash, chain, bounds
<1> QED
  BY <1>3, <1>4, <1>5, <1>6, <1>7

\* A watcher that gives up changes nothing else.
LEMMA RecoverExpiresIInv == ASSUME IInv, RecoverExpires PROVE IInv'
<1> USE DEF IInv
<1>1. saved \in Job /\ job \in Job /\ saved' = saved /\ job' = job
  BY DEF TypeOK, RecoverExpires
<1>2. job.borrows \in Nat /\ saved.borrows \in Nat
  BY <1>1, JobFields
<1>3. TypeOK'
  BY <1>1, <1>2, LegsAssumption, BoundsAssumption DEF TypeOK, RecoverExpires, PC, Place, chain, bounds
<1>4. LegInv'
  BY <1>1, <1>2, LegsAssumption DEF TypeOK, LegInv, RecoverExpires, chain, bounds
<1>5. RecordsInv'
  BY <1>1, <1>2, BoundsAssumption
     DEF TypeOK, RecordsInv, Recording, Ordering, Unrecorded, RecoverExpires, chain, bounds
<1>6. OrdersBounded'
  BY <1>1, <1>2, LegsAssumption, BoundsAssumption
     DEF TypeOK, LegInv, RecordsInv, OrdersBounded, Recording, Unrecorded, RecoverExpires, chain, bounds
<1>7. FirstInv'
  BY <1>1, <1>2, LegsAssumption DEF TypeOK, FirstInv, Awaited, AdaHeld, RecoverExpires, chain, bounds
<1> QED
  BY <1>3, <1>4, <1>5, <1>6, <1>7

\* A transaction gets into a block.
LEMMA LandsIInv == ASSUME IInv, Lands PROVE IInv'
<1> USE DEF IInv
<1>1. saved \in Job /\ job \in Job /\ saved' = saved /\ job' = job
  BY DEF TypeOK, Lands
<1>2. job.borrows \in Nat /\ saved.borrows \in Nat
  BY <1>1, JobFields
<1>3. TypeOK'
  BY <1>1, <1>2, LegsAssumption, BoundsAssumption DEF TypeOK, Lands, PC, Place, chain, bounds
<1>4. LegInv'
  BY <1>1, <1>2, LegsAssumption DEF TypeOK, LegInv, Lands, chain, bounds
<1>5. RecordsInv'
  BY <1>1, <1>2, BoundsAssumption
     DEF TypeOK, RecordsInv, Recording, Ordering, Unrecorded, Lands, chain, bounds
<1>6. OrdersBounded'
  BY <1>1, <1>2, LegsAssumption, BoundsAssumption
     DEF TypeOK, LegInv, RecordsInv, OrdersBounded, Recording, Unrecorded, Lands, chain, bounds
<1>7. FirstInv'
  BY <1>1, <1>2, LegsAssumption DEF TypeOK, FirstInv, Awaited, AdaHeld, Lands, chain, bounds
<1> QED
  BY <1>3, <1>4, <1>5, <1>6, <1>7

\* A transaction is dropped.
LEMMA DropsIInv == ASSUME IInv, Drops PROVE IInv'
<1> USE DEF IInv
<1>1. saved \in Job /\ job \in Job /\ saved' = saved /\ job' = job
  BY DEF TypeOK, Drops
<1>2. job.borrows \in Nat /\ saved.borrows \in Nat
  BY <1>1, JobFields
<1>3. TypeOK'
  BY <1>1, <1>2, LegsAssumption, BoundsAssumption DEF TypeOK, Drops, Fault, PC, Place, chain, bounds
<1>4. LegInv'
  BY <1>1, <1>2, LegsAssumption DEF TypeOK, LegInv, Drops, Fault, chain, bounds
<1>5. RecordsInv'
  BY <1>1, <1>2, BoundsAssumption
     DEF TypeOK, RecordsInv, Recording, Ordering, Unrecorded, Drops, Fault, chain, bounds
<1>6. OrdersBounded'
  BY <1>1, <1>2, LegsAssumption, BoundsAssumption
     DEF TypeOK, LegInv, RecordsInv, OrdersBounded, Recording, Unrecorded, Drops, Fault, chain, bounds
<1>7. FirstInv'
  BY <1>1, <1>2, LegsAssumption DEF TypeOK, FirstInv, Awaited, AdaHeld, Drops, Fault, chain, bounds
<1> QED
  BY <1>3, <1>4, <1>5, <1>6, <1>7

\* A batcher fills an order.
LEMMA FillsIInv == ASSUME IInv, Fills PROVE IInv'
<1> USE DEF IInv
<1>1. saved \in Job /\ job \in Job /\ saved' = saved /\ job' = job
  BY DEF TypeOK, Fills
<1>2. job.borrows \in Nat /\ saved.borrows \in Nat
  BY <1>1, JobFields
<1>3. TypeOK'
  BY <1>1, <1>2, LegsAssumption, BoundsAssumption DEF TypeOK, Fills, PC, Place, chain, bounds
<1>4. LegInv'
  BY <1>1, <1>2, LegsAssumption DEF TypeOK, LegInv, Fills, chain, bounds
<1>5. RecordsInv'
  BY <1>1, <1>2, BoundsAssumption
     DEF TypeOK, RecordsInv, Recording, Ordering, Unrecorded, Fills, chain, bounds
<1>6. OrdersBounded'
  BY <1>1, <1>2, LegsAssumption, BoundsAssumption
     DEF TypeOK, LegInv, RecordsInv, OrdersBounded, Recording, Unrecorded, Fills, chain, bounds
<1>7. FirstInv'
  BY <1>1, <1>2, LegsAssumption DEF TypeOK, FirstInv, Awaited, AdaHeld, Fills, chain, bounds
<1> QED
  BY <1>3, <1>4, <1>5, <1>6, <1>7

\* A trade is recorded.
LEMMA RecordTradeIInv == ASSUME IInv, RecordTrade PROVE IInv'
<1> USE DEF IInv
<1>1. saved \in Job /\ job \in Job /\ job.borrows \in Nat /\ saved.borrows \in Nat
  BY JobFields DEF TypeOK
<1>2. job' = [job EXCEPT !.traded = TRUE] /\ Save(job')
  BY DEF RecordTrade
<1>3. job' \in Job /\ job'.borrows = job.borrows /\ job'.status = job.status
  BY <1>1, <1>2, WithTrade, Zenon
<1>4. /\ saved' \in Job /\ saves' \in 0..MaxSaves
      /\ \/ saved' = job' /\ saves' = saves
         \/ saved' = saved /\ saves' = saves + 1
  BY <1>2, <1>3, SaveEffect, Zenon
<1>5. /\ sent \in Nat /\ lent \in Nat /\ leg \in Nat /\ Legs \in Nat
      /\ replies \in Nat /\ saves \in Nat /\ crashes \in Nat
  BY LegsAssumption, BoundsAssumption DEF TypeOK
<1>6. TypeOK'
  BY <1>3, <1>4 DEF TypeOK, RecordTrade, PC, chain
<1>7. LegInv'
  BY <1>1, <1>3 DEF TypeOK, LegInv, RecordTrade, chain
<1>8. RecordsInv'
  <2>1. Recording = 0 /\ Recording' = 0 /\ Ordering' = Ordering /\ Ordering \in {0, 1}
    BY DEF RecordTrade, Recording, Ordering, chain
  <2>2. sent' = sent /\ lent' = lent /\ replies' = replies /\ crashes' = crashes
    BY DEF RecordTrade, chain
  <2>3. Unrecorded' = Unrecorded + (saves' - saves)
    BY <1>4, <1>5, <2>2 DEF Unrecorded
  <2> QED
    BY <1>1, <1>3, <1>4, <1>5, <2>1, <2>2, <2>3 DEF RecordsInv, Unrecorded
<1>9. OrdersBounded'
  BY <1>4, LegsAssumption, BoundsAssumption DEF TypeOK, OrdersBounded, RecordTrade, chain
<1>10. FirstInv'
  BY <1>1, <1>3 DEF TypeOK, FirstInv, RecordTrade, chain
<1> QED
  BY <1>6, <1>7, <1>8, <1>9, <1>10

\* A borrow is recorded.
LEMMA RecordBorrowIInv == ASSUME IInv, RecordBorrow PROVE IInv'
<1> USE DEF IInv
<1>1. saved \in Job /\ job \in Job /\ job.borrows \in Nat /\ saved.borrows \in Nat
  BY JobFields DEF TypeOK
<1>2. job' = [job EXCEPT !.borrows = @ + 1] /\ Save(job')
  BY DEF RecordBorrow
<1>3. job' \in Job /\ job'.borrows = job.borrows + 1 /\ job'.status = job.status
  BY <1>1, <1>2, WithBorrow, Zenon
<1>4. /\ saved' \in Job /\ saves' \in 0..MaxSaves
      /\ \/ saved' = job' /\ saves' = saves
         \/ saved' = saved /\ saves' = saves + 1
  BY <1>2, <1>3, SaveEffect, Zenon
<1>5. /\ sent \in Nat /\ lent \in Nat /\ leg \in Nat /\ Legs \in Nat
      /\ replies \in Nat /\ saves \in Nat /\ crashes \in Nat
  BY LegsAssumption, BoundsAssumption DEF TypeOK
<1>6. TypeOK'
  BY <1>3, <1>4 DEF TypeOK, RecordBorrow, PC, chain
<1>7. LegInv'
  BY <1>1, <1>3 DEF TypeOK, LegInv, RecordBorrow, chain
<1>8. RecordsInv'
  <2>1. Recording = 1 /\ Recording' = 0 /\ Ordering' = Ordering /\ Ordering \in {0, 1}
    BY DEF RecordBorrow, Recording, Ordering, chain
  <2>2. sent' = sent /\ lent' = lent /\ replies' = replies /\ crashes' = crashes
    BY DEF RecordBorrow, chain
  <2>3. Unrecorded' = Unrecorded + (saves' - saves)
    BY <1>4, <1>5, <2>2 DEF Unrecorded
  <2> QED
    BY <1>1, <1>3, <1>4, <1>5, <2>1, <2>2, <2>3 DEF RecordsInv, Unrecorded
<1>9. OrdersBounded'
  BY <1>4, LegsAssumption, BoundsAssumption DEF TypeOK, OrdersBounded, RecordBorrow, chain
<1>10. FirstInv'
  BY <1>1, <1>3 DEF TypeOK, FirstInv, Awaited, RecordBorrow, chain
<1> QED
  BY <1>6, <1>7, <1>8, <1>9, <1>10

\* The loop ends with a failure.
LEMMA FailIInv == ASSUME IInv, Fail PROVE IInv'
<1> USE DEF IInv
<1>1. saved \in Job /\ job \in Job /\ job.borrows \in Nat /\ saved.borrows \in Nat
  BY JobFields DEF TypeOK
<1>2. job' = [job EXCEPT !.status = "failed"] /\ Save(job')
  BY DEF Fail
<1>3. job' \in Job /\ job'.borrows = job.borrows /\ job'.status = "failed"
  BY <1>1, <1>2, WithStatus, Zenon
<1>4. /\ saved' \in Job /\ saves' \in 0..MaxSaves
      /\ \/ saved' = job' /\ saves' = saves
         \/ saved' = saved /\ saves' = saves + 1
  BY <1>2, <1>3, SaveEffect, Zenon
<1>5. /\ sent \in Nat /\ lent \in Nat /\ leg \in Nat /\ Legs \in Nat
      /\ replies \in Nat /\ saves \in Nat /\ crashes \in Nat
  BY LegsAssumption, BoundsAssumption DEF TypeOK
<1>6. TypeOK'
  BY <1>3, <1>4 DEF TypeOK, Fail, PC, chain
<1>7. LegInv'
  BY <1>1, <1>3 DEF TypeOK, LegInv, Fail, chain
<1>8. RecordsInv'
  <2>1. Recording = 0 /\ Recording' = 0 /\ Ordering' = Ordering /\ Ordering \in {0, 1}
    BY DEF Fail, Recording, Ordering, chain
  <2>2. sent' = sent /\ lent' = lent /\ replies' = replies /\ crashes' = crashes
    BY DEF Fail, chain
  <2>3. Unrecorded' = Unrecorded + (saves' - saves)
    BY <1>4, <1>5, <2>2 DEF Unrecorded
  <2> QED
    BY <1>1, <1>3, <1>4, <1>5, <2>1, <2>2, <2>3 DEF RecordsInv, Unrecorded
<1>9. OrdersBounded'
  BY <1>4, LegsAssumption, BoundsAssumption DEF TypeOK, OrdersBounded, Fail, chain
<1>10. FirstInv'
  BY <1>1, <1>3 DEF TypeOK, FirstInv, Fail, chain
<1> QED
  BY <1>6, <1>7, <1>8, <1>9, <1>10

\* The loop ends with the position open.
LEMMA OpenIInv == ASSUME IInv, Open PROVE IInv'
<1> USE DEF IInv
<1>1. saved \in Job /\ job \in Job /\ job.borrows \in Nat /\ saved.borrows \in Nat
  BY JobFields DEF TypeOK
<1>2. job' = [job EXCEPT !.status = "open"] /\ Save(job')
  BY DEF Open
<1>3. job' \in Job /\ job'.borrows = job.borrows /\ job'.status = "open"
  BY <1>1, <1>2, WithStatus, Zenon
<1>4. /\ saved' \in Job /\ saves' \in 0..MaxSaves
      /\ \/ saved' = job' /\ saves' = saves
         \/ saved' = saved /\ saves' = saves + 1
  BY <1>2, <1>3, SaveEffect, Zenon
<1>5. /\ sent \in Nat /\ lent \in Nat /\ leg \in Nat /\ Legs \in Nat
      /\ replies \in Nat /\ saves \in Nat /\ crashes \in Nat
  BY LegsAssumption, BoundsAssumption DEF TypeOK
<1>6. TypeOK'
  BY <1>3, <1>4 DEF TypeOK, Open, PC, chain
<1>7. LegInv'
  BY <1>1, <1>3 DEF TypeOK, LegInv, Open, chain
<1>8. RecordsInv'
  <2>1. Recording = 0 /\ Recording' = 0 /\ Ordering' = Ordering /\ Ordering \in {0, 1}
    BY DEF Open, Recording, Ordering, chain
  <2>2. sent' = sent /\ lent' = lent /\ replies' = replies /\ crashes' = crashes
    BY DEF Open, chain
  <2>3. Unrecorded' = Unrecorded + (saves' - saves)
    BY <1>4, <1>5, <2>2 DEF Unrecorded
  <2> QED
    BY <1>1, <1>3, <1>4, <1>5, <2>1, <2>2, <2>3 DEF RecordsInv, Unrecorded
<1>9. OrdersBounded'
  BY <1>4, LegsAssumption, BoundsAssumption DEF TypeOK, OrdersBounded, Open, chain
<1>10. FirstInv'
  BY <1>1, <1>3, LegsAssumption DEF TypeOK, FirstInv, Open, chain
<1> QED
  BY <1>6, <1>7, <1>8, <1>9, <1>10

\* A failed job is resumed from the store.
LEMMA RetryIInv == ASSUME IInv, Retry PROVE IInv'
<1> USE DEF IInv
<1>1. saved \in Job /\ job \in Job /\ job.borrows \in Nat /\ saved.borrows \in Nat
  BY JobFields DEF TypeOK
<1>2. job' = [saved EXCEPT !.status = "running"] /\ Save(job')
  BY DEF Retry, Resume
<1>3. job' \in Job /\ job'.borrows = saved.borrows /\ job'.status = "running"
  BY <1>1, <1>2, WithStatus, Zenon
<1>4. /\ saved' \in Job /\ saves' \in 0..MaxSaves
      /\ \/ saved' = job' /\ saves' = saves
         \/ saved' = saved /\ saves' = saves + 1
  BY <1>2, <1>3, SaveEffect, Zenon
<1>5. /\ sent \in Nat /\ lent \in Nat /\ leg \in Nat /\ Legs \in Nat
      /\ replies \in Nat /\ saves \in Nat /\ crashes \in Nat
  BY LegsAssumption, BoundsAssumption DEF TypeOK
<1>6. TypeOK'
  BY <1>3, <1>4 DEF TypeOK, Retry, Resume, PC, chain
<1>7. LegInv'
  BY <1>1, <1>3 DEF TypeOK, LegInv, Retry, Resume, chain
<1>8. RecordsInv'
  <2>1. Recording = 0 /\ Recording' = 0 /\ Ordering' = Ordering /\ Ordering \in {0, 1}
    BY DEF Retry, Resume, Recording, Ordering, chain
  <2>2. sent' = sent /\ lent' = lent /\ replies' = replies /\ crashes' = crashes
    BY DEF Retry, Resume, chain
  <2>3. Unrecorded' = Unrecorded + (saves' - saves)
    BY <1>4, <1>5, <2>2 DEF Unrecorded
  <2> QED
    BY <1>1, <1>3, <1>4, <1>5, <2>1, <2>2, <2>3 DEF RecordsInv, Unrecorded
<1>9. OrdersBounded'
  BY <1>4, LegsAssumption, BoundsAssumption DEF TypeOK, OrdersBounded, Retry, Resume, chain
<1>10. FirstInv'
  BY <1>1, <1>3 DEF TypeOK, FirstInv, Retry, Resume, chain
<1> QED
  BY <1>6, <1>7, <1>8, <1>9, <1>10

\* A running job is resumed after a restart.
LEMMA RecoverIInv == ASSUME IInv, Recover PROVE IInv'
<1> USE DEF IInv
<1>1. saved \in Job /\ job \in Job /\ job.borrows \in Nat /\ saved.borrows \in Nat
  BY JobFields DEF TypeOK
<1>2. job' = [saved EXCEPT !.status = "running"] /\ Save(job')
  BY DEF Recover, Resume
<1>3. job' \in Job /\ job'.borrows = saved.borrows /\ job'.status = "running"
  BY <1>1, <1>2, WithStatus, Zenon
<1>4. /\ saved' \in Job /\ saves' \in 0..MaxSaves
      /\ \/ saved' = job' /\ saves' = saves
         \/ saved' = saved /\ saves' = saves + 1
  BY <1>2, <1>3, SaveEffect, Zenon
<1>5. /\ sent \in Nat /\ lent \in Nat /\ leg \in Nat /\ Legs \in Nat
      /\ replies \in Nat /\ saves \in Nat /\ crashes \in Nat
  BY LegsAssumption, BoundsAssumption DEF TypeOK
<1>6. TypeOK'
  BY <1>3, <1>4 DEF TypeOK, Recover, Resume, PC, chain
<1>7. LegInv'
  BY <1>1, <1>3 DEF TypeOK, LegInv, Recover, Resume, chain
<1>8. RecordsInv'
  <2>1. Recording = 0 /\ Recording' = 0 /\ Ordering' = Ordering /\ Ordering \in {0, 1}
    BY DEF Recover, Resume, Recording, Ordering, chain
  <2>2. sent' = sent /\ lent' = lent /\ replies' = replies /\ crashes' = crashes
    BY DEF Recover, Resume, chain
  <2>3. Unrecorded' = Unrecorded + (saves' - saves)
    BY <1>4, <1>5, <2>2 DEF Unrecorded
  <2> QED
    BY <1>1, <1>3, <1>4, <1>5, <2>1, <2>2, <2>3 DEF RecordsInv, Unrecorded
<1>9. OrdersBounded'
  BY <1>4, LegsAssumption, BoundsAssumption DEF TypeOK, OrdersBounded, Recover, Resume, chain
<1>10. FirstInv'
  BY <1>1, <1>3 DEF TypeOK, FirstInv, Recover, Resume, chain
<1> QED
  BY <1>6, <1>7, <1>8, <1>9, <1>10

\* A step that changes no variable.
LEMMA StutterIInv == ASSUME IInv, UNCHANGED vars PROVE IInv'
  BY DEF IInv, vars, chain, bounds, TypeOK, LegInv, RecordsInv, OrdersBounded, FirstInv,
         Recording, Ordering, Unrecorded, Awaited

\* The invariant is inductive.
LEMMA NextIInv == IInv /\ [Next]_vars => IInv'
<1> SUFFICES ASSUME IInv, [Next]_vars PROVE IInv'
  OBVIOUS
<1>1. CASE Loop
  BY <1>1, RunIInv, TradeIInv, RecordTradeIInv, BatchIInv, OpenLegIInv, RecordBorrowIInv,
     ConfirmIInv, ProceedsIInv, FailIInv, OpenIInv DEF Loop
<1>2. CASE Retry \/ Crash \/ Recover \/ RecoverExpires
  BY <1>2, RetryIInv, CrashIInv, RecoverIInv, RecoverExpiresIInv
<1>3. CASE Lands \/ Drops \/ Fills
  BY <1>3, LandsIInv, DropsIInv, FillsIInv
<1>4. CASE UNCHANGED vars
  BY <1>4, StutterIInv
<1> QED
  BY <1>1, <1>2, <1>3, <1>4 DEF Next

\* It holds in every reachable state.
LEMMA SpecIInv == Spec => []IInv
  BY InitIInv, NextIInv, PTL DEF Spec

----------------------------------------------------------------------------
(* Theorems. *)

\* For every number of legs and faults, every variable keeps its type and the loop
\* variable of run stays within the plan (engine.go:659).
THEOREM BuildTypeCorrect == Spec => []TypeOK
<1>4. IInv => TypeOK
  BY DEF IInv
<1> QED
  BY <1>4, SpecIInv, PTL

\* For every number of retries, restarts and faults, run submits at most one borrow per
\* leg of the plan and one per submission it could not record (engine.go:622).
THEOREM BuildOrdersBounded == Spec => []OrdersBounded
<1>4. IInv => OrdersBounded
  BY DEF IInv
<1> QED
  BY <1>4, SpecIInv, PTL

\* A leg that run skips since it is recorded (engine.go:622) was accepted by a node, and
\* the lender holds no leg that was not ordered.
THEOREM BuildRecordsTrue == Spec => []RecordsTrue
<1>4. IInv => RecordsTrue
  <2> SUFFICES ASSUME IInv PROVE RecordsTrue
    OBVIOUS
  <2>1. job.borrows \in Nat /\ saved.borrows \in Nat
    BY JobFields DEF IInv, TypeOK
  <2> QED
    BY <2>1 DEF IInv, TypeOK, RecordsInv, RecordsTrue, Recording, Ordering
<1> QED
  BY <1>4, SpecIInv, PTL

\* A loop that runs without a resumption reports OPEN (engine.go:701) only when every leg
\* is lent and the last swap has come back.
THEOREM BuildFirstRunOpens == Spec => []FirstRunOpensBuilt
<1>4. IInv => FirstRunOpensBuilt
  BY DEF IInv, FirstInv, FirstRunOpensBuilt
<1> QED
  BY <1>4, SpecIInv, PTL
=============================================================================
