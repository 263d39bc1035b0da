-------------------------- MODULE LifecycleProofs --------------------------
(***************************************************************************)
(* The safety invariants of Lifecycle hold for any number of goroutines,   *)
(* any plan length, any mix of API calls and any number of crashes; the    *)
(* exclusive unwind, for clients that reverse a job once and one by one.   *)
(***************************************************************************)
EXTENDS Lifecycle, TLAPS

\* A goroutine at work on a leg has one left to record.
LegsLeft == \A g \in Goroutine : pc[g] \in {"leg", "legRecord"} => job[g].legs < Legs

----------------------------------------------------------------------------
(* Types. *)

\* The empty document is a document.
LEMMA NoJobType == NoJob \in Job
  BY LegsAssumption DEF NoJob, Job

\* Whether or not the store takes the write, it holds a document.
LEMMA SaveTypes ==
  ASSUME store \in Job, NEW j \in Job, Save(j)
  PROVE  store' \in Job
  BY DEF Save

\* What a sweep leaves behind is well-typed, whether or not it succeeds.
LEMMA SweepTypes ==
  ASSUME TypeOK, NEW g \in Goroutine, SweepFunds(g)
  PROVE  store' \in Job /\ chain' \in Chain
  BY SaveTypes DEF TypeOK, SweepFunds, Chain

\* The next process has some secret or other.
LEMMA CrashTypes ==
  ASSUME Crash
  PROVE  key' \in BOOLEAN
  BY DEF Crash

\* A goroutine that returns leaves well-typed slots behind.
LEMMA ReturnTypes ==
  ASSUME TypeOK, LegsLeft, NEW g \in Goroutine, Return(g)
  PROVE  /\ pc' \in [Goroutine -> PC]
         /\ job' \in [Goroutine -> Job]
         /\ ctxDone' \in [Goroutine -> BOOLEAN]
         /\ LegsLeft'
<1>1. pc' \in [Goroutine -> PC]
  BY DEF TypeOK, Return, Goto, PC
<1>2. job' \in [Goroutine -> Job]
  BY NoJobType DEF TypeOK, Return
<1>3. ctxDone' \in [Goroutine -> BOOLEAN]
  BY DEF TypeOK, Return
<1>4. LegsLeft'
  BY DEF TypeOK, Return, Goto, LegsLeft
<1> QED
  BY <1>1, <1>2, <1>3, <1>4

\* The race for the job leaves a well-typed registry, whoever wins it.
LEMMA TakesTypes ==
  ASSUME TypeOK, LegsLeft, NEW g \in Goroutine,
         NEW l \in {"begin", "retryRecord"}, TakesOwnership(g, l)
  PROVE  /\ cancels' \in Goroutine \cup {Nobody}
         /\ pc' \in [Goroutine -> PC]
         /\ job' \in [Goroutine -> Job]
         /\ ctxDone' \in [Goroutine -> BOOLEAN]
         /\ LegsLeft'
<1>1. CASE cancels # Nobody
  BY <1>1, ReturnTypes DEF TypeOK, TakesOwnership
<1>2. CASE cancels = Nobody
  <2>1. cancels' = g /\ Goto(g, l) /\ UNCHANGED <<job, ctxDone>>
    BY <1>2 DEF TakesOwnership
  <2>2. pc' \in [Goroutine -> PC]
    BY <2>1 DEF TypeOK, Goto, PC, HandlerPC, OwnerPC
  <2>3. LegsLeft'
    BY <2>1 DEF TypeOK, Goto, LegsLeft
  <2> QED
    BY <2>1, <2>2, <2>3 DEF TypeOK
<1> QED
  BY <1>1, <1>2

\* The program starts with every variable of its type.
LEMMA TypeInit == Init => TypeOK /\ LegsLeft
<1> SUFFICES ASSUME Init PROVE TypeOK /\ LegsLeft
  OBVIOUS
<1>1. pc \in [Goroutine -> PC] /\ LegsLeft
  BY DEF Init, PC, LegsLeft
<1>2. store \in Job /\ health \in Job /\ job \in [Goroutine -> Job]
  BY NoJobType DEF Init
<1>3. chain \in Chain
  BY DEF Init, Chain
<1>4. /\ cancels \in Goroutine \cup {Nobody}
      /\ ctxDone \in [Goroutine -> BOOLEAN]
      /\ boot = "up" /\ key = TRUE
  BY DEF Init
<1>5. reversals \in 0..MaxReversals /\ crashes \in 0..MaxCrashes
  BY BoundsAssumption DEF Init
<1> QED
  BY <1>1, <1>2, <1>3, <1>4, <1>5 DEF TypeOK

\* Every step keeps the types, and the leg a goroutine is working on is in the plan.
LEMMA TypeStep == TypeOK /\ LegsLeft /\ [Next]_vars => (TypeOK /\ LegsLeft)'
<1> SUFFICES ASSUME TypeOK /\ LegsLeft, [Next]_vars PROVE (TypeOK /\ LegsLeft)'
  OBVIOUS
<1> USE NoJobType, LegsAssumption, NobodyAssumption, BoundsAssumption
<1> USE DEF TypeOK, LegsLeft, Job, NoJob, Chain, PC, HandlerPC, OwnerPC, BuildPC, UnwindPC, Status, vars, others
<1>1. ASSUME NEW g \in Goroutine, Open(g) PROVE (TypeOK /\ LegsLeft)'
  BY <1>1 DEF Open, Goto, Idle
<1>2. ASSUME NEW g \in Goroutine, Start(g) PROVE (TypeOK /\ LegsLeft)'
  BY <1>2 DEF Start, Receives, Loads, Goto, Idle
<1>3. ASSUME NEW g \in Goroutine, Retry(g) PROVE (TypeOK /\ LegsLeft)'
  BY <1>3 DEF Retry, Receives, Loads, Goto, Idle
<1>4. ASSUME NEW g \in Goroutine, Reverse(g) PROVE (TypeOK /\ LegsLeft)'
  BY <1>4 DEF Reverse, Receives, Goto, Idle
<1>5. ASSUME NEW g \in Goroutine, Sweep(g) PROVE (TypeOK /\ LegsLeft)'
  BY <1>5 DEF Sweep, Receives, Loads, Goto, Idle
<1>6. ASSUME NEW g \in Goroutine, Register(g) PROVE (TypeOK /\ LegsLeft)'
  BY <1>6, TakesTypes DEF Register
<1>7. ASSUME NEW g \in Goroutine, Begin(g) PROVE (TypeOK /\ LegsLeft)'
  BY <1>7 DEF Begin, Goto, OnlyMoves
<1>8. ASSUME NEW g \in Goroutine, MarkRunning(g) PROVE (TypeOK /\ LegsLeft)'
  BY <1>8 DEF MarkRunning, SaveAs, Save, Goto
<1>9. ASSUME NEW g \in Goroutine, WaitCheck(g) PROVE (TypeOK /\ LegsLeft)'
  BY <1>9 DEF WaitCheck, Goto, OnlyMoves
<1>10. ASSUME NEW g \in Goroutine, WaitCancelled(g) PROVE (TypeOK /\ LegsLeft)'
  BY <1>10 DEF WaitCancelled, Goto
<1>11. ASSUME NEW g \in Goroutine, WaitPoll(g) PROVE (TypeOK /\ LegsLeft)'
  BY <1>11 DEF WaitPoll, Goto, OnlyMoves
<1>12. ASSUME NEW g \in Goroutine, WaitExpire(g) PROVE (TypeOK /\ LegsLeft)'
  BY <1>12 DEF WaitExpire, Return, Goto
<1>13. ASSUME NEW g \in Goroutine, CancelSweep(g) PROVE (TypeOK /\ LegsLeft)'
  <2>1. store' \in Job /\ chain' \in Chain
    BY <1>13, SweepTypes DEF CancelSweep
  <2> QED
    BY <1>13, <2>1 DEF CancelSweep, Goto
<1>14. ASSUME NEW g \in Goroutine, RetryRegister(g) PROVE (TypeOK /\ LegsLeft)'
  BY <1>14, TakesTypes DEF RetryRegister
<1>15. ASSUME NEW g \in Goroutine, RetryRecord(g) PROVE (TypeOK /\ LegsLeft)'
  BY <1>15 DEF RetryRecord, SaveAs, Save, Goto
<1>16. ASSUME NEW g \in Goroutine, Run(g) PROVE (TypeOK /\ LegsLeft)'
  BY <1>16 DEF Run, Save, Goto
<1>17. ASSUME NEW g \in Goroutine, Trade(g) PROVE (TypeOK /\ LegsLeft)'
  <2>1. chain' \in {chain, [chain EXCEPT !.ada = "low"]}
    BY <1>17 DEF Trade
  <2>2. chain' \in Chain
    BY <2>1
  <2>3. pc' \in [Goroutine -> PC] /\ LegsLeft' /\ store' \in Job
    BY <1>17 DEF Trade, Goto, Save
  <2> QED
    BY <1>17, <2>2, <2>3 DEF Trade
<1>18. ASSUME NEW g \in Goroutine, LoopHead(g) PROVE (TypeOK /\ LegsLeft)'
  BY <1>18 DEF LoopHead, Save, Goto
<1>19. ASSUME NEW g \in Goroutine, LoopExit(g) PROVE (TypeOK /\ LegsLeft)'
  BY <1>19 DEF LoopExit, Goto, OnlyMoves
<1>20. ASSUME NEW g \in Goroutine, LegSubmit(g) PROVE (TypeOK /\ LegsLeft)'
  <2>0. \/ chain' = chain
        \/ \E a \in {"low", "full"} : chain' = [chain EXCEPT !.ada = a, !.lent = TRUE]
    BY <1>20 DEF LegSubmit, AfterBorrow
  <2>1. chain' \in Chain
    BY <2>0
  <2>2. pc' \in [Goroutine -> PC] /\ LegsLeft'
    BY <1>20 DEF LegSubmit, Goto
  <2> QED
    BY <1>20, <2>1, <2>2 DEF LegSubmit
<1>21. ASSUME NEW g \in Goroutine, LegRecord(g) PROVE (TypeOK /\ LegsLeft)'
  BY <1>21 DEF LegRecord, Save, Goto
<1>22. ASSUME NEW g \in Goroutine, LegTrade(g) PROVE (TypeOK /\ LegsLeft)'
  <2>1. chain' \in Chain
    BY <1>22 DEF LegTrade
  <2>2. pc' \in [Goroutine -> PC] /\ LegsLeft' /\ store' \in Job
    BY <1>22 DEF LegTrade, Goto, Save
  <2> QED
    BY <1>22, <2>1, <2>2 DEF LegTrade
<1>23. ASSUME NEW g \in Goroutine, OpError(g) PROVE (TypeOK /\ LegsLeft)'
  BY <1>23 DEF OpError, Goto, OnlyMoves
<1>24. ASSUME NEW g \in Goroutine, FailSave(g) PROVE (TypeOK /\ LegsLeft)'
  BY <1>24 DEF FailSave, SaveAs, Save, Goto
<1>25. ASSUME NEW g \in Goroutine, FailDelete(g) PROVE (TypeOK /\ LegsLeft)'
  BY <1>25 DEF FailDelete, Return, Goto
<1>26. ASSUME NEW g \in Goroutine, Finalize(g) PROVE (TypeOK /\ LegsLeft)'
  BY <1>26 DEF Finalize, Goto
<1>27. ASSUME NEW g \in Goroutine, OpenSave(g) PROVE (TypeOK /\ LegsLeft)'
  BY <1>27 DEF OpenSave, Save, Return, Goto
<1>28. ASSUME NEW g \in Goroutine, ReverseMark(g) PROVE (TypeOK /\ LegsLeft)'
  BY <1>28 DEF ReverseMark, Save, Goto
<1>29. ASSUME NEW g \in Goroutine, ReverseSignal(g) PROVE (TypeOK /\ LegsLeft)'
  <2>1. CASE cancels = Nobody
    BY <1>29, <2>1 DEF ReverseSignal, Goto
  <2>2. CASE cancels # Nobody
    <3>1. pc' \in [Goroutine -> PC] /\ LegsLeft'
      BY <1>29, <2>2, NoJobType DEF ReverseSignal, Goto
    <3>2. job' \in [Goroutine -> Job]
      BY <1>29, <2>2, NoJobType DEF ReverseSignal
    <3>3. ctxDone' \in [Goroutine -> BOOLEAN]
      BY <1>29, <2>2 DEF ReverseSignal
    <3> QED
      BY <1>29, <2>2, <3>1, <3>2, <3>3 DEF ReverseSignal
  <2> QED
    BY <2>1, <2>2
<1>30. ASSUME NEW g \in Goroutine, Unwind(g) PROVE (TypeOK /\ LegsLeft)'
  BY <1>30 DEF Unwind, Goto, OnlyMoves
<1>31. ASSUME NEW g \in Goroutine, UnwindRecord(g) PROVE (TypeOK /\ LegsLeft)'
  BY <1>31 DEF UnwindRecord, Save, Goto
<1>32. ASSUME NEW g \in Goroutine, UnwindClose(g) PROVE (TypeOK /\ LegsLeft)'
  <2>1. store' \in Job
    BY <1>32, SaveTypes DEF UnwindClose
  <2>2. chain' \in Chain
    BY <1>32 DEF UnwindClose
  <2> QED
    BY <1>32, <2>1, <2>2 DEF UnwindClose, Goto
<1>33. ASSUME NEW g \in Goroutine, UnwindSweep(g) PROVE (TypeOK /\ LegsLeft)'
  <2>1. store' \in Job /\ chain' \in Chain
    BY <1>33, SweepTypes DEF UnwindSweep
  <2> QED
    BY <1>33, <2>1 DEF UnwindSweep, Goto
<1>34. ASSUME NEW g \in Goroutine, ReversedSave(g) PROVE (TypeOK /\ LegsLeft)'
  <2>1. [job[g] EXCEPT !.status = "reversed"] \in Job
    OBVIOUS
  <2>2. store' \in Job
    BY <1>34, <2>1, SaveTypes DEF ReversedSave
  <2>3. Return(g) /\ UNCHANGED <<cancels, chain, others>>
    BY <1>34 DEF ReversedSave
  <2>4. /\ pc' \in [Goroutine -> PC]
        /\ job' \in [Goroutine -> Job]
        /\ ctxDone' \in [Goroutine -> BOOLEAN]
        /\ LegsLeft'
    BY <2>3, ReturnTypes
  <2> QED
    BY <2>2, <2>3, <2>4
<1>35. ASSUME NEW g \in Goroutine, SweepCheck(g) PROVE (TypeOK /\ LegsLeft)'
  <2>1. CASE Goto(g, "sweepQuery") /\ UNCHANGED <<job, ctxDone>>
    BY <1>35, <2>1 DEF SweepCheck, Goto
  <2>2. CASE Return(g)
    BY <1>35, <2>2, ReturnTypes DEF SweepCheck
  <2> QED
    BY <1>35, <2>1, <2>2 DEF SweepCheck
<1>36. ASSUME NEW g \in Goroutine, SweepQuery(g) PROVE (TypeOK /\ LegsLeft)'
  <2>1. /\ Goto(g, "sweepMark") \/ Goto(g, "sweepNote")
        /\ OnlyMoves
    BY <1>36 DEF SweepQuery
  <2>2. pc' \in [Goroutine -> PC] /\ LegsLeft'
    BY <2>1 DEF Goto, OnlyMoves
  <2> QED
    BY <2>1, <2>2 DEF OnlyMoves
<1>37. ASSUME NEW g \in Goroutine, SweepMark(g) PROVE (TypeOK /\ LegsLeft)'
  BY <1>37 DEF SweepMark, Save, Goto
<1>38. ASSUME NEW g \in Goroutine, SweepUnwind(g) PROVE (TypeOK /\ LegsLeft)'
  BY <1>38 DEF SweepUnwind, SaveAs, Save, Goto
<1>39. ASSUME NEW g \in Goroutine, SweepNote(g) PROVE (TypeOK /\ LegsLeft)'
  BY <1>39 DEF SweepNote, Save, Goto
<1>40. ASSUME NEW g \in Goroutine, SweepLoose(g) PROVE (TypeOK /\ LegsLeft)'
  <2>1. store' \in Job /\ chain' \in Chain
    BY <1>40, SweepTypes DEF SweepLoose
  <2> QED
    BY <1>40, <2>1 DEF SweepLoose, Goto
<1>41. CASE HealthList
  BY <1>41 DEF HealthList
<1>42. CASE HealthSave
  BY <1>42 DEF HealthSave, Save
<1>43. CASE FundingLands
  <2>1. chain' \in Chain /\ UNCHANGED <<store, cancels, ctxDone, pc, job, others>>
    BY <1>43 DEF FundingLands
  <2> QED
    BY <2>1
<1>44. CASE Crash
  <2>1. key' \in BOOLEAN
    BY <1>44, CrashTypes
  <2>2. crashes' \in 0..MaxCrashes
    BY <1>44 DEF Crash
  <2>3. pc' \in [Goroutine -> PC] /\ LegsLeft'
    BY <1>44 DEF Crash
  <2>4. job' \in [Goroutine -> Job] /\ health' \in Job
    BY <1>44 DEF Crash
  <2>5. cancels' = Nobody /\ ctxDone' \in [Goroutine -> BOOLEAN] /\ boot' = "awaiting_funding"
    BY <1>44 DEF Crash
  <2>6. UNCHANGED <<store, chain, reversals>>
    BY <1>44 DEF Crash
  <2> QED
    BY <2>1, <2>2, <2>3, <2>4, <2>5, <2>6
<1>45. CASE RecoverInflight
  <2>1. ASSUME NEW g \in Goroutine, NEW s, NEW l \in {"register", "unwind"}, Recover(g, s, l)
        PROVE (TypeOK /\ LegsLeft)'
    <3>1. /\ job' = [job EXCEPT ![g] = store]
          /\ pc' = [pc EXCEPT ![g] = l]
          /\ UNCHANGED <<store, cancels, ctxDone, health, key, chain, reversals, crashes>>
      BY <2>1 DEF Recover, Goto
    <3>2. boot' \in {"up", "awaiting_funding", "running", "reversing"}
      BY <2>1 DEF Recover, AfterBoot
    <3>3. pc' \in [Goroutine -> PC] /\ job' \in [Goroutine -> Job]
      BY <3>1
    <3>4. LegsLeft'
      BY <3>1
    <3> QED
      BY <3>1, <3>2, <3>3, <3>4
  <2>2. ASSUME NEW s, RecoverSkip(s) PROVE (TypeOK /\ LegsLeft)'
    <3>1. boot' \in {"up", "awaiting_funding", "running", "reversing"}
      BY <2>2 DEF RecoverSkip, AfterBoot
    <3> QED
      BY <2>2, <3>1 DEF RecoverSkip
  <2> QED
    BY <1>45, <2>1, <2>2 DEF RecoverInflight
<1>46. CASE UNCHANGED vars
  BY <1>46
<1> QED
  BY <1>1, <1>2, <1>3, <1>4, <1>5, <1>6, <1>7, <1>8, <1>9, <1>10, <1>11, <1>12, <1>13, <1>14, <1>15, <1>16, <1>17, <1>18,
     <1>19, <1>20, <1>21, <1>22, <1>23, <1>24, <1>25, <1>26, <1>27, <1>28, <1>29, <1>30, <1>31, <1>32, <1>33, <1>34, <1>35, <1>36,
     <1>37, <1>38, <1>39, <1>40, <1>41, <1>42, <1>43, <1>44, <1>45, <1>46
     DEF Next, Request, GoStep, LifecycleStep, RunStep, ReverseStep

\* Type correctness: in particular no job, however often it is resumed or written
\* back from a stale copy, records more borrows than its plan has legs.
THEOREM TypeCorrect == Spec => [](TypeOK /\ LegsLeft)
<1>1. Init => TypeOK /\ LegsLeft
  BY TypeInit
<1>2. TypeOK /\ LegsLeft /\ [Next]_vars => (TypeOK /\ LegsLeft)'
  BY TypeStep
<1> QED
  BY <1>1, <1>2, PTL DEF Spec

----------------------------------------------------------------------------
(* The registry. *)

\* Every step keeps the registry sound.
LEMMA RegistryStep == TypeOK /\ Registry /\ [Next]_vars => Registry'
<1> SUFFICES ASSUME TypeOK /\ Registry, [Next]_vars PROVE Registry'
  OBVIOUS
<1> USE NobodyAssumption
<1> USE DEF TypeOK, Registry, PC, HandlerPC, OwnerPC, BuildPC, UnwindPC, vars, others
<1>1. ASSUME NEW g \in Goroutine, Open(g) PROVE Registry'
  BY <1>1 DEF Open, Goto, Idle
<1>2. ASSUME NEW g \in Goroutine, Start(g) PROVE Registry'
  BY <1>2 DEF Start, Receives, Loads, Goto, Idle
<1>3. ASSUME NEW g \in Goroutine, Retry(g) PROVE Registry'
  BY <1>3 DEF Retry, Receives, Loads, Goto, Idle
<1>4. ASSUME NEW g \in Goroutine, Reverse(g) PROVE Registry'
  BY <1>4 DEF Reverse, Receives, Goto, Idle
<1>5. ASSUME NEW g \in Goroutine, Sweep(g) PROVE Registry'
  BY <1>5 DEF Sweep, Receives, Loads, Goto, Idle
<1>6. ASSUME NEW g \in Goroutine, Register(g) PROVE Registry'
  BY <1>6 DEF Register, TakesOwnership, Goto, Return
<1>7. ASSUME NEW g \in Goroutine, Begin(g) PROVE Registry'
  BY <1>7 DEF Begin, Goto, OnlyMoves
<1>8. ASSUME NEW g \in Goroutine, MarkRunning(g) PROVE Registry'
  BY <1>8 DEF MarkRunning, SaveAs, Save, Goto
<1>9. ASSUME NEW g \in Goroutine, WaitCheck(g) PROVE Registry'
  BY <1>9 DEF WaitCheck, Goto, OnlyMoves
<1>10. ASSUME NEW g \in Goroutine, WaitCancelled(g) PROVE Registry'
  BY <1>10 DEF WaitCancelled, Goto
<1>11. ASSUME NEW g \in Goroutine, WaitPoll(g) PROVE Registry'
  BY <1>11 DEF WaitPoll, Goto, OnlyMoves
<1>12. ASSUME NEW g \in Goroutine, WaitExpire(g) PROVE Registry'
  BY <1>12 DEF WaitExpire, Return, Goto
<1>13. ASSUME NEW g \in Goroutine, CancelSweep(g) PROVE Registry'
  BY <1>13 DEF CancelSweep, SweepFunds, Save, Goto
<1>14. ASSUME NEW g \in Goroutine, RetryRegister(g) PROVE Registry'
  BY <1>14 DEF RetryRegister, TakesOwnership, Goto, Return
<1>15. ASSUME NEW g \in Goroutine, RetryRecord(g) PROVE Registry'
  BY <1>15 DEF RetryRecord, SaveAs, Save, Goto
<1>16. ASSUME NEW g \in Goroutine, Run(g) PROVE Registry'
  BY <1>16 DEF Run, Save, Goto
<1>17. ASSUME NEW g \in Goroutine, Trade(g) PROVE Registry'
  BY <1>17 DEF Trade, Save, Goto
<1>18. ASSUME NEW g \in Goroutine, LoopHead(g) PROVE Registry'
  BY <1>18 DEF LoopHead, Save, Goto
<1>19. ASSUME NEW g \in Goroutine, LoopExit(g) PROVE Registry'
  BY <1>19 DEF LoopExit, Goto, OnlyMoves
<1>20. ASSUME NEW g \in Goroutine, LegSubmit(g) PROVE Registry'
  BY <1>20 DEF LegSubmit, Goto
<1>21. ASSUME NEW g \in Goroutine, LegRecord(g) PROVE Registry'
  BY <1>21 DEF LegRecord, Save, Goto
<1>22. ASSUME NEW g \in Goroutine, LegTrade(g) PROVE Registry'
  BY <1>22 DEF LegTrade, Save, Goto
<1>23. ASSUME NEW g \in Goroutine, OpError(g) PROVE Registry'
  BY <1>23 DEF OpError, Goto, OnlyMoves
<1>24. ASSUME NEW g \in Goroutine, FailSave(g) PROVE Registry'
  BY <1>24 DEF FailSave, SaveAs, Save, Goto
<1>25. ASSUME NEW g \in Goroutine, FailDelete(g) PROVE Registry'
  BY <1>25 DEF FailDelete, Return, Goto
<1>26. ASSUME NEW g \in Goroutine, Finalize(g) PROVE Registry'
  BY <1>26 DEF Finalize, Goto
<1>27. ASSUME NEW g \in Goroutine, OpenSave(g) PROVE Registry'
  BY <1>27 DEF OpenSave, Save, Return, Goto
<1>28. ASSUME NEW g \in Goroutine, ReverseMark(g) PROVE Registry'
  BY <1>28 DEF ReverseMark, Save, Goto
<1>29. ASSUME NEW g \in Goroutine, ReverseSignal(g) PROVE Registry'
  BY <1>29 DEF ReverseSignal, Goto
<1>30. ASSUME NEW g \in Goroutine, Unwind(g) PROVE Registry'
  BY <1>30 DEF Unwind, Goto, OnlyMoves
<1>31. ASSUME NEW g \in Goroutine, UnwindRecord(g) PROVE Registry'
  BY <1>31 DEF UnwindRecord, Save, Goto
<1>32. ASSUME NEW g \in Goroutine, UnwindClose(g) PROVE Registry'
  BY <1>32 DEF UnwindClose, Save, Goto
<1>33. ASSUME NEW g \in Goroutine, UnwindSweep(g) PROVE Registry'
  BY <1>33 DEF UnwindSweep, SweepFunds, Save, Goto
<1>34. ASSUME NEW g \in Goroutine, ReversedSave(g) PROVE Registry'
  BY <1>34 DEF ReversedSave, Save, Return, Goto
<1>35. ASSUME NEW g \in Goroutine, SweepCheck(g) PROVE Registry'
  BY <1>35 DEF SweepCheck, Return, Goto
<1>36. ASSUME NEW g \in Goroutine, SweepQuery(g) PROVE Registry'
  BY <1>36 DEF SweepQuery, Goto, OnlyMoves
<1>37. ASSUME NEW g \in Goroutine, SweepMark(g) PROVE Registry'
  BY <1>37 DEF SweepMark, Save, Goto
<1>38. ASSUME NEW g \in Goroutine, SweepUnwind(g) PROVE Registry'
  BY <1>38 DEF SweepUnwind, SaveAs, Save, Goto
<1>39. ASSUME NEW g \in Goroutine, SweepNote(g) PROVE Registry'
  BY <1>39 DEF SweepNote, Save, Goto
<1>40. ASSUME NEW g \in Goroutine, SweepLoose(g) PROVE Registry'
  BY <1>40 DEF SweepLoose, SweepFunds, Save, Goto
<1>41. CASE HealthList
  BY <1>41 DEF HealthList
<1>42. CASE HealthSave
  BY <1>42 DEF HealthSave, Save
<1>43. CASE FundingLands
  BY <1>43 DEF FundingLands
<1>44. CASE Crash
  BY <1>44 DEF Crash
<1>45. CASE RecoverInflight
  <2>1. ASSUME NEW g \in Goroutine, NEW s, NEW l \in {"register", "unwind"}, Recover(g, s, l)
        PROVE Registry'
    BY <2>1 DEF Recover, Goto, Idle
  <2>2. ASSUME NEW s, RecoverSkip(s) PROVE Registry'
    BY <2>2 DEF RecoverSkip
  <2> QED
    BY <1>45, <2>1, <2>2 DEF RecoverInflight
<1>46. CASE UNCHANGED vars
  BY <1>46
<1> QED
  BY <1>1, <1>2, <1>3, <1>4, <1>5, <1>6, <1>7, <1>8, <1>9, <1>10, <1>11, <1>12, <1>13, <1>14, <1>15, <1>16, <1>17, <1>18,
     <1>19, <1>20, <1>21, <1>22, <1>23, <1>24, <1>25, <1>26, <1>27, <1>28, <1>29, <1>30, <1>31, <1>32, <1>33, <1>34, <1>35, <1>36,
     <1>37, <1>38, <1>39, <1>40, <1>41, <1>42, <1>43, <1>44, <1>45, <1>46
     DEF Next, Request, GoStep, LifecycleStep, RunStep, ReverseStep

\* Whatever the clients, the health monitor and the crashes do, the registration of
\* the job belongs to a live, uncancelled goroutine that will drop it.
THEOREM RegistrySound == Spec => []Registry
<1>1. Init => Registry
  BY DEF Init, Registry
<1>2. TypeOK /\ Registry /\ [Next]_vars => Registry'
  BY RegistryStep
<1> QED
  BY <1>1, <1>2, TypeCorrect, PTL DEF Spec

----------------------------------------------------------------------------
(* Open positions are complete. *)

\* Every step keeps every copy that is or may be saved as open complete.
LEMMA OpenStep == TypeOK /\ LegsLeft /\ OpenComplete /\ [Next]_vars => OpenComplete'
<1> SUFFICES ASSUME TypeOK /\ LegsLeft /\ OpenComplete, [Next]_vars PROVE OpenComplete'
  OBVIOUS
<1> USE LegsAssumption
<1> USE DEF TypeOK, LegsLeft, OpenComplete, Job, NoJob, Status, vars, others
<1>1. ASSUME NEW g \in Goroutine, Open(g) PROVE OpenComplete'
  BY <1>1 DEF Open, Goto, Idle
<1>2. ASSUME NEW g \in Goroutine, Start(g) PROVE OpenComplete'
  BY <1>2 DEF Start, Receives, Loads, Goto, Idle
<1>3. ASSUME NEW g \in Goroutine, Retry(g) PROVE OpenComplete'
  BY <1>3 DEF Retry, Receives, Loads, Goto, Idle
<1>4. ASSUME NEW g \in Goroutine, Reverse(g) PROVE OpenComplete'
  BY <1>4 DEF Reverse, Receives, Goto, Idle
<1>5. ASSUME NEW g \in Goroutine, Sweep(g) PROVE OpenComplete'
  BY <1>5 DEF Sweep, Receives, Loads, Goto, Idle
<1>6. ASSUME NEW g \in Goroutine, Register(g) PROVE OpenComplete'
  BY <1>6 DEF Register, TakesOwnership, Goto, Return
<1>7. ASSUME NEW g \in Goroutine, Begin(g) PROVE OpenComplete'
  BY <1>7 DEF Begin, Goto, OnlyMoves
<1>8. ASSUME NEW g \in Goroutine, MarkRunning(g) PROVE OpenComplete'
  BY <1>8 DEF MarkRunning, SaveAs, Save, Goto
<1>9. ASSUME NEW g \in Goroutine, WaitCheck(g) PROVE OpenComplete'
  BY <1>9 DEF WaitCheck, Goto, OnlyMoves
<1>10. ASSUME NEW g \in Goroutine, WaitCancelled(g) PROVE OpenComplete'
  BY <1>10 DEF WaitCancelled, Goto
<1>11. ASSUME NEW g \in Goroutine, WaitPoll(g) PROVE OpenComplete'
  BY <1>11 DEF WaitPoll, Goto, OnlyMoves
<1>12. ASSUME NEW g \in Goroutine, WaitExpire(g) PROVE OpenComplete'
  BY <1>12 DEF WaitExpire, Return, Goto
<1>13. ASSUME NEW g \in Goroutine, CancelSweep(g) PROVE OpenComplete'
  BY <1>13 DEF CancelSweep, SweepFunds, Save, Goto
<1>14. ASSUME NEW g \in Goroutine, RetryRegister(g) PROVE OpenComplete'
  BY <1>14 DEF RetryRegister, TakesOwnership, Goto, Return
<1>15. ASSUME NEW g \in Goroutine, RetryRecord(g) PROVE OpenComplete'
  BY <1>15 DEF RetryRecord, SaveAs, Save, Goto
<1>16. ASSUME NEW g \in Goroutine, Run(g) PROVE OpenComplete'
  BY <1>16 DEF Run, Save, Goto
<1>17. ASSUME NEW g \in Goroutine, Trade(g) PROVE OpenComplete'
  BY <1>17 DEF Trade, Save, Goto
<1>18. ASSUME NEW g \in Goroutine, LoopHead(g) PROVE OpenComplete'
  BY <1>18 DEF LoopHead, Save, Goto
<1>19. ASSUME NEW g \in Goroutine, LoopExit(g) PROVE OpenComplete'
  BY <1>19 DEF LoopExit, Goto, OnlyMoves
<1>20. ASSUME NEW g \in Goroutine, LegSubmit(g) PROVE OpenComplete'
  BY <1>20 DEF LegSubmit, Goto
<1>21. ASSUME NEW g \in Goroutine, LegRecord(g) PROVE OpenComplete'
  BY <1>21 DEF LegRecord, Save, Goto
<1>22. ASSUME NEW g \in Goroutine, LegTrade(g) PROVE OpenComplete'
  BY <1>22 DEF LegTrade, Save, Goto
<1>23. ASSUME NEW g \in Goroutine, OpError(g) PROVE OpenComplete'
  BY <1>23 DEF OpError, Goto, OnlyMoves
<1>24. ASSUME NEW g \in Goroutine, FailSave(g) PROVE OpenComplete'
  BY <1>24 DEF FailSave, SaveAs, Save, Goto
<1>25. ASSUME NEW g \in Goroutine, FailDelete(g) PROVE OpenComplete'
  BY <1>25 DEF FailDelete, Return, Goto
<1>26. ASSUME NEW g \in Goroutine, Finalize(g) PROVE OpenComplete'
  BY <1>26 DEF Finalize, Goto
<1>27. ASSUME NEW g \in Goroutine, OpenSave(g) PROVE OpenComplete'
  BY <1>27 DEF OpenSave, Save, Return, Goto
<1>28. ASSUME NEW g \in Goroutine, ReverseMark(g) PROVE OpenComplete'
  BY <1>28 DEF ReverseMark, Save, Goto
<1>29. ASSUME NEW g \in Goroutine, ReverseSignal(g) PROVE OpenComplete'
  BY <1>29 DEF ReverseSignal, Goto
<1>30. ASSUME NEW g \in Goroutine, Unwind(g) PROVE OpenComplete'
  BY <1>30 DEF Unwind, Goto, OnlyMoves
<1>31. ASSUME NEW g \in Goroutine, UnwindRecord(g) PROVE OpenComplete'
  BY <1>31 DEF UnwindRecord, Save, Goto
<1>32. ASSUME NEW g \in Goroutine, UnwindClose(g) PROVE OpenComplete'
  BY <1>32 DEF UnwindClose, Save, Goto
<1>33. ASSUME NEW g \in Goroutine, UnwindSweep(g) PROVE OpenComplete'
  BY <1>33 DEF UnwindSweep, SweepFunds, Save, Goto
<1>34. ASSUME NEW g \in Goroutine, ReversedSave(g) PROVE OpenComplete'
  BY <1>34 DEF ReversedSave, Save, Return, Goto
<1>35. ASSUME NEW g \in Goroutine, SweepCheck(g) PROVE OpenComplete'
  BY <1>35 DEF SweepCheck, Return, Goto
<1>36. ASSUME NEW g \in Goroutine, SweepQuery(g) PROVE OpenComplete'
  BY <1>36 DEF SweepQuery, Goto, OnlyMoves
<1>37. ASSUME NEW g \in Goroutine, SweepMark(g) PROVE OpenComplete'
  BY <1>37 DEF SweepMark, Save, Goto
<1>38. ASSUME NEW g \in Goroutine, SweepUnwind(g) PROVE OpenComplete'
  BY <1>38 DEF SweepUnwind, SaveAs, Save, Goto
<1>39. ASSUME NEW g \in Goroutine, SweepNote(g) PROVE OpenComplete'
  BY <1>39 DEF SweepNote, Save, Goto
<1>40. ASSUME NEW g \in Goroutine, SweepLoose(g) PROVE OpenComplete'
  BY <1>40 DEF SweepLoose, SweepFunds, Save, Goto
<1>41. CASE HealthList
  BY <1>41 DEF HealthList
<1>42. CASE HealthSave
  BY <1>42 DEF HealthSave, Save
<1>43. CASE FundingLands
  BY <1>43 DEF FundingLands
<1>44. CASE Crash
  BY <1>44 DEF Crash
<1>45. CASE RecoverInflight
  <2>1. ASSUME NEW g \in Goroutine, NEW s, NEW l \in {"register", "unwind"}, Recover(g, s, l)
        PROVE OpenComplete'
    BY <2>1 DEF Recover, Goto, Idle
  <2>2. ASSUME NEW s, RecoverSkip(s) PROVE OpenComplete'
    BY <2>2 DEF RecoverSkip
  <2> QED
    BY <1>45, <2>1, <2>2 DEF RecoverInflight
<1>46. CASE UNCHANGED vars
  BY <1>46
<1> QED
  BY <1>1, <1>2, <1>3, <1>4, <1>5, <1>6, <1>7, <1>8, <1>9, <1>10, <1>11, <1>12, <1>13, <1>14, <1>15, <1>16, <1>17, <1>18,
     <1>19, <1>20, <1>21, <1>22, <1>23, <1>24, <1>25, <1>26, <1>27, <1>28, <1>29, <1>30, <1>31, <1>32, <1>33, <1>34, <1>35, <1>36,
     <1>37, <1>38, <1>39, <1>40, <1>41, <1>42, <1>43, <1>44, <1>45, <1>46
     DEF Next, Request, GoStep, LifecycleStep, RunStep, ReverseStep

\* A job is stored as open only when every leg of its plan has been recorded.
THEOREM OpenIsComplete == Spec => []OpenComplete
<1>1. Init => OpenComplete
  BY DEF Init, OpenComplete, NoJob
<1>2. TypeOK /\ LegsLeft /\ OpenComplete /\ [Next]_vars => OpenComplete'
  BY OpenStep
<1> QED
  BY <1>1, <1>2, TypeCorrect, PTL DEF Spec

----------------------------------------------------------------------------
(* One builder, until the first Reverse. *)

\* Before the first Reverse nothing is cancelled; being at work on the job means holding
\* its registration, and with a secret that does not open its key nobody builds.
OwnersRegistered ==
    reversals = 0 => \A g \in Goroutine :
        /\ ~ctxDone[g]
        /\ pc[g] \notin {"reverseMark", "reverseSignal"}
        /\ key /\ pc[g] \in OwnerPC => cancels = g
        /\ ~key => ~Builds(g)

\* Every step keeps the owners registered, or is the first Reverse.
LEMMA OwnerStep == TypeOK /\ OwnersRegistered /\ [Next]_vars => OwnersRegistered'
<1> SUFFICES ASSUME TypeOK /\ OwnersRegistered, [Next]_vars PROVE OwnersRegistered'
  OBVIOUS
<1> USE NobodyAssumption
<1> USE DEF TypeOK, OwnersRegistered, Builds, PC, HandlerPC, OwnerPC, BuildPC, UnwindPC, vars, others
<1>1. ASSUME NEW g \in Goroutine, Open(g) PROVE OwnersRegistered'
  BY <1>1 DEF Open, Goto, Idle
<1>2. ASSUME NEW g \in Goroutine, Start(g) PROVE OwnersRegistered'
  BY <1>2 DEF Start, Receives, Loads, Goto, Idle
<1>3. ASSUME NEW g \in Goroutine, Retry(g) PROVE OwnersRegistered'
  BY <1>3 DEF Retry, Receives, Loads, Goto, Idle
<1>4. ASSUME NEW g \in Goroutine, Reverse(g) PROVE OwnersRegistered'
  BY <1>4, BoundsAssumption DEF Reverse, Receives, Goto, Idle
<1>5. ASSUME NEW g \in Goroutine, Sweep(g) PROVE OwnersRegistered'
  BY <1>5 DEF Sweep, Receives, Loads, Goto, Idle
<1>6. ASSUME NEW g \in Goroutine, Register(g) PROVE OwnersRegistered'
  BY <1>6 DEF Register, TakesOwnership, Goto, Return
<1>7. ASSUME NEW g \in Goroutine, Begin(g) PROVE OwnersRegistered'
  BY <1>7 DEF Begin, Goto, OnlyMoves
<1>8. ASSUME NEW g \in Goroutine, MarkRunning(g) PROVE OwnersRegistered'
  BY <1>8 DEF MarkRunning, SaveAs, Save, Goto
<1>9. ASSUME NEW g \in Goroutine, WaitCheck(g) PROVE OwnersRegistered'
  BY <1>9 DEF WaitCheck, Goto, OnlyMoves
<1>10. ASSUME NEW g \in Goroutine, WaitCancelled(g) PROVE OwnersRegistered'
  BY <1>10 DEF WaitCancelled, Goto
<1>11. ASSUME NEW g \in Goroutine, WaitPoll(g) PROVE OwnersRegistered'
  BY <1>11 DEF WaitPoll, Goto, OnlyMoves
<1>12. ASSUME NEW g \in Goroutine, WaitExpire(g) PROVE OwnersRegistered'
  BY <1>12 DEF WaitExpire, Return, Goto
<1>13. ASSUME NEW g \in Goroutine, CancelSweep(g) PROVE OwnersRegistered'
  BY <1>13 DEF CancelSweep, SweepFunds, Save, Goto
<1>14. ASSUME NEW g \in Goroutine, RetryRegister(g) PROVE OwnersRegistered'
  BY <1>14 DEF RetryRegister, TakesOwnership, Goto, Return
<1>15. ASSUME NEW g \in Goroutine, RetryRecord(g) PROVE OwnersRegistered'
  BY <1>15 DEF RetryRecord, SaveAs, Save, Goto
<1>16. ASSUME NEW g \in Goroutine, Run(g) PROVE OwnersRegistered'
  BY <1>16 DEF Run, Save, Goto
<1>17. ASSUME NEW g \in Goroutine, Trade(g) PROVE OwnersRegistered'
  BY <1>17 DEF Trade, Save, Goto
<1>18. ASSUME NEW g \in Goroutine, LoopHead(g) PROVE OwnersRegistered'
  BY <1>18 DEF LoopHead, Save, Goto
<1>19. ASSUME NEW g \in Goroutine, LoopExit(g) PROVE OwnersRegistered'
  BY <1>19 DEF LoopExit, Goto, OnlyMoves
<1>20. ASSUME NEW g \in Goroutine, LegSubmit(g) PROVE OwnersRegistered'
  BY <1>20 DEF LegSubmit, Goto
<1>21. ASSUME NEW g \in Goroutine, LegRecord(g) PROVE OwnersRegistered'
  BY <1>21 DEF LegRecord, Save, Goto
<1>22. ASSUME NEW g \in Goroutine, LegTrade(g) PROVE OwnersRegistered'
  BY <1>22 DEF LegTrade, Save, Goto
<1>23. ASSUME NEW g \in Goroutine, OpError(g) PROVE OwnersRegistered'
  BY <1>23 DEF OpError, Goto, OnlyMoves
<1>24. ASSUME NEW g \in Goroutine, FailSave(g) PROVE OwnersRegistered'
  BY <1>24 DEF FailSave, SaveAs, Save, Goto
<1>25. ASSUME NEW g \in Goroutine, FailDelete(g) PROVE OwnersRegistered'
  BY <1>25 DEF FailDelete, Return, Goto
<1>26. ASSUME NEW g \in Goroutine, Finalize(g) PROVE OwnersRegistered'
  BY <1>26 DEF Finalize, Goto
<1>27. ASSUME NEW g \in Goroutine, OpenSave(g) PROVE OwnersRegistered'
  BY <1>27 DEF OpenSave, Save, Return, Goto
<1>28. ASSUME NEW g \in Goroutine, ReverseMark(g) PROVE OwnersRegistered'
  BY <1>28 DEF ReverseMark, Save, Goto
<1>29. ASSUME NEW g \in Goroutine, ReverseSignal(g) PROVE OwnersRegistered'
  BY <1>29 DEF ReverseSignal, Goto
<1>30. ASSUME NEW g \in Goroutine, Unwind(g) PROVE OwnersRegistered'
  BY <1>30 DEF Unwind, Goto, OnlyMoves
<1>31. ASSUME NEW g \in Goroutine, UnwindRecord(g) PROVE OwnersRegistered'
  BY <1>31 DEF UnwindRecord, Save, Goto
<1>32. ASSUME NEW g \in Goroutine, UnwindClose(g) PROVE OwnersRegistered'
  BY <1>32 DEF UnwindClose, Save, Goto
<1>33. ASSUME NEW g \in Goroutine, UnwindSweep(g) PROVE OwnersRegistered'
  BY <1>33 DEF UnwindSweep, SweepFunds, Save, Goto
<1>34. ASSUME NEW g \in Goroutine, ReversedSave(g) PROVE OwnersRegistered'
  BY <1>34 DEF ReversedSave, Save, Return, Goto
<1>35. ASSUME NEW g \in Goroutine, SweepCheck(g) PROVE OwnersRegistered'
  BY <1>35 DEF SweepCheck, Return, Goto
<1>36. ASSUME NEW g \in Goroutine, SweepQuery(g) PROVE OwnersRegistered'
  BY <1>36 DEF SweepQuery, Goto, OnlyMoves
<1>37. ASSUME NEW g \in Goroutine, SweepMark(g) PROVE OwnersRegistered'
  BY <1>37 DEF SweepMark, Save, Goto
<1>38. ASSUME NEW g \in Goroutine, SweepUnwind(g) PROVE OwnersRegistered'
  BY <1>38 DEF SweepUnwind, SaveAs, Save, Goto
<1>39. ASSUME NEW g \in Goroutine, SweepNote(g) PROVE OwnersRegistered'
  BY <1>39 DEF SweepNote, Save, Goto
<1>40. ASSUME NEW g \in Goroutine, SweepLoose(g) PROVE OwnersRegistered'
  BY <1>40 DEF SweepLoose, SweepFunds, Save, Goto
<1>41. CASE HealthList
  BY <1>41 DEF HealthList
<1>42. CASE HealthSave
  BY <1>42 DEF HealthSave, Save
<1>43. CASE FundingLands
  BY <1>43 DEF FundingLands
<1>44. CASE Crash
  BY <1>44 DEF Crash
<1>45. CASE RecoverInflight
  BY <1>45 DEF RecoverInflight, Recover, RecoverSkip, Recovering, AfterBoot, Goto, Idle
<1>46. CASE UNCHANGED vars
  BY <1>46
<1> QED
  BY <1>1, <1>2, <1>3, <1>4, <1>5, <1>6, <1>7, <1>8, <1>9, <1>10, <1>11, <1>12, <1>13, <1>14, <1>15, <1>16, <1>17, <1>18,
     <1>19, <1>20, <1>21, <1>22, <1>23, <1>24, <1>25, <1>26, <1>27, <1>28, <1>29, <1>30, <1>31, <1>32, <1>33, <1>34, <1>35, <1>36,
     <1>37, <1>38, <1>39, <1>40, <1>41, <1>42, <1>43, <1>44, <1>45, <1>46
     DEF Next, Request, GoStep, LifecycleStep, RunStep, ReverseStep

\* Until a Reverse is accepted there is at most one build loop, however many Start,
\* Retry and Sweep calls overlap with each other, with Open and with a recovery.
THEOREM OneBuilder == Spec => []AtMostOneBuilder
<1>1. Init => OwnersRegistered
  BY DEF Init, OwnersRegistered, OwnerPC, BuildPC, Builds
<1>2. TypeOK /\ OwnersRegistered /\ [Next]_vars => OwnersRegistered'
  BY OwnerStep
<1>3. OwnersRegistered => AtMostOneBuilder
  BY DEF OwnersRegistered, AtMostOneBuilder, Builds, OwnerPC
<1> QED
  BY <1>1, <1>2, <1>3, TypeCorrect, PTL DEF Spec

----------------------------------------------------------------------------
(* One accepted Reverse: the job is handed over from its owner to one unwind. *)

\* What every copy of the job document is: a live goroutine works on a job that was
\* opened, the health monitor on an open one, and a reversed job is in the store.
Documents ==
    /\ health # NoJob => health.status = "open"
    /\ \A g \in Goroutine : pc[g] # "idle" => job[g].status # "none"
    /\ reversals # 0 => store.status # "none"

\* Nothing is cancelled, and being at work on the job means holding its registration.
Owned == \A g \in Goroutine : ~ctxDone[g] /\ (pc[g] \in OwnerPC => cancels = g)

\* No reversal is under way: no copy of the job asks for one and nobody unwinds.
NotReversing ==
    /\ Owned
    /\ store.status # "reversing"
    /\ \A g \in Goroutine :
        /\ job[g].status # "reversing"
        /\ pc[g] \in OwnerPC \cup {"idle", "register", "openSave"}

\* h has accepted a Reverse and not signalled it yet: the owner, if there is one, goes
\* on, and nobody is on the way to a registration.
Asked(h) ==
    /\ Owned
    /\ reversals = 1 /\ boot = "up"
    /\ pc[h] \in {"reverseMark", "reverseSignal"}
    /\ \A g \in Goroutine \ {h} : pc[g] \in (OwnerPC \ {"begin"}) \cup {"idle", "openSave"}

\* The Reverse has been signalled: w, its handler or the owner it cancelled, has the job
\* to itself, and a process that crashed meanwhile finds nothing but a reversal to resume.
Alone(w) ==
    /\ reversals = 1 /\ cancels = Nobody
    /\ pc[w] \notin {"register", "retryRegister", "reverseMark", "reverseSignal"}
    /\ \A g \in Goroutine \ {w} : pc[g] \in {"idle", "openSave"}
    /\ boot # "up" =>
        /\ store.status = "reversing" /\ health = NoJob
        /\ \A g \in Goroutine : pc[g] = "idle"

Mode(w) == NotReversing \/ (w \in Goroutine /\ (Asked(w) \/ Alone(w)))

HandedOver == NotReversing \/ \E w \in Goroutine : Asked(w) \/ Alone(w)

\* Every step keeps the documents as they should be.
LEMMA DocumentsStep == TypeOK /\ Documents /\ [Next]_vars => Documents'
<1> SUFFICES ASSUME TypeOK /\ Documents, [Next]_vars PROVE Documents'
  OBVIOUS
<1> USE BoundsAssumption
<1> USE DEF TypeOK, Documents, Job, NoJob, Status, vars, others
<1>1. ASSUME NEW g \in Goroutine, Open(g) PROVE Documents'
  BY <1>1 DEF Open, Goto, Idle
<1>2. ASSUME NEW g \in Goroutine, Start(g) PROVE Documents'
  BY <1>2 DEF Start, Receives, Loads, Goto, Idle
<1>3. ASSUME NEW g \in Goroutine, Retry(g) PROVE Documents'
  BY <1>3 DEF Retry, Receives, Loads, Goto, Idle
<1>4. ASSUME NEW g \in Goroutine, Reverse(g) PROVE Documents'
  BY <1>4, BoundsAssumption DEF Reverse, Receives, Goto, Idle
<1>5. ASSUME NEW g \in Goroutine, Sweep(g) PROVE Documents'
  BY <1>5 DEF Sweep, Receives, Loads, Goto, Idle
<1>6. ASSUME NEW g \in Goroutine, Register(g) PROVE Documents'
  BY <1>6 DEF Register, TakesOwnership, Goto, Return
<1>7. ASSUME NEW g \in Goroutine, Begin(g) PROVE Documents'
  BY <1>7 DEF Begin, Goto, OnlyMoves
<1>8. ASSUME NEW g \in Goroutine, MarkRunning(g) PROVE Documents'
  BY <1>8 DEF MarkRunning, SaveAs, Save, Goto
<1>9. ASSUME NEW g \in Goroutine, WaitCheck(g) PROVE Documents'
  BY <1>9 DEF WaitCheck, Goto, OnlyMoves
<1>10. ASSUME NEW g \in Goroutine, WaitCancelled(g) PROVE Documents'
  BY <1>10 DEF WaitCancelled, Goto
<1>11. ASSUME NEW g \in Goroutine, WaitPoll(g) PROVE Documents'
  BY <1>11 DEF WaitPoll, Goto, OnlyMoves
<1>12. ASSUME NEW g \in Goroutine, WaitExpire(g) PROVE Documents'
  BY <1>12 DEF WaitExpire, Return, Goto
<1>13. ASSUME NEW g \in Goroutine, CancelSweep(g) PROVE Documents'
  BY <1>13 DEF CancelSweep, SweepFunds, Save, Goto
<1>14. ASSUME NEW g \in Goroutine, RetryRegister(g) PROVE Documents'
  BY <1>14 DEF RetryRegister, TakesOwnership, Goto, Return
<1>15. ASSUME NEW g \in Goroutine, RetryRecord(g) PROVE Documents'
  BY <1>15 DEF RetryRecord, SaveAs, Save, Goto
<1>16. ASSUME NEW g \in Goroutine, Run(g) PROVE Documents'
  BY <1>16 DEF Run, Save, Goto
<1>17. ASSUME NEW g \in Goroutine, Trade(g) PROVE Documents'
  BY <1>17 DEF Trade, Save, Goto
<1>18. ASSUME NEW g \in Goroutine, LoopHead(g) PROVE Documents'
  BY <1>18 DEF LoopHead, Save, Goto
<1>19. ASSUME NEW g \in Goroutine, LoopExit(g) PROVE Documents'
  BY <1>19 DEF LoopExit, Goto, OnlyMoves
<1>20. ASSUME NEW g \in Goroutine, LegSubmit(g) PROVE Documents'
  BY <1>20 DEF LegSubmit, Goto
<1>21. ASSUME NEW g \in Goroutine, LegRecord(g) PROVE Documents'
  BY <1>21 DEF LegRecord, Save, Goto
<1>22. ASSUME NEW g \in Goroutine, LegTrade(g) PROVE Documents'
  BY <1>22 DEF LegTrade, Save, Goto
<1>23. ASSUME NEW g \in Goroutine, OpError(g) PROVE Documents'
  BY <1>23 DEF OpError, Goto, OnlyMoves
<1>24. ASSUME NEW g \in Goroutine, FailSave(g) PROVE Documents'
  BY <1>24 DEF FailSave, SaveAs, Save, Goto
<1>25. ASSUME NEW g \in Goroutine, FailDelete(g) PROVE Documents'
  BY <1>25 DEF FailDelete, Return, Goto
<1>26. ASSUME NEW g \in Goroutine, Finalize(g) PROVE Documents'
  BY <1>26 DEF Finalize, Goto
<1>27. ASSUME NEW g \in Goroutine, OpenSave(g) PROVE Documents'
  BY <1>27 DEF OpenSave, Save, Return, Goto
<1>28. ASSUME NEW g \in Goroutine, ReverseMark(g) PROVE Documents'
  BY <1>28 DEF ReverseMark, Save, Goto
<1>29. ASSUME NEW g \in Goroutine, ReverseSignal(g) PROVE Documents'
  BY <1>29 DEF ReverseSignal, Goto
<1>30. ASSUME NEW g \in Goroutine, Unwind(g) PROVE Documents'
  BY <1>30 DEF Unwind, Goto, OnlyMoves
<1>31. ASSUME NEW g \in Goroutine, UnwindRecord(g) PROVE Documents'
  BY <1>31 DEF UnwindRecord, Save, Goto
<1>32. ASSUME NEW g \in Goroutine, UnwindClose(g) PROVE Documents'
  BY <1>32 DEF UnwindClose, Save, Goto
<1>33. ASSUME NEW g \in Goroutine, UnwindSweep(g) PROVE Documents'
  BY <1>33 DEF UnwindSweep, SweepFunds, Save, Goto
<1>34. ASSUME NEW g \in Goroutine, ReversedSave(g) PROVE Documents'
  BY <1>34 DEF ReversedSave, Save, Return, Goto
<1>35. ASSUME NEW g \in Goroutine, SweepCheck(g) PROVE Documents'
  BY <1>35 DEF SweepCheck, Return, Goto
<1>36. ASSUME NEW g \in Goroutine, SweepQuery(g) PROVE Documents'
  BY <1>36 DEF SweepQuery, Goto, OnlyMoves
<1>37. ASSUME NEW g \in Goroutine, SweepMark(g) PROVE Documents'
  BY <1>37 DEF SweepMark, Save, Goto
<1>38. ASSUME NEW g \in Goroutine, SweepUnwind(g) PROVE Documents'
  BY <1>38 DEF SweepUnwind, SaveAs, Save, Goto
<1>39. ASSUME NEW g \in Goroutine, SweepNote(g) PROVE Documents'
  BY <1>39 DEF SweepNote, Save, Goto
<1>40. ASSUME NEW g \in Goroutine, SweepLoose(g) PROVE Documents'
  BY <1>40 DEF SweepLoose, SweepFunds, Save, Goto
<1>41. CASE HealthList
  BY <1>41 DEF HealthList
<1>42. CASE HealthSave
  BY <1>42 DEF HealthSave, Save
<1>43. CASE FundingLands
  BY <1>43 DEF FundingLands
<1>44. CASE Crash
  BY <1>44 DEF Crash
<1>45. CASE RecoverInflight
  BY <1>45 DEF RecoverInflight, Recover, RecoverSkip, Recovering, AfterBoot, Goto, Idle
<1>46. CASE UNCHANGED vars
  BY <1>46
<1> QED
  BY <1>1, <1>2, <1>3, <1>4, <1>5, <1>6, <1>7, <1>8, <1>9, <1>10, <1>11, <1>12, <1>13, <1>14, <1>15, <1>16, <1>17, <1>18,
     <1>19, <1>20, <1>21, <1>22, <1>23, <1>24, <1>25, <1>26, <1>27, <1>28, <1>29, <1>30, <1>31, <1>32, <1>33, <1>34, <1>35, <1>36,
     <1>37, <1>38, <1>39, <1>40, <1>41, <1>42, <1>43, <1>44, <1>45, <1>46
     DEF Next, Request, GoStep, LifecycleStep, RunStep, ReverseStep

\* Every step of one mode leads to the same mode or to the next.
LEMMA HandOverStep ==
    ASSUME SerialClient = TRUE, MaxReversals = 1, Calls \subseteq {"reverse"},
           TypeOK, Registry, Documents, HandedOver, [Next]_vars
    PROVE  HandedOver'
<1>0. PICK w : Mode(w)
  BY DEF HandedOver, Mode
<1> USE NobodyAssumption
<1> USE DEF TypeOK, Documents, HandedOver, Mode, NotReversing, Asked, Alone, Owned
<1> USE DEF PC, HandlerPC, OwnerPC, BuildPC, UnwindPC, vars, others
<1>1. ASSUME NEW g \in Goroutine, Open(g) PROVE (Mode(w) \/ HandedOver)'
  BY <1>1 DEF Open, Goto, Idle
<1>2. ASSUME NEW g \in Goroutine, Start(g) PROVE (Mode(w) \/ HandedOver)'
  BY <1>2 DEF Start, Receives, Loads, Goto, Idle
<1>3. ASSUME NEW g \in Goroutine, Retry(g) PROVE (Mode(w) \/ HandedOver)'
  BY <1>3 DEF Retry, Receives, Loads, Goto, Idle
<1>4. ASSUME NEW g \in Goroutine, Reverse(g) PROVE (Mode(w) \/ HandedOver)'
  BY <1>4, BoundsAssumption DEF Reverse, Receives, Goto, Idle
<1>5. ASSUME NEW g \in Goroutine, Sweep(g) PROVE (Mode(w) \/ HandedOver)'
  BY <1>5 DEF Sweep, Receives, Loads, Goto, Idle
<1>6. ASSUME NEW g \in Goroutine, Register(g) PROVE (Mode(w) \/ HandedOver)'
  BY <1>6 DEF NoJob, Register, TakesOwnership, Goto, Return
<1>7. ASSUME NEW g \in Goroutine, Begin(g) PROVE (Mode(w) \/ HandedOver)'
  BY <1>7 DEF Begin, Goto, OnlyMoves
<1>8. ASSUME NEW g \in Goroutine, MarkRunning(g) PROVE (Mode(w) \/ HandedOver)'
  BY <1>8 DEF Job, MarkRunning, SaveAs, Save, Goto
<1>9. ASSUME NEW g \in Goroutine, WaitCheck(g) PROVE (Mode(w) \/ HandedOver)'
  BY <1>9 DEF WaitCheck, Goto, OnlyMoves
<1>10. ASSUME NEW g \in Goroutine, WaitCancelled(g) PROVE (Mode(w) \/ HandedOver)'
  BY <1>10 DEF WaitCancelled, Goto
<1>11. ASSUME NEW g \in Goroutine, WaitPoll(g) PROVE (Mode(w) \/ HandedOver)'
  BY <1>11 DEF WaitPoll, Goto, OnlyMoves
<1>12. ASSUME NEW g \in Goroutine, WaitExpire(g) PROVE (Mode(w) \/ HandedOver)'
  BY <1>12 DEF NoJob, WaitExpire, Return, Goto
<1>13. ASSUME NEW g \in Goroutine, CancelSweep(g) PROVE (Mode(w) \/ HandedOver)'
  BY <1>13 DEF CancelSweep, SweepFunds, Save, Goto
<1>14. ASSUME NEW g \in Goroutine, RetryRegister(g) PROVE (Mode(w) \/ HandedOver)'
  BY <1>14 DEF NoJob, RetryRegister, TakesOwnership, Goto, Return
<1>15. ASSUME NEW g \in Goroutine, RetryRecord(g) PROVE (Mode(w) \/ HandedOver)'
  BY <1>15 DEF Job, RetryRecord, SaveAs, Save, Goto
<1>16. ASSUME NEW g \in Goroutine, Run(g) PROVE (Mode(w) \/ HandedOver)'
  BY <1>16 DEF Run, Save, Goto
<1>17. ASSUME NEW g \in Goroutine, Trade(g) PROVE (Mode(w) \/ HandedOver)'
  BY <1>17 DEF Trade, Save, Goto
<1>18. ASSUME NEW g \in Goroutine, LoopHead(g) PROVE (Mode(w) \/ HandedOver)'
  BY <1>18 DEF LoopHead, Save, Goto
<1>19. ASSUME NEW g \in Goroutine, LoopExit(g) PROVE (Mode(w) \/ HandedOver)'
  BY <1>19 DEF LoopExit, Goto, OnlyMoves
<1>20. ASSUME NEW g \in Goroutine, LegSubmit(g) PROVE (Mode(w) \/ HandedOver)'
  BY <1>20 DEF LegSubmit, Goto
<1>21. ASSUME NEW g \in Goroutine, LegRecord(g) PROVE (Mode(w) \/ HandedOver)'
  BY <1>21 DEF Job, LegRecord, Save, Goto
<1>22. ASSUME NEW g \in Goroutine, LegTrade(g) PROVE (Mode(w) \/ HandedOver)'
  BY <1>22 DEF LegTrade, Save, Goto
<1>23. ASSUME NEW g \in Goroutine, OpError(g) PROVE (Mode(w) \/ HandedOver)'
  BY <1>23 DEF OpError, Goto, OnlyMoves
<1>24. ASSUME NEW g \in Goroutine, FailSave(g) PROVE (Mode(w) \/ HandedOver)'
  BY <1>24 DEF Job, FailSave, SaveAs, Save, Goto
<1>25. ASSUME NEW g \in Goroutine, FailDelete(g) PROVE (Mode(w) \/ HandedOver)'
  BY <1>25 DEF NoJob, FailDelete, Return, Goto
<1>26. ASSUME NEW g \in Goroutine, Finalize(g) PROVE (Mode(w) \/ HandedOver)'
  BY <1>26 DEF Finalize, Goto
<1>27. ASSUME NEW g \in Goroutine, OpenSave(g) PROVE (Mode(w) \/ HandedOver)'
  BY <1>27 DEF NoJob, Job, OpenSave, Save, Return, Goto
<1>28. ASSUME NEW g \in Goroutine, ReverseMark(g) PROVE (Mode(w) \/ HandedOver)'
  BY <1>28 DEF ReverseMark, Save, Goto
<1>29. ASSUME NEW g \in Goroutine, ReverseSignal(g) PROVE (Mode(w) \/ HandedOver)'
  BY <1>29 DEF NoJob, ReverseSignal, Goto
<1>30. ASSUME NEW g \in Goroutine, Unwind(g) PROVE (Mode(w) \/ HandedOver)'
  BY <1>30 DEF Unwind, Goto, OnlyMoves
<1>31. ASSUME NEW g \in Goroutine, UnwindRecord(g) PROVE (Mode(w) \/ HandedOver)'
  BY <1>31 DEF UnwindRecord, Save, Goto
<1>32. ASSUME NEW g \in Goroutine, UnwindClose(g) PROVE (Mode(w) \/ HandedOver)'
  BY <1>32 DEF UnwindClose, Save, Goto
<1>33. ASSUME NEW g \in Goroutine, UnwindSweep(g) PROVE (Mode(w) \/ HandedOver)'
  BY <1>33 DEF UnwindSweep, SweepFunds, Save, Goto
<1>34. ASSUME NEW g \in Goroutine, ReversedSave(g) PROVE (Mode(w) \/ HandedOver)'
  BY <1>34 DEF NoJob, ReversedSave, Save, Return, Goto
<1>35. ASSUME NEW g \in Goroutine, SweepCheck(g) PROVE (Mode(w) \/ HandedOver)'
  BY <1>35 DEF NoJob, SweepCheck, Return, Goto
<1>36. ASSUME NEW g \in Goroutine, SweepQuery(g) PROVE (Mode(w) \/ HandedOver)'
  BY <1>36 DEF SweepQuery, Goto, OnlyMoves
<1>37. ASSUME NEW g \in Goroutine, SweepMark(g) PROVE (Mode(w) \/ HandedOver)'
  BY <1>37 DEF SweepMark, Save, Goto
<1>38. ASSUME NEW g \in Goroutine, SweepUnwind(g) PROVE (Mode(w) \/ HandedOver)'
  BY <1>38 DEF SweepUnwind, SaveAs, Save, Goto
<1>39. ASSUME NEW g \in Goroutine, SweepNote(g) PROVE (Mode(w) \/ HandedOver)'
  BY <1>39 DEF SweepNote, Save, Goto
<1>40. ASSUME NEW g \in Goroutine, SweepLoose(g) PROVE (Mode(w) \/ HandedOver)'
  BY <1>40 DEF SweepLoose, SweepFunds, Save, Goto
<1>41. CASE HealthList
  BY <1>41 DEF HealthList
<1>42. CASE HealthSave
  BY <1>42 DEF HealthSave, Save
<1>43. CASE FundingLands
  BY <1>43 DEF FundingLands
<1>44. CASE Crash
  BY <1>44 DEF NoJob, Crash
<1>45. CASE RecoverInflight
  BY <1>45 DEF RecoverInflight, Recover, RecoverSkip, Recovering, AfterBoot, Goto, Idle
<1>46. CASE UNCHANGED vars
  BY <1>46
<1> QED
  BY <1>1, <1>2, <1>3, <1>4, <1>5, <1>6, <1>7, <1>8, <1>9, <1>10, <1>11, <1>12, <1>13, <1>14, <1>15, <1>16, <1>17, <1>18,
     <1>19, <1>20, <1>21, <1>22, <1>23, <1>24, <1>25, <1>26, <1>27, <1>28, <1>29, <1>30, <1>31, <1>32, <1>33, <1>34, <1>35, <1>36,
     <1>37, <1>38, <1>39, <1>40, <1>41, <1>42, <1>43, <1>44, <1>45, <1>46
     DEF Next, Request, GoStep, LifecycleStep, RunStep, ReverseStep

\* A client that waits for Open to return and asks for one reversal gets one unwind with
\* the temp address to itself, whatever fails, crashes or is written late: Reverse leaves
\* the unwind to the owner it cancels or does it when there is none, never both.
THEOREM OneReversalUnwindsAlone ==
    ASSUME SerialClient = TRUE, MaxReversals = 1, Calls \subseteq {"reverse"}
    PROVE  Spec => []UnwindExclusive
<1> DEFINE IInv == TypeOK /\ Registry /\ Documents /\ HandedOver
<1>1. Init => Documents /\ HandedOver
  BY DEF Init, Documents, HandedOver, NotReversing, Owned, OwnerPC, BuildPC, NoJob
<1>2. IInv /\ [Next]_vars => (Documents /\ HandedOver)'
  BY DocumentsStep, HandOverStep
<1>3. IInv => UnwindExclusive
  <2> SUFFICES ASSUME IInv, NEW g \in Goroutine, NEW h \in Goroutine, g # h, Unwinds(g)
               PROVE  ~Unwinds(h) /\ ~Builds(h)
    BY DEF UnwindExclusive
  <2>1. ASSUME NEW k \in Goroutine PROVE ~NotReversing \/ ~Unwinds(k)
    BY <2>1 DEF NotReversing, Unwinds, UnwindPC, OwnerPC, BuildPC
  <2>2. ASSUME NEW w \in Goroutine, Asked(w) PROVE ~Unwinds(g)
    BY <2>2 DEF Asked, Unwinds, UnwindPC, OwnerPC, BuildPC
  <2>3. ASSUME NEW w \in Goroutine, Alone(w) PROVE ~Unwinds(h) /\ ~Builds(h)
    BY <2>3 DEF Alone, Unwinds, Builds, UnwindPC, BuildPC
  <2> QED
    BY <2>1, <2>2, <2>3 DEF HandedOver
<1> QED
  BY <1>1, <1>2, <1>3, TypeCorrect, RegistrySound, PTL DEF Spec

=============================================================================
