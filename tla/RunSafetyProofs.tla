-------------------------- MODULE RunSafetyProofs --------------------------
(***************************************************************************)
(* What a run promises about its terminal tools, its retries, its nudge,   *)
(* the human's input, its tool events, its budget and the reason it gives, *)
(* for every configuration and environment.                                *)
(***************************************************************************)
EXTENDS RunLoopProofs

USE DEF caps, result, nudges, counters, turnVars, batchVars, human, sending

----------------------------------------------------------------------------
(* One report.                                                             *)

\* The inductive strengthening: within a batch, whether a terminal tool has
\* reported is what batch.terminated says.
ReportsInv ==
  /\ pc \in {"batch", "between"} => reports = IF batch.terminated THEN 1 ELSE 0
  /\ pc = "exec" => reports = 0 /\ ~batch.terminated
  /\ pc \notin {"batch", "between", "exec", "stopped"} => reports = 0
  /\ pc # "stopped" => completedBy = ""
  /\ pc = "stopped" => \/ reports = 0 /\ completedBy \notin {"tool", "grace"}
                       \/ reports = 1 /\ completedBy \in {"tool", "grace"}

LEMMA NextReports == TypeOK /\ ReportsInv /\ [Next]_vars => ReportsInv'
<1> SUFFICES ASSUME TypeOK, ReportsInv, [Next]_vars PROVE ReportsInv'
  OBVIOUS
<1>1. CASE RejectConfig
  BY <1>1 DEF RejectConfig, Return, ReportsInv
<1>2. CASE Seed
  BY <1>2 DEF Seed, ReportsInv
<1>3. CASE StopAtCostCap
  BY <1>3 DEF StopAtCostCap, Return, ReportsInv
<1>4. CASE LeaveLoop
  BY <1>4 DEF LeaveLoop, ReportsInv
<1>5. CASE StartWrapUpTurn
  BY <1>5 DEF StartWrapUpTurn, SendTurn, ReportsInv
<1>6. CASE StartBatchNudgeTurn
  BY <1>6 DEF StartBatchNudgeTurn, SendTurn, ReportsInv
<1>7. CASE StartTurn
  BY <1>7 DEF StartTurn, SendTurn, ReportsInv
<1>8. CASE ModelFails
  BY <1>8 DEF ModelFails, FailTurn, Return, ReportsInv
<1>9. CASE ModelReplies
  BY <1>9 DEF ModelReplies, ReportsInv
<1>10. CASE CompactionFails
  BY <1>10 DEF CompactionFails, ReportsInv
<1>11. CASE Compact
  BY <1>11 DEF Compact, ReportsInv
<1>12. CASE StopAtContextLimit
  BY <1>12 DEF StopAtContextLimit, Return, ReportsInv
<1>13. CASE RetryEmpty
  BY <1>13 DEF RetryEmpty, EndTurn, ReportsInv
<1>14. CASE FailEmpty
  BY <1>14 DEF FailEmpty, FailTurn, Return, ReportsInv
<1>15. CASE FinishByReply
  BY <1>15 DEF FinishByReply, Accept, Complete, Return, ReportsInv
<1>16. CASE Pause
  BY <1>16 DEF Pause, Accept, ReportsInv
<1>17. CASE ContinueWithInbox
  BY <1>17 DEF ContinueWithInbox, ReportsInv
<1>18. CASE AwaitHuman
  BY <1>18 DEF AwaitHuman, ReportsInv
<1>19. CASE WaitGetsMessage
  BY <1>19 DEF WaitGetsMessage, ReportsInv
<1>20. CASE WaitFindsClosed
  BY <1>20 DEF WaitFindsClosed, Complete, Return, ReportsInv
<1>21. CASE WaitCanceled
  BY <1>21 DEF WaitCanceled, Return, ReportsInv
<1>22. CASE BeginBatch
  <2>1. batch'.terminated = FALSE
    BY <1>22 DEF BeginBatch, NewBatch
  <2>2. UNCHANGED <<reports, completedBy>> /\ pc = "judge" /\ pc' = "batch"
    BY <1>22 DEF BeginBatch, Accept
  <2> QED BY <2>1, <2>2 DEF ReportsInv
<1>23. CASE SkipCall
  <2>1. batch'.terminated = batch.terminated
    BY <1>23, Numbers DEF SkipCall, Batch
  <2>2. UNCHANGED <<reports, completedBy>> /\ pc \in {"batch", "between"} /\ pc' = "batch"
    BY <1>23 DEF SkipCall, CallsLeft
  <2> QED BY <2>1, <2>2 DEF ReportsInv
<1>24. CASE RefuseCall
  BY <1>24 DEF RefuseCall, MayDispatch, CallsLeft, ReportsInv
<1>25. CASE Dispatch
  <2>1. ~batch.terminated /\ batch'.terminated = batch.terminated
    BY <1>25, Numbers DEF Dispatch, MayDispatch, Batch
  <2>2. UNCHANGED <<reports, completedBy>> /\ pc = "batch" /\ pc' = "exec"
    BY <1>25 DEF Dispatch, MayDispatch, CallsLeft
  <2> QED BY <2>1, <2>2 DEF ReportsInv
<1>26. CASE ToolFails
  BY <1>26 DEF ToolFails, ReportsInv
<1>27. CASE ToolSucceeds
  <2>1. PICK image \in BOOLEAN :
          batch' = [batch EXCEPT !.images = @ \/ image,
                                 !.terminated = (batch.kind = "terminal")]
    BY <1>27 DEF ToolSucceeds
  <2>2. batch'.terminated <=> batch.kind = "terminal"
    BY <2>1, Numbers DEF Batch
  <2>3. /\ pc = "exec" /\ pc' = "between" /\ completedBy' = completedBy
        /\ reports' = IF batch.kind = "terminal" THEN reports + 1 ELSE reports
    BY <1>27 DEF ToolSucceeds
  <2>4. reports = 0 /\ completedBy = ""
    BY <2>3 DEF ReportsInv
  <2>5. CASE batch.kind = "terminal"
    <3>1. reports' = reports + 1
      BY <2>3, <2>5
    <3>a. reports = 0
      BY <2>4
    <3>2. reports' = 1
      BY <3>a, <3>1
    <3> QED BY <2>2, <2>3, <2>4, <2>5, <3>2 DEF ReportsInv
  <2>6. CASE batch.kind # "terminal"
    <3>1. reports' = 0 /\ ~batch'.terminated
      BY <2>2, <2>3, <2>4, <2>6
    <3> QED BY <2>3, <2>4, <3>1 DEF ReportsInv
  <2> QED BY <2>5, <2>6
<1>28. CASE NextCall
  <2>1. batch'.terminated = batch.terminated
    BY <1>28, Numbers DEF NextCall, Batch
  <2>2. UNCHANGED <<reports, completedBy>> /\ pc \in {"batch", "between"} /\ pc' = "batch"
    BY <1>28 DEF NextCall, CallsLeft
  <2> QED BY <2>1, <2>2 DEF ReportsInv
<1>29. CASE FinishByTool
  BY <1>29 DEF FinishByTool, Complete, Return, BatchWalked, ReportsInv
<1>30. CASE ContinueAfterBatch
  BY <1>30 DEF ContinueAfterBatch, EndBatch, EndTurn, BatchWalked, ReportsInv
<1>31. CASE StopIncapable
  BY <1>31 DEF StopIncapable, Return, Incapable, BatchWalked, ReportsInv
<1>32. CASE RecoverWithPending
  BY <1>32 DEF RecoverWithPending, EndBatch, EndTurn, Incapable, BatchWalked, ReportsInv
<1>33. CASE AwaitRecovery
  BY <1>33 DEF AwaitRecovery, Incapable, BatchWalked, ReportsInv
<1>34. CASE StopAtMaxTurns
  BY <1>34 DEF StopAtMaxTurns, Return, ReportsInv
<1>35. CASE AskGrace
  BY <1>35 DEF AskGrace, ReportsInv
<1>36. CASE GraceUnforced
  BY <1>36 DEF GraceUnforced, ReportsInv
<1>37. CASE GraceFails
  BY <1>37 DEF GraceFails, Return, ReportsInv
<1>38. CASE GraceReplies
  <2>1. /\ UNCHANGED <<reports, completedBy>> /\ pc' = "graceCalls"
        /\ pc \in {"graceForced", "gracePlain"}
    BY <1>38 DEF GraceReplies
  <2> QED BY <2>1 DEF ReportsInv
<1>39. CASE GraceIgnores
  <2>1. UNCHANGED <<pc, reports, completedBy>> /\ pc = "graceCalls"
    BY <1>39 DEF GraceIgnores, GraceCallsLeft
  <2> QED BY <2>1 DEF ReportsInv
<1>40. CASE GraceToolFails
  <2>1. UNCHANGED <<pc, reports, completedBy>> /\ pc = "graceCalls"
    BY <1>40 DEF GraceToolFails, GraceCallsLeft
  <2> QED BY <2>1 DEF ReportsInv
<1>41. CASE GraceToolSucceeds
  <2>1. /\ pc = "graceCalls" /\ pc' = "stopped"
        /\ reports' = reports + 1 /\ completedBy' = "grace"
    BY <1>41 DEF GraceToolSucceeds, GraceCallsLeft, Complete, Return
  <2>2. reports = 0
    BY <2>1 DEF ReportsInv
  <2>3. reports' = 1
    BY <2>1, <2>2
  <2> QED BY <2>1, <2>3 DEF ReportsInv
<1>42. CASE GraceDeclined
  BY <1>42 DEF GraceDeclined, Return, ReportsInv
<1>43. CASE Push
  BY <1>43 DEF Push, ReportsInv
<1>44. CASE CloseInbox
  BY <1>44 DEF CloseInbox, ReportsInv
<1>45. CASE CancelContext
  BY <1>45 DEF CancelContext, ReportsInv
<1>46. CASE UNCHANGED vars
  BY <1>46 DEF vars, ReportsInv
<1> QED BY <1>1, <1>2, <1>3, <1>4, <1>5, <1>6, <1>7, <1>8, <1>9, <1>10,
           <1>11, <1>12, <1>13, <1>14, <1>15, <1>16, <1>17, <1>18, <1>19,
           <1>20, <1>21, <1>22, <1>23, <1>24, <1>25, <1>26, <1>27, <1>28,
           <1>29, <1>30, <1>31, <1>32, <1>33, <1>34, <1>35, <1>36, <1>37,
           <1>38, <1>39, <1>40, <1>41, <1>42, <1>43, <1>44, <1>45, <1>46 DEF
           Next, RunStep, Environment, Returned

\* A terminal tool reports at most once, and a run it reported to ends as
\* completed by it.
THEOREM ReportsAtMostOnce == Spec => []ReportsOnce
<1>1. Init => ReportsInv
  BY DEF Init, ReportsInv
<1>2. TypeOK /\ ReportsInv /\ [Next]_vars => ReportsInv'
  BY NextReports
<1>3. TypeOK /\ ReportsInv => ReportsOnce
  <2> SUFFICES ASSUME TypeOK, ReportsInv PROVE ReportsOnce
    OBVIOUS
  <2>1. reports \in {0, 1} /\ (pc \notin {"batch", "between", "stopped"} => reports = 0)
    BY DEF TypeOK, Points, ReportsInv
  <2>2. reports <= 1 /\ (reports = 1 => pc \in {"batch", "between", "stopped"})
    BY <2>1
  <2>3. pc = "stopped" => (reports = 1 <=> completedBy \in {"tool", "grace"})
    BY DEF ReportsInv
  <2> QED BY <2>2, <2>3 DEF ReportsOnce
<1> QED BY <1>1, <1>2, <1>3, TypeCorrect, PTL DEF Spec

----------------------------------------------------------------------------
(* The empty-response retry.                                               *)

\* The inductive strengthening: an unchanged conversation is on its way to
\* the model only by a retry the empty-response counter paid for.
RepeatsInv ==
  /\ repeats <= MaxEmptyRetries
  /\ pc \in {"start", "pause", "batch", "exec", "between"} => touched
  /\ pc = "top" /\ ~touched => repeats + 1 <= emptyRun
  /\ pc \in {"send", "compact", "judge"} /\ ~touched => repeats <= emptyRun

LEMMA NextRepeats == TypeOK /\ RepeatsInv /\ [Next]_vars => RepeatsInv'
<1> SUFFICES ASSUME TypeOK, RepeatsInv, [Next]_vars PROVE RepeatsInv'
  OBVIOUS
<1>1. CASE RejectConfig
  BY <1>1 DEF RejectConfig, Return, RepeatsInv, MaxEmptyRetries
<1>2. CASE Seed
  BY <1>2 DEF Seed, RepeatsInv, MaxEmptyRetries
<1>3. CASE StopAtCostCap
  BY <1>3 DEF StopAtCostCap, Return, RepeatsInv, MaxEmptyRetries
<1>4. CASE LeaveLoop
  BY <1>4 DEF LeaveLoop, RepeatsInv, MaxEmptyRetries
<1>5. CASE StartWrapUpTurn
  <2>1. /\ pc = "top" /\ pc' = "send" /\ touched' = FALSE /\ emptyRun' = emptyRun
        /\ repeats' = 0 \/ (~touched /\ repeats' = repeats + 1)
    BY <1>5 DEF StartWrapUpTurn, SendTurn
  <2> QED BY <2>1, Numbers DEF RepeatsInv, MaxEmptyRetries
<1>6. CASE StartBatchNudgeTurn
  <2>1. /\ pc = "top" /\ pc' = "send" /\ touched' = FALSE /\ emptyRun' = emptyRun
        /\ repeats' = 0 \/ (~touched /\ repeats' = repeats + 1)
    BY <1>6 DEF StartBatchNudgeTurn, SendTurn
  <2> QED BY <2>1, Numbers DEF RepeatsInv, MaxEmptyRetries
<1>7. CASE StartTurn
  <2>1. /\ pc = "top" /\ pc' = "send" /\ touched' = FALSE /\ emptyRun' = emptyRun
        /\ repeats' = 0 \/ (~touched /\ repeats' = repeats + 1)
    BY <1>7 DEF StartTurn, SendTurn
  <2> QED BY <2>1, Numbers DEF RepeatsInv, MaxEmptyRetries
<1>8. CASE ModelFails
  BY <1>8 DEF ModelFails, FailTurn, Return, RepeatsInv, MaxEmptyRetries
<1>9. CASE ModelReplies
  BY <1>9 DEF ModelReplies, RepeatsInv, MaxEmptyRetries
<1>10. CASE CompactionFails
  BY <1>10 DEF CompactionFails, RepeatsInv, MaxEmptyRetries
<1>11. CASE Compact
  BY <1>11 DEF Compact, RepeatsInv, MaxEmptyRetries
<1>12. CASE StopAtContextLimit
  BY <1>12 DEF StopAtContextLimit, Return, RepeatsInv, MaxEmptyRetries
<1>13. CASE RetryEmpty
  <2>1. /\ pc = "judge" /\ pc' = "top" /\ emptyRun' = emptyRun + 1
        /\ emptyRun < MaxEmptyRetries /\ UNCHANGED <<repeats, touched>>
    BY <1>13 DEF RetryEmpty, EndTurn, MayRetryEmpty
  <2> QED BY <2>1, Numbers DEF RepeatsInv, MaxEmptyRetries
<1>14. CASE FailEmpty
  BY <1>14 DEF FailEmpty, FailTurn, Return, RepeatsInv, MaxEmptyRetries
<1>15. CASE FinishByReply
  BY <1>15 DEF FinishByReply, Accept, Complete, Return, RepeatsInv, MaxEmptyRetries
<1>16. CASE Pause
  BY <1>16 DEF Pause, Accept, RepeatsInv, MaxEmptyRetries
<1>17. CASE ContinueWithInbox
  BY <1>17 DEF ContinueWithInbox, RepeatsInv, MaxEmptyRetries
<1>18. CASE AwaitHuman
  BY <1>18 DEF AwaitHuman, RepeatsInv, MaxEmptyRetries
<1>19. CASE WaitGetsMessage
  BY <1>19 DEF WaitGetsMessage, RepeatsInv, MaxEmptyRetries
<1>20. CASE WaitFindsClosed
  BY <1>20 DEF WaitFindsClosed, Complete, Return, RepeatsInv, MaxEmptyRetries
<1>21. CASE WaitCanceled
  BY <1>21 DEF WaitCanceled, Return, RepeatsInv, MaxEmptyRetries
<1>22. CASE BeginBatch
  BY <1>22 DEF BeginBatch, Accept, NewBatch, RepeatsInv, MaxEmptyRetries
<1>23. CASE SkipCall
  BY <1>23 DEF SkipCall, CallsLeft, RepeatsInv, MaxEmptyRetries
<1>24. CASE RefuseCall
  BY <1>24 DEF RefuseCall, MayDispatch, CallsLeft, RepeatsInv, MaxEmptyRetries
<1>25. CASE Dispatch
  BY <1>25 DEF Dispatch, MayDispatch, CallsLeft, RepeatsInv, MaxEmptyRetries
<1>26. CASE ToolFails
  BY <1>26 DEF ToolFails, RepeatsInv, MaxEmptyRetries
<1>27. CASE ToolSucceeds
  BY <1>27 DEF ToolSucceeds, RepeatsInv, MaxEmptyRetries
<1>28. CASE NextCall
  BY <1>28 DEF NextCall, RepeatsInv, MaxEmptyRetries
<1>29. CASE FinishByTool
  BY <1>29 DEF FinishByTool, Complete, Return, BatchWalked, RepeatsInv, MaxEmptyRetries
<1>30. CASE ContinueAfterBatch
  BY <1>30
     DEF ContinueAfterBatch, EndBatch, EndTurn, BatchWalked, RepeatsInv, MaxEmptyRetries
<1>31. CASE StopIncapable
  BY <1>31 DEF StopIncapable, Return, Incapable, BatchWalked, RepeatsInv, MaxEmptyRetries
<1>32. CASE RecoverWithPending
  BY <1>32
     DEF RecoverWithPending, EndBatch, EndTurn, Incapable, BatchWalked, RepeatsInv, MaxEmptyRetries
<1>33. CASE AwaitRecovery
  BY <1>33 DEF AwaitRecovery, Incapable, BatchWalked, RepeatsInv, MaxEmptyRetries
<1>34. CASE StopAtMaxTurns
  BY <1>34 DEF StopAtMaxTurns, Return, RepeatsInv, MaxEmptyRetries
<1>35. CASE AskGrace
  BY <1>35 DEF AskGrace, RepeatsInv, MaxEmptyRetries
<1>36. CASE GraceUnforced
  BY <1>36 DEF GraceUnforced, RepeatsInv, MaxEmptyRetries
<1>37. CASE GraceFails
  BY <1>37 DEF GraceFails, Return, RepeatsInv, MaxEmptyRetries
<1>38. CASE GraceReplies
  BY <1>38 DEF GraceReplies, RepeatsInv, MaxEmptyRetries
<1>39. CASE GraceIgnores
  BY <1>39 DEF GraceIgnores, GraceCallsLeft, RepeatsInv, MaxEmptyRetries
<1>40. CASE GraceToolFails
  BY <1>40 DEF GraceToolFails, GraceCallsLeft, RepeatsInv, MaxEmptyRetries
<1>41. CASE GraceToolSucceeds
  BY <1>41
     DEF GraceToolSucceeds, GraceCallsLeft, Complete, Return, RepeatsInv, MaxEmptyRetries
<1>42. CASE GraceDeclined
  BY <1>42 DEF GraceDeclined, Return, RepeatsInv, MaxEmptyRetries
<1>43. CASE Push
  BY <1>43 DEF Push, RepeatsInv, MaxEmptyRetries
<1>44. CASE CloseInbox
  BY <1>44 DEF CloseInbox, RepeatsInv, MaxEmptyRetries
<1>45. CASE CancelContext
  BY <1>45 DEF CancelContext, RepeatsInv, MaxEmptyRetries
<1>46. CASE UNCHANGED vars
  BY <1>46 DEF vars, RepeatsInv
<1> QED BY <1>1, <1>2, <1>3, <1>4, <1>5, <1>6, <1>7, <1>8, <1>9, <1>10,
           <1>11, <1>12, <1>13, <1>14, <1>15, <1>16, <1>17, <1>18, <1>19,
           <1>20, <1>21, <1>22, <1>23, <1>24, <1>25, <1>26, <1>27, <1>28,
           <1>29, <1>30, <1>31, <1>32, <1>33, <1>34, <1>35, <1>36, <1>37,
           <1>38, <1>39, <1>40, <1>41, <1>42, <1>43, <1>44, <1>45, <1>46 DEF
           Next, RunStep, Environment, Returned

\* The same conversation is sent at most three times, through every
\* compaction, failed turn and human pause.
THEOREM RepeatsAlwaysBounded == Spec => []RepeatsBounded
<1>1. Init => RepeatsInv
  <2> SUFFICES ASSUME Init PROVE RepeatsInv
    OBVIOUS
  <2>1. pc = "start" /\ touched /\ repeats = 0
    BY DEF Init
  <2>2. repeats <= MaxEmptyRetries
    BY <2>1 DEF MaxEmptyRetries
  <2> QED BY <2>1, <2>2 DEF RepeatsInv
<1>2. TypeOK /\ RepeatsInv /\ [Next]_vars => RepeatsInv'
  BY NextRepeats
<1>3. RepeatsInv => RepeatsBounded
  BY DEF RepeatsInv, RepeatsBounded
<1> QED BY <1>1, <1>2, <1>3, TypeCorrect, PTL DEF Spec

----------------------------------------------------------------------------
(* The wrap-up nudge.                                                      *)

\* Only the start of a turn counts it or nudges.
LEMMA TurnsCountedAtStart ==
  [Next]_vars => \/ StartWrapUpTurn \/ StartBatchNudgeTurn \/ StartTurn
                 \/ UNCHANGED <<cfg, turns, nudged>>
  BY DEF vars, Next, RunStep, Environment, Returned, RejectConfig, Seed,
     StopAtCostCap, LeaveLoop, ModelFails, ModelReplies, CompactionFails,
     Compact, StopAtContextLimit, RetryEmpty, FailEmpty, FinishByReply, Pause,
     ContinueWithInbox, AwaitHuman, WaitGetsMessage, WaitFindsClosed,
     WaitCanceled, BeginBatch, SkipCall, RefuseCall, Dispatch, ToolFails,
     ToolSucceeds, NextCall, FinishByTool, ContinueAfterBatch, StopIncapable,
     RecoverWithPending, AwaitRecovery, StopAtMaxTurns, AskGrace,
     GraceUnforced, GraceFails, GraceReplies, GraceIgnores, GraceToolFails,
     GraceToolSucceeds, GraceDeclined, Push, CloseInbox, CancelContext

LEMMA MaxTurnsType == TypeOK => MaxTurns \in Int /\ cfg.wrapUp \in Nat /\ turns \in Nat
<1> SUFFICES ASSUME TypeOK PROVE MaxTurns \in Int /\ cfg.wrapUp \in Nat /\ turns \in Nat
  OBVIOUS
<1>1. cfg \in Config /\ turns \in Nat
  BY Types DEF TypeOK
<1>2. cfg.maxTurns \in Int /\ cfg.wrapUp \in Nat /\ DefaultMaxTurns \in Int
  BY <1>1, BoundAssumption DEF Config
<1> QED BY <1>1, <1>2 DEF MaxTurns

\* The wrap-up nudge is given on its turn, whatever the caps and failures.
THEOREM WrapUpAlwaysOnTime == Spec => []WrapUpOnTime
<1>1. Init => WrapUpOnTime
  <2> SUFFICES ASSUME Init PROVE WrapUpOnTime
    OBVIOUS
  <2>1. MaxTurns \in Int /\ cfg.wrapUp \in Nat
    BY InitTypeOK, MaxTurnsType
  <2>2. nudged = FALSE /\ turns = 0
    BY DEF Init
  <2> QED BY <2>1, <2>2 DEF WrapUpOnTime
<1>2. TypeOK /\ WrapUpOnTime /\ [Next]_vars => WrapUpOnTime'
  <2> SUFFICES ASSUME TypeOK, WrapUpOnTime, [Next]_vars PROVE WrapUpOnTime'
    OBVIOUS
  <2>1. MaxTurns \in Int /\ cfg.wrapUp \in Nat /\ turns \in Nat
    BY MaxTurnsType
  <2>2. CASE StartWrapUpTurn
    <3>1. /\ nudged' = TRUE /\ turns' = turns + 1 /\ cfg' = cfg
          /\ MaxTurns - turns = cfg.wrapUp
      BY <2>2 DEF StartWrapUpTurn, SendTurn, WrapUpDue
    <3>2. cfg.wrapUp <= MaxTurns /\ turns' > MaxTurns - cfg.wrapUp
      BY <2>1, <3>1
    <3>3. MaxTurns' = MaxTurns
      BY <3>1 DEF MaxTurns
    <3> QED BY <3>1, <3>2, <3>3 DEF WrapUpOnTime
  <2>3. CASE StartBatchNudgeTurn \/ StartTurn
    <3>1. nudged' = nudged /\ turns' = turns + 1 /\ cfg' = cfg /\ ~WrapUpDue
      BY <2>3 DEF StartBatchNudgeTurn, StartTurn, SendTurn
    <3>2. MaxTurns' = MaxTurns
      BY <3>1 DEF MaxTurns
    <3> SUFFICES ASSUME ~cfg.interactive, cfg.wrapUp > 0
                 PROVE  nudged <=> cfg.wrapUp <= MaxTurns /\ turns + 1 > MaxTurns - cfg.wrapUp
      BY <3>1, <3>2 DEF WrapUpOnTime
    <3>3. nudged <=> cfg.wrapUp <= MaxTurns /\ turns > MaxTurns - cfg.wrapUp
      BY DEF WrapUpOnTime
    <3>4. nudged \/ MaxTurns - turns # cfg.wrapUp
      BY <3>1 DEF WrapUpDue
    <3> DEFINE m == MaxTurns
               w == cfg.wrapUp
    <3>5. m \in Int /\ w \in Nat
      BY <2>1
    <3> HIDE DEF m, w
    <3>6. /\ nudged <=> w <= m /\ turns > m - w
          /\ nudged \/ m - turns # w
      BY <3>3, <3>4 DEF m, w
    <3>7. nudged <=> w <= m /\ turns + 1 > m - w
      BY ONLY <2>1, <3>5, <3>6, turns \in Nat
    <3> QED BY <3>7 DEF m, w
  <2>4. CASE UNCHANGED <<cfg, turns, nudged>>
    BY <2>4 DEF WrapUpOnTime, MaxTurns
  <2> QED BY <2>2, <2>3, <2>4, TurnsCountedAtStart
<1> QED BY <1>1, <1>2, TypeCorrect, PTL DEF Spec

----------------------------------------------------------------------------
(* The human's input.                                                      *)

Counting(n) == [k \in 1..n |-> k]

InOrder(d, p, q) == d \o p \o q = Counting(sent)

\* The inductive strengthening: only an interrupted batch, which no terminal
\* tool ended, holds a stash.
InputInv ==
  /\ InOrder(delivered, pending, inbox)
  /\ pc \in {"exec", "between"} => pending = <<>> /\ ~batch.interrupted
  /\ pc = "batch" /\ pending # <<>> => batch.interrupted /\ ~batch.terminated
  /\ pc = "stopped" /\ stop # "incapable" => pending = <<>>
  /\ pc \notin {"batch", "exec", "between", "stopped"} => pending = <<>>

LEMMA Delivered ==
  ASSUME NEW d \in Seq(Nat), NEW q \in Seq(Nat)
  PROVE  (d \o q) \o <<>> \o <<>> = d \o <<>> \o q
  OBVIOUS

LEMMA OneDelivered ==
  ASSUME NEW d \in Seq(Nat), NEW q \in Seq(Nat), q # <<>>
  PROVE  (d \o <<Head(q)>>) \o <<>> \o Tail(q) = d \o <<>> \o q
  OBVIOUS

LEMMA Stashed ==
  ASSUME NEW d \in Seq(Nat), NEW q \in Seq(Nat)
  PROVE  d \o q \o <<>> = d \o <<>> \o q
  OBVIOUS

LEMMA Unstashed ==
  ASSUME NEW d \in Seq(Nat), NEW p \in Seq(Nat), NEW q \in Seq(Nat)
  PROVE  (d \o p) \o <<>> \o q = d \o p \o q
  OBVIOUS

LEMMA AppendAfter ==
  ASSUME NEW d \in Seq(Nat), NEW q \in Seq(Nat), NEW x \in Nat
  PROVE  /\ d \o q \in Seq(Nat) /\ d \o Append(q, x) \in Seq(Nat)
         /\ d \o Append(q, x) = Append(d \o q, x)
  OBVIOUS

LEMMA NextCounted ==
  ASSUME NEW s \in Seq(Nat), NEW n \in Nat, Len(s) = n, \A k \in 1..n : s[k] = k
  PROVE  /\ Len(Append(s, n + 1)) = n + 1
         /\ \A k \in 1..(n + 1) : Append(s, n + 1)[k] = k
<1>1. /\ Len(Append(s, n + 1)) = n + 1 /\ Append(s, n + 1)[n + 1] = n + 1
      /\ \A k \in 1..n : Append(s, n + 1)[k] = s[k]
  OBVIOUS
<1>2. \A k \in 1..(n + 1) : k \in 1..n \/ k = n + 1
  OBVIOUS
<1> QED BY <1>1, <1>2

LEMMA OneSent ==
  ASSUME NEW d \in Seq(Nat), NEW p \in Seq(Nat), NEW q \in Seq(Nat), NEW n \in Nat,
         d \o p \o q = Counting(n)
  PROVE  d \o p \o Append(q, n + 1) = Counting(n + 1)
<1> DEFINE s == d \o p \o q
           t == d \o p \o Append(q, n + 1)
<1>1. /\ t \in Seq(Nat) /\ s \in Seq(Nat) /\ t = Append(s, n + 1)
  <2>1. n + 1 \in Nat /\ d \o p \in Seq(Nat)
    OBVIOUS
  <2> QED BY <2>1, AppendAfter
<1>2. Len(s) = n /\ \A k \in 1..n : s[k] = k
  BY DEF Counting
<1> HIDE DEF s, t
<1>3. Len(t) = n + 1 /\ \A k \in 1..(n + 1) : t[k] = k
  BY <1>1, <1>2, NextCounted
<1>4. t = Counting(n + 1)
  BY <1>1, <1>3 DEF Counting
<1> QED BY <1>4 DEF t

LEMMA DrainInbox ==
  ASSUME TypeOK, InputInv, pc \in {"top", "pause"}, pc' \in {"top", "send"},
         inbox' = <<>>, delivered' = delivered \o inbox,
         UNCHANGED <<pending, sent, stop, batch>>
  PROVE  InputInv'
<1>1. pending = <<>> /\ InOrder(delivered, pending, inbox)
  BY DEF InputInv
<1>2. InOrder(delivered', pending', inbox')
  BY <1>1, Delivered DEF TypeOK, InOrder
<1> QED BY <1>1, <1>2 DEF InputInv, InOrder

LEMMA EndBatchInput ==
  ASSUME TypeOK, InputInv, pc = "batch", pc' = "top", EndBatch,
         UNCHANGED <<inbox, sent, stop>>
  PROVE  InputInv'
<1>1. pending' = <<>> /\ delivered' = delivered \o pending
  BY DEF EndBatch, Deliver
<1>2. InOrder(delivered, pending, inbox)
  BY DEF InputInv
<1>3. InOrder(delivered', pending', inbox)
  BY <1>1, <1>2, Unstashed DEF TypeOK, InOrder
<1> QED BY <1>1, <1>3 DEF InputInv, InOrder

LEMMA NextInput == TypeOK /\ InputInv /\ [Next]_vars => InputInv'
<1> SUFFICES ASSUME TypeOK, InputInv, [Next]_vars PROVE InputInv'
  OBVIOUS
<1>1. CASE RejectConfig
  BY <1>1 DEF RejectConfig, Return, InputInv, InOrder
<1>2. CASE Seed
  BY <1>2 DEF Seed, InputInv, InOrder
<1>3. CASE StopAtCostCap
  BY <1>3 DEF StopAtCostCap, Return, InputInv, InOrder
<1>4. CASE LeaveLoop
  BY <1>4 DEF LeaveLoop, InputInv, InOrder
<1>5. CASE StartWrapUpTurn
  <2>1. /\ pc = "top" /\ pc' = "send" /\ inbox' = <<>> /\ delivered' = delivered \o inbox
        /\ UNCHANGED <<pending, sent, stop, batch>>
    BY <1>5 DEF StartWrapUpTurn, SendTurn, Deliver
  <2> QED BY <2>1, DrainInbox
<1>6. CASE StartBatchNudgeTurn
  <2>1. /\ pc = "top" /\ pc' = "send" /\ inbox' = <<>> /\ delivered' = delivered \o inbox
        /\ UNCHANGED <<pending, sent, stop, batch>>
    BY <1>6 DEF StartBatchNudgeTurn, SendTurn, Deliver
  <2> QED BY <2>1, DrainInbox
<1>7. CASE StartTurn
  <2>1. /\ pc = "top" /\ pc' = "send" /\ inbox' = <<>> /\ delivered' = delivered \o inbox
        /\ UNCHANGED <<pending, sent, stop, batch>>
    BY <1>7 DEF StartTurn, SendTurn, Deliver
  <2> QED BY <2>1, DrainInbox
<1>8. CASE ModelFails
  BY <1>8 DEF ModelFails, FailTurn, Return, InputInv, InOrder
<1>9. CASE ModelReplies
  BY <1>9 DEF ModelReplies, InputInv, InOrder
<1>10. CASE CompactionFails
  BY <1>10 DEF CompactionFails, InputInv, InOrder
<1>11. CASE Compact
  BY <1>11 DEF Compact, InputInv, InOrder
<1>12. CASE StopAtContextLimit
  BY <1>12 DEF StopAtContextLimit, Return, InputInv, InOrder
<1>13. CASE RetryEmpty
  BY <1>13 DEF RetryEmpty, EndTurn, InputInv, InOrder
<1>14. CASE FailEmpty
  BY <1>14 DEF FailEmpty, FailTurn, Return, InputInv, InOrder
<1>15. CASE FinishByReply
  BY <1>15 DEF FinishByReply, Accept, Complete, Return, InputInv, InOrder
<1>16. CASE Pause
  BY <1>16 DEF Pause, Accept, InputInv, InOrder
<1>17. CASE ContinueWithInbox
  <2>1. /\ pc = "pause" /\ pc' = "top" /\ inbox' = <<>> /\ delivered' = delivered \o inbox
        /\ UNCHANGED <<pending, sent, stop, batch>>
    BY <1>17 DEF ContinueWithInbox, Deliver
  <2> QED BY <2>1, DrainInbox
<1>18. CASE AwaitHuman
  BY <1>18 DEF AwaitHuman, InputInv, InOrder
<1>19. CASE WaitGetsMessage
  <2>1. /\ pc = "await" /\ pc' = "top" /\ inbox # <<>>
        /\ inbox' = Tail(inbox) /\ delivered' = delivered \o <<Head(inbox)>>
        /\ UNCHANGED <<pending, sent, stop, batch>>
    BY <1>19 DEF WaitGetsMessage, Deliver
  <2>2. pending = <<>> /\ InOrder(delivered, pending, inbox)
    BY <2>1 DEF InputInv
  <2>3. InOrder(delivered', pending, inbox')
    BY <2>1, <2>2, OneDelivered DEF TypeOK, InOrder
  <2> QED BY <2>1, <2>2, <2>3 DEF InputInv, InOrder
<1>20. CASE WaitFindsClosed
  BY <1>20 DEF WaitFindsClosed, Complete, Return, InputInv, InOrder
<1>21. CASE WaitCanceled
  BY <1>21 DEF WaitCanceled, Return, InputInv, InOrder
<1>22. CASE BeginBatch
  <2>1. ~batch'.interrupted
    BY <1>22 DEF BeginBatch, NewBatch
  <2>2. /\ pc = "judge" /\ pc' = "batch"
        /\ UNCHANGED <<delivered, pending, inbox, sent, stop>>
    BY <1>22 DEF BeginBatch, Accept
  <2> QED BY <2>1, <2>2 DEF InputInv, InOrder
<1>23. CASE SkipCall
  <2>1. batch'.interrupted = batch.interrupted /\ batch'.terminated = batch.terminated
    BY <1>23, Numbers DEF SkipCall, Batch
  <2>2. /\ pc = "batch" /\ pc' = "batch"
        /\ UNCHANGED <<delivered, pending, inbox, sent, stop>>
    BY <1>23 DEF SkipCall, CallsLeft
  <2> QED BY <2>1, <2>2 DEF InputInv, InOrder
<1>24. CASE RefuseCall
  <2>1. /\ ~batch.interrupted /\ pc = "batch" /\ pc' = "between"
        /\ UNCHANGED <<delivered, pending, inbox, sent, stop, batch>>
    BY <1>24 DEF RefuseCall, MayDispatch, CallsLeft
  <2> QED BY <2>1 DEF InputInv, InOrder
<1>25. CASE Dispatch
  <2>1. ~batch.interrupted /\ batch'.interrupted = batch.interrupted
    BY <1>25, Numbers DEF Dispatch, MayDispatch, Batch
  <2>2. /\ pc = "batch" /\ pc' = "exec"
        /\ UNCHANGED <<delivered, pending, inbox, sent, stop>>
    BY <1>25 DEF Dispatch, MayDispatch, CallsLeft
  <2> QED BY <2>1, <2>2 DEF InputInv, InOrder
<1>26. CASE ToolFails
  <2>1. /\ pc = "exec" /\ pc' = "between"
        /\ UNCHANGED <<delivered, pending, inbox, sent, stop, batch>>
    BY <1>26 DEF ToolFails
  <2> QED BY <2>1 DEF InputInv, InOrder
<1>27. CASE ToolSucceeds
  <2>1. batch'.interrupted = batch.interrupted
    BY <1>27, Numbers DEF ToolSucceeds, Batch
  <2>2. /\ pc = "exec" /\ pc' = "between"
        /\ UNCHANGED <<delivered, pending, inbox, sent, stop>>
    BY <1>27 DEF ToolSucceeds
  <2> QED BY <2>1, <2>2 DEF InputInv, InOrder
<1>28. CASE NextCall
  <2> DEFINE interrupt == /\ cfg.inbox /\ ~batch.terminated
                          /\ batch.i < reply.calls - 1 /\ inbox # <<>>
  <2>1. /\ pc = "between" /\ pc' = "batch"
        /\ batch' = [batch EXCEPT !.i = @ + 1, !.interrupted = @ \/ interrupt]
        /\ pending' = IF interrupt THEN inbox ELSE pending
        /\ inbox' = IF interrupt THEN <<>> ELSE inbox
        /\ UNCHANGED <<delivered, sent, stop>>
    BY <1>28 DEF NextCall
  <2>2. /\ interrupt => batch'.interrupted /\ ~batch'.terminated
        /\ ~interrupt => batch'.interrupted = batch.interrupted
    BY <2>1, Numbers DEF Batch
  <2>3. pending = <<>> /\ ~batch.interrupted /\ InOrder(delivered, pending, inbox)
    BY <2>1 DEF InputInv
  <2> HIDE DEF interrupt
  <2>4. InOrder(delivered, pending', inbox')
    <3>1. CASE interrupt
      BY <2>1, <2>3, <3>1, Stashed DEF TypeOK, InOrder
    <3>2. CASE ~interrupt
      BY <2>1, <2>3, <3>2
    <3> QED BY <3>1, <3>2
  <2>5. pending' # <<>> => batch'.interrupted /\ ~batch'.terminated
    BY <2>1, <2>2, <2>3
  <2> QED BY <2>1, <2>4, <2>5 DEF InputInv, InOrder
<1>29. CASE FinishByTool
  <2>1. /\ pc = "batch" /\ pc' = "stopped" /\ batch.terminated
        /\ UNCHANGED <<delivered, pending, inbox, sent, batch>>
    BY <1>29 DEF FinishByTool, Complete, Return, BatchWalked
  <2> QED BY <2>1 DEF InputInv, InOrder
<1>30. CASE ContinueAfterBatch
  <2>1. /\ pc = "batch" /\ pc' = "top" /\ EndBatch
        /\ UNCHANGED <<inbox, sent, stop>>
    BY <1>30 DEF ContinueAfterBatch, EndBatch, EndTurn, BatchWalked
  <2> QED BY <2>1, EndBatchInput
<1>31. CASE StopIncapable
  BY <1>31 DEF StopIncapable, Return, Incapable, BatchWalked, InputInv, InOrder
<1>32. CASE RecoverWithPending
  <2>1. /\ pc = "batch" /\ pc' = "top" /\ EndBatch
        /\ UNCHANGED <<inbox, sent, stop>>
    BY <1>32 DEF RecoverWithPending, EndBatch, EndTurn, Incapable, BatchWalked
  <2> QED BY <2>1, EndBatchInput
<1>33. CASE AwaitRecovery
  <2>1. /\ pc = "batch" /\ pc' = "await" /\ pending = <<>>
        /\ UNCHANGED <<delivered, pending, inbox, sent, stop>>
    BY <1>33 DEF AwaitRecovery, Incapable, BatchWalked
  <2> QED BY <2>1 DEF InputInv, InOrder
<1>34. CASE StopAtMaxTurns
  BY <1>34 DEF StopAtMaxTurns, Return, InputInv, InOrder
<1>35. CASE AskGrace
  BY <1>35 DEF AskGrace, InputInv, InOrder
<1>36. CASE GraceUnforced
  BY <1>36 DEF GraceUnforced, InputInv, InOrder
<1>37. CASE GraceFails
  BY <1>37 DEF GraceFails, Return, InputInv, InOrder
<1>38. CASE GraceReplies
  BY <1>38 DEF GraceReplies, InputInv, InOrder
<1>39. CASE GraceIgnores
  BY <1>39 DEF GraceIgnores, GraceCallsLeft, InputInv, InOrder
<1>40. CASE GraceToolFails
  BY <1>40 DEF GraceToolFails, GraceCallsLeft, InputInv, InOrder
<1>41. CASE GraceToolSucceeds
  BY <1>41 DEF GraceToolSucceeds, GraceCallsLeft, Complete, Return, InputInv, InOrder
<1>42. CASE GraceDeclined
  BY <1>42 DEF GraceDeclined, Return, InputInv, InOrder
<1>43. CASE Push
  <2>1. /\ sent' = sent + 1 /\ inbox' = Append(inbox, sent + 1)
        /\ UNCHANGED <<pc, delivered, pending, stop, batch>>
    BY <1>43 DEF Push
  <2>2. delivered' \o pending' \o inbox' = Counting(sent')
    <3>1. delivered \o pending \o inbox = Counting(sent)
      BY DEF InputInv, InOrder
    <3>2. sent \in Nat /\ delivered \in Seq(Nat) /\ pending \in Seq(Nat) /\ inbox \in Seq(Nat)
      BY DEF TypeOK
    <3>3. delivered \o pending \o Append(inbox, sent + 1) = Counting(sent + 1)
      BY ONLY <3>1, <3>2, OneSent
    <3> QED BY <2>1, <3>3
  <2> QED BY <2>1, <2>2 DEF InputInv, InOrder
<1>44. CASE CloseInbox
  BY <1>44 DEF CloseInbox, InputInv, InOrder
<1>45. CASE CancelContext
  BY <1>45 DEF CancelContext, InputInv, InOrder
<1>46. CASE UNCHANGED vars
  BY <1>46 DEF vars, InputInv, InOrder
<1> QED BY <1>1, <1>2, <1>3, <1>4, <1>5, <1>6, <1>7, <1>8, <1>9, <1>10,
           <1>11, <1>12, <1>13, <1>14, <1>15, <1>16, <1>17, <1>18, <1>19,
           <1>20, <1>21, <1>22, <1>23, <1>24, <1>25, <1>26, <1>27, <1>28,
           <1>29, <1>30, <1>31, <1>32, <1>33, <1>34, <1>35, <1>36, <1>37,
           <1>38, <1>39, <1>40, <1>41, <1>42, <1>43, <1>44, <1>45, <1>46 DEF
           Next, RunStep, Environment, Returned

\* Nothing the human sends is lost, duplicated or reordered, and a stash is
\* dropped only by a run that stops incapable.
THEOREM InputKept == Spec => []InputDelivered
<1>1. Init => InputInv
  <2> SUFFICES ASSUME Init PROVE InputInv
    OBVIOUS
  <2>1. <<>> \o <<>> \o <<>> = Counting(0)
    BY DEF Counting
  <2> QED BY <2>1 DEF Init, InputInv, InOrder
<1>2. TypeOK /\ InputInv /\ [Next]_vars => InputInv'
  BY NextInput
<1>3. TypeOK /\ InputInv => InputDelivered
  BY DEF TypeOK, Points, InputInv, InOrder, Counting, InputDelivered
<1> QED BY <1>1, <1>2, <1>3, TypeCorrect, PTL DEF Spec

----------------------------------------------------------------------------
(* Every tool call of a batch is answered by one event.                    *)

\* The inductive strengthening: where the batch stands tells how many of its
\* calls have their result event.
PairInv ==
  /\ called = IF pc = "exec" THEN answered + 1 ELSE answered
  /\ pc \in {"batch", "exec"} => answered = batch.i
  /\ pc = "between" => answered = batch.i + 1
  /\ stop = "incapable" \/ completedBy = "tool" => pc = "stopped" /\ answered = reply.calls

LEMMA WalkedPaid ==
  ASSUME TypeOK, ConvInv, PairInv, BatchWalked
  PROVE  answered = reply.calls
<1>1. reply.calls \in Nat /\ batch.i \in Nat
  BY Numbers, BatchStep
<1>2. batch.i >= reply.calls /\ answered = batch.i
  BY DEF BatchWalked, PairInv
<1>3. batch.i <= reply.calls
  BY DEF BatchWalked, ConvInv, Walking
<1> QED BY <1>1, <1>2, <1>3

LEMMA NextPair == TypeOK /\ ConvInv /\ PairInv /\ [Next]_vars => PairInv'
<1> SUFFICES ASSUME TypeOK, ConvInv, PairInv, [Next]_vars PROVE PairInv'
  OBVIOUS
<1>1. CASE RejectConfig
  BY <1>1 DEF RejectConfig, Return, PairInv
<1>2. CASE Seed
  BY <1>2 DEF Seed, PairInv
<1>3. CASE StopAtCostCap
  BY <1>3 DEF StopAtCostCap, Return, PairInv
<1>4. CASE LeaveLoop
  BY <1>4 DEF LeaveLoop, PairInv
<1>5. CASE StartWrapUpTurn
  BY <1>5 DEF StartWrapUpTurn, SendTurn, PairInv
<1>6. CASE StartBatchNudgeTurn
  BY <1>6 DEF StartBatchNudgeTurn, SendTurn, PairInv
<1>7. CASE StartTurn
  BY <1>7 DEF StartTurn, SendTurn, PairInv
<1>8. CASE ModelFails
  BY <1>8 DEF ModelFails, FailTurn, Return, PairInv
<1>9. CASE ModelReplies
  BY <1>9 DEF ModelReplies, PairInv
<1>10. CASE CompactionFails
  BY <1>10 DEF CompactionFails, PairInv
<1>11. CASE Compact
  BY <1>11 DEF Compact, PairInv
<1>12. CASE StopAtContextLimit
  BY <1>12 DEF StopAtContextLimit, Return, PairInv
<1>13. CASE RetryEmpty
  BY <1>13 DEF RetryEmpty, EndTurn, PairInv
<1>14. CASE FailEmpty
  BY <1>14 DEF FailEmpty, FailTurn, Return, PairInv
<1>15. CASE FinishByReply
  BY <1>15 DEF FinishByReply, Accept, Complete, Return, PairInv
<1>16. CASE Pause
  BY <1>16 DEF Pause, Accept, PairInv
<1>17. CASE ContinueWithInbox
  BY <1>17 DEF ContinueWithInbox, PairInv
<1>18. CASE AwaitHuman
  BY <1>18 DEF AwaitHuman, PairInv
<1>19. CASE WaitGetsMessage
  BY <1>19 DEF WaitGetsMessage, PairInv
<1>20. CASE WaitFindsClosed
  BY <1>20 DEF WaitFindsClosed, Complete, Return, PairInv
<1>21. CASE WaitCanceled
  BY <1>21 DEF WaitCanceled, Return, PairInv
<1>22. CASE BeginBatch
  <2>1. batch'.i = 0
    BY <1>22 DEF BeginBatch, NewBatch
  <2>2. /\ pc = "judge" /\ pc' = "batch" /\ called' = 0 /\ answered' = 0
        /\ UNCHANGED <<stop, completedBy>>
    BY <1>22 DEF BeginBatch, Accept
  <2> QED BY <2>1, <2>2 DEF PairInv
<1>23. CASE SkipCall
  <2>1. batch'.i = batch.i + 1
    BY <1>23, Numbers DEF SkipCall, Batch
  <2>2. /\ pc = "batch" /\ pc' = "batch" /\ called' = called + 1 /\ answered' = answered + 1
        /\ UNCHANGED <<stop, completedBy>>
    BY <1>23 DEF SkipCall, CallsLeft, AnswerCall
  <2> QED BY <2>1, <2>2 DEF PairInv
<1>24. CASE RefuseCall
  <2>1. /\ pc = "batch" /\ pc' = "between" /\ called' = called + 1 /\ answered' = answered + 1
        /\ UNCHANGED <<stop, completedBy, batch>>
    BY <1>24 DEF RefuseCall, MayDispatch, CallsLeft, AnswerCall
  <2> QED BY <2>1 DEF PairInv
<1>25. CASE Dispatch
  <2>1. batch'.i = batch.i
    BY <1>25, Numbers DEF Dispatch, Batch
  <2>2. /\ pc = "batch" /\ pc' = "exec" /\ called' = called + 1 /\ answered' = answered
        /\ UNCHANGED <<stop, completedBy>>
    BY <1>25 DEF Dispatch, MayDispatch, CallsLeft
  <2> QED BY <2>1, <2>2 DEF PairInv
<1>26. CASE ToolFails
  <2>1. /\ pc = "exec" /\ pc' = "between" /\ called' = called /\ answered' = answered + 1
        /\ UNCHANGED <<stop, completedBy, batch>>
    BY <1>26 DEF ToolFails, AnswerCall
  <2> QED BY <2>1 DEF PairInv
<1>27. CASE ToolSucceeds
  <2>1. batch'.i = batch.i
    BY <1>27, Numbers DEF ToolSucceeds, Batch
  <2>2. /\ pc = "exec" /\ pc' = "between" /\ called' = called /\ answered' = answered + 1
        /\ UNCHANGED <<stop, completedBy>>
    BY <1>27 DEF ToolSucceeds, AnswerCall
  <2> QED BY <2>1, <2>2 DEF PairInv
<1>28. CASE NextCall
  <2>1. batch'.i = batch.i + 1
    BY <1>28, Numbers DEF NextCall, Batch
  <2>2. /\ pc = "between" /\ pc' = "batch"
        /\ UNCHANGED <<stop, completedBy, called, answered>>
    BY <1>28 DEF NextCall
  <2> QED BY <2>1, <2>2 DEF PairInv
<1>29. CASE FinishByTool
  <2>1. /\ pc = "batch" /\ pc' = "stopped" /\ UNCHANGED <<called, answered, reply>>
    BY <1>29 DEF FinishByTool, Complete, Return, BatchWalked
  <2>2. answered = reply.calls
    BY <1>29, WalkedPaid DEF FinishByTool
  <2> QED BY <2>1, <2>2 DEF PairInv
<1>30. CASE ContinueAfterBatch
  BY <1>30 DEF ContinueAfterBatch, EndBatch, EndTurn, BatchWalked, PairInv
<1>31. CASE StopIncapable
  <2>1. /\ pc = "batch" /\ pc' = "stopped" /\ UNCHANGED <<called, answered, reply>>
    BY <1>31 DEF StopIncapable, Return, Incapable, BatchWalked
  <2>2. answered = reply.calls
    BY <1>31, WalkedPaid DEF StopIncapable, Incapable
  <2> QED BY <2>1, <2>2 DEF PairInv
<1>32. CASE RecoverWithPending
  BY <1>32
     DEF RecoverWithPending, EndBatch, EndTurn, Incapable, BatchWalked, PairInv
<1>33. CASE AwaitRecovery
  BY <1>33 DEF AwaitRecovery, Incapable, BatchWalked, PairInv
<1>34. CASE StopAtMaxTurns
  BY <1>34 DEF StopAtMaxTurns, Return, PairInv
<1>35. CASE AskGrace
  BY <1>35 DEF AskGrace, PairInv
<1>36. CASE GraceUnforced
  BY <1>36 DEF GraceUnforced, PairInv
<1>37. CASE GraceFails
  BY <1>37 DEF GraceFails, Return, PairInv
<1>38. CASE GraceReplies
  <2>1. /\ pc \in {"graceForced", "gracePlain"} /\ pc' = "graceCalls"
        /\ UNCHANGED <<called, answered, stop, completedBy>>
    BY <1>38 DEF GraceReplies
  <2> QED BY <2>1 DEF PairInv
<1>39. CASE GraceIgnores
  <2>1. pc = "graceCalls" /\ UNCHANGED <<pc, called, answered, stop, completedBy>>
    BY <1>39 DEF GraceIgnores, GraceCallsLeft
  <2> QED BY <2>1 DEF PairInv
<1>40. CASE GraceToolFails
  <2>1. /\ pc = "graceCalls" /\ called' = called + 1 /\ answered' = answered + 1
        /\ UNCHANGED <<pc, stop, completedBy>>
    BY <1>40 DEF GraceToolFails, GraceCallsLeft
  <2> QED BY <2>1 DEF PairInv
<1>41. CASE GraceToolSucceeds
  <2>1. /\ pc = "graceCalls" /\ called' = called + 1 /\ answered' = answered + 1
        /\ pc' = "stopped" /\ stop' = "done" /\ completedBy' = "grace"
    BY <1>41 DEF GraceToolSucceeds, GraceCallsLeft, Complete, Return
  <2>2. called = answered
    BY <2>1 DEF PairInv
  <2> QED BY <2>1, <2>2 DEF PairInv
<1>42. CASE GraceDeclined
  BY <1>42 DEF GraceDeclined, Return, PairInv
<1>43. CASE Push
  BY <1>43 DEF Push, PairInv
<1>44. CASE CloseInbox
  BY <1>44 DEF CloseInbox, PairInv
<1>45. CASE CancelContext
  BY <1>45 DEF CancelContext, PairInv
<1>46. CASE UNCHANGED vars
  BY <1>46 DEF vars, PairInv
<1> QED BY <1>1, <1>2, <1>3, <1>4, <1>5, <1>6, <1>7, <1>8, <1>9, <1>10,
           <1>11, <1>12, <1>13, <1>14, <1>15, <1>16, <1>17, <1>18, <1>19,
           <1>20, <1>21, <1>22, <1>23, <1>24, <1>25, <1>26, <1>27, <1>28,
           <1>29, <1>30, <1>31, <1>32, <1>33, <1>34, <1>35, <1>36, <1>37,
           <1>38, <1>39, <1>40, <1>41, <1>42, <1>43, <1>44, <1>45, <1>46
        DEF Next, RunStep, Environment, Returned

\* Every tool_call event has its one result event, and a batch that is walked
\* to its end leaves no call without one, whatever interrupts it.
THEOREM CallsAlwaysPaired == Spec => []CallsPaired
<1>1. Init => ConvInv /\ PairInv
  BY DEF Init, ConvInv, Speaking, Resting, Walking, PairInv
<1>2. TypeOK /\ ConvInv /\ PairInv /\ [Next]_vars => ConvInv' /\ PairInv'
  BY NextConv, NextPair
<1>3. TypeOK /\ ConvInv /\ PairInv => CallsPaired
  BY WalkedPaid DEF PairInv, CallsPaired
<1> QED BY <1>1, <1>2, <1>3, TypeCorrect, PTL DEF Spec

----------------------------------------------------------------------------
(* The reason a run reports.                                               *)

\* The inductive strengthening: which stops are still possible where the run
\* stands.
ReasonInv ==
  /\ pc # "stopped" => stop = "running" /\ completedBy = ""
  /\ pc \notin {"start", "stopped"} /\ cfg.interactive => cfg.inbox
  /\ pc \in {"pause", "await"} => cfg.inbox
  /\ closed => cfg.inbox
  /\ ~cfg.interactive => turns <= MaxTurns
  /\ pc \in {"exhausted", "graceForced", "gracePlain", "graceCalls"} =>
       ~cfg.interactive /\ turns = MaxTurns
  /\ ReasonJustified

LEMMA MaxTurnsPositive == TypeOK /\ ~cfg.interactive => MaxTurns > 0
<1> SUFFICES ASSUME TypeOK, ~cfg.interactive PROVE MaxTurns > 0
  OBVIOUS
<1>1. cfg \in Config
  BY Types DEF TypeOK
<1>2. cfg.maxTurns \in Int /\ DefaultMaxTurns \in Nat \ {0}
  BY <1>1, BoundAssumption DEF Config
<1> QED BY <1>2 DEF MaxTurns

LEMMA CfgFixed == [Next]_vars => cfg' = cfg
  BY DEF vars, Next, RunStep, Environment, Returned, RejectConfig, Seed,
     StopAtCostCap, LeaveLoop, StartWrapUpTurn, StartBatchNudgeTurn, StartTurn,
     SendTurn, ModelFails, ModelReplies, CompactionFails, Compact,
     StopAtContextLimit, RetryEmpty, FailEmpty, FinishByReply, Pause,
     ContinueWithInbox, AwaitHuman, WaitGetsMessage, WaitFindsClosed,
     WaitCanceled, BeginBatch, SkipCall, RefuseCall, Dispatch, ToolFails,
     ToolSucceeds, NextCall, FinishByTool, ContinueAfterBatch, StopIncapable,
     RecoverWithPending, AwaitRecovery, StopAtMaxTurns, AskGrace,
     GraceUnforced, GraceFails, GraceReplies, GraceIgnores, GraceToolFails,
     GraceToolSucceeds, GraceDeclined, Push, CloseInbox, CancelContext

\* A step that does not end the run and leaves the caps alone.
Onward ==
  /\ pc # "stopped" /\ pc' # "stopped"
  /\ UNCHANGED <<stop, completedBy, cfg, turns>>
  /\ pc' # pc => /\ pc = "start" => (cfg.interactive => cfg.inbox)
                 /\ pc' \in {"pause", "await"} => cfg.inbox
                 /\ pc' \in {"exhausted", "graceForced", "gracePlain", "graceCalls"} =>
                      ~cfg.interactive /\ turns = MaxTurns
  /\ closed' => cfg.inbox

LEMMA OnwardReason == ReasonInv /\ Onward => ReasonInv'
<1> SUFFICES ASSUME ReasonInv, Onward PROVE ReasonInv'
  OBVIOUS
<1>1. MaxTurns' = MaxTurns
  BY DEF Onward, MaxTurns
<1>2. ReasonJustified'
  BY DEF Onward, ReasonJustified
<1> QED BY <1>1, <1>2 DEF Onward, ReasonInv

\* A turn is counted, never past the cap.
LEMMA SendTurnReason ==
  ASSUME TypeOK, ReasonInv, NEW nudge, SendTurn(nudge)
  PROVE  ReasonInv'
<1>1. /\ pc = "top" /\ pc' = "send" /\ turns' = turns + 1
      /\ UNCHANGED <<cfg, stop, completedBy, closed>>
      /\ cfg.interactive \/ turns < MaxTurns
  BY DEF SendTurn, TurnsLeft
<1>2. MaxTurns \in Int /\ turns \in Nat /\ MaxTurns' = MaxTurns
  BY <1>1, MaxTurnsType DEF MaxTurns
<1>3. ~cfg.interactive => turns + 1 <= MaxTurns
  BY <1>1, <1>2
<1>4. ReasonJustified'
  BY <1>1 DEF ReasonJustified
<1> QED BY <1>1, <1>2, <1>3, <1>4 DEF ReasonInv

LEMMA NextReason == TypeOK /\ ConvInv /\ ReasonInv /\ [Next]_vars => ReasonInv'
<1> SUFFICES ASSUME TypeOK, ConvInv, ReasonInv, [Next]_vars PROVE ReasonInv'
  OBVIOUS
<1>a. /\ cfg' = cfg /\ MaxTurns' = MaxTurns /\ IncapableThreshold' = IncapableThreshold
      /\ HardStop' = HardStop
  BY CfgFixed DEF MaxTurns, IncapableThreshold, HardStop, CompactionThreshold
<1>1. CASE RejectConfig
  BY <1>1, <1>a DEF RejectConfig, Return, ReasonInv, ReasonJustified
<1>2. CASE Seed
  <2>1. Onward
    BY <1>2 DEF Seed, ReasonInv, Onward
  <2> QED BY <2>1, OnwardReason
<1>3. CASE StopAtCostCap
  <2>1. /\ CostCapExceeded /\ pc = "top" /\ pc' = "stopped" /\ stop' = "max_cost"
        /\ UNCHANGED <<completedBy, closed, turns, cost>>
    BY <1>3 DEF StopAtCostCap, Return
  <2>2. cfg'.maxCost > 0 /\ cost' >= cfg'.maxCost
    BY <2>1, <1>a DEF CostCapExceeded
  <2> QED BY <2>1, <2>2, <1>a DEF ReasonInv, ReasonJustified
<1>4. CASE LeaveLoop
  <2>1. /\ pc = "top" /\ pc' = "exhausted" /\ ~cfg.interactive /\ ~(turns < MaxTurns)
        /\ UNCHANGED <<stop, completedBy, closed, turns>>
    BY <1>4 DEF LeaveLoop, TurnsLeft
  <2>2. turns <= MaxTurns /\ turns \in Nat /\ MaxTurns \in Int
    BY <2>1, MaxTurnsType DEF ReasonInv
  <2>3. turns = MaxTurns
    BY <2>1, <2>2
  <2>4. Onward
    BY <2>1, <2>3, <1>a DEF Onward, ReasonInv
  <2> QED BY <2>4, OnwardReason
<1>5. CASE StartWrapUpTurn
  BY <1>5, SendTurnReason DEF StartWrapUpTurn
<1>6. CASE StartBatchNudgeTurn
  BY <1>6, SendTurnReason DEF StartBatchNudgeTurn
<1>7. CASE StartTurn
  BY <1>7, SendTurnReason DEF StartTurn
<1>8. CASE ModelFails
  BY <1>8, <1>a DEF ModelFails, FailTurn, Return, ReasonInv, ReasonJustified
<1>9. CASE ModelReplies
  <2>1. Onward
    BY <1>9 DEF ModelReplies, ReasonInv, Onward
  <2> QED BY <2>1, OnwardReason
<1>10. CASE CompactionFails
  <2>1. Onward
    BY <1>10 DEF CompactionFails, ReasonInv, Onward
  <2> QED BY <2>1, OnwardReason
<1>11. CASE Compact
  <2>1. Onward
    BY <1>11 DEF Compact, ReasonInv, Onward
  <2> QED BY <2>1, OnwardReason
<1>12. CASE StopAtContextLimit
  <2>1. /\ pc = "judge" /\ pc' = "stopped" /\ stop' = "context_limit"
        /\ reply.prompt >= HardStop
        /\ UNCHANGED <<completedBy, closed, turns, reply, msgs>>
    BY <1>12 DEF StopAtContextLimit, Return, OverLimit
  <2>2. msgs[Len(msgs)].role # "assistant"
    BY <2>1 DEF ConvInv, Speaking, Sendable
  <2>3. reply'.prompt >= HardStop' /\ msgs'[Len(msgs')].role # "assistant"
    BY <2>1, <2>2, <1>a
  <2> QED BY <2>1, <2>3, <1>a DEF ReasonInv, ReasonJustified
<1>13. CASE RetryEmpty
  <2>1. Onward
    BY <1>13 DEF RetryEmpty, EndTurn, ReasonInv, Onward
  <2> QED BY <2>1, OnwardReason
<1>14. CASE FailEmpty
  BY <1>14, <1>a DEF FailEmpty, FailTurn, Return, ReasonInv, ReasonJustified
<1>15. CASE FinishByReply
  <2>1. /\ pc = "judge" /\ pc' = "stopped" /\ stop' = "done" /\ completedBy' = "reply"
        /\ ~cfg.inbox /\ reply.calls = 0
        /\ UNCHANGED <<closed, turns>>
    BY <1>15 DEF FinishByReply, Accept, Complete, Return
  <2>2. msgs'[Len(msgs')] = Assistant(0)
    BY <1>15, <2>1, AcceptConv DEF FinishByReply
  <2>3. ~IsOpen(msgs'[Len(msgs')])
    BY <2>2 DEF IsOpen, Assistant
  <2> QED BY <2>1, <2>3, <1>a DEF ReasonInv, ReasonJustified
<1>16. CASE Pause
  <2>1. Onward
    BY <1>16 DEF Pause, Accept, ReasonInv, Onward
  <2> QED BY <2>1, OnwardReason
<1>17. CASE ContinueWithInbox
  <2>1. Onward
    BY <1>17 DEF ContinueWithInbox, ReasonInv, Onward
  <2> QED BY <2>1, OnwardReason
<1>18. CASE AwaitHuman
  <2>1. Onward
    BY <1>18 DEF AwaitHuman, ReasonInv, Onward
  <2> QED BY <2>1, OnwardReason
<1>19. CASE WaitGetsMessage
  <2>1. Onward
    BY <1>19 DEF WaitGetsMessage, ReasonInv, Onward
  <2> QED BY <2>1, OnwardReason
<1>20. CASE WaitFindsClosed
  BY <1>20, <1>a DEF WaitFindsClosed, Complete, Return, ReasonInv, ReasonJustified
<1>21. CASE WaitCanceled
  BY <1>21, <1>a DEF WaitCanceled, Return, ReasonInv, ReasonJustified
<1>22. CASE BeginBatch
  <2>1. Onward
    BY <1>22 DEF BeginBatch, Accept, NewBatch, ReasonInv, Onward
  <2> QED BY <2>1, OnwardReason
<1>23. CASE SkipCall
  <2>1. Onward
    BY <1>23 DEF SkipCall, CallsLeft, ReasonInv, Onward
  <2> QED BY <2>1, OnwardReason
<1>24. CASE RefuseCall
  <2>1. Onward
    BY <1>24 DEF RefuseCall, MayDispatch, CallsLeft, ReasonInv, Onward
  <2> QED BY <2>1, OnwardReason
<1>25. CASE Dispatch
  <2>1. Onward
    BY <1>25 DEF Dispatch, MayDispatch, CallsLeft, ReasonInv, Onward
  <2> QED BY <2>1, OnwardReason
<1>26. CASE ToolFails
  <2>1. Onward
    BY <1>26 DEF ToolFails, ReasonInv, Onward
  <2> QED BY <2>1, OnwardReason
<1>27. CASE ToolSucceeds
  <2>1. Onward
    BY <1>27 DEF ToolSucceeds, ReasonInv, Onward
  <2> QED BY <2>1, OnwardReason
<1>28. CASE NextCall
  <2>1. Onward
    BY <1>28 DEF NextCall, ReasonInv, Onward
  <2> QED BY <2>1, OnwardReason
<1>29. CASE FinishByTool
  BY <1>29, <1>a
     DEF FinishByTool, Complete, Return, BatchWalked, ReasonInv, ReasonJustified
<1>30. CASE ContinueAfterBatch
  <2>1. Onward
    BY <1>30 DEF ContinueAfterBatch, EndBatch, EndTurn, BatchWalked, ReasonInv, Onward
  <2> QED BY <2>1, OnwardReason
<1>31. CASE StopIncapable
  BY <1>31, <1>a
     DEF StopIncapable, Return, Incapable, BatchWalked, ReasonInv, ReasonJustified
<1>32. CASE RecoverWithPending
  <2>1. Onward
    BY <1>32 DEF RecoverWithPending, EndBatch, EndTurn, Incapable, BatchWalked, ReasonInv, Onward
  <2> QED BY <2>1, OnwardReason
<1>33. CASE AwaitRecovery
  <2>1. Onward
    BY <1>33 DEF AwaitRecovery, Incapable, BatchWalked, ReasonInv, Onward
  <2> QED BY <2>1, OnwardReason
<1>34. CASE StopAtMaxTurns
  BY <1>34, <1>a DEF StopAtMaxTurns, Return, ReasonInv, ReasonJustified
<1>35. CASE AskGrace
  <2>1. Onward
    BY <1>35 DEF AskGrace, ReasonInv, Onward
  <2> QED BY <2>1, OnwardReason
<1>36. CASE GraceUnforced
  <2>1. Onward
    BY <1>36 DEF GraceUnforced, ReasonInv, Onward
  <2> QED BY <2>1, OnwardReason
<1>37. CASE GraceFails
  BY <1>37, <1>a DEF GraceFails, Return, ReasonInv, ReasonJustified
<1>38. CASE GraceReplies
  <2>1. Onward
    BY <1>38 DEF GraceReplies, ReasonInv, Onward
  <2> QED BY <2>1, OnwardReason
<1>39. CASE GraceIgnores
  <2>1. Onward
    BY <1>39 DEF GraceIgnores, GraceCallsLeft, ReasonInv, Onward
  <2> QED BY <2>1, OnwardReason
<1>40. CASE GraceToolFails
  <2>1. Onward
    BY <1>40 DEF GraceToolFails, GraceCallsLeft, ReasonInv, Onward
  <2> QED BY <2>1, OnwardReason
<1>41. CASE GraceToolSucceeds
  BY <1>41, <1>a
     DEF GraceToolSucceeds, GraceCallsLeft, Complete, Return, ReasonInv, ReasonJustified
<1>42. CASE GraceDeclined
  BY <1>42, <1>a DEF GraceDeclined, Return, ReasonInv, ReasonJustified
<1>43. CASE Push
  <2>1. Onward
    BY <1>43 DEF Push, ReasonInv, Onward
  <2> QED BY <2>1, OnwardReason
<1>44. CASE CloseInbox
  <2>1. Onward
    BY <1>44 DEF CloseInbox, ReasonInv, Onward
  <2> QED BY <2>1, OnwardReason
<1>45. CASE CancelContext
  <2>1. Onward
    BY <1>45 DEF CancelContext, ReasonInv, Onward
  <2> QED BY <2>1, OnwardReason
<1>46. CASE UNCHANGED vars
  <2>1. /\ UNCHANGED <<pc, stop, completedBy, closed, turns, cost, msgs, reply>>
        /\ UNCHANGED <<unproductive, ctxDone>>
    BY <1>46 DEF vars
  <2> QED BY <2>1, <1>a DEF ReasonInv, ReasonJustified
<1> QED BY <1>1, <1>2, <1>3, <1>4, <1>5, <1>6, <1>7, <1>8, <1>9, <1>10,
           <1>11, <1>12, <1>13, <1>14, <1>15, <1>16, <1>17, <1>18, <1>19,
           <1>20, <1>21, <1>22, <1>23, <1>24, <1>25, <1>26, <1>27, <1>28,
           <1>29, <1>30, <1>31, <1>32, <1>33, <1>34, <1>35, <1>36, <1>37,
           <1>38, <1>39, <1>40, <1>41, <1>42, <1>43, <1>44, <1>45, <1>46
        DEF Next, RunStep, Environment, Returned

\* The reason a run reports is true of it, whatever it went through.
THEOREM ReasonAlwaysJustified == Spec => []ReasonJustified
<1>1. Init => ConvInv /\ ReasonInv
  <2> SUFFICES ASSUME Init PROVE ConvInv /\ ReasonInv
    OBVIOUS
  <2>1. ConvInv
    BY DEF Init, ConvInv, Speaking, Resting, Walking
  <2>2. pc = "start" /\ stop = "running" /\ completedBy = "" /\ closed = FALSE /\ turns = 0
    BY DEF Init
  <2>3. ~cfg.interactive => turns <= MaxTurns
    <3>0. turns = 0
      BY DEF Init
    <3>1. ~cfg.interactive => MaxTurns > 0 /\ MaxTurns \in Int
      BY InitTypeOK, MaxTurnsPositive, MaxTurnsType
    <3> QED BY <3>0, <3>1
  <2> QED BY <2>1, <2>2, <2>3 DEF ReasonInv, ReasonJustified
<1>2. TypeOK /\ ConvInv /\ ReasonInv /\ [Next]_vars => ConvInv' /\ ReasonInv'
  BY NextConv, NextReason
<1>3. ReasonInv => ReasonJustified
  BY DEF ReasonInv
<1> QED BY <1>1, <1>2, <1>3, TypeCorrect, PTL DEF Spec

\* No turn and no grace call is started once the cost has reached the cap.
THEOREM NeverTurnsOverBudget == Spec => NoTurnOverBudget
<1>1. ASSUME [Next]_vars, CostCapExceeded
      PROVE  /\ turns' = turns
             /\ pc' \in {"graceForced", "gracePlain"} => pc \in {"graceForced", "gracePlain"}
  <2>1. ~StartWrapUpTurn /\ ~StartBatchNudgeTurn /\ ~StartTurn
    BY <1>1 DEF StartWrapUpTurn, StartBatchNudgeTurn, StartTurn, SendTurn
  <2>2. turns' = turns
    BY <1>1, <2>1, TurnsCountedAtStart
  <2>3. pc' \in {"graceForced", "gracePlain"} => AskGrace \/ GraceUnforced \/ pc' = pc
    BY <1>1 DEF vars, Next, RunStep, Environment, Returned, Return, Complete,
       Accept, FailTurn, EndTurn, EndBatch, SendTurn, RejectConfig, Seed,
       StopAtCostCap, LeaveLoop, StartWrapUpTurn, StartBatchNudgeTurn,
       StartTurn, ModelFails, ModelReplies, CompactionFails, Compact,
       StopAtContextLimit, RetryEmpty, FailEmpty, FinishByReply, Pause,
       ContinueWithInbox, AwaitHuman, WaitGetsMessage, WaitFindsClosed,
       WaitCanceled, BeginBatch, SkipCall, RefuseCall, Dispatch, ToolFails,
       ToolSucceeds, NextCall, FinishByTool, ContinueAfterBatch,
       StopIncapable, RecoverWithPending, AwaitRecovery, StopAtMaxTurns,
       GraceFails, GraceReplies, GraceIgnores, GraceToolFails,
       GraceToolSucceeds, GraceDeclined, Push, CloseInbox, CancelContext
  <2>4. ~AskGrace
    BY <1>1 DEF AskGrace, GraceDue
  <2>5. GraceUnforced => pc \in {"graceForced", "gracePlain"}
    BY DEF GraceUnforced
  <2> QED BY <2>2, <2>3, <2>4, <2>5
<1>2. [Next]_vars => [StaysInBudget]_vars
  BY <1>1 DEF StaysInBudget
<1> QED BY <1>2, PTL DEF Spec, NoTurnOverBudget

============================================================================
