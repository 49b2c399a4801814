----------------------- MODULE MinuteCalibrationProofs -----------------------
(***************************************************************************)
(* Proofs about MinuteCalibration, for every set of minutes, buckets,      *)
(* tasks and values, every aggregator and every bound.                     *)
(***************************************************************************)
EXTENDS MinuteCalibration, TLAPS

(***************************************************************************)
(* Type correctness.                                                       *)
(***************************************************************************)
\* rebuildRollupBucket of a complete bucket yields a value of that bucket.
LEMMA RollupBarsType ==
  ASSUME StoreTypeOK, NEW b \in Bucket, SourceBarsComplete(b)
  PROVE  RollupBars(b) \in RollValue[b]
<1> DEFINE f == [c \in Source[b] |-> Stored(c)]
<1>1. Source[b] \subseteq Cell
  BY SourceAssumption
<1>2. \A c \in Source[b] : Stored(c) \in ValueOf(c)
  <2> SUFFICES ASSUME NEW c \in Source[b]
               PROVE  Stored(c) \in ValueOf(c)
    OBVIOUS
  <2>1. Stored(c) # NoBar
    BY DEF SourceBarsComplete
  <2>2. CASE c \in Minute
    BY <2>1, <2>2 DEF Stored, ValueOf, StoreTypeOK
  <2>3. CASE c \notin Minute
    BY <1>1, <2>1, <2>3 DEF Stored, ValueOf, StoreTypeOK, Cell
  <2> QED BY <2>2, <2>3
<1>3. \A c \in Source[b] : f[c] \in ValueOf(c)
  BY <1>2
<1>4. f \in [Source[b] -> UNION {ValueOf(c) : c \in Source[b]}]
  BY <1>3
<1>5. Rollup(b, f) \in RollValue[b]
  <2> HIDE DEF f
  <2> QED BY <1>3, <1>4, RollupAssumption
<1> QED BY <1>5 DEF RollupBars

\* UpsertRollups keeps the type of the derived rows.
LEMMA UpsertRollupsType ==
  ASSUME StoreTypeOK, NEW B \in SUBSET Bucket, \A b \in B : SourceBarsComplete(b),
         UpsertRollups(B)
  PROVE  /\ DOMAIN roll' = Bucket
         /\ \A b \in Bucket : roll'[b] \in RollValue[b] \cup {NoBar}
<1>1. \A b \in B : RollupBars(b) \in RollValue[b]
  BY RollupBarsType
<1> QED BY <1>1 DEF UpsertRollups, StoreTypeOK

\* The locals of an execution that has returned have their type.
LEMMA FinishingType ==
  ASSUME TypeOK
  PROVE  /\ ExecIdle \in Exec
         /\ Finishing(TRUE) \in Exec
         /\ Finishing(FALSE) \in Exec
         /\ Verified \in Exec
<1>1. ExecIdle \in Exec
  BY BoundAssumption DEF ExecIdle, Exec, ExecPhase, NoAnswer, NoMarks, Answer
<1>2. ASSUME NEW fail \in BOOLEAN PROVE Finishing(fail) \in Exec
  BY <1>1 DEF Finishing, TypeOK, Exec, ExecPhase
<1>3. Verified \in Exec
  BY <1>1 DEF Verified, TypeOK, Exec, ExecPhase
<1> QED BY <1>1, <1>2, <1>3, Zenon

\* Enqueue keeps the type of the task rows.
LEMMA EnqueueType ==
  ASSUME TypeOK, NEW t \in Task, Enqueue(t)
  PROVE  task' \in [Task -> TaskRow]
BY DEF Enqueue, TypeOK, TaskRow, Status

\* Each step of the service, and of the backfill, preserves the types.
LEMMA TypeStep ==
  ASSUME TypeOK, Next \/ (BackfillNext /\ Settle)
  PROVE  TypeOK'
<1> USE DEF TypeOK, StoreTypeOK, storeVars, execVars
<1>0. settled' \subseteq Bucket
  BY DEF Next, Settle
<1>1. ASSUME NEW m \in Minute, NEW v \in Value, IngestAccept(m, v) PROVE TypeOK'
  BY <1>0, <1>1 DEF IngestAccept, Ws
<1>2. ASSUME NEW m \in Minute, NEW v \in Value, IngestConflict(m, v) PROVE TypeOK'
  BY <1>0, <1>2, EnqueueType DEF IngestConflict
<1>3. ASSUME IngestWrite PROVE TypeOK'
  BY <1>0, <1>3 DEF IngestWrite, UpsertMinute, Ws, Targets
<1>4. ASSUME IngestCascade PROVE TypeOK'
  <2>1. PICK b \in ws.todo :
          IF SourceBarsComplete(b)
            THEN /\ UpsertRollups({b})
                 /\ ws' = [ws EXCEPT !.todo = (@ \ {b}) \cup Targets(b, FALSE)]
            ELSE /\ ws' = [ws EXCEPT !.todo = @ \ {b}]
                 /\ UNCHANGED roll
    BY <1>4 DEF IngestCascade
  <2>2. b \in Bucket
    BY DEF Ws
  <2>3. ws' \in Ws
    BY <2>1 DEF Ws, Targets
  <2>4. /\ DOMAIN roll' = Bucket
        /\ \A a \in Bucket : roll'[a] \in RollValue[a] \cup {NoBar}
    BY <2>1, <2>2, UpsertRollupsType
  <2> QED BY <1>0, <1>4, <2>3, <2>4 DEF IngestCascade
<1>5. ASSUME IngestReturn PROVE TypeOK'
  BY <1>0, <1>5 DEF IngestReturn, Ws, WsIdle
<1>6. ASSUME IngestFail PROVE TypeOK'
  BY <1>0, <1>6, BoundAssumption DEF IngestFail, Ws, WsIdle, Fault
<1>7. ASSUME NEW t \in Task, RegisterTask(t) PROVE TypeOK'
  BY <1>0, <1>7, EnqueueType DEF RegisterTask
<1>8. ASSUME NEW t \in Task, LeaseTask(t) PROVE TypeOK'
  <2>1. PICK repairError \in BOOLEAN :
          exec' = [ExecIdle EXCEPT !.task = t, !.phase = "leased",
                     !.replay = \/ task[t].force \/ task[t].attempted
                                \/ Kind[t] = "daily" \/ repairError]
    BY <1>8 DEF LeaseTask
  <2> DEFINE replay == \/ task[t].force \/ task[t].attempted
                       \/ Kind[t] = "daily" \/ repairError
  <2>2. exec' = [ExecIdle EXCEPT !.task = t, !.phase = "leased", !.replay = replay]
    BY <2>1, Zenon
  <2>3. replay \in BOOLEAN
    BY Zenon
  <2> HIDE DEF replay
  <2>4. exec' \in Exec
    BY <2>2, <2>3, FinishingType DEF Exec, ExecPhase
  <2>5. task' \in [Task -> TaskRow]
    BY <1>8, ZenonT(30) DEF LeaseTask, TaskRow, Status
  <2> QED BY <1>0, <1>8, <2>4, <2>5 DEF LeaseTask
<1>9. ASSUME RequestOfficial PROVE TypeOK'
  <2>1. clock \in 0..MaxClock
    BY BoundAssumption
  <2>2. exec' \in Exec
    BY <1>9, <2>1 DEF RequestOfficial, Exec, ExecPhase
  <2> QED BY <1>0, <1>9, <2>2 DEF RequestOfficial
<1>10. ASSUME AnswerOfficial PROVE TypeOK'
  <2>1. PICK missing \in SUBSET TaskMinutes[exec.task] :
          LET got == TaskMinutes[exec.task] \ missing IN
          /\ IF missing = {} THEN UNCHANGED faults ELSE Fault
          /\ exec' = IF got = {} THEN Finishing(TRUE)
                     ELSE [exec EXCEPT !.phase = "answered", !.failed = missing # {},
                             !.answer = [m \in Minute |-> IF m \in got THEN official[m]
                                                           ELSE NoBar]]
    BY <1>10 DEF AnswerOfficial
  <2> DEFINE got == TaskMinutes[exec.task] \ missing
             answer == [m \in Minute |-> IF m \in got THEN official[m] ELSE NoBar]
             failed == missing # {}
  <2>2. faults' \in 0..MaxFaults
    BY <2>1, BoundAssumption DEF Fault
  <2>3. answer \in Answer
    BY DEF Answer
  <2>4. failed \in BOOLEAN
    OBVIOUS
  <2>5. exec' = IF got = {} THEN Finishing(TRUE)
                ELSE [exec EXCEPT !.phase = "answered", !.failed = failed, !.answer = answer]
    BY <2>1
  <2> HIDE DEF got, answer, failed
  <2>6. exec' \in Exec
    <3>1. CASE got = {}
      BY <2>5, <3>1, FinishingType
    <3>2. CASE got # {}
      BY <2>3, <2>4, <2>5, <3>2 DEF Exec, ExecPhase
    <3> QED BY <3>1, <3>2
  <2> QED BY <1>0, <1>10, <2>2, <2>6 DEF AnswerOfficial
<1>11. ASSUME VerifyBegin PROVE TypeOK'
  <2>1. exec' \in Exec
    <3>1. CASE latest > exec.generation
      BY <1>11, <3>1, FinishingType DEF VerifyBegin
    <3>2. CASE ~(latest > exec.generation)
      <4>1. Answered \in SUBSET Minute
        BY DEF Answered
      <4>2. row \in Answer
        BY DEF Answer
      <4>3. exec' = [exec EXCEPT !.phase = "verifying", !.oldRow = row,
                                 !.oldMark = verifiedAt, !.left = Answered]
        BY <1>11, <3>2 DEF VerifyBegin
      <4> QED BY <4>1, <4>2, <4>3 DEF Exec, ExecPhase
    <3> QED BY <3>1, <3>2
  <2> QED BY <1>0, <1>11, <2>1 DEF VerifyBegin, Exec
<1>12. ASSUME VerifyStale PROVE TypeOK'
  BY <1>0, <1>12, FinishingType DEF VerifyStale
<1>13. ASSUME VerifySame PROVE TypeOK'
  <2>1. PICK m \in Minute :
          /\ exec' = [exec EXCEPT !.left = @ \ {m},
                        !.toMark = IF exec.oldMark[m] = 0 THEN @ \cup {m} ELSE @]
          /\ confirmed' = [confirmed EXCEPT ![m] = exec.answer[m]]
    BY <1>13 DEF VerifySame
  <2>2. exec' \in Exec
    BY <2>1 DEF Exec
  <2>3. confirmed' \in Answer
    BY <2>1 DEF Exec, Answer
  <2> QED BY <1>0, <1>13, <2>2, <2>3 DEF VerifySame
<1>14. ASSUME VerifyRevise PROVE TypeOK'
  <2>1. PICK m \in Minute :
          /\ UpsertMinuteRevision(m, exec.answer[m], exec.generation)
          /\ exec' = [exec EXCEPT !.phase = "cascading", !.left = @ \ {m},
                        !.toMark = @ \cup {m}, !.todo = Targets(m, TRUE)]
          /\ confirmed' = [confirmed EXCEPT ![m] = exec.answer[m]]
    BY <1>14 DEF VerifyRevise
  <2>2. exec' \in Exec
    BY <2>1 DEF Exec, ExecPhase, Targets
  <2>3. confirmed' \in Answer /\ row' \in [Minute -> Value \cup {NoBar}]
    BY <2>1 DEF Exec, Answer, UpsertMinuteRevision
  <2> QED BY <1>0, <1>14, <2>2, <2>3 DEF VerifyRevise
<1>15. ASSUME RepairCascade PROVE TypeOK'
  <2>1. PICK b \in exec.todo :
          IF SourceBarsComplete(b)
            THEN /\ UpsertRollups({b})
                 /\ exec' = [exec EXCEPT !.todo = (@ \ {b}) \cup Targets(b, TRUE)]
            ELSE /\ exec' = [exec EXCEPT !.todo = @ \ {b}]
                 /\ UNCHANGED roll
    BY <1>15 DEF RepairCascade
  <2>2. b \in Bucket
    BY DEF Exec
  <2>3. exec' \in Exec
    BY <2>1 DEF Exec, Targets
  <2>4. /\ DOMAIN roll' = Bucket
        /\ \A a \in Bucket : roll'[a] \in RollValue[a] \cup {NoBar}
    BY <2>1, <2>2, UpsertRollupsType
  <2> QED BY <1>0, <1>15, <2>3, <2>4 DEF RepairCascade
<1>16. ASSUME CascadeDone PROVE TypeOK'
  BY <1>0, <1>16 DEF CascadeDone, Exec, ExecPhase
<1>17. ASSUME VerifyMark PROVE TypeOK'
  <2>1. exec' \in {Verified, Finishing(TRUE), Finishing(FALSE)}
    BY <1>17, Zenon DEF VerifyMark
  <2>2. exec' \in Exec
    BY <2>1, FinishingType
  <2>3. PICK M : MarkVerified(M, exec.generation)
    BY <1>17 DEF VerifyMark
  <2>4. exec.generation \in Nat
    BY BoundAssumption DEF Exec
  <2>5. verifiedAt' \in [Minute -> Nat]
    BY <2>3, <2>4 DEF MarkVerified
  <2> QED BY <1>0, <1>17, <2>2, <2>5 DEF VerifyMark
<1>18. ASSUME ReplayBegin PROVE TypeOK'
  <2>1. UNION {Targets(m, TRUE) : m \in Answered} \in SUBSET Bucket
    BY DEF Targets
  <2>2. exec' \in Exec
    BY <1>18, <2>1 DEF ReplayBegin, Exec, ExecPhase
  <2> QED BY <1>0, <1>18, <2>2 DEF ReplayBegin
<1>19. ASSUME ReplayLevel PROVE TypeOK'
  <2> DEFINE complete == {b \in exec.todo : SourceBarsComplete(b)}
  <2>1. /\ UpsertRollups(complete)
        /\ exec' = [exec EXCEPT !.todo = UNION {Targets(b, TRUE) : b \in complete}]
    BY <1>19 DEF ReplayLevel
  <2>2. complete \in SUBSET Bucket /\ \A b \in complete : SourceBarsComplete(b)
    BY DEF Exec
  <2> HIDE DEF complete
  <2>3. UNION {Targets(b, TRUE) : b \in complete} \in SUBSET Bucket
    BY DEF Targets
  <2>4. exec' \in Exec
    BY <2>1, <2>3 DEF Exec
  <2>5. /\ DOMAIN roll' = Bucket
        /\ \A a \in Bucket : roll'[a] \in RollValue[a] \cup {NoBar}
    BY <2>1, <2>2, UpsertRollupsType
  <2> QED BY <1>0, <1>19, <2>4, <2>5 DEF ReplayLevel
<1>20. ASSUME ReplayDone PROVE TypeOK'
  BY <1>0, <1>20, FinishingType DEF ReplayDone
<1>21. ASSUME FinishTask PROVE TypeOK'
  <2>1. task' \in [Task -> TaskRow]
    BY <1>21 DEF FinishTask, TaskRow, Status, NoRow
  <2>2. exec' \in Exec
    BY <1>21, FinishingType DEF FinishTask
  <2> QED BY <1>0, <1>21, <2>1, <2>2 DEF FinishTask
<1>22. ASSUME FinishLost PROVE TypeOK'
  <2>1. faults' \in 0..MaxFaults
    BY <1>22, BoundAssumption DEF FinishLost, Fault
  <2>2. exec' \in Exec
    BY <1>22, FinishingType DEF FinishLost
  <2> QED BY <1>0, <1>22, <2>1, <2>2, BoundAssumption DEF FinishLost
<1>23. ASSUME RepairFail PROVE TypeOK'
  <2>1. faults' \in 0..MaxFaults
    BY <1>23, BoundAssumption DEF RepairFail, Fault
  <2>2. exec' \in Exec
    BY <1>23, FinishingType DEF RepairFail
  <2> QED BY <1>0, <1>23, <2>1, <2>2, BoundAssumption DEF RepairFail
<1>24. ASSUME NEW m \in Minute, NEW v \in Value, OfficialRevise(m, v) PROVE TypeOK'
  BY <1>0, <1>24 DEF OfficialRevise
<1>25. ASSUME Tick PROVE TypeOK'
  BY <1>0, <1>25, BoundAssumption DEF Tick
<1>26. ASSUME ClockStep PROVE TypeOK'
  BY <1>0, <1>26, BoundAssumption DEF ClockStep, Fault
<1>27. ASSUME Crash PROVE TypeOK'
  <2>1. faults' \in 0..MaxFaults
    BY <1>27, BoundAssumption DEF Crash, Fault
  <2>2. exec' \in Exec
    BY <1>27, FinishingType DEF Crash
  <2> QED BY <1>0, <1>27, <2>1, <2>2, BoundAssumption DEF Crash, Ws, WsIdle
<1>28. ASSUME NEW M \in SUBSET Minute, BackfillDelete(M) PROVE TypeOK'
  BY <1>0, <1>28 DEF BackfillDelete, DeleteMinutes
<1>29. ASSUME NEW m \in Minute, NEW v \in Value, BackfillWrite(m, v) PROVE TypeOK'
  BY <1>0, <1>29 DEF BackfillWrite, UpsertMinute
<1>30. CASE Next
  BY <1>30, <1>1, <1>2, <1>3, <1>4, <1>5, <1>6, <1>7, <1>8, <1>9, <1>10, <1>11, <1>12,
     <1>13, <1>14, <1>15, <1>16, <1>17, <1>18, <1>19, <1>20, <1>21, <1>22, <1>23,
     <1>24, <1>25, <1>26, <1>27
     DEF Next, IngestNext, GuardianNext, ExecStep, EnvNext
<1>31. CASE BackfillNext /\ Settle
  BY <1>31, <1>28, <1>29 DEF BackfillNext
<1> QED BY <1>30, <1>31

\* A stuttering step changes no variable.
LEMMA TypeStutter ==
  ASSUME TypeOK, UNCHANGED vars
  PROVE  TypeOK'
BY DEF TypeOK, StoreTypeOK, vars

\* The start of a process on an empty store has the types.
LEMMA TypeInit ==
  ASSUME Init
  PROVE  TypeOK
<1>1. ExecIdle \in Exec
  BY BoundAssumption DEF ExecIdle, Exec, ExecPhase, NoAnswer, NoMarks, Answer
<1> QED BY <1>1, BoundAssumption
        DEF Init, StoreInit, TypeOK, StoreTypeOK, TaskRow, Status, NoRow, Ws, WsIdle,
            NoAnswer, Answer

\* Every variable keeps its type, also under a corporate-action backfill: in
\* particular a derived row is only ever built from complete sources.
THEOREM TypeCorrect == BackfillSpec => []TypeOK
<1>1. Init => TypeOK
  BY TypeInit
<1>2. TypeOK /\ [Next \/ (BackfillNext /\ Settle)]_vars => TypeOK'
  BY TypeStep, TypeStutter
<1> QED BY <1>1, <1>2, PTL DEF BackfillSpec

(***************************************************************************)
(* Verified rows hold official values.  The invariant is not inductive by  *)
(* itself: while verifySymbolMinutes runs it works with rows it read       *)
(* before, and marks only after the loop.                                  *)
(***************************************************************************)
\* Outside the loop of verifySymbolMinutes nothing is to be visited or marked.
LoopOnly ==
  exec.phase \notin {"verifying", "cascading"} => exec.left = {} /\ exec.toMark = {}

\* Only minutes of the answer are visited or marked.
OnlyAnswered == \A m \in exec.left \cup exec.toMark : exec.answer[m] # NoBar

\* A row that is verified and still to be visited is as it was read: whoever
\* bypasses the symbol lock cannot change it without removing the mark.
ReadStillValid == \A m \in exec.left : verifiedAt[m] > 0 => row[m] = exec.oldRow[m]

\* A minute to be marked has the answer as its last official value.
MarkConfirmed == \A m \in exec.toMark : confirmed[m] = exec.answer[m]

Backing == VerifiedBacked /\ LoopOnly /\ OnlyAnswered /\ ReadStillValid /\ MarkConfirmed

\* The idle and the returned execution have nothing left to visit or to mark.
LEMMA NothingLeft ==
  ASSUME exec' \in {ExecIdle, Finishing(TRUE), Finishing(FALSE), Verified}
  PROVE  exec'.left = {} /\ exec'.toMark = {}
<1>1. ExecIdle.left = {} /\ ExecIdle.toMark = {}
  BY DEF ExecIdle
<1>2. ASSUME NEW fail PROVE Finishing(fail).left = {} /\ Finishing(fail).toMark = {}
  BY <1>1 DEF Finishing, ExecIdle
<1>3. Verified.left = {} /\ Verified.toMark = {}
  BY <1>1 DEF Verified, ExecIdle
<1> QED BY <1>1, <1>2, <1>3, Zenon

\* A step that leaves the execution, the confirmed values and every verified row
\* and mark alone, except for removing marks, preserves the invariant.
LEMMA QuietStep ==
  ASSUME TypeOK, Backing, UNCHANGED <<exec, confirmed>>,
         \A m \in Minute : verifiedAt'[m] > 0 =>
            verifiedAt'[m] = verifiedAt[m] /\ row'[m] = row[m]
  PROVE  Backing'
BY DEF Backing, VerifiedBacked, LoopOnly, OnlyAnswered, ReadStillValid, MarkConfirmed,
       TypeOK, Exec

\* A step that ends the execution, or keeps its loop where it is, and leaves rows,
\* marks and confirmed values alone preserves the invariant.
LEMMA ReturnStep ==
  ASSUME TypeOK, Backing, UNCHANGED <<row, verifiedAt, confirmed>>,
         exec'.left = {} /\ exec'.toMark = {}
  PROVE  Backing'
BY DEF Backing, VerifiedBacked, LoopOnly, OnlyAnswered, ReadStillValid, MarkConfirmed

\* A step of the execution that leaves its loop, rows and marks alone preserves
\* the invariant.
LEMMA LoopStep ==
  ASSUME TypeOK, Backing, UNCHANGED <<row, verifiedAt, confirmed>>,
         exec'.phase \in {"verifying", "cascading"},
         exec.phase \in {"verifying", "cascading"},
         UNCHANGED <<exec.left, exec.toMark, exec.answer, exec.oldRow>>
  PROVE  Backing'
BY DEF Backing, VerifiedBacked, LoopOnly, OnlyAnswered, ReadStillValid, MarkConfirmed

\* Each step of the service, and of the backfill, preserves the invariant.
LEMMA BackingStep ==
  ASSUME TypeOK, Backing, Next \/ (BackfillNext /\ Settle)
  PROVE  Backing'
<1> USE DEF storeVars, execVars
<1>1. ASSUME NEW m \in Minute, NEW v \in Value, IngestAccept(m, v) PROVE Backing'
  BY <1>1, QuietStep DEF IngestAccept
<1>2. ASSUME NEW m \in Minute, NEW v \in Value, IngestConflict(m, v) PROVE Backing'
  BY <1>2, QuietStep DEF IngestConflict
<1>3. ASSUME IngestWrite PROVE Backing'
  BY <1>3, QuietStep DEF IngestWrite, UpsertMinute, TypeOK, StoreTypeOK
<1>4. ASSUME IngestCascade PROVE Backing'
  BY <1>4, QuietStep DEF IngestCascade
<1>5. ASSUME IngestReturn PROVE Backing'
  BY <1>5, QuietStep DEF IngestReturn
<1>6. ASSUME IngestFail PROVE Backing'
  BY <1>6, QuietStep DEF IngestFail
<1>7. ASSUME NEW t \in Task, RegisterTask(t) PROVE Backing'
  BY <1>7, QuietStep DEF RegisterTask
<1>8. ASSUME NEW t \in Task, LeaseTask(t) PROVE Backing'
  <2>1. exec'.left = {} /\ exec'.toMark = {}
    BY <1>8 DEF LeaseTask, ExecIdle
  <2> QED BY <1>8, <2>1, ReturnStep DEF LeaseTask
<1>9. ASSUME RequestOfficial PROVE Backing'
  <2>1. exec'.left = {} /\ exec'.toMark = {}
    BY <1>9 DEF RequestOfficial, Backing, LoopOnly, TypeOK, Exec
  <2> QED BY <1>9, <2>1, ReturnStep DEF RequestOfficial
<1>10. ASSUME AnswerOfficial PROVE Backing'
  <2>1. exec'.left = {} /\ exec'.toMark = {}
    BY <1>10 DEF AnswerOfficial, Backing, LoopOnly, TypeOK, Exec, Finishing, ExecIdle
  <2> QED BY <1>10, <2>1, ReturnStep DEF AnswerOfficial
<1>11. ASSUME VerifyBegin PROVE Backing'
  <2>1. CASE latest > exec.generation
    BY <1>11, <2>1, NothingLeft, ReturnStep DEF VerifyBegin
  <2>2. CASE ~(latest > exec.generation)
    <3>1. exec' = [exec EXCEPT !.phase = "verifying", !.oldRow = row,
                               !.oldMark = verifiedAt, !.left = Answered]
      BY <1>11, <2>2 DEF VerifyBegin
    <3>2. /\ exec'.phase = "verifying" /\ exec'.oldRow = row /\ exec'.left = Answered
          /\ exec'.toMark = {} /\ exec'.answer = exec.answer
      BY <1>11, <3>1 DEF VerifyBegin, Backing, LoopOnly, TypeOK, Exec
    <3>3. UNCHANGED <<row, verifiedAt, confirmed>>
      BY <1>11 DEF VerifyBegin
    <3> QED BY <3>2, <3>3 DEF Backing, VerifiedBacked, LoopOnly, OnlyAnswered,
                              ReadStillValid, MarkConfirmed, Answered
  <2> QED BY <2>1, <2>2
<1>12. ASSUME VerifyStale PROVE Backing'
  BY <1>12, NothingLeft, ReturnStep DEF VerifyStale
<1>13. ASSUME VerifySame PROVE Backing'
  <2>1. PICK m \in Minute :
          /\ m \in exec.left /\ exec.oldRow[m] = exec.answer[m]
          /\ exec' = [exec EXCEPT !.left = @ \ {m},
                        !.toMark = IF exec.oldMark[m] = 0 THEN @ \cup {m} ELSE @]
          /\ confirmed' = [confirmed EXCEPT ![m] = exec.answer[m]]
    BY <1>13 DEF VerifySame, NextBar
  <2>2. /\ exec'.phase = "verifying" /\ exec'.left = exec.left \ {m}
        /\ exec'.toMark \subseteq exec.toMark \cup {m}
        /\ exec'.answer = exec.answer /\ exec'.oldRow = exec.oldRow
    BY <1>13, <2>1 DEF VerifySame, TypeOK, Exec
  <2>3. /\ UNCHANGED <<row, verifiedAt>>
        /\ confirmed \in [Minute -> Value \cup {NoBar}]
        /\ exec.left \subseteq Minute /\ exec.toMark \subseteq Minute
    BY <1>13 DEF VerifySame, TypeOK, Answer, Exec
  <2>4. VerifiedBacked'
    BY <2>1, <2>3 DEF Backing, VerifiedBacked, ReadStillValid
  <2>5. MarkConfirmed'
    BY <2>1, <2>2, <2>3 DEF Backing, MarkConfirmed
  <2> QED BY <2>1, <2>2, <2>3, <2>4, <2>5
          DEF Backing, LoopOnly, OnlyAnswered, ReadStillValid
<1>14. ASSUME VerifyRevise PROVE Backing'
  <2>1. PICK m \in Minute :
          /\ m \in exec.left
          /\ UpsertMinuteRevision(m, exec.answer[m], exec.generation)
          /\ exec' = [exec EXCEPT !.phase = "cascading", !.left = @ \ {m},
                        !.toMark = @ \cup {m}, !.todo = Targets(m, TRUE)]
          /\ confirmed' = [confirmed EXCEPT ![m] = exec.answer[m]]
    BY <1>14 DEF VerifyRevise, NextBar
  <2>2. /\ exec'.phase = "cascading" /\ exec'.left = exec.left \ {m}
        /\ exec'.toMark = exec.toMark \cup {m}
        /\ exec'.answer = exec.answer /\ exec'.oldRow = exec.oldRow
    BY <2>1 DEF TypeOK, Exec
  <2>3. /\ UNCHANGED verifiedAt
        /\ confirmed \in [Minute -> Value \cup {NoBar}]
        /\ row \in [Minute -> Value \cup {NoBar}]
        /\ row' = [row EXCEPT ![m] = exec.answer[m]]
        /\ exec.left \subseteq Minute /\ exec.toMark \subseteq Minute
    BY <1>14, <2>1 DEF VerifyRevise, UpsertMinuteRevision, TypeOK, StoreTypeOK, Answer, Exec
  <2>4. VerifiedBacked'
    BY <2>1, <2>3 DEF Backing, VerifiedBacked, OnlyAnswered
  <2>5. MarkConfirmed'
    BY <2>1, <2>2, <2>3 DEF Backing, MarkConfirmed
  <2> QED BY <2>1, <2>2, <2>3, <2>4, <2>5
          DEF Backing, LoopOnly, OnlyAnswered, ReadStillValid
<1>15. ASSUME RepairCascade PROVE Backing'
  <2>1. /\ exec.phase = "cascading" /\ exec'.phase = "cascading"
        /\ UNCHANGED <<exec.left, exec.toMark, exec.answer, exec.oldRow>>
    BY <1>15 DEF RepairCascade, TypeOK, Exec
  <2> QED BY <1>15, <2>1, LoopStep DEF RepairCascade
<1>16. ASSUME CascadeDone PROVE Backing'
  <2>1. /\ exec.phase = "cascading" /\ exec'.phase = "verifying"
        /\ UNCHANGED <<exec.left, exec.toMark, exec.answer, exec.oldRow>>
    BY <1>16 DEF CascadeDone, TypeOK, Exec
  <2> QED BY <1>16, <2>1, LoopStep DEF CascadeDone
<1>17. ASSUME VerifyMark PROVE Backing'
  <2>1. exec' \in {Verified, Finishing(TRUE), Finishing(FALSE)}
    BY <1>17, Zenon DEF VerifyMark
  <2>2. exec'.left = {} /\ exec'.toMark = {}
    BY <2>1, NothingLeft
  <2>3. PICK M : /\ M \subseteq Unchanged(exec.toMark, exec.answer)
                 /\ MarkVerified(M, exec.generation)
    BY <1>17 DEF VerifyMark
  <2>4. UNCHANGED <<row, confirmed>>
    BY <1>17 DEF VerifyMark
  <2>5. \A m \in M : row[m] # NoBar /\ row[m] = confirmed[m]
    BY <2>3 DEF Unchanged, Backing, OnlyAnswered, MarkConfirmed
  <2>6. VerifiedBacked'
    BY <2>3, <2>4, <2>5 DEF MarkVerified, Backing, VerifiedBacked, TypeOK, StoreTypeOK
  <2> QED BY <2>2, <2>6 DEF Backing, LoopOnly, OnlyAnswered, ReadStillValid, MarkConfirmed
<1>18. ASSUME ReplayBegin PROVE Backing'
  <2>1. exec'.left = {} /\ exec'.toMark = {}
    BY <1>18 DEF ReplayBegin, Backing, LoopOnly, TypeOK, Exec
  <2> QED BY <1>18, <2>1, ReturnStep DEF ReplayBegin
<1>19. ASSUME ReplayLevel PROVE Backing'
  <2>1. exec'.left = {} /\ exec'.toMark = {}
    BY <1>19 DEF ReplayLevel, Backing, LoopOnly, TypeOK, Exec
  <2> QED BY <1>19, <2>1, ReturnStep DEF ReplayLevel
<1>20. ASSUME ReplayDone PROVE Backing'
  BY <1>20, NothingLeft, ReturnStep DEF ReplayDone
<1>21. ASSUME FinishTask PROVE Backing'
  BY <1>21, NothingLeft, ReturnStep DEF FinishTask
<1>22. ASSUME FinishLost PROVE Backing'
  BY <1>22, NothingLeft, ReturnStep DEF FinishLost
<1>23. ASSUME RepairFail PROVE Backing'
  BY <1>23, NothingLeft, ReturnStep DEF RepairFail
<1>24. ASSUME NEW m \in Minute, NEW v \in Value, OfficialRevise(m, v) PROVE Backing'
  BY <1>24, QuietStep DEF OfficialRevise
<1>25. ASSUME Tick PROVE Backing'
  BY <1>25, QuietStep DEF Tick
<1>26. ASSUME ClockStep PROVE Backing'
  BY <1>26, QuietStep DEF ClockStep
<1>27. ASSUME Crash PROVE Backing'
  BY <1>27, NothingLeft, ReturnStep DEF Crash
<1>28. ASSUME NEW M \in SUBSET Minute, BackfillDelete(M) PROVE Backing'
  BY <1>28, QuietStep DEF BackfillDelete, DeleteMinutes, TypeOK, StoreTypeOK
<1>29. ASSUME NEW m \in Minute, NEW v \in Value, BackfillWrite(m, v) PROVE Backing'
  BY <1>29, QuietStep DEF BackfillWrite, UpsertMinute, TypeOK, StoreTypeOK
<1>30. CASE Next
  BY <1>30, <1>1, <1>2, <1>3, <1>4, <1>5, <1>6, <1>7, <1>8, <1>9, <1>10, <1>11, <1>12,
     <1>13, <1>14, <1>15, <1>16, <1>17, <1>18, <1>19, <1>20, <1>21, <1>22, <1>23,
     <1>24, <1>25, <1>26, <1>27
     DEF Next, IngestNext, GuardianNext, ExecStep, EnvNext
<1>31. CASE BackfillNext /\ Settle
  BY <1>31, <1>28, <1>29 DEF BackfillNext
<1> QED BY <1>30, <1>31

\* A stuttering step changes nothing the invariant reads.
LEMMA BackingStutter ==
  ASSUME Backing, UNCHANGED vars
  PROVE  Backing'
BY DEF Backing, VerifiedBacked, LoopOnly, OnlyAnswered, ReadStillValid, MarkConfirmed, vars

\* At the start no minute is verified and no execution runs.
LEMMA BackingInit ==
  ASSUME Init
  PROVE  Backing
BY DEF Init, StoreInit, Backing, VerifiedBacked, LoopOnly, OnlyAnswered, ReadStillValid,
       MarkConfirmed, ExecIdle

\* VerifyFinalBars never leaves a mark on values no official answer gave: not
\* when its steps interleave with finals, failures and crashes, and not when a
\* corporate-action backfill deletes and rewrites rows without the symbol lock.
THEOREM VerifiedAlwaysBacked == BackfillSpec => []VerifiedBacked
<1>1. Init => TypeOK /\ Backing
  BY TypeInit, BackingInit
<1>2. TypeOK /\ Backing /\ [Next \/ (BackfillNext /\ Settle)]_vars => (TypeOK /\ Backing)'
  BY TypeStep, TypeStutter, BackingStep, BackingStutter
<1>3. Backing => VerifiedBacked
  BY DEF Backing
<1> QED BY <1>1, <1>2, <1>3, PTL DEF BackfillSpec

\* Without a backfill the specification is the same with fewer steps.
LEMMA SpecInBackfillSpec == Spec => BackfillSpec
<1>1. [Next]_vars => [Next \/ (BackfillNext /\ Settle)]_vars
  OBVIOUS
<1> QED BY <1>1, PTL DEF Spec, BackfillSpec

\* A verified row changes only by a revision whose request is not older than its
\* mark, to the answer of that request, and no mark is ever lowered or removed.
THEOREM VerifiedRowsProtected == Spec => VerifiedProtected
<1> DEFINE Protected ==
      \A m \in Minute : verifiedAt[m] > 0 =>
        /\ verifiedAt'[m] >= verifiedAt[m]
        /\ row'[m] # row[m] => /\ exec.phase = "verifying"
                               /\ exec.generation >= verifiedAt[m]
                               /\ row'[m] = exec.answer[m]
<1>1. ASSUME TypeOK, UNCHANGED <<row, verifiedAt>> PROVE Protected
  BY <1>1 DEF TypeOK, StoreTypeOK
<1>2. ASSUME TypeOK, IngestWrite PROVE Protected
  BY <1>2 DEF IngestWrite, UpsertMinute, TypeOK, StoreTypeOK
<1>3. ASSUME TypeOK, VerifyRevise PROVE Protected
  <2>1. PICK m \in Minute : UpsertMinuteRevision(m, exec.answer[m], exec.generation)
    BY <1>3 DEF VerifyRevise
  <2>2. exec.generation \in Nat
    BY <1>3, BoundAssumption DEF TypeOK, Exec
  <2> QED BY <1>3, <2>1, <2>2 DEF VerifyRevise, UpsertMinuteRevision, TypeOK, StoreTypeOK
<1>4. ASSUME TypeOK, VerifyMark PROVE Protected
  <2>1. PICK M : MarkVerified(M, exec.generation)
    BY <1>4 DEF VerifyMark
  <2>2. exec.generation \in Nat
    BY <1>4, BoundAssumption DEF TypeOK, Exec
  <2> QED BY <1>4, <2>1, <2>2 DEF VerifyMark, MarkVerified, TypeOK, StoreTypeOK
<1>5. ASSUME TypeOK, Next PROVE Protected
  <2>1. \/ UNCHANGED <<row, verifiedAt>> \/ IngestWrite \/ VerifyRevise \/ VerifyMark
    BY <1>5 DEF Next, IngestNext, GuardianNext, ExecStep, EnvNext, storeVars, IngestAccept,
       IngestConflict, IngestCascade, IngestReturn, IngestFail, RegisterTask, LeaseTask,
       FinishLost, RepairFail, RequestOfficial, AnswerOfficial, VerifyBegin, VerifyStale,
       VerifySame, RepairCascade, CascadeDone, ReplayBegin, ReplayLevel, ReplayDone,
       FinishTask, OfficialRevise, Tick, ClockStep, Crash
  <2> QED BY <1>1, <1>2, <1>3, <1>4, <1>5, <2>1
<1>6. TypeOK /\ [Next]_vars => [Protected]_vars
  BY <1>5
<1>7. Spec => []TypeOK
  BY SpecInBackfillSpec, TypeCorrect, PTL
<1> QED BY <1>6, <1>7, PTL DEF Spec, VerifiedProtected

(***************************************************************************)
(* No stale rollup without work, and an acknowledged replay is complete.   *)
(* Both follow a task from its lease to its end: what it was asked for and *)
(* answered, what its loop has marked, which buckets its cascade still has *)
(* to visit, and which ones its replay is done with.                       *)
(***************************************************************************)
\* The task of the execution is held, and counted as an attempt.
Held ==
  /\ exec.phase = "idle" => exec.task = NoTask
  /\ exec.phase # "idle" => /\ exec.task \in Task
                            /\ task[exec.task].status = "running"
                            /\ task[exec.task].attempted
  /\ exec.phase \in {"leased", "requested"} => ~exec.failed

\* The symbol lock keeps ingest and repair apart; a final being ingested belongs
\* to an unverified minute, and so do the buckets it may rebuild.
LockHeld ==
  /\ exec.phase \in {"verifying", "cascading", "replaying"} => symbolLock = "rest"
  /\ ws.phase # "idle" => /\ symbolLock = "ws"
                          /\ ws.minute \in Minute /\ ws.value \in Value
                          /\ verifiedAt[ws.minute] = 0
  /\ ws.phase = "idle" => ws.todo = {}
  /\ \A c \in ws.todo : ws.minute \in Span[c]

\* A repair without an error was answered in full.
Asked ==
  exec.phase \in {"answered", "verifying", "cascading", "verified", "replaying"} =>
    /\ Answered \subseteq TaskMinutes[exec.task]
    /\ ~exec.failed => Answered = TaskMinutes[exec.task]

\* Only the two cascades have a queue, of buckets above the minutes of the task.
Queued ==
  /\ exec.todo # {} => exec.phase \in {"cascading", "replaying"}
  /\ \A c \in exec.todo : TaskMinutes[exec.task] \cap Span[c] # {}

\* Rows do not go away: a derived row stays complete, a settled bucket verified.
Solid ==
  /\ \A b \in Bucket : roll[b] # NoBar => SourceBarsComplete(b)
  /\ \A b \in settled : AllVerified(b) /\ SourceBarsComplete(b)

\* The loop has marked, or will mark, every answered minute.
Marking ==
  /\ exec.phase \in {"requested", "answered", "verifying", "cascading"} =>
       exec.generation > 0
  /\ exec.phase \in {"verifying", "cascading"} =>
       /\ \A m \in Minute : exec.oldMark[m] > 0 => verifiedAt[m] > 0
       /\ \A m \in Answered : m \in exec.left \cup exec.toMark \/ verifiedAt[m] > 0

\* The replay starts when all minutes of the task are verified.
Marked ==
  /\ exec.phase \in {"verified", "replaying"} => exec.replay
  /\ (/\ exec.phase \in {"verified", "replaying", "finishing"}
      /\ exec.replay /\ ~exec.failed)
       => \A m \in TaskMinutes[exec.task] : verifiedAt[m] > 0

\* The buckets a replay of the task is to rebuild.
Domain == {b \in Bucket : AllVerified(b) /\ TaskMinutes[exec.task] \cap Span[b] # {}}

\* C is what the replay is done with: closed under sources, correct and not queued.
\* Whatever else it is to rebuild is queued, above something not done, or incomplete.
DoneWith(C) ==
  /\ \A b \in C : /\ Correct(b) /\ b \notin exec.todo
                  /\ Source[b] \cap Domain \subseteq C
  /\ \A b \in Domain \ C : \/ b \in exec.todo \/ ~SourceBarsComplete(b)
                           \/ Source[b] \cap (Domain \ C) # {}

Replaying ==
  /\ (exec.phase = "replaying" /\ ~exec.failed) => \E C \in SUBSET Domain : DoneWith(C)
  /\ (exec.phase = "finishing" /\ exec.replay /\ ~exec.failed) =>
       \A b \in Domain : Correct(b)

\* A durable task that will be replayed covers a minute of the bucket.
Covers(t, b) ==
  /\ TaskMinutes[t] \cap Span[b] # {}
  /\ task[t].status \in {"due", "running"}
  /\ task[t].attempted \/ task[t].force

\* Another task covers a stale bucket, or the execution will rebuild it or fail.
Worked ==
  \A b \in settled : ~Correct(b) =>
    \/ \E t \in Task : t # exec.task /\ Covers(t, b)
    \/ /\ exec.phase # "idle" /\ TaskMinutes[exec.task] \cap Span[b] # {}
       /\ exec.replay \/ exec.failed \/ b \in exec.todo

WorkInv == Held /\ LockHeld /\ Asked /\ Queued /\ Solid /\ Marking /\ Marked
             /\ Replaying /\ Worked

(***************************************************************************)
(* Derived rows and their sources.                                         *)
(***************************************************************************)
\* A frame is not built from itself.
LEMMA NotOwnSource ==
  ASSUME NEW b \in Bucket
  PROVE  b \notin Source[b]
<1>1. \E a \in {b} : Source[a] \cap {b} = {}
  BY SourceAssumption, ZenonT(30)
<1> QED BY <1>1

\* The minutes below a source are below the bucket.
LEMMA SpanOfSource ==
  ASSUME NEW b \in Bucket
  PROVE  /\ \A c \in Source[b] : c \in Minute \/ c \in Bucket
         /\ \A m \in Source[b] \cap Minute : m \in Span[b]
         /\ \A c \in Source[b] \cap Bucket : Span[c] \subseteq Span[b]
         /\ \A m \in Span[b] : m \in Source[b] \/ \E c \in Source[b] \cap Bucket : m \in Span[c]
BY SourceAssumption DEF Cell

\* A bucket with unchanged sources is complete, and correct, as it was.
LEMMA SameSources ==
  ASSUME NEW b \in Bucket, \A c \in Source[b] : Stored(c)' = Stored(c)
  PROVE  /\ SourceBarsComplete(b)' <=> SourceBarsComplete(b)
         /\ RollupBars(b)' = RollupBars(b)
         /\ roll'[b] = roll[b] => (Correct(b)' <=> Correct(b))
<1>1. SourceBarsComplete(b)' <=> SourceBarsComplete(b)
  BY DEF SourceBarsComplete
<1>2. [c \in Source[b] |-> Stored(c)]' = [c \in Source[b] |-> Stored(c)]
  OBVIOUS
<1>3. RollupBars(b)' = RollupBars(b)
  BY <1>2 DEF RollupBars
<1> QED BY <1>1, <1>3 DEF Correct

\* What UpsertRollups makes of complete buckets.
LEMMA Rebuilt ==
  ASSUME TypeOK, Solid, NEW B \in SUBSET Bucket, \A b \in B : SourceBarsComplete(b),
         UpsertRollups(B), UNCHANGED row
  PROVE  /\ \A c \in Cell : Stored(c) # NoBar => Stored(c)' # NoBar
         /\ \A c \in Cell : c \notin B => Stored(c)' = Stored(c)
         /\ \A b \in Bucket : b \notin B => roll'[b] = roll[b]
         /\ \A b \in Bucket : SourceBarsComplete(b) => SourceBarsComplete(b)'
         /\ \A b \in Bucket : Source[b] \cap B = {} =>
              /\ SourceBarsComplete(b)' <=> SourceBarsComplete(b)
              /\ b \in B => Correct(b)'
              /\ b \notin B => (Correct(b)' <=> Correct(b))
         /\ \A b \in Bucket : roll'[b] # NoBar => SourceBarsComplete(b)'
<1>1. \A b \in B : RollupBars(b) \in RollValue[b]
  BY RollupBarsType DEF TypeOK
<1>2. \A b \in B : roll'[b] = RollupBars(b)
  BY DEF UpsertRollups
<1>3. \A b \in Bucket : b \notin B => roll'[b] = roll[b]
  BY DEF UpsertRollups
<1>4. \A b \in B : roll'[b] # NoBar
  <2> SUFFICES ASSUME NEW b \in B PROVE roll'[b] # NoBar
    OBVIOUS
  <2>1. ValueOf(b) = RollValue[b]
    BY MinuteAssumption DEF ValueOf
  <2>2. b \in Cell
    BY DEF Cell
  <2> QED BY <1>1, <1>2, <2>1, <2>2, NoBarAssumption
<1>5. \A c \in Cell : c \notin B => Stored(c)' = Stored(c)
  BY <1>3 DEF Stored, Cell
<1>6. \A c \in Cell : Stored(c) # NoBar => Stored(c)' # NoBar
  <2> SUFFICES ASSUME NEW c \in Cell, Stored(c) # NoBar PROVE Stored(c)' # NoBar
    OBVIOUS
  <2>1. CASE c \notin B
    BY <2>1, <1>5
  <2>2. CASE c \in B
    BY <2>2, <1>4, MinuteAssumption DEF Stored
  <2> QED BY <2>1, <2>2
<1>7. \A b \in Bucket : Source[b] \subseteq Cell
  BY SourceAssumption
<1>8. \A b \in Bucket : SourceBarsComplete(b) => SourceBarsComplete(b)'
  BY <1>6, <1>7 DEF SourceBarsComplete
<1>9. ASSUME NEW b \in Bucket, Source[b] \cap B = {}
      PROVE  /\ SourceBarsComplete(b)' <=> SourceBarsComplete(b)
             /\ b \in B => Correct(b)'
             /\ b \notin B => (Correct(b)' <=> Correct(b))
  <2>1. \A c \in Source[b] : Stored(c)' = Stored(c)
    BY <1>5, <1>7, <1>9
  <2>2. /\ SourceBarsComplete(b)' <=> SourceBarsComplete(b)
        /\ RollupBars(b)' = RollupBars(b)
        /\ roll'[b] = roll[b] => (Correct(b)' <=> Correct(b))
    BY <2>1, SameSources
  <2>3. b \in B => Correct(b)'
    BY <1>2, <2>2 DEF Correct
  <2> QED BY <1>3, <2>2, <2>3
<1>10. \A b \in Bucket : roll'[b] # NoBar => SourceBarsComplete(b)'
  BY <1>3, <1>8 DEF Solid
<1> QED BY <1>3, <1>5, <1>6, <1>8, <1>9, <1>10

\* A write of a minute.
LEMMA Rewritten ==
  ASSUME TypeOK, Solid, NEW m \in Minute, NEW v, v # NoBar,
         row' = [row EXCEPT ![m] = v], UNCHANGED roll
  PROVE  /\ \A b \in Bucket : SourceBarsComplete(b) => SourceBarsComplete(b)'
         /\ \A b \in Bucket : m \notin Source[b] =>
              /\ SourceBarsComplete(b)' <=> SourceBarsComplete(b)
              /\ Correct(b)' <=> Correct(b)
         /\ \A b \in Bucket : roll'[b] # NoBar => SourceBarsComplete(b)'
<1>1. row'[m] = v /\ \A k \in Minute : k # m => row'[k] = row[k]
  BY DEF TypeOK, StoreTypeOK
<1>2. \A c \in Cell : c # m => Stored(c)' = Stored(c)
  BY <1>1 DEF Stored, Cell
<1>3. Stored(m)' # NoBar
  BY <1>1 DEF Stored
<1>4. \A b \in Bucket : Source[b] \subseteq Cell
  BY SourceAssumption
<1>5. \A b \in Bucket : SourceBarsComplete(b) => SourceBarsComplete(b)'
  BY <1>2, <1>3, <1>4 DEF SourceBarsComplete
<1>6. ASSUME NEW b \in Bucket, m \notin Source[b]
      PROVE  /\ SourceBarsComplete(b)' <=> SourceBarsComplete(b)
             /\ Correct(b)' <=> Correct(b)
  <2>1. \A c \in Source[b] : Stored(c)' = Stored(c)
    BY <1>2, <1>4, <1>6
  <2> QED BY <2>1, SameSources
<1>7. \A b \in Bucket : roll'[b] # NoBar => SourceBarsComplete(b)'
  BY <1>5 DEF Solid
<1> QED BY <1>5, <1>6, <1>7

\* What is new among the settled buckets is correct.
LEMMA SettledIsCorrect ==
  ASSUME Settle, NEW b \in settled'
  PROVE  b \in settled \/ (b \in Bucket /\ AllVerified(b)' /\ SourceBarsComplete(b)' /\ Correct(b)')
BY DEF Settle

\* Settled buckets stay complete and verified when rows and marks stay.
LEMMA SolidKept ==
  ASSUME TypeOK, Solid, Settle,
         \A b \in Bucket : SourceBarsComplete(b) => SourceBarsComplete(b)',
         \A b \in Bucket : roll'[b] # NoBar => SourceBarsComplete(b)',
         \A m \in Minute : verifiedAt[m] > 0 => verifiedAt'[m] > 0
  PROVE  Solid'
<1>1. \A b \in Bucket : AllVerified(b) => AllVerified(b)'
  BY SourceAssumption DEF AllVerified
<1>2. settled \subseteq Bucket
  BY DEF TypeOK
<1>3. ASSUME NEW b \in settled' PROVE AllVerified(b)' /\ SourceBarsComplete(b)'
  BY <1>1, <1>2, SettledIsCorrect DEF Solid
<1> QED BY <1>3 DEF Solid

\* A step that leaves rows and marks alone leaves their judgement alone.
LEMMA StoreSame ==
  ASSUME TypeOK, Solid, Settle, UNCHANGED <<row, verifiedAt, roll>>
  PROVE  /\ Solid'
         /\ \A b \in Bucket : /\ Correct(b)' <=> Correct(b)
                              /\ SourceBarsComplete(b)' <=> SourceBarsComplete(b)
                              /\ AllVerified(b)' <=> AllVerified(b)
         /\ \A b \in settled' : ~Correct(b)' => b \in settled /\ ~Correct(b)
<1>1. \A c : Stored(c)' = Stored(c)
  BY DEF Stored
<1>2. \A b \in Bucket : /\ Correct(b)' <=> Correct(b)
                        /\ SourceBarsComplete(b)' <=> SourceBarsComplete(b)
  BY <1>1, SameSources
<1>3. \A b \in Bucket : AllVerified(b)' <=> AllVerified(b)
  BY DEF AllVerified
<1>4. Solid'
  BY <1>2, SolidKept DEF Solid
<1>5. \A b \in settled' : ~Correct(b)' => b \in settled /\ ~Correct(b)
  BY <1>2, SettledIsCorrect DEF TypeOK
<1> QED BY <1>2, <1>3, <1>4, <1>5

\* The locals of an execution that returns.
LEMMA FinishingFields ==
  ASSUME TypeOK, NEW fail \in BOOLEAN
  PROVE  /\ Finishing(fail).task = exec.task /\ Finishing(fail).phase = "finishing"
         /\ Finishing(fail).replay = exec.replay /\ Finishing(fail).todo = {}
         /\ Finishing(fail).failed <=> (exec.failed \/ fail)
BY DEF Finishing, ExecIdle

LEMMA VerifiedFields ==
  /\ Verified.task = exec.task /\ Verified.phase = "verified"
  /\ Verified.replay = TRUE /\ Verified.todo = {}
  /\ Verified.failed = exec.failed /\ Verified.answer = exec.answer
BY DEF Verified, ExecIdle

LEMMA IdleFields ==
  /\ ExecIdle.task = NoTask /\ ExecIdle.phase = "idle" /\ ExecIdle.todo = {}
  /\ ExecIdle.failed = FALSE
BY DEF ExecIdle

(***************************************************************************)
(* Steps that leave the execution alone.                                   *)
(***************************************************************************)
\* Existing task rows stay as they are: Held is about the one being executed.
LEMMA HeldKept ==
  ASSUME Held, UNCHANGED exec,
         \A t \in Task : task[t].status # "absent" => task'[t] = task[t]
  PROVE  Held'
BY DEF Held

\* The replay's account of the buckets it is to rebuild, when they stay as they are.
LEMMA ReplayingKept ==
  ASSUME Replaying, UNCHANGED <<exec, verifiedAt>>,
         \A b \in Domain : /\ Correct(b)' <=> Correct(b)
                           /\ SourceBarsComplete(b)' <=> SourceBarsComplete(b)
  PROVE  Replaying'
<1>1. Domain' = Domain
  BY DEF Domain, AllVerified
<1>2. \A C \in SUBSET Domain : DoneWith(C) => DoneWith(C)'
  BY <1>1 DEF DoneWith
<1>3. (exec.phase = "replaying" /\ ~exec.failed) => \E C \in SUBSET Domain : DoneWith(C)'
  BY <1>2 DEF Replaying
<1>4. (exec.phase = "finishing" /\ exec.replay /\ ~exec.failed) =>
        \A b \in Domain : Correct(b)'
  BY DEF Replaying
<1> QED BY <1>1, <1>3, <1>4 DEF Replaying

LEMMA WorkedKept ==
  ASSUME Worked, UNCHANGED exec,
         \A t \in Task : task[t].status # "absent" => task'[t] = task[t],
         \A b \in settled' : ~Correct(b)' => b \in settled /\ ~Correct(b)
  PROVE  Worked'
BY DEF Worked, Covers

LEMMA QuietWork ==
  ASSUME TypeOK, WorkInv, Settle, UNCHANGED <<row, verifiedAt, roll, exec>>,
         \A t \in Task : task[t].status # "absent" => task'[t] = task[t],
         LockHeld'
  PROVE  WorkInv'
<1>1. /\ Solid'
      /\ \A b \in Bucket : /\ Correct(b)' <=> Correct(b)
                           /\ SourceBarsComplete(b)' <=> SourceBarsComplete(b)
                           /\ AllVerified(b)' <=> AllVerified(b)
      /\ \A b \in settled' : ~Correct(b)' => b \in settled /\ ~Correct(b)
  BY StoreSame DEF WorkInv
<1>2. Held' /\ Worked'
  BY <1>1, HeldKept, WorkedKept DEF WorkInv
<1>3. Replaying'
  BY <1>1, ReplayingKept DEF WorkInv, Domain
<1>4. Asked' /\ Queued' /\ Marking' /\ Marked'
  BY DEF WorkInv, Asked, Queued, Marking, Marked, Answered
<1> QED BY <1>1, <1>2, <1>3, <1>4 DEF WorkInv

LEMMA EnqueueKeepsRows ==
  ASSUME TypeOK, NEW t \in Task, Enqueue(t)
  PROVE  \A s \in Task : task[s].status # "absent" => task'[s] = task[s]
BY DEF Enqueue, TypeOK

\* Ingest beside an execution: it rebuilds only buckets above an unverified minute.
LEMMA IngestApart ==
  ASSUME TypeOK, WorkInv, ws.phase # "idle", Settle, UNCHANGED <<verifiedAt, exec, task>>,
         \A b \in Bucket : SourceBarsComplete(b) => SourceBarsComplete(b)',
         \A b \in Bucket : roll'[b] # NoBar => SourceBarsComplete(b)',
         \A b \in Bucket : ws.minute \notin Span[b] =>
              /\ SourceBarsComplete(b)' <=> SourceBarsComplete(b)
              /\ Correct(b)' <=> Correct(b),
         LockHeld'
  PROVE  WorkInv'
<1>1. \A b \in Bucket : AllVerified(b) => ws.minute \notin Span[b]
  BY DEF WorkInv, LockHeld, AllVerified
<1>2. Solid'
  BY SolidKept DEF WorkInv
<1>3. \A b \in settled' : ~Correct(b)' => b \in settled /\ ~Correct(b)
  BY <1>1, SettledIsCorrect DEF WorkInv, Solid, TypeOK
<1>4. Held' /\ Worked'
  BY <1>3, HeldKept, WorkedKept DEF WorkInv
<1>5. Replaying'
  BY <1>1, ReplayingKept DEF WorkInv, Domain
<1>6. Asked' /\ Queued' /\ Marking' /\ Marked'
  BY DEF WorkInv, Asked, Queued, Marking, Marked, Answered
<1> QED BY <1>2, <1>4, <1>5, <1>6 DEF WorkInv

LEMMA IngestWork ==
  ASSUME TypeOK, WorkInv, IngestNext, Settle
  PROVE  WorkInv'
<1> USE DEF storeVars, execVars
<1>0. LockHeld
  BY DEF WorkInv
<1>1. ASSUME NEW m \in Minute, NEW v \in Value, IngestAccept(m, v) PROVE WorkInv'
  <2>1. LockHeld'
    BY <1>1, <1>0 DEF IngestAccept, LockHeld
  <2> QED BY <1>1, <2>1, QuietWork DEF IngestAccept
<1>2. ASSUME NEW m \in Minute, NEW v \in Value, IngestConflict(m, v) PROVE WorkInv'
  <2>1. LockHeld'
    BY <1>2, <1>0 DEF IngestConflict, LockHeld
  <2>2. \A t \in Task : task[t].status # "absent" => task'[t] = task[t]
    BY <1>2, EnqueueKeepsRows DEF IngestConflict
  <2> QED BY <1>2, <2>1, <2>2, QuietWork DEF IngestConflict
<1>3. ASSUME IngestWrite PROVE WorkInv'
  <2>1. /\ ws.phase = "accepted" /\ ws.minute \in Minute /\ ws.value \in Value
        /\ verifiedAt[ws.minute] = 0 /\ symbolLock = "ws"
    BY <1>3, <1>0 DEF IngestWrite, LockHeld
  <2>2. row' = [row EXCEPT ![ws.minute] = ws.value] /\ ws.value # NoBar
    BY <1>3, <2>1, NoBarAssumption DEF IngestWrite, UpsertMinute, Cell, ValueOf
  <2>3. /\ \A b \in Bucket : SourceBarsComplete(b) => SourceBarsComplete(b)'
        /\ \A b \in Bucket : ws.minute \notin Source[b] =>
             /\ SourceBarsComplete(b)' <=> SourceBarsComplete(b)
             /\ Correct(b)' <=> Correct(b)
        /\ \A b \in Bucket : roll'[b] # NoBar => SourceBarsComplete(b)'
    BY <1>3, <2>1, <2>2, Rewritten DEF IngestWrite, WorkInv
  <2>4. \A b \in Bucket : ws.minute \in Source[b] => ws.minute \in Span[b]
    BY <2>1, SpanOfSource
  <2>5. /\ ws'.phase = "cascading" /\ ws'.minute = ws.minute /\ ws'.value = ws.value
        /\ ws'.todo = Targets(ws.minute, FALSE)
    BY <1>3 DEF IngestWrite, TypeOK, Ws
  <2>6. LockHeld'
    BY <1>3, <1>0, <2>1, <2>4, <2>5 DEF IngestWrite, LockHeld, Targets
  <2> QED BY <1>3, <2>1, <2>3, <2>4, <2>6, IngestApart DEF IngestWrite
<1>4. ASSUME IngestCascade PROVE WorkInv'
  <2>1. PICK c \in ws.todo :
          IF SourceBarsComplete(c)
            THEN /\ UpsertRollups({c})
                 /\ ws' = [ws EXCEPT !.todo = (@ \ {c}) \cup Targets(c, FALSE)]
            ELSE /\ ws' = [ws EXCEPT !.todo = @ \ {c}]
                 /\ UNCHANGED roll
    BY <1>4 DEF IngestCascade
  <2>2. c \in Bucket /\ ws.minute \in Span[c]
    BY <1>0 DEF TypeOK, Ws, LockHeld
  <2>3. /\ ws'.phase = ws.phase /\ ws'.minute = ws.minute /\ ws'.value = ws.value
        /\ ws'.todo \subseteq ws.todo \cup Targets(c, FALSE)
    BY <2>1, ZenonT(30) DEF TypeOK, Ws
  <2>4. \A b \in Bucket : c \in Source[b] => ws.minute \in Span[b]
    BY <2>2, SpanOfSource
  <2>5. \A b \in Targets(c, FALSE) : ws.minute \in Span[b]
    BY <2>4 DEF Targets
  <2>6. LockHeld'
    BY <1>4, <1>0, <2>3, <2>5 DEF IngestCascade, LockHeld
  <2>7. CASE SourceBarsComplete(c)
    <3>1. UpsertRollups({c}) /\ UNCHANGED row
      BY <1>4, <2>1, <2>7 DEF IngestCascade
    <3>2. {c} \in SUBSET Bucket /\ \A b \in {c} : SourceBarsComplete(b)
      BY <2>2, <2>7
    <3>3. /\ \A b \in Bucket : SourceBarsComplete(b) => SourceBarsComplete(b)'
          /\ \A b \in Bucket : Source[b] \cap {c} = {} =>
               /\ SourceBarsComplete(b)' <=> SourceBarsComplete(b)
               /\ b \notin {c} => (Correct(b)' <=> Correct(b))
          /\ \A b \in Bucket : roll'[b] # NoBar => SourceBarsComplete(b)'
      BY <3>1, <3>2, Rebuilt DEF WorkInv
    <3>4. \A b \in Bucket : ws.minute \notin Span[b] =>
              /\ SourceBarsComplete(b)' <=> SourceBarsComplete(b)
              /\ Correct(b)' <=> Correct(b)
      BY <2>2, <2>4, <3>3
    <3> QED BY <1>4, <2>6, <3>3, <3>4, IngestApart DEF IngestCascade
  <2>8. CASE ~SourceBarsComplete(c)
    BY <1>4, <2>1, <2>6, <2>8, QuietWork DEF IngestCascade
  <2> QED BY <2>7, <2>8
<1>5. ASSUME IngestReturn PROVE WorkInv'
  <2>1. LockHeld'
    BY <1>5, <1>0 DEF IngestReturn, LockHeld, WsIdle
  <2> QED BY <1>5, <2>1, QuietWork DEF IngestReturn
<1>6. ASSUME IngestFail PROVE WorkInv'
  <2>1. LockHeld'
    BY <1>6, <1>0 DEF IngestFail, LockHeld, WsIdle
  <2> QED BY <1>6, <2>1, QuietWork DEF IngestFail
<1> QED BY <1>1, <1>2, <1>3, <1>4, <1>5, <1>6 DEF IngestNext

LEMMA EnvironmentWork ==
  ASSUME TypeOK, WorkInv, Settle,
         \/ \E m \in Minute, v \in Value : OfficialRevise(m, v)
         \/ Tick \/ ClockStep \/ \E t \in Task : RegisterTask(t)
  PROVE  WorkInv'
<1> USE DEF storeVars, execVars
<1>1. UNCHANGED <<row, verifiedAt, roll, exec, ws, symbolLock>>
  BY DEF OfficialRevise, Tick, ClockStep, RegisterTask
<1>2. LockHeld'
  BY <1>1 DEF WorkInv, LockHeld
<1>3. \A t \in Task : task[t].status # "absent" => task'[t] = task[t]
  BY EnqueueKeepsRows DEF OfficialRevise, Tick, ClockStep, RegisterTask
<1> QED BY <1>1, <1>2, <1>3, QuietWork

(***************************************************************************)
(* Steps of the execution that leave the derived rows alone.               *)
(***************************************************************************)
\* A repair that fails leaves its task to be replayed.
LEMMA GivesUp ==
  ASSUME TypeOK, WorkInv, Settle, exec.phase # "idle", exec' = Finishing(TRUE),
         UNCHANGED <<row, verifiedAt, roll, task, ws>>,
         symbolLock = "ws" => symbolLock' = "ws"
  PROVE  WorkInv'
<1>1. /\ exec'.task = exec.task /\ exec'.phase = "finishing"
      /\ exec'.replay = exec.replay /\ exec'.todo = {} /\ exec'.failed
  BY FinishingFields
<1>2. /\ Solid'
      /\ \A b \in settled' : ~Correct(b)' => b \in settled /\ ~Correct(b)
  BY StoreSame DEF WorkInv
<1>3. Held' /\ LockHeld'
  BY <1>1 DEF WorkInv, Held, LockHeld
<1>4. Asked' /\ Queued' /\ Marking' /\ Marked' /\ Replaying'
  BY <1>1 DEF Asked, Queued, Marking, Marked, Replaying
<1>5. Worked'
  BY <1>1, <1>2 DEF WorkInv, Worked, Covers
<1> QED BY <1>2, <1>3, <1>4, <1>5 DEF WorkInv

\* An execution that is lost leaves its task running: it will be leased again.
LEMMA Drops ==
  ASSUME TypeOK, WorkInv, Settle, exec' = ExecIdle,
         UNCHANGED <<row, verifiedAt, roll, task>>, LockHeld'
  PROVE  WorkInv'
<1>1. exec'.task = NoTask /\ exec'.phase = "idle" /\ exec'.todo = {}
  BY IdleFields
<1>2. /\ Solid'
      /\ \A b \in settled' : ~Correct(b)' => b \in settled /\ ~Correct(b)
  BY StoreSame DEF WorkInv
<1>3. Held'
  BY <1>1 DEF Held
<1>4. Asked' /\ Queued' /\ Marking' /\ Marked' /\ Replaying'
  BY <1>1 DEF Asked, Queued, Marking, Marked, Replaying
<1>5. Worked'
  <2> SUFFICES ASSUME NEW b \in settled', ~Correct(b)'
               PROVE  \E t \in Task : t # exec'.task /\ Covers(t, b)'
    BY DEF Worked
  <2>1. \E t \in Task : Covers(t, b)
    BY <1>2 DEF WorkInv, Worked, Held, Covers
  <2> QED BY <2>1, <1>1, TaskAssumption DEF Covers
<1> QED BY <1>2, <1>3, <1>4, <1>5 DEF WorkInv

\* The lease counts as an attempt; a task that covered stale buckets is replayed.
LEMMA LeaseWork ==
  ASSUME TypeOK, WorkInv, Settle, NEW t \in Task, LeaseTask(t)
  PROVE  WorkInv'
<1> USE DEF storeVars
<1>1. PICK repairError \in BOOLEAN :
        exec' = [ExecIdle EXCEPT !.task = t, !.phase = "leased",
                   !.replay = \/ task[t].force \/ task[t].attempted
                              \/ Kind[t] = "daily" \/ repairError]
  BY DEF LeaseTask
<1>2. /\ exec'.task = t /\ exec'.phase = "leased" /\ exec'.todo = {}
      /\ ~exec'.failed /\ (task[t].force \/ task[t].attempted => exec'.replay)
  BY <1>1 DEF ExecIdle
<1>3. /\ exec.phase = "idle"
      /\ task' = [task EXCEPT ![t].status = "running", ![t].attempted = TRUE]
      /\ UNCHANGED <<row, verifiedAt, roll, ws, symbolLock>>
  BY DEF LeaseTask
<1>4. /\ task'[t].status = "running" /\ task'[t].attempted
      /\ \A s \in Task : s # t => task'[s] = task[s]
  BY <1>3 DEF TypeOK, TaskRow
<1>5. /\ Solid'
      /\ \A b \in settled' : ~Correct(b)' => b \in settled /\ ~Correct(b)
  BY <1>3, StoreSame DEF WorkInv
<1>6. Held'
  BY <1>2, <1>4 DEF Held
<1>7. LockHeld'
  BY <1>2, <1>3 DEF WorkInv, LockHeld
<1>8. Asked' /\ Queued' /\ Marking' /\ Marked' /\ Replaying'
  BY <1>2 DEF Asked, Queued, Marking, Marked, Replaying
<1>9. Worked'
  <2> SUFFICES ASSUME NEW b \in settled', ~Correct(b)'
               PROVE  \/ \E s \in Task : s # exec'.task /\ Covers(s, b)'
                      \/ /\ exec'.phase # "idle" /\ TaskMinutes[exec'.task] \cap Span[b] # {}
                         /\ exec'.replay
    BY DEF Worked
  <2>1. PICK s \in Task : Covers(s, b)
    BY <1>3, <1>5 DEF WorkInv, Worked
  <2>2. CASE s = t
    BY <1>2, <2>1, <2>2 DEF Covers
  <2>3. CASE s # t
    BY <1>2, <1>4, <2>1, <2>3 DEF Covers
  <2> QED BY <2>2, <2>3
<1> QED BY <1>5, <1>6, <1>7, <1>8, <1>9 DEF WorkInv

\* A step of the execution that goes on with the same task, replay and errors.
LEMMA GoesOn ==
  ASSUME TypeOK, WorkInv, Settle, UNCHANGED <<row, verifiedAt, roll, task, ws>>,
         exec.phase # "idle", exec'.phase \notin {"idle", "leased"},
         exec'.task = exec.task, exec'.replay = exec.replay, exec.failed => exec'.failed,
         exec'.phase = "requested" => ~exec'.failed,
         exec.todo = {} \/ exec.todo \subseteq exec'.todo,
         LockHeld', Asked', Queued', Marking', Marked', Replaying'
  PROVE  WorkInv'
<1>1. /\ Solid'
      /\ \A b \in settled' : ~Correct(b)' => b \in settled /\ ~Correct(b)
  BY StoreSame DEF WorkInv
<1>2. Held'
  BY DEF WorkInv, Held
<1>3. Worked'
  BY <1>1 DEF WorkInv, Worked, Covers
<1> QED BY <1>1, <1>2, <1>3 DEF WorkInv

LEMMA RequestWork ==
  ASSUME TypeOK, WorkInv, Settle, RequestOfficial
  PROVE  WorkInv'
<1> USE DEF storeVars
<1>1. /\ exec'.phase = "requested" /\ exec'.task = exec.task /\ exec'.replay = exec.replay
      /\ exec'.failed = exec.failed /\ exec'.todo = exec.todo /\ exec'.generation = clock
  BY DEF RequestOfficial, TypeOK, Exec
<1>2. exec.phase = "leased" /\ UNCHANGED <<row, verifiedAt, roll, task, ws, symbolLock>>
  BY DEF RequestOfficial
<1>3. exec.todo = {} /\ ~exec.failed
  BY <1>2 DEF WorkInv, Queued, Held
<1>4. clock > 0
  BY DEF TypeOK
<1>5. LockHeld'
  BY <1>1, <1>2 DEF WorkInv, LockHeld
<1>6. Asked' /\ Queued' /\ Marking' /\ Marked' /\ Replaying'
  BY <1>1, <1>3, <1>4 DEF Asked, Queued, Marking, Marked, Replaying
<1> QED BY <1>1, <1>2, <1>3, <1>5, <1>6, GoesOn

LEMMA AnswerWork ==
  ASSUME TypeOK, WorkInv, Settle, AnswerOfficial
  PROVE  WorkInv'
<1> USE DEF storeVars
<1>1. exec.phase = "requested" /\ UNCHANGED <<row, verifiedAt, roll, task, ws, symbolLock>>
  BY DEF AnswerOfficial
<1>2. PICK missing \in SUBSET TaskMinutes[exec.task] :
        exec' = IF TaskMinutes[exec.task] \ missing = {} THEN Finishing(TRUE)
                ELSE [exec EXCEPT !.phase = "answered", !.failed = missing # {},
                        !.answer = [m \in Minute |->
                           IF m \in TaskMinutes[exec.task] \ missing THEN official[m]
                           ELSE NoBar]]
  BY DEF AnswerOfficial
<1>3. CASE TaskMinutes[exec.task] \ missing = {}
  BY <1>1, <1>2, <1>3, GivesUp
<1>4. CASE TaskMinutes[exec.task] \ missing # {}
  <2> DEFINE got == TaskMinutes[exec.task] \ missing
             answer == [m \in Minute |-> IF m \in got THEN official[m] ELSE NoBar]
             failed == missing # {}
  <2>1. exec' = [exec EXCEPT !.phase = "answered", !.failed = failed, !.answer = answer]
    BY <1>2, <1>4
  <2>2. exec.task \in Task /\ TaskMinutes[exec.task] \subseteq Minute
        /\ ~exec.failed /\ exec.todo = {} /\ exec.generation > 0
    BY <1>1, TaskAssumption DEF WorkInv, Held, Queued, Marking
  <2>3. \A m \in Minute : official[m] # NoBar
    BY NoBarAssumption DEF TypeOK, Cell, ValueOf
  <2>4. \A m \in Minute : answer[m] # NoBar <=> m \in got
    BY <2>3
  <2>5. failed = (missing # {})
    OBVIOUS
  <2> HIDE DEF answer, failed
  <2>6. /\ exec'.phase = "answered" /\ exec'.failed = failed /\ exec'.answer = answer
        /\ exec'.task = exec.task /\ exec'.replay = exec.replay /\ exec'.todo = exec.todo
        /\ exec'.generation = exec.generation
    BY <2>1 DEF TypeOK, Exec
  <2>7. Answered' = got
    BY <2>2, <2>4, <2>6 DEF Answered
  <2>8. Asked'
    BY <2>5, <2>6, <2>7 DEF Asked
  <2>9. LockHeld'
    BY <1>1, <2>6 DEF WorkInv, LockHeld
  <2>10. Queued' /\ Marking' /\ Marked' /\ Replaying'
    BY <2>2, <2>6 DEF Queued, Marking, Marked, Replaying
  <2> QED BY <1>1, <2>2, <2>6, <2>8, <2>9, <2>10, GoesOn
<1> QED BY <1>3, <1>4

LEMMA VerifyBeginWork ==
  ASSUME TypeOK, WorkInv, Settle, VerifyBegin
  PROVE  WorkInv'
<1> USE DEF storeVars
<1>1. /\ exec.phase = "answered" /\ symbolLock = "free"
      /\ UNCHANGED <<row, verifiedAt, roll, task, ws>>
  BY DEF VerifyBegin
<1>2. CASE latest > exec.generation
  BY <1>1, <1>2, GivesUp DEF VerifyBegin
<1>3. CASE ~(latest > exec.generation)
  <2>1. /\ exec' = [exec EXCEPT !.phase = "verifying", !.oldRow = row,
                                !.oldMark = verifiedAt, !.left = Answered]
        /\ symbolLock' = "rest"
    BY <1>3 DEF VerifyBegin
  <2>2. /\ exec'.phase = "verifying" /\ exec'.oldMark = verifiedAt /\ exec'.left = Answered
        /\ exec'.task = exec.task /\ exec'.replay = exec.replay /\ exec'.todo = exec.todo
        /\ exec'.failed = exec.failed /\ exec'.answer = exec.answer
        /\ exec'.generation = exec.generation
    BY <2>1 DEF TypeOK, Exec
  <2>3. exec.todo = {} /\ exec.generation > 0
    BY <1>1 DEF WorkInv, Queued, Marking
  <2>4. Answered' = Answered
    BY <2>2 DEF Answered
  <2>5. LockHeld'
    BY <1>1, <2>1, <2>2 DEF WorkInv, LockHeld
  <2>6. Asked'
    BY <1>1, <2>2, <2>4 DEF WorkInv, Asked
  <2>7. Marking'
    BY <1>1, <2>2, <2>3, <2>4 DEF Marking
  <2>8. Queued' /\ Marked' /\ Replaying'
    BY <2>2, <2>3 DEF Queued, Marked, Replaying
  <2> QED BY <1>1, <2>2, <2>3, <2>5, <2>6, <2>7, <2>8, GoesOn
<1> QED BY <1>2, <1>3

LEMMA VerifySameWork ==
  ASSUME TypeOK, WorkInv, Settle, VerifySame
  PROVE  WorkInv'
<1> USE DEF storeVars
<1>1. exec.phase = "verifying" /\ UNCHANGED <<row, verifiedAt, roll, task, ws, symbolLock>>
  BY DEF VerifySame
<1>2. PICK m \in Minute :
        exec' = [exec EXCEPT !.left = @ \ {m},
                   !.toMark = IF exec.oldMark[m] = 0 THEN @ \cup {m} ELSE @]
  BY DEF VerifySame
<1>3. /\ exec'.phase = "verifying" /\ exec'.oldMark = exec.oldMark
      /\ exec'.left = exec.left \ {m}
      /\ exec'.toMark = IF exec.oldMark[m] = 0 THEN exec.toMark \cup {m} ELSE exec.toMark
      /\ exec'.task = exec.task /\ exec'.replay = exec.replay /\ exec'.todo = exec.todo
      /\ exec'.failed = exec.failed /\ exec'.answer = exec.answer
      /\ exec'.generation = exec.generation
  BY <1>1, <1>2 DEF TypeOK, Exec
<1>4. exec.todo = {} /\ exec.generation > 0 /\ exec.oldMark[m] \in Nat
  BY <1>1 DEF WorkInv, Queued, Marking, TypeOK, Exec
<1>5. Answered' = Answered
  BY <1>3 DEF Answered
<1>6. LockHeld'
  BY <1>1, <1>3 DEF WorkInv, LockHeld
<1>7. Asked'
  BY <1>1, <1>3, <1>5 DEF WorkInv, Asked
<1>8. Marking'
  <2>1. \A k \in Minute : exec.oldMark[k] > 0 => verifiedAt[k] > 0
    BY <1>1 DEF WorkInv, Marking
  <2>2. exec.oldMark[m] = 0 \/ verifiedAt[m] > 0
    BY <1>4, <2>1
  <2>3. \A k \in Answered : k \in exec.left \cup exec.toMark \/ verifiedAt[k] > 0
    BY <1>1 DEF WorkInv, Marking
  <2>4. \A k \in Answered : k \in exec'.left \cup exec'.toMark \/ verifiedAt[k] > 0
    BY <1>3, <2>2, <2>3
  <2> QED BY <1>1, <1>3, <1>4, <1>5, <2>1, <2>4 DEF Marking
<1>9. Queued' /\ Marked' /\ Replaying'
  BY <1>3, <1>4 DEF Queued, Marked, Replaying
<1> QED BY <1>1, <1>3, <1>4, <1>6, <1>7, <1>8, <1>9, GoesOn

LEMMA CascadeDoneWork ==
  ASSUME TypeOK, WorkInv, Settle, CascadeDone
  PROVE  WorkInv'
<1> USE DEF storeVars
<1>1. /\ exec.phase = "cascading" /\ exec.todo = {}
      /\ UNCHANGED <<row, verifiedAt, roll, task, ws, symbolLock>>
  BY DEF CascadeDone
<1>2. /\ exec'.phase = "verifying" /\ exec'.oldMark = exec.oldMark
      /\ exec'.left = exec.left /\ exec'.toMark = exec.toMark
      /\ exec'.task = exec.task /\ exec'.replay = exec.replay /\ exec'.todo = exec.todo
      /\ exec'.failed = exec.failed /\ exec'.answer = exec.answer
      /\ exec'.generation = exec.generation
  BY DEF CascadeDone, TypeOK, Exec
<1>3. Answered' = Answered
  BY <1>2 DEF Answered
<1>4. LockHeld'
  BY <1>1, <1>2 DEF WorkInv, LockHeld
<1>5. Asked'
  BY <1>1, <1>2, <1>3 DEF WorkInv, Asked
<1>6. Marking'
  BY <1>1, <1>2, <1>3 DEF WorkInv, Marking
<1>7. Queued' /\ Marked' /\ Replaying'
  BY <1>1, <1>2 DEF Queued, Marked, Replaying
<1> QED BY <1>1, <1>2, <1>4, <1>5, <1>6, <1>7, GoesOn

\* MarkMinutesVerified without a mismatch marks every answered minute.
LEMMA MarkWork ==
  ASSUME TypeOK, WorkInv, Settle, VerifyMark
  PROVE  WorkInv'
<1> DEFINE same == Unchanged(exec.toMark, exec.answer)
           before == {m \in same : \A k \in exec.toMark \ same : m < k}
<1>1. /\ exec.phase = "verifying" /\ exec.left = {} /\ symbolLock' = "free"
      /\ UNCHANGED <<row, roll, task, ws>>
  BY DEF VerifyMark
<1>2. PICK M \in {same, before} : MarkVerified(M, exec.generation)
  BY DEF VerifyMark
<1>3. exec' = IF exec.replay /\ same = exec.toMark THEN Verified ELSE Finishing(same # exec.toMark)
  BY DEF VerifyMark
<1>4. same = exec.toMark => M = exec.toMark
  BY <1>2
<1> HIDE DEF same, before
<1>5. exec.generation \in Nat /\ exec.generation > 0
  BY <1>1, BoundAssumption DEF WorkInv, Marking, TypeOK, Exec
<1>6. /\ \A m \in Minute : verifiedAt[m] > 0 => verifiedAt'[m] > 0
      /\ \A m \in M \cap Minute : verifiedAt'[m] > 0
  BY <1>2, <1>5 DEF MarkVerified, TypeOK, StoreTypeOK
<1>7. \A b \in Bucket : /\ Correct(b)' <=> Correct(b)
                        /\ SourceBarsComplete(b)' <=> SourceBarsComplete(b)
  <2>1. \A c : Stored(c)' = Stored(c)
    BY <1>1 DEF Stored
  <2> QED BY <1>1, <2>1, SameSources
<1>8. Solid'
  BY <1>1, <1>6, <1>7, SolidKept DEF WorkInv, Solid
<1>9. \A b \in settled' : ~Correct(b)' => b \in settled /\ ~Correct(b)
  BY <1>7, SettledIsCorrect DEF TypeOK
<1>10. exec.todo = {} /\ ws.phase = "idle"
  BY <1>1 DEF WorkInv, Queued, LockHeld
<1>11. CASE exec.replay /\ same = exec.toMark
  <2>1. exec' = Verified
    BY <1>3, <1>11
  <2>2. /\ exec'.task = exec.task /\ exec'.phase = "verified" /\ exec'.replay
        /\ exec'.todo = {} /\ exec'.failed = exec.failed /\ exec'.answer = exec.answer
    BY <2>1, VerifiedFields
  <2>3. Answered' = Answered
    BY <2>2 DEF Answered
  <2>4. Held' /\ LockHeld'
    BY <1>1, <1>10, <2>2 DEF WorkInv, Held, LockHeld
  <2>5. Asked'
    BY <1>1, <2>2, <2>3 DEF WorkInv, Asked
  <2>6. Queued' /\ Marking' /\ Replaying'
    BY <2>2 DEF Queued, Marking, Replaying
  <2>7. \A m \in Answered : verifiedAt'[m] > 0
    <3>1. \A m \in Answered : m \in exec.toMark \/ verifiedAt[m] > 0
      BY <1>1 DEF WorkInv, Marking
    <3> QED BY <1>4, <1>6, <1>11, <3>1 DEF Answered
  <2>8. Marked'
    BY <1>1, <2>2, <2>7 DEF WorkInv, Asked, Marked
  <2>9. Worked'
    BY <1>1, <1>9, <1>10, <2>2 DEF WorkInv, Worked, Covers
  <2> QED BY <1>8, <2>4, <2>5, <2>6, <2>8, <2>9 DEF WorkInv
<1>12. CASE ~(exec.replay /\ same = exec.toMark)
  <2> DEFINE fail == same # exec.toMark
  <2>1. exec' = Finishing(fail) /\ fail \in BOOLEAN
    BY <1>3, <1>12
  <2>2. exec.replay => fail
    BY <1>12
  <2> HIDE DEF fail
  <2>3. /\ exec'.task = exec.task /\ exec'.phase = "finishing"
        /\ exec'.replay = exec.replay /\ exec'.todo = {}
        /\ exec'.failed <=> (exec.failed \/ fail)
    BY <2>1, FinishingFields
  <2>4. Held' /\ LockHeld'
    BY <1>1, <1>10, <2>3 DEF WorkInv, Held, LockHeld
  <2>5. Asked' /\ Queued' /\ Marking'
    BY <2>3 DEF Asked, Queued, Marking
  <2>6. Marked' /\ Replaying'
    BY <2>2, <2>3 DEF Marked, Replaying
  <2>7. Worked'
    BY <1>1, <1>9, <1>10, <2>3 DEF WorkInv, Worked, Covers
  <2> QED BY <1>8, <2>4, <2>5, <2>6, <2>7 DEF WorkInv
<1> QED BY <1>11, <1>12

\* The replay starts with the buckets right above the minutes: all others that it
\* is to rebuild lie above one of those.
LEMMA ReplayBeginWork ==
  ASSUME TypeOK, WorkInv, Settle, ReplayBegin
  PROVE  WorkInv'
<1> USE DEF storeVars
<1> DEFINE queue == UNION {Targets(m, TRUE) : m \in Answered}
<1>1. /\ exec.phase = "verified" /\ symbolLock = "free" /\ symbolLock' = "rest"
      /\ UNCHANGED <<row, verifiedAt, roll, task, ws>>
  BY DEF ReplayBegin
<1>2. exec' = [exec EXCEPT !.phase = "replaying", !.todo = queue]
  BY DEF ReplayBegin
<1>3. \A b : b \in queue <=> (b \in Bucket /\ \E m \in Answered : m \in Source[b])
  BY DEF Targets
<1> HIDE DEF queue
<1>4. /\ exec'.phase = "replaying" /\ exec'.todo = queue
      /\ exec'.task = exec.task /\ exec'.replay = exec.replay
      /\ exec'.failed = exec.failed /\ exec'.answer = exec.answer
  BY <1>2 DEF TypeOK, Exec
<1>5. exec.todo = {} /\ exec.replay /\ Answered \subseteq TaskMinutes[exec.task]
  BY <1>1 DEF WorkInv, Queued, Marked, Asked
<1>6. Answered' = Answered
  BY <1>4 DEF Answered
<1>7. LockHeld'
  BY <1>1, <1>4 DEF WorkInv, LockHeld
<1>8. Asked'
  BY <1>1, <1>4, <1>6 DEF WorkInv, Asked
<1>9. Queued'
  <2>1. \A b \in queue : TaskMinutes[exec.task] \cap Span[b] # {}
    <3> SUFFICES ASSUME NEW b \in queue PROVE TaskMinutes[exec.task] \cap Span[b] # {}
      OBVIOUS
    <3>1. PICK m \in Answered : m \in Source[b]
      BY <1>3
    <3>2. m \in Span[b]
      BY <1>3, <3>1, SpanOfSource DEF Answered
    <3> QED BY <1>5, <3>2
  <2> QED BY <1>4, <2>1 DEF Queued
<1>10. Marking'
  BY <1>4 DEF Marking
<1>11. Marked'
  BY <1>1, <1>4, <1>5 DEF WorkInv, Marked
<1>12. Replaying'
  <2> SUFFICES ASSUME ~exec.failed PROVE \E C \in SUBSET Domain' : DoneWith(C)'
    BY <1>4 DEF Replaying
  <2>1. Domain' = Domain
    BY <1>1, <1>4 DEF Domain, AllVerified
  <2>2. Answered = TaskMinutes[exec.task]
    BY <1>1 DEF WorkInv, Asked
  <2>3. \A b \in Domain : b \in queue \/ Source[b] \cap Domain # {}
    <3> SUFFICES ASSUME NEW b \in Domain, b \notin queue PROVE Source[b] \cap Domain # {}
      OBVIOUS
    <3>1. PICK m \in TaskMinutes[exec.task] : m \in Span[b]
      BY DEF Domain
    <3>2. m \notin Source[b] /\ b \in Bucket
      BY <1>3, <2>2 DEF Domain
    <3>3. PICK c \in Source[b] \cap Bucket : m \in Span[c]
      BY <3>1, <3>2, SpanOfSource
    <3>4. Span[c] \subseteq Span[b]
      BY <3>2, <3>3, SpanOfSource
    <3>5. c \in Domain
      BY <3>1, <3>3, <3>4 DEF Domain, AllVerified
    <3> QED BY <3>3, <3>5
  <2>4. DoneWith({})'
    BY <1>4, <2>1, <2>3 DEF DoneWith
  <2> QED BY <2>4
<1> QED BY <1>1, <1>4, <1>5, <1>7, <1>8, <1>9, <1>10, <1>11, <1>12, GoesOn

\* When the queue is empty, what the replay is to rebuild is correct.
LEMMA ReplayDoneWork ==
  ASSUME TypeOK, WorkInv, Settle, ReplayDone
  PROVE  WorkInv'
<1> USE DEF storeVars
<1>1. /\ exec.phase = "replaying" /\ exec.todo = {} /\ symbolLock' = "free"
      /\ exec' = Finishing(FALSE)
      /\ UNCHANGED <<row, verifiedAt, roll, task, ws>>
  BY DEF ReplayDone
<1>2. /\ exec'.task = exec.task /\ exec'.phase = "finishing"
      /\ exec'.replay = exec.replay /\ exec'.todo = {}
      /\ exec'.failed <=> exec.failed
  BY <1>1, FinishingFields
<1>3. LockHeld'
  BY <1>1, <1>2 DEF WorkInv, LockHeld
<1>4. Asked' /\ Queued' /\ Marking'
  BY <1>2 DEF Asked, Queued, Marking
<1>5. Marked'
  BY <1>1, <1>2 DEF WorkInv, Marked
<1>6. ASSUME ~exec.failed, NEW b \in Domain PROVE Correct(b)
  <2>1. PICK C \in SUBSET Domain : DoneWith(C)
    BY <1>1, <1>6 DEF WorkInv, Replaying
  <2> DEFINE B == {a \in Domain \ C : SourceBarsComplete(a)}
  <2>2. B = {}
    <3> SUFFICES ASSUME B # {} PROVE FALSE
      OBVIOUS
    <3>1. B \in SUBSET Bucket
      BY DEF Domain
    <3>2. PICK a \in B : Source[a] \cap B = {}
      BY <3>1, SourceAssumption
    <3>3. a \in Domain \ C /\ SourceBarsComplete(a)
      OBVIOUS
    <3>4. PICK c \in Source[a] : c \in Domain \ C
      BY <1>1, <2>1, <3>3 DEF DoneWith
    <3>5. c \in Bucket /\ Stored(c) # NoBar
      BY <3>3, <3>4 DEF Domain, SourceBarsComplete
    <3>6. roll[c] # NoBar
      BY <3>5, MinuteAssumption DEF Stored
    <3>7. SourceBarsComplete(c)
      BY <3>5, <3>6 DEF WorkInv, Solid
    <3> QED BY <3>2, <3>4, <3>7
  <2>3. CASE b \in C
    BY <2>1, <2>3 DEF DoneWith
  <2>4. CASE b \notin C
    BY <2>2, <2>4 DEF Correct
  <2> QED BY <2>3, <2>4
<1>7. Replaying'
  <2>1. Domain' = Domain
    BY <1>1, <1>2 DEF Domain, AllVerified
  <2>2. \A b \in Bucket : Correct(b)' <=> Correct(b)
    BY <1>1, StoreSame DEF WorkInv
  <2>3. ~exec.failed => \A b \in Domain : Correct(b)'
    BY <1>6, <2>2 DEF Domain
  <2> QED BY <1>2, <2>1, <2>3 DEF Replaying
<1> QED BY <1>1, <1>2, <1>3, <1>4, <1>5, <1>7, GoesOn

\* A task is acknowledged only when nothing stale depends on it.
LEMMA FinishWork ==
  ASSUME TypeOK, WorkInv, Settle, FinishTask
  PROVE  WorkInv'
<1> USE DEF storeVars
<1>1. /\ exec.phase = "finishing" /\ exec' = ExecIdle
      /\ UNCHANGED <<row, verifiedAt, roll, ws, symbolLock>>
  BY DEF FinishTask
<1>2. exec'.task = NoTask /\ exec'.phase = "idle" /\ exec'.todo = {}
  BY <1>1, IdleFields
<1>3. exec.task \in Task /\ exec.todo = {}
  BY <1>1 DEF WorkInv, Held, Queued
<1>4. /\ \A t \in Task : t # exec.task => task'[t] = task[t]
      /\ exec.failed => /\ task'[exec.task].status = "due"
                        /\ task'[exec.task].attempted
  BY <1>3 DEF FinishTask, TypeOK
<1>5. /\ Solid'
      /\ \A b \in settled' : ~Correct(b)' => b \in settled /\ ~Correct(b)
  BY <1>1, StoreSame DEF WorkInv
<1>6. Held' /\ LockHeld'
  BY <1>1, <1>2 DEF WorkInv, Held, LockHeld
<1>7. Asked' /\ Queued' /\ Marking' /\ Marked' /\ Replaying'
  BY <1>2 DEF Asked, Queued, Marking, Marked, Replaying
<1>8. Worked'
  <2> SUFFICES ASSUME NEW b \in settled', ~Correct(b)'
               PROVE  \E t \in Task : t # NoTask /\ Covers(t, b)'
    BY <1>2 DEF Worked
  <2>1. b \in settled /\ ~Correct(b)
    BY <1>5
  <2>2. CASE \E t \in Task : t # exec.task /\ Covers(t, b)
    BY <1>4, <2>2, TaskAssumption DEF Covers
  <2>3. CASE /\ TaskMinutes[exec.task] \cap Span[b] # {}
             /\ exec.replay \/ exec.failed
    <3>1. b \in Domain
      BY <2>1, <2>3 DEF WorkInv, Solid, Domain, TypeOK
    <3>2. exec.failed
      BY <1>1, <2>1, <2>3, <3>1 DEF WorkInv, Replaying
    <3>3. PICK t \in Task : t = exec.task
      BY <1>3
    <3>4. Covers(t, b)'
      BY <1>4, <2>3, <3>2, <3>3 DEF Covers
    <3> QED BY <3>4, TaskAssumption
  <2> QED BY <1>3, <2>1, <2>2, <2>3 DEF WorkInv, Worked
<1> QED BY <1>5, <1>6, <1>7, <1>8 DEF WorkInv

(***************************************************************************)
(* Steps of the execution that write rows.                                 *)
(***************************************************************************)
\* A step that goes on inside a cascade, with every bucket it makes stale queued.
LEMMA GoesOnWriting ==
  ASSUME TypeOK, WorkInv, Settle, UNCHANGED <<verifiedAt, task, ws>>,
         exec.phase # "idle", exec'.phase \in {"cascading", "replaying"},
         exec'.task = exec.task, exec'.replay = exec.replay, exec'.failed = exec.failed,
         \A b \in Bucket : SourceBarsComplete(b) => SourceBarsComplete(b)',
         \A b \in Bucket : roll'[b] # NoBar => SourceBarsComplete(b)',
         \A b \in settled : ~Correct(b)' =>
            \/ ~Correct(b) /\ (b \in exec.todo => b \in exec'.todo \/ exec'.replay)
            \/ TaskMinutes[exec.task] \cap Span[b] # {} /\ (b \in exec'.todo \/ exec'.replay),
         LockHeld', Asked', Queued', Marking', Marked', Replaying'
  PROVE  WorkInv'
<1>1. Solid'
  BY SolidKept DEF WorkInv
<1>2. Held'
  BY DEF WorkInv, Held
<1>3. Worked'
  <2> SUFFICES ASSUME NEW b \in settled', ~Correct(b)'
               PROVE  \/ \E t \in Task : t # exec'.task /\ Covers(t, b)'
                      \/ /\ exec'.phase # "idle"
                         /\ TaskMinutes[exec'.task] \cap Span[b] # {}
                         /\ exec'.replay \/ exec'.failed \/ b \in exec'.todo
    BY DEF Worked
  <2>1. b \in settled
    BY SettledIsCorrect
  <2>2. CASE ~Correct(b) /\ (b \in exec.todo => b \in exec'.todo \/ exec'.replay)
    <3>1. \/ \E t \in Task : t # exec.task /\ Covers(t, b)
          \/ /\ TaskMinutes[exec.task] \cap Span[b] # {}
             /\ exec.replay \/ exec.failed \/ b \in exec.todo
      BY <2>1, <2>2 DEF WorkInv, Worked
    <3> QED BY <2>2, <3>1 DEF Covers
  <2>3. CASE TaskMinutes[exec.task] \cap Span[b] # {} /\ (b \in exec'.todo \/ exec'.replay)
    BY <2>3
  <2> QED BY <2>1, <2>2, <2>3
<1> QED BY <1>1, <1>2, <1>3 DEF WorkInv

\* A revision makes the buckets above its minute stale and queues them all.
LEMMA ReviseWork ==
  ASSUME TypeOK, Backing, WorkInv, Settle, VerifyRevise
  PROVE  WorkInv'
<1>1. exec.phase = "verifying" /\ UNCHANGED <<verifiedAt, roll, task, ws, symbolLock>>
  BY DEF VerifyRevise
<1>2. PICK m \in Minute :
        /\ m \in exec.left
        /\ row' = [row EXCEPT ![m] = exec.answer[m]]
        /\ exec' = [exec EXCEPT !.phase = "cascading", !.left = @ \ {m},
                      !.toMark = @ \cup {m}, !.todo = Targets(m, TRUE)]
  BY DEF VerifyRevise, NextBar, UpsertMinuteRevision
<1>3. exec.answer[m] # NoBar
  BY <1>2 DEF Backing, OnlyAnswered
<1>4. /\ exec'.phase = "cascading" /\ exec'.oldMark = exec.oldMark
      /\ exec'.left = exec.left \ {m} /\ exec'.toMark = exec.toMark \cup {m}
      /\ exec'.task = exec.task /\ exec'.replay = exec.replay
      /\ exec'.todo = Targets(m, TRUE)
      /\ exec'.failed = exec.failed /\ exec'.answer = exec.answer
      /\ exec'.generation = exec.generation
  BY <1>2 DEF TypeOK, Exec
<1>5. /\ \A b \in Bucket : SourceBarsComplete(b) => SourceBarsComplete(b)'
      /\ \A b \in Bucket : m \notin Source[b] =>
           /\ SourceBarsComplete(b)' <=> SourceBarsComplete(b)
           /\ Correct(b)' <=> Correct(b)
      /\ \A b \in Bucket : roll'[b] # NoBar => SourceBarsComplete(b)'
  <2>1. PICK v : v = exec.answer[m]
    OBVIOUS
  <2> QED BY <1>1, <1>2, <1>3, <2>1, Rewritten DEF WorkInv
<1>6. Answered' = Answered /\ exec.todo = {}
  BY <1>1, <1>4 DEF Answered, WorkInv, Queued
<1>7. m \in TaskMinutes[exec.task]
  BY <1>1, <1>3 DEF WorkInv, Asked, Answered
<1>8. \A b \in Targets(m, TRUE) : b \in Bucket /\ m \in Source[b] /\ m \in Span[b]
  BY SpanOfSource DEF Targets
<1>9. \A b \in Bucket : m \in Source[b] => b \in Targets(m, TRUE)
  BY DEF Targets
<1>10. LockHeld'
  BY <1>1, <1>4 DEF WorkInv, LockHeld
<1>11. Asked'
  BY <1>1, <1>4, <1>6 DEF WorkInv, Asked
<1>12. Queued'
  BY <1>4, <1>7, <1>8 DEF Queued
<1>13. Marking'
  BY <1>1, <1>4, <1>6 DEF WorkInv, Marking
<1>14. Marked' /\ Replaying'
  BY <1>4 DEF Marked, Replaying
<1>15. ASSUME NEW b \in settled, ~Correct(b)'
       PROVE \/ ~Correct(b) /\ (b \in exec.todo => b \in exec'.todo \/ exec'.replay)
             \/ TaskMinutes[exec.task] \cap Span[b] # {} /\ (b \in exec'.todo \/ exec'.replay)
  <2>1. b \in Bucket
    BY DEF TypeOK
  <2>2. CASE m \in Source[b]
    BY <1>4, <1>7, <1>8, <1>9, <2>1, <2>2
  <2>3. CASE m \notin Source[b]
    BY <1>5, <1>6, <1>15, <2>1, <2>3
  <2> QED BY <2>2, <2>3
<1> QED BY <1>1, <1>4, <1>5, <1>10, <1>11, <1>12, <1>13, <1>14, <1>15, GoesOnWriting

\* The cascade rebuilds a bucket and queues the buckets above it.
LEMMA CascadeWork ==
  ASSUME TypeOK, WorkInv, Settle, RepairCascade
  PROVE  WorkInv'
<1>1. /\ exec.phase = "cascading"
      /\ UNCHANGED <<row, verifiedAt, task, ws, symbolLock>>
  BY DEF RepairCascade
<1>2. PICK c \in exec.todo :
        IF SourceBarsComplete(c)
          THEN /\ UpsertRollups({c})
               /\ exec' = [exec EXCEPT !.todo = (@ \ {c}) \cup Targets(c, TRUE)]
          ELSE /\ exec' = [exec EXCEPT !.todo = @ \ {c}]
               /\ UNCHANGED roll
  BY DEF RepairCascade
<1>3. c \in Bucket /\ TaskMinutes[exec.task] \cap Span[c] # {}
  BY DEF TypeOK, Exec, WorkInv, Queued
<1>4. /\ exec'.phase = "cascading" /\ exec'.oldMark = exec.oldMark
      /\ exec'.left = exec.left /\ exec'.toMark = exec.toMark
      /\ exec'.task = exec.task /\ exec'.replay = exec.replay
      /\ exec'.todo = IF SourceBarsComplete(c) THEN (exec.todo \ {c}) \cup Targets(c, TRUE)
                      ELSE exec.todo \ {c}
      /\ exec'.failed = exec.failed /\ exec'.answer = exec.answer
      /\ exec'.generation = exec.generation
  <2>1. CASE SourceBarsComplete(c)
    BY <1>1, <1>2, <2>1 DEF TypeOK, Exec
  <2>2. CASE ~SourceBarsComplete(c)
    BY <1>1, <1>2, <2>2 DEF TypeOK, Exec
  <2> QED BY <2>1, <2>2
<1>5. \A b \in Bucket : c \in Source[b] => /\ b \in Targets(c, TRUE)
                                           /\ TaskMinutes[exec.task] \cap Span[b] # {}
  BY <1>3, SpanOfSource DEF Targets
<1>6. \A b \in Targets(c, TRUE) : TaskMinutes[exec.task] \cap Span[b] # {}
  BY <1>5 DEF Targets
<1>7. Answered' = Answered
  BY <1>4 DEF Answered
<1>8. LockHeld'
  BY <1>1, <1>4 DEF WorkInv, LockHeld
<1>9. Asked'
  BY <1>1, <1>4, <1>7 DEF WorkInv, Asked
<1>10. Queued'
  BY <1>4, <1>6 DEF WorkInv, Queued
<1>11. Marking'
  BY <1>1, <1>4, <1>7 DEF WorkInv, Marking
<1>12. Marked' /\ Replaying'
  BY <1>4 DEF Marked, Replaying
<1>13. /\ \A b \in Bucket : SourceBarsComplete(b) => SourceBarsComplete(b)'
       /\ \A b \in Bucket : roll'[b] # NoBar => SourceBarsComplete(b)'
       /\ \A b \in settled : ~Correct(b)' =>
            \/ ~Correct(b) /\ (b \in exec.todo => b \in exec'.todo \/ exec'.replay)
            \/ TaskMinutes[exec.task] \cap Span[b] # {} /\ (b \in exec'.todo \/ exec'.replay)
  <2>1. CASE SourceBarsComplete(c)
    <3>1. UpsertRollups({c}) /\ {c} \in SUBSET Bucket /\ \A b \in {c} : SourceBarsComplete(b)
      BY <1>2, <1>3, <2>1
    <3>2. /\ \A b \in Bucket : SourceBarsComplete(b) => SourceBarsComplete(b)'
          /\ \A b \in Bucket : Source[b] \cap {c} = {} =>
               /\ b \in {c} => Correct(b)'
               /\ b \notin {c} => (Correct(b)' <=> Correct(b))
          /\ \A b \in Bucket : roll'[b] # NoBar => SourceBarsComplete(b)'
      BY <1>1, <3>1, Rebuilt DEF WorkInv
    <3>3. ASSUME NEW b \in settled, ~Correct(b)'
          PROVE \/ ~Correct(b) /\ (b \in exec.todo => b \in exec'.todo \/ exec'.replay)
                \/ /\ TaskMinutes[exec.task] \cap Span[b] # {}
                   /\ b \in exec'.todo \/ exec'.replay
      <4>1. b \in Bucket
        BY DEF TypeOK
      <4>2. CASE c \in Source[b]
        BY <1>4, <1>5, <2>1, <4>1, <4>2
      <4>3. CASE c \notin Source[b]
        BY <1>4, <2>1, <3>2, <3>3, <4>1, <4>3
      <4> QED BY <4>2, <4>3
    <3> QED BY <3>2, <3>3
  <2>2. CASE ~SourceBarsComplete(c)
    <3>1. /\ Solid'
          /\ \A b \in Bucket : /\ Correct(b)' <=> Correct(b)
                               /\ SourceBarsComplete(b)' <=> SourceBarsComplete(b)
      BY <1>1, <1>2, <2>2, StoreSame DEF WorkInv
    <3>2. \A b \in settled : b # c
      BY <2>2 DEF WorkInv, Solid
    <3> QED BY <1>4, <2>2, <3>1, <3>2 DEF Solid, TypeOK
  <2> QED BY <2>1, <2>2
<1> QED BY <1>1, <1>4, <1>8, <1>9, <1>10, <1>11, <1>12, <1>13, GoesOnWriting

\* One level of the replay: the lowest buckets not done with are done after it.
LEMMA ReplayLevelWork ==
  ASSUME TypeOK, WorkInv, Settle, ReplayLevel
  PROVE  WorkInv'
<1> DEFINE B == {b \in exec.todo : SourceBarsComplete(b)}
           queue == UNION {Targets(b, TRUE) : b \in B}
<1>1. /\ exec.phase = "replaying" /\ UpsertRollups(B)
      /\ exec' = [exec EXCEPT !.todo = queue]
      /\ UNCHANGED <<row, verifiedAt, task, ws, symbolLock>>
  BY DEF ReplayLevel
<1>2. B \in SUBSET Bucket /\ \A b \in B : SourceBarsComplete(b)
  BY DEF TypeOK, Exec
<1>3. \A b : b \in queue <=> (b \in Bucket /\ Source[b] \cap B # {})
  BY DEF Targets
<1>4. \A b \in exec.todo : b \in B \/ ~SourceBarsComplete(b)
  OBVIOUS
<1>5. B \subseteq exec.todo
  OBVIOUS
<1> HIDE DEF B, queue
<1>6. /\ exec'.phase = "replaying" /\ exec'.todo = queue
      /\ exec'.task = exec.task /\ exec'.replay = exec.replay
      /\ exec'.failed = exec.failed /\ exec'.answer = exec.answer
  BY <1>1 DEF TypeOK, Exec
<1>7. /\ \A b \in Bucket : b \notin B => roll'[b] = roll[b]
      /\ \A b \in Bucket : SourceBarsComplete(b) => SourceBarsComplete(b)'
      /\ \A b \in Bucket : Source[b] \cap B = {} =>
           /\ SourceBarsComplete(b)' <=> SourceBarsComplete(b)
           /\ b \in B => Correct(b)'
           /\ b \notin B => (Correct(b)' <=> Correct(b))
      /\ \A b \in Bucket : roll'[b] # NoBar => SourceBarsComplete(b)'
  BY <1>1, <1>2, Rebuilt DEF WorkInv
<1>8. \A b \in Bucket : Source[b] \cap B # {} => TaskMinutes[exec.task] \cap Span[b] # {}
  <2> SUFFICES ASSUME NEW b \in Bucket, NEW c \in Source[b], c \in B
               PROVE  TaskMinutes[exec.task] \cap Span[b] # {}
    OBVIOUS
  <2>1. TaskMinutes[exec.task] \cap Span[c] # {} /\ c \in Bucket
    BY <1>2, <1>5 DEF WorkInv, Queued
  <2> QED BY <2>1, SpanOfSource
<1>9. Answered' = Answered /\ exec.replay
  BY <1>1, <1>6 DEF Answered, WorkInv, Marked
<1>10. LockHeld'
  BY <1>1, <1>6 DEF WorkInv, LockHeld
<1>11. Asked'
  BY <1>1, <1>6, <1>9 DEF WorkInv, Asked
<1>12. Queued'
  BY <1>3, <1>6, <1>8 DEF Queued
<1>13. Marking'
  BY <1>6 DEF Marking
<1>14. Marked'
  BY <1>1, <1>6, <1>9 DEF WorkInv, Marked
<1>15. Replaying'
  <2> SUFFICES ASSUME ~exec.failed PROVE \E C \in SUBSET Domain' : DoneWith(C)'
    BY <1>6 DEF Replaying
  <2>1. Domain' = Domain
    BY <1>1, <1>6 DEF Domain, AllVerified
  <2>2. PICK C \in SUBSET Domain : DoneWith(C)
    BY <1>1 DEF WorkInv, Replaying
  <2>3. PICK E \in SUBSET Domain :
          \A b : b \in E <=> b \in C \/ (b \in Domain \ C /\ Source[b] \cap (Domain \ C) = {})
    <3>1. C \cup {b \in Domain \ C : Source[b] \cap (Domain \ C) = {}} \in SUBSET Domain
      OBVIOUS
    <3> QED BY <3>1
  <2>4. \A b \in Domain : \A c \in Source[b] : c \in exec.todo => c \in Domain
    <3> SUFFICES ASSUME NEW b \in Domain, NEW c \in Source[b], c \in exec.todo
                 PROVE  c \in Domain
      OBVIOUS
    <3>1. c \in Bucket /\ TaskMinutes[exec.task] \cap Span[c] # {} /\ b \in Bucket
      BY DEF TypeOK, Exec, WorkInv, Queued, Domain
    <3>2. Span[c] \subseteq Span[b]
      BY <3>1, SpanOfSource
    <3> QED BY <3>1, <3>2 DEF Domain, AllVerified
  <2>5. ASSUME NEW b \in E
        PROVE  /\ b \in Bucket /\ Source[b] \cap Domain \subseteq C
               /\ Source[b] \cap B = {}
    <3>1. Source[b] \cap Domain \subseteq C /\ b \in Domain
      BY <2>2, <2>3, <2>5 DEF DoneWith
    <3>2. \A c \in C : c \notin exec.todo
      BY <2>2 DEF DoneWith
    <3> QED BY <1>5, <2>4, <3>1, <3>2 DEF Domain
  <2>6. ASSUME NEW b \in E PROVE Correct(b)'
    <3>0. /\ b \in Bucket /\ Source[b] \cap Domain \subseteq C
          /\ Source[b] \cap B = {}
      BY <2>5
    <3>1. CASE b \in C
      <4>1. Correct(b) /\ b \notin exec.todo
        BY <2>2, <3>1 DEF DoneWith
      <4> QED BY <1>5, <1>7, <3>0, <4>1
    <3>2. CASE b \notin C
      <4>1. b \in exec.todo \/ ~SourceBarsComplete(b)
        BY <2>2, <2>3, <3>2 DEF DoneWith
      <4>2. b \in B \/ ~SourceBarsComplete(b)
        BY <1>4, <4>1
      <4>3. CASE b \in B
        BY <1>7, <3>0, <4>3
      <4>4. CASE ~SourceBarsComplete(b)
        BY <1>7, <3>0, <4>4 DEF Correct
      <4> QED BY <4>2, <4>3, <4>4
    <3> QED BY <3>1, <3>2
  <2>7. ASSUME NEW b \in Domain \ E
        PROVE  \/ b \in queue \/ ~SourceBarsComplete(b)'
               \/ Source[b] \cap (Domain \ E) # {}
    <3>1. PICK c \in Source[b] : c \in Domain \ C
      BY <2>3, <2>7
    <3>2. b \in Bucket /\ c \in Bucket
      BY <3>1 DEF Domain
    <3>3. CASE c \notin E
      BY <3>1, <3>3
    <3>4. CASE c \in E
      <4>1. c \in exec.todo \/ ~SourceBarsComplete(c)
        BY <2>2, <2>3, <3>1, <3>4 DEF DoneWith
      <4>2. CASE c \in B
        BY <1>3, <3>1, <3>2, <4>2
      <4>3. CASE c \notin B
        <5>1. ~SourceBarsComplete(c)
          BY <1>4, <4>1, <4>3
        <5>2. roll[c] = NoBar
          BY <3>2, <5>1 DEF WorkInv, Solid
        <5>3. Stored(c)' = NoBar
          BY <1>7, <3>2, <4>3, <5>2, MinuteAssumption DEF Stored
        <5> QED BY <3>1, <5>3 DEF SourceBarsComplete
      <4> QED BY <4>2, <4>3
    <3> QED BY <3>3, <3>4
  <2>8. \A b \in E : b \notin queue /\ Source[b] \cap Domain \subseteq E
    BY <1>3, <2>3, <2>5
  <2>9. DoneWith(E)'
    BY <1>6, <2>1, <2>6, <2>7, <2>8 DEF DoneWith
  <2> QED BY <2>1, <2>9
<1>16. ASSUME NEW b \in settled, ~Correct(b)'
       PROVE \/ ~Correct(b) /\ (b \in exec.todo => b \in exec'.todo \/ exec'.replay)
             \/ TaskMinutes[exec.task] \cap Span[b] # {} /\ (b \in exec'.todo \/ exec'.replay)
  <2>1. b \in Bucket
    BY DEF TypeOK
  <2>2. CASE Source[b] \cap B # {}
    BY <1>6, <1>8, <1>9, <2>1, <2>2
  <2>3. CASE Source[b] \cap B = {}
    BY <1>6, <1>7, <1>9, <1>16, <2>1, <2>3
  <2> QED BY <2>2, <2>3
<1> QED BY <1>1, <1>6, <1>7, <1>10, <1>11, <1>12, <1>13, <1>14, <1>15, <1>16, GoesOnWriting

(***************************************************************************)
(* The theorems.                                                           *)
(***************************************************************************)
LEMMA WorkStep ==
  ASSUME TypeOK, Backing, WorkInv, Next
  PROVE  WorkInv'
<1> USE DEF storeVars
<1>0. Settle
  BY DEF Next
<1>1. CASE IngestNext
  BY <1>0, <1>1, IngestWork
<1>2. CASE \E t \in Task : RegisterTask(t)
  BY <1>0, <1>2, EnvironmentWork
<1>3. CASE \E t \in Task : LeaseTask(t)
  BY <1>0, <1>3, LeaseWork
<1>4. CASE VerifyStale
  <2>1. symbolLock # "ws"
    BY <1>4 DEF VerifyStale, WorkInv, LockHeld
  <2> QED BY <1>0, <1>4, <2>1, GivesUp DEF VerifyStale
<1>5. CASE ExecStep
  BY <1>0, <1>4, <1>5, RequestWork, AnswerWork, VerifyBeginWork, VerifySameWork, ReviseWork,
     CascadeWork, CascadeDoneWork, MarkWork, ReplayBeginWork, ReplayLevelWork,
     ReplayDoneWork, FinishWork DEF ExecStep
<1>6. CASE FinishLost
  <2>1. LockHeld'
    BY <1>6, IdleFields DEF FinishLost, WorkInv, LockHeld
  <2> QED BY <1>0, <1>6, <2>1, Drops DEF FinishLost
<1>7. CASE RepairFail
  BY <1>0, <1>7, GivesUp DEF RepairFail
<1>8. CASE Crash
  <2>1. LockHeld'
    BY <1>8, IdleFields DEF Crash, LockHeld, WsIdle
  <2> QED BY <1>0, <1>8, <2>1, Drops DEF Crash
<1>9. CASE EnvNext
  BY <1>0, <1>8, <1>9, EnvironmentWork DEF EnvNext
<1> QED BY <1>1, <1>2, <1>3, <1>5, <1>6, <1>7, <1>9 DEF Next, GuardianNext

LEMMA WorkStutter ==
  ASSUME TypeOK, WorkInv, UNCHANGED vars
  PROVE  WorkInv'
<1>1. UNCHANGED <<row, verifiedAt, roll, exec, task, ws, symbolLock, settled>>
  BY DEF vars
<1>2. \A b \in Bucket : /\ Correct(b)' <=> Correct(b)
                        /\ SourceBarsComplete(b)' <=> SourceBarsComplete(b)
  <2>1. \A c : Stored(c)' = Stored(c)
    BY <1>1 DEF Stored
  <2> QED BY <1>1, <2>1, SameSources
<1>3. Solid'
  BY <1>1, <1>2 DEF WorkInv, Solid, AllVerified, TypeOK
<1>4. Held' /\ Worked'
  BY <1>1, <1>2, HeldKept, WorkedKept DEF WorkInv, TypeOK
<1>5. Replaying'
  BY <1>1, <1>2, ReplayingKept DEF WorkInv, Domain
<1>6. LockHeld' /\ Asked' /\ Queued' /\ Marking' /\ Marked'
  BY <1>1 DEF WorkInv, LockHeld, Asked, Queued, Marking, Marked, Answered
<1> QED BY <1>3, <1>4, <1>5, <1>6 DEF WorkInv

LEMMA WorkInit ==
  ASSUME Init
  PROVE  WorkInv
<1>1. exec.task = NoTask /\ exec.phase = "idle" /\ exec.todo = {}
  BY IdleFields DEF Init
<1>2. LockHeld
  BY <1>1 DEF Init, LockHeld, WsIdle
<1>3. Solid /\ Worked
  BY DEF Init, StoreInit, Solid, Worked
<1> QED BY <1>1, <1>2, <1>3
        DEF WorkInv, Held, Asked, Queued, Marking, Marked, Replaying

\* For every set of tasks, buckets and failures: a derived row that was correct over
\* verified minutes is wrong only while a durable task that will replay the cascade
\* covers one of its minutes, whatever crashed or failed between the revision, the
\* cascade and the mark.
THEOREM StaleAlwaysHasWork == Spec => []StaleRollupHasWork
<1>1. Init => TypeOK /\ Backing /\ WorkInv
  BY TypeInit, BackingInit, WorkInit
<1>2. TypeOK /\ Backing /\ WorkInv /\ [Next]_vars => (TypeOK /\ Backing /\ WorkInv)'
  BY TypeStep, TypeStutter, BackingStep, BackingStutter, WorkStep, WorkStutter
<1>3. TypeOK /\ WorkInv => StaleRollupHasWork
  <2> SUFFICES ASSUME WorkInv, NEW b \in settled, ~Correct(b)
               PROVE  \E t \in Task : Covers(t, b)
    BY DEF StaleRollupHasWork, Covers
  <2>1. CASE \E t \in Task : t # exec.task /\ Covers(t, b)
    BY <2>1
  <2>2. CASE exec.phase # "idle" /\ TaskMinutes[exec.task] \cap Span[b] # {}
    BY <2>2 DEF WorkInv, Held, Covers
  <2> QED BY <2>1, <2>2 DEF WorkInv, Worked
<1> QED BY <1>1, <1>2, <1>3, PTL DEF Spec

\* A range of verified minutes whose buckets are correct has them all.
LEMMA NoneMissing ==
  ASSUME TypeOK, Backing, NEW M \in SUBSET Minute, \A m \in M : verifiedAt[m] > 0,
         \A b \in Bucket : Span[b] \subseteq M => Correct(b)
  PROVE  \A b \in Bucket : Span[b] \subseteq M => roll[b] # NoBar
<1> DEFINE B == {b \in Bucket : Span[b] \subseteq M /\ roll[b] = NoBar}
<1> SUFFICES ASSUME B # {} PROVE FALSE
  OBVIOUS
<1>1. B \in SUBSET Bucket
  OBVIOUS
<1>2. PICK b \in B : Source[b] \cap B = {}
  BY <1>1, SourceAssumption
<1>3. b \in Bucket /\ Span[b] \subseteq M /\ roll[b] = NoBar
  OBVIOUS
<1>4. ASSUME NEW c \in Source[b] PROVE Stored(c) # NoBar
  <2>1. CASE c \in Minute
    <3>1. c \in M
      BY <1>3, <2>1, SpanOfSource
    <3> QED BY <2>1, <3>1 DEF Backing, VerifiedBacked, Stored
  <2>2. CASE c \in Bucket
    <3>1. Span[c] \subseteq M
      BY <1>3, <2>2, SpanOfSource
    <3>2. roll[c] # NoBar
      BY <1>2, <2>2, <3>1
    <3> QED BY <2>2, <3>2, MinuteAssumption DEF Stored
  <2> QED BY <1>3, <2>1, <2>2, SpanOfSource
<1>5. SourceBarsComplete(b)
  BY <1>4 DEF SourceBarsComplete
<1>6. roll[b] = RollupBars(b) /\ RollupBars(b) \in RollValue[b]
  BY <1>3, <1>5, RollupBarsType DEF Correct, TypeOK
<1>7. ValueOf(b) = RollValue[b] /\ b \in Cell
  BY <1>3, MinuteAssumption DEF ValueOf, Cell
<1> QED BY <1>3, <1>6, <1>7, NoBarAssumption

\* Every bucket has a minute below it.
LEMMA SpanNonempty == \A b \in Bucket : Span[b] # {}
<1> DEFINE B == {b \in Bucket : Span[b] = {}}
<1> SUFFICES ASSUME B # {} PROVE FALSE
  OBVIOUS
<1>1. B \in SUBSET Bucket
  OBVIOUS
<1>2. PICK b \in B : Source[b] \cap B = {}
  BY <1>1, SourceAssumption
<1>3. b \in Bucket /\ Span[b] = {}
  OBVIOUS
<1>4. Closing[b] \in Source[b]
  BY <1>3, SourceAssumption
<1>5. CASE Closing[b] \in Minute
  BY <1>3, <1>4, <1>5, SpanOfSource
<1>6. CASE Closing[b] \in Bucket
  <2>1. Span[Closing[b]] \subseteq Span[b]
    BY <1>3, <1>4, <1>6, SpanOfSource
  <2> QED BY <1>2, <1>3, <1>4, <1>6, <2>1
<1> QED BY <1>3, <1>4, <1>5, <1>6, SpanOfSource

\* For every set of tasks, buckets and failures: when a replayed task is acknowledged,
\* every minute it asked for is verified and every bucket inside its range is stored
\* and correct, however the ingest path, earlier crashes or skipped cascades left them.
THEOREM AckAlwaysReconciled == Spec => AckMeansReconciled
<1> DEFINE Reconciled ==
      \A t \in Task :
        (exec.task = t /\ exec.replay /\ task[t].status = "running"
           /\ task'[t].status \in {"absent", "done"}) =>
          /\ \A m \in TaskMinutes[t] : verifiedAt[m] > 0
          /\ \A b \in Bucket : Span[b] \subseteq TaskMinutes[t] =>
               roll[b] # NoBar /\ Correct(b)
<1>1. ASSUME TypeOK, Backing, WorkInv, FinishTask PROVE Reconciled
  <2> SUFFICES ASSUME NEW t \in Task, exec.task = t, exec.replay,
                      task'[t].status \in {"absent", "done"}
               PROVE  /\ \A m \in TaskMinutes[t] : verifiedAt[m] > 0
                      /\ \A b \in Bucket : Span[b] \subseteq TaskMinutes[t] =>
                           roll[b] # NoBar /\ Correct(b)
    OBVIOUS
  <2>1. exec.phase = "finishing"
    BY <1>1 DEF FinishTask
  <2>2. ~exec.failed
    BY <1>1 DEF FinishTask, TypeOK
  <2>3. \A m \in TaskMinutes[t] : verifiedAt[m] > 0
    BY <1>1, <2>1, <2>2 DEF WorkInv, Marked
  <2>4. \A b \in Bucket : Span[b] \subseteq TaskMinutes[t] => Correct(b)
    <3> SUFFICES ASSUME NEW b \in Bucket, Span[b] \subseteq TaskMinutes[t]
                 PROVE  Correct(b)
      OBVIOUS
    <3>1. b \in Domain
      BY <2>3, SpanNonempty DEF Domain, AllVerified
    <3> QED BY <1>1, <2>1, <2>2, <3>1 DEF WorkInv, Replaying
  <2>5. TaskMinutes[t] \in SUBSET Minute
    BY TaskAssumption
  <2>6. \A b \in Bucket : Span[b] \subseteq TaskMinutes[t] => roll[b] # NoBar
    BY <1>1, <2>3, <2>4, <2>5, NoneMissing
  <2> QED BY <2>3, <2>4, <2>6
<1>2. ASSUME TypeOK, Next, ~FinishTask,
             NEW t \in Task, task[t].status = "running"
      PROVE  task'[t].status = "running"
  <2>1. \/ UNCHANGED task \/ \E s \in Task : Enqueue(s) \/ LeaseTask(s)
    BY <1>2 DEF Next, IngestNext, GuardianNext, ExecStep, EnvNext, execVars, IngestAccept,
       IngestConflict, IngestWrite, IngestCascade, IngestReturn, IngestFail, RegisterTask,
       FinishLost, RepairFail, RequestOfficial, AnswerOfficial, VerifyBegin, VerifyStale,
       VerifySame, VerifyRevise, VerifyMark, RepairCascade, CascadeDone, ReplayBegin,
       ReplayLevel, ReplayDone, OfficialRevise, Tick, ClockStep, Crash
  <2>2. CASE UNCHANGED task
    BY <1>2, <2>2
  <2>3. ASSUME NEW s \in Task, Enqueue(s) PROVE task'[t].status = "running"
    BY <1>2, <2>3, EnqueueKeepsRows
  <2>4. ASSUME NEW s \in Task, LeaseTask(s) PROVE task'[t].status = "running"
    BY <1>2, <2>4 DEF LeaseTask, TypeOK, TaskRow
  <2> QED BY <2>1, <2>2, <2>3, <2>4
<1>3. TypeOK /\ Backing /\ WorkInv /\ [Next]_vars => [Reconciled]_vars
  BY <1>1, <1>2
<1>4. Init => TypeOK /\ Backing /\ WorkInv
  BY TypeInit, BackingInit, WorkInit
<1>5. TypeOK /\ Backing /\ WorkInv /\ [Next]_vars => (TypeOK /\ Backing /\ WorkInv)'
  BY TypeStep, TypeStutter, BackingStep, BackingStutter, WorkStep, WorkStutter
<1> QED BY <1>3, <1>4, <1>5, PTL DEF Spec, AckMeansReconciled
==============================================================================
