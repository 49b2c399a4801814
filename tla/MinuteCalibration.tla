-------------------------- MODULE MinuteCalibration --------------------------
(***************************************************************************)
(* The life of the 1m candles of one symbol inside a marketd process:      *)
(*                                                                         *)
(*   - the collector delivers WebSocket finals to MarketService.IngestKline *)
(*     (internal/app/market_service.go);                                   *)
(*   - the Guardian executes durable audit tasks: it asks the exchange's   *)
(*     REST API for the official candles of a range and hands them to      *)
(*     MarketService.VerifyFinalBars and RepairRollups                     *)
(*     (internal/guardian/durable_minute_audit.go, repair.go and           *)
(*     internal/app/minute_verification.go);                               *)
(*   - the corporate-action backfill deletes and rewrites rows without     *)
(*     taking the symbol lock (internal/corporateaction/worker.go);        *)
(*   - any store or REST call may fail and the process may die between     *)
(*     any two of them.  Rows and tasks are durable; locks, the running    *)
(*     operations and latestVerification are not.                          *)
(*                                                                         *)
(* One step of the model is one call of the store.  Due times and lease    *)
(* lengths are left to MinuteAuditLedger: here a task that is not held by  *)
(* this process may be leased whenever minuteLock is free.                 *)
(***************************************************************************)
EXTENDS KlineStore

CONSTANTS
  Task,         \* identities (kind, start, end) of minute audit tasks
  Kind,         \* Kind[t] \in {"window", "daily", "conflict"}
  TaskMinutes,  \* TaskMinutes[t]: the minutes start..end of the task
  NoTask,       \* no task is executing
  MaxClock,     \* bound: last millisecond of the wall clock
  MaxFaults     \* bound: store/REST failures, partial answers, crashes, clock steps

ASSUME TaskAssumption ==
  /\ Kind \in [Task -> {"window", "daily", "conflict"}]
  /\ TaskMinutes \in [Task -> SUBSET Minute]
  /\ \A t \in Task : TaskMinutes[t] # {}
  /\ NoTask \notin Task
ASSUME BoundAssumption == MaxClock \in Nat \ {0} /\ MaxFaults \in Nat

VARIABLES
  official,      \* what the exchange's REST API answers for each minute
  clock,         \* wall clock in milliseconds, positive
  task,          \* durable task rows: status, attempts > 0, force_replay
  exec,          \* the task execution that holds minuteLock, or ExecIdle
  ws,            \* the IngestKline call of a final bar in progress, or WsIdle
  symbolLock,    \* holder of the MarketService symbol lock
  latest,        \* latestVerification of the symbol; 0 when the map has no entry
  refill,        \* minutes the backfill has deleted and not yet rewritten
  faults,        \* failures so far
  confirmed,     \* history: value of the last official answer applied to a minute
  settled        \* history: buckets that were correct over verified minutes

execVars == <<task, exec, latest>>
histVars == <<confirmed, settled>>
vars == <<row, verifiedAt, roll, official, clock, task, exec, ws, symbolLock,
          latest, refill, faults, confirmed, settled>>

Answer == [Minute -> Value \cup {NoBar}]
NoAnswer == [m \in Minute |-> NoBar]
NoMarks == [m \in Minute |-> 0]

ExecPhase == {"idle", "leased", "requested", "answered", "verifying",
              "cascading", "verified", "replaying", "finishing"}

\* executeLeasedMinuteTask and, below it, repairTimeframeRange and
\* verifySymbolMinutes: their local variables.
Exec == [task: Task \cup {NoTask}, phase: ExecPhase,
         replay: BOOLEAN,           \* request.ForceReplay
         generation: 0..MaxClock,   \* verifiedAtMS, taken before the fetch
         answer: Answer,            \* validOfficial
         oldRow: Answer,            \* existing[...].Bar
         oldMark: [Minute -> Nat],  \* existing[...].VerifiedAtMS
         left: SUBSET Minute,       \* bars of the loop not yet visited
         toMark: SUBSET Minute,     \* toMark
         todo: SUBSET Bucket,       \* rollup queue
         failed: BOOLEAN]           \* repairErr # nil

ExecIdle == [task |-> NoTask, phase |-> "idle", replay |-> FALSE,
             generation |-> 0, answer |-> NoAnswer, oldRow |-> NoAnswer,
             oldMark |-> NoMarks, left |-> {}, toMark |-> {}, todo |-> {},
             failed |-> FALSE]

\* The repair returns and the locals of its calls are gone.
Finishing(fail) ==
  [ExecIdle EXCEPT !.task = exec.task, !.phase = "finishing",
                   !.replay = exec.replay, !.failed = exec.failed \/ fail]

\* VerifyFinalBars returned without error and the task asks for a replay.
Verified == [ExecIdle EXCEPT !.task = exec.task, !.phase = "verified",
               !.replay = TRUE, !.answer = exec.answer, !.failed = exec.failed]

\* The bar of the IngestKline call: accepted, then written, then cascading.
Ws == [phase: {"idle", "accepted", "cascading"}, minute: Minute \cup {NoBar},
       value: Value \cup {NoBar}, todo: SUBSET Bucket]
WsIdle == [phase |-> "idle", minute |-> NoBar, value |-> NoBar, todo |-> {}]

Status == {"absent", "due", "running", "done"}
TaskRow == [status: Status, attempted: BOOLEAN, force: BOOLEAN]
NoRow == [status |-> "absent", attempted |-> FALSE, force |-> FALSE]

\* Every variable stays in its type (the record fields of the running calls too).
TypeOK ==
  /\ StoreTypeOK
  /\ official \in [Minute -> Value]
  /\ clock \in 1..MaxClock
  /\ task \in [Task -> TaskRow]
  /\ exec \in Exec
  /\ ws \in Ws
  /\ symbolLock \in {"free", "ws", "rest"}
  /\ latest \in 0..MaxClock
  /\ refill \subseteq Minute
  /\ faults \in 0..MaxFaults
  /\ confirmed \in Answer
  /\ settled \subseteq Bucket

Init ==
  /\ StoreInit
  /\ official \in [Minute -> Value]
  /\ clock = 1
  /\ task = [t \in Task |-> NoRow]
  /\ exec = ExecIdle
  /\ ws = WsIdle
  /\ symbolLock = "free"
  /\ latest = 0
  /\ refill = {}
  /\ faults = 0
  /\ confirmed = NoAnswer
  /\ settled = {}

(***************************************************************************)
(* Correctness of a derived row, and the history it is judged by.          *)
(***************************************************************************)
Correct(b) == SourceBarsComplete(b) => roll[b] = RollupBars(b)
AllVerified(b) == \A m \in Span[b] : verifiedAt[m] > 0

Settle == settled' = settled \cup {b \in Bucket : (AllVerified(b) /\ SourceBarsComplete(b) /\ Correct(b))'}

Fault == faults < MaxFaults /\ faults' = faults + 1

(***************************************************************************)
(* WebSocket path: IngestKline of a final 1m bar.                          *)
(***************************************************************************)
\* acceptUnverifiedFinal, first outcome: no verified row; the call keeps the
\* symbol lock and goes on to persist the bar.
IngestAccept(m, v) ==
  /\ symbolLock = "free" /\ ws.phase = "idle"
  /\ verifiedAt[m] = 0
  /\ symbolLock' = "ws"
  /\ ws' = [phase |-> "accepted", minute |-> m, value |-> v, todo |-> {}]
  /\ UNCHANGED <<storeVars, official, clock, execVars, refill, faults, confirmed>>

\* EnqueueMinuteAuditTask: the row of that identity is returned as it is when
\* one exists, whatever its status.
Enqueue(t) ==
  task' = IF task[t].status = "absent"
            THEN [task EXCEPT ![t] = [status |-> "due", attempted |-> FALSE,
                                      force |-> Kind[t] = "conflict"]]
            ELSE task

\* acceptUnverifiedFinal, second outcome: the row is verified and differs, so
\* the final is refused and a conflict task registered.  (A verified row with
\* the same values refuses the final and changes nothing.)
IngestConflict(m, v) ==
  /\ symbolLock = "free" /\ ws.phase = "idle"
  /\ verifiedAt[m] > 0 /\ row[m] # v
  /\ \E t \in Task : /\ Kind[t] = "conflict" /\ TaskMinutes[t] = {m}
                     /\ Enqueue(t)
  /\ UNCHANGED <<storeVars, official, clock, exec, ws, symbolLock, latest, refill,
                 faults, confirmed>>

\* persistFinalBars: UpsertBars, then the buckets this bar closes are queued.
IngestWrite ==
  /\ ws.phase = "accepted"
  /\ UpsertMinute(ws.minute, ws.value)
  /\ ws' = [ws EXCEPT !.phase = "cascading", !.todo = Targets(ws.minute, FALSE)]
  /\ UNCHANGED <<verifiedAt, roll, official, clock, execVars, symbolLock, refill,
                 faults, confirmed>>

\* rollupFinalBars(repair = false): one bucket of the queue.  An incomplete
\* bucket is skipped, a rebuilt one queues the buckets it closes.
IngestCascade ==
  /\ ws.phase = "cascading"
  /\ \E b \in ws.todo :
       IF SourceBarsComplete(b)
         THEN /\ UpsertRollups({b})
              /\ ws' = [ws EXCEPT !.todo = (@ \ {b}) \cup Targets(b, FALSE)]
         ELSE /\ ws' = [ws EXCEPT !.todo = @ \ {b}]
              /\ UNCHANGED roll
  /\ UNCHANGED <<row, verifiedAt, official, clock, execVars, symbolLock, refill,
                 faults, confirmed>>

\* IngestKline returns and unlocks: its queue is empty, or a call failed.
IngestReturn ==
  /\ ws.phase = "cascading" /\ ws.todo = {}
  /\ ws' = WsIdle /\ symbolLock' = "free"
  /\ UNCHANGED <<storeVars, official, clock, execVars, refill, faults, confirmed>>

IngestFail ==
  /\ ws.phase # "idle" /\ Fault
  /\ ws' = WsIdle /\ symbolLock' = "free"
  /\ UNCHANGED <<storeVars, official, clock, execVars, refill, confirmed>>

(***************************************************************************)
(* Guardian: execution of one durable task under minuteLock.               *)
(***************************************************************************)
\* auditMinuteWindow and MinuteDayAuditOnce register a range.
RegisterTask(t) ==
  /\ Kind[t] # "conflict" /\ task[t].status = "absent"
  /\ Enqueue(t)
  /\ UNCHANGED <<storeVars, official, clock, exec, ws, symbolLock, latest, refill,
                 faults, confirmed>>
\* Mutant: a lease does not count as an attempt.
LeaseTaskUncounted(t) ==
  /\ exec.phase = "idle"
  /\ task[t].status \in {"due", "running"}
  /\ task' = [task EXCEPT ![t].status = "running"]
  /\ exec' = [ExecIdle EXCEPT !.task = t, !.phase = "leased",
                !.replay = task[t].force \/ task[t].attempted \/ Kind[t] = "daily"]
  /\ UNCHANGED <<storeVars, official, clock, ws, symbolLock, latest, refill,
                 faults, confirmed>>

\* Mutant: a running row is never reclaimed.
LeaseTaskNoReclaim(t) ==
  /\ exec.phase = "idle"
  /\ task[t].status = "due"
  /\ task' = [task EXCEPT ![t].status = "running", ![t].attempted = TRUE]
  /\ exec' = [ExecIdle EXCEPT !.task = t, !.phase = "leased",
                !.replay = task[t].force \/ task[t].attempted \/ Kind[t] = "daily"]
  /\ UNCHANGED <<storeVars, official, clock, ws, symbolLock, latest, refill,
                 faults, confirmed>>

\* executeMinuteTask: lock, reload, lease (attempts + 1).  ForceReplay is
\* decided from the row as it was before the lease; a guardian state row left
\* in repair_error by an overlapping range also forces it.
LeaseTask(t) ==
  /\ exec.phase = "idle"
  /\ task[t].status \in {"due", "running"}
  /\ task' = [task EXCEPT ![t].status = "running", ![t].attempted = TRUE]
  /\ \E repairError \in BOOLEAN :
       exec' = [ExecIdle EXCEPT !.task = t, !.phase = "leased",
                  !.replay = \/ task[t].force \/ task[t].attempted
                             \/ Kind[t] = "daily" \/ repairError]
  /\ UNCHANGED <<storeVars, official, clock, ws, symbolLock, latest, refill,
                 faults, confirmed>>

\* repairTimeframeRange reads the clock, then sends the REST request.
RequestOfficial ==
  /\ exec.phase = "leased"
  /\ exec' = [exec EXCEPT !.phase = "requested", !.generation = clock]
  /\ UNCHANGED <<storeVars, official, clock, task, ws, symbolLock, latest, refill,
                 faults, confirmed>>

\* The answer: the official value of each minute asked for.  Minutes may be
\* missing (a fault); what did arrive is still verified and the missing ones
\* become responseErr.  An empty answer goes straight to the error.
AnswerOfficial ==
  /\ exec.phase = "requested"
  /\ \E missing \in SUBSET TaskMinutes[exec.task] :
       LET got == TaskMinutes[exec.task] \ missing IN
       /\ IF missing = {} THEN UNCHANGED faults ELSE Fault
       /\ exec' = IF got = {} THEN Finishing(TRUE)
                  ELSE [exec EXCEPT !.phase = "answered", !.failed = missing # {},
                          !.answer = [m \in Minute |-> IF m \in got THEN official[m]
                                                        ELSE NoBar]]
  /\ UNCHANGED <<storeVars, official, clock, task, ws, symbolLock, latest, refill,
                 confirmed>>

Answered == {m \in Minute : exec.answer[m] # NoBar}

\* VerifyFinalBars takes the symbol lock; verifySymbolMinutes refuses a
\* generation older than the newest of this process and loads the rows.
VerifyBegin ==
  /\ exec.phase = "answered" /\ symbolLock = "free"
  /\ IF latest > exec.generation
       THEN /\ exec' = Finishing(TRUE)
            /\ UNCHANGED <<symbolLock, latest>>
       ELSE /\ exec' = [exec EXCEPT !.phase = "verifying", !.oldRow = row,
                                    !.oldMark = verifiedAt, !.left = Answered]
            /\ symbolLock' = "rest"
            /\ latest' = exec.generation
  /\ UNCHANGED <<storeVars, official, clock, task, ws, refill, faults, confirmed>>

\* The loop of verifySymbolMinutes visits the answered bars in start order.
NextBar(m) == m \in exec.left /\ \A k \in exec.left : m <= k

\* The row was verified by a newer generation, or the store refuses the revision.
StaleBar(m) ==
  \/ exec.oldMark[m] > exec.generation
  \/ exec.oldRow[m] # exec.answer[m] /\ verifiedAt[m] > exec.generation
VerifyStale ==
  /\ exec.phase = "verifying"
  /\ \E m \in Minute : NextBar(m) /\ StaleBar(m)
  /\ exec' = Finishing(TRUE)
  /\ symbolLock' = "free"
  /\ UNCHANGED <<storeVars, official, clock, task, ws, latest, refill, faults,
                 confirmed>>

\* The loaded row already has the official values: only an unverified one is
\* to be marked, and no cascade runs.
VerifySame ==
  /\ exec.phase = "verifying"
  /\ \E m \in Minute :
       /\ NextBar(m) /\ ~StaleBar(m)
       /\ exec.oldRow[m] = exec.answer[m]
       /\ exec' = [exec EXCEPT !.left = @ \ {m},
                     !.toMark = IF exec.oldMark[m] = 0 THEN @ \cup {m} ELSE @]
       /\ confirmed' = [confirmed EXCEPT ![m] = exec.answer[m]]
  /\ UNCHANGED <<storeVars, official, clock, task, ws, symbolLock, latest, refill,
                 faults>>
\* Mutant: the revision writes the whole row, verified_at_ms = 0 included.
VerifyReviseClearsMark ==
  /\ exec.phase = "verifying"
  /\ \E m \in Minute :
       /\ NextBar(m) /\ ~StaleBar(m)
       /\ exec.oldRow[m] # exec.answer[m]
       /\ UpsertMinuteRevision(m, exec.answer[m], exec.generation)
       /\ verifiedAt' = [verifiedAt EXCEPT ![m] = 0]
       /\ exec' = [exec EXCEPT !.phase = "cascading", !.left = @ \ {m},
                     !.toMark = @ \cup {m}, !.todo = Targets(m, TRUE)]
       /\ confirmed' = [confirmed EXCEPT ![m] = exec.answer[m]]
  /\ UNCHANGED <<roll, official, clock, task, ws, symbolLock, latest, refill,
                 faults>>

\* Missing or different: write the revision, then cascade before the next bar.
VerifyRevise ==
  /\ exec.phase = "verifying"
  /\ \E m \in Minute :
       /\ NextBar(m) /\ ~StaleBar(m)
       /\ exec.oldRow[m] # exec.answer[m]
       /\ UpsertMinuteRevision(m, exec.answer[m], exec.generation)
       /\ exec' = [exec EXCEPT !.phase = "cascading", !.left = @ \ {m},
                     !.toMark = @ \cup {m}, !.todo = Targets(m, TRUE)]
       /\ confirmed' = [confirmed EXCEPT ![m] = exec.answer[m]]
  /\ UNCHANGED <<verifiedAt, roll, official, clock, task, ws, symbolLock, latest,
                 refill, faults>>

\* rollupFinalBars(repair = true): one bucket of the queue.
RepairCascade ==
  /\ exec.phase = "cascading"
  /\ \E b \in exec.todo :
       IF SourceBarsComplete(b)
         THEN /\ UpsertRollups({b})
              /\ exec' = [exec EXCEPT !.todo = (@ \ {b}) \cup Targets(b, TRUE)]
         ELSE /\ exec' = [exec EXCEPT !.todo = @ \ {b}]
              /\ UNCHANGED roll
  /\ UNCHANGED <<row, verifiedAt, official, clock, task, ws, symbolLock, latest,
                 refill, faults, confirmed>>

CascadeDone ==
  /\ exec.phase = "cascading" /\ exec.todo = {}
  /\ exec' = [exec EXCEPT !.phase = "verifying"]
  /\ UNCHANGED <<storeVars, official, clock, task, ws, symbolLock, latest, refill,
                 faults, confirmed>>
\* MarkMinutesVerified after the whole loop, then VerifyFinalBars unlocks.  When
\* a value changed underneath it fails; by then the SQL store has marked all the
\* matching keys, the memory store those before the first changed one.
VerifyMark ==
  /\ exec.phase = "verifying" /\ exec.left = {}
  /\ LET same == Unchanged(exec.toMark, exec.answer)
         before == {m \in same : \A k \in exec.toMark \ same : m < k}
     IN /\ \E M \in {same, before} : MarkVerified(M, exec.generation)
        /\ exec' = IF exec.replay /\ same = exec.toMark
                     THEN Verified ELSE Finishing(same # exec.toMark)
  /\ symbolLock' = "free"
  /\ UNCHANGED <<row, roll, official, clock, task, ws, latest, refill, faults,
                 confirmed>>

\* RepairRollups of a replayed task takes the symbol lock again.
ReplayBegin ==
  /\ exec.phase = "verified" /\ symbolLock = "free"
  /\ symbolLock' = "rest"
  /\ exec' = [exec EXCEPT !.phase = "replaying",
                          !.todo = UNION {Targets(m, TRUE) : m \in Answered}]
  /\ UNCHANGED <<storeVars, official, clock, task, ws, latest, refill, faults,
                 confirmed>>
\* Mutant: the recursion stops at buckets that are already correct.
ReplayLevelStopsAtCorrect ==
  /\ exec.phase = "replaying" /\ exec.todo # {}
  /\ LET wrong == {b \in exec.todo : SourceBarsComplete(b) /\ ~Correct(b)}
     IN /\ UpsertRollups(wrong)
        /\ exec' = [exec EXCEPT !.todo = UNION {Targets(b, TRUE) : b \in wrong}]
  /\ UNCHANGED <<row, verifiedAt, official, clock, task, ws, symbolLock, latest,
                 refill, faults, confirmed>>

\* Mutant: buckets with missing sources are built as well.
ReplayLevelIncomplete ==
  /\ exec.phase = "replaying" /\ exec.todo # {}
  /\ UpsertRollups(exec.todo)
  /\ exec' = [exec EXCEPT !.todo = UNION {Targets(b, TRUE) : b \in exec.todo}]
  /\ UNCHANGED <<row, verifiedAt, official, clock, task, ws, symbolLock, latest,
                 refill, faults, confirmed>>

\* repairRollupsLocked: one call rebuilds every complete bucket of one level in
\* one UpsertBars and recurses on all of them, correct ones included.
ReplayLevel ==
  /\ exec.phase = "replaying" /\ exec.todo # {}
  /\ LET complete == {b \in exec.todo : SourceBarsComplete(b)}
     IN /\ UpsertRollups(complete)
        /\ exec' = [exec EXCEPT !.todo = UNION {Targets(b, TRUE) : b \in complete}]
  /\ UNCHANGED <<row, verifiedAt, official, clock, task, ws, symbolLock, latest,
                 refill, faults, confirmed>>

ReplayDone ==
  /\ exec.phase = "replaying" /\ exec.todo = {}
  /\ exec' = Finishing(FALSE)
  /\ symbolLock' = "free"
  /\ UNCHANGED <<storeVars, official, clock, task, ws, latest, refill, faults,
                 confirmed>>

\* FinishMinuteAuditTask: success deletes the row (a daily row stays, completed);
\* a failure leaves a retry that will be replayed.
FinishTask ==
  /\ exec.phase = "finishing"
  /\ task' = [task EXCEPT ![exec.task] =
                IF exec.failed
                  THEN [status |-> "due", attempted |-> TRUE, force |-> TRUE]
                  ELSE IF Kind[exec.task] = "daily"
                         THEN [@ EXCEPT !.status = "done"] ELSE NoRow]
  /\ exec' = ExecIdle
  /\ UNCHANGED <<storeVars, official, clock, ws, symbolLock, latest, refill,
                 faults, confirmed>>

\* The final update itself fails: the row stays running until its lease ends.
FinishLost ==
  /\ exec.phase = "finishing" /\ Fault
  /\ exec' = ExecIdle
  /\ UNCHANGED <<storeVars, official, clock, task, ws, symbolLock, latest, refill,
                 confirmed>>

\* A REST or store call of the repair returns an error (or its 8-minute context
\* ends), recording its events and state included: VerifyFinalBars and
\* RepairRollups unlock and the task is finished.
RepairFail ==
  /\ exec.phase # "idle" /\ Fault
  /\ exec.phase = "finishing" => ~exec.failed
  /\ exec' = Finishing(TRUE)
  /\ symbolLock' = IF symbolLock = "rest" THEN "free" ELSE symbolLock
  /\ UNCHANGED <<storeVars, official, clock, task, ws, latest, refill, confirmed>>

(***************************************************************************)
(* Environment: exchange, clock, process, and the corporate-action         *)
(* backfill of the 1m rows (its other timeframes are rewritten from REST   *)
(* and are not followed here).                                             *)
(***************************************************************************)
OfficialRevise(m, v) ==
  /\ official[m] # v
  /\ official' = [official EXCEPT ![m] = v]
  /\ UNCHANGED <<storeVars, clock, execVars, ws, symbolLock, refill, faults,
                 confirmed>>

Tick ==
  /\ clock < MaxClock
  /\ clock' = clock + 1
  /\ UNCHANGED <<storeVars, official, execVars, ws, symbolLock, refill, faults,
                 confirmed>>

\* time.Now().UnixMilli() is wall time and may be stepped back.
ClockStep ==
  /\ Fault
  /\ clock' \in 1..(clock - 1)
  /\ UNCHANGED <<storeVars, official, execVars, ws, symbolLock, refill, confirmed>>

Crash ==
  /\ Fault
  /\ exec' = ExecIdle /\ ws' = WsIdle /\ symbolLock' = "free"
  /\ latest' = 0 /\ refill' = {}
  /\ UNCHANGED <<storeVars, official, clock, task, confirmed>>

\* Worker.backfill: delete the fetched range, then write the adjusted bars.
BackfillDelete(M) ==
  /\ M # {} /\ refill = {}
  /\ DeleteMinutes(M)
  /\ refill' = M
  /\ UNCHANGED <<roll, official, clock, execVars, ws, symbolLock, faults, confirmed>>

BackfillWrite(m, v) ==
  /\ m \in refill
  /\ UpsertMinute(m, v)
  /\ refill' = refill \ {m}
  /\ UNCHANGED <<verifiedAt, roll, official, clock, execVars, ws, symbolLock, faults,
                 confirmed>>

IngestNext ==
  \/ \E m \in Minute, v \in Value : IngestAccept(m, v) \/ IngestConflict(m, v)
  \/ IngestWrite \/ IngestCascade \/ IngestReturn \/ IngestFail

\* The steps of the execution that holds minuteLock.
ExecStep ==
  \/ RequestOfficial \/ AnswerOfficial \/ VerifyBegin \/ VerifyStale \/ VerifySame
  \/ VerifyRevise \/ RepairCascade \/ CascadeDone \/ VerifyMark \/ ReplayBegin
  \/ ReplayLevel \/ ReplayDone \/ FinishTask

GuardianNext ==
  \/ \E t \in Task : RegisterTask(t) \/ LeaseTask(t)
  \/ ExecStep \/ FinishLost \/ RepairFail

EnvNext ==
  \/ \E m \in Minute, v \in Value : OfficialRevise(m, v)
  \/ Tick \/ ClockStep \/ Crash

BackfillNext ==
  \/ \E M \in SUBSET Minute : BackfillDelete(M)
  \/ \E m \in Minute, v \in Value : BackfillWrite(m, v)

Next == (IngestNext \/ GuardianNext \/ EnvNext) /\ Settle

\* The service without, and with, a corporate-action backfill of its rows.
Spec == Init /\ [][Next]_vars

BackfillSpec == Init /\ [][Next \/ (BackfillNext /\ Settle)]_vars

(***************************************************************************)
(* Fairness.  A goroutine that can run does run: the body of IngestKline,  *)
(* of a leased execution, and the day scheduler (WF).  minuteLock and the  *)
(* symbol lock are contended sync.Mutexes, whose starvation mode hands     *)
(* them over in FIFO order: whoever keeps asking obtains them (SF); the    *)
(* retry workers keep asking for every due task.  The wall clock advances. *)
(* Finals, exchange revisions, failures and crashes are not fair.          *)
(***************************************************************************)
Fairness ==
  /\ WF_vars((IngestWrite \/ IngestCascade \/ IngestReturn) /\ Settle)
  /\ WF_vars(ExecStep /\ Settle)
  /\ SF_vars(VerifyBegin /\ Settle)
  /\ SF_vars(ReplayBegin /\ Settle)
  /\ WF_vars(Tick /\ Settle)
  /\ \A t \in Task : /\ SF_vars(LeaseTask(t) /\ Settle)
                     /\ Kind[t] = "daily" => WF_vars(RegisterTask(t) /\ Settle)

FairSpec == Spec /\ Fairness

(***************************************************************************)
(* Properties.                                                             *)
(***************************************************************************)
\* A verified minute holds exactly the values of the last official answer that
\* VerifyFinalBars applied to it: a mark is never put on, or left on, values of
\* a WebSocket final or of a lock-bypassing backfill.
VerifiedBacked ==
  \A m \in Minute : verifiedAt[m] > 0 => row[m] # NoBar /\ row[m] = confirmed[m]

\* Once a derived row was correct over verified minutes, it can become wrong only
\* while a durable task that will replay the cascade covers one of its minutes,
\* whatever crashed or failed between the revision, the cascade and the mark.
StaleRollupHasWork ==
  \A b \in settled : ~Correct(b) =>
    \E t \in Task : /\ TaskMinutes[t] \cap Span[b] # {}
                    /\ task[t].status \in {"due", "running"}
                    /\ task[t].attempted \/ task[t].force

\* A verified row changes only through a revision whose request is not older
\* than the mark, and the mark of a row never decreases.
VerifiedProtected ==
  [][\A m \in Minute : verifiedAt[m] > 0 =>
       /\ verifiedAt'[m] >= verifiedAt[m]
       /\ row'[m] # row[m] => /\ exec.phase = "verifying"
                              /\ exec.generation >= verifiedAt[m]
                              /\ row'[m] = exec.answer[m]]_vars

\* When a replayed task is acknowledged, every minute it asked for is verified
\* and every bucket inside its range is correct, however the ingest path, earlier
\* crashes or skipped cascades had left them.
AckMeansReconciled ==
  [][\A t \in Task :
       (exec.task = t /\ exec.replay /\ task[t].status = "running"
          /\ task'[t].status \in {"absent", "done"}) =>
         /\ \A m \in TaskMinutes[t] : verifiedAt[m] > 0
         /\ \A b \in Bucket : Span[b] \subseteq TaskMinutes[t] =>
              roll[b] # NoBar /\ Correct(b)]_vars

\* The daily pass is acknowledged in the end, through any finite number of
\* failures, crashes and clock steps, and leaves every bucket of its range
\* settled: buckets the ingest path skipped do not stay missing.
DailySettles ==
  \A t \in Task : Kind[t] = "daily" =>
    <>(/\ task[t].status = "done"
       /\ \A b \in Bucket : Span[b] \subseteq TaskMinutes[t] => b \in settled)

\* A settled bucket that a revision left wrong is made correct again.
StaleRollupRepaired ==
  \A b \in Bucket : (b \in settled /\ ~Correct(b)) ~> Correct(b)
=============================================================================
