--------------------------- MODULE CorporateAction ---------------------------
(***************************************************************************)
(* Forward adjustment of the stored candles of one Binance symbol after a  *)
(* split (internal/corporateaction/worker.go): confirmed actions become    *)
(* durable jobs, a job deletes and rewrites every configured timeframe as  *)
(* far as the exchange answers it, checks what it wrote, and is retried    *)
(* after failures and restarts.                                            *)
(*                                                                         *)
(* The Guardian audits the same rows at the same time.  It applies the     *)
(* factors too (applyCorporateActionFactors), and no lock is shared with   *)
(* the worker.  One step is one call of the store.                         *)
(*                                                                         *)
(* Prices are kept as what the properties tell apart: which actions'       *)
(* factors a minute has been multiplied with.  The value of a 1m row is a  *)
(* set of actions, that of a 1D row such a set for each minute it is built *)
(* from.                                                                   *)
(***************************************************************************)
EXTENDS Integers, FiniteSets, FiniteSetsExt

CONSTANTS
  Day,          \* the days under study, each the set of its minutes
  Action,       \* effective minutes of the splits
  Answered,     \* by frame: minutes the bars may cover that the exchange answers a job
  AuditRange,   \* ranges of minutes the minute audits ask for
  AuditedDay,   \* days the 1D audit of the Guardian visits, none when it is disabled
  MaxAttempts,  \* MaxAttempts of a job
  MaxFaults,    \* bound: failed calls and crashes
  NoBar         \* the row does not exist

Minute == UNION Day
DayOf(m) == CHOOSE d \in Day : m \in d
Frames == <<"1m", "1D">>

ASSUME DayAssumption ==
  /\ Day # {} /\ \A d \in Day : d \subseteq Nat /\ \E i, j \in d : d = i..j
  /\ \A d, e \in Day : d # e => d \cap e = {}
ASSUME ActionAssumption == Action \subseteq Nat
ASSUME RangeAssumption == \A M \in AuditRange : M # {} /\ M \subseteq Minute
ASSUME AnswerAssumption == Answered \in [1..2 -> SUBSET SUBSET Minute]
ASSUME LimitAssumption ==
  MaxAttempts \in Nat \ {0} /\ MaxFaults \in Nat /\ AuditedDay \subseteq Day

VARIABLES
  minuteRow,   \* 1m rows
  dayRow,      \* 1D rows
  verified,    \* 1m rows with a verified_at_ms mark
  job,         \* the corporate_action_job rows: status, attempts, due
  worker,      \* the goroutine of runJobs
  audit,       \* the minute or day repair of the Guardian in progress
  faults,      \* failures so far
  exempt,      \* history: rows last written by an audit that overlapped a job or from
               \*   such rows, and rows the answer to a job left out, until rewritten
  lastEnd      \* history: how the last job ended

rowVars == <<minuteRow, dayRow, verified>>
vars == <<minuteRow, dayRow, verified, job, worker, audit, faults, exempt, lastEnd>>

JobStatus == {"absent", "pending", "running", "retry", "completed", "failed"}
JobRow == [status: JobStatus, attempts: 0..(MaxAttempts + MaxFaults), due: BOOLEAN]
NoJob == [status |-> "absent", attempts |-> 0, due |-> FALSE]

MinuteValue == SUBSET Action
DayValue(d) == UNION {[s -> SUBSET Action] : s \in SUBSET d}
DayRows == [Day -> (UNION {DayValue(d) : d \in Day}) \cup {NoBar}]

Worker == [pc: {"idle", "started", "delete", "write", "verify", "done", "error"},
           job: Action \cup {NoBar}, factors: SUBSET Action, frame: 1..2,
           bars: SUBSET Minute,   \* minutes the answered bars are built from
           left: SUBSET Minute]   \* bars to write; of the days: their first minutes
WorkerIdle == [pc |-> "idle", job |-> NoBar, factors |-> {}, frame |-> 1, bars |-> {},
               left |-> {}]

\* The locals of verifySymbolMinutes and its cascade, or of a 1D repair.
Audit == [pc: {"idle", "minutes", "loop", "cascade", "rollup", "days", "repair"},
          range: SUBSET Minute, factors: SUBSET Action,
          old: [Minute -> MinuteValue \cup {NoBar}],
          left: SUBSET Minute, toMark: SUBSET Minute, day: Day,
          value: (UNION {DayValue(d) : d \in Day}) \cup {NoBar},
          overlap: BOOLEAN]
SomeDay == CHOOSE d \in Day : TRUE
AuditIdle == [pc |-> "idle", range |-> {}, factors |-> {},
              old |-> [m \in Minute |-> NoBar], left |-> {}, toMark |-> {},
              day |-> SomeDay, value |-> NoBar, overlap |-> FALSE]

\* Every variable stays in its type.
TypeOK ==
  /\ minuteRow \in [Minute -> MinuteValue \cup {NoBar}]
  /\ dayRow \in DayRows
  /\ verified \subseteq Minute
  /\ job \in [Action -> JobRow]
  /\ worker \in Worker
  /\ audit \in Audit
  /\ faults \in 0..MaxFaults
  /\ exempt \in [minutes: SUBSET Minute, days: SUBSET Day]
  /\ lastEnd \in {"none", "completed", "failed"}

\* The history is stored raw when the first action is detected.
Init ==
  /\ minuteRow = [m \in Minute |-> {}]
  /\ dayRow = [d \in Day |-> [m \in d |-> {}]]
  /\ verified \in {{}, Minute}
  /\ job = [a \in Action |-> NoJob]
  /\ worker = WorkerIdle
  /\ audit = AuditIdle
  /\ faults = 0
  /\ exempt = [minutes |-> {}, days |-> {}]
  /\ lastEnd = "none"

Fault == faults < MaxFaults /\ faults' = faults + 1

(***************************************************************************)
(* Adjustment.                                                             *)
(***************************************************************************)
\* ListCorporateActionFactors: not the pending and not the failed jobs.
Factors == {a \in Action : job[a].status \in {"running", "retry", "completed"}}

\* applyFactors, applyCorporateActionFactors on a minute: StartMS < EffectiveMS.
ApplyFactors(F, m) == {a \in F : m < a}

\* adjustBinanceBars on a day: a bar that an action falls into is rebuilt from
\* the adjusted minutes of a second fetch, another one is multiplied as a whole.
Crosses(F, d) == \E a \in F : Min(d) < a /\ Max(d) >= a
AdjustDay(F, d, B) ==
  IF Crosses(F, d) THEN [m \in B \cap d |-> ApplyFactors(F, m)]
  ELSE [m \in d |-> {a \in F : Max(d) < a}]

\* applyCorporateActionFactors multiplies a day that starts before the action.
GuardianDay(F, d) == [m \in d |-> ApplyFactors(F, Min(d))]

\* aggregator.RollupBars over the stored minutes of a day, when complete.
RollupDay(d) ==
  IF \E m \in d : minuteRow[m] = NoBar THEN NoBar ELSE [m \in d |-> minuteRow[m]]

\* An audit in progress runs at the same time as the step of a job.
Overlap == [audit EXCEPT !.overlap = audit.pc # "idle"]

(***************************************************************************)
(* Detection and the job queue.                                            *)
(***************************************************************************)
\* handleFinalBar: the ratio of neighbouring minutes is confirmed by REST and no
\* job of that minute exists; INSERT IGNORE.
Detect(a) ==
  /\ job[a].status = "absent"
  /\ job' = [job EXCEPT ![a] = [status |-> "pending", attempts |-> 0, due |-> TRUE]]
  /\ UNCHANGED <<rowVars, worker, audit, faults, exempt, lastEnd>>
\* Mutant: a job left running by a dead process is not listed again.
DueNotStale(a) == job[a].status \in {"pending", "retry"} /\ job[a].due

\* ListDueCorporateActionJobs: pending or retry and next_retry_ms reached, or
\* running and not updated for ten minutes.
Due(a) == job[a].status \in {"pending", "retry", "running"} /\ job[a].due

\* next_retry_ms, or ten minutes without an update, is reached.
TimePasses(a) ==
  /\ job[a].status \in {"retry", "running"} /\ ~job[a].due
  /\ job' = [job EXCEPT ![a].due = TRUE]
  /\ UNCHANGED <<rowVars, worker, audit, faults, exempt, lastEnd>>

\* processJob: running, one more attempt.  (The bound on attempts is never the
\* reason a job is not started: each lost outcome costs a fault.)
JobStart(a) ==
  /\ worker.pc = "idle" /\ Due(a) /\ job[a].attempts < MaxAttempts + MaxFaults
  /\ job' = [job EXCEPT ![a] = [status |-> "running", attempts |-> @.attempts + 1,
                                due |-> FALSE]]
  /\ worker' = [WorkerIdle EXCEPT !.pc = "started", !.job = a]
  /\ audit' = Overlap
  /\ UNCHANGED <<rowVars, faults, exempt, lastEnd>>

(***************************************************************************)
(* backfill.                                                               *)
(***************************************************************************)
BackfillFactors ==
  /\ worker.pc = "started"
  /\ worker' = [worker EXCEPT !.pc = "delete", !.factors = Factors]
  /\ audit' = Overlap
  /\ UNCHANGED <<rowVars, job, faults, exempt, lastEnd>>

\* fetchAdjustedBars may answer with any part of the frame: of the minutes any, of
\* the days any, and for a day that an action falls into any of its minutes.
Answers(B) ==
  Frames[worker.frame] = "1D" =>
    \A d \in Day : B \cap d \in {{}, d} \/ Crosses(worker.factors, d)

NextFrame ==
  IF worker.frame < 2 THEN [worker EXCEPT !.pc = "delete", !.frame = @ + 1, !.bars = {}]
  ELSE [worker EXCEPT !.pc = "done", !.bars = {}]

\* The attempt ends with an error; its locals are not used any more.
Failed == [WorkerIdle EXCEPT !.pc = "error", !.job = worker.job]

\* DeleteBarsInRange from the first to the last answered bar; what lies outside
\* keeps its old row.  Without a bar the timeframe is skipped.
BackfillDelete(B) ==
  /\ worker.pc = "delete" /\ Answers(B)
  /\ IF Frames[worker.frame] = "1m"
       THEN LET span == {m \in Minute : \E i, j \in B : i <= m /\ m <= j} IN
            /\ minuteRow' = [m \in Minute |-> IF m \in span THEN NoBar ELSE minuteRow[m]]
            /\ verified' = verified \ span
            /\ worker' = IF B = {} THEN NextFrame
                         ELSE [worker EXCEPT !.pc = "write", !.bars = B, !.left = B]
            /\ exempt' = [exempt EXCEPT !.minutes = @ \cup (Minute \ B)]
            /\ UNCHANGED dayRow
       ELSE LET span == {d \in Day : \E i, j \in B : i <= Max(d) /\ Min(d) <= j} IN
            /\ dayRow' = [d \in Day |-> IF d \in span THEN NoBar ELSE dayRow[d]]
            /\ worker' = IF B = {} THEN NextFrame
                         ELSE [worker EXCEPT !.pc = "write", !.bars = B,
                                 !.left = {Min(d) : d \in {e \in Day : B \cap e # {}}}]
            /\ exempt' = [exempt EXCEPT !.days = @ \cup {d \in Day : ~(d \subseteq B)}]
            /\ UNCHANGED <<minuteRow, verified>>
  /\ audit' = Overlap
  /\ UNCHANGED <<job, faults, lastEnd>>

\* UpsertBars of the next batch; it leaves a minute verified meanwhile alone.
BackfillWrite ==
  /\ worker.pc = "write" /\ worker.left # {}
  /\ IF Frames[worker.frame] = "1m"
       THEN LET m == Min(worker.left) IN
            /\ minuteRow' = IF m \in verified THEN minuteRow
                            ELSE [minuteRow EXCEPT ![m] = ApplyFactors(worker.factors, m)]
            /\ worker' = [worker EXCEPT !.left = @ \ {m}]
            /\ exempt' = IF m \in verified THEN exempt
                         ELSE [exempt EXCEPT !.minutes = @ \ {m}]
            /\ UNCHANGED <<dayRow, verified>>
       ELSE LET d == DayOf(Min(worker.left)) IN
            /\ dayRow' = [dayRow EXCEPT ![d] = AdjustDay(worker.factors, d, worker.bars)]
            /\ worker' = [worker EXCEPT !.left = @ \ d]
            /\ exempt' = IF d \subseteq worker.bars THEN [exempt EXCEPT !.days = @ \ {d}]
                         ELSE exempt
            /\ UNCHANGED <<minuteRow, verified>>
  /\ audit' = Overlap
  /\ UNCHANGED <<job, faults, lastEnd>>

\* verifyStored compares the answered bars, then the next timeframe; a mismatch
\* fails the attempt.
BackfillVerify ==
  /\ worker.pc = "write" /\ worker.left = {}
  /\ LET same == IF Frames[worker.frame] = "1m"
                   THEN \A m \in worker.bars : minuteRow[m] = ApplyFactors(worker.factors, m)
                   ELSE \A d \in Day : worker.bars \cap d # {} =>
                          dayRow[d] = AdjustDay(worker.factors, d, worker.bars)
     IN worker' = IF same THEN NextFrame ELSE Failed
  /\ audit' = Overlap
  /\ UNCHANGED <<rowVars, job, faults, exempt, lastEnd>>

JobComplete ==
  /\ worker.pc = "done"
  /\ job' = [job EXCEPT ![worker.job].status = "completed", ![worker.job].due = FALSE]
  /\ worker' = WorkerIdle /\ lastEnd' = "completed"
  /\ audit' = Overlap
  /\ UNCHANGED <<rowVars, faults, exempt>>
\* Mutant: the last attempt's failure is recorded as a completion.
JobErrorCompletes ==
  /\ worker.pc = "error"
  /\ LET a == worker.job
         last == job[a].attempts >= MaxAttempts
     IN /\ job' = [job EXCEPT ![a].status = IF last THEN "completed" ELSE "retry",
                              ![a].due = FALSE]
        /\ lastEnd' = IF last THEN "completed" ELSE lastEnd
  /\ worker' = WorkerIdle
  /\ audit' = Overlap
  /\ UNCHANGED <<rowVars, faults, exempt>>

\* The attempt failed: retry later, or give up after MaxAttempts.
JobError ==
  /\ worker.pc = "error"
  /\ LET a == worker.job
         last == job[a].attempts >= MaxAttempts
     IN /\ job' = [job EXCEPT ![a].status = IF last THEN "failed" ELSE "retry",
                              ![a].due = FALSE]
        /\ lastEnd' = IF last THEN "failed" ELSE lastEnd
  /\ worker' = WorkerIdle
  /\ audit' = Overlap
  /\ UNCHANGED <<rowVars, faults, exempt>>

\* A REST or store call, or the cache clearing, fails, or a day that an action falls
\* into has no minutes.
BackfillFails ==
  /\ worker.pc \notin {"idle", "error"} /\ Fault
  /\ worker' = Failed
  /\ audit' = Overlap
  /\ UNCHANGED <<rowVars, job, exempt, lastEnd>>

\* The final UpdateCorporateActionJob is lost: the row stays running.
OutcomeLost ==
  /\ worker.pc \in {"done", "error"} /\ Fault
  /\ worker' = WorkerIdle
  /\ UNCHANGED <<rowVars, job, audit, exempt, lastEnd>>

(***************************************************************************)
(* Guardian: repairTimeframeRange of minutes (VerifyFinalBars and its      *)
(* cascade) and of a day (RepairFinalBars), as far as they touch the rows. *)
(***************************************************************************)
Busy == worker.pc # "idle"

\* A row written by an audit that ran while a job did, or built from such rows.
MinuteWritten(m) ==
  exempt' = [exempt EXCEPT !.minutes =
                   IF audit.overlap \/ Busy THEN @ \cup {m} ELSE @ \ {m}]
DayWritten(d, sources) ==
  exempt' = [exempt EXCEPT !.days =
                   IF audit.overlap \/ Busy \/ sources \cap exempt.minutes # {}
                     THEN @ \cup {d} ELSE @ \ {d}]

AuditMinutes(M) ==
  /\ audit.pc = "idle"
  /\ audit' = [AuditIdle EXCEPT !.pc = "minutes", !.range = M, !.factors = Factors,
                                !.overlap = Busy]
  /\ UNCHANGED <<rowVars, job, worker, faults, exempt, lastEnd>>

AuditLoad ==
  /\ audit.pc = "minutes"
  /\ audit' = [audit EXCEPT !.pc = "loop", !.left = audit.range, !.range = {},
                !.old = [m \in Minute |-> IF m \in audit.range THEN minuteRow[m] ELSE NoBar],
                !.toMark = {m \in audit.range \ verified :
                              minuteRow[m] = ApplyFactors(audit.factors, m)}]
  /\ UNCHANGED <<rowVars, job, worker, faults, exempt, lastEnd>>

\* One bar of the loop: equal to the loaded row, or revised and then cascaded.
AuditBar ==
  /\ audit.pc = "loop" /\ audit.left # {}
  /\ LET m == Min(audit.left)
         v == ApplyFactors(audit.factors, m)
     IN IF audit.old[m] = v
          THEN /\ audit' = [audit EXCEPT !.left = @ \ {m}, !.old[m] = NoBar]
               /\ UNCHANGED <<minuteRow, exempt>>
          ELSE /\ minuteRow' = [minuteRow EXCEPT ![m] = v]
               /\ audit' = [audit EXCEPT !.pc = "cascade", !.left = @ \ {m}, !.old[m] = NoBar,
                              !.toMark = @ \cup {m}, !.day = DayOf(m)]
               /\ MinuteWritten(m)
  /\ UNCHANGED <<dayRow, verified, job, worker, faults, lastEnd>>

\* rebuildRollupBucket reads the sources of the day ...
AuditCascade ==
  /\ audit.pc = "cascade"
  /\ LET v == RollupDay(audit.day)
     IN audit' = IF v = NoBar THEN [audit EXCEPT !.pc = "loop", !.day = SomeDay]
                 ELSE [audit EXCEPT !.pc = "rollup", !.value = v]
  /\ UNCHANGED <<rowVars, job, worker, faults, exempt, lastEnd>>

\* ... and then writes it.
AuditRollup ==
  /\ audit.pc = "rollup"
  /\ dayRow' = [dayRow EXCEPT ![audit.day] = audit.value]
  /\ audit' = [audit EXCEPT !.pc = "loop", !.day = SomeDay, !.value = NoBar]
  /\ DayWritten(audit.day, audit.day)
  /\ UNCHANGED <<minuteRow, verified, job, worker, faults, lastEnd>>

\* MarkMinutesVerified marks the rows that still hold the answered values.
AuditMark ==
  /\ audit.pc = "loop" /\ audit.left = {}
  /\ verified' = verified \cup {m \in audit.toMark :
                                  minuteRow[m] = ApplyFactors(audit.factors, m)}
  /\ audit' = AuditIdle
  /\ UNCHANGED <<minuteRow, dayRow, job, worker, faults, exempt, lastEnd>>

\* The hourly audit of a recent day: factors, then the local row, then the repair.
AuditDay(d) ==
  /\ audit.pc = "idle"
  /\ audit' = [AuditIdle EXCEPT !.pc = "days", !.day = d, !.factors = Factors,
                                !.overlap = Busy]
  /\ UNCHANGED <<rowVars, job, worker, faults, exempt, lastEnd>>

AuditDayLoad ==
  /\ audit.pc = "days"
  /\ audit' = IF dayRow[audit.day] = GuardianDay(audit.factors, audit.day)
                THEN AuditIdle
                ELSE [audit EXCEPT !.pc = "repair",
                        !.value = GuardianDay(audit.factors, audit.day)]
  /\ UNCHANGED <<rowVars, job, worker, faults, exempt, lastEnd>>

AuditDayRepair ==
  /\ audit.pc = "repair"
  /\ dayRow' = [dayRow EXCEPT ![audit.day] = audit.value]
  /\ audit' = AuditIdle
  /\ DayWritten(audit.day, {})
  /\ UNCHANGED <<minuteRow, verified, job, worker, faults, lastEnd>>

Crash ==
  /\ Fault
  /\ worker' = WorkerIdle /\ audit' = AuditIdle
  /\ UNCHANGED <<rowVars, job, exempt, lastEnd>>

BackfillStep ==
  \/ BackfillFactors \/ BackfillWrite \/ BackfillVerify \/ JobComplete \/ JobError
  \/ \E B \in Answered[worker.frame] : BackfillDelete(B)

AuditStep ==
  AuditLoad \/ AuditBar \/ AuditCascade \/ AuditRollup \/ AuditMark
    \/ AuditDayLoad \/ AuditDayRepair

Next ==
  \/ \E a \in Action : Detect(a) \/ TimePasses(a) \/ JobStart(a)
  \/ BackfillStep \/ BackfillFails \/ OutcomeLost
  \/ \E M \in AuditRange : AuditMinutes(M)
  \/ \E d \in AuditedDay : AuditDay(d)
  \/ AuditStep \/ Crash

Spec == Init /\ [][Next]_vars

(***************************************************************************)
(* Fairness: the job goroutine goes on, polling or working (WF), and time  *)
(* passes (WF).                                                            *)
(***************************************************************************)
Fairness ==
  /\ WF_vars(BackfillStep \/ \E a \in Action : JobStart(a))
  /\ WF_vars(\E a \in Action : TimePasses(a))

FairSpec == Spec /\ Fairness

(***************************************************************************)
(* Properties.                                                             *)
(***************************************************************************)
Outstanding == {a \in Action : job[a].status \in {"pending", "running", "retry"}}
Quiet == Outstanding = {} /\ worker.pc = "idle" /\ audit.pc = "idle"

\* When no job is outstanding and the last one to end completed, every row of
\* every timeframe is forward-adjusted by exactly the actions applied so far, each
\* minute of a crossing bar on its own side, however often attempts failed or the
\* process died in the middle.  Two kinds of rows may differ: a row last written by
\* an audit that ran during a job, and a row the exchange's answer to the job left
\* out (worker.go skips an empty answer and completes all the same), until an audit
\* or a later job writes it.
AdjustedWhenQuiet ==
  (Quiet /\ lastEnd = "completed") =>
    /\ \A m \in Minute : m \in exempt.minutes \/ minuteRow[m] = {a \in Factors : m < a}
    /\ \A d \in Day : d \in exempt.days \/
         dayRow[d] = [m \in d |-> {a \in Factors : m < a}]

\* A confirmed action is completed or given up in the end, through any finite
\* number of failures, lost outcomes and crashes: again and again no job is left
\* outstanding (an ended job never becomes outstanding again).
JobsEnd == []<>(Outstanding = {})
=============================================================================
