------------------------- MODULE MinuteAuditGuardian -------------------------
(***************************************************************************)
(* The Guardian goroutines that register and work off the minute audit     *)
(* ledger of one symbol (internal/guardian/durable_minute_audit.go and     *)
(* minute_day_audit.go):                                                   *)
(*                                                                         *)
(*   audit  - the rolling audit round: registers downtime gaps and the     *)
(*            current window, then executes the window;                    *)
(*   retry  - the retry worker of the non_daily group;                     *)
(*   days   - the scheduler of settled UTC days;                           *)
(*   daily  - the retry worker of the daily group.                         *)
(*                                                                         *)
(* What an execution does to the candles is MinuteCalibration's subject;   *)
(* here it succeeds or fails.  One step is one call of the ledger, so      *)
(* every worker may be overtaken, and the process may die, between any two *)
(* of its calls.  Rows are named by identity: a worker that kept the id of *)
(* a row since deleted is allowed to act on a row registered again under   *)
(* the same identity, which the code's fresh ids exclude.                  *)
(***************************************************************************)
EXTENDS MinuteAuditLedger

CONSTANTS
  StartMinute,  \* minute at which the service is first started
  AuditInterval, \* minutes between two rounds of the rolling audit
  AuditDelay,   \* minutes a closed candle is left alone by the rolling audit
  Window,       \* AuditWindow, in minutes
  Chunk,        \* length of one downtime task (24 hours)
  Day,          \* length of a UTC day
  DayOffset,    \* MinuteDayAuditOffset
  Retention,    \* MinuteRetention
  ListedAt,     \* official listing minute of the symbol
  MaxFaults     \* bound: failed calls, crashes and changes of the inventory

ASSUME WorkerAssumption == Worker \subseteq {"audit", "retry", "days", "daily"}
ASSUME ConfigAssumption ==
  /\ AuditDelay \in Nat /\ DayOffset \in Nat /\ ListedAt \in Nat /\ MaxFaults \in Nat
  /\ Window \in Nat \ {0} /\ Chunk \in Nat \ {0} /\ Day \in Nat \ {0}
  /\ Retention \in Nat \ {0} /\ AuditInterval \in Nat \ {0}
  /\ StartMinute \in Minutes /\ StartMinute > AuditDelay + Window

VARIABLES
  minute,      \* the minute the wall clock is in
  roundAt,     \* minute the audit ticker was started or last fired
  inventory,   \* symbol in the official inventory: "fresh" (traded), "unavailable",
               \*   "unsubscribed" (delisted, halted or taken off the list)
  minuteLock,  \* worker holding the symbol's minuteLock, or NoToken
  job,         \* what each worker is doing
  faults,      \* failures so far
  first,       \* history: first minute a group was made responsible for; 0 if none
  checked,     \* history: minutes a completed execution of a group has checked
  dirty,       \* history: minutes of interrupted executions that no replay completed
  waived       \* history: minutes of rows ended because the pass read a fresh
               \*   inventory in which the symbol was not subscribed

jobVars == <<minuteLock, job>>
histVars == <<first, checked, dirty, waived>>
vars == <<tasks, cursor, minute, roundAt, inventory, minuteLock, job, faults, first,
          checked, dirty, waived>>

NoId == [kind |-> "window", start |-> 1, end |-> 1]
Pc == {"idle", "round", "plan", "save", "want", "locked", "running",
       "picked", "defer", "deferring"}
Job == [pc: Pc,
        id: Identity,          \* task
        from: 0..Horizon + 1,  \* from, or day
        start: 0..Horizon, end: 0..Horizon,  \* startMS, endMS; latestDay
        retained: Int,         \* retainedStart, or oldestDay
        replay: BOOLEAN,       \* request.ForceReplay
        force: BOOLEAN,        \* task.ForceReplay of the listed row
        symbol: {"fresh", "unavailable", "unsubscribed"},  \* bySymbol and snapshots
        outcome: Outstanding \cup Terminal]
Idle == [pc |-> "idle", id |-> NoId, from |-> 0, start |-> 0, end |-> 0,
         retained |-> 0, replay |-> FALSE, force |-> FALSE, symbol |-> "fresh",
         outcome |-> "waiting"]

\* Every variable stays in its type.
TypeOK ==
  /\ LedgerTypeOK
  /\ minute \in Minutes /\ roundAt \in Int
  /\ inventory \in {"fresh", "unavailable", "unsubscribed"}
  /\ minuteLock \in Worker \cup {NoToken}
  /\ job \in [Worker -> Job]
  /\ faults \in 0..MaxFaults
  /\ first \in [Groups -> 0..Horizon]
  /\ checked \in [Groups -> SUBSET Minutes]
  /\ dirty \subseteq Minutes
  /\ waived \in [Groups -> SUBSET Minutes]

Init ==
  /\ LedgerInit
  /\ minute = StartMinute
  /\ roundAt = StartMinute - AuditInterval
  /\ inventory = "fresh"
  /\ minuteLock = NoToken
  /\ job = [w \in Worker |-> Idle]
  /\ faults = 0
  /\ first = [g \in Groups |-> 0]
  /\ checked = [g \in Groups |-> {}]
  /\ dirty = {}
  /\ waived = [g \in Groups |-> {}]

Smaller(a, b) == IF a < b THEN a ELSE b
Fault == faults < MaxFaults /\ faults' = faults + 1
Become(w, j) == job' = [job EXCEPT ![w] = j]

\* saveMinuteCursor; the first save makes the group responsible from there on.
SaveThrough(g, i) ==
  /\ SaveCursor(g, i.end)
  /\ first' = [first EXCEPT ![g] = IF @ = 0 THEN i.start ELSE @]

\* retainedStart: the first minute the retention job has not removed.
Retained == minute - Retention + 1

\* FloorStartMS(_, "1D").
FloorDay(m) == (m \div Day) * Day

(***************************************************************************)
(* auditMinuteWindow.                                                      *)
(***************************************************************************)
\* auditOnce computes the window of the round for all its symbols.
AuditBegin(w) ==
  /\ w = "audit" /\ job[w].pc = "idle" /\ inventory = "fresh"
  /\ minute >= roundAt + AuditInterval
  /\ roundAt' = minute
  /\ LET last == minute - AuditDelay - 1
     IN Become(w, [Idle EXCEPT !.pc = "round", !.start = last - Window + 1, !.end = last])
  /\ UNCHANGED <<ledgerVars, minute, inventory, minuteLock, faults, histVars>>
\* Mutant: the cursor is taken for an exclusive end that was already covered.
AuditLoadSkips(w) ==
  /\ w = "audit" /\ job[w].pc = "round"
  /\ LET from == IF cursor["non_daily"] = 0 THEN job[w].start
                 ELSE cursor["non_daily"] + 2
     IN Become(w, [job[w] EXCEPT !.pc = "plan", !.from = from, !.retained = Retained])
  /\ UNCHANGED <<ledgerVars, minute, roundAt, inventory, minuteLock, faults, histVars>>

\* The symbol's turn: read the cursor and the clock.
AuditLoad(w) ==
  /\ w = "audit" /\ job[w].pc = "round"
  /\ LET from == IF cursor["non_daily"] = 0 THEN job[w].start
                 ELSE cursor["non_daily"] + 1
     IN Become(w, [job[w] EXCEPT !.pc = "plan", !.from = from, !.retained = Retained])
  /\ UNCHANGED <<ledgerVars, minute, roundAt, inventory, minuteLock, faults, histVars>>

\* The next range to register: the part of the gap that is past retention, then
\* the gap in chunks, then the window itself.
NextRange(j) ==
  IF j.from < j.start
    THEN [kind |-> "catchup", start |-> j.from,
          end |-> Smaller(IF j.from < j.retained THEN j.retained - 1
                          ELSE j.from + Chunk - 1, j.start - 1)]
    ELSE [kind |-> "window", start |-> j.start, end |-> j.end]

\* EnqueueMinuteAuditTask of the next range ...
AuditEnqueue(w) ==
  /\ w = "audit" /\ job[w].pc = "plan"
  /\ Enqueue(NextRange(job[w]), FALSE)
  /\ Become(w, [job[w] EXCEPT !.pc = "save", !.id = NextRange(job[w])])
  /\ UNCHANGED <<cursor, minute, roundAt, inventory, minuteLock, faults, histVars>>

\* ... and then saveMinuteCursor through its end.
AuditSave(w) ==
  /\ w = "audit" /\ job[w].pc = "save"
  /\ SaveThrough("non_daily", job[w].id)
  /\ Become(w, IF job[w].id.kind = "window"
                 THEN [Idle EXCEPT !.pc = "want", !.id = job[w].id]
                 ELSE [job[w] EXCEPT !.pc = "plan", !.from = job[w].id.end + 1])
  /\ UNCHANGED <<tasks, minute, roundAt, inventory, minuteLock, faults, checked, dirty, waived>>

(***************************************************************************)
(* MinuteDayAuditOnce.                                                     *)
(***************************************************************************)
LatestDay == FloorDay(minute - DayOffset) - Day
OldestDay == FloorDay(minute - Retention) + Day

\* The cursor of the symbol decides the first day; a first rollout starts with
\* the last settled day.
DaysBegin(w) ==
  /\ w = "days" /\ job[w].pc = "idle" /\ inventory = "fresh" /\ LatestDay > 0
  /\ LET day == IF cursor["daily"] = 0 THEN LatestDay ELSE FloorDay(cursor["daily"] + 1)
     IN /\ day <= LatestDay
        /\ Become(w, [Idle EXCEPT !.pc = "plan", !.from = day, !.end = LatestDay,
                                  !.retained = OldestDay])
  /\ UNCHANGED <<ledgerVars, minute, roundAt, inventory, minuteLock, faults, histVars>>

\* The days past retention as one expiring range, then day by day.
NextDays(j) ==
  [kind |-> "daily", start |-> j.from,
   end |-> IF j.from < j.retained THEN j.retained - 1 ELSE j.from + Day - 1]

DaysEnqueue(w) ==
  /\ w = "days" /\ job[w].pc = "plan"
  /\ Enqueue(NextDays(job[w]), FALSE)
  /\ Become(w, [job[w] EXCEPT !.pc = "save", !.id = NextDays(job[w])])
  /\ UNCHANGED <<cursor, minute, roundAt, inventory, minuteLock, faults, histVars>>

DaysSave(w) ==
  /\ w = "days" /\ job[w].pc = "save"
  /\ SaveThrough("daily", job[w].id)
  /\ LET day == job[w].id.end + 1
     IN Become(w, IF day > job[w].end THEN Idle
                  ELSE [job[w] EXCEPT !.pc = "plan", !.from = day])
  /\ UNCHANGED <<tasks, minute, roundAt, inventory, minuteLock, faults, checked, dirty, waived>>

(***************************************************************************)
(* executeMinuteTask and executeLeasedMinuteTask.                          *)
(***************************************************************************)
ExecLock(w) ==
  /\ job[w].pc = "want" /\ minuteLock = NoToken
  /\ minuteLock' = w
  /\ Become(w, [job[w] EXCEPT !.pc = "locked"])
  /\ UNCHANGED <<ledgerVars, minute, roundAt, inventory, faults, histVars>>

\* Load and lease under the lock; replay is decided from the row as it was.
ExecLease(w) ==
  /\ job[w].pc = "locked"
  /\ LET i == job[w].id
     IN /\ Lease(i, w)
        /\ Become(w, [job[w] EXCEPT !.pc = "running",
                        !.replay = tasks[i].force \/ tasks[i].attempted \/ i.kind = "daily"])
  /\ UNCHANGED <<cursor, minute, roundAt, inventory, minuteLock, faults, histVars>>

\* The row is gone, terminal, in backoff or leased: nothing to do.
ExecSkip(w) ==
  /\ job[w].pc = "locked" /\ ~Due(job[w].id)
  /\ minuteLock' = NoToken /\ Become(w, Idle)
  /\ UNCHANGED <<ledgerVars, minute, roundAt, inventory, faults, histVars>>

\* An execution of i was cut short: its writes may be there without their cascade.
Interrupted(i) == dirty' = dirty \cup Range(i)

\* The execution ends and its outcome is recorded, if the lease is still w's.
ExecFinish(w, outcome) ==
  /\ job[w].pc = "running"
  /\ LET i == job[w].id
         held == MayFinish(i, w, FALSE)
     IN /\ IF held THEN Finish(i, outcome, outcome # "completed") ELSE UNCHANGED tasks
        /\ IF outcome = "completed"
             THEN /\ dirty' = IF job[w].replay THEN dirty \ Range(i) ELSE dirty
                  /\ checked' = [checked EXCEPT ![Group(i)] = @ \cup Range(i)]
                  /\ UNCHANGED faults
             ELSE Fault /\ Interrupted(i) /\ UNCHANGED checked
  /\ minuteLock' = NoToken /\ Become(w, Idle)
  /\ UNCHANGED <<cursor, minute, roundAt, inventory, first, waived>>

(***************************************************************************)
(* minuteRetryPass and deferMinuteTask.                                    *)
(***************************************************************************)
\* ListDueMinuteAuditTasksByKind, the targets and the snapshots, as read once
\* for the pass; the row and the inventory may have changed when it is handled.
RetryList(w, i) ==
  /\ w \in {"retry", "daily"} /\ job[w].pc = "idle"
  /\ Due(i) /\ Group(i) = (IF w = "daily" THEN "daily" ELSE "non_daily")
  /\ Become(w, [Idle EXCEPT !.pc = "picked", !.id = i, !.force = tasks[i].force,
                            !.symbol = inventory])
  /\ UNCHANGED <<ledgerVars, minute, roundAt, inventory, minuteLock, faults, histVars>>

Remainder(i) == [i EXCEPT !.start = Retained]
\* Mutant: the remainder does not inherit the need for a replay.
RetryExpireForgetsReplay(w) ==
  /\ job[w].pc = "picked"
  /\ LET i == job[w].id
     IN /\ i.start < Retained
        /\ IF i.end >= Retained THEN Enqueue(Remainder(i), FALSE) ELSE UNCHANGED tasks
  /\ Become(w, [job[w] EXCEPT !.pc = "defer", !.outcome = "expired"])
  /\ UNCHANGED <<cursor, minute, roundAt, inventory, minuteLock, faults, histVars>>

\* Mutant: the whole row expires with its first minute.
RetryExpireDropsRemainder(w) ==
  /\ job[w].pc = "picked" /\ job[w].id.start < Retained
  /\ Become(w, [job[w] EXCEPT !.pc = "defer", !.outcome = "expired"])
  /\ UNCHANGED <<ledgerVars, minute, roundAt, inventory, minuteLock, faults, histVars>>

\* Part of the range is past retention: what is left is registered first, to be
\* replayed, and then the row itself will expire.
RetryExpire(w) ==
  /\ job[w].pc = "picked"
  /\ LET i == job[w].id
     IN /\ i.start < Retained
        /\ IF i.end >= Retained THEN Enqueue(Remainder(i), TRUE) ELSE UNCHANGED tasks
  /\ Become(w, [job[w] EXCEPT !.pc = "defer", !.outcome = "expired"])
  /\ UNCHANGED <<cursor, minute, roundAt, inventory, minuteLock, faults, histVars>>

\* Before the listing, or the inventory says the symbol is not subscribed: excluded
\* for good, also when the symbol is only halted and will be back.  Without a fresh
\* inventory the work is kept ("blocked").  Otherwise it is executed.
RetryDecide(w) ==
  /\ job[w].pc = "picked" /\ job[w].id.start >= Retained
  /\ LET j == job[w]
         listed == ListedAt <= j.id.end
     IN Become(w, IF listed /\ j.symbol = "fresh"
                    THEN [Idle EXCEPT !.pc = "want", !.id = j.id]
                    ELSE [j EXCEPT !.pc = "defer",
                            !.outcome = IF listed /\ j.symbol = "unavailable"
                                          THEN "waiting" ELSE "excluded"])
  /\ UNCHANGED <<ledgerVars, minute, roundAt, inventory, minuteLock, faults, histVars>>

\* deferMinuteTask does not take minuteLock: only the lease protects the row.
DeferLease(w) ==
  /\ job[w].pc = "defer"
  /\ IF Due(job[w].id)
       THEN Lease(job[w].id, w) /\ Become(w, [job[w] EXCEPT !.pc = "deferring"])
       ELSE Become(w, Idle) /\ UNCHANGED tasks
  /\ UNCHANGED <<cursor, minute, roundAt, inventory, minuteLock, faults, histVars>>

DeferFinish(w) ==
  /\ job[w].pc = "deferring"
  /\ LET i == job[w].id
         gone == job[w].outcome = "excluded" /\ job[w].symbol = "unsubscribed"
     IN IF MayFinish(i, w, TRUE)
          THEN /\ Finish(i, job[w].outcome, job[w].force)
               /\ waived' = IF gone THEN [waived EXCEPT ![Group(i)] = @ \cup Range(i)]
                            ELSE waived
          ELSE UNCHANGED <<tasks, waived>>
  /\ Become(w, Idle)
  /\ UNCHANGED <<cursor, minute, roundAt, inventory, minuteLock, faults, first, checked, dirty>>

(***************************************************************************)
(* Failures and the passing of time.                                       *)
(***************************************************************************)
\* A call of the worker fails: it returns and gives the lock back.
CallFails(w) ==
  /\ job[w].pc # "idle" /\ Fault
  /\ IF job[w].pc = "running" THEN Interrupted(job[w].id) ELSE UNCHANGED dirty
  /\ minuteLock' = IF minuteLock = w THEN NoToken ELSE minuteLock
  /\ Become(w, Idle)
  /\ UNCHANGED <<ledgerVars, minute, roundAt, inventory, first, checked, waived>>

Crash ==
  /\ Fault
  /\ dirty' = dirty \cup UNION {Range(job[w].id) : w \in {x \in Worker : job[x].pc = "running"}}
  /\ minuteLock' = NoToken /\ job' = [w \in Worker |-> Idle]
  /\ roundAt' = minute
  /\ UNCHANGED <<ledgerVars, minute, inventory, first, checked, waived>>

\* A snapshot refresh fails or recovers, or reports the symbol delisted, halted,
\* removed from the subscription, or back.
InventoryChanges ==
  /\ \/ inventory' \in {"unavailable", "unsubscribed"} \ {inventory} /\ Fault
     \/ inventory # "fresh" /\ inventory' = "fresh" /\ UNCHANGED faults
  /\ UNCHANGED <<ledgerVars, minute, roundAt, jobVars, histVars>>

MinutePasses ==
  /\ minute < Horizon
  /\ minute' = minute + 1
  /\ UNCHANGED <<ledgerVars, roundAt, inventory, jobVars, faults, histVars>>

\* The worker that leased i is still at it.
Busy(i) == \E w \in Worker : /\ job[w].pc \in {"running", "deferring"}
                             /\ job[w].id = i /\ tasks[i].token = w

\* A backoff ends, or the lease of a worker that is gone.
TimeReaches(i) ==
  /\ ~Busy(i) /\ TimePasses(i)
  /\ UNCHANGED <<minute, roundAt, inventory, jobVars, faults, histVars>>

\* An execution outlives its lease: its deadline of 8 minutes is shorter than the
\* lease of 10, but waiting for the symbol lock does not heed it.
LeaseOverruns(i) ==
  /\ Busy(i) /\ Fault /\ TimePasses(i)
  /\ UNCHANGED <<minute, roundAt, inventory, jobVars, histVars>>

WorkerStep(w) ==
  \/ AuditLoad(w) \/ AuditEnqueue(w) \/ AuditSave(w)
  \/ DaysEnqueue(w) \/ DaysSave(w)
  \/ ExecLock(w) \/ ExecLease(w) \/ ExecSkip(w) \/ ExecFinish(w, "completed")
  \/ RetryExpire(w) \/ RetryDecide(w) \/ DeferLease(w) \/ DeferFinish(w)

Next ==
  \/ \E w \in Worker : \/ AuditBegin(w) \/ DaysBegin(w) \/ WorkerStep(w) \/ CallFails(w)
                       \/ ExecFinish(w, "waiting")
                       \/ \E i \in DOMAIN tasks : RetryList(w, i)
  \/ \E i \in DOMAIN tasks : TimeReaches(i) \/ LeaseOverruns(i)
  \/ Crash \/ InventoryChanges \/ MinutePasses

Spec == Init /\ [][Next]_vars

(***************************************************************************)
(* Fairness.  A worker in the middle of its work goes on (WF), and obtains *)
(* minuteLock when it keeps asking (SF: a contended sync.Mutex is handed   *)
(* over in FIFO order).  The retry workers poll, and handle every row they *)
(* list, oldest due first, so a due backlog row is picked (SF).  Backoffs  *)
(* and leases end (WF).                                                    *)
(***************************************************************************)
Backlog == {i \in DOMAIN tasks : i.kind # "window" /\ tasks[i].status \in Outstanding}

Fairness ==
  /\ \A w \in Worker : /\ WF_vars(WorkerStep(w))
                       /\ SF_vars(ExecLock(w))
                       /\ SF_vars(\E i \in Backlog : RetryList(w, i))
  /\ WF_vars(\E i \in Backlog : TimeReaches(i))

FairSpec == Spec /\ Fairness

(***************************************************************************)
(* Properties.                                                             *)
(***************************************************************************)
OutstandingRow(i) == tasks[i].status \in Outstanding

\* Nobody has to check m: past retention, or before the listing.
Excused(m) == m < Retained \/ m < ListedAt

\* No minute behind a registration cursor is forgotten: it was checked, a row
\* still to be worked off covers it, it is past retention or before the listing, or
\* its own row was ended on a fresh inventory that said the symbol is not
\* subscribed, whatever failed between registration, cursor, expiry and execution.
\* An inventory that is only unavailable ends nothing, and a symbol that comes back
\* loses the minutes of the rows ended meanwhile and no others.
CursorCovered ==
  \A g \in Groups : \A m \in first[g]..cursor[g] :
    \/ first[g] = 0 \/ m \in checked[g] \cup waived[g] \/ Excused(m)
    \/ \E i \in DOMAIN tasks : Group(i) = g /\ OutstandingRow(i) /\ m \in Range(i)

\* A minute of an interrupted execution stays covered by a row whose next
\* execution replays the cascade, through expiry, remainders and deferrals, unless
\* it is excused or one of its rows was ended on an inventory without the symbol.
ReplayNotForgotten ==
  \A m \in dirty : Excused(m) \/ (\E g \in Groups : m \in waived[g]) \/
    \E i \in DOMAIN tasks :
      /\ m \in Range(i) /\ OutstandingRow(i)
      /\ tasks[i].force \/ tasks[i].attempted \/ i.kind = "daily"

\* While a lease is not taken over, only its holder ends it, and only by the call
\* that returns from the execution or the deferral: a late finish of a previous
\* holder changes nothing.
LeaseExclusive ==
  [][\A w \in Worker : \A i \in DOMAIN tasks :
       (tasks[i].status = "running" /\ tasks[i].token = w
          /\ (i \notin DOMAIN tasks' \/ tasks'[i].status # "running")) =>
         job[w].pc \in {"running", "deferring"} /\ job[w].id = i /\ job'[w].pc = "idle"]_vars

\* Backlog is worked off: a minute of a downtime gap or of a settled day does not
\* stay outstanding, unless the inventory stays unavailable.
BacklogDrains ==
  <>[](inventory # "unavailable") =>
    \A m \in Minutes : (\E i \in Backlog : m \in Range(i)) ~> (\A i \in Backlog : m \notin Range(i))
=============================================================================
