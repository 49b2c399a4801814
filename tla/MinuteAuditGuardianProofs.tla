--------------------- MODULE MinuteAuditGuardianProofs ---------------------
(***************************************************************************)
(* A lease of the minute audit ledger is ended by its holder only, no      *)
(* minute behind a registration cursor is forgotten, and no replay that an *)
(* interrupted execution calls for is, for every horizon, configuration,   *)
(* set of workers and number of failures.                                  *)
(***************************************************************************)
EXTENDS MinuteAuditGuardian, TLAPS

\* Row i was running under w's lease and is not any more.
Released(i, w) == /\ i \in DOMAIN tasks
                  /\ tasks[i].status = "running" /\ tasks[i].token = w
                  /\ i \notin DOMAIN tasks' \/ tasks'[i].status # "running"

\* One step keeps to LeaseExclusive.
LeaseStep == \A w \in Worker : \A i \in DOMAIN tasks :
  (tasks[i].status = "running" /\ tasks[i].token = w
     /\ (i \notin DOMAIN tasks' \/ tasks'[i].status # "running")) =>
    job[w].pc \in {"running", "deferring"} /\ job[w].id = i /\ job'[w].pc = "idle"

\* Registration leaves the rows there are as they are.
LEMMA EnqueueKeeps ==
  ASSUME NEW i, NEW force, Enqueue(i, force), NEW j, NEW w
  PROVE  ~Released(j, w)
BY DEF Enqueue, Put, Released

\* A row that is replaced by a running one, or was not running, ends no lease.
LEMMA PutKeeps ==
  ASSUME NEW i \in DOMAIN tasks, NEW r, tasks' = Put(i, r),
         tasks[i].status = "running" => r.status = "running", NEW j, NEW w
  PROVE  ~Released(j, w)
<1>1. DOMAIN tasks' = DOMAIN tasks
  BY DEF Put
<1>2. \A k \in DOMAIN tasks : tasks'[k] = IF k = i THEN r ELSE tasks[k]
  BY DEF Put
<1> QED BY <1>1, <1>2 DEF Released

\* A row has a status.
Rows == \A i \in DOMAIN tasks : "status" \in DOMAIN tasks[i]

\* A lease is taken, not ended.
LEMMA LeaseKeeps ==
  ASSUME NEW i, NEW v, Lease(i, v), Rows, NEW j, NEW w
  PROVE  ~Released(j, w)
<1> DEFINE held == [tasks[i] EXCEPT !.status = "running", !.token = v,
                                    !.live = TRUE, !.attempted = TRUE]
<1>1. i \in DOMAIN tasks /\ tasks' = Put(i, held)
  BY DEF Lease, Due
<1>2. held.status = "running"
  BY <1>1 DEF Rows
<1> HIDE DEF held
<1> QED BY <1>1, <1>2, PutKeeps

\* The passing of time makes rows due and leases run out, and ends none.
LEMMA TimeKeeps ==
  ASSUME NEW i, TimePasses(i), NEW j, NEW w
  PROVE  ~Released(j, w)
<1>1. i \in DOMAIN tasks
  BY DEF TimePasses
<1>2. CASE tasks[i].status = "waiting" /\ tasks' = Put(i, [tasks[i] EXCEPT !.due = TRUE])
  <2>1. tasks[i].status # "running"
    BY <1>2
  <2> QED BY <1>1, <1>2, <2>1, PutKeeps
<1>3. CASE tasks' = Put(i, [tasks[i] EXCEPT !.live = FALSE])
  <2>1. [tasks[i] EXCEPT !.live = FALSE].status = tasks[i].status
    OBVIOUS
  <2> QED BY <1>1, <1>3, <2>1, PutKeeps
<1> QED BY <1>2, <1>3 DEF TimePasses

\* FinishMinuteAuditTask touches its own row and rows that are terminal.
LEMMA FinishOwn ==
  ASSUME NEW i \in DOMAIN tasks, NEW outcome, NEW force, Finish(i, outcome, force),
         NEW j, NEW w, Released(j, w)
  PROVE  j = i
<1> SUFFICES ASSUME j # i
             PROVE  j \in DOMAIN tasks' /\ tasks'[j] = tasks[j]
  BY DEF Released
<1>1. j \in DOMAIN tasks /\ tasks[j].status = "running"
  BY DEF Released
<1>2. CASE outcome = "completed" /\ i.kind # "daily"
  BY <1>1, <1>2 DEF Finish, Without
<1>3. CASE ~(outcome = "completed" /\ i.kind # "daily")
  <2> DEFINE done == [tasks[i] EXCEPT !.status = outcome, !.token = NoToken,
                        !.live = FALSE, !.due = FALSE, !.force = force]
  <2>1. \/ \E D \in SUBSET Prunable(i) :
             tasks' = [k \in DOMAIN tasks \ D |-> IF k = i THEN done ELSE tasks[k]]
        \/ tasks' = Put(i, done)
    BY <1>3 DEF Finish
  <2> HIDE DEF done
  <2>2. j \notin Prunable(i)
    BY <1>1 DEF Prunable, Terminal
  <2>3. CASE tasks' = Put(i, done)
    BY <1>1, <2>3 DEF Put
  <2>4. ASSUME NEW D \in SUBSET Prunable(i),
               tasks' = [k \in DOMAIN tasks \ D |-> IF k = i THEN done ELSE tasks[k]]
        PROVE  j \in DOMAIN tasks' /\ tasks'[j] = tasks[j]
    BY <1>1, <2>2, <2>4
  <2> QED BY <2>1, <2>3, <2>4
<1> QED BY <1>2, <1>3

(***************************************************************************)
(* Every step that touches the rows does one of four things to them.       *)
(***************************************************************************)
\* The deferral will end its row because the symbol is not subscribed.
Disowned(j) == j.outcome = "excluded" /\ j.symbol = "unsubscribed"

\* w gives up row i, which it holds, in the call that ends its job: after an
\* execution that failed or has checked the row's minutes, or a deferral.
EndsAs(w, i, outcome) ==
  \/ outcome = "waiting"
  \/ outcome = "completed" /\ checked' = [checked EXCEPT ![Group(i)] = @ \cup Range(i)]
  \/ /\ job[w].pc = "deferring" /\ outcome = job[w].outcome
     /\ Disowned(job[w]) => waived' = [waived EXCEPT ![Group(i)] = @ \cup Range(i)]
Ends(w, i) == /\ MayFinish(i, w, TRUE)
              /\ job[w].pc \in {"running", "deferring"} /\ job[w].id = i
              /\ job' = [job EXCEPT ![w] = Idle]
              /\ \E outcome, force : Finish(i, outcome, force) /\ EndsAs(w, i, outcome)

RowStep ==
  \/ UNCHANGED tasks
  \/ \E i, force : Enqueue(i, force)
  \/ \E i, w : Lease(i, w)
  \/ \E i : TimePasses(i)
  \/ \E w \in Worker : \E i : Ends(w, i)

LEMMA StepShape ==
  ASSUME Next
  PROVE  RowStep
<1>1. ASSUME NEW w \in Worker,
             AuditBegin(w) \/ DaysBegin(w) \/ CallFails(w) \/ AuditLoad(w) \/ AuditSave(w)
               \/ DaysSave(w) \/ ExecLock(w) \/ ExecSkip(w) \/ RetryDecide(w)
               \/ \E i \in DOMAIN tasks : RetryList(w, i)
      PROVE  UNCHANGED tasks
  BY <1>1 DEF AuditBegin, DaysBegin, CallFails, AuditLoad, AuditSave, DaysSave,
              ExecLock, ExecSkip, RetryDecide, RetryList, ledgerVars
<1>2. ASSUME NEW w \in Worker, AuditEnqueue(w) \/ DaysEnqueue(w) \/ RetryExpire(w)
      PROVE  UNCHANGED tasks \/ \E i, force : Enqueue(i, force)
  BY <1>2 DEF AuditEnqueue, DaysEnqueue, RetryExpire
<1>3. ASSUME NEW w \in Worker, ExecLease(w) \/ DeferLease(w)
      PROVE  UNCHANGED tasks \/ \E i, v : Lease(i, v)
  BY <1>3 DEF ExecLease, DeferLease
<1>4. ASSUME NEW w \in Worker, NEW outcome \in {"completed", "waiting"}, ExecFinish(w, outcome)
      PROVE  UNCHANGED tasks \/ Ends(w, job[w].id)
  <2>1. job[w].pc = "running" /\ job' = [job EXCEPT ![w] = Idle]
    BY <1>4 DEF ExecFinish, Become
  <2>2. CASE MayFinish(job[w].id, w, FALSE)
    <3>1. Finish(job[w].id, outcome, outcome # "completed")
      BY <1>4, <2>2 DEF ExecFinish
    <3>2. MayFinish(job[w].id, w, TRUE)
      BY <2>2 DEF MayFinish
    <3>3. EndsAs(w, job[w].id, outcome)
      BY <1>4 DEF ExecFinish, EndsAs
    <3> QED BY <2>1, <3>1, <3>2, <3>3 DEF Ends
  <2>3. CASE ~MayFinish(job[w].id, w, FALSE)
    BY <1>4, <2>3 DEF ExecFinish
  <2> QED BY <2>2, <2>3
<1>5. ASSUME NEW w \in Worker, DeferFinish(w)
      PROVE  UNCHANGED tasks \/ Ends(w, job[w].id)
  <2>1. job[w].pc = "deferring" /\ job' = [job EXCEPT ![w] = Idle]
    BY <1>5 DEF DeferFinish, Become
  <2>2. CASE MayFinish(job[w].id, w, TRUE)
    <3>1. Finish(job[w].id, job[w].outcome, job[w].force)
      BY <1>5, <2>2 DEF DeferFinish
    <3>2. EndsAs(w, job[w].id, job[w].outcome)
      BY <1>5, <2>1, <2>2 DEF EndsAs, DeferFinish, Disowned
    <3> QED BY <2>1, <2>2, <3>1, <3>2 DEF Ends
  <2>3. CASE ~MayFinish(job[w].id, w, TRUE)
    BY <1>5, <2>3 DEF DeferFinish
  <2> QED BY <2>2, <2>3
<1>6. ASSUME NEW i \in DOMAIN tasks, TimeReaches(i) \/ LeaseOverruns(i)
      PROVE  TimePasses(i)
  BY <1>6 DEF TimeReaches, LeaseOverruns
<1>7. ASSUME Crash \/ InventoryChanges \/ MinutePasses
      PROVE  UNCHANGED tasks
  BY <1>7 DEF Crash, InventoryChanges, MinutePasses, ledgerVars
<1>8. CASE \E w \in Worker : \/ AuditBegin(w) \/ DaysBegin(w) \/ WorkerStep(w) \/ CallFails(w)
                              \/ ExecFinish(w, "waiting")
                              \/ \E i \in DOMAIN tasks : RetryList(w, i)
  <2> PICK w \in Worker : \/ AuditBegin(w) \/ DaysBegin(w) \/ WorkerStep(w) \/ CallFails(w)
                          \/ ExecFinish(w, "waiting")
                          \/ \E i \in DOMAIN tasks : RetryList(w, i)
    BY <1>8
  <2> QED BY <1>1, <1>2, <1>3, <1>4, <1>5 DEF WorkerStep, RowStep
<1>9. CASE \E i \in DOMAIN tasks : TimeReaches(i) \/ LeaseOverruns(i)
  BY <1>6, <1>9 DEF RowStep
<1>10. CASE Crash \/ InventoryChanges \/ MinutePasses
  BY <1>7, <1>10 DEF RowStep
<1> QED BY <1>8, <1>9, <1>10 DEF Next

\* A step never moves a worker out of the table of jobs.
LEMMA JobsKept ==
  ASSUME DOMAIN job = Worker, [Next]_vars
  PROVE  DOMAIN job' = Worker
<1>1. ASSUME NEW w \in Worker, NEW j, Become(w, j)
      PROVE  DOMAIN job' = Worker
  BY <1>1 DEF Become
<1>2. CASE UNCHANGED vars
  BY <1>2 DEF vars
<1>3. CASE \E i \in DOMAIN tasks : TimeReaches(i) \/ LeaseOverruns(i)
  BY <1>3 DEF TimeReaches, LeaseOverruns, jobVars
<1>4. CASE Crash \/ InventoryChanges \/ MinutePasses
  BY <1>4 DEF Crash, InventoryChanges, MinutePasses, jobVars
<1>5. ASSUME NEW w \in Worker, \/ AuditBegin(w) \/ DaysBegin(w) \/ WorkerStep(w) \/ CallFails(w)
                               \/ ExecFinish(w, "waiting")
                               \/ \E i \in DOMAIN tasks : RetryList(w, i)
      PROVE  DOMAIN job' = Worker
  <2>1. CASE AuditBegin(w) \/ DaysBegin(w) \/ CallFails(w) \/ \E i \in DOMAIN tasks : RetryList(w, i)
    BY <1>1, <2>1 DEF AuditBegin, DaysBegin, CallFails, RetryList
  <2>2. CASE \/ AuditLoad(w) \/ AuditEnqueue(w) \/ AuditSave(w)
             \/ DaysEnqueue(w) \/ DaysSave(w)
    BY <1>1, <2>2 DEF AuditLoad, AuditEnqueue, AuditSave, DaysEnqueue, DaysSave
  <2>3. CASE \/ ExecLock(w) \/ ExecLease(w) \/ ExecSkip(w)
             \/ ExecFinish(w, "completed") \/ ExecFinish(w, "waiting")
    BY <1>1, <2>3 DEF ExecLock, ExecLease, ExecSkip, ExecFinish
  <2>4. CASE RetryExpire(w) \/ RetryDecide(w) \/ DeferLease(w) \/ DeferFinish(w)
    BY <1>1, <2>4 DEF RetryExpire, RetryDecide, DeferLease, DeferFinish
  <2> QED BY <1>5, <2>1, <2>2, <2>3, <2>4 DEF WorkerStep
<1> QED BY <1>2, <1>3, <1>4, <1>5 DEF Next

\* Rows keep having a status.
LEMMA RowsKept ==
  ASSUME Rows, RowStep
  PROVE  Rows'
<1>1. CASE UNCHANGED tasks
  BY <1>1 DEF Rows
<1>2. ASSUME NEW i, NEW r, tasks' = Put(i, r), "status" \in DOMAIN r
      PROVE  Rows'
  <2>1. DOMAIN tasks' = DOMAIN tasks \cup {i}
    BY <1>2 DEF Put
  <2>2. \A k \in DOMAIN tasks' : tasks'[k] = IF k = i THEN r ELSE tasks[k]
    BY <1>2 DEF Put
  <2> QED BY <1>2, <2>1, <2>2 DEF Rows
<1>3. ASSUME NEW i, NEW force, Enqueue(i, force)
      PROVE  Rows'
  <2>1. "status" \in DOMAIN NewRow(force)
    BY DEF NewRow
  <2>2. CASE i \in DOMAIN tasks
    BY <1>1, <1>3, <2>2 DEF Enqueue
  <2>3. CASE i \notin DOMAIN tasks
    BY <1>2, <1>3, <2>1, <2>3 DEF Enqueue
  <2> QED BY <2>2, <2>3
<1>4. ASSUME NEW i, NEW w, Lease(i, w)
      PROVE  Rows'
  <2> DEFINE held == [tasks[i] EXCEPT !.status = "running", !.token = w,
                                      !.live = TRUE, !.attempted = TRUE]
  <2>1. i \in DOMAIN tasks /\ tasks' = Put(i, held)
    BY <1>4 DEF Lease, Due
  <2>2. DOMAIN held = DOMAIN tasks[i]
    OBVIOUS
  <2>3. "status" \in DOMAIN held
    BY <2>1, <2>2 DEF Rows
  <2> QED BY <1>2, <2>1, <2>3
<1>5. ASSUME NEW i, TimePasses(i)
      PROVE  Rows'
  <2>1. "status" \in DOMAIN [tasks[i] EXCEPT !.due = TRUE]
        /\ "status" \in DOMAIN [tasks[i] EXCEPT !.live = FALSE]
    BY <1>5 DEF TimePasses, Rows
  <2>2. \/ tasks' = Put(i, [tasks[i] EXCEPT !.due = TRUE])
        \/ tasks' = Put(i, [tasks[i] EXCEPT !.live = FALSE])
    BY <1>5 DEF TimePasses
  <2> QED BY <1>2, <2>1, <2>2
<1>6. ASSUME NEW i \in DOMAIN tasks, NEW outcome, NEW force, Finish(i, outcome, force)
      PROVE  Rows'
  <2> DEFINE done == [tasks[i] EXCEPT !.status = outcome, !.token = NoToken,
                        !.live = FALSE, !.due = FALSE, !.force = force]
  <2>1. \/ tasks' = Without({i})
        \/ \E D \in SUBSET Prunable(i) :
             tasks' = [k \in DOMAIN tasks \ D |-> IF k = i THEN done ELSE tasks[k]]
        \/ tasks' = Put(i, done)
    BY <1>6 DEF Finish
  <2>2. DOMAIN done = DOMAIN tasks[i]
    OBVIOUS
  <2>3. "status" \in DOMAIN done
    BY <2>2 DEF Rows
  <2> HIDE DEF done
  <2>4. CASE tasks' = Without({i})
    BY <2>4 DEF Without, Rows
  <2>5. ASSUME NEW D \in SUBSET Prunable(i),
               tasks' = [k \in DOMAIN tasks \ D |-> IF k = i THEN done ELSE tasks[k]]
        PROVE  Rows'
    BY <2>3, <2>5 DEF Rows
  <2>6. CASE tasks' = Put(i, done)
    BY <1>2, <2>3, <2>6
  <2> QED BY <2>1, <2>4, <2>5, <2>6
<1>7. ASSUME NEW w \in Worker, NEW i, Ends(w, i)
      PROVE  Rows'
  BY <1>6, <1>7 DEF Ends, MayFinish
<1> QED BY <1>1, <1>3, <1>4, <1>5, <1>7 DEF RowStep

\* A step ends a lease only by the call of its holder.
LEMMA StepIsExclusive ==
  ASSUME Rows, DOMAIN job = Worker, RowStep
  PROVE  LeaseStep
<1> SUFFICES ASSUME NEW v \in Worker, NEW j \in DOMAIN tasks, Released(j, v)
             PROVE  job[v].pc \in {"running", "deferring"} /\ job[v].id = j /\ job'[v].pc = "idle"
  BY DEF LeaseStep, Released
<1>1. ~UNCHANGED tasks
  BY DEF Released
<1>2. ~\E i, force : Enqueue(i, force)
  BY EnqueueKeeps
<1>3. ~\E i, w : Lease(i, w)
  BY LeaseKeeps
<1>4. ~\E i : TimePasses(i)
  BY TimeKeeps
<1>5. PICK w \in Worker : \E i : Ends(w, i)
  BY <1>1, <1>2, <1>3, <1>4 DEF RowStep
<1>6. PICK i : Ends(w, i)
  BY <1>5
<1>7. i \in DOMAIN tasks /\ tasks[i].token = w
  BY <1>6 DEF Ends, MayFinish
<1>8. j = i
  BY <1>6, <1>7, FinishOwn DEF Ends
<1>9. v = w
  BY <1>7, <1>8 DEF Released
<1> QED BY <1>6, <1>8, <1>9 DEF Ends, Idle

\* While a lease is not taken over, only its holder ends it, and only by the call
\* that returns from executeLeasedMinuteTask or deferMinuteTask: the token that
\* FinishMinuteAuditTask compares keeps a late finish of a previous holder, a
\* registration, the pruning and a takeover from ending it.
THEOREM LeasesEndByHolder == Spec => LeaseExclusive
<1> DEFINE Inv == Rows /\ DOMAIN job = Worker
<1>1. Init => Inv
  BY DEF Init, LedgerInit, Rows
<1>2. ASSUME Inv, [Next]_vars
      PROVE  Inv' /\ [LeaseStep]_vars
  <2>1. RowStep
    BY <1>2, StepShape DEF vars, RowStep
  <2>2. Rows'
    BY <1>2, <2>1, RowsKept
  <2>3. DOMAIN job' = Worker
    BY <1>2, JobsKept
  <2>4. LeaseStep
    BY <1>2, <2>1, StepIsExclusive
  <2> QED BY <2>2, <2>3, <2>4
<1> QED BY <1>1, <1>2, PTL DEF Spec, LeaseExclusive, LeaseStep

-----------------------------------------------------------------------------
(***************************************************************************)
(* No minute behind a cursor is forgotten.                                 *)
(***************************************************************************)
Ids == [kind: Kinds, start: Int, end: Int]
Symbols == {"fresh", "unavailable", "unsubscribed"}
JobShape == [pc: Pc, id: Ids, from: Int, start: Int, end: Int, retained: Int,
             replay: BOOLEAN, force: BOOLEAN, symbol: Symbols,
             outcome: Outstanding \cup Terminal]

RowTypes == DOMAIN tasks \subseteq Ids /\ tasks \in [DOMAIN tasks -> Row]
HistTypes == /\ cursor \in [Groups -> Nat] /\ first \in [Groups -> Int]
             /\ checked \in [Groups -> SUBSET Int] /\ waived \in [Groups -> SUBSET Int]
             /\ minute \in Int /\ minute >= StartMinute /\ inventory \in Symbols
JobTypes == job \in [Worker -> JobShape]
Types == RowTypes /\ HistTypes /\ JobTypes

LEMMA IdleJob == Idle \in JobShape
BY DEF Idle, NoId, JobShape, Ids, Kinds, Pc, Symbols, Outstanding

LEMMA BecomeTypes ==
  ASSUME JobTypes, NEW w \in Worker, NEW j \in JobShape, Become(w, j)
  PROVE  JobTypes'
BY DEF JobTypes, Become

LEMMA ConfigTypes ==
  /\ AuditDelay \in Nat /\ Window \in Nat \ {0} /\ Chunk \in Nat \ {0} /\ Day \in Nat \ {0}
  /\ DayOffset \in Nat /\ Retention \in Nat \ {0} /\ ListedAt \in Nat
  /\ StartMinute \in Nat /\ StartMinute > AuditDelay + Window
BY ConfigAssumption, HorizonAssumption DEF Minutes

\* FloorDay rounds down to a multiple of Day.
LEMMA FloorDayProperties ==
  ASSUME NEW x \in Int
  PROVE  /\ FloorDay(x) \in Int /\ FloorDay(x) <= x
         /\ x >= Day => FloorDay(x) >= Day
         /\ FloorDay(x) - Day > 0 => FloorDay(x) - Day >= Day
<1> DEFINE q == x \div Day
<1>1. Day \in Nat \ {0} /\ q \in Int
  BY ConfigTypes
<1>2. q * Day \in Int /\ q * Day <= x
  BY <1>1
<1>3. x >= Day => q * Day >= Day
  <2> SUFFICES ASSUME x >= Day PROVE q * Day >= Day
    OBVIOUS
  <2>1. q >= 1
    BY <1>1
  <2> HIDE DEF q
  <2> QED BY <1>1, <2>1
<1>4. q * Day - Day > 0 => q * Day - Day >= Day
  <2> HIDE DEF q
  <2> QED BY <1>1
<1> QED BY <1>2, <1>3, <1>4 DEF FloorDay

LEMMA PutTypes ==
  ASSUME RowTypes, NEW i \in Ids, NEW r \in Row, tasks' = Put(i, r)
  PROVE  RowTypes'
<1>1. DOMAIN tasks' = DOMAIN tasks \cup {i}
  BY DEF Put
<1>2. \A k \in DOMAIN tasks' : tasks'[k] = IF k = i THEN r ELSE tasks[k]
  BY DEF Put
<1>3. tasks' = [k \in DOMAIN tasks' |-> tasks'[k]]
  BY DEF Put
<1> QED BY <1>1, <1>2, <1>3 DEF RowTypes

LEMMA EnqueueTypes ==
  ASSUME RowTypes, NEW i \in Ids, NEW force \in BOOLEAN, Enqueue(i, force)
  PROVE  RowTypes'
<1>1. NewRow(force) \in Row
  BY DEF NewRow, Row, Outstanding
<1>2. CASE i \in DOMAIN tasks
  BY <1>2 DEF Enqueue, RowTypes
<1>3. CASE i \notin DOMAIN tasks
  BY <1>1, <1>3, PutTypes DEF Enqueue
<1> QED BY <1>2, <1>3

LEMMA LeaseTypes ==
  ASSUME RowTypes, NEW i, NEW w \in Worker, Lease(i, w)
  PROVE  RowTypes'
<1>1. i \in DOMAIN tasks /\ i \in Ids /\ tasks[i] \in Row
  BY DEF Lease, Due, RowTypes
<1>2. [tasks[i] EXCEPT !.status = "running", !.token = w, !.live = TRUE, !.attempted = TRUE] \in Row
  BY <1>1 DEF Row, Outstanding
<1> QED BY <1>1, <1>2, PutTypes DEF Lease

LEMMA TimeTypes ==
  ASSUME RowTypes, NEW i, TimePasses(i)
  PROVE  RowTypes'
<1>1. i \in DOMAIN tasks /\ i \in Ids /\ tasks[i] \in Row
  BY DEF TimePasses, RowTypes
<1>2. [tasks[i] EXCEPT !.due = TRUE] \in Row /\ [tasks[i] EXCEPT !.live = FALSE] \in Row
  BY <1>1 DEF Row
<1> QED BY <1>1, <1>2, PutTypes DEF TimePasses

LEMMA FinishTypes ==
  ASSUME RowTypes, NEW i \in DOMAIN tasks, NEW outcome \in Outstanding \cup Terminal,
         NEW force \in BOOLEAN, Finish(i, outcome, force)
  PROVE  RowTypes'
<1> DEFINE done == [tasks[i] EXCEPT !.status = outcome, !.token = NoToken,
                      !.live = FALSE, !.due = FALSE, !.force = force]
<1>1. \/ tasks' = Without({i})
      \/ \E D \in SUBSET Prunable(i) :
           tasks' = [k \in DOMAIN tasks \ D |-> IF k = i THEN done ELSE tasks[k]]
      \/ tasks' = Put(i, done)
  BY DEF Finish
<1>2. done \in Row /\ i \in Ids
  BY DEF RowTypes, Row
<1> HIDE DEF done
<1>3. CASE tasks' = Without({i})
  BY <1>3 DEF Without, RowTypes
<1>4. ASSUME NEW D \in SUBSET Prunable(i),
             tasks' = [k \in DOMAIN tasks \ D |-> IF k = i THEN done ELSE tasks[k]]
      PROVE  RowTypes'
  BY <1>2, <1>4 DEF RowTypes
<1>5. CASE tasks' = Put(i, done)
  BY <1>2, <1>5, PutTypes
<1> QED BY <1>1, <1>3, <1>4, <1>5

LEMMA RangeTypes ==
  ASSUME NEW j \in JobShape
  PROVE  NextRange(j) \in Ids /\ NextDays(j) \in Ids
BY ConfigTypes DEF NextRange, NextDays, Smaller, Ids, Kinds, JobShape

LEMMA TypesInit ==
  ASSUME Init
  PROVE  Types
<1>1. RowTypes
  BY DEF Init, LedgerInit, RowTypes
<1>2. HistTypes
  BY ConfigTypes DEF Init, LedgerInit, HistTypes, Symbols, Groups
<1>3. JobTypes
  BY IdleJob DEF Init, JobTypes
<1> QED BY <1>1, <1>2, <1>3 DEF Types

\* The steps that only move one worker or the clock, as far as types go.
LEMMA TypesOfSteps ==
  ASSUME Types, NEW w \in Worker
  PROVE  /\ AuditBegin(w) \/ AuditLoad(w) \/ DaysBegin(w) => Types'
         /\ AuditEnqueue(w) \/ DaysEnqueue(w) => Types'
         /\ AuditSave(w) \/ DaysSave(w) => Types'
         /\ ExecLock(w) \/ ExecSkip(w) \/ RetryDecide(w) \/ CallFails(w) => Types'
         /\ ExecLease(w) \/ DeferLease(w) => Types'
         /\ RetryExpire(w) => Types'
<1> job[w] \in JobShape
  BY DEF Types, JobTypes
<1>a. minute \in Int /\ Retained \in Int /\ cursor["daily"] \in Nat /\ cursor["non_daily"] \in Nat
  BY ConfigTypes DEF Types, HistTypes, Groups, Retained
<1>1. ASSUME AuditBegin(w) PROVE Types'
  <2> DEFINE last == minute - AuditDelay - 1
             early == last - Window + 1
             j == [Idle EXCEPT !.pc = "round", !.start = early, !.end = last]
  <2>0. last \in Int /\ early \in Int
    BY <1>a, ConfigTypes
  <2>1. j \in JobShape
    <3> HIDE DEF last, early
    <3> QED BY <2>0, IdleJob DEF JobShape, Pc
  <2>2. Become(w, j) /\ UNCHANGED <<tasks, cursor, minute, inventory, first, checked, waived>>
    BY <1>1 DEF AuditBegin, ledgerVars, histVars
  <2> HIDE DEF j
  <2>3. JobTypes'
    BY <2>1, <2>2, BecomeTypes DEF Types
  <2> QED BY <2>2, <2>3 DEF Types, RowTypes, HistTypes
<1>2. ASSUME AuditLoad(w) PROVE Types'
  <2> DEFINE f == IF cursor["non_daily"] = 0 THEN job[w].start ELSE cursor["non_daily"] + 1
             j == [job[w] EXCEPT !.pc = "plan", !.from = f, !.retained = Retained]
  <2>0. f \in Int
    BY <1>a DEF JobShape
  <2>1. j \in JobShape
    <3> HIDE DEF f
    <3> QED BY <1>a, <2>0 DEF JobShape, Pc
  <2>2. Become(w, j) /\ UNCHANGED <<tasks, cursor, minute, inventory, first, checked, waived>>
    BY <1>2 DEF AuditLoad, ledgerVars, histVars
  <2> HIDE DEF j
  <2>3. JobTypes'
    BY <2>1, <2>2, BecomeTypes DEF Types
  <2> QED BY <2>2, <2>3 DEF Types, RowTypes, HistTypes
<1>3. ASSUME DaysBegin(w) PROVE Types'
  <2> DEFINE f == IF cursor["daily"] = 0 THEN LatestDay ELSE FloorDay(cursor["daily"] + 1)
             j == [Idle EXCEPT !.pc = "plan", !.from = f, !.end = LatestDay, !.retained = OldestDay]
  <2>0. f \in Int /\ LatestDay \in Int /\ OldestDay \in Int
    BY <1>a, FloorDayProperties, ConfigTypes DEF LatestDay, OldestDay
  <2>1. j \in JobShape
    <3> HIDE DEF f
    <3> QED BY <1>a, <2>0, IdleJob DEF JobShape, Pc
  <2>2. Become(w, j) /\ UNCHANGED <<tasks, cursor, minute, inventory, first, checked, waived>>
    BY <1>3 DEF DaysBegin, ledgerVars, histVars
  <2> HIDE DEF j
  <2>3. JobTypes'
    BY <2>1, <2>2, BecomeTypes DEF Types
  <2> QED BY <2>2, <2>3 DEF Types, RowTypes, HistTypes
<1>4. ASSUME NEW i \in Ids, NEW force \in BOOLEAN, NEW j \in JobShape, Become(w, j),
             Enqueue(i, force) \/ UNCHANGED tasks,
             UNCHANGED <<cursor, minute, inventory, first, checked, waived>>
      PROVE  Types'
  <2>1. JobTypes'
    BY <1>4, BecomeTypes DEF Types
  <2>2. RowTypes'
    BY <1>4, EnqueueTypes DEF Types, RowTypes
  <2> QED BY <1>4, <2>1, <2>2 DEF Types, HistTypes
<1>5. ASSUME AuditEnqueue(w) PROVE Types'
  <2>0. NextRange(job[w]) \in Ids
    BY RangeTypes
  <2>1. [job[w] EXCEPT !.pc = "save", !.id = NextRange(job[w])] \in JobShape
    BY <2>0 DEF JobShape, Pc
  <2> QED BY <1>4, <1>5, <2>0, <2>1 DEF AuditEnqueue, histVars
<1>6. ASSUME DaysEnqueue(w) PROVE Types'
  <2>0. NextDays(job[w]) \in Ids
    BY RangeTypes
  <2>1. [job[w] EXCEPT !.pc = "save", !.id = NextDays(job[w])] \in JobShape
    BY <2>0 DEF JobShape, Pc
  <2> QED BY <1>4, <1>6, <2>0, <2>1 DEF DaysEnqueue, histVars
<1>7. ASSUME RetryExpire(w) PROVE Types'
  <2>0. job[w].id \in Ids /\ Remainder(job[w].id) \in Ids
    BY <1>a DEF JobShape, Remainder, Ids
  <2>1. [job[w] EXCEPT !.pc = "defer", !.outcome = "expired"] \in JobShape
    BY DEF JobShape, Pc, Terminal
  <2>2. Enqueue(Remainder(job[w].id), TRUE) \/ UNCHANGED tasks
    BY <1>7 DEF RetryExpire
  <2> QED BY <1>4, <1>7, <2>0, <2>1, <2>2 DEF RetryExpire, histVars
<1>8. ASSUME NEW g \in Groups, SaveThrough(g, job[w].id), NEW j \in JobShape, Become(w, j),
             UNCHANGED <<tasks, minute, inventory, checked, waived>>
      PROVE  Types'
  <2>0. job[w].id.end \in Int /\ job[w].id.start \in Int
    BY DEF JobShape, Ids
  <2>1. JobTypes'
    BY <1>8, BecomeTypes DEF Types
  <2>2. cursor' \in [Groups -> Nat] /\ first' \in [Groups -> Int]
    BY <1>8, <2>0 DEF SaveThrough, SaveCursor, Types, HistTypes
  <2> QED BY <1>8, <2>1, <2>2 DEF Types, HistTypes, RowTypes
<1>9. ASSUME AuditSave(w) PROVE Types'
  <2> DEFINE next == job[w].id.end + 1
  <2>0. next \in Int
    BY DEF JobShape, Ids
  <2>1. /\ [Idle EXCEPT !.pc = "want", !.id = job[w].id] \in JobShape
        /\ [job[w] EXCEPT !.pc = "plan", !.from = next] \in JobShape
    <3> HIDE DEF next
    <3> QED BY <2>0, IdleJob DEF JobShape, Pc
  <2> QED BY <1>8, <1>9, <2>1 DEF AuditSave, Groups
<1>10. ASSUME DaysSave(w) PROVE Types'
  <2> DEFINE next == job[w].id.end + 1
  <2>0. next \in Int
    BY DEF JobShape, Ids
  <2>1. [job[w] EXCEPT !.pc = "plan", !.from = next] \in JobShape
    <3> HIDE DEF next
    <3> QED BY <2>0 DEF JobShape, Pc
  <2> QED BY <1>8, <1>10, <2>1, IdleJob DEF DaysSave, Groups
<1>11. ASSUME NEW j \in JobShape, Become(w, j),
              UNCHANGED <<tasks, cursor, minute, inventory, first, checked, waived>>
       PROVE  Types'
  <2>3. JobTypes'
    BY <1>11, BecomeTypes DEF Types
  <2> QED BY <1>11, <2>3 DEF Types, RowTypes, HistTypes
<1>12. ASSUME ExecLock(w) \/ ExecSkip(w) \/ RetryDecide(w) \/ CallFails(w) PROVE Types'
  <2>1. /\ [Idle EXCEPT !.pc = "want", !.id = job[w].id] \in JobShape
        /\ [job[w] EXCEPT !.pc = "locked"] \in JobShape
        /\ [job[w] EXCEPT !.pc = "defer", !.outcome = "waiting"] \in JobShape
        /\ [job[w] EXCEPT !.pc = "defer", !.outcome = "excluded"] \in JobShape
    BY IdleJob DEF JobShape, Pc, Outstanding, Terminal
  <2>2. \E j \in JobShape : Become(w, j)
    BY <1>12, <2>1, IdleJob DEF ExecLock, ExecSkip, RetryDecide, CallFails
  <2> QED BY <1>11, <1>12, <2>2 DEF ExecLock, ExecSkip, RetryDecide, CallFails, ledgerVars, histVars
<1>13. ASSUME ExecLease(w) \/ DeferLease(w) PROVE Types'
  <2>1. UNCHANGED tasks \/ Lease(job[w].id, w)
    BY <1>13 DEF ExecLease, DeferLease
  <2>2. RowTypes'
    BY <2>1, LeaseTypes DEF Types, RowTypes
  <2>3. JobTypes'
    <3>1. CASE DeferLease(w)
      <4>1. [job[w] EXCEPT !.pc = "deferring"] \in JobShape
        BY DEF JobShape, Pc
      <4> QED BY <3>1, <4>1, IdleJob, BecomeTypes DEF DeferLease, Types
    <3>2. CASE ExecLease(w)
      <4> DEFINE r == tasks[job[w].id].force \/ tasks[job[w].id].attempted \/ job[w].id.kind = "daily"
      <4>1. r \in BOOLEAN
        BY Zenon
      <4>2. [job[w] EXCEPT !.pc = "running", !.replay = r] \in JobShape
        <5> HIDE DEF r
        <5> QED BY <4>1 DEF JobShape, Pc
      <4> QED BY <3>2, <4>2, BecomeTypes DEF ExecLease, Types
    <3> QED BY <1>13, <3>1, <3>2
  <2> QED BY <1>13, <2>2, <2>3 DEF ExecLease, DeferLease, histVars, Types, HistTypes
<1> QED BY <1>1, <1>2, <1>3, <1>5, <1>6, <1>7, <1>9, <1>10, <1>12, <1>13

LEMMA TypesStep ==
  ASSUME Types, [Next]_vars
  PROVE  Types'
<1>1. CASE UNCHANGED vars
  BY <1>1 DEF vars, Types, RowTypes, HistTypes, JobTypes
<1>2. ASSUME NEW i \in DOMAIN tasks, TimeReaches(i) \/ LeaseOverruns(i)
      PROVE  Types'
  <2>1. RowTypes'
    BY <1>2, TimeTypes DEF TimeReaches, LeaseOverruns, Types
  <2> QED BY <1>2, <2>1 DEF TimeReaches, LeaseOverruns, TimePasses, jobVars, histVars,
                            Types, HistTypes, JobTypes
<1>3. CASE Crash \/ InventoryChanges \/ MinutePasses
  <2>1. RowTypes' /\ JobTypes'
    BY <1>3, IdleJob DEF Crash, InventoryChanges, MinutePasses, jobVars, ledgerVars,
                         Types, RowTypes, JobTypes
  <2>2. HistTypes'
    BY <1>3, ConfigTypes DEF Crash, InventoryChanges, MinutePasses, ledgerVars, histVars,
                             Types, HistTypes, Symbols
  <2> QED BY <2>1, <2>2 DEF Types
<1>4. ASSUME NEW w \in Worker, NEW outcome \in {"completed", "waiting"}, ExecFinish(w, outcome)
      PROVE  Types'
  <2> DEFINE i == job[w].id
  <2>0. i \in Ids /\ Range(i) \subseteq Int /\ Group(i) \in Groups
    BY DEF Types, JobTypes, JobShape, Ids, Range, Group, Groups
  <2>1. RowTypes'
    <3>1. outcome \in Outstanding \cup Terminal /\ (outcome # "completed") \in BOOLEAN
      BY DEF Outstanding, Terminal
    <3>2. CASE MayFinish(i, w, FALSE)
      <4>1. i \in DOMAIN tasks /\ Finish(i, outcome, outcome # "completed")
        BY <1>4, <3>2 DEF ExecFinish, MayFinish
      <4> QED BY <3>1, <4>1, FinishTypes DEF Types
    <3>3. CASE ~MayFinish(i, w, FALSE)
      BY <1>4, <3>3 DEF ExecFinish, Types, RowTypes
    <3> QED BY <3>2, <3>3
  <2>2. JobTypes'
    BY <1>4, IdleJob, BecomeTypes DEF ExecFinish, Types
  <2>3. checked' = [checked EXCEPT ![Group(i)] = @ \cup Range(i)] \/ UNCHANGED checked
    BY <1>4 DEF ExecFinish
  <2>4. checked' \in [Groups -> SUBSET Int]
    <3> HIDE DEF i
    <3> QED BY <2>0, <2>3 DEF Types, HistTypes
  <2> QED BY <1>4, <2>1, <2>2, <2>4 DEF ExecFinish, Types, HistTypes
<1>5. ASSUME NEW w \in Worker, DeferFinish(w)
      PROVE  Types'
  <2> job[w] \in JobShape
    BY DEF Types, JobTypes
  <2>1. RowTypes'
    <3>1. job[w].outcome \in Outstanding \cup Terminal /\ job[w].force \in BOOLEAN
      BY DEF JobShape
    <3>2. CASE MayFinish(job[w].id, w, TRUE)
      <4>1. job[w].id \in DOMAIN tasks /\ Finish(job[w].id, job[w].outcome, job[w].force)
        BY <1>5, <3>2 DEF DeferFinish, MayFinish
      <4> QED BY <3>1, <4>1, FinishTypes DEF Types
    <3>3. CASE ~MayFinish(job[w].id, w, TRUE)
      BY <1>5, <3>3 DEF DeferFinish, Types, RowTypes
    <3> QED BY <3>2, <3>3
  <2>2. JobTypes'
    BY <1>5, IdleJob, BecomeTypes DEF DeferFinish, Types
  <2>3. waived' \in [Groups -> SUBSET Int]
    <3>0. PICK i \in Ids : i = job[w].id
      BY DEF JobShape
    <3>1. Range(i) \subseteq Int /\ Group(i) \in Groups
      BY DEF Ids, Range, Group, Groups
    <3>2. waived' = [waived EXCEPT ![Group(i)] = @ \cup Range(i)] \/ waived' = waived
      BY <1>5, <3>0 DEF DeferFinish
    <3> QED BY <3>1, <3>2 DEF Types, HistTypes
  <2> QED BY <1>5, <2>1, <2>2, <2>3 DEF DeferFinish, Types, HistTypes
<1>6. ASSUME NEW w \in Worker, NEW i \in DOMAIN tasks, RetryList(w, i)
      PROVE  Types'
  <2>1. i \in Ids /\ tasks[i].force \in BOOLEAN /\ inventory \in Symbols
    BY DEF Types, RowTypes, HistTypes, Row
  <2>2. [Idle EXCEPT !.pc = "picked", !.id = i, !.force = tasks[i].force, !.symbol = inventory]
          \in JobShape
    BY <2>1, IdleJob DEF JobShape, Pc
  <2>3. JobTypes'
    BY <1>6, <2>2, BecomeTypes DEF RetryList, Types
  <2> QED BY <1>6, <2>3 DEF RetryList, ledgerVars, histVars, Types, RowTypes, HistTypes
<1> QED BY <1>1, <1>2, <1>3, <1>4, <1>5, <1>6, TypesOfSteps DEF Next, WorkerStep

(***************************************************************************)
(* The invariant.  A row that ended hands each of its minutes on: to an    *)
(* execution that checked it, to an official excuse, to the inventory that *)
(* said the symbol is not subscribed (waived), or to an outstanding        *)
(* row that starts later, so that no chain of expiring rows comes back to  *)
(* where it began.                                                         *)
(***************************************************************************)
Later(g, m, s) ==
  \/ m \in checked[g] \cup waived[g] \/ Excused(m)
  \/ \E i \in DOMAIN tasks : /\ Group(i) = g /\ OutstandingRow(i) /\ m \in Range(i)
                             /\ i.start > s
Covered(g, m) ==
  \/ m \in checked[g] \cup waived[g] \/ Excused(m)
  \/ \E i \in DOMAIN tasks : Group(i) = g /\ OutstandingRow(i) /\ m \in Range(i)

\* i's minutes are left to others.
HandedOn(i) == \A m \in Range(i) : Later(Group(i), m, i.start)

\* The terminal rows, kept or pruned later, are handed on.
Gone == \A i \in DOMAIN tasks : tasks[i].status \in Terminal => HandedOn(i)

\* A worker that is about to end a row without executing it has seen to its minutes.
Deferred(w) ==
  job[w].pc \in {"defer", "deferring"} =>
    /\ job[w].outcome # "completed"
    /\ job[w].outcome \in Terminal => HandedOn(job[w].id) \/ Disowned(job[w])

\* The cursor a registering worker moves, and the first minute it can name.
Owns(w) == IF w = "days" THEN "daily" ELSE "non_daily"
Least(w) == IF w = "days" THEN Day ELSE 1

\* What the registering workers carry from step to step joins on to the cursor.
Plans(w) ==
  w \in {"audit", "days"} =>
    LET j == job[w]
        c == cursor[Owns(w)]
    IN /\ (w = "audit" /\ j.pc \in {"round", "plan", "save"}) => 1 <= j.start /\ j.start <= j.end
       /\ j.pc = "plan" => j.from >= Least(w) /\ (c # 0 => j.from <= c + 1)
       /\ j.pc = "save" => /\ j.id.start >= 1 /\ j.id.end >= Least(w)
                           /\ c # 0 => j.id.start <= c + 1
                           /\ \A m \in Range(j.id) : Covered(Owns(w), m)

\* A group is responsible for something as soon as its cursor has been saved.
Starts == /\ \A g \in Groups : first[g] = 0 <=> cursor[g] = 0
          /\ cursor["daily"] = 0 \/ cursor["daily"] >= Day

Careful(w) == Deferred(w) /\ Plans(w)
Workers == \A w \in Worker : Careful(w)
CoverInv == Types /\ Gone /\ Workers /\ Starts /\ CursorCovered

LEMMA CoverInit ==
  ASSUME Init
  PROVE  CoverInv
<1>1. Types
  BY TypesInit
<1>2. Gone /\ Starts /\ CursorCovered
  BY DEF Init, LedgerInit, Gone, Starts, CursorCovered, Groups
<1>3. Workers
  BY DEF Init, Workers, Careful, Deferred, Plans, Idle
<1> QED BY <1>1, <1>2, <1>3 DEF CoverInv

\* What was checked or waived stays so, and an excuse stays one.
LEMMA Grows ==
  ASSUME Types, [Next]_vars
  PROVE  /\ \A g \in Groups : checked[g] \subseteq checked'[g]
         /\ \A g \in Groups : waived[g] \subseteq waived'[g]
         /\ minute <= minute'
         /\ \A m \in Int : Excused(m) => Excused(m)'
<1>0. checked \in [Groups -> SUBSET Int] /\ waived \in [Groups -> SUBSET Int] /\ minute \in Int
  BY DEF Types, HistTypes
<1>1. \A g \in Groups : checked[g] \subseteq checked'[g]
  <2>1. UNCHANGED checked
          \/ \E i : checked' = [checked EXCEPT ![Group(i)] = @ \cup Range(i)]
    <3>1. ASSUME NEW w \in Worker, NEW o, ExecFinish(w, o)
          PROVE  UNCHANGED checked
                   \/ \E i : checked' = [checked EXCEPT ![Group(i)] = @ \cup Range(i)]
      BY <3>1 DEF ExecFinish
    <3> QED BY <3>1, ZenonT(30) DEF Next, WorkerStep, vars, histVars, AuditBegin, AuditLoad, AuditEnqueue,
          AuditSave, DaysBegin, DaysEnqueue, DaysSave, ExecLock, ExecLease, ExecSkip, RetryList,
          RetryExpire, RetryDecide, DeferLease, DeferFinish, CallFails, Crash, InventoryChanges,
          MinutePasses, TimeReaches, LeaseOverruns
  <2> QED BY <1>0, <2>1
<1>2. minute' = minute \/ minute' = minute + 1
  BY ZenonT(30) DEF Next, WorkerStep, vars, AuditBegin, AuditLoad, AuditEnqueue,
          AuditSave, DaysBegin, DaysEnqueue, DaysSave, ExecLock, ExecLease, ExecSkip, RetryList,
          RetryExpire, RetryDecide, DeferLease, DeferFinish, CallFails, Crash, InventoryChanges,
          MinutePasses, TimeReaches, LeaseOverruns, ExecFinish
<1>3. \A g \in Groups : waived[g] \subseteq waived'[g]
  <2>1. UNCHANGED waived
          \/ \E i : waived' = [waived EXCEPT ![Group(i)] = @ \cup Range(i)]
    <3>1. ASSUME NEW w \in Worker, DeferFinish(w)
          PROVE  UNCHANGED waived
                   \/ \E i : waived' = [waived EXCEPT ![Group(i)] = @ \cup Range(i)]
      BY <3>1 DEF DeferFinish
    <3> QED BY <3>1, ZenonT(30) DEF Next, WorkerStep, vars, histVars, AuditBegin, AuditLoad, AuditEnqueue,
          AuditSave, DaysBegin, DaysEnqueue, DaysSave, ExecLock, ExecLease, ExecSkip, RetryList,
          RetryExpire, RetryDecide, DeferLease, ExecFinish, CallFails, Crash, InventoryChanges,
          MinutePasses, TimeReaches, LeaseOverruns
  <2> QED BY <1>0, <2>1
<1>4. minute <= minute'
  BY <1>0, <1>2
<1>5. \A m \in Int : Excused(m) => Excused(m)'
  BY <1>0, <1>2, ConfigTypes DEF Excused, Retained
<1> QED BY <1>1, <1>3, <1>4, <1>5

\* Row i is outstanding after the step.
Stays(i) == i \in DOMAIN tasks' /\ tasks'[i].status \in Outstanding

\* FinishMinuteAuditTask keeps the other outstanding rows, and its own unless the
\* outcome is final.
LEMMA FinishRows ==
  ASSUME RowTypes, NEW i \in DOMAIN tasks, NEW outcome, NEW force, Finish(i, outcome, force)
  PROVE  /\ DOMAIN tasks' \subseteq DOMAIN tasks
         /\ \A k \in DOMAIN tasks : (OutstandingRow(k) /\ k # i) => Stays(k)
         /\ outcome \in Outstanding => Stays(i)
<1> DEFINE done == [tasks[i] EXCEPT !.status = outcome, !.token = NoToken,
                      !.live = FALSE, !.due = FALSE, !.force = force]
<1>1. \/ tasks' = Without({i}) /\ outcome = "completed"
      \/ \E D \in SUBSET Prunable(i) :
           tasks' = [k \in DOMAIN tasks \ D |-> IF k = i THEN done ELSE tasks[k]]
      \/ tasks' = Put(i, done)
  BY DEF Finish
<1>2. done.status = outcome
  BY DEF RowTypes, Row
<1>3. \A k \in Prunable(i) : k # i /\ ~OutstandingRow(k)
  BY DEF Prunable, OutstandingRow, Terminal, Outstanding
<1>4. "completed" \notin Outstanding
  BY DEF Outstanding
<1> HIDE DEF done
<1>5. CASE tasks' = Without({i}) /\ outcome = "completed"
  BY <1>4, <1>5 DEF Without, Stays, OutstandingRow
<1>6. ASSUME NEW D \in SUBSET Prunable(i),
             tasks' = [k \in DOMAIN tasks \ D |-> IF k = i THEN done ELSE tasks[k]]
      PROVE  /\ DOMAIN tasks' \subseteq DOMAIN tasks
             /\ \A k \in DOMAIN tasks : (OutstandingRow(k) /\ k # i) => Stays(k)
             /\ outcome \in Outstanding => Stays(i)
  BY <1>2, <1>3, <1>6 DEF Stays, OutstandingRow
<1>7. CASE tasks' = Put(i, done)
  BY <1>2, <1>7 DEF Put, Stays, OutstandingRow
<1> QED BY <1>1, <1>5, <1>6, <1>7

\* Only the worker that holds a row makes it final, and a new row is outstanding.
LEMMA RowsAfter ==
  ASSUME RowTypes, RowStep
  PROVE  /\ \A k \in DOMAIN tasks' : k \in DOMAIN tasks \/ Stays(k)
         /\ \A k \in DOMAIN tasks : (OutstandingRow(k) /\ ~Stays(k)) =>
              \E w \in Worker : Ends(w, k)
<1>1. CASE UNCHANGED tasks
  BY <1>1 DEF Stays, OutstandingRow
<1>2. ASSUME NEW i, NEW r, tasks' = Put(i, r), r.status \in Outstanding
      PROVE  /\ \A k \in DOMAIN tasks' : k \in DOMAIN tasks \/ Stays(k)
             /\ \A k \in DOMAIN tasks : OutstandingRow(k) => Stays(k)
  BY <1>2 DEF Put, Stays, OutstandingRow
<1>3. ASSUME NEW i, NEW force, Enqueue(i, force)
      PROVE  /\ \A k \in DOMAIN tasks' : k \in DOMAIN tasks \/ Stays(k)
             /\ \A k \in DOMAIN tasks : OutstandingRow(k) => Stays(k)
  <2>1. NewRow(force).status \in Outstanding
    BY DEF NewRow, Outstanding
  <2>2. CASE i \in DOMAIN tasks
    BY <1>3, <2>2 DEF Enqueue, Stays, OutstandingRow
  <2>3. CASE i \notin DOMAIN tasks
    BY <1>2, <1>3, <2>1, <2>3 DEF Enqueue
  <2> QED BY <2>2, <2>3
<1>4. ASSUME NEW i, NEW w, Lease(i, w)
      PROVE  /\ \A k \in DOMAIN tasks' : k \in DOMAIN tasks \/ Stays(k)
             /\ \A k \in DOMAIN tasks : OutstandingRow(k) => Stays(k)
  <2> DEFINE held == [tasks[i] EXCEPT !.status = "running", !.token = w,
                                      !.live = TRUE, !.attempted = TRUE]
  <2>1. i \in DOMAIN tasks /\ tasks' = Put(i, held)
    BY <1>4 DEF Lease, Due
  <2>2. held.status \in Outstanding
    BY <2>1 DEF RowTypes, Row, Outstanding
  <2> HIDE DEF held
  <2> QED BY <1>2, <2>1, <2>2
<1>5. ASSUME NEW i, TimePasses(i)
      PROVE  /\ \A k \in DOMAIN tasks' : k \in DOMAIN tasks \/ Stays(k)
             /\ \A k \in DOMAIN tasks : OutstandingRow(k) => Stays(k)
  <2>1. tasks[i].status \in Outstanding
    BY <1>5 DEF TimePasses, Outstanding
  <2>2. [tasks[i] EXCEPT !.due = TRUE].status \in Outstanding
        /\ [tasks[i] EXCEPT !.live = FALSE].status \in Outstanding
    BY <2>1
  <2> QED BY <1>2, <1>5, <2>2 DEF TimePasses
<1>6. ASSUME NEW w \in Worker, NEW i, Ends(w, i)
      PROVE  /\ \A k \in DOMAIN tasks' : k \in DOMAIN tasks
             /\ \A k \in DOMAIN tasks : (OutstandingRow(k) /\ ~Stays(k)) => k = i
  <2>1. i \in DOMAIN tasks
    BY <1>6 DEF Ends, MayFinish
  <2>2. PICK o, f : Finish(i, o, f)
    BY <1>6 DEF Ends
  <2> QED BY <2>1, <2>2, FinishRows
<1> QED BY <1>1, <1>3, <1>4, <1>5, <1>6 DEF RowStep

\* A row that ends in a step hands its minutes on.
LEMMA EndsHandedOn ==
  ASSUME Types, [Next]_vars, NEW w \in Worker, Deferred(w), NEW x, Ends(w, x), ~Stays(x),
         NEW m \in Range(x)
  PROVE  Later(Group(x), m, x.start)'
<1>0. x \in DOMAIN tasks /\ x \in Ids /\ m \in Int /\ Group(x) \in Groups
  BY DEF Ends, MayFinish, Types, RowTypes, Ids, Range, Group, Groups
<1>1. PICK o, f : Finish(x, o, f) /\ EndsAs(w, x, o)
  BY DEF Ends
<1>2. o \notin Outstanding
  BY <1>0, <1>1, FinishRows DEF Types
<1>3. CASE o = "completed" /\ checked' = [checked EXCEPT ![Group(x)] = @ \cup Range(x)]
  <2>1. m \in checked'[Group(x)]
    BY <1>0, <1>3 DEF Types, HistTypes
  <2> QED BY <2>1 DEF Later
<1>4. CASE job[w].pc = "deferring" /\ o = job[w].outcome /\ ~Disowned(job[w])
  <2>1. o \in Outstanding \cup Terminal
    BY <1>4 DEF Types, JobTypes, JobShape
  <2>2. job[w].id = x
    BY DEF Ends
  <2>3. o \in Terminal
    BY <1>2, <2>1
  <2>4. Later(Group(x), m, x.start)
    BY <1>4, <2>2, <2>3 DEF Deferred, HandedOn
  <2>5. CASE m \in checked[Group(x)] \cup waived[Group(x)] \/ Excused(m)
    BY <1>0, <2>5, Grows DEF Later
  <2>6. ASSUME NEW k \in DOMAIN tasks, Group(k) = Group(x), OutstandingRow(k), m \in Range(k),
               k.start > x.start
        PROVE  Later(Group(x), m, x.start)'
    <3>1. k # x
      BY <1>0, <2>6 DEF Ids
    <3>2. Stays(k)
      BY <1>0, <1>1, <2>6, <3>1, FinishRows DEF Types
    <3> QED BY <2>6, <3>2 DEF Later, Stays, OutstandingRow
  <2> QED BY <2>4, <2>5, <2>6 DEF Later
<1>5. CASE waived' = [waived EXCEPT ![Group(x)] = @ \cup Range(x)]
  <2>1. m \in waived'[Group(x)]
    BY <1>0, <1>5 DEF Types, HistTypes
  <2> QED BY <2>1 DEF Later
<1> QED BY <1>1, <1>2, <1>3, <1>4, <1>5 DEF EndsAs, Outstanding

\* A minute that is left to others stays left to others.
LEMMA LaterKept ==
  ASSUME Types, Workers, [Next]_vars
  PROVE  /\ \A g \in Groups : \A m, s \in Int : Later(g, m, s) => Later(g, m, s)'
         /\ \A g \in Groups : \A m \in Int : Covered(g, m) => Covered(g, m)'
         /\ \A x \in DOMAIN tasks : \A m \in Range(x) :
              (OutstandingRow(x) /\ ~Stays(x)) => Later(Group(x), m, x.start)'
<1>0. RowStep
  BY StepShape DEF vars, RowStep
<1>1. ASSUME NEW x \in DOMAIN tasks, NEW m \in Range(x), OutstandingRow(x), ~Stays(x)
      PROVE  Later(Group(x), m, x.start)'
  <2>1. PICK w \in Worker : Ends(w, x)
    BY <1>0, <1>1, RowsAfter DEF Types
  <2> QED BY <1>1, <2>1, EndsHandedOn DEF Workers, Careful
<1>2. ASSUME NEW g \in Groups, NEW m \in Int, NEW s \in Int, Later(g, m, s)
      PROVE  Later(g, m, s)'
  <2>1. CASE m \in checked[g] \cup waived[g] \/ Excused(m)
    BY <2>1, Grows DEF Later
  <2>2. ASSUME NEW k \in DOMAIN tasks, Group(k) = g, OutstandingRow(k), m \in Range(k), k.start > s
        PROVE  Later(g, m, s)'
    <3>1. CASE Stays(k)
      BY <2>2, <3>1 DEF Stays, Later, OutstandingRow
    <3>2. CASE ~Stays(k)
      <4>1. Later(g, m, k.start)'
        BY <1>1, <2>2, <3>2
      <4>2. k.start \in Int /\ \A i \in DOMAIN tasks' : i.start \in Int
        <5>1. RowTypes /\ RowTypes'
          BY TypesStep DEF Types
        <5> QED BY <5>1 DEF RowTypes, Ids
      <4> QED BY <2>2, <4>1, <4>2 DEF Later
    <3> QED BY <3>1, <3>2
  <2> QED BY <1>2, <2>1, <2>2 DEF Later
<1>3. ASSUME NEW g \in Groups, NEW m \in Int, Covered(g, m)
      PROVE  Covered(g, m)'
  <2>1. CASE m \in checked[g] \cup waived[g] \/ Excused(m)
    BY <2>1, Grows DEF Covered
  <2>2. ASSUME NEW k \in DOMAIN tasks, Group(k) = g, OutstandingRow(k), m \in Range(k)
        PROVE  Covered(g, m)'
    <3>1. CASE Stays(k)
      BY <2>2, <3>1 DEF Stays, Covered, OutstandingRow
    <3>2. CASE ~Stays(k)
      <4>1. Later(g, m, k.start)'
        BY <1>1, <2>2, <3>2
      <4> QED BY <4>1 DEF Later, Covered
    <3> QED BY <3>1, <3>2
  <2> QED BY <1>3, <2>1, <2>2 DEF Covered
<1> QED BY <1>1, <1>2, <1>3

\* HandedOn of a row outlives a step.
LEMMA HandedOnKept ==
  ASSUME Types, Workers, [Next]_vars, NEW i \in Ids, HandedOn(i)
  PROVE  HandedOn(i)'
<1>1. Group(i) \in Groups /\ i.start \in Int /\ Range(i) \subseteq Int
  BY DEF Group, Groups, Ids, Range
<1> QED BY <1>1, LaterKept DEF HandedOn

LEMMA GoneKept ==
  ASSUME Types, Gone, Workers, [Next]_vars
  PROVE  Gone'
<1> SUFFICES ASSUME NEW i \in DOMAIN tasks', tasks'[i].status \in Terminal
             PROVE  HandedOn(i)'
  BY DEF Gone
<1>1. ~Stays(i)
  BY DEF Stays, Terminal, Outstanding
<1>2. i \in DOMAIN tasks
  BY <1>1, RowsAfter, StepShape DEF vars, RowStep, Types
<1>3. i \in Ids /\ tasks[i] \in Row
  BY <1>2 DEF Types, RowTypes
<1>4. CASE OutstandingRow(i)
  BY <1>1, <1>2, <1>4, LaterKept DEF HandedOn
<1>5. CASE tasks[i].status \in Terminal
  BY <1>2, <1>3, <1>5, HandedOnKept DEF Gone
<1> QED BY <1>3, <1>4, <1>5 DEF Row, OutstandingRow

(***************************************************************************)
(* What the workers rely on.                                               *)
(***************************************************************************)
\* A worker that is idle or executing relies on nothing.
LEMMA CarefulIdle ==
  ASSUME NEW v \in Worker, job'[v].pc \in {"idle", "want", "locked", "running"}
  PROVE  Careful(v)'
BY DEF Careful, Deferred, Plans

\* A step of somebody else takes nothing from a worker.
LEMMA CarefulOther ==
  ASSUME Types, Workers, [Next]_vars, NEW v \in Worker, job'[v] = job[v],
         v \in {"audit", "days"} => cursor'[Owns(v)] = cursor[Owns(v)]
  PROVE  Careful(v)'
<1>1. job[v] \in JobShape /\ Owns(v) \in Groups
  BY DEF Types, JobTypes, Owns, Groups
<1>2. Careful(v)
  BY DEF Workers
<1>3. Deferred(v)'
  <2>1. HandedOn(job[v].id) => HandedOn(job[v].id)'
    <3>1. ASSUME NEW i \in Ids, HandedOn(i) PROVE HandedOn(i)'
      BY <3>1, HandedOnKept
    <3>2. \A i \in Ids : HandedOn(i) => HandedOn(i)'
      BY <3>1
    <3>3. job[v].id \in Ids /\ job'[v].id = job[v].id
      BY <1>1 DEF JobShape
    <3> QED BY <3>2, <3>3 DEF HandedOn, Later, Group, Range, Excused, Retained, OutstandingRow
  <2> QED BY <1>2, <2>1 DEF Careful, Deferred, Disowned
<1>4. Plans(v)'
  <2>1. \A m \in Range(job[v].id) : Covered(Owns(v), m) => Covered(Owns(v), m)'
    BY <1>1, LaterKept DEF JobShape, Ids, Range
  <2> QED BY <1>2, <2>1 DEF Careful, Plans
<1> QED BY <1>3, <1>4 DEF Careful

\* A registered row, new or met, sees to its minutes.
LEMMA EnqueueCovers ==
  ASSUME Types, Gone, Workers, [Next]_vars, NEW i \in Ids, NEW force, Enqueue(i, force),
         NEW m \in Range(i), NEW s \in Int, s < i.start
  PROVE  Later(Group(i), m, s)'
<1>0. i.start \in Int /\ m \in Int /\ Group(i) \in Groups
  BY DEF Ids, Range, Group, Groups
<1>1. CASE i \in DOMAIN tasks /\ tasks[i].status \in Terminal
  <2>1. Later(Group(i), m, i.start)'
    BY <1>0, <1>1, LaterKept DEF Gone, HandedOn
  <2>2. \A k \in DOMAIN tasks' : k.start \in Int
    BY TypesStep DEF Types, RowTypes, Ids
  <2> QED BY <1>0, <2>1, <2>2 DEF Later
<1>2. CASE i \in DOMAIN tasks /\ tasks[i].status \in Outstanding
  <2>1. tasks' = tasks
    BY <1>2 DEF Enqueue
  <2> QED BY <1>2, <2>1 DEF Later, OutstandingRow
<1>3. CASE i \notin DOMAIN tasks
  <2>1. i \in DOMAIN tasks' /\ tasks'[i] = NewRow(force)
    BY <1>3 DEF Enqueue, Put
  <2>2. tasks'[i].status \in Outstanding
    BY <2>1 DEF NewRow, Outstanding
  <2> QED BY <2>1, <2>2 DEF Later, OutstandingRow
<1> QED BY <1>1, <1>2, <1>3 DEF Types, RowTypes, Row

\* The retry pass ends a row unexecuted only when its minutes are seen to.
LEMMA CarefulExpire ==
  ASSUME Types, Gone, Workers, NEW w \in Worker, Next, RetryExpire(w)
  PROVE  Careful(w)'
<1> DEFINE i == job[w].id
<1>0. i \in Ids /\ i.start \in Int /\ i.end \in Int /\ Retained \in Int /\ Group(i) \in Groups
  BY ConfigTypes DEF Types, JobTypes, JobShape, HistTypes, Ids, Retained, Group, Groups
<1>1. job'[w] = [job[w] EXCEPT !.pc = "defer", !.outcome = "expired"]
  BY DEF RetryExpire, Become, Types, JobTypes
<1>2. job'[w].pc = "defer" /\ job'[w].outcome = "expired" /\ job'[w].id = i
  BY <1>1 DEF Types, JobTypes, JobShape
<1>3. i.start < Retained /\ minute' = minute
  BY DEF RetryExpire
<1>4. ASSUME NEW k \in Ids, k = i, NEW m \in Range(k)
      PROVE  Later(Group(k), m, k.start)'
  <2>0. m \in Int /\ k.start \in Int
    BY <1>4 DEF Range, Ids
  <2>1. CASE m < Retained
    BY <2>1, <1>3 DEF Later, Excused, Retained
  <2>2. CASE m >= Retained
    <3>1. k.end >= Retained
      BY <1>0, <1>4, <2>0, <2>2 DEF Range
    <3>2. PICK r \in Ids : r = Remainder(k)
      BY <1>0, <1>4 DEF Remainder, Ids
    <3>3. Enqueue(r, TRUE)
      BY <1>4, <3>1, <3>2 DEF RetryExpire
    <3>4. m \in Range(r) /\ k.start < r.start /\ Group(r) = Group(k)
      BY <1>0, <1>3, <1>4, <2>0, <2>2, <3>2 DEF Remainder, Range, Group, Ids
    <3>5. Later(Group(r), m, k.start)'
      BY <2>0, <3>3, <3>4, EnqueueCovers
    <3> QED BY <3>4, <3>5
  <2> QED BY <1>0, <2>0, <2>1, <2>2
<1>5. ASSUME NEW k \in Ids, k = i
      PROVE  HandedOn(k)'
  BY <1>4, <1>5 DEF HandedOn
<1>6. Deferred(w)'
  BY <1>0, <1>2, <1>5 DEF Deferred
<1> QED BY <1>2, <1>6 DEF Careful, Plans

LEMMA CarefulDecide ==
  ASSUME Types, Workers, NEW w \in Worker, Next, RetryDecide(w)
  PROVE  Careful(w)'
<1> DEFINE j == job[w]
           listed == ListedAt <= j.id.end
<1>0. j \in JobShape /\ j.id.end \in Int /\ j.id \in Ids /\ ListedAt \in Nat
  BY ConfigTypes DEF Types, JobTypes, JobShape, Ids
<1>1. CASE listed /\ j.symbol = "fresh"
  <2>1. job'[w] = [Idle EXCEPT !.pc = "want", !.id = j.id]
    BY <1>1 DEF RetryDecide, Become, Types, JobTypes
  <2>2. job'[w].pc = "want"
    BY <2>1 DEF Idle
  <2> QED BY <2>2, CarefulIdle
<1>2. CASE ~(listed /\ j.symbol = "fresh")
  <2> DEFINE o == IF listed /\ j.symbol = "unavailable" THEN "waiting" ELSE "excluded"
  <2>1. job'[w] = [j EXCEPT !.pc = "defer", !.outcome = o]
    BY <1>2 DEF RetryDecide, Become, Types, JobTypes
  <2>2. job'[w].pc = "defer" /\ job'[w].outcome = o /\ job'[w].id = j.id
    BY <1>0, <2>1 DEF JobShape
  <2>3. o # "completed" /\ (o \in Terminal => o = "excluded")
    BY DEF Terminal
  <2>4. job'[w].symbol = j.symbol
    BY <1>0, <2>1 DEF JobShape
  <2>5. ASSUME o = "excluded", NEW k \in Ids, k = j.id
        PROVE  HandedOn(k)' \/ j.symbol = "unsubscribed"
    <3>1. CASE ~listed
      <4>1. \A m \in Range(k) : m < ListedAt
        BY <1>0, <2>5, <3>1 DEF Range, Ids
      <4> QED BY <4>1 DEF HandedOn, Later, Excused
    <3> QED BY <1>0, <1>2, <2>5, <3>1 DEF JobShape, Symbols
  <2> HIDE DEF o, listed
  <2>6. Deferred(w)'
    BY <1>0, <2>2, <2>3, <2>4, <2>5 DEF Deferred, Disowned
  <2> QED BY <2>2, <2>6 DEF Careful, Plans
<1> QED BY <1>1, <1>2

LEMMA CarefulDeferLease ==
  ASSUME Types, Workers, NEW w \in Worker, Next, DeferLease(w)
  PROVE  Careful(w)'
<1>0. job[w] \in JobShape
  BY DEF Types, JobTypes
<1>1. CASE job'[w].pc = "idle"
  BY <1>1, CarefulIdle
<1>2. CASE job'[w] = [job[w] EXCEPT !.pc = "deferring"]
  <2>1. /\ job'[w].pc = "deferring" /\ job'[w].outcome = job[w].outcome
        /\ job'[w].id = job[w].id /\ job'[w].symbol = job[w].symbol
    BY <1>0, <1>2 DEF JobShape
  <2>2. job[w].pc = "defer" /\ Deferred(w)
    BY DEF DeferLease, Workers, Careful
  <2>3. ASSUME NEW k \in Ids, k = job[w].id, HandedOn(k)
        PROVE  HandedOn(k)'
    BY <2>3, HandedOnKept
  <2>4. Deferred(w)'
    BY <1>0, <2>1, <2>2, <2>3 DEF Deferred, Disowned, JobShape
  <2> QED BY <2>1, <2>4 DEF Careful, Plans
<1>3. job'[w] = Idle \/ job'[w] = [job[w] EXCEPT !.pc = "deferring"]
  BY DEF DeferLease, Become, Types, JobTypes
<1> QED BY <1>1, <1>2, <1>3 DEF Idle

\* The rolling audit's window lies after the epoch, and registration takes up at
\* the cursor.
LEMMA CarefulAudit ==
  ASSUME Types, Workers, NEW w \in Worker, AuditBegin(w) \/ AuditLoad(w)
  PROVE  Careful(w)'
<1>0. job[w] \in JobShape /\ minute \in Int /\ minute >= StartMinute /\ cursor["non_daily"] \in Nat
  BY DEF Types, JobTypes, HistTypes, Groups
<1>1. w = "audit" /\ Owns(w) = "non_daily" /\ Least(w) = 1
  BY DEF AuditBegin, AuditLoad, Owns, Least
<1>2. CASE AuditBegin(w)
  <2> DEFINE last == minute - AuditDelay - 1
             early == last - Window + 1
  <2>1. last \in Int /\ early \in Int /\ 1 <= early /\ early <= last
    BY <1>0, ConfigTypes
  <2>2. job'[w] = [Idle EXCEPT !.pc = "round", !.start = early, !.end = last]
    BY <1>2 DEF AuditBegin, Become, Types, JobTypes
  <2> HIDE DEF last, early
  <2>3. job'[w].pc = "round" /\ job'[w].start = early /\ job'[w].end = last
    BY <2>2 DEF Idle
  <2> QED BY <2>1, <2>3 DEF Careful, Deferred, Plans
<1>3. CASE AuditLoad(w)
  <2> DEFINE f == IF cursor["non_daily"] = 0 THEN job[w].start ELSE cursor["non_daily"] + 1
  <2>1. 1 <= job[w].start /\ job[w].start <= job[w].end
    BY <1>1, <1>3 DEF AuditLoad, Workers, Careful, Plans
  <2>2. job'[w] = [job[w] EXCEPT !.pc = "plan", !.from = f, !.retained = Retained]
    BY <1>3 DEF AuditLoad, Become, Types, JobTypes
  <2>3. f >= 1 /\ (cursor["non_daily"] # 0 => f <= cursor["non_daily"] + 1)
    BY <1>0, <2>1
  <2>4. UNCHANGED cursor
    BY <1>3 DEF AuditLoad, ledgerVars
  <2> HIDE DEF f
  <2>5. job'[w].pc = "plan" /\ job'[w].start = job[w].start /\ job'[w].end = job[w].end
        /\ job'[w].from = f
    BY <1>0, <2>2 DEF JobShape
  <2> QED BY <1>1, <2>1, <2>3, <2>4, <2>5 DEF Careful, Deferred, Plans
<1> QED BY <1>2, <1>3

\* A settled day starts at the first boundary or later.
LEMMA CarefulDays ==
  ASSUME Types, Workers, Starts, NEW w \in Worker, DaysBegin(w)
  PROVE  Careful(w)'
<1>0. minute \in Int /\ cursor["daily"] \in Nat
  BY DEF Types, HistTypes, Groups
<1>1. w = "days" /\ Owns(w) = "daily" /\ Least(w) = Day /\ UNCHANGED cursor
  BY DEF DaysBegin, Owns, Least, ledgerVars
<1> DEFINE f == IF cursor["daily"] = 0 THEN LatestDay ELSE FloorDay(cursor["daily"] + 1)
<1>2. job'[w] = [Idle EXCEPT !.pc = "plan", !.from = f, !.end = LatestDay, !.retained = OldestDay]
  BY DEF DaysBegin, Become, Types, JobTypes
<1>3. f >= Day /\ (cursor["daily"] # 0 => f <= cursor["daily"] + 1)
  <2>1. CASE cursor["daily"] = 0
    <3>1. LatestDay > 0 /\ minute - DayOffset \in Int
      BY <1>0, ConfigTypes DEF DaysBegin
    <3>2. LatestDay >= Day
      BY <3>1, FloorDayProperties DEF LatestDay
    <3> QED BY <2>1, <3>2
  <2>2. CASE cursor["daily"] # 0
    <3>1. cursor["daily"] >= Day /\ cursor["daily"] + 1 \in Int
      BY <1>0, <2>2 DEF Starts
    <3>2. cursor["daily"] + 1 >= Day
      BY <1>0, <3>1, ConfigTypes
    <3> QED BY <2>2, <3>1, <3>2, FloorDayProperties
  <2> QED BY <2>1, <2>2
<1> HIDE DEF f
<1>4. job'[w].pc = "plan" /\ job'[w].from = f
  BY <1>2 DEF Idle
<1> QED BY <1>1, <1>3, <1>4 DEF Careful, Deferred, Plans

\* The range registered next begins no later than right after the cursor.
LEMMA CarefulEnqueue ==
  ASSUME Types, Gone, Workers, NEW w \in Worker, Next, AuditEnqueue(w) \/ DaysEnqueue(w)
  PROVE  Careful(w)'
<1> DEFINE j == job[w]
           c == cursor[Owns(w)]
<1>0. j \in JobShape /\ c \in Nat /\ Owns(w) \in Groups
  BY DEF Types, JobTypes, HistTypes, Groups, Owns
<1>1. PICK i \in Ids : i = IF w = "audit" THEN NextRange(j) ELSE NextDays(j)
  BY <1>0, RangeTypes
<1>2. /\ Enqueue(i, FALSE) /\ job'[w] = [j EXCEPT !.pc = "save", !.id = i]
      /\ w \in {"audit", "days"} /\ j.pc = "plan" /\ UNCHANGED cursor
  BY <1>1 DEF AuditEnqueue, DaysEnqueue, Become, Types, JobTypes
<1>3. /\ j.from >= Least(w) /\ (c # 0 => j.from <= c + 1)
      /\ w = "audit" => 1 <= j.start /\ j.start <= j.end
  BY <1>2 DEF Workers, Careful, Plans
<1>4. /\ j.from \in Int /\ j.start \in Int /\ j.end \in Int /\ j.retained \in Int
      /\ Chunk \in Nat \ {0} /\ Day \in Nat \ {0}
  BY <1>0, ConfigTypes DEF JobShape
<1>5. /\ i.start >= 1 /\ i.end >= Least(w) /\ (c # 0 => i.start <= c + 1)
      /\ Group(i) = Owns(w)
  <2>1. CASE w = "audit" /\ j.from < j.start
    BY <1>0, <1>1, <1>3, <1>4, <2>1 DEF NextRange, Smaller, Least, Owns, Group
  <2>2. CASE w = "audit" /\ ~(j.from < j.start)
    BY <1>0, <1>1, <1>3, <1>4, <2>2 DEF NextRange, Least, Owns, Group
  <2>3. CASE w = "days"
    BY <1>0, <1>1, <1>3, <1>4, <2>3 DEF NextDays, Least, Owns, Group
  <2> QED BY <1>2, <2>1, <2>2, <2>3
<1>6. \A m \in Range(i) : Covered(Owns(w), m)'
  <2> SUFFICES ASSUME NEW m \in Range(i) PROVE Covered(Owns(w), m)'
    OBVIOUS
  <2>1. i.start \in Int /\ i.start - 1 \in Int /\ i.start - 1 < i.start
    BY DEF Ids
  <2>2. Later(Group(i), m, i.start - 1)'
    BY <1>2, <2>1, EnqueueCovers
  <2> QED BY <1>5, <2>2 DEF Later, Covered
<1>7. job'[w].pc = "save" /\ job'[w].id = i /\ job'[w].start = j.start /\ job'[w].end = j.end
  BY <1>0, <1>2 DEF JobShape
<1>8. cursor'[Owns(w)] = c
  BY <1>2
<1> HIDE DEF j, c
<1> QED BY <1>3, <1>5, <1>6, <1>7, <1>8 DEF Careful, Deferred, Plans

\* After the save the next range starts right behind it.
LEMMA CarefulSave ==
  ASSUME Types, Workers, NEW w \in Worker, AuditSave(w) \/ DaysSave(w)
  PROVE  Careful(w)'
<1> DEFINE j == job[w]
           c == cursor[Owns(w)]
<1>0. j \in JobShape /\ c \in Nat /\ Owns(w) \in Groups /\ j.id.end \in Int
  BY DEF Types, JobTypes, JobShape, Ids, HistTypes, Groups, Owns
<1>1. w \in {"audit", "days"} /\ j.pc = "save" /\ SaveThrough(Owns(w), j.id)
  BY DEF AuditSave, DaysSave, Owns
<1>2. j.id.end >= Least(w) /\ (w = "audit" => 1 <= j.start /\ j.start <= j.end)
  BY <1>1 DEF Workers, Careful, Plans
<1>3. \/ job'[w].pc \in {"want", "idle"}
      \/ job'[w] = [j EXCEPT !.pc = "plan", !.from = j.id.end + 1]
  <2>1. [Idle EXCEPT !.pc = "want", !.id = j.id].pc = "want" /\ Idle.pc = "idle"
    BY DEF Idle
  <2> QED BY <2>1 DEF AuditSave, DaysSave, Become, Types, JobTypes
<1>4. CASE job'[w].pc \in {"want", "idle"}
  BY <1>4, CarefulIdle
<1>5. CASE job'[w] = [j EXCEPT !.pc = "plan", !.from = j.id.end + 1]
  <2>1. job'[w].pc = "plan" /\ job'[w].from = j.id.end + 1 /\ job'[w].start = j.start
        /\ job'[w].end = j.end
    BY <1>0, <1>5 DEF JobShape
  <2>2. cursor'[Owns(w)] = IF j.id.end > c THEN j.id.end ELSE c
    BY <1>0, <1>1 DEF SaveThrough, SaveCursor, Types, HistTypes
  <2>3. j.id.end + 1 <= cursor'[Owns(w)] + 1 /\ j.id.end + 1 >= Least(w)
    BY <1>0, <1>2, <2>2, ConfigTypes DEF Least
  <2> HIDE DEF j, c
  <2> QED BY <1>2, <2>1, <2>3 DEF Careful, Deferred, Plans
<1> QED BY <1>3, <1>4, <1>5

\* Nobody but the registering workers moves a cursor, and each only its own.
LEMMA CursorMoves ==
  ASSUME [Next]_vars
  PROVE  \/ UNCHANGED <<cursor, first>>
         \/ \E w \in Worker : AuditSave(w) \/ DaysSave(w)
BY ZenonT(30) DEF Next, WorkerStep, vars, histVars, ledgerVars, AuditBegin, AuditLoad, AuditEnqueue,
       DaysBegin, DaysEnqueue, ExecLock, ExecLease, ExecSkip, ExecFinish, RetryList,
       RetryExpire, RetryDecide, DeferLease, DeferFinish, CallFails, Crash, InventoryChanges,
       MinutePasses, TimeReaches, LeaseOverruns, TimePasses

\* What w does in its own step.
LEMMA CarefulOwn ==
  ASSUME Types, Gone, Workers, Starts, NEW w \in Worker, Next,
         \/ AuditBegin(w) \/ DaysBegin(w) \/ WorkerStep(w) \/ CallFails(w)
         \/ ExecFinish(w, "waiting")
         \/ \E i \in DOMAIN tasks : RetryList(w, i)
  PROVE  Careful(w)' /\ \A v \in Worker \ {w} : job'[v] = job[v]
<1>0. job \in [Worker -> JobShape]
  BY DEF Types, JobTypes
<1>a. ASSUME NEW j, Become(w, j)
      PROVE  job'[w] = j /\ \A v \in Worker \ {w} : job'[v] = job[v]
  BY <1>0, <1>a DEF Become
<1>b. \E j : Become(w, j)
  BY DEF WorkerStep, AuditBegin, AuditLoad, AuditEnqueue, AuditSave, DaysBegin, DaysEnqueue,
         DaysSave, ExecLock, ExecLease, ExecSkip, ExecFinish, RetryList, RetryExpire,
         RetryDecide, DeferLease, DeferFinish, CallFails
<1>c. \A v \in Worker \ {w} : job'[v] = job[v]
  BY <1>a, <1>b
<1>d. SUFFICES Careful(w)'
  BY <1>c
<1>1. CASE AuditBegin(w) \/ AuditLoad(w)
  BY <1>1, CarefulAudit
<1>2. CASE DaysBegin(w)
  BY <1>2, CarefulDays
<1>3. CASE AuditEnqueue(w) \/ DaysEnqueue(w)
  BY <1>3, CarefulEnqueue
<1>4. CASE AuditSave(w) \/ DaysSave(w)
  BY <1>4, CarefulSave
<1>5. CASE \/ ExecLock(w) \/ ExecLease(w) \/ ExecSkip(w) \/ ExecFinish(w, "completed")
           \/ ExecFinish(w, "waiting") \/ DeferFinish(w) \/ CallFails(w)
  <2>1. job'[w].pc \in {"idle", "locked", "running"}
    <3>1. CASE ExecSkip(w) \/ ExecFinish(w, "completed") \/ ExecFinish(w, "waiting")
               \/ DeferFinish(w) \/ CallFails(w)
      <4>1. job'[w] = Idle
        BY <1>a, <3>1 DEF ExecSkip, ExecFinish, DeferFinish, CallFails
      <4> QED BY <4>1 DEF Idle
    <3>2. CASE ExecLock(w)
      <4>1. job'[w] = [job[w] EXCEPT !.pc = "locked"]
        BY <1>a, <3>2 DEF ExecLock
      <4> QED BY <1>0, <4>1 DEF JobShape
    <3>3. CASE ExecLease(w)
      <4>1. \E r : job'[w] = [job[w] EXCEPT !.pc = "running", !.replay = r]
        BY <1>a, <3>3 DEF ExecLease
      <4> QED BY <1>0, <4>1 DEF JobShape
    <3> QED BY <1>5, <3>1, <3>2, <3>3
  <2> QED BY <2>1, CarefulIdle
<1>6. ASSUME NEW i \in DOMAIN tasks, RetryList(w, i)
      PROVE  Careful(w)'
  <2>1. job'[w] = [Idle EXCEPT !.pc = "picked", !.id = i, !.force = tasks[i].force,
                               !.symbol = inventory]
    BY <1>6, <1>a DEF RetryList
  <2>2. job'[w].pc = "picked"
    BY <2>1 DEF Idle
  <2> QED BY <2>2 DEF Careful, Deferred, Plans
<1>7. CASE RetryExpire(w)
  BY <1>7, CarefulExpire
<1>8. CASE RetryDecide(w)
  BY <1>8, CarefulDecide
<1>9. CASE DeferLease(w)
  BY <1>9, CarefulDeferLease
<1> QED BY <1>1, <1>2, <1>3, <1>4, <1>5, <1>6, <1>7, <1>8, <1>9 DEF WorkerStep

LEMMA WorkersKept ==
  ASSUME Types, Gone, Workers, Starts, [Next]_vars
  PROVE  Workers'
<1>0. cursor \in [Groups -> Nat]
  BY DEF Types, HistTypes
<1>1. ASSUME UNCHANGED <<job, cursor>>
      PROVE  Workers'
  BY <1>1, CarefulOther DEF Workers
<1>2. CASE UNCHANGED vars
  BY <1>1, <1>2 DEF vars
<1>3. ASSUME NEW w \in Worker, Next, \/ AuditBegin(w) \/ DaysBegin(w) \/ WorkerStep(w) \/ CallFails(w)
                                     \/ ExecFinish(w, "waiting")
                                     \/ \E i \in DOMAIN tasks : RetryList(w, i)
      PROVE  Workers'
  <2> SUFFICES ASSUME NEW v \in Worker PROVE Careful(v)'
    BY DEF Workers
  <2>1. CASE v = w
    BY <1>3, <2>1, CarefulOwn
  <2>2. CASE v # w
    <3>1. job'[v] = job[v]
      BY <1>3, <2>2, CarefulOwn
    <3>2. UNCHANGED <<cursor, first>> \/ AuditSave(w) \/ DaysSave(w)
      BY <1>3 DEF WorkerStep, histVars, ledgerVars, AuditBegin, AuditLoad, AuditEnqueue,
           DaysBegin, DaysEnqueue, ExecLock, ExecLease, ExecSkip, ExecFinish, RetryList,
           RetryExpire, RetryDecide, DeferLease, DeferFinish, CallFails
    <3>3. v \in {"audit", "days"} => cursor'[Owns(v)] = cursor[Owns(v)]
      BY <1>0, <2>2, <3>2 DEF AuditSave, DaysSave, SaveThrough, SaveCursor, Owns, Groups
    <3> QED BY <1>3, <3>1, <3>3, CarefulOther
  <2> QED BY <2>1, <2>2
<1>4. CASE \E i \in DOMAIN tasks : TimeReaches(i) \/ LeaseOverruns(i)
  BY <1>1, <1>4 DEF TimeReaches, LeaseOverruns, TimePasses, jobVars
<1>5. CASE InventoryChanges \/ MinutePasses
  BY <1>1, <1>5 DEF InventoryChanges, MinutePasses, jobVars, ledgerVars
<1>6. CASE Crash
  <2>1. \A v \in Worker : job'[v].pc = "idle"
    BY <1>6 DEF Crash, Idle
  <2> QED BY <2>1, CarefulIdle DEF Workers
<1> QED BY <1>2, <1>3, <1>4, <1>5, <1>6 DEF Next

(***************************************************************************)
(* The cursors.                                                            *)
(***************************************************************************)
LEMMA CursorsKept ==
  ASSUME CoverInv, [Next]_vars
  PROVE  Starts' /\ CursorCovered'
<1>0. cursor \in [Groups -> Nat] /\ first \in [Groups -> Int] /\ Day \in Nat \ {0}
  BY ConfigTypes DEF CoverInv, Types, HistTypes
<1>1. \A g \in Groups : \A m \in first[g]..cursor[g] : first[g] = 0 \/ Covered(g, m)
  BY DEF CoverInv, CursorCovered, Covered
<1>2. \A g \in Groups : \A m \in Int : Covered(g, m) => Covered(g, m)'
  BY LaterKept DEF CoverInv
<1>3. SUFFICES Starts' /\ \A g \in Groups : \A m \in first'[g]..cursor'[g] :
                            first'[g] = 0 \/ Covered(g, m)'
  BY DEF CursorCovered, Covered
<1>4. CASE UNCHANGED <<cursor, first>>
  BY <1>0, <1>1, <1>2, <1>4 DEF CoverInv, Starts
<1>5. ASSUME NEW w \in Worker, AuditSave(w) \/ DaysSave(w)
      PROVE  Starts' /\ \A g \in Groups : \A m \in first'[g]..cursor'[g] :
                            first'[g] = 0 \/ Covered(g, m)'
  <2> DEFINE i == job[w].id
             o == Owns(w)
  <2>1. w \in {"audit", "days"} /\ job[w].pc = "save" /\ SaveThrough(o, i) /\ o \in Groups
    BY <1>5 DEF AuditSave, DaysSave, Owns, Groups
  <2>2. /\ i.start >= 1 /\ i.end >= Least(w) /\ (cursor[o] # 0 => i.start <= cursor[o] + 1)
        /\ \A m \in Range(i) : Covered(o, m)
    BY <2>1 DEF CoverInv, Workers, Careful, Plans
  <2>3. i.start \in Int /\ i.end \in Int
    BY DEF CoverInv, Types, JobTypes, JobShape, Ids
  <2>4. /\ cursor'[o] = (IF i.end > cursor[o] THEN i.end ELSE cursor[o])
        /\ first'[o] = (IF first[o] = 0 THEN i.start ELSE first[o])
        /\ \A g \in Groups \ {o} : cursor'[g] = cursor[g] /\ first'[g] = first[g]
    BY <1>0, <2>1 DEF SaveThrough, SaveCursor
  <2>5. first[o] = 0 <=> cursor[o] = 0
    BY <2>1 DEF CoverInv, Starts
  <2>6. i.end >= 1 /\ cursor[o] \in Nat /\ first[o] \in Int /\ (o = "daily" => i.end >= Day)
    BY <1>0, <2>1, <2>2, <2>3 DEF Least, Owns
  <2>7. \A m \in Int : (i.start <= m /\ m <= i.end) => Covered(o, m)
    BY <2>2, <2>3 DEF Range
  <2> HIDE DEF i, o
  <2>8. Starts'
    BY <1>0, <2>1, <2>2, <2>3, <2>4, <2>5, <2>6 DEF CoverInv, Starts, Groups
  <2>9. ASSUME NEW m \in first'[o]..cursor'[o]
        PROVE  Covered(o, m)'
    <3>0. m \in Int /\ first'[o] <= m /\ m <= cursor'[o]
      BY <2>3, <2>4, <2>6
    <3>1. CASE i.start <= m /\ m <= i.end
      BY <1>2, <2>1, <2>7, <3>0, <3>1
    <3>2. CASE ~(i.start <= m /\ m <= i.end)
      <4>1. first[o] # 0 /\ m \in first[o]..cursor[o]
        BY <2>2, <2>3, <2>4, <2>5, <2>6, <3>0, <3>2
      <4> QED BY <1>1, <1>2, <2>1, <3>0, <4>1
    <3> QED BY <3>1, <3>2
  <2>10. ASSUME NEW g \in Groups \ {o}, NEW m \in first'[g]..cursor'[g]
         PROVE  first'[g] = 0 \/ Covered(g, m)'
    <3>1. m \in first[g]..cursor[g] /\ m \in Int
      BY <1>0, <2>4, <2>10
    <3> QED BY <1>1, <1>2, <2>4, <3>1
  <2> QED BY <2>8, <2>9, <2>10
<1> QED BY <1>4, <1>5, CursorMoves

\* No minute behind a registration cursor is forgotten: auditMinuteWindow and
\* MinuteDayAuditOnce register before they save the cursor and take up behind it,
\* the retry pass registers the remainder before it expires a row and excludes only
\* what was not listed yet or what a fresh inventory says is not subscribed (those
\* rows are given up, though a halted symbol may come back; see waived), and an
\* execution completes a row only for minutes it has checked.  For every horizon,
\* retention, day, window and chunk, every set of the four workers and any number of
\* failures and restarts.
THEOREM CursorsForgetNothing == Spec => []CursorCovered
<1>1. Init => CoverInv
  BY CoverInit
<1>2. ASSUME CoverInv, [Next]_vars
      PROVE  CoverInv'
  BY <1>2, TypesStep, GoneKept, WorkersKept, CursorsKept DEF CoverInv
<1>3. CoverInv => CursorCovered
  BY DEF CoverInv
<1> QED BY <1>1, <1>2, <1>3, PTL DEF Spec

-----------------------------------------------------------------------------
(***************************************************************************)
(* No replay is forgotten.                                                 *)
(*                                                                         *)
(* A dirty minute needs an outstanding row that is sure to be replayed:    *)
(* one that cannot complete without a replay, now or after its first run.  *)
(* Such a row ends by a replay, or by expiring in favour of its remainder. *)
(* The remainder may meet a row of the same identity, which then wins, so  *)
(* the invariant knows which identities can meet: a row that could         *)
(* complete without a replay is a whole window or a downtime task behind   *)
(* the cursor, and neither is the remainder of anything; a daily row that  *)
(* has completed under the identity of a remainder was a replay.           *)
(*                                                                         *)
(* First, what a step does to one row and to one worker.                   *)
(***************************************************************************)
\* A step of worker w.
Moves(w) == \/ AuditBegin(w) \/ DaysBegin(w) \/ WorkerStep(w) \/ CallFails(w)
            \/ ExecFinish(w, "waiting")
            \/ \E i \in DOMAIN tasks : RetryList(w, i)

\* Row k is left as it is, but for the passing of time.
Same(k) == /\ k \in DOMAIN tasks /\ k \in DOMAIN tasks'
           /\ tasks'[k].status = tasks[k].status
           /\ tasks'[k].force = tasks[k].force
           /\ tasks'[k].attempted = tasks[k].attempted
\* w registers n, to be replayed or not.
Registering(w, n, force) ==
  \/ AuditEnqueue(w) /\ n = NextRange(job[w]) /\ force = FALSE
  \/ DaysEnqueue(w) /\ n = NextDays(job[w]) /\ force = FALSE
  \/ RetryExpire(w) /\ job[w].id.end >= Retained /\ n = Remainder(job[w].id) /\ force = TRUE
Created(w, k) ==
  \E force \in BOOLEAN : /\ Registering(w, k, force) /\ k \notin DOMAIN tasks
                         /\ k \in DOMAIN tasks' /\ tasks'[k] = NewRow(force)
Leased(w, k) ==
  /\ ExecLease(w) \/ DeferLease(w)
  /\ k = job[w].id /\ k \in DOMAIN tasks /\ OutstandingRow(k)
  /\ k \in DOMAIN tasks' /\ tasks'[k].status = "running"
  /\ tasks'[k].force = tasks[k].force /\ tasks'[k].attempted = TRUE
\* w records the outcome of k, which it holds.
Recorded(w, k, outcome) ==
  /\ k = job[w].id /\ k \in DOMAIN tasks /\ tasks[k].status = "running"
  /\ IF outcome = "completed" /\ k.kind # "daily"
       THEN k \notin DOMAIN tasks'
       ELSE /\ k \in DOMAIN tasks' /\ tasks'[k].status = outcome
            /\ tasks'[k].attempted = tasks[k].attempted
Over(w, k) ==
  \/ ExecFinish(w, "waiting") /\ Recorded(w, k, "waiting") /\ tasks'[k].force = TRUE
  \/ ExecFinish(w, "completed") /\ Recorded(w, k, "completed")
  \/ DeferFinish(w) /\ Recorded(w, k, job[w].outcome)
Pruned(k) == k \in DOMAIN tasks /\ k \notin DOMAIN tasks' /\ tasks[k].status \in Terminal

RowFate(k) == \/ Same(k) \/ Pruned(k)
              \/ \E w \in Worker : Created(w, k) \/ Leased(w, k) \/ Over(w, k)

\* FinishMinuteAuditTask, row by row.
LEMMA FinishFate ==
  ASSUME RowTypes, NEW i \in DOMAIN tasks, NEW outcome, NEW force, Finish(i, outcome, force),
         NEW k \in DOMAIN tasks \cup DOMAIN tasks'
  PROVE  IF k = i
           THEN IF outcome = "completed" /\ i.kind # "daily"
                  THEN i \notin DOMAIN tasks'
                  ELSE /\ i \in DOMAIN tasks' /\ tasks'[i].status = outcome
                       /\ tasks'[i].attempted = tasks[i].attempted /\ tasks'[i].force = force
           ELSE Same(k) \/ Pruned(k)
<1> DEFINE done == [tasks[i] EXCEPT !.status = outcome, !.token = NoToken,
                      !.live = FALSE, !.due = FALSE, !.force = force]
<1>1. CASE outcome = "completed" /\ i.kind # "daily"
  <2>1. tasks' = Without({i})
    BY <1>1 DEF Finish
  <2> QED BY <1>1, <2>1 DEF Without, Same
<1>2. CASE ~(outcome = "completed" /\ i.kind # "daily")
  <2>1. \/ \E D \in SUBSET Prunable(i) :
             tasks' = [j \in DOMAIN tasks \ D |-> IF j = i THEN done ELSE tasks[j]]
        \/ tasks' = Put(i, done)
    BY <1>2 DEF Finish
  <2>2. done.status = outcome /\ done.attempted = tasks[i].attempted /\ done.force = force
    BY DEF RowTypes, Row
  <2>3. \A j \in Prunable(i) : j # i /\ tasks[j].status \in Terminal
    BY DEF Prunable
  <2> HIDE DEF done
  <2>4. CASE tasks' = Put(i, done)
    BY <1>2, <2>2, <2>4 DEF Put, Same
  <2>5. ASSUME NEW D \in SUBSET Prunable(i),
               tasks' = [j \in DOMAIN tasks \ D |-> IF j = i THEN done ELSE tasks[j]]
        PROVE  IF k = i
                 THEN /\ i \in DOMAIN tasks' /\ tasks'[i].status = outcome
                      /\ tasks'[i].attempted = tasks[i].attempted /\ tasks'[i].force = force
                 ELSE Same(k) \/ Pruned(k)
    BY <2>2, <2>3, <2>5 DEF Same, Pruned
  <2> QED BY <1>2, <2>1, <2>4, <2>5
<1> QED BY <1>1, <1>2

\* Registration, row by row.
LEMMA EnqueueFate ==
  ASSUME NEW i, NEW force, Enqueue(i, force), NEW k \in DOMAIN tasks \cup DOMAIN tasks'
  PROVE  \/ Same(k)
         \/ k = i /\ k \notin DOMAIN tasks /\ k \in DOMAIN tasks' /\ tasks'[k] = NewRow(force)
BY DEF Enqueue, Put, Same

LEMMA LeaseFate ==
  ASSUME RowTypes, NEW i, NEW w, Lease(i, w), NEW k \in DOMAIN tasks \cup DOMAIN tasks'
  PROVE  \/ Same(k)
         \/ /\ k = i /\ k \in DOMAIN tasks /\ OutstandingRow(k)
            /\ k \in DOMAIN tasks' /\ tasks'[k].status = "running"
            /\ tasks'[k].force = tasks[k].force /\ tasks'[k].attempted = TRUE
<1> DEFINE held == [tasks[i] EXCEPT !.status = "running", !.token = w,
                                    !.live = TRUE, !.attempted = TRUE]
<1>1. i \in DOMAIN tasks /\ tasks' = Put(i, held) /\ OutstandingRow(i)
  BY DEF Lease, Due, OutstandingRow, Outstanding
<1>2. held.status = "running" /\ held.force = tasks[i].force /\ held.attempted = TRUE
  BY <1>1 DEF RowTypes, Row
<1> HIDE DEF held
<1> QED BY <1>1, <1>2 DEF Put, Same

LEMMA TimeFate ==
  ASSUME RowTypes, NEW i, TimePasses(i), NEW k \in DOMAIN tasks \cup DOMAIN tasks'
  PROVE  Same(k)
<1>1. ASSUME NEW r, i \in DOMAIN tasks, tasks' = Put(i, r), r.status = tasks[i].status,
             r.force = tasks[i].force, r.attempted = tasks[i].attempted
      PROVE  Same(k)
  BY <1>1 DEF Put, Same
<1>2. i \in DOMAIN tasks /\ tasks[i] \in Row
  BY DEF TimePasses, RowTypes
<1>3. CASE tasks' = Put(i, [tasks[i] EXCEPT !.due = TRUE])
  <2> DEFINE r == [tasks[i] EXCEPT !.due = TRUE]
  <2>1. r.status = tasks[i].status /\ r.force = tasks[i].force /\ r.attempted = tasks[i].attempted
    BY <1>2 DEF Row
  <2> HIDE DEF r
  <2> QED BY <1>1, <1>2, <1>3, <2>1 DEF r
<1>4. CASE tasks' = Put(i, [tasks[i] EXCEPT !.live = FALSE])
  <2> DEFINE r == [tasks[i] EXCEPT !.live = FALSE]
  <2>1. r.status = tasks[i].status /\ r.force = tasks[i].force /\ r.attempted = tasks[i].attempted
    BY <1>2 DEF Row
  <2> HIDE DEF r
  <2> QED BY <1>1, <1>2, <1>4, <2>1 DEF r
<1> QED BY <1>3, <1>4 DEF TimePasses

\* Every step leaves a row alone, prunes it, registers it, leases it or records
\* its outcome.
LEMMA Fates ==
  ASSUME Types, [Next]_vars, NEW k \in DOMAIN tasks \cup DOMAIN tasks'
  PROVE  RowFate(k)
<1>0. RowTypes
  BY DEF Types
<1>1. CASE UNCHANGED tasks
  BY <1>1 DEF RowFate, Same
<1>2. ASSUME NEW w \in Worker,
             AuditBegin(w) \/ DaysBegin(w) \/ CallFails(w) \/ AuditLoad(w) \/ AuditSave(w)
               \/ DaysSave(w) \/ ExecLock(w) \/ ExecSkip(w) \/ RetryDecide(w)
               \/ \E i \in DOMAIN tasks : RetryList(w, i)
      PROVE  UNCHANGED tasks
  BY <1>2 DEF AuditBegin, DaysBegin, CallFails, AuditLoad, AuditSave, DaysSave,
              ExecLock, ExecSkip, RetryDecide, RetryList, ledgerVars
<1>3. ASSUME NEW w \in Worker, AuditEnqueue(w) \/ DaysEnqueue(w) \/ RetryExpire(w)
      PROVE  RowFate(k)
  <2>1. UNCHANGED tasks \/ \E n : \E force \in BOOLEAN : Registering(w, n, force) /\ Enqueue(n, force)
    BY <1>3 DEF AuditEnqueue, DaysEnqueue, RetryExpire, Registering
  <2>2. ASSUME NEW n, NEW force \in BOOLEAN, Registering(w, n, force), Enqueue(n, force)
        PROVE  RowFate(k)
    BY <2>2, EnqueueFate DEF RowFate, Created
  <2> QED BY <1>1, <2>1, <2>2
<1>4. ASSUME NEW w \in Worker, ExecLease(w) \/ DeferLease(w)
      PROVE  RowFate(k)
  <2>1. UNCHANGED tasks \/ Lease(job[w].id, w)
    BY <1>4 DEF ExecLease, DeferLease
  <2> QED BY <1>0, <1>1, <1>4, <2>1, LeaseFate DEF RowFate, Leased
<1>5. ASSUME NEW w \in Worker, NEW outcome \in {"completed", "waiting"}, ExecFinish(w, outcome)
      PROVE  RowFate(k)
  <2> DEFINE i == job[w].id
  <2>1. CASE ~MayFinish(i, w, FALSE)
    BY <1>1, <1>5, <2>1 DEF ExecFinish
  <2>2. CASE MayFinish(i, w, FALSE)
    <3>1. Finish(i, outcome, outcome # "completed") /\ i \in DOMAIN tasks /\ tasks[i].status = "running"
      BY <1>5, <2>2 DEF ExecFinish, MayFinish
    <3> HIDE DEF i
    <3>2. CASE k = i
      <4>1. Recorded(w, k, outcome) /\ (outcome = "waiting" => tasks'[k].force = (outcome # "completed"))
        BY <1>0, <3>1, <3>2, FinishFate DEF Recorded, i
      <4>2. Over(w, k)
        BY <1>5, <4>1 DEF Over
      <4> QED BY <4>2 DEF RowFate
    <3>3. CASE k # i
      BY <1>0, <3>1, <3>3, FinishFate DEF RowFate
    <3> QED BY <3>2, <3>3
  <2> QED BY <2>1, <2>2
<1>6. ASSUME NEW w \in Worker, DeferFinish(w)
      PROVE  RowFate(k)
  <2> DEFINE i == job[w].id
  <2>1. CASE ~MayFinish(i, w, TRUE)
    BY <1>1, <1>6, <2>1 DEF DeferFinish
  <2>2. CASE MayFinish(i, w, TRUE)
    <3>1. Finish(i, job[w].outcome, job[w].force) /\ i \in DOMAIN tasks /\ tasks[i].status = "running"
      BY <1>6, <2>2 DEF DeferFinish, MayFinish
    <3> HIDE DEF i
    <3>2. CASE k = i
      <4>1. Recorded(w, k, job[w].outcome)
        BY <1>0, <3>1, <3>2, FinishFate DEF Recorded, i
      <4> QED BY <1>6, <4>1 DEF Over, RowFate
    <3>3. CASE k # i
      BY <1>0, <3>1, <3>3, FinishFate DEF RowFate
    <3> QED BY <3>2, <3>3
  <2> QED BY <2>1, <2>2
<1>7. ASSUME NEW i \in DOMAIN tasks, TimeReaches(i) \/ LeaseOverruns(i)
      PROVE  RowFate(k)
  BY <1>0, <1>7, TimeFate DEF TimeReaches, LeaseOverruns, RowFate
<1>8. CASE Crash \/ InventoryChanges \/ MinutePasses \/ UNCHANGED vars
  BY <1>1, <1>8 DEF Crash, InventoryChanges, MinutePasses, ledgerVars, vars
<1> QED BY <1>1, <1>2, <1>3, <1>4, <1>5, <1>6, <1>7, <1>8 DEF Next, WorkerStep

\* A step moves one worker, crashes them all, or moves none.
Calm == \/ \E i \in DOMAIN tasks : TimeReaches(i) \/ LeaseOverruns(i)
        \/ InventoryChanges \/ MinutePasses \/ UNCHANGED vars

LEMMA Movers ==
  ASSUME [Next]_vars
  PROVE  (\E w \in Worker : Moves(w)) \/ Crash \/ Calm
BY DEF Next, Moves, Calm

LEMMA CalmJobs ==
  ASSUME Calm
  PROVE  UNCHANGED <<job, minuteLock, roundAt, cursor, dirty>>
<1>1. ASSUME NEW i \in DOMAIN tasks, TimeReaches(i) \/ LeaseOverruns(i)
      PROVE  UNCHANGED <<job, minuteLock, roundAt, cursor, dirty>>
  BY <1>1 DEF TimeReaches, LeaseOverruns, TimePasses, jobVars, histVars
<1>2. CASE InventoryChanges \/ MinutePasses
  BY <1>2 DEF InventoryChanges, MinutePasses, jobVars, histVars, ledgerVars
<1>3. CASE UNCHANGED vars
  BY <1>3 DEF vars
<1> QED BY <1>1, <1>2, <1>3 DEF Calm

\* What a worker is doing after its step, action by action.
LEMMA OwnJob ==
  ASSUME Types, NEW w \in Worker, Moves(w)
  PROVE  /\ \A v \in Worker \ {w} : job'[v] = job[v]
         /\ \E j : Become(w, j)
         /\ \A j : Become(w, j) => job'[w] = j
<1>0. job \in [Worker -> JobShape]
  BY DEF Types, JobTypes
<1>1. \E j : Become(w, j)
  BY DEF Moves, WorkerStep, AuditBegin, AuditLoad, AuditEnqueue, AuditSave, DaysBegin, DaysEnqueue,
         DaysSave, ExecLock, ExecLease, ExecSkip, ExecFinish, RetryList, RetryExpire,
         RetryDecide, DeferLease, DeferFinish, CallFails
<1> QED BY <1>0, <1>1 DEF Become

\* The steps that end a job.
Stops(w) == ExecSkip(w) \/ ExecFinish(w, "completed") \/ ExecFinish(w, "waiting")
            \/ DeferFinish(w) \/ CallFails(w)

LEMMA JobAfter ==
  ASSUME Types, NEW w \in Worker
  PROVE  /\ AuditBegin(w) =>
              /\ w = "audit" /\ job'[w].pc = "round" /\ job'[w].start = minute - AuditDelay - Window
              /\ job'[w].end = minute - AuditDelay - 1
         /\ AuditLoad(w) =>
              /\ w = "audit" /\ job[w].pc = "round" /\ job'[w].pc = "plan"
              /\ job'[w].start = job[w].start /\ job'[w].end = job[w].end
              /\ job'[w].retained = Retained
              /\ job'[w].from = IF cursor["non_daily"] = 0 THEN job[w].start
                                ELSE cursor["non_daily"] + 1
         /\ AuditEnqueue(w) =>
              /\ w = "audit" /\ job[w].pc = "plan" /\ job'[w].pc = "save"
              /\ job'[w].id = NextRange(job[w])
              /\ job'[w].start = job[w].start /\ job'[w].end = job[w].end
              /\ job'[w].retained = job[w].retained
         /\ AuditSave(w) =>
              /\ w = "audit" /\ job[w].pc = "save"
              /\ IF job[w].id.kind = "window"
                   THEN job'[w].pc = "want" /\ job'[w].id = job[w].id
                   ELSE /\ job'[w].pc = "plan" /\ job'[w].from = job[w].id.end + 1
                        /\ job'[w].start = job[w].start /\ job'[w].end = job[w].end
                        /\ job'[w].retained = job[w].retained
         /\ DaysBegin(w) =>
              /\ w = "days" /\ job'[w].pc = "plan" /\ job'[w].retained = OldestDay
              /\ job'[w].from = IF cursor["daily"] = 0 THEN LatestDay
                                ELSE FloorDay(cursor["daily"] + 1)
         /\ DaysEnqueue(w) =>
              /\ w = "days" /\ job[w].pc = "plan" /\ job'[w].pc = "save"
              /\ job'[w].id = NextDays(job[w]) /\ job'[w].retained = job[w].retained
         /\ DaysSave(w) =>
              /\ w = "days" /\ job[w].pc = "save"
              /\ \/ job'[w].pc = "idle"
                 \/ /\ job'[w].pc = "plan" /\ job'[w].from = job[w].id.end + 1
                    /\ job'[w].retained = job[w].retained
         /\ ExecLock(w) =>
              /\ job[w].pc = "want" /\ job'[w].pc = "locked" /\ job'[w].id = job[w].id
              /\ minuteLock = NoToken /\ minuteLock' = w
         /\ ExecLease(w) =>
              /\ job[w].pc = "locked" /\ job'[w].pc = "running" /\ job'[w].id = job[w].id
              /\ Lease(job[w].id, w)
              /\ job'[w].replay = (tasks[job[w].id].force \/ tasks[job[w].id].attempted
                                     \/ job[w].id.kind = "daily")
         /\ RetryExpire(w) =>
              /\ job[w].pc = "picked" /\ job'[w].pc = "defer" /\ job'[w].id = job[w].id
              /\ job'[w].outcome = "expired" /\ job[w].id.start < Retained
         /\ RetryDecide(w) =>
              /\ job[w].pc = "picked" /\ job'[w].id = job[w].id /\ job[w].id.start >= Retained
              /\ \/ job'[w].pc = "want"
                 \/ job'[w].pc = "defer" /\ job'[w].outcome = "waiting"
                 \/ /\ job'[w].pc = "defer" /\ job'[w].outcome = "excluded"
                    /\ job[w].id.end < ListedAt \/ Disowned(job'[w])
         /\ DeferLease(w) =>
              /\ job[w].pc = "defer"
              /\ \/ job'[w].pc = "idle"
                 \/ /\ job'[w].pc = "deferring" /\ job'[w].id = job[w].id
                    /\ job'[w].outcome = job[w].outcome /\ job'[w].symbol = job[w].symbol
         /\ \A i \in DOMAIN tasks : RetryList(w, i) =>
              /\ w \in {"retry", "daily"} /\ job[w].pc = "idle" /\ job'[w].pc = "picked"
              /\ job'[w].id = i /\ (w = "daily" <=> i.kind = "daily")
         /\ Stops(w) => job'[w].pc = "idle"
<1>0. job \in [Worker -> JobShape] /\ job[w] \in JobShape
  BY DEF Types, JobTypes
<1>a. ASSUME NEW j, Become(w, j) PROVE job'[w] = j
  BY <1>0, <1>a DEF Become
<1>1. ASSUME AuditBegin(w)
      PROVE  /\ w = "audit" /\ job'[w].pc = "round" /\ job'[w].start = minute - AuditDelay - Window
             /\ job'[w].end = minute - AuditDelay - 1
  <2> DEFINE last == minute - AuditDelay - 1
             early == last - Window + 1
  <2>1. w = "audit" /\ job'[w] = [Idle EXCEPT !.pc = "round", !.start = early, !.end = last]
    BY <1>a, <1>1 DEF AuditBegin
  <2>2. early = minute - AuditDelay - Window
    BY ConfigTypes DEF Types, HistTypes
  <2> HIDE DEF last, early
  <2>3. job'[w].pc = "round" /\ job'[w].start = early /\ job'[w].end = last
    BY <2>1 DEF Idle
  <2> QED BY <2>1, <2>2, <2>3 DEF last
<1>2. ASSUME AuditLoad(w)
      PROVE  /\ w = "audit" /\ job[w].pc = "round" /\ job'[w].pc = "plan"
             /\ job'[w].start = job[w].start /\ job'[w].end = job[w].end
             /\ job'[w].retained = Retained
             /\ job'[w].from = IF cursor["non_daily"] = 0 THEN job[w].start
                               ELSE cursor["non_daily"] + 1
  <2> DEFINE f == IF cursor["non_daily"] = 0 THEN job[w].start ELSE cursor["non_daily"] + 1
  <2>1. job'[w] = [job[w] EXCEPT !.pc = "plan", !.from = f, !.retained = Retained]
    BY <1>a, <1>2 DEF AuditLoad
  <2>2. w = "audit" /\ job[w].pc = "round"
    BY <1>2 DEF AuditLoad
  <2> HIDE DEF f
  <2>3. /\ job'[w].pc = "plan" /\ job'[w].start = job[w].start /\ job'[w].end = job[w].end
        /\ job'[w].retained = Retained /\ job'[w].from = f
    BY <1>0, <2>1 DEF JobShape
  <2> QED BY <2>2, <2>3 DEF f
<1>3. ASSUME AuditEnqueue(w)
      PROVE  /\ w = "audit" /\ job[w].pc = "plan" /\ job'[w].pc = "save"
             /\ job'[w].id = NextRange(job[w])
             /\ job'[w].start = job[w].start /\ job'[w].end = job[w].end
             /\ job'[w].retained = job[w].retained
  <2>1. job'[w] = [job[w] EXCEPT !.pc = "save", !.id = NextRange(job[w])]
    BY <1>a, <1>3 DEF AuditEnqueue
  <2>2. w = "audit" /\ job[w].pc = "plan"
    BY <1>3 DEF AuditEnqueue
  <2> QED BY <1>0, <2>1, <2>2 DEF JobShape
<1>4. ASSUME AuditSave(w)
      PROVE  /\ w = "audit" /\ job[w].pc = "save"
             /\ IF job[w].id.kind = "window"
                  THEN job'[w].pc = "want" /\ job'[w].id = job[w].id
                  ELSE /\ job'[w].pc = "plan" /\ job'[w].from = job[w].id.end + 1
                       /\ job'[w].start = job[w].start /\ job'[w].end = job[w].end
                       /\ job'[w].retained = job[w].retained
  <2>1. w = "audit" /\ job[w].pc = "save"
    BY <1>4 DEF AuditSave
  <2>2. CASE job[w].id.kind = "window"
    <3>1. job'[w] = [Idle EXCEPT !.pc = "want", !.id = job[w].id]
      BY <1>a, <1>4, <2>2 DEF AuditSave
    <3> QED BY <2>1, <2>2, <3>1 DEF Idle
  <2>3. CASE job[w].id.kind # "window"
    <3> DEFINE f == job[w].id.end + 1
    <3>1. job'[w] = [job[w] EXCEPT !.pc = "plan", !.from = f]
      BY <1>a, <1>4, <2>3 DEF AuditSave
    <3> HIDE DEF f
    <3>2. /\ job'[w].pc = "plan" /\ job'[w].from = f
          /\ job'[w].start = job[w].start /\ job'[w].end = job[w].end
          /\ job'[w].retained = job[w].retained
      BY <1>0, <3>1 DEF JobShape
    <3> QED BY <2>1, <2>3, <3>2 DEF f
  <2> QED BY <2>2, <2>3
<1>5. ASSUME DaysBegin(w)
      PROVE  /\ w = "days" /\ job'[w].pc = "plan" /\ job'[w].retained = OldestDay
             /\ job'[w].from = IF cursor["daily"] = 0 THEN LatestDay
                               ELSE FloorDay(cursor["daily"] + 1)
  <2> DEFINE f == IF cursor["daily"] = 0 THEN LatestDay ELSE FloorDay(cursor["daily"] + 1)
  <2>1. job'[w] = [Idle EXCEPT !.pc = "plan", !.from = f, !.end = LatestDay, !.retained = OldestDay]
    BY <1>a, <1>5 DEF DaysBegin
  <2>2. w = "days"
    BY <1>5 DEF DaysBegin
  <2> HIDE DEF f
  <2>3. job'[w].pc = "plan" /\ job'[w].retained = OldestDay /\ job'[w].from = f
    BY <2>1 DEF Idle
  <2> QED BY <2>2, <2>3 DEF f
<1>6. ASSUME DaysEnqueue(w)
      PROVE  /\ w = "days" /\ job[w].pc = "plan" /\ job'[w].pc = "save"
             /\ job'[w].id = NextDays(job[w]) /\ job'[w].retained = job[w].retained
  <2>1. job'[w] = [job[w] EXCEPT !.pc = "save", !.id = NextDays(job[w])]
    BY <1>a, <1>6 DEF DaysEnqueue
  <2>2. w = "days" /\ job[w].pc = "plan"
    BY <1>6 DEF DaysEnqueue
  <2> QED BY <1>0, <2>1, <2>2 DEF JobShape
<1>7. ASSUME DaysSave(w)
      PROVE  /\ w = "days" /\ job[w].pc = "save"
             /\ \/ job'[w].pc = "idle"
                \/ /\ job'[w].pc = "plan" /\ job'[w].from = job[w].id.end + 1
                   /\ job'[w].retained = job[w].retained
  <2> DEFINE f == job[w].id.end + 1
  <2>1. job'[w] = Idle \/ job'[w] = [job[w] EXCEPT !.pc = "plan", !.from = f]
    BY <1>a, <1>7 DEF DaysSave
  <2>2. w = "days" /\ job[w].pc = "save"
    BY <1>7 DEF DaysSave
  <2> HIDE DEF f
  <2>3. \/ job'[w].pc = "idle"
        \/ job'[w].pc = "plan" /\ job'[w].from = f /\ job'[w].retained = job[w].retained
    <3>1. CASE job'[w] = Idle
      BY <3>1 DEF Idle
    <3>2. CASE job'[w] = [job[w] EXCEPT !.pc = "plan", !.from = f]
      BY <1>0, <3>2 DEF JobShape
    <3> QED BY <2>1, <3>1, <3>2
  <2> QED BY <2>2, <2>3 DEF f
<1>8. ASSUME ExecLock(w)
      PROVE  /\ job[w].pc = "want" /\ job'[w].pc = "locked" /\ job'[w].id = job[w].id
             /\ minuteLock = NoToken /\ minuteLock' = w
  <2>1. job'[w] = [job[w] EXCEPT !.pc = "locked"]
    BY <1>a, <1>8 DEF ExecLock
  <2>2. job[w].pc = "want" /\ minuteLock = NoToken /\ minuteLock' = w
    BY <1>8 DEF ExecLock
  <2> QED BY <1>0, <2>1, <2>2 DEF JobShape
<1>9. ASSUME ExecLease(w)
      PROVE  /\ job[w].pc = "locked" /\ job'[w].pc = "running" /\ job'[w].id = job[w].id
             /\ Lease(job[w].id, w)
             /\ job'[w].replay = (tasks[job[w].id].force \/ tasks[job[w].id].attempted
                                    \/ job[w].id.kind = "daily")
  <2> DEFINE r == tasks[job[w].id].force \/ tasks[job[w].id].attempted \/ job[w].id.kind = "daily"
  <2>1. job'[w] = [job[w] EXCEPT !.pc = "running", !.replay = r]
    BY <1>a, <1>9 DEF ExecLease
  <2>2. job[w].pc = "locked" /\ Lease(job[w].id, w)
    BY <1>9 DEF ExecLease
  <2> HIDE DEF r
  <2>3. job'[w].pc = "running" /\ job'[w].id = job[w].id /\ job'[w].replay = r
    BY <1>0, <2>1 DEF JobShape
  <2> QED BY <2>2, <2>3 DEF r
<1>10. ASSUME RetryExpire(w)
       PROVE  /\ job[w].pc = "picked" /\ job'[w].pc = "defer" /\ job'[w].id = job[w].id
              /\ job'[w].outcome = "expired" /\ job[w].id.start < Retained
  <2>1. job'[w] = [job[w] EXCEPT !.pc = "defer", !.outcome = "expired"]
    BY <1>a, <1>10 DEF RetryExpire
  <2>2. job[w].pc = "picked" /\ job[w].id.start < Retained
    BY <1>10 DEF RetryExpire
  <2> QED BY <1>0, <2>1, <2>2 DEF JobShape
<1>11. ASSUME RetryDecide(w)
       PROVE  /\ job[w].pc = "picked" /\ job'[w].id = job[w].id /\ job[w].id.start >= Retained
              /\ \/ job'[w].pc = "want"
                 \/ job'[w].pc = "defer" /\ job'[w].outcome = "waiting"
                 \/ /\ job'[w].pc = "defer" /\ job'[w].outcome = "excluded"
                    /\ job[w].id.end < ListedAt \/ Disowned(job'[w])
  <2>1. job[w].pc = "picked" /\ job[w].id.start >= Retained
    BY <1>11 DEF RetryDecide
  <2> DEFINE listed == ListedAt <= job[w].id.end
             o == IF listed /\ job[w].symbol = "unavailable" THEN "waiting" ELSE "excluded"
  <2>2. CASE listed /\ job[w].symbol = "fresh"
    <3>1. job'[w] = [Idle EXCEPT !.pc = "want", !.id = job[w].id]
      BY <1>a, <1>11, <2>2 DEF RetryDecide
    <3> QED BY <2>1, <3>1 DEF Idle
  <2>3. CASE ~(listed /\ job[w].symbol = "fresh")
    <3>1. job'[w] = [job[w] EXCEPT !.pc = "defer", !.outcome = o]
      BY <1>a, <1>11, <2>3 DEF RetryDecide
    <3>2. o = "waiting" \/ (o = "excluded" /\ (job[w].id.end < ListedAt \/ job[w].symbol = "unsubscribed"))
      BY <1>0, <2>3, ConfigTypes DEF JobShape, Symbols, Ids
    <3> HIDE DEF o, listed
    <3>3. /\ job'[w].pc = "defer" /\ job'[w].outcome = o /\ job'[w].id = job[w].id
          /\ job'[w].symbol = job[w].symbol
      BY <1>0, <3>1 DEF JobShape
    <3> QED BY <2>1, <3>2, <3>3 DEF Disowned
  <2> QED BY <2>2, <2>3
<1>12. ASSUME DeferLease(w)
       PROVE  /\ job[w].pc = "defer"
              /\ \/ job'[w].pc = "idle"
                 \/ /\ job'[w].pc = "deferring" /\ job'[w].id = job[w].id
                    /\ job'[w].outcome = job[w].outcome /\ job'[w].symbol = job[w].symbol
  <2>1. job'[w] = Idle \/ job'[w] = [job[w] EXCEPT !.pc = "deferring"]
    BY <1>a, <1>12 DEF DeferLease
  <2>2. job[w].pc = "defer"
    BY <1>12 DEF DeferLease
  <2> QED BY <1>0, <2>1, <2>2 DEF JobShape, Idle
<1>13. ASSUME NEW i \in DOMAIN tasks, RetryList(w, i)
       PROVE  /\ w \in {"retry", "daily"} /\ job[w].pc = "idle" /\ job'[w].pc = "picked"
              /\ job'[w].id = i /\ (w = "daily" <=> i.kind = "daily")
  <2>1. job'[w] = [Idle EXCEPT !.pc = "picked", !.id = i, !.force = tasks[i].force,
                               !.symbol = inventory]
    BY <1>a, <1>13 DEF RetryList
  <2>2. job'[w].pc = "picked" /\ job'[w].id = i
    BY <2>1 DEF Idle
  <2>3. w \in {"retry", "daily"} /\ job[w].pc = "idle" /\ (w = "daily" <=> i.kind = "daily")
    BY <1>13 DEF RetryList, Group
  <2> QED BY <2>2, <2>3
<1>14. ASSUME Stops(w) PROVE job'[w].pc = "idle"
  <2>1. job'[w] = Idle
    BY <1>a, <1>14 DEF Stops, ExecSkip, ExecFinish, DeferFinish, CallFails
  <2> QED BY <2>1 DEF Idle
<1> QED BY <1>1, <1>2, <1>3, <1>4, <1>5, <1>6, <1>7, <1>8, <1>9, <1>10, <1>11, <1>12, <1>13, <1>14

(***************************************************************************)
(* Rows that are sure to be replayed.                                      *)
(***************************************************************************)
\* The identities of rows and of what workers have in hand.
Engaged == {"save", "picked", "want", "locked", "running", "defer", "deferring"}
Known(i) == \/ i \in DOMAIN tasks
            \/ \E w \in Worker : job[w].pc \in Engaged /\ job[w].id = i

\* i may complete without a replay: it was never attempted, or this is its first run.
Fresh(i) == i \in DOMAIN tasks /\ i.kind # "daily" /\ ~tasks[i].force /\ ~tasks[i].attempted
FirstRun(i) == \E w \in Worker : job[w].pc = "running" /\ job[w].id = i /\ ~job[w].replay
Young(i) == Fresh(i) \/ FirstRun(i)

\* A remainder of the daily row i has completed: what is left of i is past retention.
Superseded(i) == i.kind = "daily" /\ \E r \in DOMAIN tasks :
  r.kind = "daily" /\ tasks[r].status = "completed" /\ r.end = i.end /\ r.start > i.start

\* An outstanding row whose next execution replays, and one that is sure to do so.
Replays(i) == /\ i \in DOMAIN tasks /\ OutstandingRow(i)
              /\ tasks[i].force \/ tasks[i].attempted \/ i.kind = "daily"
Sure(i) == i \in DOMAIN tasks /\ OutstandingRow(i) /\ ~Young(i) /\ ~Superseded(i)

\* What a row's status tells of it.
Ended == \A i \in DOMAIN tasks :
  /\ tasks[i].status = "completed" => i.kind = "daily"
  /\ tasks[i].status = "expired" => i.start < Retained
  /\ tasks[i].status = "excluded" => i.end < ListedAt \/ Range(i) \subseteq waived[Group(i)]
  /\ tasks[i].status = "running" => tasks[i].attempted

\* w records the final outcome of k; and by doing so leaves k superseded.
Closes(w, k) ==
  \/ ExecFinish(w, "completed") /\ Recorded(w, k, "completed")
  \/ DeferFinish(w) /\ job[w].outcome \in Terminal /\ Recorded(w, k, job[w].outcome)
Supersedes(w, k) == /\ ExecFinish(w, "completed") /\ k.kind = "daily"
                    /\ \E r \in DOMAIN tasks : /\ Recorded(w, r, "completed") /\ r.kind = "daily"
                                               /\ r.end = k.end /\ r.start > k.start

(***************************************************************************)
(* How they change in a step.                                              *)
(***************************************************************************)
LEMMA KnownAfter ==
  ASSUME Types, [Next]_vars, NEW k, Known(k)'
  PROVE  Known(k) \/ \E w \in Worker : \E force \in BOOLEAN : Registering(w, k, force)
<1>1. CASE k \in DOMAIN tasks'
  <2>1. RowFate(k)
    BY <1>1, Fates
  <2> QED BY <2>1 DEF RowFate, Same, Pruned, Created, Leased, Over, Recorded, Known
<1>2. ASSUME NEW v \in Worker, job'[v].pc \in Engaged, job'[v].id = k
      PROVE  Known(k) \/ \E w \in Worker : \E force \in BOOLEAN : Registering(w, k, force)
  <2>1. CASE job'[v] = job[v]
    BY <1>2, <2>1 DEF Known
  <2>2. CASE Crash
    <3>1. job'[v].pc = "idle"
      BY <2>2 DEF Crash, Idle
    <3> QED BY <1>2, <3>1 DEF Engaged
  <2>3. CASE Moves(v)
    <3>1. CASE AuditEnqueue(v) \/ DaysEnqueue(v)
      <4>1. CASE AuditEnqueue(v)
        <5>1. k = NextRange(job[v])
          BY <1>2, <4>1, JobAfter
        <5> QED BY <4>1, <5>1 DEF Registering
      <4>2. CASE DaysEnqueue(v)
        <5>1. k = NextDays(job[v])
          BY <1>2, <4>2, JobAfter
        <5> QED BY <4>2, <5>1 DEF Registering
      <4> QED BY <3>1, <4>1, <4>2
    <3>2. CASE AuditSave(v) \/ ExecLock(v) \/ ExecLease(v) \/ RetryExpire(v) \/ RetryDecide(v)
               \/ DeferLease(v)
      <4>1. job[v].pc \in {"save", "want", "locked", "picked", "defer"} /\
            (job'[v].id = job[v].id \/ job'[v].pc \in {"idle", "plan"})
        BY <3>2, JobAfter
      <4> QED BY <1>2, <4>1 DEF Engaged, Known
    <3>3. CASE AuditBegin(v) \/ AuditLoad(v) \/ DaysBegin(v) \/ DaysSave(v) \/ Stops(v)
      <4>1. job'[v].pc \in {"idle", "plan", "round"}
        BY <3>3, JobAfter
      <4> QED BY <1>2, <4>1 DEF Engaged
    <3>4. ASSUME NEW i \in DOMAIN tasks, RetryList(v, i)
          PROVE  Known(k)
      BY <1>2, <3>4, JobAfter DEF Known
    <3> QED BY <2>3, <3>1, <3>2, <3>3, <3>4 DEF Moves, WorkerStep, Stops
  <2>4. Moves(v) \/ Crash \/ job'[v] = job[v]
    BY Movers, OwnJob, CalmJobs
  <2> QED BY <2>1, <2>2, <2>3, <2>4
<1> QED BY <1>1, <1>2 DEF Known

LEMMA FreshAfter ==
  ASSUME Types, Ended, [Next]_vars, NEW k, Fresh(k)'
  PROVE  \/ Fresh(k)
         \/ \E w \in Worker : AuditEnqueue(w) /\ k = NextRange(job[w]) /\ k \notin DOMAIN tasks
<1>0. /\ k \in DOMAIN tasks' /\ k.kind # "daily" /\ ~tasks'[k].force /\ ~tasks'[k].attempted
      /\ tasks'[k].force # TRUE /\ tasks'[k].attempted # TRUE
  BY DEF Fresh
<1>1. RowFate(k)
  BY <1>0, Fates
<1>2. CASE Same(k)
  BY <1>0, <1>2 DEF Same, Fresh
<1>3. ASSUME NEW w \in Worker, Created(w, k)
      PROVE  AuditEnqueue(w) /\ k = NextRange(job[w]) /\ k \notin DOMAIN tasks
  <2>1. PICK force \in BOOLEAN : /\ Registering(w, k, force) /\ k \notin DOMAIN tasks
                                 /\ tasks'[k] = NewRow(force)
    BY <1>3 DEF Created
  <2>2. force = FALSE
    BY <1>0, <2>1 DEF NewRow
  <2>3. ~(DaysEnqueue(w) /\ k = NextDays(job[w]))
    BY <1>0 DEF NextDays
  <2> QED BY <2>1, <2>2, <2>3 DEF Registering
<1>4. ASSUME NEW w \in Worker, Leased(w, k)
      PROVE  FALSE
  BY <1>0, <1>4 DEF Leased
<1>5. ASSUME NEW w \in Worker, Over(w, k)
      PROVE  FALSE
  <2>1. tasks[k].status = "running" /\ k \in DOMAIN tasks
    BY <1>5 DEF Over, Recorded
  <2>2. tasks[k].attempted
    BY <2>1 DEF Ended
  <2>3. tasks'[k].attempted # tasks[k].attempted
    BY <1>0, <2>2
  <2> QED BY <1>0, <1>5, <2>3 DEF Over, Recorded
<1> QED BY <1>0, <1>1, <1>2, <1>3, <1>4, <1>5 DEF RowFate, Pruned

LEMMA FirstRunAfter ==
  ASSUME Types, [Next]_vars, NEW k, FirstRun(k)'
  PROVE  Young(k)
<1>1. PICK v \in Worker : job'[v].pc = "running" /\ job'[v].id = k /\ ~job'[v].replay
  BY DEF FirstRun
<1>2. CASE job'[v] = job[v]
  BY <1>1, <1>2 DEF FirstRun, Young
<1>3. CASE Crash
  <2>1. job'[v].pc = "idle"
    BY <1>3 DEF Crash, Idle
  <2> QED BY <1>1, <2>1
<1>4. CASE Moves(v)
  <2>1. ~Stops(v)
    BY <1>1, JobAfter
  <2>2. ~(\E i \in DOMAIN tasks : RetryList(v, i))
    BY <1>1, JobAfter
  <2>3. ExecLease(v)
    BY <1>1, <1>4, <2>1, <2>2, JobAfter DEF Moves, WorkerStep, Stops
  <2>4. /\ k = job[v].id /\ Lease(k, v)
        /\ job'[v].replay = (tasks[k].force \/ tasks[k].attempted \/ k.kind = "daily")
    BY <1>1, <2>3, JobAfter
  <2>5. k \in DOMAIN tasks
    BY <2>4 DEF Lease, Due
  <2>6. ~tasks[k].force /\ ~tasks[k].attempted /\ k.kind # "daily"
    BY <1>1, <2>4
  <2> QED BY <2>5, <2>6 DEF Young, Fresh
<1>5. Moves(v) \/ Crash \/ job'[v] = job[v]
  BY Movers, OwnJob, CalmJobs
<1> QED BY <1>2, <1>3, <1>4, <1>5

\* Only the rolling audit's registration makes an identity young.
LEMMA YoungAfter ==
  ASSUME Types, Ended, [Next]_vars, NEW k, Young(k)'
  PROVE  \/ Young(k)
         \/ \E w \in Worker : AuditEnqueue(w) /\ k = NextRange(job[w]) /\ k \notin DOMAIN tasks
BY FreshAfter, FirstRunAfter DEF Young

LEMMA OutstandingKept ==
  ASSUME Types, [Next]_vars, NEW k \in DOMAIN tasks, OutstandingRow(k)
  PROVE  \/ k \in DOMAIN tasks' /\ OutstandingRow(k)'
         \/ \E w \in Worker : Closes(w, k)
<1>1. RowFate(k)
  BY Fates
<1>2. CASE Same(k)
  BY <1>2 DEF Same, OutstandingRow
<1>3. ~Pruned(k)
  BY DEF Pruned, OutstandingRow, Outstanding, Terminal
<1>4. ASSUME NEW w \in Worker, Created(w, k) \/ Leased(w, k)
      PROVE  k \in DOMAIN tasks' /\ OutstandingRow(k)'
  BY <1>4 DEF Created, Leased, OutstandingRow, Outstanding
<1>5. ASSUME NEW w \in Worker, Over(w, k)
      PROVE  (k \in DOMAIN tasks' /\ OutstandingRow(k)') \/ Closes(w, k)
  <2>1. CASE ExecFinish(w, "waiting") /\ Recorded(w, k, "waiting")
    BY <2>1 DEF Recorded, OutstandingRow, Outstanding
  <2>2. CASE DeferFinish(w) /\ Recorded(w, k, job[w].outcome)
    <3>1. job[w].outcome \in Outstanding \cup Terminal
      BY DEF Types, JobTypes, JobShape
    <3>2. CASE job[w].outcome \in Outstanding
      BY <2>2, <3>2 DEF Recorded, OutstandingRow, Outstanding
    <3> QED BY <2>2, <3>1, <3>2 DEF Closes
  <2> QED BY <1>5, <2>1, <2>2 DEF Over, Closes
<1> QED BY <1>1, <1>2, <1>3, <1>4, <1>5 DEF RowFate

LEMMA ReplaysKept ==
  ASSUME Types, Ended, [Next]_vars, NEW k, Replays(k)
  PROVE  Replays(k)' \/ \E w \in Worker : Closes(w, k)
<1>0. k \in DOMAIN tasks /\ OutstandingRow(k)
  BY DEF Replays
<1>1. SUFFICES ASSUME k \in DOMAIN tasks' /\ OutstandingRow(k)'
               PROVE  tasks'[k].force \/ tasks'[k].attempted \/ k.kind = "daily"
  BY <1>0, OutstandingKept DEF Replays
<1>2. CASE k.kind = "daily"
  BY <1>2
<1>3. CASE k.kind # "daily"
  <2>1. tasks[k].force \/ tasks[k].attempted
    BY <1>3 DEF Replays
  <2>2. ~Fresh(k)
    BY <2>1 DEF Fresh
  <2>3. ~Fresh(k)'
    BY <1>0, <2>2, FreshAfter
  <2> QED BY <1>1, <1>3, <2>3 DEF Fresh
<1> QED BY <1>2, <1>3

LEMMA SupersededAfter ==
  ASSUME Types, Workers, [Next]_vars, NEW k, Superseded(k)'
  PROVE  Superseded(k) \/ \E w \in Worker : Supersedes(w, k)
<1>1. PICK r \in DOMAIN tasks' : /\ r.kind = "daily" /\ tasks'[r].status = "completed"
                                 /\ r.end = k.end /\ r.start > k.start
  BY DEF Superseded
<1>2. k.kind = "daily"
  BY DEF Superseded
<1>3. RowFate(r)
  BY Fates
<1>4. CASE Same(r)
  BY <1>1, <1>2, <1>4 DEF Same, Superseded
<1>5. ASSUME NEW w \in Worker, Created(w, r) \/ Leased(w, r)
      PROVE  FALSE
  BY <1>1, <1>5 DEF Created, Leased, NewRow
<1>6. ASSUME NEW w \in Worker, Over(w, r)
      PROVE  Supersedes(w, k)
  <2>1. CASE ExecFinish(w, "waiting") /\ Recorded(w, r, "waiting")
    BY <1>1, <2>1 DEF Recorded
  <2>2. CASE DeferFinish(w) /\ Recorded(w, r, job[w].outcome)
    <3>1. job[w].pc = "deferring" /\ job[w].outcome # "completed"
      BY <2>2 DEF DeferFinish, Workers, Careful, Deferred
    <3> QED BY <1>1, <2>2, <3>1 DEF Recorded
  <2>3. CASE ExecFinish(w, "completed") /\ Recorded(w, r, "completed")
    BY <1>1, <1>2, <2>3 DEF Supersedes, Recorded
  <2> QED BY <1>6, <2>1, <2>2, <2>3 DEF Over
<1> QED BY <1>3, <1>4, <1>5, <1>6 DEF RowFate, Pruned

LEMMA SureKept ==
  ASSUME Types, Workers, Ended, [Next]_vars, NEW k, Sure(k)
  PROVE  Sure(k)' \/ \E w \in Worker : Closes(w, k) \/ Supersedes(w, k)
BY OutstandingKept, YoungAfter, SupersededAfter DEF Sure

\* A sure row is one that replays.
LEMMA SureReplays ==
  ASSUME NEW k, Sure(k)
  PROVE  Replays(k)
BY DEF Sure, Replays, Young, Fresh

\* Day boundaries.
Aligned(x) == \E k \in Int : x = k * Day

LEMMA AlignedFacts ==
  /\ \A x \in Int : Aligned(FloorDay(x))
  /\ \A x \in Int : Aligned(x) => Aligned(x + Day) /\ Aligned(x - Day)
  /\ \A x, y \in Int : (Aligned(x) /\ Aligned(y) /\ x < y) => x + Day <= y
<1>0. Day \in Nat \ {0}
  BY ConfigTypes
<1>1. ASSUME NEW x \in Int PROVE Aligned(FloorDay(x))
  <2>1. x \div Day \in Int
    BY <1>0
  <2> QED BY <2>1 DEF Aligned, FloorDay
<1>2. ASSUME NEW x \in Int, Aligned(x) PROVE Aligned(x + Day) /\ Aligned(x - Day)
  <2>1. PICK k \in Int : x = k * Day
    BY <1>2 DEF Aligned
  <2>2. x + Day = (k + 1) * Day /\ x - Day = (k - 1) * Day
    BY <1>0, <2>1
  <2>3. k + 1 \in Int /\ k - 1 \in Int
    OBVIOUS
  <2> QED BY <2>2, <2>3 DEF Aligned
<1>3. ASSUME NEW x \in Int, NEW y \in Int, Aligned(x), Aligned(y), x < y PROVE x + Day <= y
  <2>1. PICK k \in Int : x = k * Day
    BY <1>3 DEF Aligned
  <2>2. PICK l \in Int : y = l * Day
    BY <1>3 DEF Aligned
  <2>3. k < l
    <3> SUFFICES ASSUME l <= k PROVE FALSE
      OBVIOUS
    <3>1. k - l \in Nat
      OBVIOUS
    <3>2. (k - l) * Day >= 0
      BY <1>0, <3>1
    <3>3. (k - l) * Day = x - y
      BY <1>0, <2>1, <2>2
    <3> QED BY <1>3, <3>2, <3>3
  <2>4. l - k - 1 \in Nat
    BY <2>3
  <2>5. (l - k - 1) * Day >= 0
    BY <1>0, <2>4
  <2>6. (l - k - 1) * Day = y - x - Day
    BY <1>0, <2>1, <2>2
  <2> QED BY <1>0, <2>5, <2>6
<1> QED BY <1>1, <1>2, <1>3

\* Where the window of the current round of the rolling audit starts.
RoundStart == roundAt - AuditDelay - Window
Marks == dirty \subseteq Int /\ roundAt \in Int /\ roundAt <= minute

LEMMA RoundMoves ==
  ASSUME [Next]_vars
  PROVE  \/ roundAt' = roundAt
         \/ roundAt' = minute /\ minute' = minute
BY ZenonT(30) DEF Next, WorkerStep, vars, AuditBegin, AuditLoad, AuditEnqueue,
       AuditSave, DaysBegin, DaysEnqueue, DaysSave, ExecLock, ExecLease, ExecSkip, RetryList,
       RetryExpire, RetryDecide, DeferLease, DeferFinish, CallFails, Crash, InventoryChanges,
       MinutePasses, TimeReaches, LeaseOverruns, ExecFinish

LEMMA DirtyMoves ==
  ASSUME [Next]_vars
  PROVE  \/ dirty' = dirty
         \/ \E w \in Worker : /\ ExecFinish(w, "completed")
                              /\ dirty' = IF job[w].replay THEN dirty \ Range(job[w].id) ELSE dirty
         \/ \E w \in Worker : /\ job[w].pc = "running"
                              /\ ExecFinish(w, "waiting") \/ CallFails(w)
                              /\ dirty' = dirty \cup Range(job[w].id)
         \/ /\ Crash
            /\ dirty' = dirty \cup UNION {Range(job[w].id) : w \in {x \in Worker : job[x].pc = "running"}}
<1>1. ASSUME NEW w \in Worker, ExecFinish(w, "completed")
      PROVE  dirty' = IF job[w].replay THEN dirty \ Range(job[w].id) ELSE dirty
  BY <1>1 DEF ExecFinish
<1>2. ASSUME NEW w \in Worker, ExecFinish(w, "waiting")
      PROVE  job[w].pc = "running" /\ dirty' = dirty \cup Range(job[w].id)
  BY <1>2 DEF ExecFinish, Interrupted
<1>3. ASSUME NEW w \in Worker, CallFails(w)
      PROVE  dirty' = dirty \/ (job[w].pc = "running" /\ dirty' = dirty \cup Range(job[w].id))
  BY <1>3 DEF CallFails, Interrupted
<1>4. CASE Crash
  BY <1>4 DEF Crash
<1>5. \/ dirty' = dirty \/ Crash
      \/ \E w \in Worker : ExecFinish(w, "completed") \/ ExecFinish(w, "waiting") \/ CallFails(w)
  BY ZenonT(30) DEF Next, WorkerStep, vars, histVars, AuditBegin, AuditLoad, AuditEnqueue,
       AuditSave, DaysBegin, DaysEnqueue, DaysSave, ExecLock, ExecLease, ExecSkip, RetryList,
       RetryExpire, RetryDecide, DeferLease, DeferFinish, InventoryChanges,
       MinutePasses, TimeReaches, LeaseOverruns
<1> QED BY <1>1, <1>2, <1>3, <1>4, <1>5

LEMMA Shift ==
  \A a, b \in Int : a <= b =>
    /\ a - Retention + 1 \in Int /\ b - Retention + 1 \in Int
    /\ a - Retention + 1 <= b - Retention + 1
    /\ a - AuditDelay - Window \in Int /\ b - AuditDelay - Window \in Int
    /\ a - AuditDelay - Window <= b - AuditDelay - Window
BY ConfigTypes

LEMMA MarksKept ==
  ASSUME Types, Marks, [Next]_vars
  PROVE  /\ Marks' /\ Retained \in Int /\ Retained' \in Int /\ Retained <= Retained'
         /\ RoundStart \in Int /\ RoundStart' \in Int /\ RoundStart <= RoundStart'
<1>0. minute \in Int /\ minute' \in Int /\ minute <= minute'
  BY TypesStep, Grows DEF Types, HistTypes
<1>1. roundAt' \in Int /\ roundAt <= roundAt' /\ roundAt' <= minute'
  BY <1>0, RoundMoves DEF Marks
<1>2. \A w \in Worker : Range(job[w].id) \subseteq Int
  BY DEF Types, JobTypes, JobShape, Ids, Range
<1>3. UNION {Range(job[w].id) : w \in {x \in Worker : job[x].pc = "running"}} \subseteq Int
  BY <1>2, Zenon
<1>4. dirty' \subseteq Int
  <2>1. CASE \E w \in Worker : dirty' = dirty \cup Range(job[w].id)
    BY <1>2, <2>1 DEF Marks
  <2>2. CASE dirty' = dirty \cup UNION {Range(job[w].id) : w \in {x \in Worker : job[x].pc = "running"}}
    BY <1>3, <2>2, Zenon DEF Marks
  <2>3. CASE \/ dirty' = dirty
             \/ \E w \in Worker :
                  dirty' = IF job[w].replay THEN dirty \ Range(job[w].id) ELSE dirty
    BY <2>3 DEF Marks
  <2> QED BY <2>1, <2>2, <2>3, DirtyMoves
<1>5. Marks'
  BY <1>1, <1>4 DEF Marks
<1>6. Retained \in Int /\ Retained' \in Int /\ Retained <= Retained'
  BY <1>0, Shift, ConfigTypes DEF Retained
<1>7. RoundStart \in Int /\ RoundStart' \in Int /\ RoundStart <= RoundStart'
  <2>1. roundAt \in Int
    BY DEF Marks
  <2> QED BY <1>1, <2>1, Shift DEF RoundStart
<1> QED BY <1>5, <1>6, <1>7

\* The shapes of identities.
Shape(i) ==
  /\ i.start <= i.end
  /\ i.kind = "window" => i.end < i.start + Window
  /\ i.kind = "catchup" => (i.end < i.start + Chunk \/ i.end < Retained) /\ i.end < RoundStart
  /\ i.kind = "daily" => /\ i.end < i.start + Day \/ i.end - Day + 1 < Retained
                         /\ Aligned(i.start) \/ i.start <= Retained
                         /\ Aligned(i.end + 1)
Shapes == \A i \in Ids : Known(i) => Shape(i)

\* Young identities are what the rolling audit registered: whole windows, and
\* downtime tasks behind the cursor ...
Youngs == \A f \in Ids : (Known(f) /\ Young(f)) =>
  /\ f.kind # "daily"
  /\ f.kind = "window" => f.end = f.start + Window - 1
  /\ f.kind = "catchup" => f.start <= cursor["non_daily"] + 1
\* ... which are no remainder of another identity.
Apart == \A f, i \in Ids :
  (/\ Known(f) /\ Young(f) /\ f.kind = "catchup" /\ f.end >= Retained
   /\ Known(i) /\ i.kind = "catchup" /\ i.end = f.end) => i.start >= f.start
\* Of two daily identities with one end the later is a remainder.
Nested == \A i, r \in Ids :
  (Known(i) /\ Known(r) /\ i.kind = "daily" /\ r.kind = "daily" /\ i.end = r.end
     /\ i.start < r.start) => r.start <= Retained

\* What the registering workers carry from step to step.
CatchupsEnd(s) == \A i \in Ids : (Known(i) /\ i.kind = "catchup") => i.end < s - 1
Planned(w) ==
  LET j == job[w]
  IN /\ w = "audit" =>
          /\ j.pc \in {"round", "plan", "save"} => j.start = RoundStart /\ j.end = j.start + Window - 1
          /\ j.pc \in {"plan", "save"} => j.retained <= Retained
          /\ j.pc = "round" => CatchupsEnd(j.start)
          /\ (j.pc = "plan" /\ j.from < j.start) =>
                j.from = cursor["non_daily"] + 1 /\ CatchupsEnd(j.start)
          /\ (j.pc = "save" /\ j.id.kind = "catchup") =>
               /\ j.id.start = cursor["non_daily"] + 1 /\ j.id.end <= j.start - 1
               /\ \A i \in Ids : (Known(i) /\ i.kind = "catchup") =>
                    i.end < j.start - 1 \/ i.end = j.id.end
     /\ w = "days" =>
          /\ j.pc \in {"plan", "save"} => Aligned(j.retained) /\ j.retained - Day < Retained
          /\ j.pc = "plan" => Aligned(j.from)

\* The identities a step may add.
NewCatchup(w, n) ==
  /\ AuditEnqueue(w) /\ n = NextRange(job[w])
  /\ n.kind = "catchup" /\ n.start = cursor["non_daily"] + 1
  /\ n.start <= n.end /\ n.end < RoundStart /\ CatchupsEnd(RoundStart)
  /\ n.end < n.start + Chunk \/ n.end < Retained
  /\ n.end = RoundStart - 1 \/ n.end < Retained \/ n.end = n.start + Chunk - 1
NewWindow(w, n) ==
  AuditEnqueue(w) /\ n.kind = "window" /\ n.end = n.start + Window - 1
NewDays(w, n) ==
  /\ DaysEnqueue(w) /\ n.kind = "daily" /\ Aligned(n.start) /\ Aligned(n.end + 1)
  /\ n.start <= n.end
  /\ n.end + 1 - Day < Retained \/ n.end = n.start + Day - 1
NewRest(w, n) ==
  /\ RetryExpire(w) /\ n.start = Retained /\ n.start <= n.end
  /\ \E i \in Ids : /\ Known(i) /\ i = job[w].id /\ n.kind = i.kind /\ n.end = i.end
                    /\ i.start < Retained

LEMMA KnownTyped ==
  ASSUME Types, NEW i, Known(i)
  PROVE  i \in Ids
BY DEF Types, RowTypes, JobTypes, JobShape, Known

LEMMA RegisteredAs ==
  ASSUME Types, Marks, Shapes, NEW w \in Worker, Planned(w), NEW n, NEW force,
         Registering(w, n, force)
  PROVE  /\ n \in Ids
         /\ NewCatchup(w, n) \/ NewWindow(w, n) \/ NewDays(w, n) \/ NewRest(w, n)
<1> DEFINE j == job[w]
<1>0. /\ j \in JobShape /\ Retained \in Int /\ cursor["non_daily"] \in Nat /\ RoundStart \in Int
      /\ j.from \in Int /\ j.start \in Int /\ j.end \in Int /\ j.retained \in Int /\ j.id \in Ids
  BY ConfigTypes DEF Types, JobTypes, JobShape, HistTypes, Groups, Retained, Marks, RoundStart
<1>1. CASE AuditEnqueue(w) /\ n = NextRange(j)
  <2>1. w = "audit" /\ j.pc = "plan"
    BY <1>1 DEF AuditEnqueue
  <2>2. j.start = RoundStart /\ j.end = j.start + Window - 1 /\ j.retained <= Retained
    BY <2>1 DEF Planned
  <2>3. n \in Ids
    BY <1>0, <1>1, RangeTypes
  <2>4. CASE j.from < j.start
    <3>1. j.from = cursor["non_daily"] + 1 /\ CatchupsEnd(RoundStart)
      BY <2>1, <2>2, <2>4 DEF Planned
    <3>2. /\ n.kind = "catchup" /\ n.start = j.from
          /\ n.end = Smaller(IF j.from < j.retained THEN j.retained - 1
                             ELSE j.from + Chunk - 1, j.start - 1)
      BY <1>1, <2>4 DEF NextRange
    <3>3. /\ n.start <= n.end /\ n.end < RoundStart
          /\ n.end < n.start + Chunk \/ n.end < Retained
          /\ n.end = RoundStart - 1 \/ n.end < Retained \/ n.end = n.start + Chunk - 1
      <4> HIDE DEF j
      <4> QED BY <1>0, <2>2, <2>4, <3>2, ConfigTypes DEF Smaller
    <3> QED BY <1>1, <2>3, <3>1, <3>2, <3>3 DEF NewCatchup
  <2>5. CASE ~(j.from < j.start)
    BY <1>1, <2>2, <2>3, <2>5 DEF NextRange, NewWindow
  <2> QED BY <2>4, <2>5
<1>2. CASE DaysEnqueue(w) /\ n = NextDays(j)
  <2>1. w = "days" /\ j.pc = "plan"
    BY <1>2 DEF DaysEnqueue
  <2>2. Aligned(j.from) /\ Aligned(j.retained) /\ j.retained - Day < Retained
    BY <2>1 DEF Planned
  <2>3. n \in Ids
    BY <1>0, <1>2, RangeTypes
  <2>4. /\ n.kind = "daily" /\ n.start = j.from
        /\ n.end = IF j.from < j.retained THEN j.retained - 1 ELSE j.from + Day - 1
    BY <1>2 DEF NextDays
  <2>5. Aligned(j.from + Day)
    BY <1>0, <2>2, AlignedFacts
  <2>6. /\ n.end + 1 = (IF j.from < j.retained THEN j.retained ELSE j.from + Day)
        /\ n.start <= n.end
        /\ n.end + 1 - Day < Retained \/ n.end = n.start + Day - 1
    <3> HIDE DEF j
    <3> QED BY <1>0, <2>2, <2>4, ConfigTypes
  <2> QED BY <1>2, <2>2, <2>3, <2>4, <2>5, <2>6 DEF NewDays
<1>3. CASE RetryExpire(w) /\ j.id.end >= Retained /\ n = Remainder(j.id)
  <2>1. j.pc = "picked" /\ j.id.start < Retained
    BY <1>3 DEF RetryExpire
  <2>2. Known(j.id)
    BY <2>1 DEF Known, Engaged
  <2>3. n \in Ids /\ n.kind = j.id.kind /\ n.end = j.id.end /\ n.start = Retained
    BY <1>0, <1>3 DEF Remainder, Ids
  <2> QED BY <1>0, <1>3, <2>1, <2>2, <2>3 DEF NewRest, Ids
<1> QED BY <1>1, <1>2, <1>3 DEF Registering

LEMMA ShapesKept ==
  ASSUME Types, Marks, Shapes, \A w \in Worker : Planned(w), [Next]_vars
  PROVE  Shapes'
<1> SUFFICES ASSUME NEW k \in Ids, Known(k)' PROVE Shape(k)'
  BY DEF Shapes
<1>0. k.start \in Int /\ k.end \in Int /\ k.kind \in Kinds
  BY DEF Ids
<1>1. /\ Retained \in Int /\ Retained' \in Int /\ Retained <= Retained'
      /\ RoundStart \in Int /\ RoundStart' \in Int /\ RoundStart <= RoundStart'
      /\ Day \in Int /\ Window \in Int /\ Chunk \in Int /\ Window > 0 /\ Chunk > 0 /\ Day > 0
  BY MarksKept, ConfigTypes
<1>2. SUFFICES ASSUME Shape(k) PROVE Shape(k)'
  <2> SUFFICES ASSUME NEW w \in Worker, NEW force \in BOOLEAN, Registering(w, k, force)
               PROVE  Shape(k)
    BY <1>2, KnownAfter DEF Shapes
  <2>1. CASE NewCatchup(w, k)
    BY <1>0, <1>1, <2>1 DEF NewCatchup, Shape
  <2>2. CASE NewWindow(w, k)
    BY <1>0, <1>1, <2>2 DEF NewWindow, Shape
  <2>3. CASE NewDays(w, k)
    BY <1>0, <1>1, <2>3 DEF NewDays, Shape
  <2>4. CASE NewRest(w, k)
    <3>1. PICK i \in Ids : Known(i) /\ k.kind = i.kind /\ k.end = i.end /\ i.start < Retained
      BY <2>4 DEF NewRest
    <3>2. Shape(i) /\ i.start \in Int /\ k.start = Retained /\ k.start <= k.end
      BY <2>4, <3>1 DEF Shapes, Ids, NewRest
    <3> QED BY <1>0, <1>1, <3>1, <3>2 DEF Shape
  <2> QED BY <2>1, <2>2, <2>3, <2>4, RegisteredAs
<1> QED BY <1>0, <1>1, <1>2 DEF Shape

\* The cursor of the rolling audit never moves back.
LEMMA CursorGrows ==
  ASSUME Types, [Next]_vars
  PROVE  /\ cursor["non_daily"] \in Nat /\ cursor'["non_daily"] \in Nat
         /\ cursor["non_daily"] <= cursor'["non_daily"]
<1>0. cursor \in [Groups -> Nat] /\ cursor' \in [Groups -> Nat] /\ "non_daily" \in Groups
  BY TypesStep DEF Types, HistTypes, Groups
<1>1. CASE UNCHANGED <<cursor, first>>
  BY <1>0, <1>1
<1>2. ASSUME NEW w \in Worker, AuditSave(w) \/ DaysSave(w)
      PROVE  cursor["non_daily"] <= cursor'["non_daily"]
  <2>1. job[w].id.end \in Int
    BY DEF Types, JobTypes, JobShape, Ids
  <2>2. PICK g \in Groups : cursor' = [cursor EXCEPT ![g] = IF job[w].id.end > @ THEN job[w].id.end ELSE @]
    BY <1>2 DEF AuditSave, DaysSave, SaveThrough, SaveCursor, Groups
  <2> QED BY <1>0, <2>1, <2>2
<1> QED BY <1>0, <1>1, <1>2, CursorMoves

\* A young identity is new from the rolling audit, or was known and young.
LEMMA YoungKnown ==
  ASSUME Types, Marks, Shapes, \A w \in Worker : Planned(w), Ended, [Next]_vars,
         NEW f \in Ids, Known(f)', Young(f)'
  PROVE  (Known(f) /\ Young(f)) \/ \E w \in Worker : NewCatchup(w, f) \/ NewWindow(w, f)
<1>1. CASE Young(f)
  BY <1>1 DEF Young, Fresh, FirstRun, Known, Engaged
<1>2. ASSUME NEW w \in Worker, AuditEnqueue(w), f = NextRange(job[w])
      PROVE  NewCatchup(w, f) \/ NewWindow(w, f)
  <2>1. Registering(w, f, FALSE)
    BY <1>2 DEF Registering
  <2>2. ~NewDays(w, f) /\ ~NewRest(w, f)
    BY <1>2 DEF NewDays, NewRest, AuditEnqueue, DaysEnqueue, RetryExpire
  <2> QED BY <2>1, <2>2, RegisteredAs
<1> QED BY <1>1, <1>2, YoungAfter

LEMMA YoungsKept ==
  ASSUME Types, Marks, Shapes, \A w \in Worker : Planned(w), Ended, Youngs, [Next]_vars
  PROVE  Youngs'
<1> SUFFICES ASSUME NEW f \in Ids, Known(f)', Young(f)'
             PROVE  /\ f.kind # "daily"
                    /\ f.kind = "window" => f.end = f.start + Window - 1
                    /\ f.kind = "catchup" => f.start <= cursor'["non_daily"] + 1
  BY DEF Youngs
<1>0. f.start \in Int /\ f.end \in Int
  BY DEF Ids
<1>1. /\ f.kind # "daily"
      /\ f.kind = "window" => f.end = f.start + Window - 1
      /\ f.kind = "catchup" => f.start <= cursor["non_daily"] + 1
  BY <1>0, YoungKnown, CursorGrows DEF Youngs, NewCatchup, NewWindow
<1> QED BY <1>0, <1>1, CursorGrows

\* A downtime identity is new or ends where a known one does.
LEMMA CatchupAfter ==
  ASSUME Types, Marks, Shapes, \A w \in Worker : Planned(w), [Next]_vars,
         NEW k \in Ids, Known(k)', k.kind = "catchup"
  PROVE  /\ k.end < RoundStart
         /\ \/ \E w \in Worker : NewCatchup(w, k)
            \/ \E i \in Ids : Known(i) /\ i.kind = "catchup" /\ i.end = k.end
<1>1. CASE Known(k)
  BY <1>1 DEF Shapes, Shape
<1>2. ASSUME NEW w \in Worker, NEW force, Registering(w, k, force)
      PROVE  /\ k.end < RoundStart
             /\ \/ NewCatchup(w, k)
                \/ \E i \in Ids : Known(i) /\ i.kind = "catchup" /\ i.end = k.end
  <2>1. CASE NewCatchup(w, k)
    BY <2>1 DEF NewCatchup
  <2>2. CASE NewRest(w, k)
    BY <2>2 DEF NewRest, Shapes, Shape
  <2>3. ~NewWindow(w, k) /\ ~NewDays(w, k)
    BY DEF NewWindow, NewDays
  <2> QED BY <1>2, <2>1, <2>2, <2>3, RegisteredAs
<1> QED BY <1>1, <1>2, KnownAfter

LEMMA ApartKept ==
  ASSUME Types, Marks, Shapes, \A w \in Worker : Planned(w), Ended, Youngs, Apart, [Next]_vars
  PROVE  Apart'
<1> SUFFICES ASSUME NEW f \in Ids, NEW i \in Ids,
                    Known(f)', Young(f)', f.kind = "catchup", f.end >= Retained',
                    Known(i)', i.kind = "catchup", i.end = f.end
             PROVE  i.start >= f.start
  BY DEF Apart
<1>0. /\ f.start \in Int /\ f.end \in Int /\ i.start \in Int /\ Chunk \in Int
      /\ Retained \in Int /\ RoundStart \in Int /\ f.end >= Retained
  <2>1. f.start \in Int /\ f.end \in Int /\ i.start \in Int /\ Chunk \in Int
    BY ConfigTypes DEF Ids
  <2>2. Retained \in Int /\ Retained' \in Int /\ Retained <= Retained' /\ RoundStart \in Int
    BY MarksKept
  <2> QED BY <2>1, <2>2
<1>1. ASSUME NEW x \in Ids, Known(x), x.kind = "catchup", x.end = f.end
      PROVE  x.start >= f.start
  <2>0. x.start \in Int /\ x.end \in Int
    BY DEF Ids
  <2>1. CASE Known(f) /\ Young(f)
    BY <1>0, <1>1, <2>1 DEF Apart
  <2>2. ASSUME NEW w \in Worker, NewCatchup(w, f)
        PROVE  x.start >= f.start
    <3>1. x.end < RoundStart - 1
      BY <1>1, <2>2 DEF NewCatchup, CatchupsEnd
    <3>2. x.end < x.start + Chunk
      BY <1>0, <1>1, <2>0 DEF Shapes, Shape
    <3>3. f.end = RoundStart - 1 \/ f.end < Retained \/ f.end = f.start + Chunk - 1
      BY <2>2 DEF NewCatchup
    <3> QED BY <1>0, <1>1, <2>0, <3>1, <3>2, <3>3
  <2> QED BY <2>1, <2>2, YoungKnown DEF NewWindow
<1>2. f.start <= cursor["non_daily"] + 1
  <2>1. CASE Known(f) /\ Young(f)
    BY <2>1 DEF Youngs
  <2>2. ASSUME NEW w \in Worker, NewCatchup(w, f)
        PROVE  f.start <= cursor["non_daily"] + 1
    BY <1>0, <2>2 DEF NewCatchup
  <2> QED BY <2>1, <2>2, YoungKnown DEF NewWindow
<1>3. CASE Known(i)
  BY <1>1, <1>3
<1>4. ASSUME NEW v \in Worker, NEW force, Registering(v, i, force)
      PROVE  i.start >= f.start
  <2>1. CASE NewCatchup(v, i)
    BY <1>0, <1>2, <2>1, CursorGrows DEF NewCatchup
  <2>2. CASE NewRest(v, i)
    <3>1. PICK x \in Ids : Known(x) /\ i.kind = x.kind /\ i.end = x.end /\ x.start < Retained
      BY <2>2 DEF NewRest
    <3>2. x.start >= f.start /\ x.start \in Int /\ i.start = Retained
      BY <1>1, <2>2, <3>1 DEF NewRest, Ids
    <3> QED BY <1>0, <3>1, <3>2
  <2>3. ~NewWindow(v, i) /\ ~NewDays(v, i)
    BY DEF NewWindow, NewDays
  <2> QED BY <1>4, <2>1, <2>2, <2>3, RegisteredAs
<1> QED BY <1>3, <1>4, KnownAfter

LEMMA NestedKept ==
  ASSUME Types, Marks, Shapes, \A w \in Worker : Planned(w), Nested, [Next]_vars
  PROVE  Nested'
<1> SUFFICES ASSUME NEW i \in Ids, NEW r \in Ids, Known(i)', Known(r)', i.kind = "daily",
                    r.kind = "daily", i.end = r.end, i.start < r.start
             PROVE  r.start <= Retained'
  BY DEF Nested
<1>0. i.start \in Int /\ i.end \in Int /\ r.start \in Int /\ r.end \in Int
      /\ Day \in Nat \ {0} /\ r.end + 1 \in Int
  BY ConfigTypes DEF Ids
<1>1. Retained \in Int /\ Retained' \in Int /\ Retained <= Retained'
  BY MarksKept
<1>2. CASE r.start <= Retained
  BY <1>0, <1>1, <1>2
<1>3. SUFFICES ASSUME ~(r.start <= Retained) PROVE r.start <= Retained'
  BY <1>2
<1>4. ASSUME NEW n \in Ids, Aligned(n.start), Aligned(n.end + 1), n.start <= n.end
      PROVE  n.start + Day <= n.end + 1
  <2>1. n.start \in Int /\ n.end \in Int /\ n.end + 1 \in Int /\ n.start < n.end + 1
    BY <1>4 DEF Ids
  <2> QED BY <1>4, <2>1, AlignedFacts
<1>5. ASSUME NEW v \in Worker, NEW force, Registering(v, r, force)
      PROVE  r.start <= Retained'
  <2>1. NewDays(v, r)
    <3>1. ~NewCatchup(v, r) /\ ~NewWindow(v, r)
      BY DEF NewCatchup, NewWindow
    <3>2. ~NewRest(v, r)
      BY <1>0, <1>1, <1>3 DEF NewRest
    <3> QED BY <1>5, <3>1, <3>2, RegisteredAs
  <2>2. CASE r.end + 1 - Day < Retained
    <3>1. r.start + Day <= r.end + 1
      BY <1>4, <2>1 DEF NewDays
    <3> QED BY <1>0, <1>1, <2>2, <3>1
  <2>3. CASE r.end = r.start + Day - 1
    <3>1. i.end < i.start + Day \/ i.end - Day + 1 < Retained'
      BY ShapesKept DEF Shapes, Shape
    <3> QED BY <1>0, <1>1, <2>3, <3>1
  <2> QED BY <2>1, <2>2, <2>3 DEF NewDays
<1>6. CASE Known(r)
  <2>1. r.start <= r.end /\ Aligned(r.start) /\ Aligned(r.end + 1)
    BY <1>3, <1>6 DEF Shapes, Shape
  <2>2. r.start + Day <= r.end + 1
    BY <1>4, <2>1
  <2>3. CASE Known(i)
    BY <1>3, <1>6, <2>3 DEF Nested
  <2>4. ASSUME NEW v \in Worker, NEW force, Registering(v, i, force)
        PROVE  FALSE
    <3>1. CASE NewRest(v, i)
      <4>1. PICK x \in Ids : Known(x) /\ i.kind = x.kind /\ i.end = x.end /\ x.start < Retained
        BY <3>1 DEF NewRest
      <4>2. x.start \in Int /\ x.start < r.start
        BY <1>0, <1>1, <1>3, <4>1 DEF Ids
      <4> QED BY <1>3, <1>6, <4>1, <4>2 DEF Nested
    <3>2. CASE NewDays(v, i)
      <4>1. Aligned(i.start) /\ (i.end + 1 - Day < Retained \/ i.end = i.start + Day - 1)
        BY <3>2 DEF NewDays
      <4>2. i.start + Day <= r.start
        BY <1>0, <2>1, <4>1, AlignedFacts
      <4> QED BY <1>0, <1>1, <1>3, <2>1, <2>2, <4>1, <4>2
    <3>3. ~NewCatchup(v, i) /\ ~NewWindow(v, i)
      BY DEF NewCatchup, NewWindow
    <3> QED BY <2>4, <3>1, <3>2, <3>3, RegisteredAs
  <2> QED BY <2>3, <2>4, KnownAfter
<1> QED BY <1>5, <1>6, KnownAfter

\* What each worker does, and with which rows.
Executing == {"want", "locked", "running"}
Whole(i) == i.kind = "window" /\ i.end = i.start + Window - 1
Role(w) ==
  LET j == job[w]
  IN /\ w = "audit" => /\ j.pc \in {"idle", "round", "plan", "save"} \cup Executing
                       /\ j.pc \in Executing => Whole(j.id)
                       /\ j.pc = "save" => j.id.kind = "catchup" \/ Whole(j.id)
     /\ w = "days" => /\ j.pc \in {"idle", "plan", "save"}
                      /\ j.pc = "save" => j.id.kind = "daily"
     /\ w \in {"retry", "daily"} =>
          /\ j.pc \in {"idle", "picked", "defer", "deferring"} \cup Executing
          /\ j.pc # "idle" => (w = "daily" <=> j.id.kind = "daily")

\* minuteLock is held around an execution.
Locked(w) == job[w].pc \in {"locked", "running"} => minuteLock = w

\* Why a row is to be ended unexecuted.
Settled(w) ==
  LET j == job[w]
  IN j.pc \in {"defer", "deferring"} =>
       /\ j.outcome \in {"waiting", "excluded", "expired"}
       /\ j.outcome = "excluded" => j.id.end < ListedAt \/ Disowned(j)
       /\ j.outcome = "expired" => j.id.start < Retained

LEMMA RoleOwn ==
  ASSUME Types, Marks, Shapes, NEW w \in Worker, Planned(w), Role(w), Moves(w)
  PROVE  Role(w)'
<1>0. w \in {"audit", "retry", "days", "daily"}
  BY WorkerAssumption
<1>1. CASE AuditBegin(w) \/ AuditLoad(w)
  <2>1. w = "audit" /\ job'[w].pc \in {"round", "plan"}
    BY <1>1, JobAfter
  <2> QED BY <2>1 DEF Role, Executing
<1>2. CASE AuditEnqueue(w)
  <2>1. w = "audit" /\ job'[w].pc = "save" /\ job'[w].id = NextRange(job[w])
    BY <1>2, JobAfter
  <2>2. Registering(w, NextRange(job[w]), FALSE)
    BY <1>2 DEF Registering
  <2>3. ~NewDays(w, NextRange(job[w])) /\ ~NewRest(w, NextRange(job[w]))
    BY <1>2 DEF NewDays, NewRest, AuditEnqueue, DaysEnqueue, RetryExpire
  <2>4. NewCatchup(w, NextRange(job[w])) \/ NewWindow(w, NextRange(job[w]))
    BY <2>2, <2>3, RegisteredAs
  <2>5. job'[w].id.kind = "catchup" \/ Whole(job'[w].id)
    BY <2>1, <2>4 DEF NewCatchup, NewWindow, Whole
  <2> QED BY <2>1, <2>5 DEF Role, Executing, Whole
<1>3. CASE AuditSave(w)
  <2>1. /\ w = "audit" /\ job[w].pc = "save"
        /\ IF job[w].id.kind = "window" THEN job'[w].pc = "want" /\ job'[w].id = job[w].id
                                        ELSE job'[w].pc = "plan"
    BY <1>3, JobAfter
  <2>2. job[w].id.kind = "window" => Whole(job[w].id)
    BY <2>1 DEF Role
  <2> QED BY <2>1, <2>2 DEF Role, Executing, Whole
<1>4. CASE DaysBegin(w) \/ DaysSave(w)
  <2>1. w = "days" /\ job'[w].pc \in {"idle", "plan"}
    BY <1>4, JobAfter
  <2> QED BY <2>1 DEF Role
<1>5. CASE DaysEnqueue(w)
  <2>1. w = "days" /\ job'[w].pc = "save" /\ job'[w].id = NextDays(job[w])
    BY <1>5, JobAfter
  <2> QED BY <2>1 DEF Role, NextDays
<1>6. CASE ExecLock(w) \/ ExecLease(w)
  <2>1. job[w].pc \in {"want", "locked"} /\ job'[w].pc \in {"locked", "running"} /\ job'[w].id = job[w].id
    BY <1>6, JobAfter
  <2> QED BY <1>0, <2>1 DEF Role, Executing, Whole
<1>7. CASE RetryExpire(w) \/ RetryDecide(w) \/ DeferLease(w)
  <2>1. /\ job[w].pc \in {"picked", "defer"} /\ job'[w].pc \in {"idle", "want", "defer", "deferring"}
        /\ job'[w].pc # "idle" => job'[w].id = job[w].id
    BY <1>7, JobAfter
  <2> QED BY <1>0, <2>1 DEF Role, Executing
<1>8. ASSUME NEW i \in DOMAIN tasks, RetryList(w, i)
      PROVE  Role(w)'
  <2>1. /\ w \in {"retry", "daily"} /\ job'[w].pc = "picked" /\ job'[w].id = i
        /\ w = "daily" <=> i.kind = "daily"
    BY <1>8, JobAfter
  <2> QED BY <2>1 DEF Role
<1>9. CASE Stops(w)
  <2>1. job'[w].pc = "idle"
    BY <1>9, JobAfter
  <2> QED BY <2>1 DEF Role, Executing
<1> QED BY <1>1, <1>2, <1>3, <1>4, <1>5, <1>6, <1>7, <1>8, <1>9 DEF Moves, WorkerStep, Stops

LEMMA LockedKept ==
  ASSUME Types, \A w \in Worker : Locked(w), [Next]_vars, NEW v \in Worker
  PROVE  Locked(v)'
<1> SUFFICES ASSUME job'[v].pc \in {"locked", "running"} PROVE minuteLock' = v
  BY DEF Locked
<1>1. CASE Crash
  <2>1. job'[v].pc = "idle"
    BY <1>1 DEF Crash, Idle
  <2> QED BY <2>1
<1>2. CASE Calm
  BY <1>2, CalmJobs DEF Locked
<1>3. CASE Moves(v)
  <2>1. ~Stops(v) /\ ~\E i \in DOMAIN tasks : RetryList(v, i)
    BY JobAfter
  <2>2. ExecLock(v) \/ ExecLease(v)
    BY <1>3, <2>1, JobAfter DEF Moves, WorkerStep, Stops
  <2>3. CASE ExecLock(v)
    BY <2>3 DEF ExecLock
  <2>4. CASE ExecLease(v)
    BY <2>4 DEF ExecLease, Locked
  <2> QED BY <2>2, <2>3, <2>4
<1>4. ASSUME NEW w \in Worker, w # v, Moves(w)
      PROVE  minuteLock' = v
  <2>1. job'[v] = job[v]
    BY <1>4, OwnJob
  <2>2. minuteLock = v /\ v # NoToken
    BY <2>1, TokenAssumption DEF Locked
  <2>3. job[w].pc \notin {"locked", "running"}
    BY <1>4, <2>2 DEF Locked
  <2>4. UNCHANGED minuteLock
    BY <1>4, <2>2, <2>3 DEF Moves, WorkerStep, AuditBegin, AuditLoad, AuditEnqueue, AuditSave,
         DaysBegin, DaysEnqueue, DaysSave, ExecLock, ExecLease, ExecSkip, ExecFinish, RetryList,
         RetryExpire, RetryDecide, DeferLease, DeferFinish, CallFails
  <2> QED BY <2>2, <2>4
<1> QED BY <1>1, <1>2, <1>3, <1>4, Movers

LEMMA SettledKept ==
  ASSUME Types, Marks, [Next]_vars, NEW v \in Worker, Settled(v)
  PROVE  Settled(v)'
<1> SUFFICES ASSUME job'[v].pc \in {"defer", "deferring"} PROVE Settled(v)'
  BY DEF Settled
<1>0. Retained \in Int /\ Retained' \in Int /\ Retained <= Retained'
  BY MarksKept
<1>2. job[v].id.start \in Int
  BY DEF Types, JobTypes, JobShape, Ids
<1>3. CASE job'[v] = job[v]
  BY <1>0, <1>2, <1>3 DEF Settled, Disowned
<1>4. CASE Crash
  <2>1. job'[v].pc = "idle"
    BY <1>4 DEF Crash, Idle
  <2> QED BY <2>1
<1>5. CASE Moves(v)
  <2>1. ~Stops(v) /\ ~\E i \in DOMAIN tasks : RetryList(v, i)
    BY JobAfter
  <2>2. RetryExpire(v) \/ RetryDecide(v) \/ DeferLease(v)
    BY <1>5, <2>1, JobAfter DEF Moves, WorkerStep, Stops
  <2>3. CASE RetryExpire(v)
    <3>1. job'[v].id = job[v].id /\ job'[v].outcome = "expired" /\ job[v].id.start < Retained
      BY <2>3, JobAfter
    <3> QED BY <1>0, <1>2, <3>1 DEF Settled
  <2>4. CASE RetryDecide(v)
    <3>1. /\ job[v].pc = "picked" /\ job'[v].id = job[v].id
          /\ \/ job'[v].outcome = "waiting"
             \/ /\ job'[v].outcome = "excluded"
                /\ job[v].id.end < ListedAt \/ Disowned(job'[v])
      BY <2>4, JobAfter
    <3> QED BY <3>1 DEF Settled, Disowned
  <2>5. CASE DeferLease(v)
    <3>1. /\ job[v].pc = "defer" /\ job'[v].id = job[v].id
          /\ job'[v].outcome = job[v].outcome /\ job'[v].symbol = job[v].symbol
      BY <2>5, JobAfter
    <3> QED BY <1>0, <1>2, <3>1 DEF Settled, Disowned
  <2> QED BY <2>2, <2>3, <2>4, <2>5
<1>6. Moves(v) \/ Crash \/ job'[v] = job[v]
  BY Movers, OwnJob, CalmJobs
<1> QED BY <1>3, <1>4, <1>5, <1>6

\* A row that is ended because the symbol is not subscribed is waived in the same call.
LEMMA DisownedWaived ==
  ASSUME Types, NEW w \in Worker, DeferFinish(w), NEW k, Recorded(w, k, job[w].outcome),
         Disowned(job[w])
  PROVE  Range(k) \subseteq waived'[Group(k)]
<1>1. k = job[w].id /\ tasks' # tasks
  BY DEF Recorded, Disowned
<1>2. waived' = [waived EXCEPT ![Group(k)] = @ \cup Range(k)]
  BY <1>1 DEF DeferFinish, Disowned
<1>3. Group(k) \in Groups
  BY DEF Group, Groups
<1> QED BY <1>2, <1>3 DEF Types, HistTypes

LEMMA EndedKept ==
  ASSUME Types, Marks, \A w \in Worker : Settled(w), Ended, [Next]_vars
  PROVE  Ended'
<1> SUFFICES ASSUME NEW k \in DOMAIN tasks'
             PROVE  /\ tasks'[k].status = "completed" => k.kind = "daily"
                    /\ tasks'[k].status = "expired" => k.start < Retained'
                    /\ tasks'[k].status = "excluded" =>
                         k.end < ListedAt \/ Range(k) \subseteq waived'[Group(k)]
                    /\ tasks'[k].status = "running" => tasks'[k].attempted
  BY DEF Ended
<1>0. Retained \in Int /\ Retained' \in Int /\ Retained <= Retained' /\ k.start \in Int
      /\ waived[Group(k)] \subseteq waived'[Group(k)]
  <2>1. k.start \in Int /\ Group(k) \in Groups
    BY TypesStep DEF Types, RowTypes, Ids, Group, Groups
  <2> QED BY <2>1, MarksKept, Grows
<1>1. RowFate(k)
  BY Fates
<1>2. CASE Same(k)
  BY <1>0, <1>2 DEF Same, Ended
<1>3. ASSUME NEW w \in Worker, Created(w, k)
      PROVE  tasks'[k].status = "waiting"
  BY <1>3 DEF Created, NewRow
<1>4. ASSUME NEW w \in Worker, Leased(w, k)
      PROVE  tasks'[k].status = "running" /\ tasks'[k].attempted
  BY <1>4 DEF Leased
<1>5. ASSUME NEW w \in Worker, Over(w, k)
      PROVE  \/ tasks'[k].status = "waiting"
             \/ tasks'[k].status = "completed" /\ k.kind = "daily"
             \/ tasks'[k].status = "expired" /\ k.start < Retained
             \/ /\ tasks'[k].status = "excluded"
                /\ k.end < ListedAt \/ Range(k) \subseteq waived'[Group(k)]
  <2>1. CASE ExecFinish(w, "waiting") /\ Recorded(w, k, "waiting")
    BY <2>1 DEF Recorded
  <2>2. CASE ExecFinish(w, "completed") /\ Recorded(w, k, "completed")
    BY <2>2 DEF Recorded
  <2>3. CASE DeferFinish(w) /\ Recorded(w, k, job[w].outcome)
    <3>1. job[w].pc = "deferring"
      BY <2>3 DEF DeferFinish
    <3> QED BY <2>3, <3>1, DisownedWaived DEF Recorded, Settled
  <2> QED BY <1>5, <2>1, <2>2, <2>3 DEF Over
<1>6. ~Pruned(k)
  BY DEF Pruned
<1>7. CASE \E w \in Worker : Over(w, k)
  BY <1>0, <1>5, <1>7
<1> QED BY <1>1, <1>2, <1>3, <1>4, <1>6, <1>7 DEF RowFate

\* Only the rolling audit moves its round and its cursor.
LEMMA OthersKeepRound ==
  ASSUME Types, NEW w \in Worker, Moves(w)
  PROVE  /\ ~AuditBegin(w) => roundAt' = roundAt
         /\ ~AuditSave(w) => cursor'["non_daily"] = cursor["non_daily"]
<1>0. cursor \in [Groups -> Nat]
  BY DEF Types, HistTypes
<1>1. ~AuditBegin(w) => roundAt' = roundAt
  BY DEF Moves, WorkerStep, AuditLoad, AuditEnqueue, AuditSave,
         DaysBegin, DaysEnqueue, DaysSave, ExecLock, ExecLease, ExecSkip, ExecFinish, RetryList,
         RetryExpire, RetryDecide, DeferLease, DeferFinish, CallFails
<1>2. DaysSave(w) => cursor'["non_daily"] = cursor["non_daily"]
  BY <1>0 DEF DaysSave, SaveThrough, SaveCursor, Groups
<1>3. (~AuditSave(w) /\ ~DaysSave(w)) => cursor' = cursor
  BY DEF Moves, WorkerStep, AuditBegin, AuditLoad, AuditEnqueue, ledgerVars,
         DaysBegin, DaysEnqueue, ExecLock, ExecLease, ExecSkip, ExecFinish, RetryList,
         RetryExpire, RetryDecide, DeferLease, DeferFinish, CallFails
<1> QED BY <1>1, <1>2, <1>3

\* A worker's plan outlives the steps of others.
LEMMA PlannedOther ==
  ASSUME Types, Marks, Shapes, \A w \in Worker : Planned(w), [Next]_vars,
         NEW v \in Worker, job'[v] = job[v],
         Calm \/ \E w \in Worker \ {v} : Moves(w)
  PROVE  Planned(v)'
<1> DEFINE j == job[v]
<1>0. Retained \in Int /\ Retained' \in Int /\ Retained <= Retained'
      /\ j.retained \in Int /\ j.retained - Day \in Int
  <2>1. j.retained \in Int /\ j.retained - Day \in Int
    BY ConfigTypes DEF Types, JobTypes, JobShape
  <2> QED BY <2>1, MarksKept
<1>1. CASE v = "audit"
  <2>1. roundAt' = roundAt /\ cursor'["non_daily"] = cursor["non_daily"]
    <3>1. CASE Calm
      BY <3>1, CalmJobs
    <3>2. ASSUME NEW w \in Worker \ {v}, Moves(w)
          PROVE  roundAt' = roundAt /\ cursor'["non_daily"] = cursor["non_daily"]
      BY <1>1, <3>2, OthersKeepRound DEF AuditBegin, AuditSave
    <3> QED BY <3>1, <3>2
  <2>2. RoundStart' = RoundStart
    BY <2>1 DEF RoundStart
  <2>3. ASSUME NEW k \in Ids, Known(k)', k.kind = "catchup"
        PROVE  \E i \in Ids : Known(i) /\ i.kind = "catchup" /\ i.end = k.end
    <3>1. ASSUME NEW w \in Worker, NewCatchup(w, k)
          PROVE  FALSE
      <4>1. w = "audit" /\ job[w].pc = "plan" /\ job'[w].pc = "save"
        BY <3>1, JobAfter DEF NewCatchup
      <4> QED BY <1>1, <4>1
    <3> QED BY <2>3, <3>1, CatchupAfter
  <2>4. \A s : CatchupsEnd(s) => \A k \in Ids : (Known(k)' /\ k.kind = "catchup") => k.end < s - 1
    BY <2>3 DEF CatchupsEnd
  <2>5. \A s, e : (\A i \in Ids : (Known(i) /\ i.kind = "catchup") => i.end < s - 1 \/ i.end = e)
           => \A k \in Ids : (Known(k)' /\ k.kind = "catchup") => k.end < s - 1 \/ k.end = e
    BY <2>3
  <2>6. Planned(v)
    OBVIOUS
  <2>7. /\ j.pc \in {"round", "plan", "save"} => j.start = RoundStart' /\ j.end = j.start + Window - 1
        /\ j.pc \in {"plan", "save"} => j.retained <= Retained'
    BY <1>0, <1>1, <2>2, <2>6 DEF Planned
  <2>8. /\ j.pc = "round" => CatchupsEnd(j.start)
        /\ (j.pc = "plan" /\ j.from < j.start) =>
              j.from = cursor["non_daily"] + 1 /\ CatchupsEnd(j.start)
    BY <1>1, <2>6 DEF Planned
  <2>9. (j.pc = "save" /\ j.id.kind = "catchup") =>
           /\ j.id.start = cursor["non_daily"] + 1 /\ j.id.end <= j.start - 1
           /\ \A i \in Ids : (Known(i) /\ i.kind = "catchup") =>
                i.end < j.start - 1 \/ i.end = j.id.end
    BY <1>1, <2>6 DEF Planned
  <2>10. /\ j.pc = "round" => \A k \in Ids : (Known(k)' /\ k.kind = "catchup") => k.end < j.start - 1
         /\ (j.pc = "plan" /\ j.from < j.start) =>
              /\ j.from = cursor'["non_daily"] + 1
              /\ \A k \in Ids : (Known(k)' /\ k.kind = "catchup") => k.end < j.start - 1
    BY <2>1, <2>4, <2>8
  <2>11. (j.pc = "save" /\ j.id.kind = "catchup") =>
           /\ j.id.start = cursor'["non_daily"] + 1 /\ j.id.end <= j.start - 1
           /\ \A k \in Ids : (Known(k)' /\ k.kind = "catchup") =>
                k.end < j.start - 1 \/ k.end = j.id.end
    BY <2>1, <2>5, <2>9
  <2>12. job'[v] = j
    OBVIOUS
  <2> HIDE DEF j
  <2> QED BY <1>1, <2>7, <2>10, <2>11, <2>12 DEF Planned, CatchupsEnd
<1>2. CASE v = "days"
  BY <1>0, <1>2 DEF Planned, CatchupsEnd
<1>3. CASE v \notin {"audit", "days"}
  BY <1>3 DEF Planned
<1> QED BY <1>1, <1>2, <1>3

LEMMA PlannedAudit ==
  ASSUME Types, Marks, Shapes, \A w \in Worker : Planned(w), [Next]_vars,
         NEW v \in Worker, v = "audit", Role(v),
         AuditBegin(v) \/ AuditLoad(v) \/ AuditEnqueue(v) \/ AuditSave(v)
  PROVE  Planned(v)'
<1> DEFINE j == job[v]
<1>a. Retained' = Retained
  <2>1. minute' = minute
    BY DEF AuditBegin, AuditLoad, AuditEnqueue, AuditSave
  <2> QED BY <2>1 DEF Retained
<1>b. Retained \in Int /\ RoundStart \in Int
  BY MarksKept
<1>c. /\ j \in JobShape /\ j.start \in Int /\ j.end \in Int
      /\ j.id \in Ids /\ j.id.start \in Int /\ j.id.end \in Int
      /\ cursor \in [Groups -> Nat] /\ cursor["non_daily"] \in Nat
  BY DEF Types, HistTypes, JobTypes, JobShape, Ids, Groups
<1>0. /\ Retained \in Int /\ Retained' = Retained /\ j \in JobShape /\ j.start \in Int /\ j.end \in Int
      /\ j.id \in Ids /\ j.id.start \in Int /\ j.id.end \in Int
      /\ cursor \in [Groups -> Nat] /\ cursor["non_daily"] \in Nat
      /\ RoundStart \in Int /\ Window \in Nat
  BY <1>a, <1>b, <1>c, ConfigTypes
<1>1. ASSUME NEW k \in Ids, Known(k)', k.kind = "catchup", ~AuditEnqueue(v)
      PROVE  \E i \in Ids : Known(i) /\ i.kind = "catchup" /\ i.end = k.end
  <2>1. ASSUME NEW w \in Worker, NewCatchup(w, k) PROVE FALSE
    BY <1>1, <2>1 DEF NewCatchup, AuditEnqueue
  <2> QED BY <1>1, <2>1, CatchupAfter
<1>2. ~AuditBegin(v) => RoundStart' = RoundStart
  BY DEF AuditLoad, AuditEnqueue, AuditSave, RoundStart
<1>3. CASE AuditBegin(v)
  <2>1. /\ job'[v].pc = "round" /\ job'[v].start = minute - AuditDelay - Window
        /\ job'[v].end = minute - AuditDelay - 1
    BY <1>3, JobAfter
  <2>2. RoundStart' = minute - AuditDelay - Window
    BY <1>3 DEF AuditBegin, RoundStart
  <2>3. minute \in Int /\ AuditDelay \in Nat /\ roundAt \in Int /\ minute >= roundAt + 1
    BY <1>3, ConfigTypes, ConfigAssumption DEF AuditBegin, Types, HistTypes, Marks
  <2>4. ASSUME NEW k \in Ids, Known(k)', k.kind = "catchup"
        PROVE  k.end < (minute - AuditDelay - Window) - 1
    <3>1. k.end < roundAt - AuditDelay - Window /\ k.end \in Int
      BY <2>4, CatchupAfter DEF RoundStart, Ids
    <3> QED BY <1>0, <2>3, <3>1
  <2>5. job'[v].end = job'[v].start + Window - 1
    BY <1>0, <2>1, <2>3
  <2> QED BY <2>1, <2>2, <2>4, <2>5 DEF Planned, CatchupsEnd
<1>4. CASE AuditLoad(v)
  <2>0. j.pc = "round" /\ ~AuditBegin(v) /\ ~AuditEnqueue(v)
    BY <1>4 DEF AuditLoad, AuditBegin, AuditEnqueue
  <2>1. /\ job'[v].pc = "plan" /\ job'[v].start = j.start /\ job'[v].end = j.end
        /\ job'[v].retained = Retained
        /\ job'[v].from = IF cursor["non_daily"] = 0 THEN j.start ELSE cursor["non_daily"] + 1
    BY <1>4, JobAfter
  <2>2. j.start = RoundStart /\ j.end = j.start + Window - 1 /\ CatchupsEnd(j.start)
    BY <2>0 DEF Planned
  <2>3. cursor' = cursor
    BY <1>4 DEF AuditLoad, ledgerVars
  <2>4. job'[v].from < job'[v].start => job'[v].from = cursor'["non_daily"] + 1
    BY <1>0, <2>1, <2>3
  <2>5. \A k \in Ids : (Known(k)' /\ k.kind = "catchup") => k.end < j.start - 1
    BY <1>1, <2>0, <2>2 DEF CatchupsEnd
  <2>6. job'[v].start = RoundStart' /\ job'[v].end = job'[v].start + Window - 1
        /\ job'[v].retained <= Retained'
    BY <1>0, <1>2, <2>0, <2>1, <2>2
  <2> QED BY <2>1, <2>4, <2>5, <2>6 DEF Planned, CatchupsEnd
<1>5. CASE AuditEnqueue(v)
  <2>0. j.pc = "plan" /\ ~AuditBegin(v)
    BY <1>5 DEF AuditBegin, AuditEnqueue
  <2>1. /\ job'[v].pc = "save" /\ job'[v].id = NextRange(j) /\ job'[v].start = j.start
        /\ job'[v].end = j.end /\ job'[v].retained = j.retained
    BY <1>5, JobAfter
  <2>2. j.start = RoundStart /\ j.end = j.start + Window - 1 /\ j.retained <= Retained
    BY <2>0 DEF Planned
  <2>3. cursor' = cursor
    BY <1>5 DEF AuditEnqueue
  <2>4. Registering(v, NextRange(j), FALSE)
    BY <1>5 DEF Registering
  <2>5. ASSUME NextRange(j).kind = "catchup"
        PROVE  /\ NextRange(j).start = cursor["non_daily"] + 1 /\ NextRange(j).end <= j.start - 1
               /\ \A k \in Ids : (Known(k)' /\ k.kind = "catchup") =>
                    k.end < j.start - 1 \/ k.end = NextRange(j).end
    <3>1. NextRange(j) \in Ids /\ NewCatchup(v, NextRange(j))
      <4>1. ~NewWindow(v, NextRange(j)) /\ ~NewDays(v, NextRange(j)) /\ ~NewRest(v, NextRange(j))
        BY <1>5, <2>5 DEF NewWindow, NewDays, NewRest, AuditEnqueue, RetryExpire
      <4> QED BY <2>4, <4>1, RegisteredAs
    <3>2. /\ NextRange(j).start = cursor["non_daily"] + 1 /\ NextRange(j).end < RoundStart
          /\ CatchupsEnd(RoundStart) /\ NextRange(j).end \in Int
      BY <3>1 DEF NewCatchup, Ids
    <3>3. ASSUME NEW k \in Ids, Known(k)', k.kind = "catchup"
          PROVE  k.end < j.start - 1 \/ k.end = NextRange(j).end
      <4>1. ASSUME NEW w \in Worker, NewCatchup(w, k) PROVE k.end = NextRange(j).end
        <5>1. w = v /\ k = NextRange(job[w])
          BY <4>1 DEF NewCatchup, AuditEnqueue
        <5> QED BY <5>1
      <4>2. ASSUME NEW i \in Ids, Known(i), i.kind = "catchup", i.end = k.end
            PROVE  k.end < j.start - 1
        BY <2>2, <3>2, <4>2 DEF CatchupsEnd
      <4> QED BY <3>3, <4>1, <4>2, CatchupAfter
    <3>4. NextRange(j).end <= j.start - 1
      BY <1>0, <2>2, <3>2
    <3> QED BY <3>2, <3>3, <3>4
  <2>6. job'[v].start = RoundStart' /\ job'[v].end = job'[v].start + Window - 1
        /\ job'[v].retained <= Retained'
    BY <1>0, <1>2, <2>0, <2>1, <2>2
  <2> HIDE DEF j
  <2> QED BY <2>1, <2>3, <2>5, <2>6 DEF Planned
<1>6. CASE AuditSave(v)
  <2>0. j.pc = "save" /\ ~AuditBegin(v) /\ ~AuditEnqueue(v)
    BY <1>6 DEF AuditBegin, AuditEnqueue, AuditSave
  <2>1. CASE j.id.kind = "window"
    <3>1. job'[v].pc = "want"
      BY <1>6, <2>1, JobAfter
    <3> QED BY <3>1 DEF Planned
  <2>2. CASE j.id.kind # "window"
    <3>1. j.id.kind = "catchup"
      BY <2>0, <2>2 DEF Role, Whole
    <3>2. /\ job'[v].pc = "plan" /\ job'[v].from = j.id.end + 1
          /\ job'[v].start = j.start /\ job'[v].end = j.end /\ job'[v].retained = j.retained
      BY <1>6, <2>2, JobAfter
    <3>3. /\ j.start = RoundStart /\ j.end = j.start + Window - 1 /\ j.retained <= Retained
          /\ j.id.start = cursor["non_daily"] + 1
          /\ \A i \in Ids : (Known(i) /\ i.kind = "catchup") =>
               i.end < j.start - 1 \/ i.end = j.id.end
      BY <2>0, <3>1 DEF Planned
    <3>4. Known(j.id)
      BY <2>0 DEF Known, Engaged
    <3>5. j.id.start <= j.id.end
      BY <1>0, <3>4 DEF Shapes, Shape
    <3>6. cursor'["non_daily"] = IF j.id.end > cursor["non_daily"] THEN j.id.end ELSE cursor["non_daily"]
      BY <1>0, <1>6 DEF AuditSave, SaveThrough, SaveCursor, Groups
    <3>7. cursor'["non_daily"] = j.id.end
      BY <1>0, <3>3, <3>5, <3>6
    <3>8. j.id.end + 1 < j.start => \A k \in Ids : (Known(k)' /\ k.kind = "catchup") => k.end < j.start - 1
      <4> SUFFICES ASSUME j.id.end + 1 < j.start, NEW k \in Ids, Known(k)', k.kind = "catchup"
                   PROVE  k.end < j.start - 1
        OBVIOUS
      <4>1. PICK i \in Ids : Known(i) /\ i.kind = "catchup" /\ i.end = k.end
        BY <1>1, <2>0
      <4>2. i.end < j.start - 1 \/ i.end = j.id.end
        BY <3>3, <4>1
      <4> QED BY <1>0, <4>1, <4>2
    <3>9. job'[v].start = RoundStart' /\ job'[v].end = job'[v].start + Window - 1
          /\ job'[v].retained <= Retained'
      BY <1>0, <1>2, <2>0, <3>2, <3>3
    <3> HIDE DEF j
    <3> QED BY <3>2, <3>7, <3>8, <3>9 DEF Planned, CatchupsEnd
  <2> QED BY <2>1, <2>2
<1> QED BY <1>3, <1>4, <1>5, <1>6

LEMMA PlannedDays ==
  ASSUME Types, Marks, Shapes, [Next]_vars, NEW v \in Worker, v = "days", Planned(v), Role(v),
         DaysBegin(v) \/ DaysEnqueue(v) \/ DaysSave(v)
  PROVE  Planned(v)'
<1> DEFINE j == job[v]
<1>a. Retained' = Retained
  <2>1. minute' = minute
    BY DEF DaysBegin, DaysEnqueue, DaysSave
  <2> QED BY <2>1 DEF Retained
<1>b. j \in JobShape /\ j.id \in Ids /\ minute \in Int /\ cursor["daily"] \in Nat
  BY DEF Types, HistTypes, JobTypes, JobShape, Groups
<1>0. /\ Retained \in Int /\ Retained' = Retained /\ j \in JobShape /\ minute \in Int
      /\ j.id \in Ids /\ cursor["daily"] \in Nat /\ Day \in Nat \ {0}
      /\ Retention \in Nat /\ DayOffset \in Nat
  BY <1>a, <1>b, MarksKept, ConfigTypes
<1>1. CASE DaysBegin(v)
  <2>1. /\ job'[v].pc = "plan" /\ job'[v].retained = OldestDay
        /\ job'[v].from = IF cursor["daily"] = 0 THEN LatestDay ELSE FloorDay(cursor["daily"] + 1)
    BY <1>1, JobAfter
  <2>2. minute - Retention \in Int /\ minute - DayOffset \in Int /\ cursor["daily"] + 1 \in Int
    BY <1>0
  <2>3. /\ FloorDay(minute - Retention) \in Int /\ FloorDay(minute - DayOffset) \in Int
        /\ FloorDay(minute - Retention) <= minute - Retention
    BY <2>2, FloorDayProperties
  <2>4. Aligned(OldestDay) /\ Aligned(LatestDay) /\ Aligned(FloorDay(cursor["daily"] + 1))
    BY <2>2, <2>3, AlignedFacts DEF OldestDay, LatestDay
  <2>5. OldestDay - Day < Retained
    BY <1>0, <2>2, <2>3 DEF OldestDay, Retained
  <2>6. Aligned(job'[v].retained) /\ job'[v].retained - Day < Retained' /\ Aligned(job'[v].from)
    BY <1>0, <2>1, <2>4, <2>5
  <2> QED BY <2>1, <2>6 DEF Planned, Aligned
<1>2. CASE DaysEnqueue(v)
  <2>1. j.pc = "plan" /\ job'[v].pc = "save" /\ job'[v].retained = j.retained
    BY <1>2, JobAfter
  <2>2. Aligned(j.retained) /\ j.retained - Day < Retained
    BY <2>1 DEF Planned
  <2> QED BY <1>0, <2>1, <2>2 DEF Planned, Aligned
<1>3. CASE DaysSave(v)
  <2>1. /\ j.pc = "save"
        /\ \/ job'[v].pc = "idle"
           \/ /\ job'[v].pc = "plan" /\ job'[v].from = j.id.end + 1
              /\ job'[v].retained = j.retained
    BY <1>3, JobAfter
  <2>2. j.id.kind = "daily" /\ Known(j.id)
    BY <2>1 DEF Role, Known, Engaged
  <2>3. Aligned(j.id.end + 1) /\ Aligned(j.retained) /\ j.retained - Day < Retained
    BY <1>0, <2>1, <2>2 DEF Planned, Shapes, Shape
  <2> QED BY <1>0, <2>1, <2>3 DEF Planned, Aligned
<1> QED BY <1>1, <1>2, <1>3

LEMMA PlannedKept ==
  ASSUME Types, Marks, Shapes, \A w \in Worker : Planned(w), [Next]_vars, NEW v \in Worker, Role(v)
  PROVE  Planned(v)'
<1>1. CASE Crash
  <2>1. job'[v].pc = "idle"
    BY <1>1 DEF Crash, Idle
  <2> QED BY <2>1 DEF Planned
<1>2. CASE Moves(v)
  <2>1. CASE AuditBegin(v) \/ AuditLoad(v) \/ AuditEnqueue(v) \/ AuditSave(v)
    <3>1. v = "audit"
      BY <2>1 DEF AuditBegin, AuditLoad, AuditEnqueue, AuditSave
    <3> QED BY <2>1, <3>1, PlannedAudit
  <2>2. CASE DaysBegin(v) \/ DaysEnqueue(v) \/ DaysSave(v)
    <3>1. v = "days"
      BY <2>2 DEF DaysBegin, DaysEnqueue, DaysSave
    <3> QED BY <2>2, <3>1, PlannedDays
  <2>3. CASE Stops(v) \/ \E i \in DOMAIN tasks : RetryList(v, i)
    <3>1. job'[v].pc \in {"idle", "picked"}
      BY <2>3, JobAfter
    <3> QED BY <3>1 DEF Planned
  <2>4. CASE ExecLock(v) \/ ExecLease(v) \/ RetryExpire(v) \/ RetryDecide(v) \/ DeferLease(v)
    <3>1. job'[v].pc \in {"idle", "locked", "running", "want", "defer", "deferring"}
      BY <2>4, JobAfter
    <3> QED BY <3>1 DEF Planned
  <2> QED BY <1>2, <2>1, <2>2, <2>3, <2>4 DEF Moves, WorkerStep, Stops
<1>3. CASE Calm
  BY <1>3, PlannedOther, CalmJobs
<1>4. ASSUME NEW w \in Worker \ {v}, Moves(w)
      PROVE  Planned(v)'
  <2>1. job'[v] = job[v]
    BY <1>4, OwnJob
  <2> QED BY <1>4, <2>1, PlannedOther
<1> QED BY <1>1, <1>2, <1>3, <1>4, Movers

\* Nobody has to check m, or one of its rows was ended on an inventory without the symbol.
Free(m) == Excused(m) \/ \E g \in Groups : m \in waived[g]

LEMMA FreeGrows ==
  ASSUME Types, [Next]_vars
  PROVE  \A m \in Int : Free(m) => Free(m)'
BY Grows DEF Free

\* The minutes of a running execution have a row that will replay them if it is cut short.
Runs(w) ==
  job[w].pc = "running" => \A m \in Range(job[w].id) :
    Free(m) \/ \E i \in DOMAIN tasks :
      Replays(i) /\ m \in Range(i) /\ IF w = "daily" THEN i = job[w].id ELSE i.kind # "daily"

\* The daily worker does not execute what has been superseded.
Current(w) == (w = "daily" /\ job[w].pc \in Executing) => ~Superseded(job[w].id)

\* Minute m of the row k, which w is about to let expire, is left to another sure row.
Passed(w, k, m) ==
  \/ Free(m) \/ (w = "daily" /\ m \notin dirty)
  \/ \E i \in DOMAIN tasks :
       /\ Sure(i) /\ m \in Range(i) /\ i # k
       /\ w = "retry" => i.kind = k.kind /\ i.end = k.end /\ i.start > k.start
HandsOver(w) ==
  (job[w].pc \in {"defer", "deferring"} /\ job[w].outcome = "expired") =>
    \A m \in Range(job[w].id) : Passed(w, job[w].id, m)

DirtyCovered == \A m \in dirty : Free(m) \/ \E i \in DOMAIN tasks : Sure(i) /\ m \in Range(i)

Stands(w) == /\ Planned(w) /\ Role(w) /\ Locked(w) /\ Settled(w)
             /\ Runs(w) /\ Current(w) /\ HandsOver(w)
ReplayInv == /\ CoverInv /\ Marks /\ Shapes /\ Youngs /\ Apart /\ Nested /\ Ended
             /\ \A w \in Worker : Stands(w)
             /\ DirtyCovered

\* What the lemmas on single steps start from.
LEMMA InvParts ==
  ASSUME ReplayInv
  PROVE  /\ Types /\ Workers /\ Marks /\ Shapes /\ Youngs /\ Apart /\ Nested /\ Ended
         /\ DirtyCovered
         /\ \A w \in Worker : /\ Planned(w) /\ Role(w) /\ Locked(w) /\ Settled(w)
                              /\ Runs(w) /\ Current(w) /\ HandsOver(w)
                              /\ job[w] \in JobShape /\ job[w].id \in Ids
                              /\ Range(job[w].id) \subseteq Int
         /\ \A i \in DOMAIN tasks : i \in Ids /\ Known(i) /\ Range(i) \subseteq Int
<1>1. Types /\ Workers
  BY DEF ReplayInv, CoverInv
<1>2. \A w \in Worker : job[w] \in JobShape /\ job[w].id \in Ids
  BY <1>1 DEF Types, JobTypes, JobShape
<1>3. \A i \in DOMAIN tasks : i \in Ids /\ Known(i)
  BY <1>1 DEF Types, RowTypes, Known
<1>4. \A i \in Ids : Range(i) \subseteq Int
  BY DEF Ids, Range
<1> QED BY <1>1, <1>2, <1>3, <1>4 DEF ReplayInv, Stands

\* Excuses of whole rows.
LEMMA FreeRow ==
  ASSUME Types, NEW i \in Ids, i.end < ListedAt \/ Range(i) \subseteq waived[Group(i)],
         NEW m \in Range(i)
  PROVE  Free(m)
<1>1. CASE i.end < ListedAt
  BY <1>1, ConfigTypes DEF Ids, Range, Free, Excused
<1>2. CASE Range(i) \subseteq waived[Group(i)]
  BY <1>2 DEF Free, Group, Groups
<1> QED BY <1>1, <1>2

\* A row closed as excluded leaves its minutes free.
LEMMA ExcludedFree ==
  ASSUME ReplayInv, [Next]_vars, NEW w \in Worker, DeferFinish(w), job[w].outcome = "excluded",
         NEW k \in Ids, Recorded(w, k, job[w].outcome), NEW m \in Range(k)
  PROVE  Free(m)'
<1>0. Types /\ Settled(w) /\ job[w].pc = "deferring" /\ k = job[w].id /\ m \in Int
  BY InvParts DEF DeferFinish, Recorded, Ids, Range
<1>1. CASE k.end < ListedAt
  BY <1>0, <1>1, FreeRow, FreeGrows
<1>2. CASE Disowned(job[w])
  <2>1. m \in waived'[Group(k)] /\ Group(k) \in Groups
    BY <1>0, <1>2, DisownedWaived DEF Group, Groups
  <2> QED BY <2>1 DEF Free
<1> QED BY <1>0, <1>1, <1>2 DEF Settled

LEMMA CloserStops ==
  ASSUME Types, NEW w \in Worker, NEW k, Closes(w, k)
  PROVE  /\ k = job[w].id /\ Moves(w) /\ job'[w].pc = "idle"
         /\ job[w].pc \in {"running", "deferring"}
         /\ ExecFinish(w, "completed") => job[w].pc = "running"
         /\ DeferFinish(w) => job[w].pc = "deferring"
<1>1. Stops(w) /\ Moves(w) /\ k = job[w].id
  BY DEF Closes, Stops, Moves, WorkerStep, Recorded
<1>2. job'[w].pc = "idle"
  BY <1>1, JobAfter
<1> QED BY <1>1, <1>2 DEF Closes, ExecFinish, DeferFinish

\* One step closes one row.
LEMMA OneCloser ==
  ASSUME Types, NEW v \in Worker, NEW i, Closes(v, i), NEW w \in Worker, NEW k, Closes(w, k)
  PROVE  v = w /\ i = k
<1>1. v = w
  <2> SUFFICES ASSUME v # w PROVE FALSE
    OBVIOUS
  <2>1. job'[v] = job[v]
    BY CloserStops, OwnJob
  <2> QED BY <2>1, CloserStops
<1> QED BY <1>1, CloserStops

\* A daily row is executed by the daily worker, with a replay.
LEMMA DailyRuns ==
  ASSUME ReplayInv, NEW w \in Worker, job[w].pc = "running", job[w].id.kind = "daily"
  PROVE  w = "daily" /\ job[w].replay
<1>0. job[w].id \in Ids /\ Role(w) /\ Youngs
  BY InvParts
<1>1. w = "daily"
  BY <1>0, WorkerAssumption DEF Role, Executing, Whole
<1>2. ~Young(job[w].id)
  BY <1>0 DEF Youngs, Known, Engaged
<1> QED BY <1>1, <1>2 DEF Young, FirstRun

\* What an execution under way with a replay makes of dirty minutes.
LEMMA ReplayCleans ==
  ASSUME NEW w \in Worker, ExecFinish(w, "completed"), job[w].replay
  PROVE  dirty' = dirty \ Range(job[w].id)
BY DEF ExecFinish

\* While a sure row covers a minute, the minute stays covered by a sure row until
\* it is replayed or excused.
LEMMA SurePasses ==
  ASSUME ReplayInv, [Next]_vars, NEW k \in DOMAIN tasks, Sure(k), NEW m \in Range(k)
  PROVE  \/ Free(m)' \/ m \notin dirty'
         \/ \E i \in DOMAIN tasks' :
              /\ Sure(i)' /\ m \in Range(i)
              /\ \/ i = k
                 \/ \E v \in Worker : /\ DeferFinish(v) /\ k = job[v].id
                                      /\ v = "retry" => i.kind = k.kind
<1>0. k \in Ids /\ Known(k) /\ m \in Int /\ Types /\ Workers /\ Ended
  BY InvParts
<1>1. Free(m) => Free(m)'
  BY <1>0, FreeGrows
<1>2. CASE Sure(k)'
  BY <1>2 DEF Sure
<1>3. ASSUME NEW w \in Worker, Supersedes(w, k)
      PROVE  Free(m)' \/ m \notin dirty'
  <2>1. PICK r \in DOMAIN tasks : /\ Recorded(w, r, "completed") /\ r.kind = "daily"
                                  /\ r.end = k.end /\ r.start > k.start /\ k.kind = "daily"
    BY <1>3 DEF Supersedes
  <2>2. ExecFinish(w, "completed") /\ r = job[w].id /\ job[w].pc = "running"
    BY <1>3, <2>1 DEF Supersedes, Recorded, ExecFinish
  <2>3. dirty' = dirty \ Range(r)
    BY <2>1, <2>2, DailyRuns, ReplayCleans
  <2>4. r \in Ids /\ Known(r) /\ Nested
    BY InvParts
  <2>5. r.start <= Retained
    BY <1>0, <2>1, <2>4 DEF Nested, Ids
  <2>6. CASE m >= r.start
    BY <1>0, <2>1, <2>3, <2>4, <2>6 DEF Range, Ids
  <2>7. CASE m < r.start
    <3>1. Retained \in Int
      BY <1>0, InvParts, MarksKept
    <3>2. m < Retained
      BY <1>0, <2>4, <2>5, <2>7, <3>1 DEF Ids
    <3> QED BY <1>1, <3>2 DEF Free, Excused
  <2> QED BY <1>0, <2>4, <2>6, <2>7 DEF Ids
<1>4. ASSUME NEW w \in Worker, Closes(w, k)
      PROVE  \/ Free(m)' \/ m \notin dirty'
             \/ \E i \in DOMAIN tasks' :
                  /\ Sure(i)' /\ m \in Range(i)
                  /\ \E v \in Worker : /\ DeferFinish(v) /\ k = job[v].id
                                       /\ v = "retry" => i.kind = k.kind
  <2>0. k = job[w].id
    BY <1>0, <1>4, CloserStops
  <2>1. CASE ExecFinish(w, "completed")
    <3>1. job[w].pc = "running" /\ ~FirstRun(k)
      BY <2>1 DEF ExecFinish, Sure, Young
    <3>2. job[w].replay
      BY <2>0, <3>1 DEF FirstRun
    <3>3. dirty' = dirty \ Range(k)
      BY <2>0, <2>1, <3>2, ReplayCleans
    <3> QED BY <3>3
  <2>2. CASE DeferFinish(w) /\ job[w].outcome \in Terminal
    <3>1. job[w].pc = "deferring" /\ UNCHANGED dirty
      BY <2>2 DEF DeferFinish
    <3>2. job[w].outcome \in {"excluded", "expired"}
      BY <2>0, <2>2, <3>1, InvParts DEF Settled, Terminal
    <3>3. CASE job[w].outcome = "excluded"
      <4>1. Recorded(w, k, job[w].outcome)
        BY <1>4, <2>2, <3>1 DEF Closes, ExecFinish
      <4> QED BY <1>0, <2>2, <3>3, <4>1, ExcludedFree
    <3>4. CASE job[w].outcome = "expired"
      <4>1. HandsOver(w)
        BY InvParts
      <4>2. \/ Free(m) \/ m \notin dirty
            \/ \E i \in DOMAIN tasks : /\ Sure(i) /\ m \in Range(i) /\ i # k
                                       /\ w = "retry" => i.kind = k.kind
        BY <2>0, <3>1, <3>4, <4>1 DEF HandsOver, Passed
      <4>3. ASSUME NEW i \in DOMAIN tasks, Sure(i), m \in Range(i), i # k, w = "retry" => i.kind = k.kind
            PROVE  Sure(i)'
        <5>1. \A v \in Worker : ~Closes(v, i)
          BY <1>0, <1>4, <4>3, OneCloser
        <5>2. ASSUME NEW v \in Worker, Supersedes(v, i) PROVE FALSE
          <6>1. ExecFinish(v, "completed") /\ job[v].pc = "running" /\ Moves(v) /\ Stops(v)
            BY <5>2 DEF Supersedes, ExecFinish, Moves, WorkerStep, Stops
          <6>2. v # w
            BY <3>1, <6>1
          <6>3. job'[v].pc = "idle" /\ job'[v] = job[v]
            BY <1>0, <1>4, <6>1, <6>2, JobAfter, OwnJob, CloserStops
          <6> QED BY <6>1, <6>3
        <5> QED BY <1>0, <4>3, <5>1, <5>2, SureKept
      <4>4. CASE Free(m) \/ m \notin dirty
        BY <1>1, <3>1, <4>4
      <4>5. ASSUME NEW i \in DOMAIN tasks, Sure(i), m \in Range(i), i # k, w = "retry" => i.kind = k.kind
            PROVE  \E x \in DOMAIN tasks' :
                     /\ Sure(x)' /\ m \in Range(x)
                     /\ \E v \in Worker : /\ DeferFinish(v) /\ k = job[v].id
                                          /\ v = "retry" => x.kind = k.kind
        <5>1. Sure(i)' /\ i \in DOMAIN tasks'
          BY <4>3, <4>5 DEF Sure
        <5> QED BY <2>0, <2>2, <4>5, <5>1
      <4> QED BY <4>2, <4>4, <4>5
    <3> QED BY <3>2, <3>3, <3>4
  <2> QED BY <1>4, <2>1, <2>2 DEF Closes
<1>5. Sure(k)' \/ \E w \in Worker : Closes(w, k) \/ Supersedes(w, k)
  BY <1>0, SureKept
<1> QED BY <1>2, <1>3, <1>4, <1>5

\* Only one worker executes at a time.
LEMMA OneRunner ==
  ASSUME ReplayInv, NEW v \in Worker, NEW w \in Worker, job[v].pc = "running", job[w].pc = "running"
  PROVE  v = w
BY InvParts DEF Locked

\* A minute of an execution cut short is covered by a sure row.
LEMMA NewDirty ==
  ASSUME ReplayInv, [Next]_vars, NEW m \in dirty', m \notin dirty
  PROVE  \E w \in Worker :
           /\ job[w].pc = "running" /\ m \in Range(job[w].id)
           /\ \/ Free(m)'
              \/ \E i \in DOMAIN tasks' : /\ Sure(i)' /\ m \in Range(i)
                                          /\ w # "daily" => i.kind # "daily"
<1>0. Types /\ Workers /\ Ended
  BY InvParts
<1>1. \A w \in Worker : ~ExecFinish(w, "completed") /\ ~DeferFinish(w)
  <2>1. ASSUME NEW w \in Worker, ExecFinish(w, "completed") PROVE FALSE
    BY <2>1 DEF ExecFinish
  <2>2. ASSUME NEW w \in Worker, DeferFinish(w) PROVE FALSE
    BY <2>2 DEF DeferFinish
  <2> QED BY <2>1, <2>2
<1>2. \A w \in Worker : \A k : ~Closes(w, k) /\ ~Supersedes(w, k)
  BY <1>1 DEF Closes, Supersedes
<1>3. PICK w \in Worker : /\ job[w].pc = "running" /\ m \in Range(job[w].id)
                          /\ ExecFinish(w, "waiting") \/ CallFails(w) \/ Crash
  BY <1>1, DirtyMoves
<1>4. \A u \in Worker : job'[u].pc # "running"
  <2>1. CASE Crash
    BY <2>1 DEF Crash, Idle
  <2>2. CASE ExecFinish(w, "waiting") \/ CallFails(w)
    <3>1. Moves(w) /\ Stops(w)
      BY <2>2 DEF Moves, Stops
    <3>2. job'[w].pc = "idle" /\ \A u \in Worker \ {w} : job'[u] = job[u]
      BY <1>0, <3>1, OwnJob, JobAfter
    <3> QED BY <1>3, <3>2, OneRunner
  <2> QED BY <1>3, <2>1, <2>2
<1>5. CASE Free(m)
  BY <1>0, <1>3, <1>5, FreeGrows, InvParts
<1>6. ASSUME NEW i \in DOMAIN tasks, Replays(i), m \in Range(i),
             IF w = "daily" THEN i = job[w].id ELSE i.kind # "daily"
      PROVE  Sure(i)'
  <2>1. Replays(i)'
    BY <1>0, <1>2, <1>6, ReplaysKept
  <2>2. ~Young(i)'
    BY <1>4, <2>1 DEF Young, Fresh, FirstRun, Replays
  <2>3. ~Superseded(i)'
    <3>1. CASE w = "daily"
      <4>1. ~Superseded(i)
        BY <1>3, <1>6, <3>1, InvParts DEF Current, Executing
      <4> QED BY <1>0, <1>2, <4>1, SupersededAfter
    <3>2. CASE w # "daily"
      BY <1>6, <3>2 DEF Superseded
    <3> QED BY <3>1, <3>2
  <2> QED BY <2>1, <2>2, <2>3 DEF Sure, Replays
<1>7. Runs(w)
  BY InvParts
<1>8. CASE \E i \in DOMAIN tasks : /\ Replays(i) /\ m \in Range(i)
                                   /\ IF w = "daily" THEN i = job[w].id ELSE i.kind # "daily"
  <2>1. PICK i \in DOMAIN tasks : /\ Replays(i) /\ m \in Range(i)
                                  /\ IF w = "daily" THEN i = job[w].id ELSE i.kind # "daily"
    BY <1>8
  <2>2. Sure(i)' /\ i \in DOMAIN tasks'
    BY <1>6, <2>1 DEF Sure
  <2> QED BY <1>3, <2>1, <2>2
<1> QED BY <1>3, <1>5, <1>7, <1>8 DEF Runs

LEMMA DirtyKept ==
  ASSUME ReplayInv, [Next]_vars
  PROVE  DirtyCovered'
<1> SUFFICES ASSUME NEW m \in dirty'
             PROVE  Free(m)' \/ \E i \in DOMAIN tasks' : Sure(i)' /\ m \in Range(i)
  BY DEF DirtyCovered
<1>1. CASE m \notin dirty
  BY <1>1, NewDirty
<1>2. CASE m \in dirty
  <2>1. m \in Int /\ Types
    BY <1>2, InvParts DEF Marks
  <2>2. CASE Free(m)
    BY <2>1, <2>2, FreeGrows
  <2>3. ASSUME NEW k \in DOMAIN tasks, Sure(k), m \in Range(k)
        PROVE  Free(m)' \/ \E i \in DOMAIN tasks' : Sure(i)' /\ m \in Range(i)
    BY <2>3, SurePasses
  <2> QED BY <1>2, <2>2, <2>3, InvParts DEF DirtyCovered
<1> QED BY <1>1, <1>2

\* The mover whose worker runs after the step has just leased its row.
LEMMA NewRunner ==
  ASSUME Types, NEW v \in Worker, Moves(v), job'[v].pc = "running"
  PROVE  ExecLease(v)
<1>1. ~Stops(v) /\ ~\E i \in DOMAIN tasks : RetryList(v, i)
  BY JobAfter
<1> QED BY <1>1, JobAfter DEF Moves, WorkerStep, Stops

LEMMA RunsKept ==
  ASSUME ReplayInv, [Next]_vars, NEW v \in Worker
  PROVE  Runs(v)'
<1> SUFFICES ASSUME job'[v].pc = "running", NEW m \in Range(job'[v].id)
             PROVE  Free(m)' \/ \E i \in DOMAIN tasks' :
                      /\ Replays(i)' /\ m \in Range(i)
                      /\ IF v = "daily" THEN i = job'[v].id ELSE i.kind # "daily"
  BY DEF Runs
<1>0. Types /\ Workers /\ Ended /\ Role(v)
  BY InvParts
<1>1. CASE Moves(v)
  <2>1. ExecLease(v)
    BY <1>0, <1>1, NewRunner
  <2>2. job[v].pc = "locked" /\ job'[v].id = job[v].id /\ Lease(job[v].id, v)
    BY <1>0, <2>1, JobAfter
  <2>a. PICK k : k = job[v].id
    OBVIOUS
  <2> DEFINE held == [tasks[k] EXCEPT !.status = "running", !.token = v,
                                      !.live = TRUE, !.attempted = TRUE]
  <2>3. k \in DOMAIN tasks /\ tasks[k] \in Row /\ tasks' = Put(k, held)
    BY <1>0, <2>2, <2>a DEF Lease, Due, Types, RowTypes
  <2>4. held.status = "running" /\ held.attempted = TRUE
    BY <2>3 DEF Row
  <2> HIDE DEF held
  <2>5. k \in DOMAIN tasks' /\ tasks'[k] = held
    BY <2>3 DEF Put
  <2>6. Replays(k)'
    BY <2>4, <2>5 DEF Replays, OutstandingRow, Outstanding
  <2>7. v # "daily" => k.kind # "daily"
    BY <1>0, <2>2, <2>a, WorkerAssumption DEF Role, Executing, Whole
  <2>8. m \in Range(k) /\ k = job'[v].id
    BY <2>2, <2>a
  <2> QED BY <2>5, <2>6, <2>7, <2>8
<1>2. CASE Crash
  <2>1. job'[v].pc = "idle"
    BY <1>2 DEF Crash, Idle
  <2> QED BY <2>1
<1>3. CASE job'[v] = job[v]
  <2>0. m \in Range(job[v].id) /\ m \in Int /\ job[v].pc = "running"
    BY <1>3, InvParts
  <2>1. Free(m) => Free(m)'
    BY <1>0, <2>0, FreeGrows
  <2>2. ASSUME NEW i \in DOMAIN tasks, Replays(i), m \in Range(i),
               IF v = "daily" THEN i = job[v].id ELSE i.kind # "daily"
        PROVE  Free(m)' \/ \E x \in DOMAIN tasks' :
                 /\ Replays(x)' /\ m \in Range(x)
                 /\ IF v = "daily" THEN x = job[v].id ELSE x.kind # "daily"
    <3>1. CASE Replays(i)'
      BY <2>2, <3>1 DEF Replays
    <3>2. ASSUME NEW u \in Worker, Closes(u, i)
          PROVE  Free(m)' \/ \E x \in DOMAIN tasks' :
                   /\ Replays(x)' /\ m \in Range(x)
                   /\ IF v = "daily" THEN x = job[v].id ELSE x.kind # "daily"
      <4>1. i = job[u].id /\ job'[u].pc = "idle" /\ u # v
        BY <1>0, <1>3, <2>0, <3>2, CloserStops
      <4>2. ~ExecFinish(u, "completed")
        BY <1>0, <2>0, <3>2, <4>1, CloserStops, OneRunner
      <4>3. job[u].pc = "deferring" /\ job[u].outcome \in Terminal /\ Settled(u) /\ HandsOver(u) /\ Role(u)
        BY <3>2, <4>2, InvParts DEF Closes, DeferFinish
      <4>4. CASE job[u].outcome = "excluded"
        <5>1. DeferFinish(u) /\ Recorded(u, i, job[u].outcome)
          BY <3>2, <4>2 DEF Closes
        <5> QED BY <2>2, <4>4, <5>1, ExcludedFree, InvParts
      <4>5. CASE job[u].outcome = "expired"
        <5>1. u \in {"retry", "daily"} /\ (u = "daily" <=> i.kind = "daily")
          BY <4>1, <4>3, WorkerAssumption DEF Role, Executing
        <5>2. v # "daily" /\ u = "retry"
          <6>1. CASE v = "daily"
            <7>1. i.kind = "daily"
              BY <1>0, <2>0, <2>2, <6>1 DEF Role
            <7> QED BY <4>1, <5>1, <6>1, <7>1
          <6>2. CASE v # "daily"
            BY <2>2, <5>1, <6>2
          <6> QED BY <6>1, <6>2
        <5>3. Free(m) \/ \E x \in DOMAIN tasks : /\ Sure(x) /\ m \in Range(x) /\ x # i
                                                    /\ x.kind = i.kind
          BY <2>2, <4>1, <4>3, <4>5, <5>2 DEF HandsOver, Passed
        <5>4. ASSUME NEW x \in DOMAIN tasks, Sure(x), x # i
              PROVE  Replays(x)'
          <6>1. \A t \in Worker : ~Closes(t, x)
            BY <1>0, <3>2, <5>4, OneCloser
          <6> QED BY <1>0, <5>4, <6>1, SureReplays, ReplaysKept
        <5>5. ASSUME NEW x \in DOMAIN tasks, Sure(x), m \in Range(x), x # i, x.kind = i.kind
              PROVE  \E y \in DOMAIN tasks' : /\ Replays(y)' /\ m \in Range(y)
                                              /\ IF v = "daily" THEN y = job[v].id ELSE y.kind # "daily"
          <6>1. Replays(x)' /\ x \in DOMAIN tasks' /\ x.kind # "daily"
            BY <2>2, <5>2, <5>4, <5>5 DEF Replays
          <6> QED BY <5>2, <5>5, <6>1
        <5> QED BY <2>1, <5>3, <5>5
      <4> QED BY <4>3, <4>4, <4>5 DEF Settled, Terminal
    <3> QED BY <1>0, <2>2, <3>1, <3>2, ReplaysKept
  <2>3. Runs(v)
    BY InvParts
  <2> QED BY <1>3, <2>0, <2>1, <2>2, <2>3 DEF Runs
<1>4. Moves(v) \/ Crash \/ job'[v] = job[v]
  BY <1>0, Movers, OwnJob, CalmJobs
<1> QED BY <1>1, <1>2, <1>3, <1>4

LEMMA CurrentKept ==
  ASSUME ReplayInv, [Next]_vars, NEW v \in Worker
  PROVE  Current(v)'
<1> SUFFICES ASSUME v = "daily", job'[v].pc \in Executing, NEW k, k = job'[v].id, Superseded(k)'
             PROVE  FALSE
  BY DEF Current
<1>0. Types /\ Workers /\ Role(v)
  BY InvParts
<1>1. ~\E w \in Worker : Supersedes(w, k)
  <2> SUFFICES ASSUME NEW w \in Worker, Supersedes(w, k) PROVE FALSE
    OBVIOUS
  <2>1. PICK r \in DOMAIN tasks : /\ ExecFinish(w, "completed") /\ Recorded(w, r, "completed")
                                  /\ r.kind = "daily"
    BY DEF Supersedes
  <2>2. job[w].pc = "running" /\ job[w].id = r /\ Stops(w)
    BY <2>1 DEF ExecFinish, Recorded, Stops
  <2>3. w = v
    BY <2>1, <2>2, DailyRuns
  <2>4. job'[v].pc = "idle"
    BY <1>0, <2>2, <2>3, JobAfter
  <2> QED BY <2>4 DEF Executing
<1>2. Superseded(k)
  BY <1>0, <1>1, SupersededAfter
<1>3. CASE job[v].pc \in Executing /\ job'[v].id = job[v].id
  BY <1>2, <1>3, InvParts DEF Current
<1>4. CASE RetryDecide(v)
  <2>1. job[v].pc = "picked" /\ k = job[v].id /\ k.start >= Retained
    BY <1>0, <1>4, JobAfter
  <2>2. PICK r \in DOMAIN tasks : r.kind = "daily" /\ r.end = k.end /\ r.start > k.start /\ k.kind = "daily"
    BY <1>2 DEF Superseded
  <2>3. k \in Ids /\ r \in Ids /\ Known(r) /\ Known(k) /\ Nested
    BY <2>1, InvParts DEF Known, Engaged
  <2>4. k.start \in Int /\ r.start \in Int /\ Retained \in Int
    BY <1>0, <2>3, InvParts, MarksKept DEF Ids
  <2>5. k.start < r.start
    BY <2>2, <2>4
  <2>6. r.start <= Retained
    BY <2>2, <2>3, <2>5 DEF Nested
  <2> QED BY <2>1, <2>4, <2>5, <2>6
<1>5. CASE Moves(v)
  <2>1. ~Stops(v) /\ ~\E i \in DOMAIN tasks : RetryList(v, i)
    BY <1>0, JobAfter DEF Executing
  <2>2. ExecLock(v) \/ ExecLease(v) \/ RetryDecide(v)
    BY <1>0, <1>5, <2>1, JobAfter DEF Moves, WorkerStep, Stops, Executing
  <2>3. ExecLock(v) \/ ExecLease(v) => job[v].pc \in Executing /\ job'[v].id = job[v].id
    BY <1>0, JobAfter DEF Executing
  <2> QED BY <1>3, <1>4, <2>2, <2>3
<1>6. CASE Crash
  BY <1>6 DEF Crash, Idle, Executing
<1>7. Moves(v) \/ Crash \/ job'[v] = job[v]
  BY <1>0, Movers, OwnJob, CalmJobs
<1> QED BY <1>3, <1>5, <1>6, <1>7

\* While the deferral is under way, others leave that row alone, or pass it on.
LEMMA PassedKept ==
  ASSUME ReplayInv, [Next]_vars, NEW v \in Worker, job[v].pc \in {"defer", "deferring"},
         job'[v].pc # "idle", NEW k, k = job[v].id, NEW m \in Range(k), Passed(v, k, m)
  PROVE  Passed(v, k, m)'
<1>0. /\ Types /\ Workers /\ Ended /\ Shapes /\ k \in Ids /\ Known(k) /\ m \in Int
      /\ v \in {"retry", "daily"} /\ (v = "daily" <=> k.kind = "daily")
  <2>1. Known(k)
    BY DEF Known, Engaged
  <2>2. Role(v) /\ v \in {"audit", "retry", "days", "daily"}
    BY InvParts, WorkerAssumption
  <2>3. v \in {"retry", "daily"} /\ (v = "daily" <=> k.kind = "daily")
    BY <2>2 DEF Role, Executing
  <2> QED BY <2>1, <2>3, InvParts
<1>1. CASE Free(m)
  BY <1>0, <1>1, FreeGrows DEF Passed
<1>2. CASE v = "daily" /\ m \notin dirty
  <2>1. CASE m \notin dirty'
    BY <1>2, <2>1 DEF Passed
  <2>2. CASE m \in dirty'
    <3>1. PICK w \in Worker : /\ job[w].pc = "running"
                              /\ \/ Free(m)'
                                 \/ \E i \in DOMAIN tasks' : /\ Sure(i)' /\ m \in Range(i)
                                                             /\ w # "daily" => i.kind # "daily"
      BY <1>2, <2>2, NewDirty
    <3>2. w # "daily"
      BY <1>2, <3>1
    <3>3. CASE Free(m)'
      BY <3>3 DEF Passed
    <3>4. ASSUME NEW i \in DOMAIN tasks', Sure(i)', m \in Range(i), i.kind # "daily"
          PROVE  Passed(v, k, m)'
      <4>1. i # k /\ v # "retry"
        BY <1>0, <1>2, <3>4
      <4> QED BY <3>4, <4>1 DEF Passed
    <3> QED BY <3>1, <3>2, <3>3, <3>4
  <2> QED BY <2>1, <2>2
<1>3. ASSUME v = "retry", NEW i \in DOMAIN tasks, Sure(i), m \in Range(i),
             i.kind = k.kind, i.end = k.end, i.start > k.start
      PROVE  Passed(v, k, m)'
  <2>0. i.kind # "daily" /\ i \in Ids /\ i # k
    BY <1>0, <1>3, InvParts DEF Ids
  <2>1. ASSUME NEW u \in Worker, Closes(u, i) PROVE FALSE
    <3>1. /\ i = job[u].id /\ job[u].pc \in {"running", "deferring"} /\ u # v /\ Role(u)
          /\ u \in {"audit", "retry", "days", "daily"}
      BY <1>0, <2>1, CloserStops, InvParts, WorkerAssumption
    <3>2. Whole(i)
      BY <1>3, <2>0, <3>1 DEF Role, Executing
    <3>3. k.end < k.start + Window
      BY <1>0, <1>3, <3>2 DEF Shapes, Shape, Whole
    <3> QED BY <1>0, <1>3, <2>0, <3>2, <3>3, ConfigTypes DEF Whole, Ids
  <2>2. \A u \in Worker : ~Supersedes(u, i)
    BY <2>0 DEF Supersedes
  <2>3. Sure(i)' /\ i \in DOMAIN tasks'
    BY <1>0, <1>3, <2>1, <2>2, SureKept DEF Sure
  <2> QED BY <1>3, <2>0, <2>3 DEF Passed
<1>4. ASSUME v = "daily", NEW i \in DOMAIN tasks, Sure(i), m \in Range(i), i # k
      PROVE  Passed(v, k, m)'
  <2>1. ASSUME NEW x \in DOMAIN tasks', Sure(x)', m \in Range(x), x # k
        PROVE  Passed(v, k, m)'
    BY <1>4, <2>1 DEF Passed
  <2>2. ASSUME NEW x, NEW u \in Worker, DeferFinish(u), i = job[u].id, u = "retry" => x.kind = i.kind
        PROVE  x # k
    <3>1. Stops(u) /\ job[u].pc = "deferring"
      BY <2>2 DEF Stops, DeferFinish
    <3>2. u # v /\ Role(u) /\ u \in {"audit", "retry", "days", "daily"}
      BY <1>0, <3>1, JobAfter, InvParts, WorkerAssumption
    <3>3. u = "retry" /\ i.kind # "daily"
      BY <1>4, <2>2, <3>1, <3>2 DEF Role, Executing
    <3> QED BY <1>0, <1>4, <2>2, <3>3
  <2>3. \/ Free(m)' \/ m \notin dirty'
        \/ \E x \in DOMAIN tasks' :
             /\ Sure(x)' /\ m \in Range(x)
             /\ \/ x = i
                \/ \E u \in Worker : /\ DeferFinish(u) /\ i = job[u].id
                                     /\ u = "retry" => x.kind = i.kind
    BY <1>4, SurePasses
  <2>4. CASE Free(m)' \/ m \notin dirty'
    BY <1>4, <2>4 DEF Passed
  <2> QED BY <1>4, <2>1, <2>2, <2>3, <2>4
<1> QED BY <1>0, <1>1, <1>2, <1>3, <1>4 DEF Passed

\* minuteRetryPass registers the remainder before the row expires.
LEMMA ExpirePasses ==
  ASSUME ReplayInv, [Next]_vars, NEW v \in Worker, RetryExpire(v), NEW k, k = job[v].id,
         NEW m \in Range(k)
  PROVE  Passed(v, k, m)'
<1>0. /\ Types /\ Workers /\ Ended /\ Shapes /\ Youngs /\ Apart /\ Nested /\ DirtyCovered
      /\ k \in Ids /\ Known(k) /\ m \in Int
      /\ v \in {"retry", "daily"} /\ (v = "daily" <=> k.kind = "daily")
      /\ job[v].pc = "picked" /\ k.start < Retained
  <2>1. job[v].pc = "picked" /\ k.start < Retained
    BY DEF RetryExpire
  <2>2. Role(v) /\ v \in {"audit", "retry", "days", "daily"}
    BY InvParts, WorkerAssumption
  <2>3. v \in {"retry", "daily"} /\ (v = "daily" <=> k.kind = "daily")
    BY <2>1, <2>2 DEF Role, Executing
  <2>4. Known(k)
    BY <2>1 DEF Known, Engaged
  <2> QED BY <2>1, <2>3, <2>4, InvParts
<1>1. Retained \in Int /\ k.start \in Int /\ k.end \in Int /\ Window \in Int /\ dirty' = dirty
  BY <1>0, InvParts, MarksKept, ConfigTypes DEF RetryExpire, histVars, Ids
<1>2. ASSUME Free(m) PROVE Passed(v, k, m)'
  BY <1>0, <1>2, FreeGrows DEF Passed
<1>3. CASE m < Retained
  BY <1>2, <1>3 DEF Free, Excused
<1>4. CASE m >= Retained
  <2>0. k.end >= Retained
    BY <1>0, <1>1, <1>4 DEF Range
  <2>1. PICK r : r = Remainder(k)
    OBVIOUS
  <2>2. /\ r \in Ids /\ r.kind = k.kind /\ r.end = k.end /\ r.start = Retained
        /\ r.start > k.start /\ m \in Range(r) /\ r # k
    BY <1>0, <1>1, <1>4, <2>1 DEF Remainder, Ids, Range
  <2>3. Enqueue(r, TRUE)
    BY <2>0, <2>1 DEF RetryExpire
  <2>4. \A u \in Worker : ~Stops(u) /\ ~AuditEnqueue(u)
    <3> SUFFICES ASSUME NEW u \in Worker, Stops(u) \/ AuditEnqueue(u) PROVE FALSE
      OBVIOUS
    <3>1. job'[v].pc = "defer"
      BY <1>0, JobAfter
    <3>2. job'[u].pc \in {"idle", "save"} /\ Moves(u)
      BY <1>0, JobAfter DEF Moves, WorkerStep, Stops
    <3>3. u # v
      BY <3>1, <3>2
    <3> QED BY <1>0, <3>1, <3>2, <3>3, OwnJob
  <2>5. \A u \in Worker : \A x : ~Closes(u, x) /\ ~Supersedes(u, x)
    BY <2>4 DEF Closes, Supersedes, Stops
  <2>6. ~Young(r)'
    <3>1. ~Young(r)
      <4> SUFFICES ASSUME Young(r) PROVE FALSE
        OBVIOUS
      <4>1. Known(r)
        BY DEF Young, Fresh, FirstRun, Known, Engaged
      <4>2. CASE r.kind = "window"
        <5>1. r.end = r.start + Window - 1 /\ k.end < k.start + Window
          BY <1>0, <2>2, <4>1, <4>2 DEF Youngs, Shapes, Shape
        <5> QED BY <1>1, <2>2, <5>1
      <4>3. CASE r.kind = "catchup"
        <5>1. k.start >= r.start
          BY <1>0, <2>0, <2>2, <4>1, <4>3 DEF Apart
        <5> QED BY <1>1, <2>2, <5>1
      <4>4. r.kind \in {"window", "catchup"}
        BY <1>0, <2>2, <4>1 DEF Youngs, Ids, Kinds
      <4> QED BY <4>2, <4>3, <4>4
    <3> QED BY <1>0, <2>4, <3>1, YoungAfter
  <2>7. ~Superseded(r)'
    <3>1. ASSUME Superseded(r) PROVE FALSE
      <4>1. PICK x \in DOMAIN tasks : x.kind = "daily" /\ x.end = r.end /\ x.start > r.start
        BY <3>1 DEF Superseded
      <4>2. x \in Ids /\ Known(x) /\ r.kind = "daily" /\ x.start \in Int
        BY <3>1, InvParts DEF Superseded, Ids
      <4>3. k.start < x.start /\ k.end = x.end /\ k.kind = "daily"
        BY <1>1, <2>2, <4>1, <4>2
      <4>4. x.start <= Retained
        BY <1>0, <4>1, <4>2, <4>3 DEF Nested
      <4> QED BY <1>1, <2>2, <4>1, <4>2, <4>4
    <3> QED BY <1>0, <2>5, <3>1, SupersededAfter
  <2>8. ASSUME r \in DOMAIN tasks', tasks'[r].status \in Outstanding
        PROVE  Passed(v, k, m)'
    <3>1. Sure(r)'
      BY <2>6, <2>7, <2>8 DEF Sure, OutstandingRow
    <3> QED BY <2>2, <2>8, <3>1 DEF Passed
  <2>9. CASE r \notin DOMAIN tasks
    <3>1. r \in DOMAIN tasks' /\ tasks'[r] = NewRow(TRUE)
      BY <2>3, <2>9 DEF Enqueue, Put
    <3>2. tasks'[r].status \in Outstanding
      BY <3>1 DEF NewRow, Outstanding
    <3> QED BY <2>8, <3>1, <3>2
  <2>10. CASE r \in DOMAIN tasks
    <3>1. tasks' = tasks /\ tasks[r] \in Row
      BY <1>0, <2>3, <2>10 DEF Enqueue, Types, RowTypes
    <3>2. CASE tasks[r].status \in Outstanding
      BY <2>8, <2>10, <3>1, <3>2
    <3>3. CASE tasks[r].status = "expired"
      BY <1>0, <1>1, <2>2, <2>10, <3>3 DEF Ended
    <3>4. CASE tasks[r].status = "excluded"
      BY <1>0, <1>2, <2>2, <2>10, <3>4, FreeRow DEF Ended
    <3>5. CASE tasks[r].status = "completed"
      <4>1. v = "daily" /\ k.kind = "daily" /\ r.kind = "daily"
        BY <1>0, <2>2, <2>10, <3>5 DEF Ended
      <4>2. Superseded(k)
        BY <2>2, <2>10, <3>5, <4>1 DEF Superseded
      <4>3. CASE m \notin dirty
        BY <1>1, <4>1, <4>3 DEF Passed
      <4>4. ASSUME NEW x \in DOMAIN tasks, Sure(x), m \in Range(x)
            PROVE  Passed(v, k, m)'
        <5>1. Sure(x)' /\ x \in DOMAIN tasks' /\ x # k
          BY <1>0, <2>5, <4>2, <4>4, SureKept DEF Sure
        <5> QED BY <4>1, <4>4, <5>1 DEF Passed
      <4> QED BY <1>0, <1>2, <4>3, <4>4 DEF DirtyCovered
    <3> QED BY <3>1, <3>2, <3>3, <3>4, <3>5 DEF Row, Terminal
  <2> QED BY <2>9, <2>10
<1> QED BY <1>0, <1>1, <1>3, <1>4

LEMMA HandsOverKept ==
  ASSUME ReplayInv, [Next]_vars, NEW v \in Worker
  PROVE  HandsOver(v)'
<1> SUFFICES ASSUME job'[v].pc \in {"defer", "deferring"}, job'[v].outcome = "expired",
                    NEW k, k = job'[v].id, NEW m \in Range(k)
             PROVE  Passed(v, k, m)'
  BY DEF HandsOver, Passed
<1>0. Types
  BY InvParts
<1>1. CASE RetryExpire(v)
  <2>1. k = job[v].id
    BY <1>0, <1>1, JobAfter
  <2> QED BY <1>1, <2>1, ExpirePasses
<1>2. CASE /\ job[v].pc \in {"defer", "deferring"} /\ job[v].id = k
           /\ job[v].outcome = "expired"
  <2>1. Passed(v, k, m)
    BY <1>2, InvParts DEF HandsOver, Passed
  <2> QED BY <1>2, <2>1, PassedKept
<1>3. CASE Moves(v)
  <2>1. ~Stops(v) /\ ~\E i \in DOMAIN tasks : RetryList(v, i)
    BY <1>0, JobAfter
  <2>2. RetryExpire(v) \/ RetryDecide(v) \/ DeferLease(v)
    BY <1>0, <1>3, <2>1, JobAfter DEF Moves, WorkerStep, Stops
  <2>3. ~RetryDecide(v)
    BY <1>0, JobAfter
  <2>4. DeferLease(v) => /\ job[v].pc = "defer" /\ job[v].id = k
                         /\ job[v].outcome = "expired"
    BY <1>0, JobAfter
  <2> QED BY <1>1, <1>2, <2>2, <2>3, <2>4
<1>4. CASE Crash
  <2>1. job'[v].pc = "idle"
    BY <1>4 DEF Crash, Idle
  <2> QED BY <2>1
<1>5. Moves(v) \/ Crash \/ job'[v] = job[v]
  BY <1>0, Movers, OwnJob, CalmJobs
<1> QED BY <1>2, <1>3, <1>4, <1>5

LEMMA RoleKept ==
  ASSUME ReplayInv, [Next]_vars, NEW v \in Worker
  PROVE  Role(v)'
<1>0. Types /\ Marks /\ Shapes /\ Planned(v) /\ Role(v)
  BY InvParts
<1>1. CASE Crash
  <2>1. job'[v].pc = "idle"
    BY <1>1 DEF Crash, Idle
  <2> QED BY <2>1 DEF Role, Executing
<1>2. CASE job'[v] = job[v]
  BY <1>0, <1>2 DEF Role, Whole
<1>3. Moves(v) \/ Crash \/ job'[v] = job[v]
  BY <1>0, Movers, OwnJob, CalmJobs
<1> QED BY <1>0, <1>1, <1>2, <1>3, RoleOwn

LEMMA ReplayInit == Init => ReplayInv
<1> SUFFICES ASSUME Init PROVE ReplayInv
  OBVIOUS
<1>1. CoverInv
  BY CoverInit
<1>2. DOMAIN tasks = {} /\ dirty = {}
  BY DEF Init, LedgerInit
<1>3. \A w \in Worker : job[w].pc = "idle"
  BY DEF Init, Idle
<1>4. \A i : ~Known(i)
  BY <1>2, <1>3 DEF Known, Engaged
<1>5. Shapes /\ Youngs /\ Apart /\ Nested
  BY <1>4 DEF Shapes, Youngs, Apart, Nested
<1>6. Marks
  BY <1>2, ConfigTypes, ConfigAssumption, HorizonAssumption DEF Marks, Init, Minutes
<1>7. Ended /\ DirtyCovered
  BY <1>2 DEF Ended, DirtyCovered
<1>8. ASSUME NEW w \in Worker PROVE Stands(w)
  <2>1. Planned(w)
    BY <1>3 DEF Planned
  <2>2. Role(w)
    BY <1>3 DEF Role, Executing
  <2>3. Locked(w) /\ Settled(w) /\ Runs(w) /\ Current(w) /\ HandsOver(w)
    BY <1>3 DEF Locked, Settled, Runs, Current, HandsOver, Executing
  <2> QED BY <2>1, <2>2, <2>3 DEF Stands
<1> QED BY <1>1, <1>5, <1>6, <1>7, <1>8 DEF ReplayInv

LEMMA ReplayStep ==
  ASSUME ReplayInv, [Next]_vars
  PROVE  ReplayInv'
<1>0. Types /\ Workers /\ Marks /\ Shapes /\ Youngs /\ Apart /\ Nested /\ Ended
  BY InvParts
<1>a. \A w \in Worker : /\ Planned(w) /\ Role(w) /\ Locked(w) /\ Settled(w)
                        /\ Runs(w) /\ Current(w) /\ HandsOver(w)
  BY InvParts
<1>1. CoverInv'
  <2>1. CoverInv
    BY DEF ReplayInv
  <2> QED BY <2>1, TypesStep, GoneKept, WorkersKept, CursorsKept DEF CoverInv
<1>2. Marks'
  BY <1>0, MarksKept
<1>3. Shapes' /\ Youngs' /\ Apart' /\ Nested'
  BY <1>0, <1>a, ShapesKept, YoungsKept, ApartKept, NestedKept
<1>4. Ended'
  BY <1>0, <1>a, EndedKept
<1>5. ASSUME NEW w \in Worker PROVE Stands(w)'
  <2>1. Planned(w)' /\ Role(w)'
    BY <1>0, <1>a, PlannedKept, RoleKept
  <2>2. Locked(w)' /\ Settled(w)'
    BY <1>0, <1>a, LockedKept, SettledKept
  <2>3. Runs(w)' /\ Current(w)' /\ HandsOver(w)'
    BY RunsKept, CurrentKept, HandsOverKept
  <2> QED BY <2>1, <2>2, <2>3 DEF Stands
<1>6. DirtyCovered'
  BY DirtyKept
<1> QED BY <1>1, <1>2, <1>3, <1>4, <1>5, <1>6 DEF ReplayInv

\* A minute of an execution that failed, lost its lease or died with the process
\* keeps a row whose next execution replays the cascade, until a replay of it has
\* completed, nobody has to check it, or a fresh inventory without the symbol ended
\* one of its rows: executeLeasedMinuteTask forces the replay
\* of a row attempted before, the remainder that minuteRetryPass registers is
\* forced too, and no row whose first execution could complete without a replay
\* has the identity of a remainder.  For every horizon, retention, day, window and
\* chunk, every set of the four workers and any number of failures and restarts.
THEOREM ReplaysNeverForgotten == Spec => []ReplayNotForgotten
<1>1. Init => ReplayInv
  BY ReplayInit
<1>2. ReplayInv /\ [Next]_vars => ReplayInv'
  BY ReplayStep
<1>3. ReplayInv => ReplayNotForgotten
  <2> SUFFICES ASSUME ReplayInv, NEW m \in dirty
               PROVE  Free(m) \/ \E i \in DOMAIN tasks : m \in Range(i) /\ Replays(i)
    BY DEF ReplayNotForgotten, Replays, Free
  <2>1. DirtyCovered
    BY InvParts
  <2> QED BY <2>1, SureReplays DEF DirtyCovered
<1> QED BY <1>1, <1>2, <1>3, PTL DEF Spec
============================================================================
