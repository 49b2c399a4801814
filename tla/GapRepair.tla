------------------------------ MODULE GapRepair ------------------------------
(***************************************************************************)
(* The gap-fill tool at work on one series of one exchange: an operator    *)
(* starts runs of the same frozen audit again and again; workers take      *)
(* tasks of the plan, ask the eligibility gate, read, fetch, insert and    *)
(* verify, and append a result per task to the journal.  The live service  *)
(* writes the same table, minutes pass and targets expire, the symbol's    *)
(* policy changes, steps fail, and the process may be killed anywhere.     *)
(*                                                                         *)
(* Abstracted: bars are their presence; the pacing of requests and the     *)
(* summary file, which is computed from the results.                       *)
(***************************************************************************)
EXTENDS GapPlan

CONSTANTS Worker,
          Audits,       \* audits whose plans an instance executes; the other ones
                        \* it only plans (-plan-only)
          Holes,        \* source units without official data
          MaxAttempts,  \* attempts of Repair on transient errors (3)
          Circuit,      \* consecutive transient failures that stop the run (8)
          MaxFaults,    \* bound on failures, interrupts and crashes
          MaxEvents,    \* bound on live rows, expired buckets and changed policies
          Reviews,      \* buckets a correction may take effect in (0: none)
          NoResult

ASSUME RepairAssumption ==
  /\ Audits \subseteq Audit /\ Holes \subseteq SUBSET Unit
  /\ MaxAttempts \in Nat \ {0} /\ Circuit \in Nat \ {0}
  /\ MaxFaults \in Nat /\ MaxEvents \in Nat /\ Reviews \subseteq Nat

VARIABLES
  audit, tasks,   \* the frozen report and its plan
  option,         \* "plan_only", "check" or "apply"
  official,       \* source units the exchange has
  rows,           \* bucket -> "none", "nonfinal", "final" or "tool" (final, inserted)
  expired,        \* buckets below this one are out of the retention
  policy,         \* what the symbol snapshots say now
  review,         \* the bucket the last correction takes effect in: history from
                  \* before it is to be reviewed by a person (every bucket lies
                  \* before it when the market has no verified route)
  journal,        \* last durable result of each task
  torn,           \* the journal ends in a partial line
  running, cancelled, queue, results, gate, failures,   \* a run
  pc, task, kept, res, need, bars, attempt, committed,  \* its workers
  faults, events

tableVars == <<audit, tasks, option, official, rows, expired, policy, review>>
runVars == <<running, cancelled, queue, results, gate, failures>>
workVars == <<pc, task, kept, res, need, bars, attempt, committed>>
vars == <<tableVars, journal, torn, runVars, workVars, faults, events>>

Final == {"final", "tool"}
Statuses == {"error", "already_present", "dry_run", "no_data", "partial", "repaired",
             "retention_expired", "skipped_policy_changed"}
Result == [status : Statuses, missing : SUBSET Bucket, unverified : BOOLEAN,
           inserted : Nat, present : Nat, expired : Nat, skipped : Nat]

ASSUME NoResultAssumption == NoResult \notin Result

TypeOK ==
  /\ audit \in Audit /\ option \in {"plan_only", "check", "apply"} /\ official \subseteq Unit
  /\ rows \in [Bucket -> {"none", "nonfinal", "final", "tool"}]
  /\ expired \in Nat /\ review \in Nat
  /\ policy \in {"allowed", "denied", "unavailable"}
  /\ journal \in [tasks -> Result \cup {NoResult}]
  /\ results \in [tasks -> Result \cup {NoResult}]
  /\ torn \in BOOLEAN /\ running \in BOOLEAN /\ cancelled \in BOOLEAN
  /\ queue \subseteq tasks /\ failures \in Nat
  /\ gate \in {"none", "allowed", "denied", "unavailable"}
  /\ pc \in [Worker -> {"idle", "gate", "read", "fetch", "insert", "verify", "record"}]
  /\ \A w \in Worker : kept[w] \subseteq Bucket /\ need[w] \subseteq Bucket /\ bars[w] \subseteq Bucket
  /\ attempt \in [Worker -> 0..MaxAttempts]
  /\ faults \in 0..MaxFaults /\ events \in 0..MaxEvents

NoTask == [kind |-> "none", targets |-> {}]
Fresh == [status |-> "error", missing |-> {}, unverified |-> TRUE, inserted |-> 0,
          present |-> 0, expired |-> 0, skipped |-> 0]

IdleWorkers ==
  /\ pc' = [w \in Worker |-> "idle"] /\ task' = [w \in Worker |-> NoTask]
  /\ kept' = [w \in Worker |-> {}] /\ res' = [w \in Worker |-> Fresh]
  /\ need' = [w \in Worker |-> {}] /\ bars' = [w \in Worker |-> {}]
  /\ attempt' = [w \in Worker |-> 0] /\ committed' = [w \in Worker |-> 0]

Init ==
  /\ \/ audit \in Audits /\ option \in {"check", "apply"}
     \/ audit \in {a \in Audit : \A b \in a.stored : b <= a.latest} /\ option = "plan_only"
  /\ tasks = Plan(audit)
  /\ \E hole \in IF option = "plan_only" THEN {{}} ELSE Holes :
       official = {u \in Unit : u >= audit.listed} \ hole
  /\ rows = [b \in Bucket |-> IF b \in audit.stored THEN "final" ELSE "none"]
  /\ expired = audit.kept /\ policy = "allowed"
  /\ review \in IF option = "plan_only" THEN {0} ELSE Reviews
  /\ journal = [t \in tasks |-> NoResult] /\ torn = FALSE
  /\ running = FALSE /\ cancelled = FALSE /\ queue = {} /\ gate = "none" /\ failures = 0
  /\ results = [t \in tasks |-> NoResult]
  /\ pc = [w \in Worker |-> "idle"] /\ task = [w \in Worker |-> NoTask]
  /\ kept = [w \in Worker |-> {}] /\ res = [w \in Worker |-> Fresh]
  /\ need = [w \in Worker |-> {}] /\ bars = [w \in Worker |-> {}]
  /\ attempt = [w \in Worker |-> 0] /\ committed = [w \in Worker |-> 0]
  /\ faults = 0 /\ events = 0

\* Every call fails once the run's context is cancelled.
CanFail == cancelled \/ faults < MaxFaults
Fault == faults' = IF cancelled THEN faults ELSE faults + 1
-----------------------------------------------------------------------------
(* A run: start, end, interruption, death *)

\* Mutant: a task with a result never runs again.
NeverRetried(t, retry) == journal[t] = NoResult

\* A task with a result runs again only to retry what is still missing.
Queued(t, retry) == journal[t] # NoResult => retry /\ journal[t].missing # {}

\* openJournal and the queue.  A plan made while the symbol may not be repaired
\* is empty, and a run without tasks changes nothing; a journal that ends in a
\* partial line is refused.
Start(retry) ==
  /\ option # "plan_only" /\ ~running /\ ~torn
  /\ running' = TRUE /\ cancelled' = FALSE /\ failures' = 0 /\ gate' = "none"
  /\ results' = journal
  /\ queue' = {t \in tasks : policy = "allowed" /\ Queued(t, retry)}
  /\ queue' # {}
  /\ UNCHANGED <<tableVars, journal, torn, workVars, faults, events>>

EndRun == /\ running /\ \A w \in Worker : pc[w] = "idle"
          /\ queue = {} \/ cancelled
          /\ running' = FALSE /\ queue' = {} /\ cancelled' = FALSE /\ gate' = "none"
          /\ failures' = 0
          /\ results' = [t \in tasks |-> NoResult]
          /\ UNCHANGED <<tableVars, journal, torn, workVars, faults, events>>

\* A signal, or the bound on the run's duration.
Interrupt == /\ running /\ ~cancelled /\ CanFail /\ Fault
             /\ cancelled' = TRUE
             /\ UNCHANGED <<tableVars, journal, torn, running, queue, results, gate, failures,
                            workVars, events>>

\* The process is killed, in the worst case while it appends to the journal.
Kill == /\ running /\ faults < MaxFaults /\ faults' = faults + 1
        /\ torn' \in {torn, torn \/ \E w \in Worker : pc[w] = "record"}
        /\ running' = FALSE /\ queue' = {} /\ cancelled' = FALSE /\ gate' = "none"
        /\ failures' = 0
        /\ results' = [t \in tasks |-> NoResult]
        /\ IdleWorkers
        /\ UNCHANGED <<tableVars, journal, events>>

-----------------------------------------------------------------------------
(* A worker *)

Goto(w, label) == pc' = [pc EXCEPT ![w] = label]
Set(w, r) == res' = [res EXCEPT ![w] = r]

\* The plan lists the kinds by name, and a kind's tasks in time.
KindOrder == <<"internal", "leading", "no_data", "tail">>
KindRank(k) == CHOOSE i \in DOMAIN KindOrder : KindOrder[i] = k

\* The next task of the queue, in the order of the plan.
First(t) == \A s \in queue : \/ KindRank(t.kind) < KindRank(s.kind)
                             \/ t.kind = s.kind /\ Min(t.targets) <= Min(s.targets)

\* retainedTask
Retained(t) == {b \in t.targets : b >= expired}

\* A correction that takes effect after the first key: the official bars and the
\* stored ones may be adjusted differently, and the task is left to a person.
NeedsReview(keys) == keys # {} /\ Min(keys) < review

\* checkRunSafety passes; the targets that have expired are dropped.
Take(w) ==
  /\ running /\ ~cancelled /\ pc[w] = "idle"
  /\ \E t \in queue :
       /\ First(t)
       /\ queue' = queue \ {t}
       /\ task' = [task EXCEPT ![w] = t]
       /\ kept' = [kept EXCEPT ![w] = Retained(t)]
       /\ IF Retained(t) = {}
          THEN Set(w, [Fresh EXCEPT !.status = "retention_expired", !.unverified = FALSE])
               /\ Goto(w, "record")
          ELSE Set(w, [Fresh EXCEPT !.missing = Retained(t)]) /\ Goto(w, "gate")
  /\ attempt' = [attempt EXCEPT ![w] = 0] /\ committed' = [committed EXCEPT ![w] = 0]
  /\ UNCHANGED <<tableVars, journal, torn, running, cancelled, results, gate, failures,
                 need, bars, faults, events>>

\* Low disk, the maintenance window or the live service not ready: the run
\* stops and the task taken from the queue is left without a result.
SafetyFails(w) ==
  /\ running /\ ~cancelled /\ pc[w] = "idle" /\ CanFail /\ Fault
  /\ \E t \in queue : First(t) /\ queue' = queue \ {t}
  /\ cancelled' = TRUE
  /\ UNCHANGED <<tableVars, journal, torn, running, results, gate, failures, workVars,
                 events>>

\* eligibilityGate.policy: the cached policy or, when a minute has passed, the
\* current one.  Missing metadata stops the run and keeps the keys; a task
\* without a route or to be reviewed ends as an error that keeps them.
Gate(w) ==
  /\ pc[w] = "gate"
  /\ gate' \in ({gate} \ {"none"}) \cup {policy}
  /\ CASE gate' = "allowed" -> /\ Goto(w, IF NeedsReview(kept[w]) THEN "record" ELSE "read")
                              /\ UNCHANGED <<res, cancelled>>
       [] gate' = "denied" -> /\ Set(w, [Fresh EXCEPT !.status = "skipped_policy_changed",
                                         !.skipped = Cardinality(kept[w]), !.unverified = FALSE])
                              /\ Goto(w, "record") /\ UNCHANGED cancelled
       [] gate' = "unavailable" -> /\ cancelled' = TRUE /\ Goto(w, "record") /\ UNCHANGED res
  /\ UNCHANGED <<tableVars, journal, torn, running, queue, results, failures,
                 task, kept, need, bars, attempt, committed, faults, events>>

\* The snapshot cannot be read (the run stops), or the factors cannot.
GateFails(w) ==
  /\ pc[w] = "gate" /\ CanFail /\ Fault
  /\ cancelled' \in {cancelled, TRUE}
  /\ \E transient \in BOOLEAN :
       attempt' = [attempt EXCEPT ![w] = IF transient THEN MaxAttempts ELSE 0]
  /\ Goto(w, "record")
  /\ UNCHANGED <<tableVars, journal, torn, running, queue, results, gate, failures,
                 res, task, kept, need, bars, committed, events>>

\* BarsInRange returns final rows only: a row the live service has not finished
\* is not seen.
Present(S) == {b \in S : rows[b] \in Final}

\* Repair: the keys of the task as the table holds them now.
ReadKeys(w) ==
  /\ pc[w] = "read"
  /\ LET missing == kept[w] \ Present(kept[w])
         r == [Fresh EXCEPT !.missing = missing, !.unverified = FALSE]
     IN  /\ need' = [need EXCEPT ![w] = missing]
         /\ IF missing = {} THEN Set(w, [r EXCEPT !.status = "already_present"]) /\ Goto(w, "record")
            ELSE Set(w, r) /\ Goto(w, "fetch")
  /\ UNCHANGED <<tableVars, journal, torn, runVars, task, kept, bars, attempt, committed,
                 faults, events>>

Complete(b, answer) == IF audit.native THEN Units(b) \cap answer # {} ELSE Units(b) \subseteq answer

\* FetchKlines answers the range, or less; a bucket whose official source is
\* not complete is left out.
Fetch(w) ==
  /\ pc[w] = "fetch"
  /\ \E answer \in {official} \cup (IF CanFail THEN {official \ Units(b) : b \in need[w]} ELSE {}) :
       LET available == {b \in need[w] : Complete(b, answer)}
       IN  /\ faults' = IF answer = official \/ cancelled THEN faults ELSE faults + 1
           /\ bars' = [bars EXCEPT ![w] = available]
           /\ IF option = "check"
              THEN Set(w, [res[w] EXCEPT !.status = IF available = {} THEN "no_data" ELSE "dry_run"])
                   /\ Goto(w, "record")
              ELSE Goto(w, IF available = {} THEN "verify" ELSE "insert") /\ UNCHANGED res
  /\ UNCHANGED <<tableVars, journal, torn, runVars, task, kept, need, attempt, committed,
                 events>>

\* Mutant: the rows are upserted.
InsertedUpsert(S) == S

\* The batch skips every key that exists by now.
Inserted(S) == {b \in S : rows[b] = "none"}

\* InsertMissingBars commits.
Insert(w) ==
  /\ pc[w] = "insert"
  /\ rows' = [b \in Bucket |-> IF b \in Inserted(bars[w]) THEN "tool" ELSE rows[b]]
  /\ committed' = [committed EXCEPT ![w] = @ + Cardinality(Inserted(bars[w]))]
  /\ Set(w, [res[w] EXCEPT !.unverified = TRUE])
  /\ Goto(w, "verify")
  /\ UNCHANGED <<audit, tasks, option, official, expired, policy, review, journal, torn,
                 runVars, task, kept, need, bars, attempt, faults, events>>

\* Mutant: what was available counts as stored.
VerifiedMissing(w) == kept[w] \ (Present(kept[w]) \cup bars[w])

\* The verification reads the keys again.
StillMissing(w) == kept[w] \ Present(kept[w])

Verify(w) ==
  /\ pc[w] = "verify"
  /\ LET missing == StillMissing(w)
     IN  Set(w, [res[w] EXCEPT !.unverified = FALSE, !.missing = missing,
                 !.status = IF missing = {} THEN "repaired"
                            ELSE IF bars[w] = {} /\ Present(kept[w]) = {} THEN "no_data" ELSE "partial"])
  /\ Goto(w, "record")
  /\ UNCHANGED <<tableVars, journal, torn, runVars, task, kept, need, bars, attempt, committed,
                 faults, events>>

\* An error in Repair: a transient one is tried again, unless the run stops.
\* A first read that fails knows nothing; a failed insert may have committed.
RepairFails(w) ==
  /\ pc[w] \in {"read", "fetch", "insert", "verify"} /\ CanFail /\ Fault
  /\ rows' \in {rows} \cup (IF pc[w] = "insert"
                            THEN {[b \in Bucket |-> IF b \in Inserted(bars[w]) THEN "tool" ELSE rows[b]]}
                            ELSE {})
  /\ Set(w, [res[w] EXCEPT !.status = "error",
             !.missing = IF pc[w] = "read" THEN {} ELSE @,
             !.unverified = pc[w] \in {"read", "insert"} \/ (pc[w] = "verify" /\ @)])
  /\ \E transient \in BOOLEAN :
       IF transient /\ ~cancelled /\ attempt[w] + 1 < MaxAttempts
       THEN Goto(w, "read") /\ attempt' = [attempt EXCEPT ![w] = @ + 1]
       ELSE Goto(w, "record") /\ attempt' = [attempt EXCEPT ![w] = IF transient THEN MaxAttempts ELSE 0]
  /\ UNCHANGED <<audit, tasks, option, official, expired, policy, review, journal, torn,
                 runVars, task, kept, need, bars, committed, events>>

\* A result that could not look keeps the missing keys an earlier one verified.
Merged(r, old, retained) ==
  IF old = NoResult THEN r
  ELSE [r EXCEPT !.missing = IF r.unverified /\ r.inserted = 0 /\ ~old.unverified
                             THEN old.missing \cap retained ELSE @,
                 !.inserted = @ + old.inserted]

\* The counts of a result: what is not expired, skipped, missing or inserted
\* was there already.  (A dry run reports the rows its read found; its count is
\* left at 0.)
Counted(r, requested) ==
  LET rest == requested - (r.expired + r.skipped + Cardinality(r.missing) + r.inserted)
  IN  IF option = "check" THEN r ELSE [r EXCEPT !.present = IF rest < 0 \/ r.unverified THEN 0 ELSE rest]

\* Mutant: an error without missing keys keeps none.
OutcomeNoKeys(w) == [res[w] EXCEPT !.inserted = committed[w],
                                   !.expired = Cardinality(task[w].targets \ kept[w])]

\* An error that knows of no missing key keeps all of the task's.
Outcome(w) ==
  [res[w] EXCEPT !.inserted = committed[w],
                 !.expired = Cardinality(task[w].targets \ kept[w]),
                 !.missing = IF res[w].status = "error" /\ @ = {} THEN kept[w] ELSE @]

RecordOf(w) == Counted(Merged(Outcome(w), results[task[w]], kept[w]), Cardinality(task[w].targets))

Transient(w) == res[w].status = "error" /\ attempt[w] = MaxAttempts

RunFailures(w) == IF Transient(w) THEN failures + 1 ELSE 0

\* One result under the mutex: memory, then the journal, synced.
Record(w) ==
  /\ pc[w] = "record"
  /\ results' = [results EXCEPT ![task[w]] = RecordOf(w)]
  /\ journal' = [journal EXCEPT ![task[w]] = RecordOf(w)]
  /\ failures' = RunFailures(w)
  /\ cancelled' = (cancelled \/ RunFailures(w) >= Circuit)
  /\ Goto(w, "idle")
  /\ task' = [task EXCEPT ![w] = NoTask] /\ kept' = [kept EXCEPT ![w] = {}]
  /\ res' = [res EXCEPT ![w] = Fresh] /\ need' = [need EXCEPT ![w] = {}]
  /\ bars' = [bars EXCEPT ![w] = {}] /\ attempt' = [attempt EXCEPT ![w] = 0]
  /\ committed' = [committed EXCEPT ![w] = 0]
  /\ UNCHANGED <<tableVars, torn, running, queue, gate, faults, events>>

\* The append or the sync fails, and the run stops: the journal has the result,
\* nothing of it, or a part of its line.
RecordFails(w) ==
  /\ pc[w] = "record" /\ CanFail /\ Fault
  /\ results' = [results EXCEPT ![task[w]] = RecordOf(w)]
  /\ \/ journal' = [journal EXCEPT ![task[w]] = RecordOf(w)] /\ UNCHANGED torn
     \/ UNCHANGED journal /\ torn' \in {torn, TRUE}
  /\ failures' = RunFailures(w)
  /\ cancelled' = TRUE
  /\ Goto(w, "idle")
  /\ task' = [task EXCEPT ![w] = NoTask] /\ kept' = [kept EXCEPT ![w] = {}]
  /\ res' = [res EXCEPT ![w] = Fresh] /\ need' = [need EXCEPT ![w] = {}]
  /\ bars' = [bars EXCEPT ![w] = {}] /\ attempt' = [attempt EXCEPT ![w] = 0]
  /\ committed' = [committed EXCEPT ![w] = 0]
  /\ UNCHANGED <<tableVars, running, queue, gate, events>>

-----------------------------------------------------------------------------
(* Environment *)

CanHappen == option # "plan_only" /\ events < MaxEvents /\ events' = events + 1

\* The live service stores a bar of its own; a non-final one becomes final.
LiveWrite(b) == /\ CanHappen
                /\ rows[b] \in {"none", "nonfinal"}
                /\ \E v \in {"nonfinal", "final"} \ {rows[b]} : rows' = [rows EXCEPT ![b] = v]
                /\ UNCHANGED <<audit, tasks, option, official, expired, policy, review, journal,
                               torn, runVars, workVars, faults>>

Expire == /\ CanHappen /\ expired' = expired + 1
          /\ UNCHANGED <<audit, tasks, option, official, rows, policy, review, journal, torn,
                         runVars, workVars, faults>>

PolicyChanges == /\ CanHappen
                 /\ \E p \in {"allowed", "denied", "unavailable"} \ {policy} : policy' = p
                 /\ UNCHANGED <<audit, tasks, option, official, rows, expired, review, journal,
                                torn, runVars, workVars, faults>>

\* A correction of the symbol is learnt, or its last one is dropped.
ReviewChanges == /\ CanHappen
                 /\ \E b \in Reviews \ {review} : review' = b
                 /\ UNCHANGED <<audit, tasks, option, official, rows, expired, policy, journal,
                                torn, runVars, workVars, faults>>

Step(w) == \/ Take(w) \/ Gate(w) \/ ReadKeys(w) \/ Fetch(w) \/ Insert(w) \/ Verify(w) \/ Record(w)

Rest == ~running /\ UNCHANGED vars

Next == \/ \E retry \in BOOLEAN : Start(retry)
        \/ EndRun \/ Interrupt \/ Kill
        \/ \E w \in Worker : \/ Step(w) \/ SafetyFails(w) \/ GateFails(w)
                             \/ RepairFails(w) \/ RecordFails(w)
        \/ \E b \in Bucket : LiveWrite(b)
        \/ Expire \/ PolicyChanges \/ ReviewChanges \/ Rest

Spec == Init /\ [][Next]_vars

\* The operator keeps starting runs with -retry-unresolved; a run's workers and
\* its end need no help.
FairSpec == /\ Spec
            /\ WF_vars(Start(TRUE)) /\ WF_vars(EndRun)
            /\ \A w \in Worker : WF_vars(Step(w))
-----------------------------------------------------------------------------
(* Properties *)

\* The plan of the audit is the one the reference definition asks for.
PlanExact == PlanIsExact(audit, tasks)

\* "never ... updates existing primary keys": a stored row is only ever changed
\* by the live service finishing its own, and the tool adds targets of the plan
\* only, and none in a dry run.
InsertOnly ==
  [][\A b \in Bucket : rows'[b] # rows[b] =>
       \/ events' # events
       \/ /\ rows[b] = "none" /\ rows'[b] = "tool" /\ option = "apply"
          /\ \E t \in tasks : b \in t.targets]_vars

\* A target that is still to be filled is never dropped: its task has no
\* durable result, or the last one names it for a retry, or says that the
\* symbol may not be repaired.
NothingForgotten ==
  \A t \in tasks : journal[t] # NoResult /\ journal[t].status # "skipped_policy_changed" =>
    \A b \in t.targets : b >= expired /\ rows[b] \notin Final => b \in journal[t].missing

\* A result never claims more insertions than the tool made, and a verified
\* one accounts for each target: present ones were there or inserted.
CountsHonest ==
  \A t \in tasks : journal[t] # NoResult =>
    LET r == journal[t]
        tool == {b \in t.targets : rows[b] = "tool"}
    IN  /\ r.inserted <= Cardinality(tool)
        /\ r.inserted + r.present <= Cardinality(Present(t.targets))

Wanted == {b \in UNION {t.targets : t \in tasks} :
             /\ b >= expired /\ Complete(b, official) /\ rows[b] # "nonfinal"
             /\ \A t \in tasks : b \in t.targets => ~NeedsReview(Retained(t))}
Skipped == {t \in tasks : journal[t] # NoResult /\ journal[t].status = "skipped_policy_changed"}

\* If the symbol may be repaired and the journal is intact, every retained
\* target with official data and no unfinished row is stored in the end, but
\* for "history requiring corporate-action interpretation", which "is left
\* unresolved rather than mixed with raw historical bars" with all of its task;
\* a task skipped for the symbol's policy is not taken up again.
EventuallyFilled ==
  <>[](\/ torn \/ option # "apply" \/ policy # "allowed" \/ Skipped # {}
       \/ \A b \in Wanted : rows[b] \in Final)
=============================================================================
