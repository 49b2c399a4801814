-------------------------- MODULE MinuteAuditLedger --------------------------
(***************************************************************************)
(* The durable ledger of minute audit tasks of one symbol: the rows of     *)
(* internal/storage/minute_audit_memory.go and                             *)
(* internal/storage/mysql/minute_audit.go, and what each operation of      *)
(* MinuteAuditTaskStore does to them.                                      *)
(*                                                                         *)
(* A row is keyed by its identity (kind, start, end), the unique key of    *)
(* the table.  Times are kept as the two facts the operations ask of them: *)
(* due (next_attempt_ms <= now) and live (lease_until_ms > now); both      *)
(* change under the rows' feet as time passes.  attempts is kept as "more  *)
(* than zero".                                                             *)
(***************************************************************************)
EXTENDS Integers, FiniteSets

CONSTANTS
  Horizon,   \* bound: last minute of the model
  Worker,    \* goroutines of the Guardian; a worker's name is its lease token
  NoToken    \* lease_token of a row that is not running

ASSUME HorizonAssumption == Horizon \in Nat \ {0}
ASSUME TokenAssumption == NoToken \notin Worker

Minutes == 1..Horizon
Kinds == {"window", "catchup", "daily"}
Identity == {i \in [kind: Kinds, start: Minutes, end: Minutes] : i.start <= i.end}
Range(i) == i.start..i.end
Groups == {"non_daily", "daily"}
Group(i) == IF i.kind = "daily" THEN "daily" ELSE "non_daily"

\* "pending", "retry" and "blocked" rows all wait for next_attempt_ms, and the
\* operations never tell them apart: one status, "waiting".
Outstanding == {"waiting", "running"}
Terminal == {"completed", "excluded", "expired"}
Row == [status: Outstanding \cup Terminal, due: BOOLEAN, live: BOOLEAN,
        token: Worker \cup {NoToken}, attempted: BOOLEAN, force: BOOLEAN]

\* NormalizeMinuteAuditTask: a registered task is pending and due at once.
NewRow(force) == [status |-> "waiting", due |-> TRUE, live |-> FALSE,
                  token |-> NoToken, attempted |-> FALSE, force |-> force]

VARIABLES
  tasks,   \* the rows: a function from the identities present
  cursor   \* ThroughMS of the "window" and the "daily" cursor; 0 when absent

ledgerVars == <<tasks, cursor>>

LedgerTypeOK ==
  /\ DOMAIN tasks \subseteq Identity
  /\ tasks \in [DOMAIN tasks -> Row]
  /\ cursor \in [Groups -> 0..Horizon]

LedgerInit ==
  /\ tasks = [i \in {} |-> NewRow(FALSE)]
  /\ cursor = [g \in Groups |-> 0]

Put(i, r) == [j \in DOMAIN tasks \cup {i} |-> IF j = i THEN r ELSE tasks[j]]
Without(D) == [j \in DOMAIN tasks \ D |-> tasks[j]]

\* EnqueueMinuteAuditTask: an existing row of the identity wins, as it is.
Enqueue(i, force) ==
  tasks' = IF i \in DOMAIN tasks THEN tasks ELSE Put(i, NewRow(force))
\* Mutant: an abandoned lease is never reclaimed.
DueNeverReclaims(i) ==
  /\ i \in DOMAIN tasks
  /\ tasks[i].status = "waiting" /\ tasks[i].due

\* minuteAuditTaskDue.
Due(i) ==
  /\ i \in DOMAIN tasks
  /\ \/ tasks[i].status = "waiting" /\ tasks[i].due
     \/ tasks[i].status = "running" /\ ~tasks[i].live

\* LeaseMinuteAuditTask of a due row.
Lease(i, w) ==
  /\ Due(i)
  /\ tasks' = Put(i, [tasks[i] EXCEPT !.status = "running", !.token = w,
                                      !.live = TRUE, !.attempted = TRUE])
\* Mutant: the token of the lease is not compared.
MayFinishAnyToken(i, w, ownTime) ==
  /\ i \in DOMAIN tasks
  /\ tasks[i].status = "running"
  /\ tasks[i].live \/ ownTime

\* The row a FinishMinuteAuditTask call by w may still change; otherwise the
\* call reports a lost lease, or nothing when the row is gone or terminal.
\* deferMinuteTask passes the time of its own lease, so the lease cannot have
\* run out for it.
MayFinish(i, w, ownTime) ==
  /\ i \in DOMAIN tasks
  /\ tasks[i].status = "running" /\ tasks[i].token = w
  /\ tasks[i].live \/ ownTime

\* Rows old enough (seven days) for the pruning that daily and terminal
\* outcomes do; their age is left open.
Prunable(i) == {j \in DOMAIN tasks \ {i} : tasks[j].status \in Terminal}

\* FinishMinuteAuditTask of a row the caller holds: a completed non-daily row is
\* deleted; the other outcomes are recorded and wait for their next attempt.
Finish(i, outcome, force) ==
  IF outcome = "completed" /\ i.kind # "daily"
    THEN tasks' = Without({i})
    ELSE LET done == [tasks[i] EXCEPT !.status = outcome, !.token = NoToken,
                        !.live = FALSE, !.due = FALSE, !.force = force]
         IN IF i.kind = "daily" \/ outcome \in Terminal
              THEN \E D \in SUBSET Prunable(i) :
                     tasks' = [j \in DOMAIN tasks \ D |-> IF j = i THEN done ELSE tasks[j]]
              ELSE tasks' = Put(i, done)

\* SaveMinuteAuditCursor keeps the larger watermark.
SaveCursor(g, through) ==
  cursor' = [cursor EXCEPT ![g] = IF through > @ THEN through ELSE @]

\* next_attempt_ms, or lease_until_ms, of a row is reached.
TimePasses(i) ==
  /\ i \in DOMAIN tasks
  /\ \/ /\ tasks[i].status = "waiting" /\ ~tasks[i].due
        /\ tasks' = Put(i, [tasks[i] EXCEPT !.due = TRUE])
     \/ /\ tasks[i].status = "running" /\ tasks[i].live
        /\ tasks' = Put(i, [tasks[i] EXCEPT !.live = FALSE])
  /\ UNCHANGED cursor
=============================================================================
