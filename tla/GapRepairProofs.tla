--------------------------- MODULE GapRepairProofs ---------------------------
(***************************************************************************)
(* The gap-fill tool only ever inserts targets of its plan, and its        *)
(* journal neither drops a target nor claims what was not done, for every  *)
(* audit, plan, number of workers, failure and write of the live service.  *)
(*                                                                         *)
(* The invariant behind the first, KInv, follows the keys from the plan to *)
(* the insert: tasks come from the queue, which comes from the plan; what  *)
(* a worker still needs and what it fetched are retained targets of its    *)
(* task; and only a run that applies the plan reaches an insert.  RInv     *)
(* adds the results: those of the journal, those a run of retries merges   *)
(* into, and the one each worker is preparing.                             *)
(***************************************************************************)
EXTENDS GapRepair, FiniteSetTheorems, TLAPS

Labels == {"idle", "gate", "read", "fetch", "insert", "verify", "record"}
Policies == {"allowed", "denied", "unavailable"}

Shape ==
  /\ DOMAIN rows = Bucket
  /\ pc \in [Worker -> Labels]
  /\ DOMAIN task = Worker /\ DOMAIN kept = Worker
  /\ DOMAIN need = Worker /\ DOMAIN bars = Worker
  /\ option \in {"plan_only", "check", "apply"}
  /\ policy \in Policies /\ gate \in {"none"} \cup Policies
  /\ events \in Nat
  /\ queue \subseteq tasks
  /\ running => option # "plan_only"

\* The keys worker w holds are targets of its task.
Holds(w) ==
  /\ pc[w] = "idle" => need[w] = {} /\ bars[w] = {}
  /\ pc[w] # "idle" => /\ option # "plan_only"
                       /\ task[w] \in tasks /\ kept[w] \subseteq task[w].targets
  /\ need[w] \subseteq kept[w] /\ bars[w] \subseteq kept[w]
  /\ pc[w] = "insert" => option = "apply"

KInv == Shape /\ \A w \in Worker : Holds(w)

\* The operator's and the environment's steps.
Outside == \/ \E retry \in BOOLEAN : Start(retry)
           \/ EndRun \/ Interrupt \/ Kill
           \/ \E b \in Bucket : LiveWrite(b)
           \/ Expire \/ PolicyChanges \/ ReviewChanges \/ Rest

\* The steps of a worker.
Works(w) == Step(w) \/ SafetyFails(w) \/ GateFails(w) \/ RepairFails(w) \/ RecordFails(w)

-----------------------------------------------------------------------------
\* Every plan, and every state of the table it was made from, starts like this.
LEMMA KeysInit ==
  ASSUME Init
  PROVE  KInv
<1>1. option \in {"plan_only", "check", "apply"}
  BY DEF Init
<1>2. Shape
  BY <1>1 DEF Init, Shape, Labels, Policies
<1>3. ASSUME NEW w \in Worker PROVE Holds(w)
  BY <1>3 DEF Init, Holds
<1> QED BY <1>2, <1>3 DEF KInv

\* A step that leaves the plan, the option and the workers alone, or sets all of
\* them idle, keeps the keys.
LEMMA KeysOutside ==
  ASSUME KInv, Outside
  PROVE  KInv'
<1> USE DEF KInv, Shape, Holds, tableVars, runVars, workVars, vars
<1>1. ASSUME NEW retry \in BOOLEAN, Start(retry) PROVE KInv'
  BY <1>1 DEF Start, Policies
<1>2. CASE EndRun
  BY <1>2 DEF EndRun
<1>3. CASE Interrupt
  BY <1>3 DEF Interrupt
<1>4. CASE Kill
  <2>1. /\ pc' = [w \in Worker |-> "idle"] /\ task' = [w \in Worker |-> NoTask]
        /\ kept' = [w \in Worker |-> {}]
        /\ need' = [w \in Worker |-> {}] /\ bars' = [w \in Worker |-> {}]
        /\ queue' = {} /\ running' = FALSE /\ gate' = "none"
        /\ UNCHANGED <<tableVars, events>>
    BY <1>4 DEF Kill, IdleWorkers
  <2> QED BY <2>1 DEF Labels
<1>5. ASSUME NEW b \in Bucket, LiveWrite(b) PROVE KInv'
  BY <1>5 DEF LiveWrite, CanHappen
<1>6. CASE Expire
  BY <1>6 DEF Expire, CanHappen
<1>7. CASE PolicyChanges
  BY <1>7 DEF PolicyChanges, CanHappen, Policies
<1>8. CASE ReviewChanges
  BY <1>8 DEF ReviewChanges, CanHappen
<1>9. CASE Rest
  BY <1>9 DEF Rest
<1> QED BY <1>1, <1>2, <1>3, <1>4, <1>5, <1>6, <1>7, <1>8, <1>9 DEF Outside

\* A worker's step keeps its keys inside its task, and the other workers' too.
LEMMA KeysWorker ==
  ASSUME KInv, NEW w \in Worker, Works(w)
  PROVE  KInv'
<1> USE DEF KInv, Shape, Holds, tableVars, runVars, workVars, Goto
<1>1. CASE Take(w)
  <2>1. PICK t \in queue : /\ queue' = queue \ {t}
                           /\ task' = [task EXCEPT ![w] = t]
                           /\ kept' = [kept EXCEPT ![w] = Retained(t)]
                           /\ pc' = [pc EXCEPT ![w] = IF Retained(t) = {} THEN "record" ELSE "gate"]
    BY <1>1 DEF Take
  <2>2. Retained(t) \subseteq t.targets
    BY DEF Retained
  <2>3. UNCHANGED <<tableVars, running, gate, need, bars, events>> /\ running /\ pc[w] = "idle"
    BY <1>1 DEF Take
  <2> QED BY <2>1, <2>2, <2>3 DEF Labels
<1>2. CASE SafetyFails(w)
  BY <1>2 DEF SafetyFails
<1>3. CASE Gate(w) \/ GateFails(w)
  <2>1. pc[w] = "gate" /\ UNCHANGED <<tableVars, running, queue, task, kept, need, bars, events>>
    BY <1>3 DEF Gate, GateFails
  <2>2. gate' \in {"none"} \cup Policies
    BY <1>3 DEF Gate, GateFails
  <2>3. \E label \in {"read", "record"} : pc' = [pc EXCEPT ![w] = label]
    <3>1. CASE GateFails(w)
      BY <3>1 DEF GateFails
    <3>2. CASE Gate(w)
      <4>1. gate' \in Policies
        BY <3>2 DEF Gate, Policies
      <4>2. gate' = "allowed" \/ gate' = "denied" \/ gate' = "unavailable"
        BY <4>1 DEF Policies
      <4> QED BY <3>2, <4>2 DEF Gate
    <3> QED BY <1>3, <3>1, <3>2
  <2> QED BY <2>1, <2>2, <2>3 DEF Labels
<1>4. CASE ReadKeys(w)
  <2>1. /\ pc[w] = "read"
        /\ need' = [need EXCEPT ![w] = kept[w] \ Present(kept[w])]
        /\ \E label \in {"record", "fetch"} : pc' = [pc EXCEPT ![w] = label]
        /\ UNCHANGED <<tableVars, running, queue, task, kept, bars, events, gate>>
    BY <1>4 DEF ReadKeys
  <2> QED BY <2>1 DEF Labels
<1>5. CASE Fetch(w)
  <2>1. /\ pc[w] = "fetch"
        /\ UNCHANGED <<tableVars, running, queue, task, kept, need, events, gate>>
    BY <1>5 DEF Fetch
  <2>2. PICK available \in SUBSET need[w] : bars' = [bars EXCEPT ![w] = available]
    BY <1>5 DEF Fetch
  <2>3. \E label \in {"record", "verify", "insert"} :
          pc' = [pc EXCEPT ![w] = label] /\ (label = "insert" => option # "check")
    BY <1>5 DEF Fetch
  <2> QED BY <2>1, <2>2, <2>3 DEF Labels
<1>6. CASE Insert(w)
  BY <1>6 DEF Insert, Labels
<1>7. CASE Verify(w)
  BY <1>7 DEF Verify, Labels
<1>8. CASE Record(w) \/ RecordFails(w)
  <2>1. /\ pc' = [pc EXCEPT ![w] = "idle"]
        /\ task' = [task EXCEPT ![w] = NoTask] /\ kept' = [kept EXCEPT ![w] = {}]
        /\ need' = [need EXCEPT ![w] = {}] /\ bars' = [bars EXCEPT ![w] = {}]
        /\ UNCHANGED <<tableVars, running, queue, events, gate>>
    BY <1>8 DEF Record, RecordFails
  <2> QED BY <2>1 DEF Labels
<1>9. CASE RepairFails(w)
  <2>1. /\ pc[w] # "idle"
        /\ \E label \in {"read", "record"} : pc' = [pc EXCEPT ![w] = label]
        /\ UNCHANGED <<tasks, option, policy, running, queue, task, kept, need, bars, events, gate>>
    BY <1>9 DEF RepairFails
  <2>2. DOMAIN rows' = Bucket
    BY <1>9 DEF RepairFails
  <2> QED BY <2>1, <2>2 DEF Labels
<1> QED BY <1>1, <1>2, <1>3, <1>4, <1>5, <1>6, <1>7, <1>8, <1>9 DEF Works, Step

\* Every step of the tool and of its environment keeps the invariant.
LEMMA KeysStep ==
  ASSUME KInv, [Next]_vars
  PROVE  KInv'
<1>1. CASE Outside
  BY <1>1, KeysOutside
<1>2. ASSUME NEW w \in Worker, Works(w) PROVE KInv'
  BY <1>2, KeysWorker
<1>3. CASE UNCHANGED vars
  BY <1>3 DEF vars, tableVars, runVars, workVars, KInv, Shape, Holds
<1> QED BY <1>1, <1>2, <1>3 DEF Next, Outside, Works

\* What one step may do to a stored row.
RowStep == \A b \in Bucket : rows'[b] # rows[b] =>
             \/ events' # events
             \/ /\ rows[b] = "none" /\ rows'[b] = "tool" /\ option = "apply"
                /\ \E t \in tasks : b \in t.targets

\* An insert stores keys that were free and that the plan asked for.
LEMMA InsertStep ==
  ASSUME KInv, NEW w \in Worker, pc[w] = "insert",
         rows' = [b \in Bucket |-> IF b \in Inserted(bars[w]) THEN "tool" ELSE rows[b]]
  PROVE  RowStep
<1> SUFFICES ASSUME NEW b \in Bucket, rows'[b] # rows[b]
             PROVE  /\ rows[b] = "none" /\ rows'[b] = "tool" /\ option = "apply"
                    /\ \E t \in tasks : b \in t.targets
  BY DEF RowStep
<1>1. b \in bars[w] /\ rows[b] = "none" /\ rows'[b] = "tool"
  BY DEF Inserted
<1>2. option = "apply" /\ task[w] \in tasks /\ bars[w] \subseteq task[w].targets
  BY DEF KInv, Holds
<1> QED BY <1>1, <1>2

\* InsertMissingBars never replaces a row: whatever fails, is killed, resumed or written
\* beside it, the tool stores only free keys of its plan, and none in a dry run.
THEOREM NeverUpdates == Spec => InsertOnly
<1>1. Init => KInv
  BY KeysInit
<1>2. KInv /\ [Next]_vars => KInv'
  BY KeysStep
<1>3. KInv /\ [Next]_vars => [RowStep]_vars
  <2> SUFFICES ASSUME KInv, Next
               PROVE  RowStep
    OBVIOUS
  <2>1. ASSUME NEW w \in Worker, Insert(w) PROVE RowStep
    BY <2>1, InsertStep DEF Insert
  <2>2. ASSUME NEW w \in Worker, RepairFails(w) PROVE RowStep
    <3>1. CASE UNCHANGED rows
      BY <3>1 DEF RowStep
    <3>2. CASE rows' # rows
      BY <2>2, <3>2, InsertStep DEF RepairFails
    <3> QED BY <3>1, <3>2
  <2>3. ASSUME NEW b \in Bucket, LiveWrite(b) PROVE RowStep
    BY <2>3 DEF LiveWrite, CanHappen, KInv, Shape, RowStep
  <2>4. ASSUME UNCHANGED rows PROVE RowStep
    BY <2>4 DEF RowStep
  <2>5. CASE Outside /\ ~\E b \in Bucket : LiveWrite(b)
    <3>1. UNCHANGED rows
      BY <2>5 DEF Outside, Start, EndRun, Interrupt, Kill, Expire, PolicyChanges,
                  ReviewChanges, Rest,
                  tableVars, vars
    <3> QED BY <2>4, <3>1
  <2>6. ASSUME NEW w \in Worker, Works(w), ~Insert(w), ~RepairFails(w) PROVE RowStep
    <3>1. UNCHANGED rows
      BY <2>6 DEF Works, Step, Take, SafetyFails, Gate, GateFails, ReadKeys, Fetch, Verify,
                  Record, RecordFails, tableVars
    <3> QED BY <2>4, <3>1
  <2> QED BY <2>1, <2>2, <2>3, <2>5, <2>6 DEF Next, Outside, Works
<1> QED BY <1>1, <1>2, <1>3, PTL DEF Spec, InsertOnly, RowStep

-----------------------------------------------------------------------------
(***************************************************************************)
(* Nothing is forgotten, and the counts are honest.                        *)
(*                                                                         *)
(* What is left to fill of a task only shrinks and what the tool stored    *)
(* only grows, so a result that was right when it was written stays right. *)
(* A worker carries what makes it right: it kept every target that was     *)
(* left to fill, what it names as missing contains them all, and the       *)
(* result it merges into is one that may be merged.                        *)
(***************************************************************************)
Skip == "skipped_policy_changed"
Todo(t) == {b \in t.targets : b >= expired /\ rows[b] \notin Final}
Tool(t) == {b \in t.targets : rows[b] = "tool"}

Sheets ==
  /\ \A t \in tasks : t.targets \in SUBSET Bucket
  /\ expired \in Nat
  /\ res \in [Worker -> Result] /\ committed \in [Worker -> Nat]
  /\ kept \in [Worker -> SUBSET Bucket]
  /\ journal \in [tasks -> Result \cup {NoResult}]
  /\ results \in [tasks -> Result \cup {NoResult}]

\* A result of t names what is left to fill, or that nothing may be filled.
Known(r, t) == IF r.status = Skip THEN r.missing = {} ELSE Todo(t) \subseteq r.missing

\* A result of t claims no more than the table shows.
Honest(r, t) == /\ r.inserted <= Cardinality(Tool(t))
                /\ r.inserted + r.present <= Cardinality(Present(t.targets))

\* What is in the journal is right.
Journals == \A t \in tasks : journal[t] # NoResult =>
              Known(journal[t], t) /\ Honest(journal[t], t)

\* The result a task had when its run began is one to merge into.
Mergeable(t) ==
  results[t] # NoResult => /\ results[t].status # Skip /\ Todo(t) \subseteq results[t].missing
Gained(t) == IF results[t] = NoResult THEN 0 ELSE results[t].inserted

Queues == \A t \in queue : Mergeable(t) /\ Gained(t) <= Cardinality(Tool(t))

\* The result worker w is preparing.
Prepares(w) ==
  /\ res[w].missing \subseteq kept[w]
  /\ res[w].inserted = 0 /\ res[w].present = 0 /\ res[w].expired = 0
  /\ IF res[w].status = Skip
       THEN /\ pc[w] = "record" /\ res[w].missing = {} /\ ~res[w].unverified
            /\ res[w].skipped = Cardinality(kept[w])
       ELSE /\ res[w].skipped = 0
            /\ \/ Todo(task[w]) \subseteq res[w].missing
               \/ /\ res[w].status = "error" /\ res[w].missing = {}
                  /\ pc[w] \in {"read", "record"}
            /\ \/ res[w].unverified /\ pc[w] \notin {"fetch", "insert"}
               \/ kept[w] \ res[w].missing \subseteq Present(kept[w])

\* A worker's task is its own, and what it carries makes its result right.
Carries(w) == pc[w] # "idle" =>
  /\ running
  /\ task[w] \notin queue
  /\ \A v \in Worker \ {w} : pc[v] # "idle" => task[v] # task[w]
  /\ Todo(task[w]) \subseteq kept[w]
  /\ Mergeable(task[w])
  /\ Gained(task[w]) + committed[w] <= Cardinality(Tool(task[w]))
  /\ Prepares(w)

RInv == KInv /\ Sheets /\ Journals /\ Queues /\ \A w \in Worker : Carries(w)

-----------------------------------------------------------------------------
\* Subsets of the buckets can be counted.
LEMMA Counting ==
  ASSUME NEW A \in SUBSET Bucket, NEW B \in SUBSET Bucket
  PROVE  /\ IsFiniteSet(A) /\ Cardinality(A) \in Nat
         /\ A \subseteq B => Cardinality(A) <= Cardinality(B)
         /\ A \subseteq B => Cardinality(B \ A) = Cardinality(B) - Cardinality(A)
         /\ A \cap B = {} => Cardinality(A \cup B) = Cardinality(A) + Cardinality(B)
<1>1. IsFiniteSet(A) /\ IsFiniteSet(B)
  BY PlanAssumption, FS_Subset
<1>2. Cardinality(A) \in Nat /\ Cardinality(B) \in Nat
  BY <1>1, FS_CardinalityType
<1>3. A \subseteq B => Cardinality(A) <= Cardinality(B)
  BY <1>1, FS_Subset
<1>4. A \subseteq B => Cardinality(B \ A) = Cardinality(B) - Cardinality(A)
  <2>1. A \subseteq B => B \cap A = A
    OBVIOUS
  <2> QED BY <1>1, <2>1, FS_Difference
<1>5. A \cap B = {} => Cardinality(A \cup B) = Cardinality(A) + Cardinality(B)
  BY <1>1, <1>2, FS_Union, FS_EmptySet
<1> QED BY <1>1, <1>2, <1>3, <1>4, <1>5

\* What a step does to the table and the retention: stored rows stay.
Grows ==
  /\ tasks' = tasks /\ expired' \in Nat /\ expired <= expired'
  /\ \A b \in Bucket : /\ rows[b] = "tool" => rows'[b] = "tool"
                       /\ rows[b] \in Final => rows'[b] \in Final

LEMMA TableGrows ==
  ASSUME KInv, expired \in Nat, [Next]_vars
  PROVE  Grows
<1> USE DEF tableVars, runVars, workVars, vars
<1>0. DOMAIN rows = Bucket
  BY DEF KInv, Shape
<1>1. ASSUME NEW w \in Worker, NEW S, UNCHANGED <<tasks, expired>>,
             rows' = [b \in Bucket |-> IF b \in Inserted(S) THEN "tool" ELSE rows[b]]
      PROVE  Grows
  BY <1>1 DEF Grows, Inserted, Final
<1>2. ASSUME UNCHANGED <<tasks, expired, rows>> PROVE Grows
  BY <1>2 DEF Grows
<1>3. CASE \E w \in Worker : Works(w)
  <2>1. PICK w \in Worker : Works(w)
    BY <1>3
  <2>2. CASE Insert(w)
    BY <1>1, <2>2 DEF Insert
  <2>3. CASE RepairFails(w)
    BY <1>1, <1>2, <2>3 DEF RepairFails
  <2>4. CASE ~Insert(w) /\ ~RepairFails(w)
    BY <1>2, <2>1, <2>4 DEF Works, Step, Take, SafetyFails, Gate, GateFails, ReadKeys, Fetch,
                            Verify, Record, RecordFails
  <2> QED BY <2>2, <2>3, <2>4
<1>4. CASE Outside
  <2>1. ASSUME NEW b \in Bucket, LiveWrite(b) PROVE Grows
    BY <1>0, <2>1 DEF LiveWrite, Grows, Final
  <2>2. CASE Expire
    BY <2>2 DEF Expire, Grows
  <2>3. CASE (\E retry \in BOOLEAN : Start(retry)) \/ EndRun \/ Interrupt \/ Kill
               \/ PolicyChanges \/ ReviewChanges \/ Rest
    BY <1>2, <2>3 DEF Start, EndRun, Interrupt, Kill, PolicyChanges, ReviewChanges, Rest
  <2> QED BY <1>4, <2>1, <2>2, <2>3 DEF Outside
<1>5. CASE UNCHANGED vars
  BY <1>2, <1>5
<1> QED BY <1>3, <1>4, <1>5 DEF Next, Outside, Works

\* What is left to fill shrinks; what is stored grows.
LEMMA Monotone ==
  ASSUME Sheets, Grows, NEW t \in tasks
  PROVE  /\ Todo(t)' \subseteq Todo(t)
         /\ Tool(t) \subseteq Tool(t)' /\ Tool(t)' \in SUBSET Bucket
         /\ Cardinality(Tool(t)) <= Cardinality(Tool(t)')
         /\ Cardinality(Present(t.targets)) <= Cardinality(Present(t.targets)')
         /\ Cardinality(Tool(t)) \in Nat /\ Cardinality(Tool(t)') \in Nat
         /\ Cardinality(Present(t.targets)) \in Nat /\ Cardinality(Present(t.targets)') \in Nat
<1>1. t.targets \in SUBSET Bucket
  BY DEF Sheets
<1>2. Todo(t)' \subseteq Todo(t)
  <2> SUFFICES ASSUME NEW b \in t.targets, b >= expired', rows'[b] \notin Final
               PROVE  b >= expired /\ rows[b] \notin Final
    BY DEF Todo
  <2>1. b \in Bucket /\ b \in Nat /\ expired \in Nat
    BY <1>1, PlanAssumption DEF Sheets
  <2>2. expired <= expired' /\ expired' \in Nat
    BY DEF Grows
  <2>3. b >= expired
    BY <2>1, <2>2
  <2> QED BY <2>1, <2>3 DEF Grows
<1>3. Tool(t) \subseteq Tool(t)' /\ Tool(t) \in SUBSET Bucket /\ Tool(t)' \in SUBSET Bucket
  BY <1>1 DEF Grows, Tool
<1>4. /\ Present(t.targets) \subseteq Present(t.targets)'
      /\ Present(t.targets) \in SUBSET Bucket /\ Present(t.targets)' \in SUBSET Bucket
  BY <1>1 DEF Grows, Present
<1> QED BY <1>2, <1>3, <1>4, Counting

\* A right result stays right.
LEMMA RightKept ==
  ASSUME Sheets, Grows, NEW t \in tasks, NEW r \in Result
  PROVE  /\ Known(r, t) => Known(r, t)'
         /\ Honest(r, t) => Honest(r, t)'
         /\ \A n \in Nat : n <= Cardinality(Tool(t)) => n <= Cardinality(Tool(t)')
<1>1. r.inserted \in Nat /\ r.present \in Nat
  BY DEF Result
<1>2. Known(r, t) => Known(r, t)'
  BY Monotone DEF Known
<1>3. Honest(r, t) => Honest(r, t)'
  BY <1>1, Monotone DEF Honest
<1> QED BY <1>2, <1>3, Monotone

LEMMA ResultsInit ==
  ASSUME Init
  PROVE  RInv
<1>1. KInv
  BY KeysInit
<1>2. \A t \in tasks : t.targets \in SUBSET Bucket
  <2>1. ASSUME NEW k \in Kinds, NEW S \in Pieces(audit, k) PROVE S \subseteq Bucket
    <3>1. Targets(audit, k) \subseteq Candidates(audit, k)
      BY DEF Targets
    <3>2. k \in {"internal", "leading", "tail", "no_data"}
      BY DEF Kinds
    <3>3. Candidates(audit, k) \subseteq Bucket
      BY <3>2 DEF Candidates
    <3> QED BY <2>1, <3>1, <3>3 DEF Pieces
  <2> QED BY <2>1 DEF Init, Plan
<1>3. expired \in Nat
  <2>1. audit \in Audit
    BY RepairAssumption DEF Init
  <2>2. audit.kept \in Bucket
    BY <2>1 DEF Audit
  <2> QED BY <2>2, PlanAssumption DEF Init
<1>4. Fresh \in Result
  BY DEF Fresh, Result, Statuses
<1>5. Sheets
  BY <1>2, <1>3, <1>4 DEF Init, Sheets
<1> QED BY <1>1, <1>5 DEF Init, RInv, Journals, Queues, Carries

-----------------------------------------------------------------------------
(***************************************************************************)
(* The steps of the operator and of the environment.                       *)
(***************************************************************************)
\* Nothing but the table has changed for worker v, its task and what it merges into.
LEMMA CarriesOther ==
  ASSUME RInv, Grows, NEW v \in Worker,
         pc'[v] = pc[v], task'[v] = task[v], kept'[v] = kept[v], res'[v] = res[v],
         committed'[v] = committed[v],
         pc[v] # "idle" => /\ running' /\ results'[task[v]] = results[task[v]]
                           /\ task[v] \notin queue'
                           /\ \A u \in Worker \ {v} : pc'[u] # "idle" => task'[u] # task[v]
  PROVE  Carries(v)'
<1> SUFFICES ASSUME pc[v] # "idle" PROVE Carries(v)'
  BY DEF Carries
<1>1. PICK t \in tasks : t = task[v]
  BY DEF RInv, KInv, Holds
<1>2. Carries(v) /\ kept[v] \in SUBSET Bucket /\ res[v] \in Result /\ committed[v] \in Nat
      /\ results[t] \in Result \cup {NoResult}
  BY DEF RInv, Sheets
<1>3. Todo(t)' \subseteq Todo(t) /\ Present(kept[v]) \subseteq Present(kept[v])'
  <2>1. Present(kept[v])' = {b \in kept[v] : rows'[b] \in Final}
    BY DEF Present
  <2>2. {b \in kept[v] : rows[b] \in Final} \subseteq {b \in kept[v] : rows'[b] \in Final}
    BY <1>2 DEF Grows
  <2> QED BY <2>1, <2>2, Monotone DEF RInv, Present
<1>4. Todo(task[v])' = Todo(t)' /\ Tool(task[v])' = Tool(t)'
  BY <1>1 DEF Todo, Tool
<1>5. Mergeable(task[v])'
  <2>1. Mergeable(t)
    BY <1>1, <1>2 DEF Carries
  <2> QED BY <1>1, <1>3, <2>1 DEF Mergeable, Todo
<1>6. (Gained(task[v]) + committed[v] <= Cardinality(Tool(task[v])))'
  <2>1. Gained(t) + committed[v] <= Cardinality(Tool(t))
    BY <1>1, <1>2 DEF Carries
  <2>2. Gained(task[v])' = Gained(t) /\ Gained(t) \in Nat
    BY <1>1, <1>2 DEF Gained, Result
  <2> QED BY <1>2, <1>4, <2>1, <2>2, Monotone DEF RInv
<1>7. Prepares(v)'
  <2>1. Prepares(v)
    BY <1>2 DEF Carries
  <2> QED BY <1>1, <1>3, <1>4, <2>1 DEF Prepares
<1>8. Todo(task[v])' \subseteq kept'[v]
  BY <1>1, <1>2, <1>3, <1>4 DEF Carries
<1> QED BY <1>5, <1>6, <1>7, <1>8 DEF Carries

\* The journal and the queue, when neither gains anything.
LEMMA LedgersKept ==
  ASSUME RInv, Grows
  PROVE  /\ UNCHANGED journal => Journals'
         /\ (UNCHANGED results /\ queue' \subseteq queue) => Queues'
<1>1. \A t \in tasks : journal[t] \in Result \cup {NoResult} /\ results[t] \in Result \cup {NoResult}
  BY DEF RInv, Sheets
<1>2. ASSUME UNCHANGED journal PROVE Journals'
  <2> SUFFICES ASSUME NEW t \in tasks, journal[t] # NoResult
               PROVE  Known(journal[t], t)' /\ Honest(journal[t], t)'
    BY <1>2 DEF Journals, Grows
  <2>1. PICK r \in Result : r = journal[t]
    BY <1>1
  <2>2. Known(r, t) /\ Honest(r, t)
    BY <2>1 DEF RInv, Journals
  <2>3. Known(r, t)' /\ Honest(r, t)'
    BY <2>2, RightKept DEF RInv
  <2> QED BY <1>2, <2>1, <2>3 DEF Known, Honest
<1>3. ASSUME UNCHANGED results, queue' \subseteq queue PROVE Queues'
  <2> SUFFICES ASSUME NEW t \in queue'
               PROVE  Mergeable(t)' /\ Gained(t)' <= Cardinality(Tool(t)')
    BY DEF Queues
  <2>0. t \in tasks /\ t \in queue
    BY <1>3 DEF RInv, KInv, Shape
  <2>1. Mergeable(t) /\ Gained(t) <= Cardinality(Tool(t))
    BY <2>0 DEF RInv, Queues
  <2>2. Gained(t) \in Nat /\ Gained(t)' = Gained(t)
    BY <1>1, <1>3, <2>0 DEF Gained, Result
  <2>3. Gained(t)' <= Cardinality(Tool(t)')
    BY <2>0, <2>1, <2>2, Monotone DEF RInv
  <2>4. Mergeable(t)'
    BY <1>3, <2>0, <2>1, Monotone DEF Mergeable, RInv
  <2> QED BY <2>3, <2>4
<1> QED BY <1>2, <1>3

\* A step that leaves the tool alone, whatever it does to the table.
LEMMA ResultsIdle ==
  ASSUME RInv, KInv', Grows, UNCHANGED <<workVars, journal, running, queue, results>>
  PROVE  RInv'
<1> USE DEF workVars
<1>1. Sheets'
  BY DEF RInv, Sheets, Grows
<1>2. Journals' /\ Queues'
  BY LedgersKept
<1>3. ASSUME NEW v \in Worker PROVE Carries(v)'
  <2>1. Carries(v)
    BY DEF RInv
  <2> QED BY <2>1, CarriesOther DEF Carries
<1> QED BY <1>1, <1>2, <1>3 DEF RInv

LEMMA ResultsOutside ==
  ASSUME RInv, Outside
  PROVE  RInv'
<1> USE DEF tableVars, runVars, workVars, vars
<1>0. KInv' /\ Grows
  BY KeysOutside, TableGrows DEF RInv, Sheets, Next, Outside
<1>1. ASSUME NEW retry \in BOOLEAN, Start(retry) PROVE RInv'
  <2>1. \A w \in Worker : pc[w] = "idle"
    BY <1>1 DEF Start, RInv, Carries
  <2>2. Sheets'
    BY <1>1 DEF Start, RInv, Sheets
  <2>3. Journals'
    BY <1>0, <1>1, LedgersKept DEF Start
  <2>4. Queues'
    <3> SUFFICES ASSUME NEW t \in queue'
                 PROVE  Mergeable(t)' /\ Gained(t)' <= Cardinality(Tool(t)')
      BY DEF Queues
    <3>1. t \in tasks /\ Queued(t, retry) /\ UNCHANGED <<rows, expired, tasks>> /\ results' = journal
      BY <1>1 DEF Start
    <3>2. journal[t] # NoResult => Known(journal[t], t) /\ Honest(journal[t], t)
      BY <3>1 DEF RInv, Journals
    <3>3. Mergeable(t)'
      BY <3>1, <3>2 DEF Mergeable, Known, Queued, Todo
    <3>4. Gained(t)' <= Cardinality(Tool(t)')
      <4>1. Tool(t)' = Tool(t) /\ Cardinality(Tool(t)) \in Nat
        BY <1>0, <3>1, Monotone DEF Tool, RInv
      <4> QED BY <3>1, <3>2, <4>1 DEF Gained, Honest
    <3> QED BY <3>3, <3>4
  <2>5. \A w \in Worker : Carries(w)'
    BY <1>1, <2>1 DEF Start, Carries
  <2> QED BY <1>0, <2>2, <2>3, <2>4, <2>5 DEF RInv
<1>2. ASSUME \A w \in Worker : pc'[w] = "idle", queue' = {}, UNCHANGED <<tasks, expired, journal>>,
             results' = [t \in tasks |-> NoResult], UNCHANGED workVars \/ IdleWorkers
      PROVE  RInv'
  <2>1. Fresh \in Result
    BY DEF Fresh, Result, Statuses
  <2>2. Sheets'
    <3>1. CASE UNCHANGED workVars
      BY <1>2, <3>1 DEF RInv, Sheets
    <3>2. CASE IdleWorkers
      BY <1>2, <2>1, <3>2 DEF RInv, Sheets, IdleWorkers
    <3> QED BY <1>2, <3>1, <3>2
  <2>3. Journals'
    BY <1>0, <1>2, LedgersKept
  <2> QED BY <1>0, <1>2, <2>2, <2>3 DEF RInv, Queues, Carries
<1>3. CASE EndRun
  BY <1>2, <1>3 DEF EndRun
<1>4. CASE Kill
  BY <1>2, <1>4 DEF Kill, IdleWorkers
<1>5. ASSUME UNCHANGED <<workVars, journal, running, queue, results>>
      PROVE  RInv'
  BY <1>0, <1>5, ResultsIdle
<1>6. ASSUME NEW b \in Bucket, LiveWrite(b) PROVE RInv'
  BY <1>5, <1>6 DEF LiveWrite
<1>7. CASE Interrupt \/ Expire \/ PolicyChanges \/ ReviewChanges \/ Rest
  BY <1>5, <1>7 DEF Interrupt, Expire, PolicyChanges, ReviewChanges, Rest
<1> QED BY <1>1, <1>3, <1>4, <1>6, <1>7 DEF Outside

-----------------------------------------------------------------------------
(***************************************************************************)
(* The steps of a worker.                                                  *)
(***************************************************************************)
\* A step of w that keeps its task: the invariant is left to what w prepares.
LEMMA WorkerKeepsTask ==
  ASSUME RInv, KInv', Grows, NEW w \in Worker, pc[w] # "idle", pc'[w] # "idle",
         UNCHANGED <<task, kept, journal, running, queue, results>>,
         DOMAIN pc' = Worker,
         \A v \in Worker \ {w} : /\ pc'[v] = pc[v] /\ res'[v] = res[v]
                                 /\ committed'[v] = committed[v],
         res' \in [Worker -> Result], committed' \in [Worker -> Nat],
         Gained(task[w]) + committed'[w] <= Cardinality(Tool(task[w])'),
         Prepares(w)'
  PROVE  RInv'
<1>1. Sheets'
  BY DEF RInv, Sheets, Grows
<1>2. Journals' /\ Queues'
  BY LedgersKept
<1>3. \A v \in Worker : Carries(v)
  BY DEF RInv
<1>4. ASSUME NEW v \in Worker \ {w} PROVE Carries(v)'
  <2>1. \A u \in Worker : pc'[u] # "idle" <=> pc[u] # "idle"
    OBVIOUS
  <2> QED BY <1>3, <1>4, <2>1, CarriesOther DEF Carries
<1>5. Carries(w)'
  <2>1. PICK t \in tasks : t = task[w]
    BY DEF RInv, KInv, Holds
  <2>2. Todo(task[w])' \subseteq kept'[w]
    <3>1. Todo(t) \subseteq kept[w] /\ Todo(t)' \subseteq Todo(t)
      BY <1>3, <2>1, Monotone DEF Carries, RInv
    <3> QED BY <2>1, <3>1 DEF Todo
  <2>3. Mergeable(task[w])'
    <3>1. Mergeable(t) /\ Todo(t)' \subseteq Todo(t)
      BY <1>3, <2>1, Monotone DEF Carries, RInv
    <3> QED BY <2>1, <3>1 DEF Mergeable, Todo
  <2>4. (Gained(task[w]) + committed[w] <= Cardinality(Tool(task[w])))'
    BY DEF Gained, Tool
  <2>5. \A v \in Worker \ {w} : pc'[v] # "idle" => task'[v] # task'[w]
    BY <1>3 DEF Carries
  <2>6. running' /\ task'[w] \notin queue'
    BY <1>3 DEF Carries
  <2> QED BY <2>2, <2>3, <2>4, <2>5, <2>6 DEF Carries
<1> QED BY <1>1, <1>2, <1>4, <1>5 DEF RInv

\* A step of w that only changes what w prepares.
LEMMA WorkerOnlyPrepares ==
  ASSUME RInv, KInv', NEW w \in Worker, pc[w] # "idle",
         UNCHANGED <<task, kept, journal, running, queue, results, committed, tasks, rows, expired>>,
         NEW label \in Labels \ {"idle"}, pc' = [pc EXCEPT ![w] = label],
         NEW r \in Result, res' = [res EXCEPT ![w] = r],
         Prepares(w)'
  PROVE  RInv'
<1>1. Grows
  BY DEF Grows, RInv, Sheets
<1>2. DOMAIN pc = Worker /\ res \in [Worker -> Result] /\ committed \in [Worker -> Nat]
  BY DEF RInv, KInv, Shape, Sheets
<1>3. Gained(task[w]) + committed'[w] <= Cardinality(Tool(task[w])')
  BY DEF RInv, Carries, Tool
<1> QED BY <1>1, <1>2, <1>3, WorkerKeepsTask

LEMMA ResultsGate ==
  ASSUME RInv, KInv', NEW w \in Worker, Gate(w) \/ GateFails(w)
  PROVE  RInv'
<1> USE DEF tableVars, runVars, workVars
<1>0. /\ pc[w] = "gate" /\ UNCHANGED <<task, kept, journal, running, queue, results, committed,
                                       tasks, rows, expired>>
      /\ kept[w] \in SUBSET Bucket /\ res[w] \in Result /\ DOMAIN pc = Worker
      /\ res \in [Worker -> Result]
  BY DEF Gate, GateFails, RInv, Sheets, KInv, Shape
<1>1. Prepares(w)
  BY <1>0 DEF RInv, Carries
<1>2. CASE UNCHANGED res /\ \E label \in {"read", "record"} : pc' = [pc EXCEPT ![w] = label]
  <2>1. PICK label \in {"read", "record"} : pc' = [pc EXCEPT ![w] = label]
    BY <1>2
  <2>2. res' = [res EXCEPT ![w] = res[w]] /\ label \in Labels \ {"idle"}
    BY <1>0, <1>2 DEF Labels
  <2>3. Prepares(w)'
    BY <1>0, <1>1, <1>2, <2>1 DEF Prepares, Todo, Present
  <2> QED BY <1>0, <2>1, <2>2, <2>3, WorkerOnlyPrepares
<1>3. CASE /\ Set(w, [Fresh EXCEPT !.status = "skipped_policy_changed",
                                   !.skipped = Cardinality(kept[w]), !.unverified = FALSE])
           /\ pc' = [pc EXCEPT ![w] = "record"]
  <2> DEFINE r == [Fresh EXCEPT !.status = "skipped_policy_changed",
                                !.skipped = Cardinality(kept[w]), !.unverified = FALSE]
  <2>1. Cardinality(kept[w]) \in Nat
    BY <1>0, Counting
  <2>2. r \in Result
    BY <2>1 DEF Fresh, Result, Statuses
  <2>3. /\ r.status = Skip /\ r.missing = {} /\ r.unverified = FALSE /\ r.skipped = Cardinality(kept[w])
        /\ r.inserted = 0 /\ r.present = 0 /\ r.expired = 0
    BY DEF Fresh, Skip
  <2>4. res' = [res EXCEPT ![w] = r]
    BY <1>3 DEF Set
  <2> HIDE DEF r
  <2>5. res'[w] = r /\ pc'[w] = "record" /\ kept'[w] = kept[w]
    BY <1>0, <1>3, <2>4
  <2>6. Prepares(w)'
    BY <2>3, <2>5 DEF Prepares
  <2> QED BY <1>0, <1>3, <2>2, <2>4, <2>6, WorkerOnlyPrepares DEF Labels
<1>4. CASE GateFails(w)
  BY <1>2, <1>4 DEF GateFails, Goto
<1>5. CASE Gate(w)
  <2>1. gate' \in Policies
    BY <1>5 DEF Gate, RInv, KInv, Shape, Policies
  <2>2. CASE gate' = "allowed"
    BY <1>2, <1>5, <2>2 DEF Gate, Goto
  <2>3. CASE gate' = "denied"
    BY <1>3, <1>5, <2>3 DEF Gate, Goto
  <2>4. CASE gate' = "unavailable"
    BY <1>2, <1>5, <2>4 DEF Gate, Goto
  <2> QED BY <2>1, <2>2, <2>3, <2>4 DEF Policies
<1> QED BY <1>4, <1>5

LEMMA ResultsRead ==
  ASSUME RInv, KInv', NEW w \in Worker, ReadKeys(w)
  PROVE  RInv'
<1> USE DEF tableVars, runVars, workVars
<1>0. /\ pc[w] = "read" /\ UNCHANGED <<task, kept, journal, running, queue, results, committed,
                                       tasks, rows, expired>>
      /\ kept[w] \in SUBSET Bucket /\ DOMAIN pc = Worker /\ DOMAIN res = Worker
  BY DEF ReadKeys, RInv, Sheets, KInv, Shape
<1> DEFINE missing == kept[w] \ Present(kept[w])
           r == [Fresh EXCEPT !.missing = missing, !.unverified = FALSE]
<1>1. r \in Result /\ [r EXCEPT !.status = "already_present"] \in Result
  BY <1>0 DEF Fresh, Result, Statuses, Present
<1>2. PICK q \in {r, [r EXCEPT !.status = "already_present"]},
           label \in {"record", "fetch"} :
        res' = [res EXCEPT ![w] = q] /\ pc' = [pc EXCEPT ![w] = label]
  BY DEF ReadKeys, Set, Goto
<1>3. /\ q.status # Skip /\ q.missing = missing /\ q.unverified = FALSE /\ q.skipped = 0
      /\ q.inserted = 0 /\ q.present = 0 /\ q.expired = 0
  BY DEF Fresh, Skip
<1>4. q \in Result
  BY <1>1, <1>2
<1>5. Todo(task[w]) \subseteq missing /\ kept[w] \ missing \subseteq Present(kept[w])
      /\ missing \subseteq kept[w]
  <2>1. Todo(task[w]) \subseteq kept[w]
    BY <1>0 DEF RInv, Carries
  <2> QED BY <2>1 DEF Todo, Present
<1>6. res'[w] = q
  BY <1>0, <1>2
<1> HIDE DEF missing, r
<1>7. Prepares(w)'
  BY <1>0, <1>3, <1>5, <1>6 DEF Prepares, Todo, Present
<1> QED BY <1>0, <1>2, <1>4, <1>7, WorkerOnlyPrepares DEF Labels

LEMMA ResultsFetch ==
  ASSUME RInv, KInv', NEW w \in Worker, Fetch(w)
  PROVE  RInv'
<1> USE DEF tableVars, runVars, workVars
<1>0. /\ pc[w] = "fetch" /\ UNCHANGED <<task, kept, journal, running, queue, results, committed,
                                       tasks, rows, expired>>
      /\ kept[w] \in SUBSET Bucket /\ res[w] \in Result /\ DOMAIN pc = Worker
      /\ res \in [Worker -> Result]
  BY DEF Fetch, RInv, Sheets, KInv, Shape
<1>1. Prepares(w) /\ res[w].status # Skip
  BY <1>0 DEF RInv, Carries, Prepares
<1>2. PICK q \in {res[w], [res[w] EXCEPT !.status = "no_data"], [res[w] EXCEPT !.status = "dry_run"]},
           label \in {"record", "verify", "insert"} :
        res' = [res EXCEPT ![w] = q] /\ pc' = [pc EXCEPT ![w] = label]
  <2>1. res = [res EXCEPT ![w] = res[w]]
    BY <1>0
  <2> QED BY <2>1 DEF Fetch, Set, Goto
<1>3. /\ q.missing = res[w].missing /\ q.unverified = res[w].unverified
      /\ q.skipped = res[w].skipped /\ q.status # Skip
      /\ q.inserted = res[w].inserted /\ q.present = res[w].present /\ q.expired = res[w].expired
  BY <1>0, <1>1, <1>2 DEF Result, Skip
<1>4. q \in Result
  BY <1>0, <1>2 DEF Result, Statuses
<1>5. Todo(task[w]) \subseteq res[w].missing
  BY <1>0, <1>1 DEF Prepares
<1>6. res'[w] = q
  BY <1>0, <1>2
<1>7. Prepares(w)'
  BY <1>0, <1>1, <1>3, <1>5, <1>6 DEF Prepares, Todo, Present
<1> QED BY <1>0, <1>2, <1>4, <1>7, WorkerOnlyPrepares DEF Labels

LEMMA ResultsVerify ==
  ASSUME RInv, KInv', NEW w \in Worker, Verify(w)
  PROVE  RInv'
<1> USE DEF tableVars, runVars, workVars
<1>0. /\ pc[w] = "verify" /\ UNCHANGED <<task, kept, journal, running, queue, results, committed,
                                        tasks, rows, expired>>
      /\ kept[w] \in SUBSET Bucket /\ res[w] \in Result /\ DOMAIN pc = Worker
      /\ res \in [Worker -> Result]
  BY DEF Verify, RInv, Sheets, KInv, Shape
<1>1. Prepares(w) /\ res[w].status # Skip
  BY <1>0 DEF RInv, Carries, Prepares
<1> DEFINE missing == StillMissing(w)
           status == IF missing = {} THEN "repaired"
                     ELSE IF bars[w] = {} /\ Present(kept[w]) = {} THEN "no_data" ELSE "partial"
           q == [res[w] EXCEPT !.unverified = FALSE, !.missing = missing, !.status = status]
<1>2. res' = [res EXCEPT ![w] = q] /\ pc' = [pc EXCEPT ![w] = "record"]
  BY DEF Verify, Set, Goto
<1>3. status \in Statuses /\ status # Skip /\ missing \in SUBSET Bucket
  BY <1>0 DEF Statuses, Skip, StillMissing
<1>4. Todo(task[w]) \subseteq missing /\ kept[w] \ missing \subseteq Present(kept[w])
      /\ missing \subseteq kept[w]
  <2>1. Todo(task[w]) \subseteq kept[w]
    BY <1>0 DEF RInv, Carries
  <2> QED BY <2>1 DEF Todo, Present, StillMissing
<1> HIDE DEF missing, status
<1>5. /\ q.missing = missing /\ q.unverified = FALSE /\ q.skipped = res[w].skipped
      /\ q.status = status
      /\ q.inserted = res[w].inserted /\ q.present = res[w].present /\ q.expired = res[w].expired
  BY <1>0 DEF Result
<1>6. q \in Result
  BY <1>0, <1>3 DEF Result
<1> HIDE DEF q
<1>7. res'[w] = q
  BY <1>0, <1>2
<1>8. Prepares(w)'
  BY <1>0, <1>1, <1>3, <1>4, <1>5, <1>7 DEF Prepares, Todo, Present
<1> QED BY <1>0, <1>2, <1>6, <1>8, WorkerOnlyPrepares DEF Labels

\* The rows an insert commits are new ones of the tool.
LEMMA InsertCounts ==
  ASSUME RInv, NEW w \in Worker, pc[w] # "idle", tasks' = tasks, NEW t \in tasks, t = task[w],
         rows' = [b \in Bucket |-> IF b \in Inserted(bars[w]) THEN "tool" ELSE rows[b]]
  PROVE  /\ Cardinality(Inserted(bars[w])) \in Nat
         /\ Cardinality(Tool(t)) + Cardinality(Inserted(bars[w])) <= Cardinality(Tool(t)')
<1>1. t.targets \in SUBSET Bucket /\ bars[w] \subseteq t.targets
  BY DEF RInv, Sheets, KInv, Holds
<1>2. /\ Tool(t) \in SUBSET Bucket /\ Inserted(bars[w]) \in SUBSET Bucket
      /\ Tool(t) \cap Inserted(bars[w]) = {}
  BY <1>1 DEF Tool, Inserted
<1>3. Tool(t)' \in SUBSET Bucket /\ Tool(t) \cup Inserted(bars[w]) \subseteq Tool(t)'
  BY <1>1, <1>2 DEF Tool, Inserted
<1>4. /\ Cardinality(Inserted(bars[w])) \in Nat
      /\ Cardinality(Tool(t) \cup Inserted(bars[w])) =
           Cardinality(Tool(t)) + Cardinality(Inserted(bars[w]))
  BY <1>2, Counting
<1>5. Cardinality(Tool(t) \cup Inserted(bars[w])) <= Cardinality(Tool(t)')
  <2>1. Tool(t) \cup Inserted(bars[w]) \in SUBSET Bucket
    BY <1>2
  <2> QED BY <1>3, <2>1, Counting
<1> QED BY <1>4, <1>5

LEMMA ResultsInsert ==
  ASSUME RInv, KInv', Grows, NEW w \in Worker, Insert(w)
  PROVE  RInv'
<1> USE DEF tableVars, runVars, workVars
<1>0. /\ pc[w] = "insert" /\ UNCHANGED <<task, kept, journal, running, queue, results, tasks, expired>>
      /\ kept[w] \in SUBSET Bucket /\ res[w] \in Result /\ DOMAIN pc = Worker
      /\ res \in [Worker -> Result] /\ committed \in [Worker -> Nat]
  BY DEF Insert, RInv, Sheets, KInv, Shape
<1>1. PICK t \in tasks : t = task[w]
  BY <1>0 DEF RInv, KInv, Holds
<1>2. Carries(w) /\ Prepares(w) /\ res[w].status # Skip
  BY <1>0 DEF RInv, Carries, Prepares
<1> DEFINE n == Cardinality(Inserted(bars[w]))
           q == [res[w] EXCEPT !.unverified = TRUE]
<1>3. n \in Nat /\ Cardinality(Tool(t)) + n <= Cardinality(Tool(t)')
      /\ Cardinality(Tool(t)) \in Nat /\ Cardinality(Tool(t)') \in Nat
  BY <1>0, <1>1, InsertCounts, Monotone DEF Insert, RInv
<1>4. /\ committed' = [committed EXCEPT ![w] = @ + n] /\ res' = [res EXCEPT ![w] = q]
      /\ pc' = [pc EXCEPT ![w] = "verify"]
  BY DEF Insert, Set, Goto
<1>5. /\ q.missing = res[w].missing /\ q.unverified = TRUE /\ q.skipped = res[w].skipped
      /\ q.status = res[w].status
      /\ q.inserted = res[w].inserted /\ q.present = res[w].present /\ q.expired = res[w].expired
  BY <1>0 DEF Result
<1>6. q \in Result
  BY <1>0 DEF Result
<1> HIDE DEF n, q
<1>7. res'[w] = q /\ committed'[w] = committed[w] + n /\ pc'[w] = "verify"
  BY <1>0, <1>4
<1>8. Gained(t) \in Nat
  BY DEF RInv, Sheets, Gained, Result
<1>9. Gained(task[w]) + committed'[w] <= Cardinality(Tool(task[w])')
  <2>1. Gained(t) + committed[w] <= Cardinality(Tool(t))
    BY <1>0, <1>1, <1>2 DEF Carries
  <2>2. committed[w] \in Nat
    BY <1>0
  <2>3. Gained(t) + committed'[w] <= Cardinality(Tool(t)')
    BY <1>3, <1>7, <1>8, <2>1, <2>2
  <2> QED BY <1>0, <1>1, <2>3 DEF Tool
<1>10. Prepares(w)'
  <2>1. Todo(t) \subseteq res[w].missing
    BY <1>0, <1>1, <1>2 DEF Prepares
  <2>2. Todo(task[w])' \subseteq q.missing
    BY <1>0, <1>1, <1>5, <2>1, Monotone DEF RInv, Todo
  <2> QED BY <1>0, <1>2, <1>5, <1>7, <2>2 DEF Prepares
<1>11. res' \in [Worker -> Result] /\ committed' \in [Worker -> Nat]
  BY <1>0, <1>3, <1>4, <1>6
<1> QED BY <1>0, <1>4, <1>7, <1>9, <1>10, <1>11, WorkerKeepsTask

LEMMA ResultsFail ==
  ASSUME RInv, KInv', Grows, NEW w \in Worker, RepairFails(w)
  PROVE  RInv'
<1> USE DEF tableVars, runVars, workVars
<1>0. /\ pc[w] \in {"read", "fetch", "insert", "verify"}
      /\ UNCHANGED <<task, kept, journal, running, queue, results, tasks, expired, committed>>
      /\ kept[w] \in SUBSET Bucket /\ res[w] \in Result /\ DOMAIN pc = Worker
      /\ res \in [Worker -> Result] /\ committed \in [Worker -> Nat]
  BY DEF RepairFails, RInv, Sheets, KInv, Shape
<1>1. PICK t \in tasks : t = task[w]
  BY <1>0 DEF RInv, KInv, Holds
<1>2. Carries(w) /\ Prepares(w) /\ res[w].status # Skip
  BY <1>0 DEF RInv, Carries, Prepares
<1> DEFINE m == IF pc[w] = "read" THEN {} ELSE res[w].missing
           u == pc[w] \in {"read", "insert"} \/ (pc[w] = "verify" /\ res[w].unverified)
           q == [res[w] EXCEPT !.status = "error", !.missing = m, !.unverified = u]
<1>3. res' = [res EXCEPT ![w] = q]
  BY <1>0 DEF RepairFails, Set
<1>4. m \in SUBSET Bucket /\ u \in BOOLEAN /\ res[w].missing \in SUBSET Bucket
      /\ res[w].unverified \in BOOLEAN
  BY <1>0 DEF Result
<1>5. PICK label \in {"read", "record"} : pc' = [pc EXCEPT ![w] = label]
  BY DEF RepairFails, Goto
<1> HIDE DEF m, u
<1>6. /\ q.missing = m /\ q.unverified = u /\ q.skipped = res[w].skipped /\ q.status = "error"
      /\ q.inserted = res[w].inserted /\ q.present = res[w].present /\ q.expired = res[w].expired
  BY <1>0 DEF Result
<1>7. q \in Result
  BY <1>0, <1>4 DEF Result, Statuses
<1> HIDE DEF q
<1>8. res'[w] = q /\ pc'[w] = label /\ kept'[w] = kept[w]
  BY <1>0, <1>3, <1>5
<1>9. Gained(task[w]) + committed'[w] <= Cardinality(Tool(task[w])')
  <2>1. Gained(t) + committed[w] <= Cardinality(Tool(t))
    BY <1>0, <1>1, <1>2 DEF Carries
  <2>2. committed[w] \in Nat /\ Gained(t) \in Nat
    BY <1>0 DEF RInv, Sheets, Gained, Result
  <2>3. Gained(t) + committed[w] <= Cardinality(Tool(t)')
    BY <2>1, <2>2, Monotone DEF RInv
  <2> QED BY <1>0, <1>1, <2>3 DEF Tool
<1>10. Prepares(w)'
  <2>1. Todo(task[w])' \subseteq q.missing \/ q.missing = {}
    <3>1. CASE pc[w] = "read"
      BY <1>6, <3>1 DEF m
    <3>2. CASE pc[w] # "read"
      <4>1. Todo(t) \subseteq res[w].missing
        BY <1>0, <1>1, <1>2, <3>2 DEF Prepares
      <4> QED BY <1>0, <1>1, <1>6, <3>2, <4>1, Monotone DEF RInv, Todo, m
    <3> QED BY <3>1, <3>2
  <2>2. u \/ kept'[w] \ q.missing \subseteq Present(kept[w])'
    <3>1. CASE u
      BY <3>1
    <3>2. CASE ~u
      <4>1. pc[w] \in {"fetch", "verify"} /\ m = res[w].missing
        BY <1>0, <3>2 DEF u, m
      <4>2. kept[w] \ res[w].missing \subseteq Present(kept[w])
        <5>1. CASE pc[w] = "verify"
          BY <1>2, <3>2, <5>1 DEF Prepares, u
        <5>2. CASE pc[w] = "fetch"
          BY <1>0, <1>2, <5>2 DEF Prepares, u
        <5> QED BY <4>1, <5>1, <5>2
      <4>3. Present(kept[w]) \subseteq {b \in kept[w] : rows'[b] \in Final}
        BY <1>0 DEF Present, Grows
      <4>4. Present(kept[w])' = {b \in kept[w] : rows'[b] \in Final}
        BY <1>8 DEF Present
      <4> QED BY <1>6, <1>8, <4>1, <4>2, <4>3, <4>4
    <3> QED BY <3>1, <3>2
  <2>3. q.missing \subseteq kept'[w]
    BY <1>2, <1>6, <1>8 DEF Prepares, m
  <2>4. q.status # Skip
    BY <1>6 DEF Skip
  <2> QED BY <1>2, <1>6, <1>8, <2>1, <2>2, <2>3, <2>4 DEF Prepares
<1>11. res' \in [Worker -> Result] /\ committed' \in [Worker -> Nat]
  BY <1>0, <1>3, <1>7
<1> QED BY <1>0, <1>3, <1>5, <1>8, <1>9, <1>10, <1>11, WorkerKeepsTask

LEMMA ResultsTake ==
  ASSUME RInv, KInv', NEW w \in Worker, Take(w)
  PROVE  RInv'
<1> USE DEF tableVars, runVars, workVars
<1>0. /\ pc[w] = "idle" /\ running
      /\ UNCHANGED <<journal, running, results, tasks, rows, expired>>
      /\ committed' = [committed EXCEPT ![w] = 0]
      /\ DOMAIN pc = Worker /\ DOMAIN task = Worker
      /\ res \in [Worker -> Result] /\ committed \in [Worker -> Nat]
      /\ kept \in [Worker -> SUBSET Bucket]
  BY DEF Take, RInv, Sheets, KInv, Shape
<1>1. Grows
  BY <1>0 DEF Grows, RInv, Sheets
<1> DEFINE gone == [Fresh EXCEPT !.status = "retention_expired", !.unverified = FALSE]
           begun(t) == [Fresh EXCEPT !.missing = Retained(t)]
<1>2. PICK t \in queue : /\ queue' = queue \ {t} /\ task' = [task EXCEPT ![w] = t]
                         /\ kept' = [kept EXCEPT ![w] = Retained(t)]
                         /\ IF Retained(t) = {}
                              THEN res' = [res EXCEPT ![w] = gone] /\ pc' = [pc EXCEPT ![w] = "record"]
                              ELSE res' = [res EXCEPT ![w] = begun(t)] /\ pc' = [pc EXCEPT ![w] = "gate"]
  BY DEF Take, Set, Goto
<1>3. t \in tasks /\ t.targets \in SUBSET Bucket /\ Retained(t) \in SUBSET Bucket
  BY DEF RInv, KInv, Shape, Sheets, Retained
<1>4. gone \in Result /\ begun(t) \in Result
  BY <1>3 DEF Fresh, Result, Statuses
<1>5. /\ gone.status # Skip /\ gone.missing = {} /\ gone.inserted = 0
      /\ gone.present = 0 /\ gone.expired = 0 /\ gone.skipped = 0
      /\ begun(t).status # Skip /\ begun(t).missing = Retained(t) /\ begun(t).inserted = 0
      /\ begun(t).present = 0 /\ begun(t).expired = 0 /\ begun(t).skipped = 0
      /\ begun(t).unverified
  BY DEF Fresh, Skip
<1> HIDE DEF gone, begun
<1>6. /\ task'[w] = t /\ kept'[w] = Retained(t) /\ committed'[w] = 0
      /\ IF Retained(t) = {} THEN res'[w] = gone /\ pc'[w] = "record"
                             ELSE res'[w] = begun(t) /\ pc'[w] = "gate"
      /\ \A v \in Worker \ {w} : /\ pc'[v] = pc[v] /\ task'[v] = task[v] /\ kept'[v] = kept[v]
                                 /\ res'[v] = res[v] /\ committed'[v] = committed[v]
  BY <1>0, <1>2
<1>7. Sheets'
  <2>1. res' \in [Worker -> Result] /\ kept' \in [Worker -> SUBSET Bucket]
        /\ committed' \in [Worker -> Nat]
    BY <1>0, <1>2, <1>3, <1>4
  <2> QED BY <1>0, <2>1 DEF RInv, Sheets
<1>8. Journals' /\ Queues'
  BY <1>0, <1>1, <1>2, LedgersKept
<1>9. \A v \in Worker : Carries(v)
  BY DEF RInv
<1>10. ASSUME NEW v \in Worker \ {w} PROVE Carries(v)'
  <2>1. pc[v] # "idle" => task[v] \notin queue' /\ task[v] # t
    BY <1>2, <1>9 DEF Carries
  <2>2. pc[v] # "idle" => \A u \in Worker \ {v} : pc'[u] # "idle" => task'[u] # task[v]
    BY <1>6, <1>9, <2>1 DEF Carries
  <2> QED BY <1>0, <1>1, <1>6, <2>1, <2>2, CarriesOther
<1>11. Carries(w)'
  <2>1. Todo(t) \subseteq Retained(t)
    BY DEF Todo, Retained
  <2>2. Todo(task[w])' = Todo(t) /\ Tool(task[w])' = Tool(t) /\ Gained(task[w])' = Gained(t)
        /\ Mergeable(task[w])' = Mergeable(t)
    BY <1>0, <1>6 DEF Todo, Tool, Gained, Mergeable
  <2>3. Mergeable(t) /\ Gained(t) <= Cardinality(Tool(t))
    BY DEF RInv, Queues
  <2>4. Gained(t) + 0 <= Cardinality(Tool(t))
    <3>1. Gained(t) \in Nat
      BY <1>3 DEF RInv, Sheets, Gained, Result
    <3> QED BY <2>3, <3>1
  <2>5. \A v \in Worker \ {w} : pc'[v] # "idle" => task'[v] # t
    BY <1>6, <1>9 DEF Carries
  <2>6. Prepares(w)'
    BY <1>5, <1>6, <2>1, <2>2 DEF Prepares
  <2> QED BY <1>0, <1>2, <1>6, <2>1, <2>2, <2>3, <2>4, <2>5, <2>6 DEF Carries
<1> QED BY <1>7, <1>8, <1>10, <1>11 DEF RInv

LEMMA ResultsSafety ==
  ASSUME RInv, KInv', NEW w \in Worker, SafetyFails(w)
  PROVE  RInv'
<1> USE DEF tableVars, runVars, workVars
<1>0. UNCHANGED <<workVars, journal, running, results, tasks, rows, expired>> /\ queue' \subseteq queue
  BY DEF SafetyFails
<1>1. Grows
  BY <1>0 DEF Grows, RInv, Sheets
<1>2. Sheets'
  BY <1>0 DEF RInv, Sheets
<1>3. Journals' /\ Queues'
  BY <1>0, <1>1, LedgersKept
<1>4. ASSUME NEW v \in Worker PROVE Carries(v)'
  <2>1. Carries(v)
    BY DEF RInv
  <2> QED BY <1>0, <1>1, <2>1, CarriesOther DEF Carries
<1> QED BY <1>2, <1>3, <1>4 DEF RInv

-----------------------------------------------------------------------------
\* What is written down is right: the counts add up to the targets, and a result
\* that could not look takes over what an earlier one has verified.
LEMMA RecordRight ==
  ASSUME RInv, NEW w \in Worker, pc[w] = "record", NEW t \in tasks, t = task[w]
  PROVE  RecordOf(w) \in Result /\ Known(RecordOf(w), t) /\ Honest(RecordOf(w), t)
<1>0. /\ t.targets \in SUBSET Bucket /\ kept[w] \subseteq t.targets /\ kept[w] \in SUBSET Bucket
      /\ res[w] \in Result /\ committed[w] \in Nat /\ results[t] \in Result \cup {NoResult}
  BY DEF RInv, KInv, Holds, Sheets
<1>1. /\ Todo(t) \subseteq kept[w] /\ Mergeable(t) /\ Prepares(w)
      /\ Gained(t) + committed[w] <= Cardinality(Tool(t))
  BY DEF RInv, Carries
<1>2. /\ res[w].missing \in SUBSET Bucket /\ res[w].skipped \in Nat /\ res[w].unverified \in BOOLEAN
      /\ Gained(t) \in Nat
  BY <1>0 DEF Result, Gained
<1> DEFINE lost == Cardinality(t.targets \ kept[w])
           named == IF res[w].status = "error" /\ res[w].missing = {} THEN kept[w] ELSE res[w].missing
           o == [res[w] EXCEPT !.inserted = committed[w], !.expired = lost, !.missing = named]
<1>3. lost \in Nat /\ named \in SUBSET Bucket /\ lost = Cardinality(t.targets) - Cardinality(kept[w])
      /\ Cardinality(t.targets) \in Nat /\ Cardinality(kept[w]) \in Nat /\ Cardinality(named) \in Nat
  BY <1>0, <1>2, Counting
<1>4. Outcome(w) = o
  BY <1>0 DEF Outcome, Result
<1> HIDE DEF lost, named
<1>5. /\ o \in Result /\ o.status = res[w].status /\ o.inserted = committed[w] /\ o.expired = lost
      /\ o.missing = named /\ o.unverified = res[w].unverified /\ o.skipped = res[w].skipped
      /\ o.present = 0
  BY <1>0, <1>1, <1>3 DEF Result, Prepares
<1> HIDE DEF o
<1> DEFINE m == Merged(o, results[t], kept[w])
           left == IF results[t] # NoResult /\ o.unverified /\ o.inserted = 0 /\ ~results[t].unverified
                     THEN results[t].missing \cap kept[w] ELSE named
<1>6. /\ m \in Result /\ m.status = res[w].status /\ m.inserted = committed[w] + Gained(t)
      /\ m.expired = lost /\ m.missing = left /\ m.unverified = res[w].unverified
      /\ m.skipped = res[w].skipped /\ m.present = 0
  <2>1. CASE results[t] = NoResult
    <3>1. m = o /\ left = named /\ Gained(t) = 0
      BY <2>1 DEF Merged, Gained
    <3>2. committed[w] = committed[w] + Gained(t)
      BY <1>0, <3>1
    <3> HIDE DEF left, m
    <3> QED BY <1>5, <3>1, <3>2
  <2>2. CASE results[t] # NoResult
    <3>1. results[t] \in Result /\ Gained(t) = results[t].inserted
      BY <1>0, <2>2 DEF Gained
    <3>2. left \in SUBSET Bucket /\ committed[w] + Gained(t) \in Nat
      BY <1>0, <1>2, <1>3, <3>1 DEF Result
    <3>3. m = [o EXCEPT !.missing = left, !.inserted = committed[w] + Gained(t)]
      BY <1>5, <2>2, <3>1 DEF Merged, Result
    <3> HIDE DEF left, m
    <3> QED BY <1>5, <3>2, <3>3 DEF Result
  <2> QED BY <2>1, <2>2
<1>7. IF res[w].status = Skip THEN left = {} ELSE Todo(t) \subseteq left
  <2>1. CASE res[w].status = Skip
    BY <1>1, <1>5, <2>1 DEF Prepares, named, Skip
  <2>2. CASE res[w].status # Skip
    <3>1. Todo(t) \subseteq named
      BY <1>1, <2>2 DEF Prepares, named
    <3>2. results[t] # NoResult => Todo(t) \subseteq results[t].missing
      BY <1>1 DEF Mergeable
    <3> QED BY <1>1, <2>2, <3>1, <3>2
  <2> QED BY <2>1, <2>2
<1>8. ~res[w].unverified => left = named
  BY <1>5
<1>9. /\ Cardinality(Tool(t)) \in Nat /\ Cardinality(Present(t.targets)) \in Nat
      /\ Cardinality(Tool(t)) <= Cardinality(Present(t.targets))
  <2>1. Tool(t) \in SUBSET Bucket /\ Present(t.targets) \in SUBSET Bucket
        /\ Tool(t) \subseteq Present(t.targets)
    BY <1>0 DEF Tool, Present, Final
  <2> QED BY <2>1, Counting
<1>10. ~res[w].unverified =>
         Cardinality(kept[w]) - res[w].skipped - Cardinality(named) <= Cardinality(Present(t.targets))
  <2> SUFFICES ASSUME ~res[w].unverified
               PROVE  Cardinality(kept[w]) - res[w].skipped - Cardinality(named)
                        <= Cardinality(Present(t.targets))
    OBVIOUS
  <2>1. CASE res[w].status = Skip
    <3>1. res[w].skipped = Cardinality(kept[w])
      BY <1>1, <2>1 DEF Prepares
    <3> QED BY <1>2, <1>3, <1>9, <3>1
  <2>2. CASE res[w].status # Skip
    <3>1. named \subseteq kept[w] /\ kept[w] \ named \subseteq Present(t.targets)
      BY <1>0, <1>1, <2>2 DEF Prepares, named, Present
    <3>2. Cardinality(kept[w] \ named) = Cardinality(kept[w]) - Cardinality(named)
      BY <1>0, <1>3, <3>1, Counting
    <3>3. Cardinality(kept[w] \ named) <= Cardinality(Present(t.targets))
      <4>1. kept[w] \ named \in SUBSET Bucket /\ Present(t.targets) \in SUBSET Bucket
        BY <1>0 DEF Present
      <4> QED BY <3>1, <4>1, Counting
    <3>4. res[w].skipped = 0
      BY <1>1, <2>2 DEF Prepares
    <3> QED BY <1>3, <3>2, <3>3, <3>4
  <2> QED BY <2>1, <2>2
<1> HIDE DEF m, left
<1> DEFINE requested == Cardinality(t.targets)
           rest == requested - (m.expired + m.skipped + Cardinality(m.missing) + m.inserted)
           present == IF rest < 0 \/ m.unverified THEN 0 ELSE rest
<1>11. RecordOf(w) = IF option = "check" THEN m ELSE [m EXCEPT !.present = present]
  BY <1>4 DEF RecordOf, Counted, m
<1>12. Cardinality(left) \in Nat
  <2>1. left \in SUBSET Bucket
    BY <1>6 DEF Result
  <2> QED BY <2>1, Counting
<1>13. rest \in Int /\ present \in Nat
  BY <1>2, <1>3, <1>6, <1>12, <1>0
<1>14. m.inserted + present <= Cardinality(Present(t.targets))
  <2>1. CASE present = 0
    BY <1>0, <1>1, <1>2, <1>6, <1>9, <2>1
  <2>2. CASE present # 0
    <3>1. ~res[w].unverified /\ present = rest
      BY <1>6, <2>2
    <3>2. m.inserted + rest = Cardinality(kept[w]) - res[w].skipped - Cardinality(named)
      BY <1>0, <1>2, <1>3, <1>6, <1>8, <3>1
    <3> QED BY <1>10, <3>1, <3>2
  <2> QED BY <2>1, <2>2
<1>15. m.inserted <= Cardinality(Tool(t)) /\ m.inserted \in Nat
  BY <1>0, <1>1, <1>2, <1>6
<1> HIDE DEF present, rest
<1>16. CASE option = "check"
  BY <1>6, <1>7, <1>9, <1>11, <1>15, <1>16 DEF Known, Honest
<1>17. CASE option # "check"
  <2> DEFINE r == [m EXCEPT !.present = present]
  <2>1. /\ r \in Result /\ r.status = m.status /\ r.missing = m.missing /\ r.inserted = m.inserted
        /\ r.present = present
    BY <1>6, <1>13 DEF Result
  <2> HIDE DEF r
  <2>2. RecordOf(w) = r
    BY <1>11, <1>17 DEF r
  <2> QED BY <1>6, <1>7, <1>14, <1>15, <2>1, <2>2 DEF Known, Honest
<1> QED BY <1>16, <1>17

LEMMA ResultsRecord ==
  ASSUME RInv, KInv', NEW w \in Worker, Record(w) \/ RecordFails(w)
  PROVE  RInv'
<1> USE DEF tableVars, runVars, workVars
<1>0. /\ pc[w] = "record" /\ UNCHANGED <<running, queue, tasks, rows, expired>>
      /\ results' = [results EXCEPT ![task[w]] = RecordOf(w)]
      /\ UNCHANGED journal \/ journal' = [journal EXCEPT ![task[w]] = RecordOf(w)]
      /\ pc' = [pc EXCEPT ![w] = "idle"] /\ task' = [task EXCEPT ![w] = NoTask]
      /\ kept' = [kept EXCEPT ![w] = {}] /\ res' = [res EXCEPT ![w] = Fresh]
      /\ committed' = [committed EXCEPT ![w] = 0]
  BY DEF Record, RecordFails, Goto
<1>1. /\ DOMAIN pc = Worker /\ DOMAIN task = Worker
      /\ res \in [Worker -> Result] /\ committed \in [Worker -> Nat]
      /\ kept \in [Worker -> SUBSET Bucket]
      /\ journal \in [tasks -> Result \cup {NoResult}] /\ results \in [tasks -> Result \cup {NoResult}]
  BY DEF RInv, Sheets, KInv, Shape
<1>2. PICK t \in tasks : t = task[w]
  BY <1>0 DEF RInv, KInv, Holds
<1>3. PICK r \in Result : r = RecordOf(w) /\ Known(r, t) /\ Honest(r, t)
  BY <1>0, <1>2, RecordRight
<1>4. Grows
  BY <1>0 DEF Grows, RInv, Sheets
<1>5. Sheets'
  <2>1. Fresh \in Result
    BY DEF Fresh, Result, Statuses
  <2>2. /\ res' \in [Worker -> Result] /\ committed' \in [Worker -> Nat]
        /\ kept' \in [Worker -> SUBSET Bucket]
    BY <1>0, <1>1, <2>1
  <2>3. journal' \in [tasks -> Result \cup {NoResult}] /\ results' \in [tasks -> Result \cup {NoResult}]
    BY <1>0, <1>1, <1>2, <1>3
  <2> QED BY <1>0, <2>2, <2>3 DEF RInv, Sheets
<1>6. Journals'
  <2>1. CASE UNCHANGED journal
    BY <1>4, <2>1, LedgersKept
  <2>2. CASE journal' = [journal EXCEPT ![t] = r]
    <3> SUFFICES ASSUME NEW s \in tasks, journal'[s] # NoResult
                 PROVE  Known(journal[s], s)' /\ Honest(journal[s], s)'
      BY <1>0 DEF Journals
    <3>1. PICK q \in Result : q = journal'[s]
      BY <1>5, <1>0 DEF Sheets
    <3>2. Known(q, s) /\ Honest(q, s)
      <4>1. CASE s = t
        BY <1>1, <1>3, <2>2, <3>1, <4>1
      <4>2. CASE s # t
        BY <1>1, <2>2, <3>1, <4>2 DEF RInv, Journals
      <4> QED BY <4>1, <4>2
    <3> QED BY <1>0, <3>1, <3>2 DEF Known, Honest, Todo, Tool, Present
  <2> QED BY <1>0, <1>2, <1>3, <2>1, <2>2
<1>7. \A v \in Worker : Carries(v)
  BY DEF RInv
<1>8. Queues'
  <2> SUFFICES ASSUME NEW s \in queue
               PROVE  Mergeable(s)' /\ Gained(s)' <= Cardinality(Tool(s)')
    BY <1>0 DEF Queues
  <2>1. s # t /\ s \in tasks
    BY <1>0, <1>2, <1>7 DEF Carries, RInv, KInv, Shape
  <2>2. results'[s] = results[s]
    BY <1>0, <1>1, <1>2, <2>1
  <2>3. Mergeable(s) /\ Gained(s) <= Cardinality(Tool(s))
    BY DEF RInv, Queues
  <2> QED BY <1>0, <2>2, <2>3 DEF Mergeable, Gained, Tool, Todo
<1>9. ASSUME NEW v \in Worker \ {w} PROVE Carries(v)'
  <2>1. /\ pc'[v] = pc[v] /\ task'[v] = task[v] /\ kept'[v] = kept[v] /\ res'[v] = res[v]
        /\ committed'[v] = committed[v]
    BY <1>0, <1>1
  <2>2. pc[v] # "idle" => task[v] # t /\ task[v] \notin queue' /\ running'
    BY <1>0, <1>2, <1>7 DEF Carries
  <2>3. pc[v] # "idle" => results'[task[v]] = results[task[v]]
    <3>1. pc[v] # "idle" => task[v] \in tasks
      BY DEF RInv, KInv, Holds
    <3> QED BY <1>0, <1>1, <1>2, <2>2, <3>1
  <2>4. pc[v] # "idle" => \A u \in Worker \ {v} : pc'[u] # "idle" => task'[u] # task[v]
    BY <1>0, <1>1, <1>7 DEF Carries
  <2> QED BY <1>4, <2>1, <2>2, <2>3, <2>4, CarriesOther
<1>10. Carries(w)'
  BY <1>0, <1>1 DEF Carries
<1> QED BY <1>5, <1>6, <1>8, <1>9, <1>10 DEF RInv

\* Every step of the tool and of its environment keeps the results right.
LEMMA ResultsStep ==
  ASSUME RInv, [Next]_vars
  PROVE  RInv'
<1>0. KInv' /\ Grows
  BY KeysStep, TableGrows DEF RInv, Sheets
<1>1. CASE Outside
  BY <1>1, ResultsOutside
<1>2. ASSUME NEW w \in Worker, Works(w) PROVE RInv'
  BY <1>0, <1>2, ResultsTake, ResultsSafety, ResultsGate, ResultsRead, ResultsFetch,
     ResultsInsert, ResultsVerify, ResultsFail, ResultsRecord DEF Works, Step
<1>3. CASE UNCHANGED vars
  <2>1. UNCHANGED <<workVars, journal, running, queue, results>>
    BY <1>3 DEF vars, tableVars, runVars
  <2> QED BY <1>0, <2>1, ResultsIdle
<1> QED BY <1>1, <1>2, <1>3 DEF Next, Outside, Works

\* The journal of gapfill_klines never drops a target that is still to be filled: a
\* result names it for a retry, through retries, merges of results, failed reads and
\* inserts, expiring targets, killed processes and lost journal lines.
THEOREM TargetsNeverForgotten == Spec => []NothingForgotten
<1>1. Init => RInv
  BY ResultsInit
<1>2. RInv /\ [Next]_vars => RInv'
  BY ResultsStep
<1>3. RInv => NothingForgotten
  BY DEF RInv, Journals, Known, NothingForgotten, Todo, Skip
<1> QED BY <1>1, <1>2, <1>3, PTL DEF Spec

\* The counts of a result are honest: it claims no insertion the tool did not make,
\* added up over retries, and no present target that is not stored.
THEOREM CountsNeverExceed == Spec => []CountsHonest
<1>1. Init => RInv
  BY ResultsInit
<1>2. RInv /\ [Next]_vars => RInv'
  BY ResultsStep
<1>3. RInv => CountsHonest
  BY DEF RInv, Journals, Honest, CountsHonest, Tool
<1> QED BY <1>1, <1>2, <1>3, PTL DEF Spec
============================================================================
