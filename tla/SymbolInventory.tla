--------------------------- MODULE SymbolInventory ---------------------------
(***************************************************************************)
(* The official symbol inventory of one scope (an exchange and a market    *)
(* type): refreshers fetch the exchange's list, reconcile it with the rows *)
(* they read before, and publish the result in one transaction; repair     *)
(* planners read rows and watermark in two statements.                     *)
(*                                                                         *)
(* One process runs one refresher per scope; a second one is a second      *)
(* process during a deployment.  Times are abstract ticks of a wall clock  *)
(* that may be set back.  Left out of a row: the listing and delisting     *)
(* times, the raw payload and the absence counters, which decide nothing   *)
(* here ("upcoming" stands for a listing time ahead of the clock).         *)
(***************************************************************************)
EXTENDS Naturals, FiniteSets

CONSTANTS Symbol,      \* symbols of the scope, numbered in the order of the list
          Volatile,    \* symbols whose official state may change
          Refresher,   \* processes running the snapshot worker
          Reader,      \* repair planners: the Guardian, the gap-fill gate
          Kind,        \* official states the exchange may report
          Listed,      \* the exchange's list when the first process starts
          Enabled,     \* collection of this market type is enabled
          ShrinkMin,   \* present rows from which the shrink guard applies
          MaxAge,      \* oldest usable snapshot
          MaxClock,    \* bound of the clock
          MaxChanges,  \* bound on changes of the official list
          MaxFaults,   \* bound on failures, crashes and clock steps
          NoRow, NoBatch

ASSUME InventoryAssumption ==
  /\ Kind \subseteq {"trading", "upcoming", "filtered", "halted", "closed"}
  /\ Symbol \subseteq Nat /\ Volatile \subseteq Symbol
  /\ Listed \in [Symbol -> Kind \cup {"absent"}]
  /\ Enabled \in BOOLEAN
  /\ ShrinkMin \in Nat \ {0} /\ MaxAge \in Nat
  /\ MaxClock \in Nat \ {0} /\ MaxChanges \in Nat /\ MaxFaults \in Nat

\* No process is mistaken for a free lock.
ASSUME LockAssumption == NoBatch \notin Refresher

VARIABLES
  official,   \* what the exchange lists: symbol -> kind or "absent"
  registry,   \* symbol_registry, written by the collector
  rows,       \* instrument_snapshot
  sync,       \* instrument_snapshot_sync of the scope
  lock,       \* refresher whose transaction holds the sync row, or NoBatch
  pc, items, prev, batch,   \* locals of RefreshOnce
  rpc, seen,                \* locals of a reader
  granted,    \* what each reader permitted last
  published,  \* history: tradable symbols of the inventories under the watermark
  clock, changes, faults

refreshVars == <<pc, items, prev, batch>>
readVars == <<rpc, seen, granted>>
storeVars == <<rows, sync, lock, published>>
envVars == <<official, registry, clock, changes, faults>>
vars == <<refreshVars, readVars, storeVars, envVars>>

Time == 0..MaxClock
Presence == {"present", "absent", "unknown"}
Row == [at : Time, kind : Kind, presence : Presence]
Batch == [at : Time, rows : [Symbol -> Row \cup {NoRow}]]

(***************************************************************************)
(* SymbolSnapshotRepairSkipReason: "" for exactly the rows this holds for. *)
(***************************************************************************)
Subscribed(kind) == Enabled /\ kind \in {"trading", "upcoming"}
OfficialActive(kind) == kind \in {"trading", "upcoming", "filtered"}

Tradable(row) == /\ row # NoRow
                 /\ row.at > 0
                 /\ row.presence = "present"
                 /\ row.kind # "closed"
                 /\ Subscribed(row.kind)
                 /\ OfficialActive(row.kind)
                 /\ row.kind # "upcoming"

Fresh(row, now) == MaxAge > 0 /\ row.at <= now /\ now - row.at <= MaxAge

\* Mutant: a record of an earlier publication counts as long as it is fresh.
PermittedStale(row, state, now) == /\ Tradable(row)
                                   /\ Fresh(row, now)
                                   /\ state.status = "ok"

Permitted(row, state, now) == /\ Tradable(row)
                              /\ Fresh(row, now)
                              /\ state.status = "ok"
                              /\ state.success = row.at

(***************************************************************************)
(* ReconcileSymbolSnapshot: the listed symbols become present, the other   *)
(* known ones absent; an empty answer, or one that lists less than half of *)
(* the symbols believed present, is an error.                              *)
(***************************************************************************)
Known(before) == {s \in Symbol : before[s] # NoRow}
Present(before) == {s \in Known(before) : before[s].presence = "present"}

Shrunk(listed, before) == /\ Cardinality(Present(before)) >= ShrinkMin
                          /\ 2 * Cardinality(listed) < Cardinality(Present(before))

Acceptable(listed, before) == listed # {} /\ ~Shrunk(listed, before)

Reconcile(answer, before, now) ==
  LET listed == DOMAIN answer
  IN  [at |-> now,
       rows |-> [s \in Symbol |->
         IF s \in listed THEN [at |-> now, kind |-> answer[s], presence |-> "present"]
         ELSE IF s \in Known(before) THEN [before[s] EXCEPT !.at = now, !.presence = "absent"]
         ELSE NoRow]]

\* Mutant: registered symbols that were never listed stay without a record.
SeededNot(before, registered) == before

\* Registered symbols without a row join the known ones as "unknown".
Seeded(before, registered) ==
  [s \in Symbol |-> IF before[s] = NoRow /\ s \in DOMAIN registered
                    THEN [at |-> 0, kind |-> registered[s], presence |-> "unknown"]
                    ELSE before[s]]

-----------------------------------------------------------------------------
TypeOK ==
  /\ official \in [Symbol -> Kind \cup {"absent"}]
  /\ DOMAIN registry \subseteq Symbol /\ \A s \in DOMAIN registry : registry[s] \in Kind
  /\ rows \in [Symbol -> Row \cup {NoRow}]
  /\ sync \in [status : {"none", "ok", "unavailable"}, attempt : Time, success : Time]
  /\ lock \in Refresher \cup {NoBatch}
  /\ pc \in [Refresher -> {"idle", "fetched", "listed", "save", "commit", "fail"}]
  /\ \A r \in Refresher : batch[r] \in Batch \cup {NoBatch}
  /\ rpc \in [Reader -> {"idle", "items"}]
  /\ granted \in [Reader -> SUBSET Symbol]
  /\ published \subseteq SUBSET Symbol
  /\ clock \in 1..MaxClock /\ changes \in 0..MaxChanges /\ faults \in 0..MaxFaults

NoAnswer == [s \in {} |-> "absent"]
NoRows == [s \in Symbol |-> NoRow]

Init == /\ official = Listed
        /\ registry = NoAnswer
        /\ rows = NoRows
        /\ sync = [status |-> "none", attempt |-> 0, success |-> 0]
        /\ lock = NoBatch
        /\ pc = [r \in Refresher |-> "idle"]
        /\ items = [r \in Refresher |-> NoAnswer]
        /\ prev = [r \in Refresher |-> NoRows]
        /\ batch = [r \in Refresher |-> NoBatch]
        /\ rpc = [g \in Reader |-> "idle"]
        /\ seen = [g \in Reader |-> NoRows]
        /\ granted = [g \in Reader |-> {}]
        /\ published = {}
        /\ clock = 1 /\ changes = 0 /\ faults = 0

CanFail == faults < MaxFaults
Fault == faults' = faults + 1
-----------------------------------------------------------------------------
(* The refresher *)

Listing == [s \in {x \in Symbol : official[x] # "absent"} |-> official[s]]

\* FetchSymbols answers the list the exchange shows now ...
Fetch(r) == /\ pc[r] = "idle"
            /\ items' = [items EXCEPT ![r] = Listing]
            /\ pc' = [pc EXCEPT ![r] = IF Listing = NoAnswer THEN "fail" ELSE "fetched"]
            /\ UNCHANGED <<prev, batch, readVars, storeVars, envVars>>

\* ... or, cut short by the server, the beginning of it.
FetchTruncated(r) ==
  /\ pc[r] = "idle" /\ CanFail /\ Fault
  /\ \E last \in DOMAIN Listing :
       /\ \E s \in DOMAIN Listing : s > last
       /\ items' = [items EXCEPT ![r] = [s \in {x \in DOMAIN Listing : x <= last} |-> official[s]]]
  /\ pc' = [pc EXCEPT ![r] = "fetched"]
  /\ UNCHANGED <<prev, batch, readVars, storeVars, official, registry, clock, changes>>

FetchFails(r) == /\ pc[r] = "idle" /\ CanFail /\ Fault
                 /\ pc' = [pc EXCEPT ![r] = "fail"]
                 /\ UNCHANGED <<items, prev, batch, readVars, storeVars,
                                official, registry, clock, changes>>

\* ListSymbolSnapshots: one statement, committed rows only.
ListPrevious(r) == /\ pc[r] = "fetched"
                   /\ prev' = [prev EXCEPT ![r] = rows]
                   /\ pc' = [pc EXCEPT ![r] = "listed"]
                   /\ UNCHANGED <<items, batch, readVars, storeVars, envVars>>

\* ListSymbols, then the reconciliation stamped with the clock.
ReconcileStep(r) ==
  /\ pc[r] = "listed"
  /\ LET before == Seeded(prev[r], registry)
     IN  IF Acceptable(DOMAIN items[r], before)
         THEN /\ batch' = [batch EXCEPT ![r] = Reconcile(items[r], before, clock)]
              /\ pc' = [pc EXCEPT ![r] = "save"]
         ELSE /\ pc' = [pc EXCEPT ![r] = "fail"] /\ UNCHANGED batch
  /\ prev' = [prev EXCEPT ![r] = NoRows]
  /\ items' = [items EXCEPT ![r] = NoAnswer]
  /\ UNCHANGED <<readVars, storeVars, envVars>>

\* SaveSymbolSnapshot locks the sync row of the scope and refuses a stamp
\* older than the last attempt.
SaveLock(r) == /\ pc[r] = "save" /\ lock = NoBatch
               /\ IF sync.attempt > batch[r].at
                  THEN /\ pc' = [pc EXCEPT ![r] = "fail"]
                       /\ batch' = [batch EXCEPT ![r] = NoBatch]
                       /\ UNCHANGED lock
                  ELSE /\ pc' = [pc EXCEPT ![r] = "commit"] /\ lock' = r /\ UNCHANGED batch
               /\ UNCHANGED <<items, prev, rows, sync, published, readVars, envVars>>

TradableOf(b) == {s \in Symbol : Tradable(b.rows[s])}

\* The records and the watermark become visible together.
SaveCommit(r) ==
  /\ pc[r] = "commit"
  /\ rows' = [s \in Symbol |-> IF batch[r].rows[s] # NoRow THEN batch[r].rows[s] ELSE rows[s]]
  /\ sync' = [status |-> "ok", attempt |-> batch[r].at, success |-> batch[r].at]
  /\ published' = IF batch[r].at > sync.success THEN {TradableOf(batch[r])}
                  ELSE published \cup {TradableOf(batch[r])}
  /\ lock' = NoBatch
  /\ batch' = [batch EXCEPT ![r] = NoBatch]
  /\ pc' = [pc EXCEPT ![r] = "idle"]
  /\ UNCHANGED <<items, prev, readVars, envVars>>

\* A statement of RefreshOnce fails; an open transaction is rolled back.
StepFails(r) == /\ pc[r] \in {"fetched", "listed", "save", "commit"} /\ CanFail /\ Fault
                /\ pc' = [pc EXCEPT ![r] = "fail"]
                /\ lock' = IF lock = r THEN NoBatch ELSE lock
                /\ batch' = [batch EXCEPT ![r] = NoBatch]
                /\ prev' = [prev EXCEPT ![r] = NoRows]
                /\ items' = [items EXCEPT ![r] = NoAnswer]
                /\ UNCHANGED <<rows, sync, published, readVars,
                               official, registry, clock, changes>>

\* Mutant: the failure is stored under a status no reader knows.
RecordFailureUnknown(r) ==
  /\ pc[r] = "fail" /\ lock = NoBatch
  /\ sync' = IF sync.attempt <= clock
             THEN [sync EXCEPT !.status = "error", !.attempt = clock] ELSE sync
  /\ items' = [items EXCEPT ![r] = NoAnswer]
  /\ pc' = [pc EXCEPT ![r] = "idle"]
  /\ UNCHANGED <<prev, batch, rows, lock, published, readVars, envVars>>

\* RecordSymbolSnapshotFailure: one statement that waits for the sync row,
\* keeps the last success and ignores an attempt older than the recorded one.
RecordFailure(r) ==
  /\ pc[r] = "fail" /\ lock = NoBatch
  /\ sync' = IF sync.attempt <= clock
             THEN [sync EXCEPT !.status = "unavailable", !.attempt = clock] ELSE sync
  /\ items' = [items EXCEPT ![r] = NoAnswer]
  /\ pc' = [pc EXCEPT ![r] = "idle"]
  /\ UNCHANGED <<prev, batch, rows, lock, published, readVars, envVars>>

\* The process dies, or the failure itself cannot be stored.
Abandon(r) == /\ pc[r] # "idle" /\ CanFail /\ Fault
              /\ pc' = [pc EXCEPT ![r] = "idle"]
              /\ lock' = IF lock = r THEN NoBatch ELSE lock
              /\ batch' = [batch EXCEPT ![r] = NoBatch]
              /\ prev' = [prev EXCEPT ![r] = NoRows]
              /\ items' = [items EXCEPT ![r] = NoAnswer]
              /\ UNCHANGED <<rows, sync, published, readVars,
                             official, registry, clock, changes>>

-----------------------------------------------------------------------------
(* Repair planners: loadRepairEligibility and captureSnapshot/policies *)

ReadItems(g) == /\ rpc[g] = "idle"
                /\ rpc' = [rpc EXCEPT ![g] = "items"]
                /\ seen' = [seen EXCEPT ![g] = rows]
                /\ granted' = [granted EXCEPT ![g] = {}]
                /\ UNCHANGED <<refreshVars, storeVars, envVars>>

ReadSyncs(g) == /\ rpc[g] = "items"
                /\ granted' = [granted EXCEPT ![g] =
                                 {s \in Symbol : Permitted(seen[g][s], sync, clock)}]
                /\ rpc' = [rpc EXCEPT ![g] = "idle"]
                /\ seen' = [seen EXCEPT ![g] = NoRows]
                /\ UNCHANGED <<refreshVars, storeVars, envVars>>

\* Either read fails: the round repairs nothing.
ReadFails(g) == /\ rpc[g] = "items" /\ CanFail /\ Fault
                /\ UNCHANGED granted
                /\ rpc' = [rpc EXCEPT ![g] = "idle"]
                /\ seen' = [seen EXCEPT ![g] = NoRows]
                /\ UNCHANGED <<refreshVars, storeVars, official, registry, clock, changes>>

-----------------------------------------------------------------------------
(* Environment *)

Change(s) == /\ changes < MaxChanges
             /\ \E k \in (Kind \cup {"absent"}) \ {official[s]} :
                  official' = [official EXCEPT ![s] = k]
             /\ changes' = changes + 1
             /\ UNCHANGED <<registry, clock, faults, refreshVars, readVars, storeVars>>

\* The collector's UpsertSymbols of its own fetch.
Register == /\ registry' = [s \in DOMAIN registry \cup DOMAIN Listing |->
                              IF s \in DOMAIN Listing THEN official[s] ELSE registry[s]]
            /\ registry' # registry
            /\ UNCHANGED <<official, clock, changes, faults, refreshVars, readVars, storeVars>>

Tick == /\ clock < MaxClock /\ clock' = clock + 1
        /\ UNCHANGED <<official, registry, changes, faults, refreshVars, readVars, storeVars>>

StepBack == /\ clock > 1 /\ clock' = clock - 1 /\ CanFail /\ Fault
            /\ UNCHANGED <<official, registry, changes, refreshVars, readVars, storeVars>>

Work(r) == \/ Fetch(r) \/ ListPrevious(r) \/ ReconcileStep(r)
           \/ SaveLock(r) \/ SaveCommit(r) \/ RecordFailure(r)
Read(g) == ReadItems(g) \/ ReadSyncs(g)

Next == \/ \E r \in Refresher : \/ Work(r) \/ FetchTruncated(r) \/ FetchFails(r)
                                \/ StepFails(r) \/ Abandon(r)
        \/ \E g \in Reader : Read(g) \/ ReadFails(g)
        \/ \E s \in Volatile : Change(s)
        \/ Register \/ Tick \/ StepBack

Spec == Init /\ [][Next]_vars

\* Every refresher loops on its ticker, the lock is granted in the order it is
\* asked for, planners run every round and wall-clock time passes.
FairSpec == /\ Spec
            /\ \A r \in Refresher : WF_vars(Fetch(r) \/ ListPrevious(r) \/ ReconcileStep(r))
            /\ \A r \in Refresher : SF_vars(SaveLock(r) \/ RecordFailure(r))
            /\ \A r \in Refresher : WF_vars(SaveCommit(r))
            /\ \A g \in Reader : WF_vars(Read(g))
            /\ WF_vars(Tick)
-----------------------------------------------------------------------------
(* Properties *)

\* Refinement: watermark, publications and grants behave as RepairGrants says,
\* however refreshers, failures, clock steps and the two reads interleave.
Grants == INSTANCE RepairGrants WITH watermark <- sync.success,
                                     usable <- (sync.status = "ok")
GrantsRefined == Grants!Spec

Current(s) == sync.status = "ok" /\ rows[s] # NoRow /\ rows[s].at = sync.success

\* The inventory tells the truth: every listed or registered symbol has a
\* record of the last publication, and exactly the tradable ones are tradable.
Converged == \A s \in Symbol :
  /\ s \in DOMAIN Listing \cup DOMAIN registry => Current(s)
  /\ (Current(s) /\ Tradable(rows[s])) <=> (official[s] = "trading" /\ Enabled)

\* Once the exchange's list and the faults come to rest, the inventory
\* converges to the list; the one exception is a list that is empty or lost
\* more than half of the symbols, which RefreshOnce refuses for good.
InventoryConverges ==
  <>[](Converged \/ ~Acceptable(DOMAIN Listing, Seeded(rows, registry)))
=============================================================================
