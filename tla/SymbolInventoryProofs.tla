----------------------- MODULE SymbolInventoryProofs -----------------------
(***************************************************************************)
(* SymbolInventory implements RepairGrants for every set of symbols,       *)
(* refreshers and readers and every bound: the watermark never moves back  *)
(* and nobody is granted a symbol that no publication under the current    *)
(* watermark lists as tradable.                                            *)
(*                                                                         *)
(* The invariant behind it: a refresher that is about to commit holds the  *)
(* lock and a stamp not older than the last attempt, so that publications  *)
(* are ordered; and a record, stored or read, is stamped no later than the *)
(* watermark, and when it carries the watermark and is tradable one of the *)
(* publications under the watermark lists it.                              *)
(***************************************************************************)
EXTENDS SymbolInventory, TLAPS

Records == [Symbol -> Row \cup {NoRow}]

\* Types of the local variables that TypeOK leaves open.
LocalsOK ==
  /\ DOMAIN items = Refresher
  /\ \A r \in Refresher : DOMAIN items[r] \subseteq Symbol
                          /\ \A s \in DOMAIN items[r] : items[r][s] \in Kind
  /\ prev \in [Refresher -> Records]
  /\ batch \in [Refresher -> Batch \cup {NoBatch}]
  /\ seen \in [Reader -> Records]

\* A committing refresher holds the lock and the latest stamp.
Ordered ==
  /\ sync.success <= sync.attempt
  /\ \A r \in Refresher :
       /\ pc[r] \in {"save", "commit"} => batch[r] \in Batch
       /\ pc[r] = "commit" => lock = r /\ sync.attempt <= batch[r].at

\* All records of a batch carry its stamp.
Stamped ==
  \A r \in Refresher : pc[r] \in {"save", "commit"} =>
    \A s \in Symbol : batch[r].rows[s] # NoRow => batch[r].rows[s].at = batch[r].at

\* Records R are not newer than the watermark w, and the tradable ones that carry it
\* are listed by a publication of P.
Vouched(R, w, P) ==
  \A s \in Symbol : R[s] # NoRow =>
    /\ R[s].at <= w
    /\ (Tradable(R[s]) /\ R[s].at = w) => s \in UNION P

AllVouched == /\ Vouched(rows, sync.success, published)
              /\ \A g \in Reader : Vouched(seen[g], sync.success, published)

IInv == TypeOK /\ LocalsOK /\ Ordered /\ Stamped /\ AllVouched

\* Time stamps are natural numbers.
LEMMA TimeIsNat == Time \subseteq Nat
BY InventoryAssumption DEF Time

\* Reconcile stamps every record of the batch with the time it is given.
LEMMA ReconcileBatch ==
  ASSUME NEW answer, NEW before \in Records, NEW now \in Time,
         DOMAIN answer \subseteq Symbol, \A s \in DOMAIN answer : answer[s] \in Kind
  PROVE  /\ Reconcile(answer, before, now) \in Batch
         /\ Reconcile(answer, before, now).at = now
         /\ \A s \in Symbol : Reconcile(answer, before, now).rows[s] # NoRow =>
              Reconcile(answer, before, now).rows[s].at = now
<1> DEFINE R == Reconcile(answer, before, now)
           F(s) == IF s \in DOMAIN answer
                     THEN [at |-> now, kind |-> answer[s], presence |-> "present"]
                   ELSE IF s \in Known(before)
                     THEN [before[s] EXCEPT !.at = now, !.presence = "absent"]
                   ELSE NoRow
<1>1. R = [at |-> now, rows |-> [s \in Symbol |-> F(s)]]
  BY DEF Reconcile
<1>2. \A s \in Symbol : F(s) \in Row \cup {NoRow} /\ (F(s) # NoRow => F(s).at = now)
  BY DEF Row, Records, Known, Presence
<1> HIDE DEF F
<1>3. R \in Batch
  BY <1>1, <1>2 DEF Batch
<1>4. R.at = now /\ \A s \in Symbol : R.rows[s] = F(s)
  BY <1>1
<1> QED BY <1>2, <1>3, <1>4

\* Registered symbols are added as records of the same type.
LEMMA SeededRecords ==
  ASSUME NEW before \in Records, NEW registered,
         \A s \in DOMAIN registered : registered[s] \in Kind
  PROVE  Seeded(before, registered) \in Records
BY InventoryAssumption DEF Seeded, Records, Row, Time, Presence

\* The batch RefreshOnce saves is a batch, stamped throughout with its time.
LEMMA ReconciledBatch ==
  ASSUME TypeOK, LocalsOK, NEW r \in Refresher
  PROVE  LET fresh == Reconcile(items[r], Seeded(prev[r], registry), clock)
         IN  /\ fresh \in Batch
             /\ \A s \in Symbol : fresh.rows[s] # NoRow => fresh.rows[s].at = fresh.at
<1> DEFINE answer == items[r]
           before == Seeded(prev[r], registry)
           fresh == Reconcile(answer, before, clock)
<1>1. DOMAIN answer \subseteq Symbol /\ \A s \in DOMAIN answer : answer[s] \in Kind
  BY DEF LocalsOK
<1>2. before \in Records
  BY SeededRecords DEF TypeOK, LocalsOK
<1>3. clock \in Time
  BY InventoryAssumption DEF TypeOK, Time
<1> HIDE DEF answer, before
<1>4. /\ fresh \in Batch /\ fresh.at = clock
      /\ \A s \in Symbol : fresh.rows[s] # NoRow => fresh.rows[s].at = clock
  BY <1>1, <1>2, <1>3, ReconcileBatch
<1>5. \A s \in Symbol : fresh.rows[s] # NoRow => fresh.rows[s].at = fresh.at
  BY <1>4
<1> QED BY <1>4, <1>5 DEF answer, before

\* Publishing later, or more under the same watermark, keeps records vouched for.
LEMMA VouchedKept ==
  ASSUME NEW R \in Records, NEW w \in Nat, NEW v \in Nat, NEW P, NEW Q,
         Vouched(R, w, P), v >= w, v = w => P \subseteq Q
  PROVE  Vouched(R, v, Q)
<1> SUFFICES ASSUME NEW s \in Symbol, R[s] # NoRow
             PROVE  /\ R[s].at <= v
                    /\ (Tradable(R[s]) /\ R[s].at = v) => s \in UNION Q
  BY DEF Vouched
<1>1. R[s].at \in Nat
  BY TimeIsNat DEF Records, Row
<1>2. R[s].at <= w /\ ((Tradable(R[s]) /\ R[s].at = w) => s \in UNION P)
  BY DEF Vouched
<1>3. R[s].at = v => v = w
  BY <1>1, <1>2
<1> QED BY <1>1, <1>2, <1>3

-----------------------------------------------------------------------------
(* Types *)

\* FetchSymbols, whole or cut short, answers kinds of symbols of the scope.
LEMMA ListingType ==
  ASSUME TypeOK
  PROVE  /\ DOMAIN Listing \subseteq Symbol
         /\ \A s \in DOMAIN Listing : Listing[s] = official[s] /\ official[s] \in Kind
BY DEF Listing, TypeOK

\* The count of failures stays within its bound.
LEMMA FaultType ==
  ASSUME TypeOK, CanFail, Fault
  PROVE  faults' \in 0..MaxFaults
BY InventoryAssumption DEF TypeOK, CanFail, Fault

\* The state a first process starts from has the types.
LEMMA InitTypes ==
  ASSUME Init
  PROVE  TypeOK /\ LocalsOK
<1>1. NoRows \in Records
  BY DEF NoRows, Records
<1>2. sync \in [status : {"none", "ok", "unavailable"}, attempt : Time, success : Time]
  BY InventoryAssumption DEF Init, Time
<1>3. DOMAIN NoAnswer = {}
  BY DEF NoAnswer
<1>4. TypeOK
  BY <1>1, <1>2, <1>3, InventoryAssumption DEF Init, TypeOK, Records
<1>5. LocalsOK
  BY <1>1, <1>3 DEF Init, LocalsOK
<1> QED BY <1>4, <1>5

\* Each step of a refresher keeps the types.
LEMMA RefresherTypes ==
  ASSUME TypeOK, LocalsOK, Ordered, NEW r \in Refresher,
         Work(r) \/ FetchTruncated(r) \/ FetchFails(r) \/ StepFails(r) \/ Abandon(r)
  PROVE  TypeOK' /\ LocalsOK'
<1> USE DEF TypeOK, LocalsOK, refreshVars, readVars, storeVars, envVars
<1>0. /\ NoRows \in Records /\ DOMAIN NoAnswer = {}
      /\ clock \in Time
  BY InventoryAssumption DEF NoRows, Records, NoAnswer, Time
<1>1. CASE Fetch(r)
  BY <1>1, ListingType DEF Fetch
<1>2. CASE FetchTruncated(r)
  <2>1. PICK last \in DOMAIN Listing :
          items' = [items EXCEPT ![r] = [s \in {x \in DOMAIN Listing : x <= last} |-> official[s]]]
    BY <1>2 DEF FetchTruncated
  <2> DEFINE answer == [s \in {x \in DOMAIN Listing : x <= last} |-> official[s]]
  <2>2. DOMAIN answer \subseteq Symbol /\ \A s \in DOMAIN answer : answer[s] \in Kind
    BY ListingType
  <2> HIDE DEF answer
  <2>3. LocalsOK'
    BY <1>2, <2>1, <2>2 DEF FetchTruncated, answer
  <2> QED BY <1>2, <2>3, FaultType DEF FetchTruncated
<1>3. CASE FetchFails(r)
  BY <1>3, FaultType DEF FetchFails
<1>4. CASE ListPrevious(r)
  BY <1>4 DEF ListPrevious, Records
<1>5. CASE ReconcileStep(r)
  <2>3. batch' \in [Refresher -> Batch \cup {NoBatch}]
    BY <1>5, ReconciledBatch DEF ReconcileStep
  <2>4. pc' \in [Refresher -> {"idle", "fetched", "listed", "save", "commit", "fail"}]
    BY <1>5 DEF ReconcileStep
  <2>5. UNCHANGED <<readVars, storeVars, envVars>>
    BY <1>5 DEF ReconcileStep
  <2>6. TypeOK'
    BY <2>3, <2>4, <2>5
  <2>7. LocalsOK'
    BY <1>0, <1>5, <2>3, <2>5 DEF ReconcileStep
  <2> QED BY <2>6, <2>7
<1>6. CASE SaveLock(r)
  <2>1. /\ pc' \in [Refresher -> {"idle", "fetched", "listed", "save", "commit", "fail"}]
        /\ lock' \in Refresher \cup {NoBatch}
    BY <1>6 DEF SaveLock
  <2>2. batch' \in [Refresher -> Batch \cup {NoBatch}]
    BY <1>6 DEF SaveLock
  <2>3. UNCHANGED <<items, prev, rows, sync, published, readVars, envVars>>
    BY <1>6 DEF SaveLock
  <2> QED BY <2>1, <2>2, <2>3
<1>7. CASE SaveCommit(r)
  <2>1. batch[r] \in Batch
    BY <1>7 DEF SaveCommit, Ordered
  <2>2. /\ batch[r].at \in Time
        /\ \A s \in Symbol : batch[r].rows[s] \in Row \cup {NoRow}
    BY <2>1 DEF Batch
  <2>3. rows' \in [Symbol -> Row \cup {NoRow}]
    BY <1>7, <2>2 DEF SaveCommit
  <2>4. published' \subseteq SUBSET Symbol
    BY <1>7 DEF SaveCommit, TradableOf
  <2> QED BY <1>7, <2>2, <2>3, <2>4 DEF SaveCommit
<1>8. CASE RecordFailure(r)
  BY <1>0, <1>8 DEF RecordFailure
<1>9. CASE StepFails(r)
  BY <1>0, <1>9, FaultType DEF StepFails
<1>10. CASE Abandon(r)
  BY <1>0, <1>10, FaultType DEF Abandon
<1> QED BY <1>1, <1>2, <1>3, <1>4, <1>5, <1>6, <1>7, <1>8, <1>9, <1>10 DEF Work

\* So does each step of a reader ...
LEMMA ReaderTypes ==
  ASSUME TypeOK, LocalsOK, NEW g \in Reader, Read(g) \/ ReadFails(g)
  PROVE  TypeOK' /\ LocalsOK'
<1> USE DEF TypeOK, LocalsOK, refreshVars, readVars, storeVars, envVars
<1>0. NoRows \in Records
  BY DEF NoRows, Records
<1>1. CASE ReadItems(g)
  BY <1>1 DEF ReadItems, Records
<1>2. CASE ReadSyncs(g)
  BY <1>0, <1>2 DEF ReadSyncs
<1>3. CASE ReadFails(g)
  BY <1>0, <1>3, FaultType DEF ReadFails
<1> QED BY <1>1, <1>2, <1>3 DEF Read

Environment == (\E s \in Volatile : Change(s)) \/ Register \/ Tick \/ StepBack

\* ... and of the environment.
LEMMA EnvironmentTypes ==
  ASSUME TypeOK, LocalsOK, Environment
  PROVE  TypeOK' /\ LocalsOK'
<1> USE DEF TypeOK, LocalsOK, refreshVars, readVars, storeVars
<1>1. ASSUME NEW s \in Volatile, Change(s) PROVE TypeOK' /\ LocalsOK'
  BY <1>1, InventoryAssumption DEF Change
<1>2. CASE Register
  BY <1>2, ListingType DEF Register
<1>3. CASE Tick
  BY <1>3, InventoryAssumption DEF Tick
<1>4. CASE StepBack
  BY <1>4, InventoryAssumption DEF StepBack, CanFail, Fault
<1> QED BY <1>1, <1>2, <1>3, <1>4 DEF Environment

-----------------------------------------------------------------------------
(* Publications are ordered *)

\* Every step of a refresher keeps the order and the stamps.
LEMMA RefresherOrder ==
  ASSUME TypeOK, LocalsOK, Ordered, Stamped, NEW r \in Refresher,
         Work(r) \/ FetchTruncated(r) \/ FetchFails(r) \/ StepFails(r) \/ Abandon(r)
  PROVE  Ordered' /\ Stamped'
<1> USE DEF TypeOK, LocalsOK, Ordered, Stamped, refreshVars, readVars, storeVars, envVars
<1>0. sync.attempt \in Nat /\ sync.success \in Nat
  BY TimeIsNat
<1>1. ASSUME UNCHANGED <<batch, lock, sync>>,
             \E k \in {"idle", "fetched", "listed", "fail"} : pc' = [pc EXCEPT ![r] = k]
      PROVE  Ordered' /\ Stamped'
  BY <1>1
<1>2. CASE Fetch(r) \/ ListPrevious(r) \/ FetchTruncated(r) \/ FetchFails(r)
  <2>1. UNCHANGED <<batch, lock, sync>>
    BY <1>2 DEF Fetch, ListPrevious, FetchTruncated, FetchFails
  <2>2. \E k \in {"idle", "fetched", "listed", "fail"} : pc' = [pc EXCEPT ![r] = k]
    BY <1>2 DEF Fetch, ListPrevious, FetchTruncated, FetchFails
  <2> QED BY <1>1, <2>1, <2>2
<1>3. CASE ReconcileStep(r)
  <2> DEFINE before == Seeded(prev[r], registry)
             fresh == Reconcile(items[r], before, clock)
  <2>3. fresh \in Batch /\ \A s \in Symbol : fresh.rows[s] # NoRow => fresh.rows[s].at = fresh.at
    BY ReconciledBatch
  <2> HIDE DEF before
  <2>4. UNCHANGED <<lock, sync>>
    BY <1>3 DEF ReconcileStep
  <2>5. CASE Acceptable(DOMAIN items[r], before)
    <3>1. batch' = [batch EXCEPT ![r] = fresh] /\ pc' = [pc EXCEPT ![r] = "save"]
      BY <1>3, <2>5 DEF ReconcileStep, before
    <3> HIDE DEF fresh
    <3> QED BY <2>3, <2>4, <3>1
  <2>6. CASE ~Acceptable(DOMAIN items[r], before)
    <3>1. UNCHANGED batch /\ pc' = [pc EXCEPT ![r] = "fail"]
      BY <1>3, <2>6 DEF ReconcileStep, before
    <3> QED BY <1>1, <2>4, <3>1
  <2> QED BY <2>5, <2>6
<1>4. CASE SaveLock(r)
  <2>1. batch[r] \in Batch /\ batch[r].at \in Nat
    BY <1>4, TimeIsNat DEF SaveLock, Batch
  <2>2. \A q \in Refresher : pc[q] # "commit"
    BY <1>4, LockAssumption DEF SaveLock
  <2>3. UNCHANGED sync
    BY <1>4 DEF SaveLock
  <2>4. CASE sync.attempt > batch[r].at
    BY <1>4, <2>2, <2>3, <2>4 DEF SaveLock
  <2>5. CASE ~(sync.attempt > batch[r].at)
    <3>1. /\ pc' = [pc EXCEPT ![r] = "commit"] /\ lock' = r /\ UNCHANGED batch
          /\ sync.attempt <= batch[r].at
      BY <1>0, <1>4, <2>1, <2>5 DEF SaveLock
    <3>2. \A q \in Refresher : pc'[q] = "commit" => q = r
      BY <2>2, <3>1
    <3>3. Ordered'
      BY <2>1, <2>3, <3>1, <3>2
    <3>4. Stamped'
      BY <1>4, <3>1 DEF SaveLock
    <3> QED BY <3>3, <3>4
  <2> QED BY <2>4, <2>5
<1>5. CASE SaveCommit(r)
  <2>1. \A q \in Refresher : pc[q] = "commit" => q = r
    BY <1>5 DEF SaveCommit
  <2>2. batch[r].at \in Nat
    BY <1>5, TimeIsNat DEF SaveCommit, Batch
  <2>3. sync'.success <= sync'.attempt
    BY <1>5, <2>2 DEF SaveCommit
  <2>4. /\ batch' = [batch EXCEPT ![r] = NoBatch]
        /\ pc' = [pc EXCEPT ![r] = "idle"]
    BY <1>5 DEF SaveCommit
  <2> QED BY <2>1, <2>3, <2>4
<1>6. CASE RecordFailure(r)
  <2>1. \A q \in Refresher : pc[q] # "commit"
    BY <1>6, LockAssumption DEF RecordFailure
  <2>2. sync'.success <= sync'.attempt
    BY <1>0, <1>6, InventoryAssumption DEF RecordFailure
  <2>3. UNCHANGED batch /\ pc' = [pc EXCEPT ![r] = "idle"]
    BY <1>6 DEF RecordFailure
  <2> QED BY <2>1, <2>2, <2>3
<1>7. CASE StepFails(r) \/ Abandon(r)
  <2>1. /\ lock' = IF lock = r THEN NoBatch ELSE lock
        /\ batch' = [batch EXCEPT ![r] = NoBatch]
        /\ UNCHANGED sync
    BY <1>7 DEF StepFails, Abandon
  <2>2. pc' = [pc EXCEPT ![r] = "fail"] \/ pc' = [pc EXCEPT ![r] = "idle"]
    BY <1>7 DEF StepFails, Abandon
  <2> QED BY <2>1, <2>2
<1> QED BY <1>2, <1>3, <1>4, <1>5, <1>6, <1>7 DEF Work

-----------------------------------------------------------------------------
(* Records and publications *)

\* What the readers saw stays vouched for, whatever is published after it.
LEMMA StoreVouched ==
  ASSUME TypeOK, LocalsOK, Ordered, Stamped, AllVouched, NEW r \in Refresher, SaveCommit(r)
  PROVE  AllVouched'
<1> DEFINE b == batch[r]
           w == sync.success
<1>1. b \in Batch /\ b.at \in Nat /\ w \in Nat /\ sync.attempt \in Nat
  BY TimeIsNat DEF SaveCommit, Ordered, Batch, TypeOK
<1>2. b.at >= w
  BY <1>1 DEF SaveCommit, Ordered
<1>3. sync'.success = b.at
  BY DEF SaveCommit
<1>4. published' = IF b.at > w THEN {TradableOf(b)} ELSE published \cup {TradableOf(b)}
  BY DEF SaveCommit
<1>5. TradableOf(b) \in published' /\ (b.at = w => published \subseteq published')
  BY <1>1, <1>4
<1> HIDE DEF w
<1>6. ASSUME NEW R \in Records, Vouched(R, w, published)
      PROVE  Vouched(R, sync'.success, published')
  BY <1>1, <1>2, <1>3, <1>5, <1>6, VouchedKept
<1>7. \A g \in Reader : Vouched(seen[g], sync'.success, published')
  BY <1>6 DEF AllVouched, LocalsOK, w
<1>8. Vouched(rows, sync'.success, published')
  BY <1>6 DEF AllVouched, TypeOK, Records, w
<1>9. Vouched(rows', sync'.success, published')
  <2> SUFFICES ASSUME NEW s \in Symbol, rows'[s] # NoRow
               PROVE  /\ rows'[s].at <= sync'.success
                      /\ (Tradable(rows'[s]) /\ rows'[s].at = sync'.success)
                           => s \in UNION published'
    BY DEF Vouched
  <2>1. rows'[s] = IF b.rows[s] # NoRow THEN b.rows[s] ELSE rows[s]
    BY DEF SaveCommit
  <2>2. CASE b.rows[s] # NoRow
    <3>1. rows'[s] = b.rows[s] /\ rows'[s].at = b.at
      BY <2>1, <2>2 DEF Stamped, SaveCommit
    <3>2. Tradable(rows'[s]) => s \in TradableOf(b)
      BY <3>1 DEF TradableOf
    <3> QED BY <1>1, <1>3, <1>5, <3>1, <3>2
  <2>3. CASE b.rows[s] = NoRow
    BY <1>8, <2>1, <2>3 DEF Vouched
  <2> QED BY <2>2, <2>3
<1> QED BY <1>7, <1>9 DEF AllVouched, SaveCommit, readVars

\* Steps that publish nothing and read nothing leave the vouching alone; a reader
\* that takes the stored records takes vouched ones.
LEMMA QuietVouched ==
  ASSUME LocalsOK, AllVouched, UNCHANGED <<rows, published>>, sync'.success = sync.success,
         \/ UNCHANGED seen
         \/ \E g \in Reader : \E R \in {rows, NoRows} : seen' = [seen EXCEPT ![g] = R]
  PROVE  AllVouched'
<1>1. Vouched(NoRows, sync.success, published)
  BY DEF Vouched, NoRows
<1>2. \A g \in Reader : \/ seen'[g] = seen[g] \/ seen'[g] = rows \/ seen'[g] = NoRows
  BY DEF LocalsOK
<1>3. \A g \in Reader : Vouched(seen'[g], sync.success, published)
  BY <1>1, <1>2 DEF AllVouched
<1> QED BY <1>3 DEF AllVouched

\* A reader's step reads stored records or drops the ones it read.
LEMMA ReaderVouched ==
  ASSUME LocalsOK, AllVouched, NEW g \in Reader, Read(g) \/ ReadFails(g)
  PROVE  AllVouched'
<1>1. UNCHANGED <<rows, published>> /\ sync'.success = sync.success
  BY DEF Read, ReadItems, ReadSyncs, ReadFails, storeVars
<1>2. \E R \in {rows, NoRows} : seen' = [seen EXCEPT ![g] = R]
  BY DEF Read, ReadItems, ReadSyncs, ReadFails
<1> QED BY <1>1, <1>2, QuietVouched

\* Every step of a refresher keeps stored and read records vouched for.
LEMMA RefresherVouched ==
  ASSUME TypeOK, LocalsOK, Ordered, Stamped, AllVouched, NEW r \in Refresher,
         Work(r) \/ FetchTruncated(r) \/ FetchFails(r) \/ StepFails(r) \/ Abandon(r)
  PROVE  AllVouched'
<1>1. CASE SaveCommit(r)
  BY <1>1, StoreVouched
<1>2. CASE RecordFailure(r)
  <2>1. UNCHANGED <<rows, published, seen>> /\ sync'.success = sync.success
    BY <1>2 DEF RecordFailure, readVars, TypeOK
  <2> QED BY <2>1, QuietVouched
<1>3. CASE ~SaveCommit(r) /\ ~RecordFailure(r)
  <2>1. UNCHANGED <<rows, published, seen, sync>>
    BY <1>3 DEF Work, Fetch, FetchTruncated, FetchFails, ListPrevious, ReconcileStep,
                SaveLock, StepFails, Abandon, readVars, storeVars
  <2> QED BY <2>1, QuietVouched
<1> QED BY <1>1, <1>2, <1>3

-----------------------------------------------------------------------------
(* The invariant and the refinement *)

\* The inductive invariant holds before the first refresh ...
LEMMA InvariantInit ==
  ASSUME Init
  PROVE  IInv
<1>1. TypeOK /\ LocalsOK
  BY InitTypes
<1>2. Ordered /\ Stamped
  BY DEF Init, Ordered, Stamped
<1>3. AllVouched
  BY DEF Init, AllVouched, Vouched, NoRows
<1> QED BY <1>1, <1>2, <1>3 DEF IInv

\* ... and every step keeps it.
LEMMA InvariantStep ==
  ASSUME IInv, [Next]_vars
  PROVE  IInv'
<1> USE DEF IInv
<1>1. ASSUME NEW r \in Refresher,
             Work(r) \/ FetchTruncated(r) \/ FetchFails(r) \/ StepFails(r) \/ Abandon(r)
      PROVE  IInv'
  BY <1>1, RefresherTypes, RefresherOrder, RefresherVouched
<1>2. ASSUME NEW g \in Reader, Read(g) \/ ReadFails(g)
      PROVE  IInv'
  <2>1. UNCHANGED <<pc, batch, lock, sync>>
    BY <1>2 DEF Read, ReadItems, ReadSyncs, ReadFails, refreshVars, storeVars
  <2>2. Ordered' /\ Stamped'
    BY <2>1 DEF Ordered, Stamped
  <2> QED BY <1>2, <2>2, ReaderTypes, ReaderVouched
<1>3. CASE Environment
  <2>1. UNCHANGED <<refreshVars, readVars, storeVars>>
    BY <1>3 DEF Environment, Change, Register, Tick, StepBack
  <2>2. Ordered' /\ Stamped' /\ AllVouched'
    BY <2>1 DEF Ordered, Stamped, AllVouched, refreshVars, readVars, storeVars
  <2> QED BY <1>3, <2>2, EnvironmentTypes
<1>4. CASE UNCHANGED vars
  BY <1>4 DEF vars, refreshVars, readVars, storeVars, envVars, TypeOK, LocalsOK, Ordered,
              Stamped, AllVouched
<1> QED BY <1>1, <1>2, <1>3, <1>4 DEF Next, Environment

\* Type correctness: whatever refreshers, readers, failures and clock steps do, the
\* records, the watermark and the locals of RefreshOnce keep their types.
THEOREM InventoryTypes == Spec => []TypeOK
<1>1. Init => IInv
  BY InvariantInit
<1>2. IInv /\ [Next]_vars => IInv'
  BY InvariantStep
<1>3. IInv => TypeOK
  BY DEF IInv
<1> QED BY <1>1, <1>2, <1>3, PTL DEF Spec

\* A step of a refresher publishes, withdraws or changes nothing a reader relies on.
LEMMA RefresherRefines ==
  ASSUME IInv, NEW r \in Refresher,
         Work(r) \/ FetchTruncated(r) \/ FetchFails(r) \/ StepFails(r) \/ Abandon(r)
  PROVE  [Grants!Next]_(Grants!vars)
<1>1. CASE SaveCommit(r)
  <2> DEFINE S == TradableOf(batch[r])
  <2>1. S \in SUBSET Symbol
    BY DEF TradableOf
  <2>2. batch[r].at >= sync.success
    <3>1. batch[r] \in Batch /\ sync.success <= sync.attempt /\ sync.attempt <= batch[r].at
      BY <1>1 DEF SaveCommit, IInv, Ordered
    <3>2. batch[r].at \in Nat /\ sync.success \in Nat /\ sync.attempt \in Nat
      BY <3>1, TimeIsNat DEF IInv, Batch, TypeOK
    <3> QED BY <3>1, <3>2
  <2>3. /\ sync'.success = batch[r].at
        /\ sync'.status = "ok"
        /\ published' = IF batch[r].at > sync.success THEN {S} ELSE published \cup {S}
        /\ UNCHANGED granted
    BY <1>1 DEF SaveCommit, readVars
  <2> HIDE DEF S
  <2>4. Grants!Publish
    BY <2>1, <2>2, <2>3 DEF Grants!Publish
  <2> QED BY <2>4 DEF Grants!Next
<1>2. CASE RecordFailure(r)
  <2>1. UNCHANGED <<published, granted>> /\ sync'.success = sync.success
    BY <1>2 DEF RecordFailure, readVars, IInv, TypeOK
  <2>2. sync' = sync \/ sync'.status = "unavailable"
    BY <1>2 DEF RecordFailure, IInv, TypeOK
  <2>3. CASE sync' = sync
    BY <2>1, <2>3 DEF Grants!vars
  <2>4. CASE sync'.status = "unavailable"
    BY <2>1, <2>4 DEF Grants!Next, Grants!Withdraw
  <2> QED BY <2>2, <2>3, <2>4
<1>3. CASE ~SaveCommit(r) /\ ~RecordFailure(r)
  <2>1. UNCHANGED <<sync, published, granted>>
    BY <1>3 DEF Work, Fetch, FetchTruncated, FetchFails, ListPrevious, ReconcileStep,
                SaveLock, StepFails, Abandon, readVars, storeVars
  <2> QED BY <2>1 DEF Grants!vars
<1> QED BY <1>1, <1>2, <1>3

\* A reader is granted only what a publication under the watermark lists.
LEMMA ReaderRefines ==
  ASSUME IInv, NEW g \in Reader, Read(g) \/ ReadFails(g)
  PROVE  [Grants!Next]_(Grants!vars)
<1>1. UNCHANGED <<sync, published>>
  BY DEF Read, ReadItems, ReadSyncs, ReadFails, storeVars
<1>2. CASE ReadItems(g)
  <2>1. granted' = [granted EXCEPT ![g] = {}] /\ granted'[g] = {}
    BY <1>2 DEF ReadItems, IInv, TypeOK
  <2> QED BY <1>1, <2>1 DEF Grants!Next, Grants!Grant
<1>3. CASE ReadSyncs(g)
  <2> DEFINE S == {s \in Symbol : Permitted(seen[g][s], sync, clock)}
  <2>1. granted' = [granted EXCEPT ![g] = S] /\ granted'[g] = S
    BY <1>3 DEF ReadSyncs, IInv, TypeOK
  <2>2. S \subseteq IF sync.status = "ok" THEN UNION published ELSE {}
    <3> SUFFICES ASSUME NEW s \in S
                 PROVE  sync.status = "ok" /\ s \in UNION published
      OBVIOUS
    <3>1. /\ Tradable(seen[g][s]) /\ seen[g][s] # NoRow
          /\ sync.status = "ok" /\ seen[g][s].at = sync.success
      BY DEF Permitted, Tradable
    <3>2. Vouched(seen[g], sync.success, published)
      BY DEF IInv, AllVouched
    <3> QED BY <3>1, <3>2 DEF Vouched
  <2> HIDE DEF S
  <2> QED BY <1>1, <2>1, <2>2 DEF Grants!Next, Grants!Grant
<1>4. CASE ReadFails(g)
  BY <1>1, <1>4 DEF ReadFails, Grants!vars
<1> QED BY <1>2, <1>3, <1>4 DEF Read

\* Refinement: however refreshers, failed refreshes, clock steps and the two reads of a
\* planner interleave, the watermark never moves back and a repair is granted only to
\* symbols that an inventory published under the current watermark lists as tradable.
THEOREM InventoryRefinesGrants == Spec => GrantsRefined
<1>1. Init => IInv
  BY InvariantInit
<1>2. IInv /\ [Next]_vars => IInv'
  BY InvariantStep
<1>3. Init => Grants!Init
  BY DEF Init, Grants!Init
<1>4. IInv /\ [Next]_vars => [Grants!Next]_(Grants!vars)
  <2> SUFFICES ASSUME IInv, [Next]_vars
               PROVE  [Grants!Next]_(Grants!vars)
    OBVIOUS
  <2>1. CASE Environment
    BY <2>1 DEF Environment, Change, Register, Tick, StepBack, readVars, storeVars, Grants!vars
  <2>2. CASE UNCHANGED vars
    BY <2>2 DEF vars, readVars, storeVars, Grants!vars
  <2> QED BY <2>1, <2>2, RefresherRefines, ReaderRefines DEF Next, Environment
<1> QED BY <1>1, <1>2, <1>3, <1>4, PTL DEF Spec, GrantsRefined, Grants!Spec

============================================================================
