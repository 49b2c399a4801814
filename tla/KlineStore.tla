----------------------------- MODULE KlineStore -----------------------------
(***************************************************************************)
(* The kline table of one symbol, as internal/storage (memory.go,          *)
(* minute_verification.go) and internal/storage/mysql keep it: a row of    *)
(* final values per 1m candle with its verified_at_ms mark, and one row    *)
(* per bucket of every derived timeframe.                                  *)
(*                                                                         *)
(* A candle value is an element of Value (the fields compared by           *)
(* SameOfficialMinuteValues); equal elements are "the same official        *)
(* values".  A derived row is whatever Rollup makes of its sources, so     *)
(* two rows are equal exactly when the aggregator would return equal bars. *)
(***************************************************************************)
EXTENDS Integers, FiniteSets

CONSTANTS
  Minute,      \* starts of the 1m candles under study (a finite set of numbers)
  Bucket,      \* buckets of the configured derived timeframes over those minutes
  Source,      \* Source[b]: the cells (minutes or buckets) bucket b is built from
  Closing,     \* Closing[b]: the source cell that ends when bucket b ends
  Span,        \* Span[b]: the minutes below bucket b
  Value,       \* values of a 1m candle
  RollValue,   \* RollValue[b]: values of the derived candle of bucket b
  Rollup(_,_), \* aggregator.RollupBars: bucket, [cell -> value] |-> derived value
  NoBar        \* the row does not exist

Cell == Minute \cup Bucket
ValueOf(c) == IF c \in Minute THEN Value ELSE RollValue[c]

ASSUME MinuteAssumption == /\ Minute \subseteq Nat
                           /\ IsFiniteSet(Minute)
                           /\ Minute \cap Bucket = {}
ASSUME NoBarAssumption == \A c \in Cell : NoBar \notin ValueOf(c)
ASSUME SourceAssumption ==
  /\ Source \in [Bucket -> SUBSET Cell]
  /\ Closing \in [Bucket -> Cell]
  /\ Span \in [Bucket -> SUBSET Minute]
  /\ \A b \in Bucket :
       /\ Closing[b] \in Source[b]
       /\ Span[b] = (Source[b] \cap Minute)
                      \cup UNION {Span[c] : c \in Source[b] \cap Bucket}
  /\ \A B \in SUBSET Bucket : B # {} => \E b \in B : Source[b] \cap B = {}
ASSUME RollupAssumption ==
  \A b \in Bucket : \A f \in [Source[b] -> UNION {ValueOf(c) : c \in Source[b]}] :
    (\A c \in Source[b] : f[c] \in ValueOf(c)) => Rollup(b, f) \in RollValue[b]

VARIABLES
  row,         \* final 1m row of each minute, or NoBar
  verifiedAt,  \* verified_at_ms of each minute row; 0 is "not verified"
  roll         \* derived row of each bucket, or NoBar

storeVars == <<row, verifiedAt, roll>>

StoreTypeOK ==
  /\ row \in [Minute -> Value \cup {NoBar}]
  /\ verifiedAt \in [Minute -> Nat]
  /\ DOMAIN roll = Bucket
  /\ \A b \in Bucket : roll[b] \in RollValue[b] \cup {NoBar}

StoreInit ==
  /\ row = [m \in Minute |-> NoBar]
  /\ verifiedAt = [m \in Minute |-> 0]
  /\ roll = [b \in Bucket |-> NoBar]

(***************************************************************************)
(* Reads.                                                                  *)
(***************************************************************************)
Stored(c) == IF c \in Minute THEN row[c] ELSE roll[c]

\* sourceBarsComplete: every source start of the bucket has a final row.
SourceBarsComplete(b) == \A c \in Source[b] : Stored(c) # NoBar

RollupBars(b) == Rollup(b, [c \in Source[b] |-> Stored(c)])

\* The buckets of the configured frames that a written bar contributes to;
\* outside repairs only the bar that closes the bucket triggers it.
Targets(c, repair) ==
  {b \in Bucket : c \in Source[b] /\ (repair \/ Closing[b] = c)}

(***************************************************************************)
(* Writes.                                                                 *)
(***************************************************************************)
\* UpsertBars for a 1m bar: an ordinary writer leaves a verified row alone.
UpsertMinute(m, v) ==
  row' = IF verifiedAt[m] > 0 THEN row ELSE [row EXCEPT ![m] = v]
\* Mutant: the revision path keeps the ordinary writers' guard.
UpsertMinuteRevisionAsOrdinary(m, v, generation) ==
  /\ verifiedAt[m] <= generation
  /\ UpsertMinute(m, v)

\* UpsertMinuteRevisions: the explicit revision path writes the value, and
\* leaves verified_at_ms as it was; enabled when the revision is accepted.
UpsertMinuteRevision(m, v, generation) ==
  /\ verifiedAt[m] <= generation
  /\ row' = [row EXCEPT ![m] = v]

\* Keys among S whose stored value still equals the response r.
Unchanged(S, r) == {m \in S : row[m] = r[m]}

\* MarkMinutesVerified on the keys M: GREATEST(verified_at_ms, generation).
MarkVerified(M, generation) ==
  verifiedAt' = [m \in Minute |-> IF m \in M /\ generation > verifiedAt[m]
                                    THEN generation ELSE verifiedAt[m]]

\* rebuildRollupBucket over a set of buckets whose sources are complete.
UpsertRollups(B) ==
  roll' = [b \in Bucket |-> IF b \in B THEN RollupBars(b) ELSE roll[b]]

\* DeleteBarsInRange on 1m removes the rows and, with them, their marks.
DeleteMinutes(M) ==
  /\ row' = [m \in Minute |-> IF m \in M THEN NoBar ELSE row[m]]
  /\ verifiedAt' = [m \in Minute |-> IF m \in M THEN 0 ELSE verifiedAt[m]]
=============================================================================
