------------------------------- MODULE GapPlan -------------------------------
(***************************************************************************)
(* The planner of the gap-fill tool for one series (symbol and timeframe): *)
(* which missing buckets of a frozen audit become targets, and how targets *)
(* are cut into tasks whose official source fits one request.              *)
(*                                                                         *)
(* Bucket b covers the source units 2b-1 and 2b.  A native series is       *)
(* fetched in its own timeframe; a derived one (5D, 2W...) is put together *)
(* from source bars of one unit.  An audit tells the stored buckets, the   *)
(* unit of the official listing (0: unknown), the first unit of any lower  *)
(* timeframe (0: none), the first bucket inside the retention and the last *)
(* closed one.                                                             *)
(***************************************************************************)
EXTENDS Integers, FiniteSets, FiniteSetsExt

CONSTANTS Bucket,   \* 1..n
          MaxSpan   \* maxSourceBars: source bars one request may span

ASSUME PlanAssumption ==
  /\ Bucket \subseteq Nat /\ IsFiniteSet(Bucket)
  /\ MaxSpan \in Nat /\ MaxSpan >= 2

Unit == 1 .. 2 * Max(Bucket)
Audit == [native : BOOLEAN, stored : SUBSET Bucket, listed : {0} \cup Unit,
          lower : {0} \cup Unit, kept : Bucket, latest : Bucket]

Units(b) == {2 * b - 1, 2 * b}
FloorStart(u) == (u + 1) \div 2
CeilStart(u) == (u + 2) \div 2

\* Mutant: a derived series starts with the bucket the listing falls into.
BoundaryFloor(u, native) == FloorStart(u)

\* historyBoundaryStartMS: an official candle may begin inside its bucket; a
\* derived one needs every source bar.
HistoryBoundary(u, native) == IF native THEN FloorStart(u) ELSE CeilStart(u)

Minimum(a) == Max({a.kept} \cup IF a.listed > 0 THEN {HistoryBoundary(a.listed, a.native)} ELSE {})

Kinds == {"internal", "leading", "tail", "no_data"}

\* addTarget for the gap ranges and for the leading, tail and empty series.
Candidates(a, kind) ==
  LET stored == a.stored
      known == IF a.listed > 0 THEN a.listed ELSE a.lower
  IN  CASE kind = "internal" -> {b \in Bucket \ stored : \E x, y \in stored : x < b /\ b < y}
        [] kind = "leading"  -> {b \in Bucket : /\ a.listed > 0 /\ stored # {}
                                                /\ b <= a.latest /\ \A x \in stored : b < x}
        [] kind = "tail"     -> {b \in Bucket : stored # {} /\ b <= a.latest /\ \A x \in stored : x < b}
        [] kind = "no_data"  -> {b \in Bucket : /\ stored = {} /\ known > 0 /\ b <= a.latest
                                                /\ b >= HistoryBoundary(known, a.native)}

Targets(a, kind) == {b \in Candidates(a, kind) : b >= Minimum(a)}

SourceSpan(first, last, native) == (last - first + 1) * (IF native THEN 1 ELSE 2)

\* The greedy cut of ordered targets: as many as fit, then the rest.
Cut(native) ==
  LET cut[S \in SUBSET Bucket] ==
        IF S = {} THEN {}
        ELSE LET head == {b \in S : SourceSpan(Min(S), b, native) <= MaxSpan}
             IN  {head} \cup cut[S \ head]
  IN  cut

\* Every piece of the cut is a task.
Pieces(a, k) == {S \in SUBSET Targets(a, k) : S \in Cut(a.native)[Targets(a, k)]}
Plan(a) == UNION {{[kind |-> k, targets |-> S] : S \in Pieces(a, k)} : k \in Kinds}

\* exchange:symbol:timeframe:start:end, the key of the journal.
TaskID(task) == <<Min(task.targets), Max(task.targets)>>
-----------------------------------------------------------------------------
(* Reference definition *)

\* A bucket is to be filled when it is missing, retained, closed, not before
\* the listing (for a derived series not even in part), and known to have a
\* history: it follows a stored bucket, or the listing or a lower timeframe of
\* an empty series tells where the history begins.
Fillable(a) ==
  {b \in Bucket :
     /\ b \notin a.stored /\ b >= a.kept
     /\ a.listed > 0 => IF a.native THEN 2 * b >= a.listed ELSE 2 * b - 1 >= a.listed
     /\ \/ \E x \in a.stored : x < b
        \/ a.listed > 0
        \/ /\ a.stored = {} /\ a.lower > 0
           /\ IF a.native THEN 2 * b >= a.lower ELSE 2 * b - 1 >= a.lower
     /\ b <= a.latest}

\* The tasks cover exactly the fillable buckets, each once, no task spans more
\* than one request, and no two tasks share a journal key.
PlanIsExact(a, tasks) ==
  /\ UNION {t.targets : t \in tasks} = Fillable(a)
  /\ \A t \in tasks : /\ t.targets # {}
                      /\ SourceSpan(Min(t.targets), Max(t.targets), a.native) <= MaxSpan
  /\ \A t, s \in tasks : t # s => t.targets \cap s.targets = {} /\ TaskID(t) # TaskID(s)
=============================================================================
