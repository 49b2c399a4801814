------------------------ MODULE CorporateActionProofs ------------------------
(***************************************************************************)
(* Proof that the stored candles are forward-adjusted whenever no job is   *)
(* outstanding, for any calendar, any splits, any audits and any number of *)
(* failures, as long as the 1D audit of the Guardian visits no day that a  *)
(* split falls into.                                                       *)
(*                                                                         *)
(* AdjustedWhenQuiet speaks of quiet states only.  The invariant follows   *)
(* the worker and the audit into them: what a job has verified so far is   *)
(* adjusted, up to rows an overlapping audit wrote (Progress) and rows the *)
(* exchange left out (LeftOut), and an audit that overlapped no job still  *)
(* holds the current factors and, while it rolls a day up, the stored      *)
(* minutes of that day (Auditing).                                         *)
(***************************************************************************)
EXTENDS CorporateAction, WellFoundedInduction, TLAPS

\* No split falls into a day that the 1D audit visits: such a day is multiplied
\* as a whole by applyCorporateActionFactors, which the run CorporateMidday shows
\* to be wrong for the minutes after the split.
WholeDays == \A d \in AuditedDay, a \in Action : ~(Min(d) < a /\ Max(d) >= a)

Adjusted(F, d) == [m \in d |-> ApplyFactors(F, m)]

MinutesRight ==
  \A m \in Minute : m \in exempt.minutes \/ minuteRow[m] = ApplyFactors(Factors, m)
DaysRight ==
  \A d \in Day : d \in exempt.days \/ dayRow[d] = Adjusted(Factors, d)

(***************************************************************************)
(* The inductive invariant.                                                *)
(***************************************************************************)
Types ==
  /\ minuteRow \in [Minute -> MinuteValue \cup {NoBar}]
  /\ dayRow \in DayRows
  /\ job \in [Action -> JobRow]
  /\ worker \in Worker
  /\ audit \in Audit
  /\ exempt \in [minutes: SUBSET Minute, days: SUBSET Day]

\* A job in progress is recorded as running, its factors are the current ones,
\* and an audit beside it knows that it overlaps.
Working ==
  Busy =>
    /\ worker.job \in Action /\ job[worker.job].status = "running"
    /\ worker.pc \in {"delete", "write", "done"} => worker.factors = Factors
    /\ audit.pc # "idle" => audit.overlap

\* What verifyStored has compared stays right.
Progress ==
  /\ worker.pc = "started" => worker.frame = 1
  /\ (worker.pc \in {"delete", "write"} /\ worker.frame = 2) => MinutesRight
  /\ worker.pc = "done" => MinutesRight /\ DaysRight

\* While the answered bars are written, the rows left out stay exempt.
LeftOut ==
  worker.pc = "write" =>
    IF worker.frame = 1
      THEN worker.left \subseteq worker.bars /\ Minute \ worker.bars \subseteq exempt.minutes
      ELSE \A d \in Day : d \subseteq worker.bars \/ d \in exempt.days

\* No job is under way, and the last one to end completed.
Settled ==
  /\ \A a \in Action : job[a].status \notin {"running", "retry"}
  /\ lastEnd = "completed"

Settling == Settled => MinutesRight /\ DaysRight

\* An audit that overlapped no job uses the current factors and sources.
Auditing ==
  /\ (audit.pc # "idle" /\ ~audit.overlap) => audit.factors = Factors
  /\ (audit.pc = "rollup" /\ ~audit.overlap) =>
       audit.value = [m \in audit.day |-> minuteRow[m]]
  /\ audit.pc \in {"days", "repair"} => audit.day \in AuditedDay
  /\ audit.pc = "repair" => audit.value = GuardianDay(audit.factors, audit.day)

AInv == Types /\ Working /\ Progress /\ LeftOut /\ Settling /\ Auditing

(***************************************************************************)
(* Minutes, days and factors.                                              *)
(***************************************************************************)
\* A nonempty set of minutes has a first one.
LEMMA Least ==
  ASSUME NEW S, S \subseteq Nat, S # {}
  PROVE  Min(S) \in S
<1> DEFINE R == OpToRel(<, Nat)
<1>1. IsWellFoundedOn(R, Nat)
  BY NatLessThanWellFounded
<1>2. PICK x \in S : \A y \in S : <<y, x>> \notin R
  BY <1>1, WFMin
<1>3. \A y \in S : x <= y
  <2> TAKE y \in S
  <2>1. <<y, x>> \notin R
    BY <1>2
  <2>2. ~(y < x)
    BY <2>1 DEF OpToRel
  <2> QED BY <2>2, x \in Nat, y \in Nat
<1> HIDE DEF R
<1> QED BY <1>3 DEF Min

\* A day lies between its first and its last minute.
LEMMA DayBounds ==
  ASSUME NEW d \in Day
  PROVE  Min(d) \in Nat /\ Max(d) \in Nat /\ d = Min(d)..Max(d) /\ d # {}
<1>1. PICK i \in d, j \in d : d = i..j
  BY DayAssumption
<1>2. i \in Nat /\ j \in Nat
  BY DayAssumption
<1>3. Min(d) = i
  BY <1>1, <1>2 DEF Min
<1>4. Max(d) = j
  BY <1>1, <1>2 DEF Max
<1> QED BY <1>1, <1>2, <1>3, <1>4

LEMMA MinuteIsNat == Minute \subseteq Nat
BY DayAssumption DEF Minute

LEMMA MinuteOfDay ==
  ASSUME NEW m \in Minute
  PROVE  DayOf(m) \in Day
BY DEF Minute, DayOf

LEMMA FactorsAreActions == Factors \subseteq Action
BY DEF Factors

\* adjustBinanceBars adjusts every minute of an answered day on its own side of a
\* split.
LEMMA DayAdjusted ==
  ASSUME NEW d \in Day, NEW F \in SUBSET Action, NEW B, d \subseteq B
  PROVE  AdjustDay(F, d, B) = Adjusted(F, d)
<1>1. /\ Min(d) \in Nat /\ Max(d) \in Nat /\ d = Min(d)..Max(d)
      /\ F \subseteq Nat /\ B \cap d = d
  BY DayBounds, ActionAssumption
<1> DEFINE i == Min(d)
           j == Max(d)
<1> HIDE DEF i, j
<1>2. /\ i \in Nat /\ j \in Nat /\ d = i..j
      /\ AdjustDay(F, d, B) = IF \E a \in F : i < a /\ j >= a
                                THEN [m \in d |-> ApplyFactors(F, m)]
                              ELSE [m \in d |-> {a \in F : j < a}]
  BY <1>1 DEF AdjustDay, Crosses, i, j
<1>3. CASE \E a \in F : i < a /\ j >= a
  BY <1>2, <1>3 DEF Adjusted
<1>4. CASE ~ \E a \in F : i < a /\ j >= a
  <2>1. ASSUME NEW m \in d PROVE {a \in F : j < a} = {a \in F : m < a}
    <3>1. m \in Nat /\ i <= m /\ m <= j
      BY <1>2
    <3>2. \A a \in F : j < a <=> m < a
      BY <3>1, <1>1, <1>2, <1>4
    <3> QED BY <3>2
  <2>2. [m \in d |-> {a \in F : j < a}] = [m \in d |-> {a \in F : m < a}]
    BY <2>1
  <2> QED BY <2>2, <1>2, <1>4 DEF Adjusted, ApplyFactors
<1> QED BY <1>3, <1>4

\* So does applyCorporateActionFactors on a day that no split falls into.
LEMMA GuardianAdjusted ==
  ASSUME WholeDays, NEW d \in AuditedDay, NEW F \in SUBSET Action
  PROVE  GuardianDay(F, d) = Adjusted(F, d)
<1>1. d \in Day
  BY LimitAssumption
<1>2. /\ Min(d) \in Nat /\ Max(d) \in Nat /\ d = Min(d)..Max(d)
      /\ F \subseteq Nat
  BY <1>1, DayBounds, ActionAssumption
<1>3. \A a \in F : ~(Min(d) < a /\ Max(d) >= a)
  BY DEF WholeDays
<1> DEFINE i == Min(d)
           j == Max(d)
<1>4. /\ i \in Nat /\ j \in Nat /\ d = i..j
      /\ \A a \in F : ~(i < a /\ j >= a)
      /\ GuardianDay(F, d) = [m \in d |-> {a \in F : i < a}]
  BY <1>2, <1>3 DEF GuardianDay, ApplyFactors
<1> HIDE DEF i, j
<1>5. ASSUME NEW m \in d PROVE {a \in F : i < a} = {a \in F : m < a}
  <2>1. m \in Nat /\ i <= m /\ m <= j
    BY <1>4
  <2>2. \A a \in F : i < a <=> m < a
    BY <2>1, <1>2, <1>4
  <2> QED BY <2>2
<1>6. [m \in d |-> {a \in F : i < a}] = [m \in d |-> {a \in F : m < a}]
  BY <1>5
<1> QED BY <1>4, <1>6 DEF Adjusted, ApplyFactors

\* A function on some minutes of a day is a value of a 1D row.
LEMMA PartIsValue ==
  ASSUME NEW d \in Day, NEW p \in SUBSET d, NEW v \in [p -> SUBSET Action]
  PROVE  v \in UNION {DayValue(e) : e \in Day}
<1>1. v \in DayValue(d)
  BY Zenon DEF DayValue
<1> QED BY <1>1

LEMMA AdjustedIsValue ==
  ASSUME NEW d \in Day, NEW F \in SUBSET Action, NEW B
  PROVE  AdjustDay(F, d, B) \in UNION {DayValue(e) : e \in Day}
<1>1. [m \in B \cap d |-> ApplyFactors(F, m)] \in UNION {DayValue(e) : e \in Day}
  <2>1. [m \in B \cap d |-> ApplyFactors(F, m)] \in [B \cap d -> SUBSET Action]
    BY DEF ApplyFactors
  <2>2. B \cap d \in SUBSET d
    OBVIOUS
  <2> QED BY <2>1, <2>2, PartIsValue, Zenon
<1>2. [m \in d |-> {a \in F : Max(d) < a}] \in UNION {DayValue(e) : e \in Day}
  <2>1. [m \in d |-> {a \in F : Max(d) < a}] \in [d -> SUBSET Action]
    OBVIOUS
  <2>2. d \in SUBSET d
    OBVIOUS
  <2> QED BY <2>1, <2>2, PartIsValue, Zenon
<1> QED BY <1>1, <1>2, Zenon DEF AdjustDay

LEMMA MinuteIsValue ==
  ASSUME NEW m, NEW F \in SUBSET Action
  PROVE  ApplyFactors(F, m) \in MinuteValue
BY DEF ApplyFactors, MinuteValue

\* The factors depend on which jobs run, wait for a retry or are completed.
LEMMA SameFactors ==
  ASSUME \A a \in Action : job'[a].status \in {"running", "retry", "completed"}
                             <=> job[a].status \in {"running", "retry", "completed"}
  PROVE  Factors' = Factors
BY DEF Factors

LEMMA SameRows ==
  ASSUME Factors' = Factors, minuteRow' = minuteRow, dayRow' = dayRow,
         exempt' = exempt
  PROVE  (MinutesRight' <=> MinutesRight) /\ (DaysRight' <=> DaysRight)
BY DEF MinutesRight, DaysRight

LEMMA OverlapTyped ==
  ASSUME audit \in Audit
  PROVE  /\ Overlap \in Audit /\ Overlap.overlap = (audit.pc # "idle")
         /\ Overlap.pc = audit.pc /\ Overlap.day = audit.day
         /\ Overlap.value = audit.value /\ Overlap.factors = audit.factors
BY DEF Audit, Overlap

LEMMA IdleTyped == WorkerIdle \in Worker /\ AuditIdle \in Audit
<1>1. WorkerIdle \in Worker
  BY DEF WorkerIdle, Worker
<1>2. SomeDay \in Day
  BY DayAssumption DEF SomeDay
<1>3. [m \in Minute |-> NoBar] \in [Minute -> MinuteValue \cup {NoBar}]
  OBVIOUS
<1> DEFINE V == (UNION {DayValue(d) : d \in Day}) \cup {NoBar}
           O == [Minute -> MinuteValue \cup {NoBar}]
           o == [m \in Minute |-> NoBar]
<1>5. NoBar \in V
  BY Zenon
<1>7. o \in O
  BY <1>3, Zenon
<1> HIDE DEF V, O, o
<1>6. [pc |-> "idle", range |-> {}, factors |-> {}, old |-> o, left |-> {}, toMark |-> {},
       day |-> SomeDay, value |-> NoBar, overlap |-> FALSE] \in
        [pc: {"idle", "minutes", "loop", "cascade", "rollup", "days", "repair"},
         range: SUBSET Minute, factors: SUBSET Action, old: O, left: SUBSET Minute,
         toMark: SUBSET Minute, day: Day, value: V, overlap: BOOLEAN]
  BY <1>2, <1>5, <1>7
<1>4. AuditIdle \in Audit
  BY <1>6 DEF AuditIdle, Audit, O, o, V
<1> QED BY <1>1, <1>4

LEMMA FailedTyped ==
  ASSUME worker \in Worker
  PROVE  Failed \in Worker /\ Failed.pc = "error" /\ Failed.job = worker.job
<1>1. Failed = [pc |-> "error", job |-> worker.job, factors |-> {}, frame |-> 1,
                bars |-> {}, left |-> {}]
  <2>1. PICK w : w = Failed
    OBVIOUS
  <2>2. w = [pc |-> "error", job |-> worker.job, factors |-> {}, frame |-> 1,
             bars |-> {}, left |-> {}]
    BY <2>1 DEF Failed, WorkerIdle
  <2> QED BY <2>1, <2>2
<1>2. worker.job \in Action \cup {NoBar}
  BY DEF Worker
<1>3. Failed \in Worker
  BY ONLY <1>1, <1>2 DEF Worker
<1> QED BY ONLY <1>1, <1>3

\* After the minutes come the days, and then the job is done.
LEMMA NextFrameTyped ==
  ASSUME worker \in Worker
  PROVE  /\ NextFrame \in Worker /\ NextFrame.job = worker.job
         /\ NextFrame.factors = worker.factors
         /\ worker.frame = 1 => NextFrame.pc = "delete" /\ NextFrame.frame = 2
         /\ worker.frame = 2 => NextFrame.pc = "done"
<1>1. worker.frame \in 1..2
  BY DEF Worker
<1>2. CASE worker.frame = 1
  <2>1. PICK w : w = NextFrame
    OBVIOUS
  <2>2. w = [worker EXCEPT !.pc = "delete", !.frame = 2, !.bars = {}]
    BY <1>2, <2>1 DEF NextFrame, Worker
  <2>3. /\ w \in Worker /\ w.job = worker.job /\ w.factors = worker.factors
        /\ w.pc = "delete" /\ w.frame = 2
    BY <2>2, 2 \in 1..2 DEF Worker
  <2> QED BY <1>2, <2>1, <2>3
<1>3. CASE worker.frame = 2
  <2>1. PICK w : w = NextFrame
    OBVIOUS
  <2>2. w = [worker EXCEPT !.pc = "done", !.bars = {}]
    BY <1>3, <2>1 DEF NextFrame, Worker
  <2>3. /\ w \in Worker /\ w.job = worker.job /\ w.factors = worker.factors
        /\ w.pc = "done"
    BY <2>2 DEF Worker
  <2> QED BY <1>3, <2>1, <2>3
<1> QED BY <1>1, <1>2, <1>3

\* An audit in progress beside a step of the worker.
LEMMA AuditOverlapped ==
  ASSUME Auditing, audit \in Audit, audit' = Overlap
  PROVE  Auditing' /\ (audit'.pc # "idle" => audit'.overlap)
BY OverlapTyped DEF Auditing

LEMMA InitAInv == Init => AInv
<1> SUFFICES ASSUME Init PROVE AInv
  OBVIOUS
<1> USE DEF Init
<1>1. Types
  <2>1. ASSUME NEW d \in Day PROVE [m \in d |-> {}] \in UNION {DayValue(e) : e \in Day}
    <3>1. [m \in d |-> {}] \in [d -> SUBSET Action] /\ d \in SUBSET d
      OBVIOUS
    <3> QED BY <3>1, PartIsValue, Zenon
  <2>2. dayRow \in DayRows
    BY <2>1 DEF DayRows
  <2>3. NoJob \in JobRow
    BY LimitAssumption DEF NoJob, JobRow, JobStatus
  <2> QED BY <2>2, <2>3, IdleTyped DEF Types, MinuteValue
<1>2. Working /\ Progress /\ LeftOut
  BY DEF Working, Progress, LeftOut, Busy, WorkerIdle
<1>3. Settling /\ Auditing
  BY DEF Settling, Settled, Auditing, AuditIdle
<1> QED BY <1>1, <1>2, <1>3 DEF AInv

(***************************************************************************)
(* The job queue and the worker.                                           *)
(***************************************************************************)
LEMMA DetectStep ==
  ASSUME AInv, NEW a \in Action, Detect(a)
  PROVE  AInv'
<1> USE DEF Detect, rowVars
<1>1. [status |-> "pending", attempts |-> 0, due |-> TRUE] \in JobRow
  BY LimitAssumption DEF JobRow, JobStatus
<1>2. Types'
  BY <1>1 DEF AInv, Types
<1>3. \A b \in Action : b # a => job'[b] = job[b]
  BY DEF AInv, Types
<1>4. job'[a].status = "pending" /\ job[a].status = "absent"
  BY DEF AInv, Types
<1>5. Factors' = Factors
  BY <1>3, <1>4, SameFactors
<1>6. (MinutesRight' <=> MinutesRight) /\ (DaysRight' <=> DaysRight)
  BY <1>5, SameRows
<1>7. Working'
  BY <1>3, <1>4, <1>5 DEF AInv, Working, Busy
<1>8. Progress' /\ LeftOut'
  BY <1>6 DEF AInv, Progress, LeftOut
<1>9. Settling'
  BY <1>3, <1>4, <1>6 DEF AInv, Settling, Settled
<1>10. Auditing'
  BY <1>5 DEF AInv, Auditing, GuardianDay, ApplyFactors
<1> QED BY <1>2, <1>7, <1>8, <1>9, <1>10 DEF AInv

LEMMA TimePassesStep ==
  ASSUME AInv, NEW a \in Action, TimePasses(a)
  PROVE  AInv'
<1> USE DEF TimePasses, rowVars
<1>1. Types' /\ \A b \in Action : job'[b].status = job[b].status
  BY DEF AInv, Types, JobRow
<1>2. Factors' = Factors
  BY <1>1, SameFactors
<1>3. (MinutesRight' <=> MinutesRight) /\ (DaysRight' <=> DaysRight)
  BY <1>2, SameRows
<1>4. Working'
  BY <1>1, <1>2 DEF AInv, Working, Busy
<1>5. Progress' /\ LeftOut'
  BY <1>3 DEF AInv, Progress, LeftOut
<1>6. Settling'
  BY <1>1, <1>3 DEF AInv, Settling, Settled
<1>7. Auditing'
  BY <1>2 DEF AInv, Auditing, GuardianDay, ApplyFactors
<1> QED BY <1>1, <1>4, <1>5, <1>6, <1>7 DEF AInv

LEMMA JobStartStep ==
  ASSUME AInv, NEW a \in Action, JobStart(a)
  PROVE  AInv'
<1> USE DEF JobStart, rowVars
<1>1. [status |-> "running", attempts |-> job[a].attempts + 1, due |-> FALSE] \in JobRow
  BY LimitAssumption DEF AInv, Types, JobRow, JobStatus
<1>2. job' \in [Action -> JobRow] /\ job'[a].status = "running"
  BY <1>1 DEF AInv, Types
<1>3. worker' = [pc |-> "started", job |-> a, factors |-> {}, frame |-> 1,
                bars |-> {}, left |-> {}]
  BY DEF WorkerIdle
<1>9. /\ worker' \in Worker /\ worker'.pc = "started" /\ worker'.job = a
      /\ worker'.frame = 1
  <2>1. a \in Action \cup {NoBar}
    OBVIOUS
  <2>2. worker' \in Worker
    BY ONLY <1>3, <2>1 DEF Worker
  <2> QED BY ONLY <1>3, <2>2
<1>4. Types'
  BY <1>2, <1>9, OverlapTyped DEF AInv, Types
<1>5. Auditing' /\ (audit'.pc # "idle" => audit'.overlap)
  BY AuditOverlapped DEF AInv, Types
<1>6. Working'
  BY <1>2, <1>9, <1>5 DEF Working, Busy
<1>7. Progress' /\ LeftOut'
  BY <1>9 DEF Progress, LeftOut
<1>8. Settling'
  BY <1>2 DEF Settling, Settled
<1> QED BY <1>4, <1>5, <1>6, <1>7, <1>8 DEF AInv

LEMMA BackfillFactorsStep ==
  ASSUME AInv, BackfillFactors
  PROVE  AInv'
<1> USE DEF BackfillFactors, rowVars
<1>1. Factors' = Factors
  BY SameFactors
<1>2. /\ worker' \in Worker /\ worker'.pc = "delete" /\ worker'.job = worker.job
      /\ worker'.factors = Factors /\ worker'.frame = worker.frame
  BY FactorsAreActions DEF AInv, Types, Worker
<1>3. Types'
  BY <1>2, OverlapTyped DEF AInv, Types
<1>4. Auditing' /\ (audit'.pc # "idle" => audit'.overlap)
  BY AuditOverlapped DEF AInv, Types
<1>5. (MinutesRight' <=> MinutesRight) /\ (DaysRight' <=> DaysRight)
  BY <1>1, SameRows
<1>6. Working'
  BY <1>1, <1>2, <1>4 DEF AInv, Working, Busy
<1>7. Progress' /\ LeftOut'
  BY <1>2, <1>5 DEF AInv, Progress, LeftOut
<1>8. Settling'
  BY <1>5 DEF AInv, Settling, Settled
<1> QED BY <1>3, <1>4, <1>6, <1>7, <1>8 DEF AInv

\* An answer that covers B: what it leaves out becomes exempt.
LEMMA BackfillDeleteStep ==
  ASSUME AInv, NEW B \in SUBSET Minute, BackfillDelete(B)
  PROVE  AInv'
<1> USE DEF BackfillDelete
<1>1. Factors' = Factors
  BY SameFactors
<1>2. worker \in Worker /\ worker.frame \in 1..2
  BY DEF AInv, Types, Worker
<1>3. Auditing' /\ (audit'.pc # "idle" => audit'.overlap)
  BY AuditOverlapped DEF AInv, Types
<1>4. /\ minuteRow' \in [Minute -> MinuteValue \cup {NoBar}] /\ dayRow' \in DayRows
      /\ exempt' \in [minutes: SUBSET Minute, days: SUBSET Day]
  <2>1. minuteRow' \in [Minute -> MinuteValue \cup {NoBar}]
    BY DEF AInv, Types
  <2>2. dayRow' \in DayRows
    BY DEF AInv, Types, DayRows
  <2>3. exempt' \in [minutes: SUBSET Minute, days: SUBSET Day]
    BY DEF AInv, Types
  <2> QED BY <2>1, <2>2, <2>3
<1>5. Settling'
  BY DEF AInv, Working, Busy, Settling, Settled
<1>6. ASSUME /\ worker' \in Worker /\ worker'.job = worker.job
             /\ worker'.factors = worker.factors
             /\ worker'.pc \in {"delete", "write", "done"}
             /\ Progress' /\ LeftOut'
      PROVE  AInv'
  <2>1. Types'
    BY <1>4, <1>6, OverlapTyped DEF AInv, Types
  <2>2. Working'
    BY <1>1, <1>3, <1>6 DEF AInv, Working, Busy
  <2> QED BY <1>3, <1>5, <1>6, <2>1, <2>2 DEF AInv
<1>7. CASE worker.frame = 1
  <2>1. /\ worker' = IF B = {} THEN NextFrame
                     ELSE [worker EXCEPT !.pc = "write", !.bars = B, !.left = B]
        /\ exempt'.minutes = exempt.minutes \cup (Minute \ B)
    BY <1>7 DEF AInv, Types, Frames
  <2>2. CASE B = {}
    <3>1. /\ worker' \in Worker /\ worker'.job = worker.job
          /\ worker'.factors = worker.factors /\ worker'.pc = "delete"
      BY <1>2, <1>7, <2>1, <2>2, NextFrameTyped
    <3>2. MinutesRight'
      BY <2>1, <2>2 DEF MinutesRight
    <3>3. Progress' /\ LeftOut'
      BY <3>1, <3>2 DEF Progress, LeftOut
    <3> QED BY <1>6, <3>1, <3>3
  <2>3. CASE B # {}
    <3>1. /\ worker' \in Worker /\ worker'.job = worker.job
          /\ worker'.factors = worker.factors /\ worker'.pc = "write"
          /\ worker'.frame = 1 /\ worker'.bars = B /\ worker'.left = B
      BY <1>2, <1>7, <2>1, <2>3 DEF Worker
    <3>2. Progress' /\ LeftOut'
      BY <3>1, <2>1 DEF Progress, LeftOut
    <3> QED BY <1>6, <3>1, <3>2
  <2> QED BY <2>2, <2>3
<1>8. CASE worker.frame = 2
  <2> DEFINE L == {Min(d) : d \in {e \in Day : B \cap e # {}}}
  <2>1. /\ worker' = IF B = {} THEN NextFrame
                     ELSE [worker EXCEPT !.pc = "write", !.bars = B, !.left = L]
        /\ minuteRow' = minuteRow /\ exempt'.minutes = exempt.minutes
        /\ exempt'.days = exempt.days \cup {d \in Day : ~(d \subseteq B)}
    BY <1>8 DEF AInv, Types, Frames
  <2>2. L \in SUBSET Minute
    <3> SUFFICES ASSUME NEW d \in Day PROVE Min(d) \in Minute
      OBVIOUS
    <3>1. Min(d) \in Nat /\ Max(d) \in Nat /\ d = Min(d)..Max(d) /\ d # {}
      BY DayBounds
    <3>2. Min(d) \in d
      BY <3>1
    <3> QED BY <3>2 DEF Minute
  <2> HIDE DEF L
  <2>3. MinutesRight'
    <3>1. MinutesRight
      BY <1>8 DEF AInv, Progress
    <3> QED BY <1>1, <2>1, <3>1 DEF MinutesRight
  <2>4. CASE B = {}
    <3>1. /\ worker' \in Worker /\ worker'.job = worker.job
          /\ worker'.factors = worker.factors /\ worker'.pc = "done"
      BY <1>2, <1>8, <2>1, <2>4, NextFrameTyped
    <3>2. \A d \in Day : d # {}
      BY DayBounds
    <3>3. DaysRight'
      BY <2>1, <2>4, <3>2 DEF DaysRight
    <3>4. Progress' /\ LeftOut'
      BY <3>1, <3>3, <2>3 DEF Progress, LeftOut
    <3> QED BY <1>6, <3>1, <3>4
  <2>5. CASE B # {}
    <3>1. /\ worker' \in Worker /\ worker'.job = worker.job
          /\ worker'.factors = worker.factors /\ worker'.pc = "write"
          /\ worker'.frame = 2 /\ worker'.bars = B
      BY <1>2, <1>8, <2>1, <2>2, <2>5 DEF Worker
    <3>2. Progress' /\ LeftOut'
      BY <3>1, <2>1, <2>3 DEF Progress, LeftOut
    <3> QED BY <1>6, <3>1, <3>2
  <2> QED BY <2>4, <2>5
<1> QED BY <1>2, <1>7, <1>8

LEMMA BackfillWriteStep ==
  ASSUME AInv, BackfillWrite
  PROVE  AInv'
<1> USE DEF BackfillWrite
<1>1. Factors' = Factors
  BY SameFactors
<1>2. /\ worker' \in Worker /\ worker'.pc = "write" /\ worker'.job = worker.job
      /\ worker'.factors = worker.factors /\ worker'.frame = worker.frame
      /\ worker'.bars = worker.bars /\ worker'.left \subseteq worker.left
  BY DEF AInv, Types, Worker
<1>3. worker.frame \in 1..2 /\ worker.factors \in SUBSET Action
      /\ worker.left \subseteq Minute
  BY DEF AInv, Types, Worker
<1>4. Min(worker.left) \in Minute /\ Min(worker.left) \in worker.left
  BY <1>3, MinuteIsNat, Least
<1>5. Types'
  <2>1. \A m \in Minute : ApplyFactors(worker.factors, m) \in MinuteValue
    BY <1>3, MinuteIsValue
  <2>2. \A d \in Day : AdjustDay(worker.factors, d, worker.bars) \in
                         UNION {DayValue(e) : e \in Day}
    BY <1>3, AdjustedIsValue
  <2>3. minuteRow' \in [Minute -> MinuteValue \cup {NoBar}]
    BY <1>4, <2>1 DEF AInv, Types
  <2>4. dayRow' \in DayRows
    <3>1. DayOf(Min(worker.left)) \in Day
      BY <1>4, MinuteOfDay
    <3> QED BY <3>1, <2>2 DEF AInv, Types, DayRows
  <2>5. exempt' \in [minutes: SUBSET Minute, days: SUBSET Day]
    BY DEF AInv, Types
  <2> QED BY <1>2, <2>3, <2>4, <2>5, OverlapTyped DEF AInv, Types
<1>6. Auditing' /\ (audit'.pc # "idle" => audit'.overlap)
  BY AuditOverlapped DEF AInv, Types
<1>7. Working'
  BY <1>1, <1>2, <1>6 DEF AInv, Working, Busy
<1>8. Progress'
  <2>1. ASSUME worker.frame = 2
        PROVE  minuteRow' = minuteRow /\ exempt'.minutes = exempt.minutes
    BY <2>1 DEF Frames, AInv, Types
  <2>2. worker.frame = 2 => (MinutesRight' <=> MinutesRight)
    BY <1>1, <2>1 DEF MinutesRight
  <2> QED BY <1>2, <2>2 DEF AInv, Progress
<1>9. Settling'
  BY DEF AInv, Working, Busy, Settling, Settled
<1>10. LeftOut'
  <2>1. CASE worker.frame = 1
    <3>1. exempt.minutes \ {Min(worker.left)} \subseteq exempt'.minutes
      BY <2>1 DEF Frames, AInv, Types
    <3> QED BY <1>2, <1>4, <2>1, <3>1 DEF AInv, LeftOut
  <2>2. CASE worker.frame = 2
    <3>1. \A d \in Day : d \in exempt.days /\ ~(d \subseteq worker.bars) => d \in exempt'.days
      BY <2>2 DEF Frames, AInv, Types
    <3> QED BY <1>2, <2>2, <3>1 DEF AInv, LeftOut
  <2> QED BY <1>3, <2>1, <2>2
<1> QED BY <1>5, <1>6, <1>7, <1>8, <1>9, <1>10 DEF AInv

\* What verifyStored finds equal is adjusted by the current factors.
LEMMA BackfillVerifyStep ==
  ASSUME AInv, BackfillVerify
  PROVE  AInv'
<1> USE DEF BackfillVerify, rowVars
<1>1. Factors' = Factors
  BY SameFactors
<1>2. /\ worker \in Worker /\ worker.frame \in 1..2 /\ worker.factors = Factors
  BY DEF AInv, Types, Worker, Working, Busy
<1>3. (MinutesRight' <=> MinutesRight) /\ (DaysRight' <=> DaysRight)
  BY <1>1, SameRows
<1>4. Auditing' /\ (audit'.pc # "idle" => audit'.overlap)
  BY AuditOverlapped DEF AInv, Types
<1>5. Settling'
  BY DEF AInv, Working, Busy, Settling, Settled
<1>6. CASE worker' = Failed
  <2>1. worker' \in Worker /\ worker'.pc = "error" /\ worker'.job = worker.job
    BY <1>2, <1>6, FailedTyped
  <2>2. Types'
    BY <2>1, OverlapTyped DEF AInv, Types
  <2>3. Working' /\ Progress' /\ LeftOut'
    BY <1>1, <1>4, <2>1 DEF AInv, Working, Progress, LeftOut, Busy
  <2> QED BY <1>4, <1>5, <2>2, <2>3 DEF AInv
<1>7. CASE worker' # Failed
  <2>1. /\ worker' = NextFrame
        /\ IF worker.frame = 1
             THEN \A m \in worker.bars : minuteRow[m] = ApplyFactors(worker.factors, m)
             ELSE \A d \in Day : worker.bars \cap d # {} =>
                    dayRow[d] = AdjustDay(worker.factors, d, worker.bars)
    BY <1>2, <1>7 DEF Frames
  <2>2. /\ worker' \in Worker /\ worker'.job = worker.job
        /\ worker'.factors = worker.factors
        /\ worker.frame = 1 => worker'.pc = "delete"
        /\ worker.frame = 2 => worker'.pc = "done"
    BY <1>2, <2>1, NextFrameTyped
  <2>3. Types'
    BY <2>2, OverlapTyped DEF AInv, Types
  <2>4. Working'
    BY <1>1, <1>2, <1>4, <2>2 DEF AInv, Working, Busy
  <2>5. ASSUME worker.frame = 1 PROVE MinutesRight
    BY <1>2, <2>1, <2>5 DEF AInv, LeftOut, MinutesRight
  <2>6. ASSUME worker.frame = 2 PROVE MinutesRight /\ DaysRight
    <3>1. MinutesRight
      BY <2>6 DEF AInv, Progress
    <3>2. ASSUME NEW d \in Day, d \subseteq worker.bars
          PROVE  dayRow[d] = Adjusted(Factors, d)
      <4>1. worker.bars \cap d # {}
        BY <3>2, DayBounds
      <4>2. dayRow[d] = AdjustDay(worker.factors, d, worker.bars)
        BY <2>1, <2>6, <4>1
      <4> QED BY <1>2, <3>2, <4>2, DayAdjusted, FactorsAreActions
    <3>3. \A d \in Day : d \subseteq worker.bars \/ d \in exempt.days
      BY <2>6 DEF AInv, LeftOut
    <3> QED BY <3>1, <3>2, <3>3 DEF DaysRight
  <2>7. Progress' /\ LeftOut'
    BY <1>2, <1>3, <2>2, <2>5, <2>6 DEF Progress, LeftOut
  <2> QED BY <1>4, <1>5, <2>3, <2>4, <2>7 DEF AInv
<1> QED BY <1>6, <1>7

LEMMA JobCompleteStep ==
  ASSUME AInv, JobComplete
  PROVE  AInv'
<1> USE DEF JobComplete, rowVars
<1>1. worker.job \in Action /\ job[worker.job].status = "running"
  BY DEF AInv, Working, Busy
<1>2. /\ job' \in [Action -> JobRow] /\ job'[worker.job].status = "completed"
      /\ \A b \in Action : b # worker.job => job'[b] = job[b]
  BY <1>1 DEF AInv, Types, JobRow, JobStatus
<1>3. Factors' = Factors
  BY <1>1, <1>2, SameFactors
<1>4. (MinutesRight' <=> MinutesRight) /\ (DaysRight' <=> DaysRight)
  BY <1>3, SameRows
<1>5. Types'
  BY <1>2, IdleTyped, OverlapTyped DEF AInv, Types
<1>6. Auditing'
  BY AuditOverlapped DEF AInv, Types
<1>7. Working' /\ Progress' /\ LeftOut'
  BY DEF Working, Progress, LeftOut, Busy, WorkerIdle
<1>8. Settling'
  BY <1>4 DEF AInv, Progress, Settling
<1> QED BY <1>5, <1>6, <1>7, <1>8 DEF AInv

LEMMA JobErrorStep ==
  ASSUME AInv, JobError
  PROVE  AInv'
<1> USE DEF JobError, rowVars
<1>1. worker.job \in Action /\ job[worker.job].status = "running"
  BY DEF AInv, Working, Busy
<1>2. /\ job' \in [Action -> JobRow]
      /\ \/ job'[worker.job].status = "retry"
         \/ job'[worker.job].status = "failed" /\ lastEnd' = "failed"
  BY <1>1 DEF AInv, Types, JobRow, JobStatus
<1>3. Types'
  BY <1>2, IdleTyped, OverlapTyped DEF AInv, Types
<1>4. Auditing'
  BY AuditOverlapped DEF AInv, Types
<1>5. Working' /\ Progress' /\ LeftOut'
  BY DEF Working, Progress, LeftOut, Busy, WorkerIdle
<1>6. Settling'
  BY <1>1, <1>2 DEF Settling, Settled
<1> QED BY <1>3, <1>4, <1>5, <1>6 DEF AInv

LEMMA BackfillFailsStep ==
  ASSUME AInv, BackfillFails
  PROVE  AInv'
<1> USE DEF BackfillFails, rowVars
<1>1. Factors' = Factors
  BY SameFactors
<1>2. worker' \in Worker /\ worker'.pc = "error" /\ worker'.job = worker.job
  BY FailedTyped DEF AInv, Types
<1>3. Types'
  BY <1>2, OverlapTyped DEF AInv, Types
<1>4. Auditing' /\ (audit'.pc # "idle" => audit'.overlap)
  BY AuditOverlapped DEF AInv, Types
<1>5. Working' /\ Progress' /\ LeftOut'
  BY <1>1, <1>2, <1>4 DEF AInv, Working, Progress, LeftOut, Busy
<1>6. Settling'
  BY DEF AInv, Working, Busy, Settling, Settled
<1> QED BY <1>3, <1>4, <1>5, <1>6 DEF AInv

LEMMA OutcomeLostStep ==
  ASSUME AInv, OutcomeLost
  PROVE  AInv'
<1> USE DEF OutcomeLost, rowVars
<1>1. Factors' = Factors
  BY SameFactors
<1>2. Types'
  BY IdleTyped DEF AInv, Types
<1>3. Working' /\ Progress' /\ LeftOut'
  BY DEF Working, Progress, LeftOut, Busy, WorkerIdle
<1>4. Settling'
  BY DEF AInv, Working, Busy, Settling, Settled
<1>5. Auditing'
  BY <1>1 DEF AInv, Auditing, GuardianDay, ApplyFactors
<1> QED BY <1>2, <1>3, <1>4, <1>5 DEF AInv

LEMMA CrashStep ==
  ASSUME AInv, Crash
  PROVE  AInv'
<1> USE DEF Crash, rowVars
<1>1. Factors' = Factors
  BY SameFactors
<1>2. (MinutesRight' <=> MinutesRight) /\ (DaysRight' <=> DaysRight)
  BY <1>1, SameRows
<1>3. Types'
  BY IdleTyped DEF AInv, Types
<1>4. Working' /\ Progress' /\ LeftOut'
  BY DEF Working, Progress, LeftOut, Busy, WorkerIdle
<1>5. Settling'
  BY <1>2 DEF AInv, Settling, Settled
<1>6. Auditing'
  BY DEF Auditing, AuditIdle
<1> QED BY <1>3, <1>4, <1>5, <1>6 DEF AInv

(***************************************************************************)
(* The Guardian.                                                           *)
(***************************************************************************)
\* An audit that writes no row: its new locals have to be right.
LEMMA AuditMoves ==
  ASSUME AInv, UNCHANGED <<minuteRow, dayRow, job, worker, exempt, lastEnd>>,
         audit' \in Audit, Auditing',
         Busy => (audit'.pc # "idle" => audit'.overlap)
  PROVE  AInv'
<1>1. Factors' = Factors
  BY SameFactors
<1>2. (MinutesRight' <=> MinutesRight) /\ (DaysRight' <=> DaysRight)
  BY <1>1, SameRows
<1>3. Types'
  BY DEF AInv, Types
<1>4. Working' /\ Progress' /\ LeftOut'
  BY <1>1, <1>2 DEF AInv, Working, Progress, LeftOut, Busy
<1>5. Settling'
  BY <1>2 DEF AInv, Settling, Settled
<1> QED BY <1>3, <1>4, <1>5 DEF AInv

\* A write of a minute is right, or remembered as overlapping.
LEMMA MinuteWriteRight ==
  ASSUME AInv, NEW m \in Minute, audit.pc # "idle", Factors' = Factors, MinuteWritten(m),
         minuteRow' = [minuteRow EXCEPT ![m] = ApplyFactors(audit.factors, m)]
  PROVE  /\ exempt' \in [minutes: SUBSET Minute, days: SUBSET Day]
         /\ exempt'.days = exempt.days
         /\ Busy => exempt.minutes \subseteq exempt'.minutes
         /\ MinutesRight => MinutesRight'
<1>1. /\ exempt' \in [minutes: SUBSET Minute, days: SUBSET Day]
      /\ exempt'.days = exempt.days
      /\ exempt'.minutes = IF audit.overlap \/ Busy THEN exempt.minutes \cup {m}
                               ELSE exempt.minutes \ {m}
  BY DEF AInv, Types, MinuteWritten
<1>2. \A k \in Minute : k # m => minuteRow'[k] = minuteRow[k]
  BY DEF AInv, Types
<1>3. minuteRow'[m] = ApplyFactors(audit.factors, m)
  BY DEF AInv, Types
<1>4. m \in exempt'.minutes \/ minuteRow'[m] = ApplyFactors(Factors, m)
  BY <1>1, <1>3 DEF AInv, Auditing
<1>5. MinutesRight => MinutesRight'
  BY <1>1, <1>2, <1>4 DEF MinutesRight
<1> QED BY <1>1, <1>5

\* So is a write of a day.
LEMMA DayWriteRight ==
  ASSUME AInv, NEW d \in Day, NEW v, NEW src, Factors' = Factors, DayWritten(d, src),
         dayRow' = [dayRow EXCEPT ![d] = v],
         (~audit.overlap /\ ~Busy /\ src \cap exempt.minutes = {})
            => v = Adjusted(Factors, d)
  PROVE  /\ exempt' \in [minutes: SUBSET Minute, days: SUBSET Day]
         /\ exempt'.minutes = exempt.minutes
         /\ Busy => exempt.days \subseteq exempt'.days
         /\ DaysRight => DaysRight'
<1>1. /\ exempt' \in [minutes: SUBSET Minute, days: SUBSET Day]
      /\ exempt'.minutes = exempt.minutes
      /\ exempt'.days = IF audit.overlap \/ Busy \/ src \cap exempt.minutes # {}
                              THEN exempt.days \cup {d} ELSE exempt.days \ {d}
  BY DEF AInv, Types, DayWritten
<1>2. \A e \in Day : e # d => dayRow'[e] = dayRow[e]
  BY DEF AInv, Types, DayRows
<1>3. dayRow'[d] = v
  BY DEF AInv, Types, DayRows
<1>4. d \in exempt'.days \/ dayRow'[d] = Adjusted(Factors, d)
  BY <1>1, <1>3
<1>5. DaysRight => DaysRight'
  BY <1>1, <1>2, <1>4 DEF DaysRight
<1> QED BY <1>1, <1>5

LEMMA AuditMinutesStep ==
  ASSUME AInv, NEW M \in AuditRange, AuditMinutes(M)
  PROVE  AInv'
<1> USE DEF AuditMinutes, rowVars
<1>1. Factors' = Factors
  BY SameFactors
<1>2. /\ audit' \in Audit /\ audit'.pc = "minutes" /\ audit'.factors = Factors
      /\ audit'.overlap = Busy
  BY IdleTyped, RangeAssumption, FactorsAreActions DEF Audit, Busy
<1>3. Auditing'
  BY <1>1, <1>2 DEF Auditing
<1> QED BY <1>2, <1>3, AuditMoves

LEMMA AuditLoadStep ==
  ASSUME AInv, AuditLoad
  PROVE  AInv'
<1> USE DEF AuditLoad, rowVars
<1>1. Factors' = Factors
  BY SameFactors
<1>2. /\ audit' \in Audit /\ audit'.pc = "loop" /\ audit'.factors = audit.factors
      /\ audit'.overlap = audit.overlap
  BY DEF AInv, Types, Audit
<1>3. Auditing'
  BY <1>1, <1>2 DEF AInv, Auditing
<1>4. Busy => audit'.overlap
  BY <1>2 DEF AInv, Working
<1> QED BY <1>2, <1>3, <1>4, AuditMoves

LEMMA AuditBarStep ==
  ASSUME AInv, AuditBar
  PROVE  AInv'
<1> USE DEF AuditBar
<1> DEFINE m == Min(audit.left)
           v == ApplyFactors(audit.factors, m)
<1>1. Factors' = Factors
  BY SameFactors
<1>2. audit.left \subseteq Minute /\ audit.left # {} /\ audit.factors \in SUBSET Action
  BY DEF AInv, Types, Audit
<1>3. m \in Minute
  BY <1>2, MinuteIsNat, Least
<1>4. DayOf(m) \in Day /\ v \in MinuteValue
  BY <1>2, <1>3, MinuteOfDay, MinuteIsValue
<1> HIDE DEF m
<1>5. Busy => audit.overlap
  BY DEF AInv, Working
<1>6. CASE audit.old[m] = v
  <2>1. /\ audit' = [audit EXCEPT !.left = @ \ {m}, !.old[m] = NoBar]
        /\ UNCHANGED <<minuteRow, dayRow, job, worker, exempt, lastEnd>>
    BY <1>6 DEF m
  <2>2. /\ audit' \in Audit /\ audit'.pc = "loop" /\ audit'.factors = audit.factors
        /\ audit'.overlap = audit.overlap
    BY <2>1 DEF AInv, Types, Audit
  <2>3. Auditing'
    BY <1>1, <2>2 DEF AInv, Auditing
  <2> QED BY <1>5, <2>1, <2>2, <2>3, AuditMoves
<1>7. CASE audit.old[m] # v
  <2>1. /\ minuteRow' = [minuteRow EXCEPT ![m] = v]
        /\ audit' = [audit EXCEPT !.pc = "cascade", !.left = @ \ {m}, !.old[m] = NoBar,
                       !.toMark = @ \cup {m}, !.day = DayOf(m)]
        /\ MinuteWritten(m)
        /\ UNCHANGED <<dayRow, job, worker, lastEnd>>
    BY <1>7 DEF m
  <2>2. /\ audit' \in Audit /\ audit'.pc = "cascade" /\ audit'.factors = audit.factors
        /\ audit'.overlap = audit.overlap
    BY <1>3, <1>4, <2>1 DEF AInv, Types, Audit
  <2>3. /\ exempt' \in [minutes: SUBSET Minute, days: SUBSET Day]
        /\ exempt'.days = exempt.days
        /\ Busy => exempt.minutes \subseteq exempt'.minutes
        /\ MinutesRight => MinutesRight'
    BY <1>1, <1>3, <2>1, MinuteWriteRight
  <2>4. DaysRight => DaysRight'
    BY <1>1, <2>1, <2>3 DEF DaysRight
  <2>5. Types'
    BY <1>3, <1>4, <2>1, <2>2, <2>3 DEF AInv, Types
  <2>6. Auditing'
    BY <1>1, <2>2 DEF AInv, Auditing
  <2>7. Working' /\ Progress'
    BY <1>1, <1>5, <2>1, <2>2, <2>3, <2>4 DEF AInv, Working, Progress, Busy
  <2>8. Settling'
    BY <2>1, <2>3, <2>4 DEF AInv, Settling, Settled
  <2>9. LeftOut'
    BY <2>1, <2>3 DEF AInv, LeftOut, Busy
  <2> QED BY <2>5, <2>6, <2>7, <2>8, <2>9 DEF AInv
<1> QED BY <1>6, <1>7

LEMMA AuditCascadeStep ==
  ASSUME AInv, AuditCascade
  PROVE  AInv'
<1> USE DEF AuditCascade, rowVars
<1> DEFINE v == RollupDay(audit.day)
<1>1. Factors' = Factors
  BY SameFactors
<1>2. Busy => audit.overlap
  BY DEF AInv, Working
<1>3. audit.day \in Day
  BY DEF AInv, Types, Audit
<1>4. v # NoBar => /\ v = [k \in audit.day |-> minuteRow[k]]
                   /\ v \in UNION {DayValue(d) : d \in Day}
  <2> SUFFICES ASSUME v # NoBar
               PROVE  /\ v = [k \in audit.day |-> minuteRow[k]]
                      /\ v \in UNION {DayValue(d) : d \in Day}
    OBVIOUS
  <2>1. v = [k \in audit.day |-> minuteRow[k]] /\ \A k \in audit.day : minuteRow[k] # NoBar
    BY DEF RollupDay
  <2>2. \A k \in audit.day : minuteRow[k] \in SUBSET Action
    BY <1>3, <2>1 DEF AInv, Types, Minute, MinuteValue
  <2>3. v \in [audit.day -> SUBSET Action] /\ audit.day \in SUBSET audit.day
    BY <2>1, <2>2
  <2>4. v \in UNION {DayValue(d) : d \in Day}
    BY <1>3, <2>3, PartIsValue, Zenon
  <2> QED BY <2>1, <2>4
<1> HIDE DEF v
<1>5. audit' = IF v = NoBar THEN [audit EXCEPT !.pc = "loop", !.day = SomeDay]
               ELSE [audit EXCEPT !.pc = "rollup", !.value = v]
  BY DEF v
<1>6. /\ audit' \in Audit /\ audit'.pc \in {"loop", "rollup"}
      /\ audit'.factors = audit.factors /\ audit'.overlap = audit.overlap
      /\ audit'.pc = "rollup" => audit'.day = audit.day
      /\ audit'.pc = "rollup" => audit'.value = [k \in audit.day |-> minuteRow[k]]
  <2>1. audit \in Audit
    BY DEF AInv, Types
  <2>2. CASE v = NoBar
    <3>1. audit' = [audit EXCEPT !.pc = "loop", !.day = SomeDay]
      BY <1>5, <2>2
    <3>2. SomeDay \in Day
      BY DayAssumption DEF SomeDay
    <3> QED BY ONLY <2>1, <3>1, <3>2 DEF Audit
  <2>3. CASE v # NoBar
    <3>1. audit' = [audit EXCEPT !.pc = "rollup", !.value = v]
      BY <1>5, <2>3
    <3>2. /\ audit' \in Audit /\ audit'.pc = "rollup" /\ audit'.value = v
          /\ audit'.factors = audit.factors /\ audit'.overlap = audit.overlap
          /\ audit'.day = audit.day
      BY ONLY <1>4, <2>1, <2>3, <3>1 DEF Audit
    <3> QED BY <1>4, <2>3, <3>2
  <2> QED BY <2>2, <2>3
<1>7. Auditing'
  BY <1>1, <1>6 DEF AInv, Auditing
<1> QED BY <1>2, <1>6, <1>7, AuditMoves

LEMMA AuditRollupStep ==
  ASSUME AInv, AuditRollup
  PROVE  AInv'
<1> USE DEF AuditRollup
<1>1. Factors' = Factors
  BY SameFactors
<1>2. Busy => audit.overlap
  BY DEF AInv, Working
<1>3. audit.day \in Day /\ audit.value \in (UNION {DayValue(d) : d \in Day}) \cup {NoBar}
  BY DEF AInv, Types, Audit
<1>4. /\ audit' \in Audit /\ audit'.pc = "loop" /\ audit'.factors = audit.factors
      /\ audit'.overlap = audit.overlap
  <2>1. SomeDay \in Day
    BY DayAssumption DEF SomeDay
  <2> QED BY <2>1 DEF AInv, Types, Audit
<1>5. /\ exempt' \in [minutes: SUBSET Minute, days: SUBSET Day]
      /\ exempt'.minutes = exempt.minutes
      /\ Busy => exempt.days \subseteq exempt'.days
  BY <1>3 DEF AInv, Types, DayWritten
<1>6. (MinutesRight /\ DaysRight) => DaysRight'
  <2> SUFFICES ASSUME MinutesRight, DaysRight PROVE DaysRight'
    OBVIOUS
  <2>1. ASSUME ~audit.overlap, audit.day \cap exempt.minutes = {}
        PROVE  audit.value = Adjusted(Factors, audit.day)
    <3>1. audit.value = [m \in audit.day |-> minuteRow[m]]
      BY <2>1 DEF AInv, Auditing
    <3>2. \A m \in audit.day : minuteRow[m] = ApplyFactors(Factors, m)
      BY <1>3, <2>1 DEF MinutesRight, Minute
    <3> QED BY <3>1, <3>2 DEF Adjusted
  <2> QED BY <1>1, <1>3, <2>1, DayWriteRight
<1>7. MinutesRight => MinutesRight'
  BY <1>1, <1>5 DEF MinutesRight
<1>8. Types'
  BY <1>3, <1>4, <1>5 DEF AInv, Types, DayRows
<1>9. Auditing'
  BY <1>1, <1>4 DEF AInv, Auditing
<1>10. Working' /\ Progress'
  BY <1>1, <1>2, <1>4, <1>6, <1>7 DEF AInv, Working, Progress, Busy
<1>11. Settling'
  BY <1>6, <1>7 DEF AInv, Settling, Settled
<1>12. LeftOut'
  BY <1>5 DEF AInv, LeftOut, Busy
<1> QED BY <1>8, <1>9, <1>10, <1>11, <1>12 DEF AInv

LEMMA AuditMarkStep ==
  ASSUME AInv, AuditMark
  PROVE  AInv'
<1>1. Auditing' /\ audit'.pc = "idle"
  BY DEF AuditMark, Auditing, AuditIdle
<1> QED BY <1>1, IdleTyped, AuditMoves DEF AuditMark

LEMMA AuditDayStep ==
  ASSUME AInv, NEW d \in AuditedDay, AuditDay(d)
  PROVE  AInv'
<1> USE DEF AuditDay, rowVars
<1>1. Factors' = Factors
  BY SameFactors
<1>2. /\ audit' \in Audit /\ audit'.pc = "days" /\ audit'.factors = Factors
      /\ audit'.overlap = Busy /\ audit'.day = d
  BY IdleTyped, LimitAssumption, FactorsAreActions DEF Audit, Busy
<1>3. Auditing'
  BY <1>1, <1>2 DEF Auditing
<1> QED BY <1>2, <1>3, AuditMoves

LEMMA AuditDayLoadStep ==
  ASSUME AInv, AuditDayLoad
  PROVE  AInv'
<1> USE DEF AuditDayLoad, rowVars
<1> DEFINE g == GuardianDay(audit.factors, audit.day)
<1>1. Factors' = Factors
  BY SameFactors
<1>2. Busy => audit.overlap
  BY DEF AInv, Working
<1>3. audit \in Audit /\ audit.day \in AuditedDay /\ audit.day \in Day
      /\ audit.factors \in SUBSET Action
  BY LimitAssumption DEF AInv, Types, Audit, Auditing
<1>4. g \in UNION {DayValue(d) : d \in Day}
  <2>1. g \in [audit.day -> SUBSET Action] /\ audit.day \in SUBSET audit.day
    BY <1>3 DEF GuardianDay, ApplyFactors
  <2> HIDE DEF g
  <2> QED BY <1>3, <2>1, PartIsValue, Zenon
<1>5. CASE audit' = AuditIdle
  <2>2. audit'.pc = "idle"
    BY ONLY <1>5 DEF AuditIdle
  <2>1. Auditing' /\ audit'.pc = "idle"
    BY ONLY <2>2 DEF Auditing
  <2> QED BY <1>5, <2>1, IdleTyped, AuditMoves
<1>6. CASE audit' = [audit EXCEPT !.pc = "repair", !.value = g]
  <2> HIDE DEF g
  <2>1. /\ audit' \in Audit /\ audit'.pc = "repair" /\ audit'.value = g
        /\ audit'.factors = audit.factors /\ audit'.overlap = audit.overlap
        /\ audit'.day = audit.day
    BY ONLY <1>3, <1>4, <1>6 DEF Audit
  <2>2. Auditing'
    BY <1>1, <1>3, <2>1 DEF AInv, Auditing, g, GuardianDay
  <2> QED BY <1>2, <2>1, <2>2, AuditMoves
<1> QED BY <1>5, <1>6

LEMMA AuditDayRepairStep ==
  ASSUME WholeDays, AInv, AuditDayRepair
  PROVE  AInv'
<1> USE DEF AuditDayRepair
<1>1. Factors' = Factors
  BY SameFactors
<1>2. Busy => audit.overlap
  BY DEF AInv, Working
<1>3. /\ audit.day \in AuditedDay /\ audit.day \in Day
      /\ audit.value \in (UNION {DayValue(d) : d \in Day}) \cup {NoBar}
  BY LimitAssumption DEF AInv, Types, Audit, Auditing
<1>4. ~audit.overlap => audit.value = Adjusted(Factors, audit.day)
  BY <1>3, GuardianAdjusted, FactorsAreActions DEF AInv, Auditing
<1>5. /\ exempt' \in [minutes: SUBSET Minute, days: SUBSET Day]
      /\ exempt'.minutes = exempt.minutes
      /\ Busy => exempt.days \subseteq exempt'.days
      /\ DaysRight => DaysRight'
  BY <1>1, <1>3, <1>4, DayWriteRight
<1>6. MinutesRight => MinutesRight'
  BY <1>1, <1>5 DEF MinutesRight
<1>7. Types'
  BY <1>3, <1>5, IdleTyped DEF AInv, Types, DayRows
<1>8. Auditing' /\ audit'.pc = "idle"
  BY DEF Auditing, AuditIdle
<1>9. Working' /\ Progress'
  BY <1>1, <1>5, <1>6, <1>8 DEF AInv, Working, Progress, Busy
<1>10. Settling'
  BY <1>5, <1>6 DEF AInv, Settling, Settled
<1>11. LeftOut'
  BY <1>5 DEF AInv, LeftOut, Busy
<1> QED BY <1>7, <1>8, <1>9, <1>10, <1>11 DEF AInv

(***************************************************************************)
(* The theorem.                                                            *)
(***************************************************************************)
LEMMA NextAInv ==
  ASSUME WholeDays, AInv, [Next]_vars
  PROVE  AInv'
<1>1. CASE UNCHANGED vars
  <2>1. UNCHANGED <<minuteRow, dayRow, job, worker, exempt, lastEnd, audit>>
    BY <1>1 DEF vars
  <2>2. Factors' = Factors
    BY <2>1, SameFactors
  <2>3. Auditing'
    BY <2>1, <2>2 DEF AInv, Auditing, GuardianDay, ApplyFactors
  <2>4. audit' \in Audit /\ (Busy => (audit'.pc # "idle" => audit'.overlap))
    BY <2>1 DEF AInv, Types, Working
  <2> QED BY <2>1, <2>3, <2>4, AuditMoves
<1>2. ASSUME NEW a \in Action, Detect(a) \/ TimePasses(a) \/ JobStart(a)
      PROVE  AInv'
  BY <1>2, DetectStep, TimePassesStep, JobStartStep
<1>3. CASE BackfillStep \/ BackfillFails \/ OutcomeLost
  <2>1. ASSUME NEW B \in Answered[worker.frame], BackfillDelete(B) PROVE AInv'
    <3>1. B \in SUBSET Minute
      BY AnswerAssumption DEF AInv, Types, Worker
    <3> QED BY <2>1, <3>1, BackfillDeleteStep
  <2> QED BY <1>3, <2>1, BackfillFactorsStep, BackfillWriteStep,
     BackfillVerifyStep, JobCompleteStep, JobErrorStep, BackfillFailsStep, OutcomeLostStep
     DEF BackfillStep
<1>4. ASSUME NEW M \in AuditRange, AuditMinutes(M) PROVE AInv'
  BY <1>4, AuditMinutesStep
<1>5. ASSUME NEW d \in AuditedDay, AuditDay(d) PROVE AInv'
  BY <1>5, AuditDayStep
<1>6. CASE AuditStep
  BY <1>6, AuditLoadStep, AuditBarStep, AuditCascadeStep, AuditRollupStep, AuditMarkStep,
     AuditDayLoadStep, AuditDayRepairStep DEF AuditStep
<1>7. CASE Crash
  BY <1>7, CrashStep
<1> QED BY <1>1, <1>2, <1>3, <1>4, <1>5, <1>6, <1>7 DEF Next

\* Settling gives the property in the quiet states.
LEMMA QuietRight == AInv => AdjustedWhenQuiet
<1> SUFFICES ASSUME AInv, Quiet, lastEnd = "completed"
             PROVE  MinutesRight /\ DaysRight
  BY DEF AdjustedWhenQuiet, MinutesRight, DaysRight, Adjusted, ApplyFactors
<1>1. Settled
  BY DEF Settled, Quiet, Outstanding
<1> QED BY <1>1 DEF AInv, Settling

\* For every calendar, set of splits, answers, audit ranges, limit of attempts and
\* number of failures and crashes: when no job is outstanding and the last one to end
\* completed, every stored candle is forward-adjusted by exactly the actions applied
\* so far, but for rows an audit beside a job wrote and rows the exchange's answer to
\* the job left out.  The 1D audit must visit no day that a split falls into:
\* applyCorporateActionFactors multiplies such a day as a whole.
THEOREM CandlesAdjusted == WholeDays /\ Spec => []AdjustedWhenQuiet
<1> DEFINE WInv == WholeDays /\ AInv
<1>1. WholeDays /\ Init => WInv
  BY InitAInv
<1>2. WInv /\ [Next]_vars => WInv'
  <2>1. WholeDays => WholeDays'
    BY DEF WholeDays
  <2> QED BY <2>1, NextAInv
<1>3. WInv => AdjustedWhenQuiet
  BY QuietRight
<1> HIDE DEF WInv
<1> QED BY <1>1, <1>2, <1>3, PTL DEF Spec
=============================================================================
