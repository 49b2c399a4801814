-------------------------- MODULE DailyAuditProofs --------------------------
(***************************************************************************)
(* Three facts about the official 1D audit, for every calendar, window,    *)
(* size of a piece, listing and number of failures and restarts: a range   *)
(* whose audit succeeded is right, a remembered failure is not forgotten,  *)
(* and the rotation through the history leaves no day out.                 *)
(*                                                                         *)
(* The invariant behind the first two: no range reaches beyond the last    *)
(* closed day, a day once right stays right, whatever an audit of another  *)
(* range does, and the pieces of a range audited so far are right while    *)
(* none failed.  The third counts the passes (the last section).           *)
(***************************************************************************)
EXTENDS DailyAudit, FiniteSetTheorems, TLAPS

Span == [start: Int, end: Int]
Status == {"none", "ok", "retry", "replay"}
PassType == [pc: {"idle", "ranges", "pieces"}, todo: Seq(Span), force: SUBSET Span,
             piece: Int, failed: BOOLEAN]

Types ==
  /\ lastDay \in Int /\ cursor \in Nat /\ listed \in {0, FirstDay}
  /\ row \in [Day -> {"right", "wrong", "none"}]
  /\ retries \in SUBSET Span /\ IsFiniteSet(retries)
  /\ state \in [status: Status, range: Span]
  /\ pass \in PassType
  /\ pass.pc = "pieces" => pass.todo # <<>>

\* Ranges are made of closed days.
Closed ==
  /\ lastDay >= StartDay /\ state.range.end <= lastDay
  /\ \A r \in retries : r.end <= lastDay
  /\ \A n \in 1..Len(pass.todo) : pass.todo[n].end <= lastDay
  /\ \A d \in cleared : d \in Int /\ d <= lastDay

Right(d) == row[d] = "right" /\ d \notin behind

\* What was audited of the range in pieces.
PiecesRight ==
  (pass.pc = "pieces" /\ ~pass.failed) =>
    \A d \in Bars :
      (d >= Head(pass.todo).start /\ d <= Head(pass.todo).end /\ d < pass.piece) => Right(d)

DInv == Types /\ Closed /\ ClearedDaysRight /\ PiecesRight

-----------------------------------------------------------------------------
(***************************************************************************)
(* The ranges of a pass.                                                   *)
(***************************************************************************)
\* Distinct keeps entries of the sequence.
LEMMA DistinctKeeps ==
  ASSUME NEW s \in Seq(Span)
  PROVE  /\ Distinct(s) \in Seq(Span)
         /\ \A k \in 1..Len(Distinct(s)) : \E i \in 1..Len(s) : Distinct(s)[k] = s[i]
<1> DEFINE keep == {i \in DOMAIN s : s[i].start <= s[i].end /\ \A j \in 1..(i - 1) : s[j] # s[i]}
           n == Cardinality(keep)
           Upto(i) == {j \in keep : j <= i}
           f == [i \in keep |-> Cardinality(Upto(i))]
<1>1. DOMAIN s = 1..Len(s) /\ Len(s) \in Nat
  OBVIOUS
<1>2. keep \subseteq 1..Len(s) /\ IsFiniteSet(1..Len(s))
  BY <1>1, FS_Interval
<1> HIDE DEF keep
<1>3. IsFiniteSet(keep) /\ n \in Nat /\ keep \subseteq Nat
  <2>1. IsFiniteSet(keep)
    BY <1>2, FS_Subset
  <2>2. \A i \in 1..Len(s) : i \in Nat
    BY <1>1
  <2> QED BY <1>2, <2>1, <2>2, FS_CardinalityType
<1>4. \A i \in keep : IsFiniteSet(Upto(i)) /\ Cardinality(Upto(i)) \in Nat /\ Cardinality(Upto(i)) <= n
  BY <1>3, FS_Subset, FS_CardinalityType
<1>5. \A i \in keep : i \in Upto(i)
  BY <1>3
<1>6. ASSUME NEW i \in keep, NEW j \in keep, i < j PROVE Cardinality(Upto(i)) < Cardinality(Upto(j))
  <2>1. i \in Nat /\ j \in Nat
    BY <1>3
  <2>2. Upto(i) \subseteq Upto(j)
    <3>1. \A x \in Nat : x <= i => x <= j
      BY <1>6, <2>1
    <3> QED BY <1>3, <3>1
  <2>3. j \in Upto(j) /\ j \notin Upto(i)
    BY <1>6, <2>1
  <2> HIDE DEF Upto
  <2> QED BY <1>4, <2>2, <2>3, FS_Subset
<1>7. \A i \in keep : Cardinality(Upto(i)) \in 1..n
  <2> SUFFICES ASSUME NEW i \in keep PROVE Cardinality(Upto(i)) # 0
    BY <1>3, <1>4
  <2> QED BY <1>4, <1>5, FS_EmptySet
<1> HIDE DEF Upto
<1>8. f \in Injection(keep, 1..n)
  <2>1. ASSUME NEW i \in keep, NEW j \in keep, f[i] = f[j] PROVE i = j
    <3>1. i \in Nat /\ j \in Nat /\ ~(i < j) /\ ~(j < i)
      BY <1>3, <1>4, <1>6, <2>1
    <3> QED BY <3>1
  <2> QED BY <1>7, <2>1 DEF Injection, IsInjective
<1>9. IsFiniteSet(1..n) /\ Cardinality(1..n) = n
  BY <1>3, FS_Interval
<1>10. f \in Surjection(keep, 1..n)
  BY <1>8, <1>9, FS_Injection
<1>11. \A k \in 1..n : \E i \in keep : Cardinality(Upto(i)) = k
  BY <1>10 DEF Surjection
<1>12. \A k \in 1..n : (CHOOSE i \in keep : Cardinality(Upto(i)) = k) \in keep
  BY <1>11
<1>13. PICK g : g = [k \in 1..n |-> CHOOSE i \in keep : Cardinality(Upto(i)) = k]
  OBVIOUS
<1>14. Distinct(s) = [k \in 1..n |-> s[g[k]]]
  BY <1>13 DEF Distinct, keep, Upto
<1>15. \A k \in 1..n : g[k] \in 1..Len(s)
  BY <1>2, <1>12, <1>13
<1>16. PICK t : t = Distinct(s)
  OBVIOUS
<1>17. t \in [1..n -> Span] /\ \A k \in 1..n : t[k] = s[g[k]]
  BY <1>1, <1>14, <1>15, <1>16
<1>18. t \in Seq(Span) /\ Len(t) = n
  BY <1>3, <1>17
<1> QED BY <1>15, <1>16, <1>17, <1>18

\* The recent days and the block of the history are ranges of closed days.
LEMMA WindowClosed ==
  ASSUME Types, Closed
  PROVE  /\ Recent \in Span /\ Recent.end <= lastDay
         /\ Historical \in Span /\ Historical.end <= lastDay
         /\ (Block + 1) % BlockCount \in Nat
<1>0. /\ RecentDays \in Nat /\ RecentDays > 0 /\ LookbackDays \in Nat /\ lastDay \in Int
      /\ RecentDays <= LookbackDays /\ cursor \in Nat
  BY DaysAssumption DEF Types
<1>1. Recent \in Span /\ Recent.end <= lastDay
  BY <1>0 DEF Recent, Span
<1>2. BlockCount \in Nat /\ BlockCount > 0
  <2>1. \A a, c \in Nat : c > 0 /\ a >= c => a \div c \in Nat /\ a \div c > 0
    <3> SUFFICES ASSUME NEW a \in Nat, NEW c \in Nat, c > 0, a >= c
                 PROVE  a \div c \in Nat /\ a \div c > 0
      OBVIOUS
    <3>1. a \div c \in Nat /\ a % c \in 0..(c - 1)
      OBVIOUS
    <3>2. a = c * (a \div c) + (a % c)
      OBVIOUS
    <3>3. a \div c # 0
      BY <3>1, <3>2
    <3> QED BY <3>1, <3>3
  <2>2. LookbackDays + RecentDays - 1 \in Nat /\ LookbackDays + RecentDays - 1 >= RecentDays
    BY <1>0
  <2> QED BY <1>0, <2>1, <2>2 DEF BlockCount
<1>3. Block \in Nat
  BY <1>0, <1>2 DEF Block
<1>4. (Block + 1) % BlockCount \in Nat
  BY <1>2, <1>3
<1> DEFINE first == lastDay - LookbackDays + Block * RecentDays
           last == Min({first + RecentDays - 1, lastDay - RecentDays})
<1>5. first \in Int
  <2>1. Block * RecentDays \in Int
    BY <1>0, <1>3
  <2> QED BY <1>0, <2>1
<1>6. last \in Int /\ last <= lastDay
  <2> HIDE DEF first
  <2>1. \E x \in {first + RecentDays - 1, lastDay - RecentDays} :
          \A y \in {first + RecentDays - 1, lastDay - RecentDays} : x <= y
    BY <1>0, <1>5
  <2>2. /\ last \in {first + RecentDays - 1, lastDay - RecentDays}
        /\ last <= lastDay - RecentDays
    BY <2>1 DEF Min
  <2> QED BY <1>0, <1>5, <2>2
<1>7. Historical = [start |-> first, end |-> last]
  BY DEF Historical
<1> HIDE DEF first, last
<1>8. Historical \in Span /\ Historical.end <= lastDay
  BY <1>5, <1>6, <1>7 DEF Span
<1> QED BY <1>1, <1>4, <1>8

-----------------------------------------------------------------------------
(***************************************************************************)
(* repairTimeframeRange.                                                   *)
(***************************************************************************)
\* What the repair of range r may do to kline_guardian_state.
Writes(r) == state' = state \/ \E status \in Status : state' = Upsert(status, r)

\* A repair leaves right days right, and writes the state for its range or not at all.
Harmless(r) ==
  /\ row' \in [Day -> {"right", "wrong", "none"}]
  /\ \A d \in Bars : Right(d) => Right(d)'
  /\ Writes(r)

LEMMA FailureWrites ==
  ASSUME NEW status \in Status, NEW r, NEW force, RecordFailure(status, r, force)
  PROVE  Writes(r)
BY DEF RecordFailure, Writes, Status

\* An answer that stops in the middle, at a day that was right or not.
LEMMA StopsHarmless ==
  ASSUME Types, NEW r, NEW force, NEW fix \in SUBSET Day, NEW failed,
         RepairStops(r, force, fix, failed)
  PROVE  Harmless(r) /\ failed
<1>1. PICK k \in fix, written \in BOOLEAN :
        LET before == {d \in fix : d < k}
        IN /\ row' = [d \in Day |-> IF d \in before \/ (d = k /\ written)
                                    THEN "right" ELSE row[d]]
           /\ behind' = IF written /\ row[k] # "right" THEN (behind \ before) \cup {k}
                        ELSE behind \ before
  BY DEF RepairStops
<1>2. row' \in [Day -> {"right", "wrong", "none"}]
  BY <1>1 DEF Types
<1>3. ASSUME NEW d \in Bars, Right(d) PROVE Right(d)'
  <2>1. d \in Day /\ row[d] = "right" /\ d \notin behind
    BY <1>3 DEF Bars, Right
  <2>2. row'[d] = "right"
    BY <1>1, <2>1
  <2>3. d \notin behind'
    BY <1>1, <2>1
  <2> QED BY <2>2, <2>3 DEF Right
<1>4. Writes(r) /\ failed
  BY FailureWrites DEF RepairStops, Status
<1> QED BY <1>2, <1>3, <1>4 DEF Harmless

\* An answer that was compared and written.
LEMMA AnswerHarmless ==
  ASSUME Types, NEW r \in Span, NEW force, NEW got \in SUBSET Bars, NEW failed \in BOOLEAN,
         RepairAnswer(r, force, got, failed)
  PROVE  /\ Harmless(r)
         /\ ~failed => /\ ~ResponseError(r, got) /\ ~Unchecked(r, got)
                       /\ \A d \in got : Right(d)'
<1> DEFINE fix == {d \in got : row[d] # "right" \/ force}
           write == row' = [d \in Day |-> IF d \in fix THEN "right" ELSE row[d]]
<1>0. fix \in SUBSET Day /\ got \in SUBSET Day /\ fix \subseteq got
  BY DEF Bars
<1>1. \/ RepairEmpty(r, force, got, failed)
      \/ RepairEnds(r, got, failed) /\ write
      \/ RepairIncomplete(r, force, got, fix, failed) /\ write
      \/ RepairStops(r, force, fix, failed)
      \/ RepairBreaks(r, force, got, fix, failed) /\ write
  BY DEF RepairAnswer
<1> USE DEF Status
<1>2. CASE RepairEmpty(r, force, got, failed)
  BY <1>2, FailureWrites DEF RepairEmpty, rowVars, Harmless, Right, Types
<1>3. ASSUME write, behind' \subseteq behind, Writes(r)
      PROVE  Harmless(r) /\ \A d \in got : row'[d] = "right"
  <2>1. row' \in [Day -> {"right", "wrong", "none"}]
    BY <1>3 DEF Types
  <2>2. \A d \in Bars : Right(d) => Right(d)'
    BY <1>3 DEF Right, Bars
  <2>3. \A d \in got : row'[d] = "right"
    BY <1>0, <1>3
  <2> QED BY <1>3, <2>1, <2>2, <2>3 DEF Harmless
<1> HIDE DEF write, fix
<1>4. CASE RepairEnds(r, got, failed) /\ write
  <2>1. behind' = behind \ got /\ Writes(r) /\ ~ResponseError(r, got) /\ failed = Unchecked(r, got)
    BY <1>4 DEF RepairEnds, Writes
  <2>2. Harmless(r) /\ \A d \in got : row'[d] = "right"
    BY <1>3, <1>4, <2>1
  <2> QED BY <2>1, <2>2 DEF Right
<1>5. CASE RepairIncomplete(r, force, got, fix, failed) /\ write
  BY <1>3, <1>5, FailureWrites DEF RepairIncomplete
<1>6. CASE RepairStops(r, force, fix, failed)
  BY <1>0, <1>6, StopsHarmless
<1>7. CASE RepairBreaks(r, force, got, fix, failed) /\ write
  <2>1. failed /\ behind' \subseteq behind
    BY <1>7 DEF RepairBreaks
  <2>2. Writes(r)
    BY <1>7, FailureWrites DEF RepairBreaks, Writes
  <2> QED BY <1>3, <1>7, <2>1, <2>2
<1> QED BY <1>1, <1>2, <1>4, <1>5, <1>6, <1>7

\* A repair that returns no error leaves every bar of its range right.
LEMMA RepairRight ==
  ASSUME Types, NEW r \in Span, NEW asked, NEW failed \in BOOLEAN,
         RepairTimeframeRange(r, asked, failed)
  PROVE  /\ Harmless(r)
         /\ ~failed => \A d \in Bars : d >= r.start /\ d <= r.end => Right(d)'
<1>0. /\ r.start \in Int /\ r.end \in Int /\ FirstDay \in Nat /\ listed \in {0, FirstDay}
      /\ \A d \in Bars : d \in Int /\ d >= FirstDay /\ d \notin Quiet
  BY ListingAssumption, DaysAssumption DEF Span, Types, Bars, Day
<1>1. CASE NotListed(r, failed)
  <2>1. Harmless(r)
    BY <1>1 DEF NotListed, rowVars, Harmless, Right, Types, Writes, Status
  <2>2. \A d \in Bars : ~(d >= r.start /\ d <= r.end)
    BY <1>0, <1>1 DEF NotListed
  <2> QED BY <2>1, <2>2
<1>2. CASE RestError(r, ForceReplay(r, asked), failed)
  BY <1>2, FailureWrites DEF RestError, rowVars, Harmless, Right, Types, Status
<1>3. ASSUME NEW got \in SUBSET Bars, RepairAnswer(r, ForceReplay(r, asked), got, failed)
      PROVE  /\ Harmless(r)
             /\ ~failed => \A d \in Bars : d >= r.start /\ d <= r.end => Right(d)'
  <2>1. /\ Harmless(r)
        /\ ~failed => ~ResponseError(r, got) /\ ~Unchecked(r, got) /\ \A d \in got : Right(d)'
    BY <1>3, AnswerHarmless
  <2>2. ASSUME ~failed, NEW d \in Bars, d >= r.start, d <= r.end PROVE d \in got
    <3>1. d \in Clip(r)
      BY <1>0, <2>2 DEF Clip, Days
    <3>2. d \notin NoTradeDays(r)
      BY <1>0 DEF NoTradeDays
    <3>3. CASE listed > 0
      BY <2>1, <2>2, <3>1, <3>2, <3>3 DEF ResponseError
    <3>4. CASE listed = 0
      BY <2>1, <2>2, <3>1, <3>2, <3>4 DEF Unchecked
    <3> QED BY <1>0, <3>3, <3>4
  <2> QED BY <2>1, <2>2
<1>4. \A d \in Clip(r) \cap Bars : (Clip(r) \cap Bars) \ {d} \in SUBSET Bars
  OBVIOUS
<1> QED BY <1>1, <1>2, <1>3, <1>4 DEF RepairTimeframeRange

-----------------------------------------------------------------------------
(***************************************************************************)
(* The steps.                                                              *)
(***************************************************************************)
\* What FailureKept says of one step.
FailureStep ==
  (Retryable /\ state' # state) => /\ state'.range.start <= state.range.start
                                   /\ state'.range.end >= state.range.end

\* upsertTimeframeAuditState writes a range of closed days, and over a failure only
\* one that covers it.
LEMMA WritesCover ==
  ASSUME Types, Closed, NEW r \in Span, r.end <= lastDay, Writes(r)
  PROVE  /\ state' \in [status: Status, range: Span] /\ state'.range.end <= lastDay
         /\ FailureStep
<1>1. CASE state' = state
  BY <1>1 DEF Types, Closed, FailureStep
<1>2. ASSUME NEW status \in Status, state' = Upsert(status, r), state' # state
      PROVE  /\ state' \in [status: Status, range: Span] /\ state'.range.end <= lastDay
             /\ FailureStep
  <2>1. /\ state' = [status |-> status, range |-> r]
        /\ Retryable => ~(r.start > state.range.start \/ r.end < state.range.end)
    BY <1>2 DEF Upsert
  <2>2. /\ r.start \in Int /\ r.end \in Int
        /\ state.range.start \in Int /\ state.range.end \in Int
    BY DEF Types, Span
  <2> QED BY <2>1, <2>2 DEF FailureStep
<1> QED BY <1>1, <1>2 DEF Writes

LEMMA DailyInit ==
  ASSUME Init
  PROVE  DInv
<1>1. PassIdle \in PassType
  <2>1. <<>> \in Seq(Span) /\ {} \in SUBSET Span /\ StartDay \in Int
    BY DaysAssumption
  <2> QED BY <2>1 DEF PassIdle, PassType
<1>2. NoRange \in Span /\ NoRange.end = StartDay
  BY DaysAssumption DEF NoRange, Span
<1>3. row \in [Day -> {"right", "wrong", "none"}]
  BY DEF Init, ClosedDay
<1>4. Types
  BY <1>1, <1>2, <1>3, ListingAssumption, DaysAssumption, FS_EmptySet
     DEF Init, Types, Status, PassIdle
<1>5. Closed
  BY <1>2, DaysAssumption DEF Init, Closed, PassIdle
<1>6. ClearedDaysRight /\ PiecesRight
  BY DEF Init, ClearedDaysRight, PiecesRight, PassIdle
<1> QED BY <1>4, <1>5, <1>6 DEF DInv

\* A step of the pass that repairs nothing.
LEMMA PassKeeps ==
  ASSUME DInv, UNCHANGED <<lastDay, row, behind, retries, state, cleared, listed>>,
         cursor' \in Nat, pass' \in PassType,
         pass'.pc = "pieces" => pass'.todo # <<>>,
         \A n \in 1..Len(pass'.todo) : pass'.todo[n].end <= lastDay,
         PiecesRight'
  PROVE  DInv' /\ FailureStep
<1>1. Types' /\ Closed' /\ FailureStep
  BY DEF DInv, Types, Closed, FailureStep
<1>2. ClearedDaysRight'
  BY DEF DInv, ClearedDaysRight
<1> QED BY <1>1, <1>2 DEF DInv

LEMMA BeginKeeps ==
  ASSUME DInv, PassBegin
  PROVE  DInv' /\ FailureStep
<1> DEFINE P == {r \in Span : r.end <= lastDay}
           saved == IF Retryable THEN <<state.range>> ELSE <<>>
<1>0. Types /\ Closed /\ UNCHANGED <<lastDay, row, behind, retries, state, cleared, listed>>
      /\ cursor' = (Block + 1) % BlockCount
  BY DEF DInv, PassBegin, rowVars
<1>1. PICK failed \in SetToSeqs(retries) :
        pass' = [PassIdle EXCEPT !.pc = "ranges",
                   !.todo = Distinct(<<Recent, Historical>> \o failed \o saved),
                   !.force = retries \cup ToSet(saved)]
  BY DEF PassBegin
<1>2. Recent \in P /\ Historical \in P /\ cursor' \in Nat /\ state.range \in P /\ retries \in SUBSET P
  BY <1>0, WindowClosed DEF Types, Closed
<1> HIDE DEF P
<1>3. failed \in Seq(P)
  <2>1. Cardinality(retries) \in Nat
    BY <1>0, FS_CardinalityType DEF Types
  <2>2. failed \in [1..Cardinality(retries) -> retries]
    BY DEF SetToSeqs
  <2> QED BY <1>2, <2>1, <2>2
<1>4. saved \in Seq(P) /\ ToSet(saved) \in SUBSET P
  BY <1>2 DEF ToSet
<1> HIDE DEF saved
<1>5. <<Recent, Historical>> \in Seq(P)
  BY <1>2
<1> DEFINE s == <<Recent, Historical>> \o failed \o saved
<1>6. s \in Seq(P)
  BY <1>3, <1>4, <1>5
<1>7. s \in Seq(Span) /\ \A i \in 1..Len(s) : s[i] \in P
  <2>1. P \subseteq Span
    BY DEF P
  <2> HIDE DEF s
  <2> QED BY <1>6, <2>1
<1> HIDE DEF s
<1>8. PICK t : t = Distinct(s)
  OBVIOUS
<1>9. t \in Seq(Span) /\ \A n \in 1..Len(t) : t[n].end <= lastDay
  BY <1>7, <1>8, DistinctKeeps DEF P
<1>10. retries \cup ToSet(saved) \in SUBSET Span
  BY <1>2, <1>4 DEF P
<1>11. pass' = [pc |-> "ranges", todo |-> t, force |-> retries \cup ToSet(saved),
               piece |-> StartDay, failed |-> FALSE]
  BY <1>1, <1>8 DEF PassIdle, s
<1>12. pass' \in PassType /\ pass'.pc = "ranges" /\ pass'.todo = t
  BY <1>9, <1>10, <1>11, DaysAssumption DEF PassType
<1>13. PiecesRight'
  BY <1>12 DEF PiecesRight
<1> QED BY <1>0, <1>2, <1>9, <1>12, <1>13, PassKeeps

\* The pass goes on to another range, or ends.
LEMMA MoveKeeps ==
  ASSUME DInv, PassEnd \/ PassSkips \/ AuditPieces
  PROVE  DInv' /\ FailureStep
<1>0. Types /\ Closed /\ UNCHANGED <<lastDay, row, behind, retries, state, cleared, listed>>
  BY DEF DInv, PassEnd, PassSkips, AuditPieces, rowVars
<1>1. cursor' \in Nat
  BY <1>0, WindowClosed DEF PassEnd, PassSkips, AuditPieces, Types
<1>2. CASE PassEnd
  <2>1. <<>> \in Seq(Span) /\ {} \in SUBSET Span /\ StartDay \in Int
    BY DaysAssumption
  <2>2. pass' \in PassType /\ pass'.pc = "idle" /\ pass'.todo = <<>>
    BY <1>2, <2>1 DEF PassEnd, PassIdle, PassType
  <2>3. PiecesRight'
    BY <2>2 DEF PiecesRight
  <2> QED BY <1>0, <1>1, <2>2, <2>3, PassKeeps
<1>3. CASE PassSkips
  <2>1. UNCHANGED pass
    BY <1>3 DEF PassSkips
  <2>2. PiecesRight'
    BY <1>0, <2>1 DEF DInv, PiecesRight, Right
  <2> QED BY <1>0, <1>1, <2>1, <2>2, PassKeeps DEF Types, Closed
<1>4. CASE AuditPieces
  <2>1. /\ pass.todo # <<>> /\ pass.todo \in Seq(Span)
        /\ pass' = [pass EXCEPT !.pc = "pieces", !.piece = Head(pass.todo).start]
    BY <1>0, <1>4 DEF AuditPieces, Types, PassType
  <2>2. PICK r \in Span : r = Head(pass.todo)
    BY <2>1
  <2>3. /\ pass' \in PassType /\ pass'.pc = "pieces" /\ pass'.todo = pass.todo
        /\ pass'.piece = r.start /\ r = Head(pass'.todo)
    <3>1. r.start \in Int
      BY DEF Span
    <3> QED BY <1>0, <2>1, <2>2, <3>1 DEF Types, PassType
  <2>4. PiecesRight'
    <3>1. \A d \in Bars : ~(d >= r.start /\ d < pass'.piece)
      BY <2>3, DaysAssumption DEF Bars, Day, Span
    <3> QED BY <2>3, <3>1 DEF PiecesRight
  <2> QED BY <1>0, <1>1, <2>1, <2>3, <2>4, PassKeeps DEF Closed
<1> QED BY <1>2, <1>3, <1>4

\* The outcome of a whole range, when success means that its bars are right.
LEMMA SettleKeeps ==
  ASSUME DInv, pass.todo # <<>>, NEW r \in Span, r = Head(pass.todo), NEW failed \in BOOLEAN,
         Settle(r, failed), Harmless(r), UNCHANGED <<lastDay, cursor, listed>>,
         ~failed => \A d \in Bars : d >= r.start /\ d <= r.end => Right(d)'
  PROVE  DInv' /\ FailureStep
<1>0. Types /\ Closed /\ pass.todo \in Seq(Span) /\ pass \in PassType
  BY DEF DInv, Types, PassType
<1>1. r.end <= lastDay
  BY <1>0 DEF Closed
<1>2. state' \in [status: Status, range: Span] /\ state'.range.end <= lastDay /\ FailureStep
  BY <1>0, <1>1, WritesCover DEF Harmless
<1>3. retries' \in SUBSET Span /\ IsFiniteSet(retries') /\ \A q \in retries' : q.end <= lastDay
  <2>1. retries' \in {retries \cup {r}, retries \ {r}}
    BY DEF Settle
  <2>2. IsFiniteSet(retries \cup {r}) /\ IsFiniteSet(retries \ {r})
    BY <1>0, FS_AddElement, FS_RemoveElement DEF Types
  <2> QED BY <1>0, <1>1, <2>1, <2>2 DEF Types, Closed
<1>4. /\ pass' = [pass EXCEPT !.pc = "ranges", !.todo = Tail(pass.todo), !.failed = FALSE]
      /\ cleared' = IF failed THEN {} ELSE Days(r)
  BY DEF Settle
<1>5. /\ Tail(pass.todo) \in Seq(Span)
      /\ \A n \in 1..Len(Tail(pass.todo)) :
           n + 1 \in 1..Len(pass.todo) /\ Tail(pass.todo)[n] = pass.todo[n + 1]
  BY <1>0
<1>6. pass' \in PassType /\ pass'.pc = "ranges" /\ pass'.todo = Tail(pass.todo)
  BY <1>0, <1>4, <1>5 DEF PassType
<1>7. Types'
  BY <1>0, <1>2, <1>3, <1>6 DEF Types, Harmless
<1>8. Closed'
  <2>1. \A d \in cleared' : d \in Int /\ d <= lastDay
    <3>1. \A d \in r.start..r.end : d \in Int /\ d <= lastDay
      BY <1>0, <1>1 DEF Types, Span
    <3> QED BY <1>4, <3>1 DEF Days
  <2>2. \A n \in 1..Len(pass'.todo) : pass'.todo[n].end <= lastDay
    BY <1>0, <1>5, <1>6 DEF Closed
  <2> QED BY <1>0, <1>2, <1>3, <2>1, <2>2 DEF Closed
<1>9. ClearedDaysRight'
  <2> SUFFICES ASSUME NEW d \in cleared' \cap Bars PROVE Right(d)'
    BY DEF ClearedDaysRight, Right
  <2>1. ~failed /\ d >= r.start /\ d <= r.end
    BY <1>4 DEF Days, Span
  <2> QED BY <2>1
<1>10. PiecesRight'
  BY <1>6 DEF PiecesRight
<1> QED BY <1>2, <1>7, <1>8, <1>9, <1>10 DEF DInv

LEMMA RangeKeeps ==
  ASSUME DInv, NEW failed \in BOOLEAN, AuditRange(failed)
  PROVE  DInv' /\ FailureStep
<1>1. Types /\ pass.todo # <<>> /\ pass.todo \in Seq(Span)
  BY DEF DInv, Types, PassType, AuditRange
<1>2. PICK r \in Span : r = Head(pass.todo)
  BY <1>1
<1>3. /\ RepairTimeframeRange(r, r \in pass.force, failed) /\ Settle(r, failed)
      /\ UNCHANGED <<lastDay, cursor, listed>>
  BY <1>2 DEF AuditRange
<1>4. /\ Harmless(r)
      /\ ~failed => \A d \in Bars : d >= r.start /\ d <= r.end => Right(d)'
  BY <1>1, <1>3, RepairRight
<1> QED BY <1>1, <1>2, <1>3, <1>4, SettleKeeps

LEMMA PieceKeeps ==
  ASSUME DInv, NEW failed \in BOOLEAN, AuditPiece(failed)
  PROVE  DInv' /\ FailureStep
<1>0. /\ Types /\ Closed /\ pass.pc = "pieces" /\ pass.todo # <<>> /\ pass.todo \in Seq(Span)
      /\ pass \in PassType /\ pass.piece \in Int /\ pass.failed \in BOOLEAN
  BY DEF DInv, Types, PassType, AuditPiece
<1>1. PICK r \in Span : r = Head(pass.todo)
  BY <1>0
<1>2. r.start \in Int /\ r.end \in Int /\ r.end <= lastDay /\ lastDay \in Int /\ PieceDays \in Nat \ {0}
  <2>1. r.end <= lastDay
    BY <1>0, <1>1 DEF Closed
  <2> QED BY <1>0, <2>1, DaysAssumption DEF Span, Types
<1> DEFINE last == Min({pass.piece + PieceDays - 1, r.end})
           p == [start |-> pass.piece, end |-> last]
<1>3. /\ RepairTimeframeRange(p, r \in pass.force, failed)
      /\ pass' = [pass EXCEPT !.piece = pass.piece + PieceDays, !.failed = pass.failed \/ failed]
      /\ UNCHANGED <<lastDay, cursor, retries, cleared, listed>>
  BY <1>1 DEF AuditPiece
<1>4. last \in Int /\ last <= r.end /\ (last = pass.piece + PieceDays - 1 \/ last = r.end)
  <2>1. \E x \in {pass.piece + PieceDays - 1, r.end} :
          \A y \in {pass.piece + PieceDays - 1, r.end} : x <= y
    BY <1>0, <1>2
  <2>2. last \in {pass.piece + PieceDays - 1, r.end} /\ last <= r.end
    BY <2>1 DEF Min
  <2> QED BY <1>0, <1>2, <2>2
<1>5. p \in Span /\ p.start = pass.piece /\ p.end = last /\ p.end <= lastDay
  <2> HIDE DEF last
  <2> QED BY <1>0, <1>2, <1>4 DEF Span
<1> HIDE DEF p, last
<1>6. /\ Harmless(p)
      /\ ~failed => \A d \in Bars : d >= p.start /\ d <= p.end => Right(d)'
  BY <1>0, <1>3, <1>5, RepairRight
<1>7. state' \in [status: Status, range: Span] /\ state'.range.end <= lastDay /\ FailureStep
  BY <1>0, <1>5, <1>6, WritesCover DEF Harmless
<1>8. (pass.failed \/ failed) \in BOOLEAN /\ pass.piece + PieceDays \in Int
  BY <1>0, <1>2
<1>9. /\ pass' \in PassType /\ pass'.pc = "pieces" /\ pass'.todo = pass.todo
      /\ pass'.piece = pass.piece + PieceDays /\ pass'.failed = (pass.failed \/ failed)
  BY <1>0, <1>3, <1>8 DEF PassType
<1>10. Types'
  BY <1>0, <1>3, <1>6, <1>7, <1>9 DEF Types, Harmless
<1>11. Closed'
  BY <1>0, <1>3, <1>7, <1>9 DEF Closed
<1>12. ClearedDaysRight'
  <2> SUFFICES ASSUME NEW d \in cleared \cap Bars PROVE Right(d)'
    BY <1>3 DEF ClearedDaysRight, Right
  <2>1. Right(d)
    BY DEF DInv, ClearedDaysRight, Right
  <2> QED BY <1>6, <2>1 DEF Harmless
<1>13. PiecesRight'
  <2> SUFFICES ASSUME ~pass.failed, ~failed, NEW d \in Bars, d >= r.start, d <= r.end,
                      d < pass.piece + PieceDays
               PROVE  Right(d)'
    <3>1. r = Head(pass'.todo) /\ (~pass'.failed => ~pass.failed /\ ~failed)
      BY <1>1, <1>9
    <3> QED BY <1>9, <3>1 DEF PiecesRight
  <2>0. d \in Int
    BY DaysAssumption DEF Bars, Day
  <2>1. CASE d < pass.piece
    <3>1. Right(d)
      BY <1>0, <1>1, <2>1 DEF DInv, PiecesRight
    <3> QED BY <1>6, <3>1 DEF Harmless
  <2>2. CASE d >= pass.piece
    <3>1. d <= last
      BY <1>0, <1>2, <1>4, <2>0, <2>2
    <3> QED BY <1>5, <1>6, <2>2, <3>1
  <2> QED BY <1>0, <2>0, <2>1, <2>2
<1> QED BY <1>7, <1>10, <1>11, <1>12, <1>13 DEF DInv

LEMMA PiecesEndKeeps ==
  ASSUME DInv, NEW failed \in BOOLEAN, AuditPiecesEnd(failed)
  PROVE  DInv' /\ FailureStep
<1>0. /\ Types /\ Closed /\ pass.pc = "pieces" /\ pass.todo # <<>> /\ pass.todo \in Seq(Span)
      /\ pass.piece \in Int
  BY DEF DInv, Types, PassType, AuditPiecesEnd
<1>1. PICK r \in Span : r = Head(pass.todo)
  BY <1>0
<1>2. /\ Settle(r, failed) /\ pass.piece > r.end /\ UNCHANGED <<lastDay, row, behind, cursor, listed>>
      /\ (failed = pass.failed /\ state' = Upsert(IF failed THEN "retry" ELSE "ok", r))
         \/ (failed /\ UNCHANGED state)
  BY <1>1 DEF AuditPiecesEnd, rowVars
<1>3. Harmless(r)
  <2>1. Writes(r)
    BY <1>2 DEF Writes, Status
  <2> QED BY <1>0, <1>2, <2>1 DEF Harmless, Right, Types
<1>4. ASSUME ~failed, NEW d \in Bars, d >= r.start, d <= r.end PROVE Right(d)'
  <2>1. ~pass.failed /\ d < pass.piece
    <3>1. d \in Int /\ r.end \in Int
      BY DaysAssumption DEF Bars, Day, Span
    <3> QED BY <1>0, <1>2, <1>4, <3>1
  <2>2. Right(d)
    BY <1>0, <1>1, <1>4, <2>1 DEF DInv, PiecesRight
  <2> QED BY <1>2, <2>2 DEF Right
<1> QED BY <1>0, <1>1, <1>2, <1>3, <1>4, SettleKeeps

\* A day closes; the process is restarted.
LEMMA OutsideKeeps ==
  ASSUME DInv, DayCloses \/ Restart
  PROVE  DInv' /\ FailureStep
<1>0. Types /\ Closed /\ pass \in PassType
  BY DEF DInv, Types
<1>1. CASE DayCloses
  <2>1. PICK v \in ClosedDay(lastDay + 1) : row' = [row EXCEPT ![lastDay + 1] = v]
    BY <1>1 DEF DayCloses
  <2>2. /\ lastDay' = lastDay + 1 /\ pass.pc = "idle"
        /\ UNCHANGED <<behind, cursor, retries, state, pass, cleared, listed>>
    BY <1>1 DEF DayCloses
  <2>3. Types'
    <3>1. v \in {"right", "wrong", "none"}
      BY DEF ClosedDay
    <3>2. row' \in [Day -> {"right", "wrong", "none"}]
      BY <1>0, <2>1, <3>1 DEF Types
    <3> QED BY <1>0, <2>2, <3>2 DEF Types
  <2>4. Closed'
    <3>1. \A n \in Int : n <= lastDay => n <= lastDay + 1
      BY <1>0 DEF Types
    <3>2. state.range.end <= lastDay + 1 /\ \A r \in retries : r.end <= lastDay + 1
      BY <1>0, <3>1 DEF Closed, Types, Span
    <3>3. \A n \in 1..Len(pass.todo) : pass.todo[n].end <= lastDay + 1
      <4>1. \A n \in 1..Len(pass.todo) : pass.todo[n] \in Span
        BY <1>0 DEF PassType
      <4>2. \A n \in 1..Len(pass.todo) : pass.todo[n].end \in Int
        BY <4>1 DEF Span
      <4> QED BY <1>0, <3>1, <4>2 DEF Closed
    <3>4. \A d \in cleared : d \in Int /\ d <= lastDay + 1
      BY <1>0, <3>1 DEF Closed
    <3>5. lastDay + 1 >= StartDay
      BY <1>0, DaysAssumption DEF Closed, Types
    <3> QED BY <2>2, <3>2, <3>3, <3>4, <3>5 DEF Closed
  <2>5. ClearedDaysRight'
    <3> SUFFICES ASSUME NEW d \in cleared \cap Bars PROVE row'[d] = "right" /\ d \notin behind
      BY <2>2 DEF ClearedDaysRight
    <3>1. d # lastDay + 1 /\ d \in Day
      BY <1>0 DEF Closed, Types, Bars
    <3> QED BY <1>0, <2>1, <3>1 DEF DInv, ClearedDaysRight, Types
  <2>6. PiecesRight' /\ FailureStep
    BY <2>2 DEF PiecesRight, FailureStep
  <2> QED BY <2>3, <2>4, <2>5, <2>6 DEF DInv
<1>2. CASE Restart
  <2>1. /\ cursor' = 0 /\ retries' = {} /\ pass' = PassIdle /\ cleared' = {}
        /\ UNCHANGED <<lastDay, row, behind, state, listed>>
    BY <1>2 DEF Restart, rowVars
  <2>2. <<>> \in Seq(Span) /\ {} \in SUBSET Span /\ StartDay \in Int
    BY DaysAssumption
  <2>3. PassIdle \in PassType /\ PassIdle.pc = "idle" /\ PassIdle.todo = <<>>
    BY <2>2 DEF PassIdle, PassType
  <2>4. Types' /\ Closed'
    BY <1>0, <2>1, <2>3, FS_EmptySet DEF Types, Closed
  <2>5. ClearedDaysRight' /\ PiecesRight' /\ FailureStep
    BY <2>1, <2>3 DEF ClearedDaysRight, PiecesRight, FailureStep
  <2> QED BY <2>4, <2>5 DEF DInv
<1> QED BY <1>1, <1>2

\* Every step of the audit and of its environment keeps the invariant.
LEMMA DailyStep ==
  ASSUME DInv, [Next]_vars
  PROVE  DInv' /\ [FailureStep]_vars
<1>1. CASE Next
  BY <1>1, BeginKeeps, MoveKeeps, RangeKeeps, PieceKeeps, PiecesEndKeeps, OutsideKeeps
     DEF Next, PassStep
<1>2. CASE UNCHANGED vars
  <2>1. Types' /\ Closed'
    BY <1>2 DEF DInv, Types, Closed, vars
  <2>2. ClearedDaysRight' /\ PiecesRight'
    BY <1>2 DEF DInv, ClearedDaysRight, PiecesRight, Right, vars
  <2> QED BY <1>2, <2>1, <2>2 DEF DInv
<1> QED BY <1>1, <1>2

\* repairDailyAuditRange: a range that was audited without an error, in one piece or in
\* several, holds the official row of every listed day that traded, with the frames above
\* it rebuilt; a short answer, a failed piece or a stopped rebuild is not taken for one.
THEOREM ClearedAlwaysRight == Spec => []ClearedDaysRight
<1>1. Init => DInv
  BY DailyInit
<1>2. DInv /\ [Next]_vars => DInv'
  BY DailyStep
<1>3. DInv => ClearedDaysRight
  BY DEF DInv
<1> QED BY <1>1, <1>2, <1>3, PTL DEF Spec

\* upsertTimeframeAuditState: the failure kline_guardian_state remembers is replaced only
\* by the outcome of a range that covers it, through any pieces, retries and restarts.
THEOREM FailuresNeverForgotten == Spec => FailureKept
<1>1. Init => DInv
  BY DailyInit
<1>2. DInv /\ [Next]_vars => DInv' /\ [FailureStep]_vars
  BY DailyStep
<1>3. FailureKept <=> [][FailureStep]_vars
  BY PTL DEF FailureKept, FailureStep
<1> QED BY <1>1, <1>2, <1>3, PTL DEF Spec

-----------------------------------------------------------------------------
(***************************************************************************)
(* The rotation through the history.                                       *)
(*                                                                         *)
(* Time is counted in passes.  A rotation passes a day over only when a    *)
(* day closes between two of its blocks and the day is on their seam.  For *)
(* the next rotation to pass the same day over, the window must have moved *)
(* by a multiple of a block in the meantime; if a rotation takes no longer *)
(* than the window needs to move by one block, it has not.                 *)
(***************************************************************************)
\* A rotation is over before the window has moved by a block: with the defaults,
\* 43 blocks of 7 days and 24 passes a day.
RotationFits == BlockCount <= RecentDays * PassesPerDay

\* The last closed day before pass t.
DayAt(t) == IF t \div PassesPerDay < MaxDay THEN t \div PassesPerDay ELSE MaxDay

\* The blocks cover the window.
LEMMA RotationConstants ==
  /\ RecentDays \in Nat /\ RecentDays >= 1 /\ PassesPerDay \in Nat /\ PassesPerDay >= 1
  /\ LookbackDays \in Nat /\ RecentDays <= LookbackDays /\ MaxDay \in Int /\ StartDay \in Int
  /\ StartDay <= MaxDay
  /\ BlockCount \in Nat /\ BlockCount >= 1 /\ BlockCount * RecentDays >= LookbackDays
<1>0. /\ RecentDays \in Nat /\ RecentDays >= 1 /\ PassesPerDay \in Nat /\ PassesPerDay >= 1
      /\ LookbackDays \in Nat /\ RecentDays <= LookbackDays /\ MaxDay \in Int /\ StartDay \in Int
      /\ StartDay <= MaxDay
  BY DaysAssumption
<1>1. ASSUME NEW a \in Nat, NEW c \in Nat, c >= 1, a >= c
      PROVE  a \div c \in Nat /\ a \div c >= 1 /\ (a \div c) * c > a - c
  <2>1. a \div c \in Nat /\ a % c \in 0..(c - 1)
    BY <1>1
  <2>2. a = c * (a \div c) + (a % c)
    BY <1>1
  <2>3. a \div c # 0
    BY <1>1, <2>1, <2>2
  <2> QED BY <1>1, <2>1, <2>2, <2>3
<1>2. PICK a \in Nat : a = LookbackDays + RecentDays - 1 /\ a >= RecentDays
  BY <1>0
<1>3. /\ BlockCount = a \div RecentDays /\ BlockCount \in Nat /\ BlockCount >= 1
      /\ BlockCount * RecentDays > a - RecentDays
  <2>1. BlockCount = a \div RecentDays
    BY <1>2 DEF BlockCount
  <2> QED BY <1>0, <1>1, <1>2, <2>1
<1>4. BlockCount * RecentDays \in Int
  BY <1>0, <1>3
<1> QED BY <1>0, <1>2, <1>3, <1>4

\* Days are passes in multiples of a day's passes.
LEMMA Multiples ==
  ASSUME NEW c \in Nat, c >= 1, NEW x \in Int, NEW y \in Int
  PROVE  /\ x * c \in Int /\ y * c \in Int /\ (x + y) * c = x * c + y * c
         /\ (x - y) * c = x * c - y * c /\ (x + 1) * c = x * c + c /\ (x - 1) * c = x * c - c
         /\ x <= y => x * c <= y * c
         /\ x * c < y * c => x < y
<1>1. /\ x * c \in Int /\ y * c \in Int /\ (x + y) * c = x * c + y * c
      /\ (x - y) * c = x * c - y * c /\ (x + 1) * c = x * c + c /\ (x - 1) * c = x * c - c
  OBVIOUS
<1>2. ASSUME x <= y PROVE x * c <= y * c
  <2>1. y - x \in Nat
    BY <1>2
  <2>2. (y - x) * c >= 0
    BY <2>1
  <2>3. (y - x) * c = y * c - x * c
    OBVIOUS
  <2> QED BY <1>1, <2>2, <2>3
<1>3. ASSUME y <= x PROVE y * c <= x * c
  <2>1. x - y \in Nat
    BY <1>3
  <2>2. (x - y) * c >= 0
    BY <2>1
  <2> QED BY <1>1, <2>2
<1> QED BY <1>1, <1>2, <1>3

\* What rounding down leaves.
LEMMA Quotient ==
  ASSUME NEW c \in Nat, c >= 1, NEW a \in Int
  PROVE  a \div c \in Int /\ (a \div c) * c <= a /\ a < (a \div c) * c + c
<1>1. a \div c \in Int /\ a % c \in 0..(c - 1) /\ a = c * (a \div c) + (a % c)
  OBVIOUS
<1> QED BY <1>1

\* Rounding down keeps the order, and moves by k when its argument moves by k times c.
LEMMA Quotients ==
  ASSUME NEW c \in Nat, c >= 1, NEW a \in Int, NEW b \in Int, a <= b
  PROVE  /\ a \div c <= b \div c
         /\ \A k \in Int : b <= a + k * c => b \div c <= a \div c + k
<1> DEFINE q == a \div c
           r == b \div c
<1>1. q \in Int /\ r \in Int /\ q * c <= a /\ a < q * c + c /\ r * c <= b /\ b < r * c + c
  BY Quotient
<1> HIDE DEF q, r
<1>2. q <= r
  <2>1. q * c \in Int /\ r * c \in Int /\ (r + 1) * c = r * c + c /\ r + 1 \in Int
    BY <1>1, Multiples
  <2>2. q * c < (r + 1) * c
    BY <1>1, <2>1
  <2>3. q < r + 1
    BY <1>1, <2>1, <2>2, Multiples
  <2> QED BY <1>1, <2>3
<1>3. ASSUME NEW k \in Int, b <= a + k * c PROVE r <= q + k
  <2>1. /\ q * c \in Int /\ r * c \in Int /\ k * c \in Int /\ (q + k) * c = q * c + k * c
        /\ q + k \in Int
    BY <1>1, Multiples
  <2>2. (q + k + 1) * c = (q + k) * c + c /\ q + k + 1 \in Int
    BY <2>1, Multiples
  <2>3. r * c < (q + k + 1) * c
    BY <1>1, <1>3, <2>1, <2>2
  <2>4. r < q + k + 1
    BY <1>1, <2>2, <2>3, Multiples
  <2> QED BY <1>1, <2>1, <2>4
<1> QED BY <1>2, <1>3 DEF q, r

\* How the last closed day moves with the passes.
LEMMA DayMoves ==
  ASSUME NEW t \in Int
  PROVE  /\ DayAt(t) \in Int /\ DayAt(t) <= MaxDay
         /\ \A u \in Int : t <= u => DayAt(t) <= DayAt(u)
         /\ DayAt(t + 1) <= DayAt(t) + 1
         /\ \A u \in Int : (t <= u /\ u <= t + RecentDays * PassesPerDay) =>
              DayAt(u) <= DayAt(t) + RecentDays
         /\ DayAt(t + 1) = DayAt(t) + 1 => t + 1 = (DayAt(t) + 1) * PassesPerDay
<1> DEFINE q == t \div PassesPerDay
<1>0. /\ PassesPerDay \in Nat /\ PassesPerDay >= 1 /\ MaxDay \in Int /\ RecentDays \in Nat
      /\ t + 1 \in Int
  BY RotationConstants
<1>1. /\ q \in Int /\ q * PassesPerDay <= t /\ t < q * PassesPerDay + PassesPerDay
      /\ q * PassesPerDay \in Int
  BY <1>0, Quotient
<1>2. DayAt(t) = IF q < MaxDay THEN q ELSE MaxDay
  BY DEF DayAt
<1>3. ASSUME NEW u \in Int, t <= u PROVE DayAt(t) <= DayAt(u)
  <2>1. PICK r \in Int : r = u \div PassesPerDay /\ q <= r
    BY <1>0, <1>3, Quotient, Quotients
  <2>2. DayAt(u) = IF r < MaxDay THEN r ELSE MaxDay
    BY <2>1 DEF DayAt
  <2> HIDE DEF q
  <2> QED BY <1>0, <1>1, <1>2, <2>1, <2>2
<1>4. ASSUME NEW u \in Int, NEW k \in Nat, t <= u, u <= t + k * PassesPerDay
      PROVE  DayAt(u) <= DayAt(t) + k
  <2>1. PICK r \in Int : r = u \div PassesPerDay /\ r <= q + k
    BY <1>0, <1>4, Quotient, Quotients
  <2>2. DayAt(u) = IF r < MaxDay THEN r ELSE MaxDay
    BY <2>1 DEF DayAt
  <2> HIDE DEF q
  <2> QED BY <1>0, <1>1, <1>2, <2>1, <2>2
<1>5. DayAt(t + 1) <= DayAt(t) + 1
  <2>1. t <= t + 1 /\ t + 1 <= t + 1 * PassesPerDay
    BY <1>0
  <2> QED BY <1>0, <1>4, <2>1
<1>6. ASSUME DayAt(t + 1) = DayAt(t) + 1
      PROVE  t + 1 = (DayAt(t) + 1) * PassesPerDay
  <2>1. PICK r \in Int : /\ r = (t + 1) \div PassesPerDay /\ r * PassesPerDay <= t + 1
                         /\ q <= r /\ r * PassesPerDay \in Int
    <3>1. t <= t + 1 /\ (t + 1) \div PassesPerDay \in Int
      BY <1>0, Quotient
    <3> QED BY <1>0, <3>1, Quotient, Quotients, Multiples
  <2>2. DayAt(t + 1) = IF r < MaxDay THEN r ELSE MaxDay
    BY <2>1 DEF DayAt
  <2> HIDE DEF q
  <2>3. DayAt(t) = q /\ q + 1 <= r
    BY <1>0, <1>1, <1>2, <1>6, <2>1, <2>2
  <2>4. (q + 1) * PassesPerDay = q * PassesPerDay + PassesPerDay /\ q + 1 \in Int
    BY <1>0, <1>1, Multiples
  <2>5. (q + 1) * PassesPerDay <= r * PassesPerDay
    BY <1>0, <2>1, <2>3, <2>4, Multiples
  <2> QED BY <1>0, <1>1, <2>1, <2>3, <2>4, <2>5
<1>7. DayAt(t) \in Int /\ DayAt(t) <= MaxDay
  <2> HIDE DEF q
  <2> QED BY <1>0, <1>1, <1>2
<1> QED BY <1>0, <1>3, <1>4, <1>5, <1>6, <1>7

\* The day a pass is made on.
LEMMA DayOf ==
  ASSUME NEW t \in Int, NEW l \in Int, l <= MaxDay, l * PassesPerDay <= t,
         t < l * PassesPerDay + PassesPerDay \/ l = MaxDay
  PROVE  DayAt(t) = l
<1> DEFINE q == t \div PassesPerDay
<1>0. PassesPerDay \in Nat /\ PassesPerDay >= 1 /\ MaxDay \in Int
  BY RotationConstants
<1>1. /\ q \in Int /\ q * PassesPerDay <= t /\ t < q * PassesPerDay + PassesPerDay
      /\ DayAt(t) = IF q < MaxDay THEN q ELSE MaxDay
  BY <1>0, Quotient DEF DayAt
<1> HIDE DEF q
<1>2. /\ q * PassesPerDay \in Int /\ (q + 1) * PassesPerDay = q * PassesPerDay + PassesPerDay
      /\ l * PassesPerDay \in Int /\ (l + 1) * PassesPerDay = l * PassesPerDay + PassesPerDay
      /\ q + 1 \in Int /\ l + 1 \in Int
  BY <1>0, <1>1, Multiples
<1>3. l < q + 1
  <2>1. l * PassesPerDay < (q + 1) * PassesPerDay
    BY <1>0, <1>1, <1>2
  <2> QED BY <1>0, <1>2, <2>1, Multiples
<1>4. ASSUME t < l * PassesPerDay + PassesPerDay PROVE q < l + 1
  <2>1. q * PassesPerDay < (l + 1) * PassesPerDay
    BY <1>0, <1>1, <1>2, <1>4
  <2> QED BY <1>0, <1>1, <1>2, <2>1, Multiples
<1> QED BY <1>0, <1>1, <1>3, <1>4

\* The pass for block x audits d when l is the last closed day.
Audits(l, x, d) ==
  \/ l - RecentDays < d /\ d <= l
  \/ /\ l - LookbackDays + x * RecentDays <= d
     /\ d < l - LookbackDays + x * RecentDays + RecentDays /\ d <= l - RecentDays

\* In the rotation that starts with pass s, a day closes after block x, and d is
\* on the seam between the block and the next one.
Skips(s, x, d) == /\ DayAt(s + x + 1) = DayAt(s + x) + 1
                  /\ d = DayAt(s + x) - LookbackDays + (x + 1) * RecentDays

\* A whole rotation audits the window, but for days on a seam.
LEMMA RotationAudits ==
  ASSUME RotationFits, NEW s \in Int, NEW d \in Int,
         DayAt(s + BlockCount - 1) - LookbackDays <= d, d <= DayAt(s + BlockCount - 1)
  PROVE  \/ \E x \in 0..BlockCount - 1 : Audits(DayAt(s + x), x, d)
         \/ d <= DayAt(s) - RecentDays /\ \E x \in 0..BlockCount - 2 : Skips(s, x, d)
<1>0. /\ RecentDays \in Nat /\ RecentDays >= 1 /\ LookbackDays \in Nat
      /\ BlockCount \in Nat /\ BlockCount >= 1 /\ BlockCount * RecentDays >= LookbackDays
      /\ BlockCount * RecentDays \in Int /\ RecentDays * PassesPerDay \in Int
      /\ BlockCount <= RecentDays * PassesPerDay /\ RecentDays <= LookbackDays
  BY RotationConstants, Multiples DEF RotationFits
<1>1. \A x \in 0..BlockCount - 1 :
        /\ s + x \in Int /\ DayAt(s + x) \in Int /\ DayAt(s) \in Int
        /\ DayAt(s) <= DayAt(s + x) /\ DayAt(s + x) <= DayAt(s) + RecentDays
  <2> SUFFICES ASSUME NEW x \in 0..BlockCount - 1
               PROVE  /\ s + x \in Int /\ DayAt(s + x) \in Int /\ DayAt(s) \in Int
                      /\ DayAt(s) <= DayAt(s + x) /\ DayAt(s + x) <= DayAt(s) + RecentDays
    OBVIOUS
  <2>1. s + x \in Int /\ s <= s + x /\ s + x <= s + RecentDays * PassesPerDay
    BY <1>0
  <2> QED BY <2>1, DayMoves
<1>2. PICK o \in Int : o = DayAt(s)
  BY DayMoves
<1>3. PICK n \in 0..BlockCount - 1 : s + n = s + BlockCount - 1
  <2>1. BlockCount - 1 \in 0..BlockCount - 1 /\ s + (BlockCount - 1) = s + BlockCount - 1
    BY <1>0
  <2> QED BY <2>1
<1>4. PICK l \in Int : /\ l = DayAt(s + n) /\ o <= l /\ l <= o + RecentDays
                       /\ l - LookbackDays <= d /\ d <= l
  BY <1>1, <1>2, <1>3
<1>5. CASE d > o - RecentDays
  <2>1. CASE d <= o
    <3>1. Audits(o, 0, d) /\ 0 \in 0..BlockCount - 1 /\ o = DayAt(s + 0)
      BY <1>0, <1>2, <1>5, <2>1 DEF Audits
    <3> QED BY <3>1
  <2>2. CASE d > o
    <3>1. l - RecentDays < d /\ d <= l
      BY <1>0, <1>4, <2>2
    <3>2. Audits(l, n, d)
      BY <3>1 DEF Audits
    <3> QED BY <1>4, <3>2
  <2> QED BY <2>1, <2>2
<1>6. CASE d <= o - RecentDays
  <2>1. PICK a \in Int : a = d - o + LookbackDays /\ 0 <= a /\ a <= LookbackDays - RecentDays
    BY <1>0, <1>4, <1>6
  <2>2. PICK q \in Int : q * RecentDays <= a /\ a < q * RecentDays + RecentDays
    BY <1>0, Quotient
  <2>3. PICK p \in Int : /\ p = q * RecentDays /\ (q - 1) * RecentDays = p - RecentDays
                         /\ (q + 1) * RecentDays = p + RecentDays
                         /\ p <= a /\ a < p + RecentDays
    BY <1>0, <2>2, Multiples
  <2>4. q \in 0..BlockCount - 1
    <3>1. 0 * RecentDays = 0 /\ q + 1 \in Int
      BY <1>0
    <3>2. 0 * RecentDays < (q + 1) * RecentDays
      BY <1>0, <2>1, <2>3, <3>1
    <3>3. q * RecentDays < BlockCount * RecentDays
      BY <1>0, <2>1, <2>3
    <3>4. 0 < q + 1
      BY <1>0, <3>1, <3>2, Multiples
    <3>5. q < BlockCount
      BY <1>0, <3>3, Multiples
    <3> QED BY <1>0, <3>4, <3>5
  <2>5. PICK e \in Int : e = DayAt(s + q) /\ o <= e /\ e <= o + RecentDays
    BY <1>1, <1>2, <2>4
  <2>6. CASE e - LookbackDays + p <= d
    <3>1. d < e - LookbackDays + p + RecentDays /\ d <= e - RecentDays
      BY <1>0, <1>6, <2>1, <2>3, <2>5
    <3>2. Audits(e, q, d)
      BY <2>3, <2>6, <3>1 DEF Audits
    <3> QED BY <2>4, <2>5, <3>2
  <2>7. CASE e - LookbackDays + p > d
    <3>1. q >= 1
      <4> SUFFICES ASSUME q = 0 PROVE FALSE
        BY <2>4
      <4>1. s + q = s /\ p = 0
        BY <1>0, <2>3
      <4> QED BY <1>0, <1>2, <2>1, <2>5, <2>7, <4>1
    <3>2. PICK x \in 0..BlockCount - 1 : /\ s + x + 1 = s + q /\ x + 1 = q
                                        /\ x \in 0..BlockCount - 2
                                        /\ x * RecentDays = p - RecentDays
      <4>1. q - 1 \in 0..BlockCount - 2 /\ s + (q - 1) + 1 = s + q /\ (q - 1) + 1 = q
        BY <1>0, <2>4, <3>1
      <4>2. q - 1 \in 0..BlockCount - 1
        BY <1>0, <4>1
      <4> QED BY <2>3, <4>1, <4>2
    <3>3. PICK f \in Int : /\ f = DayAt(s + x) /\ e <= f + 1 /\ f <= o + RecentDays /\ o <= f
      <4>1. s + x \in Int
        BY <1>0
      <4> QED BY <1>1, <1>2, <2>5, <3>2, <4>1, DayMoves
    <3>4. CASE d < f - LookbackDays + p
      <4>1. /\ f - LookbackDays + (p - RecentDays) <= d /\ d <= f - RecentDays
            /\ d < f - LookbackDays + (p - RecentDays) + RecentDays
        BY <1>0, <1>6, <2>1, <2>3, <3>3, <3>4
      <4>2. Audits(f, x, d)
        BY <3>2, <4>1 DEF Audits
      <4> QED BY <3>3, <4>2
    <3>5. CASE ~(d < f - LookbackDays + p)
      <4>1. e = f + 1 /\ d = f - LookbackDays + p
        BY <1>0, <2>1, <2>3, <2>5, <2>7, <3>3, <3>5
      <4>2. Skips(s, x, d)
        BY <2>3, <2>5, <3>2, <3>3, <4>1 DEF Skips
      <4> QED BY <1>2, <1>6, <3>2, <4>2
    <3> QED BY <3>4, <3>5
  <2> QED BY <1>0, <2>5, <2>6, <2>7
<1> QED BY <1>0, <1>5, <1>6

\* No day is on a seam of two rotations in a row.
LEMMA SeamsDiffer ==
  ASSUME RotationFits, NEW s \in Int, NEW d, NEW x \in 0..BlockCount - 2,
         NEW y \in 0..BlockCount - 2, Skips(s, x, d), Skips(s + BlockCount, y, d)
  PROVE  FALSE
<1>0. /\ RecentDays \in Nat /\ RecentDays >= 1 /\ LookbackDays \in Nat
      /\ PassesPerDay \in Nat /\ PassesPerDay >= 1
      /\ BlockCount \in Nat /\ BlockCount >= 1 /\ BlockCount <= RecentDays * PassesPerDay
  BY RotationConstants DEF RotationFits
<1>1. s + x \in Int /\ s + BlockCount + y \in Int /\ x \in Nat /\ y \in Nat
  BY <1>0
<1>2. PICK a \in Int : /\ a = DayAt(s + x) /\ s + x + 1 = (a + 1) * PassesPerDay
                       /\ d = a - LookbackDays + (x + 1) * RecentDays
  BY <1>1, DayMoves DEF Skips
<1>3. PICK b \in Int : /\ b = DayAt(s + BlockCount + y)
                       /\ s + BlockCount + y + 1 = (b + 1) * PassesPerDay
                       /\ d = b - LookbackDays + (y + 1) * RecentDays
  BY <1>1, DayMoves DEF Skips
<1>4. PICK j \in Int : j = x - y
  BY <1>1
<1>5. b - a = j * RecentDays
  <2>1. x + 1 \in Int /\ y + 1 \in Int /\ (x + 1) - (y + 1) = j
    BY <1>1, <1>4
  <2>2. /\ (x + 1) * RecentDays \in Int /\ (y + 1) * RecentDays \in Int
        /\ j * RecentDays = (x + 1) * RecentDays - (y + 1) * RecentDays
    BY <1>0, <2>1, Multiples
  <2> QED BY <1>0, <1>2, <1>3, <2>2
<1>6. (b - a) * PassesPerDay = BlockCount - j
  <2>1. /\ (b + 1) * PassesPerDay = b * PassesPerDay + PassesPerDay
        /\ (a + 1) * PassesPerDay = a * PassesPerDay + PassesPerDay
        /\ (b - a) * PassesPerDay = b * PassesPerDay - a * PassesPerDay
        /\ a * PassesPerDay \in Int /\ b * PassesPerDay \in Int
    BY <1>0, Multiples
  <2> QED BY <1>0, <1>1, <1>2, <1>3, <1>4, <2>1
<1>7. PICK c \in Nat : c = RecentDays * PassesPerDay /\ c >= 1 /\ BlockCount <= c
  <2>1. RecentDays * PassesPerDay \in Nat
    BY <1>0
  <2> QED BY <1>0, <2>1
<1>8. j * c = BlockCount - j
  <2>1. (j * RecentDays) * PassesPerDay = j * (RecentDays * PassesPerDay)
    BY <1>0
  <2> QED BY <1>5, <1>6, <1>7, <2>1
<1>9. CASE j <= 0
  <2>1. j * c <= 0 * c
    BY <1>7, <1>9, Multiples
  <2> QED BY <1>0, <1>7, <1>8, <1>9, <2>1
<1>10. CASE j >= 1
  <2>1. 1 * c <= j * c /\ j * c \in Int
    BY <1>7, <1>10, Multiples
  <2> QED BY <1>0, <1>7, <1>8, <1>10, <2>1
<1> QED BY <1>9, <1>10

\* Of the rotation that starts with pass s, S holds what the first n passes audited;
\* or it is not to be held against the audit.
Kept(S, s, n) ==
  \/ Day \subseteq S
  \/ \A x \in 0..n - 1 : \A d \in Day : Audits(DayAt(s + x), x, d) => d \in S

\* t passes were begun, the first of the current rotation being pass Turn(t); after
\* the last day under study they are not counted by the day any more.
Turn(t) == IF cursor = 0 THEN t - BlockCount ELSE t - cursor
Clock(t) ==
  /\ lastDay \in StartDay..MaxDay /\ passes \in 0..PassesPerDay /\ cursor \in 0..BlockCount - 1
  /\ \/ t = lastDay * PassesPerDay + passes
     \/ /\ lastDay = MaxDay /\ passes = PassesPerDay
        /\ t >= MaxDay * PassesPerDay + PassesPerDay
Spins(t) ==
  /\ Clock(t) /\ covered \in [1..3 -> SUBSET Day]
  /\ Kept(covered[1], Turn(t), t - Turn(t))
  /\ Kept(covered[2], Turn(t) - BlockCount, BlockCount)
  /\ Kept(covered[3], Turn(t) - BlockCount - BlockCount, BlockCount)
RotationInv == RotationFits /\ \E t \in Int : Spins(t)

\* Two whole rotations and the current one leave no day of the window out.
LEMMA ThreeRotations ==
  ASSUME RotationFits, NEW t \in Int, Spins(t), passes > 0
  PROVE  RotationCovers
<1>0. /\ RecentDays \in Nat /\ RecentDays >= 1 /\ LookbackDays \in Nat
      /\ PassesPerDay \in Nat /\ PassesPerDay >= 1 /\ MaxDay \in Int /\ StartDay \in Int
      /\ BlockCount \in Nat /\ BlockCount >= 1 /\ BlockCount <= RecentDays * PassesPerDay
      /\ RecentDays * PassesPerDay \in Int
  BY RotationConstants, Multiples DEF RotationFits
<1>1. /\ lastDay \in Int /\ lastDay >= StartDay /\ lastDay <= MaxDay /\ passes \in Int
      /\ passes <= PassesPerDay /\ cursor \in Int /\ 0 <= cursor /\ cursor <= BlockCount - 1
  BY <1>0 DEF Spins, Clock
<1>2. PICK s \in Int : s = Turn(t) /\ s <= t - 1 /\ t - s <= BlockCount
  <2>1. Turn(t) \in Int /\ Turn(t) <= t - 1 /\ t - Turn(t) <= BlockCount
    BY <1>0, <1>1 DEF Turn
  <2> QED BY <2>1
<1>3. lastDay = DayAt(t - 1) /\ t - 1 \in Int
  <2>1. /\ lastDay * PassesPerDay \in Int /\ MaxDay * PassesPerDay \in Int
        /\ lastDay * PassesPerDay <= t - 1
        /\ t - 1 < lastDay * PassesPerDay + PassesPerDay \/ lastDay = MaxDay
    <3>1. lastDay * PassesPerDay \in Int /\ MaxDay * PassesPerDay \in Int
      BY <1>0, <1>1, Multiples
    <3>2. CASE t = lastDay * PassesPerDay + passes
      BY <1>0, <1>1, <3>1, <3>2
    <3>3. CASE lastDay = MaxDay /\ t >= MaxDay * PassesPerDay + PassesPerDay
      BY <1>0, <1>1, <3>1, <3>3
    <3> QED BY <3>1, <3>2, <3>3 DEF Spins, Clock
  <2>2. t - 1 \in Int
    OBVIOUS
  <2> QED BY <1>1, <2>1, <2>2, DayOf
<1> SUFFICES ASSUME NEW d \in (lastDay - LookbackDays)..lastDay, \A i \in 1..3 : d \notin covered[i]
             PROVE  FALSE
  BY DEF RotationCovers
<1>4. d \in Int /\ lastDay - LookbackDays <= d /\ d <= lastDay /\ d \in Day
  BY <1>0, <1>1 DEF Day
<1>5. /\ \A x \in 0..t - s - 1 : ~Audits(DayAt(s + x), x, d)
      /\ \A x \in 0..BlockCount - 1 : ~Audits(DayAt(s - BlockCount + x), x, d)
      /\ \A x \in 0..BlockCount - 1 : ~Audits(DayAt(s - BlockCount - BlockCount + x), x, d)
  BY <1>2, <1>4 DEF Spins, Kept
<1>6. PICK b \in Int : b = s - BlockCount
  BY <1>0
<1>7. PICK a \in Int : a = s - BlockCount - BlockCount /\ a + BlockCount = b
  BY <1>0, <1>6
<1>8. PICK o \in Int : o = DayAt(s) /\ o <= lastDay /\ lastDay <= o + RecentDays
  <2>1. s <= t - 1 /\ t - 1 <= s + RecentDays * PassesPerDay
    BY <1>0, <1>2
  <2> QED BY <1>3, <2>1, DayMoves
<1>9. PICK u \in Int : u = b + BlockCount - 1 /\ u + 1 = s
  BY <1>0, <1>6
<1>10. PICK v \in Int : v = a + BlockCount - 1 /\ v + 1 = b /\ v <= u
  BY <1>0, <1>7, <1>9
<1>11. PICK lb \in Int : lb = DayAt(u) /\ o <= lb + 1 /\ lb <= lastDay
  <2>1. u <= t - 1
    BY <1>2, <1>9
  <2> QED BY <1>3, <1>8, <1>9, <2>1, DayMoves
<1>12. PICK la \in Int : la = DayAt(v) /\ DayAt(b) <= la + 1 /\ la <= lb /\ DayAt(b) \in Int
  BY <1>10, <1>11, DayMoves
<1>13. d <= lb
  <2> SUFFICES ASSUME d > lb PROVE FALSE
    BY <1>4, <1>11
  <2>1. CASE d <= o
    <3>1. Audits(o, 0, d)
      BY <1>0, <1>8, <1>11, <2>1 DEF Audits
    <3>2. 0 \in 0..t - s - 1 /\ s + 0 = s
      BY <1>2
    <3> QED BY <1>5, <1>8, <3>1, <3>2
  <2>2. CASE d > o
    <3>1. lastDay - RecentDays < d /\ d <= lastDay
      BY <1>0, <1>1, <1>4, <1>8, <2>2
    <3>2. PICK x \in 0..t - s - 1 : s + x = t - 1
      <4>1. t - s - 1 \in 0..t - s - 1 /\ s + (t - s - 1) = t - 1
        BY <1>2
      <4> QED BY <4>1
    <3>3. Audits(DayAt(s + x), x, d)
      BY <1>3, <3>1, <3>2 DEF Audits
    <3> QED BY <1>5, <3>3
  <2> QED BY <1>8, <1>4, <2>1, <2>2
<1>14. d <= DayAt(b) - RecentDays /\ \E x \in 0..BlockCount - 2 : Skips(b, x, d)
  <2>1. lb - LookbackDays <= d
    BY <1>0, <1>1, <1>4, <1>11
  <2> QED BY <1>4, <1>5, <1>6, <1>9, <1>11, <1>13, <2>1, RotationAudits
<1>15. d <= la /\ la - LookbackDays <= d
  BY <1>0, <1>1, <1>4, <1>11, <1>12, <1>14
<1>16. \E x \in 0..BlockCount - 2 : Skips(a, x, d)
  BY <1>4, <1>5, <1>7, <1>10, <1>12, <1>15, RotationAudits
<1> QED BY <1>7, <1>14, <1>16, SeamsDiffer

\* What a pass audits.
LEMMA PassAudits ==
  ASSUME lastDay \in Int, cursor \in 0..BlockCount - 1, NEW d \in Int, Audits(lastDay, cursor, d)
  PROVE  d \in Days(Recent) \cup Days(Historical)
<1>0. /\ RecentDays \in Nat /\ RecentDays >= 1 /\ LookbackDays \in Nat
      /\ BlockCount \in Nat /\ BlockCount >= 1
  BY RotationConstants
<1>1. Block = cursor
  BY <1>0 DEF Block
<1>2. CASE lastDay - RecentDays < d /\ d <= lastDay
  BY <1>0, <1>2 DEF Days, Recent
<1>3. CASE /\ lastDay - LookbackDays + cursor * RecentDays <= d
           /\ d < lastDay - LookbackDays + cursor * RecentDays + RecentDays
           /\ d <= lastDay - RecentDays
  <2>1. PICK first \in Int : first = lastDay - LookbackDays + cursor * RecentDays
    <3>1. cursor * RecentDays \in Int
      BY <1>0, Multiples
    <3> QED BY <1>0, <3>1
  <2> DEFINE S == {first + RecentDays - 1, lastDay - RecentDays}
             last == Min(S)
  <2>2. \E x \in S : \A y \in S : x <= y
    BY <1>0, <2>1
  <2>3. last \in S
    BY <2>2 DEF Min
  <2>4. Historical = [start |-> first, end |-> last]
    BY <1>1, <2>1 DEF Historical
  <2>5. first <= d /\ d <= last /\ last \in Int
    BY <1>0, <1>3, <2>1, <2>3
  <2> HIDE DEF last
  <2> QED BY <2>4, <2>5 DEF Days
<1> QED BY <1>2, <1>3 DEF Audits

\* The counters of a pass.
LEMMA PassCounts ==
  ASSUME NEW t \in Int, Clock(t), passes < PassesPerDay \/ lastDay = MaxDay,
         cursor' = (Block + 1) % BlockCount,
         passes' = IF passes < PassesPerDay THEN passes + 1 ELSE passes, lastDay' = lastDay
  PROVE  /\ Clock(t + 1)' /\ lastDay = DayAt(t) /\ Block = cursor
         /\ cursor' = IF cursor = BlockCount - 1 THEN 0 ELSE cursor + 1
<1>0. /\ PassesPerDay \in Nat /\ PassesPerDay >= 1 /\ BlockCount \in Nat /\ BlockCount >= 1
      /\ StartDay \in Int /\ MaxDay \in Int
  BY RotationConstants
<1>1. /\ lastDay \in Int /\ lastDay <= MaxDay /\ passes \in Int /\ 0 <= passes
      /\ passes <= PassesPerDay /\ cursor \in Int /\ 0 <= cursor /\ cursor <= BlockCount - 1
  BY <1>0 DEF Clock
<1>2. Block = cursor
  BY <1>0, <1>1 DEF Block
<1>3. cursor' = IF cursor = BlockCount - 1 THEN 0 ELSE cursor + 1
  <2>1. CASE cursor = BlockCount - 1
    <3>1. Block + 1 = BlockCount
      BY <1>0, <1>2, <2>1
    <3>2. BlockCount % BlockCount = 0
      BY <1>0
    <3> QED BY <2>1, <3>1, <3>2
  <2>2. CASE cursor # BlockCount - 1
    <3>1. cursor + 1 \in 0..BlockCount - 1
      BY <1>0, <1>1, <2>2
    <3>2. (cursor + 1) % BlockCount = cursor + 1
      BY <1>0, <3>1
    <3> QED BY <1>2, <2>2, <3>2
  <2> QED BY <2>1, <2>2
<1>4. cursor' \in 0..BlockCount - 1
  BY <1>0, <1>1, <1>3
<1>5. PICK p \in Int : p = lastDay * PassesPerDay
  BY <1>0, <1>1, Multiples
<1>6. CASE t = p + passes /\ passes < PassesPerDay
  <2>1. lastDay = DayAt(t)
    BY <1>0, <1>1, <1>5, <1>6, DayOf
  <2>2. t + 1 = p + passes' /\ passes' \in 0..PassesPerDay
    BY <1>0, <1>1, <1>5, <1>6
  <2>3. t + 1 = lastDay' * PassesPerDay + passes'
    BY <1>5, <2>2
  <2> QED BY <1>2, <1>3, <1>4, <2>1, <2>2, <2>3 DEF Clock
<1>7. CASE lastDay = MaxDay /\ passes = PassesPerDay /\ t >= p + PassesPerDay
  <2>1. lastDay = DayAt(t)
    BY <1>0, <1>1, <1>5, <1>7, DayOf
  <2>2. t + 1 >= p + PassesPerDay /\ passes' = PassesPerDay /\ passes' \in 0..PassesPerDay
    BY <1>0, <1>1, <1>5, <1>7
  <2>3. lastDay' = MaxDay /\ lastDay' \in StartDay..MaxDay
        /\ t + 1 >= MaxDay * PassesPerDay + PassesPerDay
    BY <1>5, <1>7, <2>2 DEF Clock
  <2> QED BY <1>2, <1>3, <1>4, <2>1, <2>2, <2>3 DEF Clock
<1>8. \/ t = p + passes
      \/ lastDay = MaxDay /\ passes = PassesPerDay /\ t >= p + PassesPerDay
  BY <1>5 DEF Clock
<1> QED BY <1>0, <1>1, <1>5, <1>6, <1>7, <1>8

\* Before the first pass nothing is owed.
LEMMA RotationInit ==
  ASSUME Init, RotationFits
  PROVE  RotationInv
<1>0. /\ PassesPerDay \in Nat /\ PassesPerDay >= 1 /\ BlockCount \in Nat /\ BlockCount >= 1
      /\ StartDay \in Int /\ MaxDay \in Int /\ StartDay <= MaxDay
  BY RotationConstants
<1>1. PICK t \in Int : t = StartDay * PassesPerDay
  BY <1>0, Multiples
<1>2. Clock(t)
  BY <1>0, <1>1 DEF Clock, Init
<1>3. covered \in [1..3 -> SUBSET Day] /\ \A i \in 1..3 : Day \subseteq covered[i]
  BY DEF Init, AllCovered
<1>4. Spins(t)
  BY <1>2, <1>3 DEF Spins, Kept
<1> QED BY <1>4 DEF RotationInv

\* Nothing is owed: whatever else happened to the counters.
LEMMA NothingOwed ==
  ASSUME NEW t \in Int, Clock(t)', covered' = AllCovered
  PROVE  Spins(t)'
<1>1. covered' \in [1..3 -> SUBSET Day] /\ \A i \in 1..3 : Day \subseteq covered'[i]
  BY DEF AllCovered
<1> QED BY <1>1 DEF Spins, Kept

\* dailyAuditOnce goes on with the next block.
LEMMA BeginSpins ==
  ASSUME NEW t \in Int, Spins(t), PassBegin
  PROVE  Spins(t + 1)'
<1>0. BlockCount \in Nat /\ BlockCount >= 1 /\ StartDay \in Int /\ MaxDay \in Int
      /\ LookbackDays \in Nat
  BY RotationConstants
<1>1. /\ Clock(t)
      /\ passes < PassesPerDay \/ lastDay = MaxDay
      /\ cursor' = (Block + 1) % BlockCount /\ lastDay' = lastDay
      /\ passes' = IF passes < PassesPerDay THEN passes + 1 ELSE passes
  BY DEF PassBegin, Spins
<1>2. /\ Clock(t + 1)' /\ lastDay = DayAt(t) /\ Block = cursor
      /\ cursor' = IF cursor = BlockCount - 1 THEN 0 ELSE cursor + 1
  BY <1>1, PassCounts
<1>3. cursor \in Int /\ 0 <= cursor /\ cursor <= BlockCount - 1 /\ lastDay \in Int
  BY <1>0, <1>1 DEF Clock
<1>4. PICK audited : audited = (Days(Recent) \cup Days(Historical)) \cap Day
  OBVIOUS
<1>5. covered' = IF cursor = 0 THEN <<audited, covered[1], covered[2]>>
                 ELSE [covered EXCEPT ![1] = @ \cup audited]
  BY <1>2, <1>4 DEF PassBegin
<1>6. \A d \in Day : Audits(DayAt(t), cursor, d) => d \in audited
  <2> SUFFICES ASSUME NEW d \in Day, Audits(DayAt(t), cursor, d) PROVE d \in audited
    OBVIOUS
  <2>1. d \in Int
    BY <1>0 DEF Day
  <2> QED BY <1>0, <1>1, <1>2, <1>3, <1>4, <2>1, PassAudits DEF Clock
<1>7. covered \in [1..3 -> SUBSET Day]
  BY DEF Spins
<1>8. Turn(t + 1)' = t - cursor /\ t - cursor \in Int
  <2>1. CASE cursor = BlockCount - 1
    <3>0. cursor' = 0
      BY <1>2, <2>1
    <3>1. PICK n \in Int : n = BlockCount
      BY <1>0
    <3>2. BlockCount' = n
      BY <3>1 DEF BlockCount
    <3>3. Turn(t + 1)' = t + 1 - n
      BY <3>0, <3>2 DEF Turn
    <3> QED BY <1>3, <2>1, <3>1, <3>3
  <2>2. CASE cursor # BlockCount - 1
    <3>1. PICK c \in Int : c = cursor + 1 /\ c # 0 /\ c = cursor'
      BY <1>2, <1>3, <2>2
    <3>2. Turn(t + 1)' = t + 1 - c
      BY <3>1 DEF Turn
    <3> QED BY <1>3, <3>1, <3>2
  <2> QED BY <2>1, <2>2
<1>9. PICK s \in Int : s = t - cursor /\ t + 1 - s = cursor + 1 /\ s + cursor = t
  BY <1>3
<1>10. CASE cursor = 0
  <2>1. covered' = <<audited, covered[1], covered[2]>>
    BY <1>5, <1>10
  <2>2. /\ covered' \in [1..3 -> SUBSET Day] /\ covered'[1] = audited
        /\ covered'[2] = covered[1] /\ covered'[3] = covered[2]
    BY <1>4, <1>7, <2>1
  <2>3. Turn(t) = s - BlockCount /\ t - Turn(t) = BlockCount /\ s = t
    BY <1>0, <1>9, <1>10 DEF Turn
  <2>4. Kept(audited, s, cursor + 1)
    <3>1. \A x \in 0..(cursor + 1) - 1 : x = cursor /\ s + x = t
      BY <1>9, <1>10
    <3> QED BY <1>6, <3>1 DEF Kept
  <2>5. /\ Kept(covered[1], s - BlockCount, BlockCount)
        /\ Kept(covered[2], s - BlockCount - BlockCount, BlockCount)
    BY <2>3 DEF Spins
  <2> QED BY <1>2, <1>8, <1>9, <2>2, <2>4, <2>5 DEF Spins, Kept
<1>11. CASE cursor # 0
  <2>1. /\ covered' \in [1..3 -> SUBSET Day] /\ covered'[1] = covered[1] \cup audited
        /\ covered'[2] = covered[2] /\ covered'[3] = covered[3]
    <3>1. covered' = [covered EXCEPT ![1] = @ \cup audited]
      BY <1>5, <1>11
    <3> QED BY <1>4, <1>7, <3>1
  <2>2. Turn(t) = s /\ t - Turn(t) = cursor
    BY <1>3, <1>9, <1>11 DEF Turn
  <2>3. Kept(covered[1] \cup audited, s, cursor + 1)
    <3>1. CASE Day \subseteq covered[1]
      BY <3>1 DEF Kept
    <3>2. CASE \A x \in 0..cursor - 1 : \A d \in Day : Audits(DayAt(s + x), x, d) => d \in covered[1]
      <4>1. \A x \in 0..(cursor + 1) - 1 : x = cursor \/ x \in 0..cursor - 1
        BY <1>3
      <4> QED BY <1>6, <1>9, <3>2, <4>1 DEF Kept
    <3> QED BY <2>2, <3>1, <3>2 DEF Spins, Kept
  <2>4. /\ Kept(covered[2], s - BlockCount, BlockCount)
        /\ Kept(covered[3], s - BlockCount - BlockCount, BlockCount)
    BY <2>2 DEF Spins
  <2> QED BY <1>2, <1>8, <1>9, <2>1, <2>3, <2>4 DEF Spins, Kept
<1> QED BY <1>10, <1>11

\* The other actions leave the rotation alone, start it over or owe nothing.
LEMMA RotationStep ==
  ASSUME RotationInv, [Next]_vars
  PROVE  RotationInv'
<1>0. /\ PassesPerDay \in Nat /\ PassesPerDay >= 1 /\ BlockCount \in Nat /\ BlockCount >= 1
      /\ StartDay \in Int /\ MaxDay \in Int
  BY RotationConstants
<1>1. PICK t \in Int : Spins(t)
  BY DEF RotationInv
<1>2. RotationFits'
  BY DEF RotationInv, RotationFits, BlockCount
<1> SUFFICES \E u \in Int : Spins(u)'
  BY <1>2 DEF RotationInv
<1>3. t + 1 \in Int
  OBVIOUS
<1>4. CASE UNCHANGED <<lastDay, passes, cursor, covered>>
  BY <1>1, <1>4 DEF Spins, Clock, Turn, Kept
<1>5. CASE PassBegin
  BY <1>1, <1>3, <1>5, BeginSpins
<1>6. CASE PassSkips
  <2>1. Clock(t + 1)' /\ covered' = AllCovered
    BY <1>1, <1>6, PassCounts DEF PassSkips, Spins
  <2> QED BY <1>3, <2>1, NothingOwed
<1>7. CASE Restart
  <2>1. Clock(t)' /\ covered' = AllCovered
    BY <1>0, <1>1, <1>7 DEF Restart, Spins, Clock
  <2> QED BY <2>1, NothingOwed
<1>8. CASE DayCloses
  <2>1. /\ lastDay < MaxDay /\ passes = PassesPerDay /\ lastDay' = lastDay + 1 /\ passes' = 0
        /\ UNCHANGED <<cursor, covered>> /\ Clock(t) /\ lastDay \in Int /\ lastDay >= StartDay
    BY <1>0, <1>1, <1>8 DEF DayCloses, Spins, Clock
  <2>2. t = lastDay * PassesPerDay + PassesPerDay
    BY <1>0, <2>1 DEF Clock
  <2>3. (lastDay + 1) * PassesPerDay = lastDay * PassesPerDay + PassesPerDay
    BY <1>0, <2>1, Multiples
  <2>4. t = (lastDay + 1) * PassesPerDay + 0 /\ lastDay + 1 \in StartDay..MaxDay
    BY <1>0, <2>1, <2>2, <2>3
  <2>5. Clock(t)'
    BY <1>0, <2>1, <2>4 DEF Clock
  <2> QED BY <1>1, <2>1, <2>5 DEF Spins, Turn, Kept
<1>9. Next => \/ PassBegin \/ PassSkips \/ Restart \/ DayCloses
              \/ UNCHANGED <<lastDay, passes, cursor, covered>>
  BY DEF Next, PassStep, PassEnd, AuditPieces, AuditRange, AuditPiece, AuditPiecesEnd
<1> QED BY <1>4, <1>5, <1>6, <1>7, <1>8, <1>9 DEF vars

\* dailyAuditOnce: while no pass is skipped and the process runs on, the blocks leave no
\* day of the lookback window out for three rotations, although the window moves with the
\* days.  For every window, block and number of passes a day with which a rotation takes
\* no longer than the window needs to move by a block, through any failures.
THEOREM RotationsLeaveNothingOut == RotationFits => (Spec => []RotationCovers)
<1>1. Init /\ RotationFits => RotationInv
  BY RotationInit
<1>2. RotationInv /\ [Next]_vars => RotationInv'
  BY RotationStep
<1>3. RotationInv => RotationCovers
  <2> SUFFICES ASSUME RotationInv, passes > 0 PROVE RotationCovers
    BY DEF RotationCovers
  <2>1. PICK t \in Int : Spins(t)
    BY DEF RotationInv
  <2> QED BY <2>1, ThreeRotations DEF RotationInv
<1> QED BY <1>1, <1>2, <1>3, PTL DEF Spec

============================================================================
