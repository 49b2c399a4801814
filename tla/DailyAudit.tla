------------------------------ MODULE DailyAudit ------------------------------
(***************************************************************************)
(* The Guardian's official 1D audit of one symbol                          *)
(* (internal/guardian/daily_audit.go and the 1D branch of repair.go).      *)
(*                                                                         *)
(* Every pass audits the most recent days, one block of a rotation through *)
(* the history, every range that failed before (kept in memory) and the    *)
(* one failed range kept in kline_guardian_state.  Passes exclude each     *)
(* other (dailyRunMu), so the repair of one range is one step.  The        *)
(* cascades of minute repairs that reach the same 1D rows are left out     *)
(* (CorporateAction has both writers).                                     *)
(*                                                                         *)
(* Days are numbered.  Of a 1D row it matters whether it holds the         *)
(* official values, of the frames above it whether they were rebuilt since *)
(* the row was last written.                                               *)
(***************************************************************************)
EXTENDS Integers, Sequences, FiniteSets, FiniteSetsExt, SequencesExt

CONSTANTS
  RecentDays,    \* DailyAuditDays
  LookbackDays,  \* DailyAuditLookbackDays
  PieceDays,     \* maxNoTradeDayChecksPerRange
  PassesPerDay,  \* 24 hours / DailyAuditInterval
  StartDay,      \* the last closed day when the program is started
  MaxDay,        \* bound: the last closed day under study
  FirstDay,      \* the symbol's first day of trading
  Listing,       \* what the snapshots may say of ListedAtMS, as a day, 0 for nothing
  Quiet,         \* days without a trade: no official 1D bar, 24 empty hours
  MaxFaults      \* bound: failed calls, incomplete answers and restarts

Day == (StartDay - LookbackDays)..MaxDay
Bars == {d \in Day : d >= FirstDay /\ d \notin Quiet}
DayRange == [start: Day, end: Day]

ASSUME DaysAssumption ==
  /\ RecentDays \in Nat \ {0} /\ LookbackDays \in Nat /\ RecentDays <= LookbackDays
  /\ PieceDays \in Nat \ {0} /\ PassesPerDay \in Nat \ {0}
  /\ StartDay \in Int /\ MaxDay \in Int /\ StartDay <= MaxDay
ASSUME ListingAssumption == FirstDay \in Nat /\ Listing \subseteq {0, FirstDay}
ASSUME QuietAssumption == \A d \in Quiet : d \in Int /\ d >= FirstDay
ASSUME FaultAssumption == MaxFaults \in Nat

VARIABLES
  lastDay,   \* the last closed UTC day
  passes,    \* passes begun since that day closed
  row,       \* the stored 1D rows: "right", "wrong" or "none"
  behind,    \* days whose upper frames are not rebuilt from the current row
  cursor,    \* dailyAuditCursor
  retries,   \* dailyRetries of the symbol
  state,     \* kline_guardian_state of (symbol, 1D)
  pass,      \* locals of the pass in progress
  faults,    \* failures so far
  cleared,   \* history: days of the range that was last audited with success
  covered,   \* history: days audited in this rotation and in the two before it
  listed     \* ListedAtMS in the symbol snapshots

rowVars == <<row, behind>>
vars == <<lastDay, passes, row, behind, cursor, retries, state, pass, faults,
          cleared, covered, listed>>

\* rest_error, empty_response, incomplete_response and unchecked are "retry",
\* repair_error is "replay", the statuses of a success are "ok".
State == [status: {"none", "ok", "retry", "replay"}, range: DayRange]
NoRange == [start |-> StartDay, end |-> StartDay]
Retryable == state.status \in {"retry", "replay"}

\* todo: ranges still to audit; force: the ones with forceReplay; piece: next
\* first day of a range that is cut into pieces; failed: firstErr of its pieces.
PassIdle == [pc |-> "idle", todo |-> <<>>, force |-> {}, piece |-> StartDay,
             failed |-> FALSE]

\* Every variable stays in its type.
TypeOK ==
  /\ lastDay \in StartDay..MaxDay /\ passes \in 0..PassesPerDay
  /\ row \in [Day -> {"right", "wrong", "none"}]
  /\ behind \subseteq Day
  /\ cursor \in Nat
  /\ retries \subseteq DayRange
  /\ state \in State
  /\ pass.pc \in {"idle", "ranges", "pieces"} /\ pass.piece \in Int
  /\ ToSet(pass.todo) \cup pass.force \subseteq DayRange
  /\ faults \in 0..MaxFaults
  /\ cleared \subseteq Day /\ covered \in [1..3 -> SUBSET Day]
  /\ listed \in Listing

Days(r) == r.start..r.end
Overlaps(r, q) == r.start <= q.end /\ r.end >= q.start

\* Nothing is owed by the rotations of an earlier process or before a skipped pass.
AllCovered == <<Day, Day, Day>>

\* What the live path left behind when a day closed.
ClosedDay(d) == IF d \in Bars THEN {"right", "wrong", "none"} ELSE {"none"}

\* A program starts with no memory; at most one old row is not right.
Init ==
  /\ lastDay = StartDay /\ passes = 0
  /\ \E d \in Day : \E v \in ClosedDay(d) :
       row = [x \in Day |-> IF x = d /\ d <= StartDay THEN v
                            ELSE IF x \in Bars /\ x <= StartDay THEN "right" ELSE "none"]
  /\ behind = {} /\ cursor = 0 /\ retries = {}
  /\ state = [status |-> "none", range |-> NoRange]
  /\ pass = PassIdle
  /\ faults = 0 /\ cleared = {} /\ covered = AllCovered /\ listed \in Listing

Fault == faults < MaxFaults /\ faults' = faults + 1

(***************************************************************************)
(* dailyAuditOnce: the ranges of a pass.                                   *)
(***************************************************************************)
Recent == [start |-> lastDay - (RecentDays - 1), end |-> lastDay]
BlockCount == (LookbackDays + RecentDays - 1) \div RecentDays
Block == cursor % BlockCount
\* Mutant: a block is a day short.
HistoricalShort ==
  LET first == lastDay - LookbackDays + Block * RecentDays
  IN [start |-> first, end |-> Min({first + RecentDays - 2, lastDay - RecentDays})]

Historical ==
  LET first == lastDay - LookbackDays + Block * RecentDays
  IN [start |-> first, end |-> Min({first + RecentDays - 1, lastDay - RecentDays})]

\* A range is audited once a pass, and not at all when it is empty.
Distinct(s) ==
  LET keep == {i \in DOMAIN s : s[i].start <= s[i].end /\ \A j \in 1..(i - 1) : s[j] # s[i]}
  IN [k \in 1..Cardinality(keep) |->
        s[CHOOSE i \in keep : Cardinality({j \in keep : j <= i}) = k]]

\* Recent days, a block of the history, the failed ranges in the order of the map,
\* and the failed range that kline_guardian_state remembers.
PassBegin ==
  /\ pass.pc = "idle" /\ (passes < PassesPerDay \/ lastDay = MaxDay)
  /\ LET saved == IF Retryable THEN <<state.range>> ELSE <<>>
     IN \E failed \in SetToSeqs(retries) :
          pass' = [PassIdle EXCEPT !.pc = "ranges",
                     !.todo = Distinct(<<Recent, Historical>> \o failed \o saved),
                     !.force = retries \cup ToSet(saved)]
  /\ cursor' = (Block + 1) % BlockCount
  /\ passes' = IF passes < PassesPerDay THEN passes + 1 ELSE passes
  /\ LET audited == (Days(Recent) \cup Days(Historical)) \cap Day
     IN covered' = IF Block = 0 THEN <<audited, covered[1], covered[2]>>
                   ELSE [covered EXCEPT ![1] = @ \cup audited]
  /\ UNCHANGED <<lastDay, rowVars, retries, state, faults, cleared, listed>>

\* LoadKlineGuardianState fails: the symbol is skipped in this pass.
PassSkips ==
  /\ pass.pc = "idle" /\ (passes < PassesPerDay \/ lastDay = MaxDay) /\ Fault
  /\ cursor' = (Block + 1) % BlockCount
  /\ passes' = IF passes < PassesPerDay THEN passes + 1 ELSE passes
  /\ covered' = AllCovered
  /\ UNCHANGED <<lastDay, rowVars, retries, state, pass, cleared, listed>>

PassEnd ==
  /\ pass.pc = "ranges" /\ pass.todo = <<>>
  /\ pass' = PassIdle
  /\ UNCHANGED <<lastDay, passes, rowVars, cursor, retries, state, faults, cleared,
                 covered, listed>>

(***************************************************************************)
(* upsertTimeframeAuditState: a range that does not cover the remembered   *)
(* failure leaves it alone, whatever its own outcome.                      *)
(***************************************************************************)
\* Mutant: a success writes its own range over a remembered failure.
UpsertForgets(status, r) ==
  IF Retryable /\ status # "ok" /\ (r.start > state.range.start \/ r.end < state.range.end)
    THEN state ELSE [status |-> status, range |-> r]

Upsert(status, r) ==
  IF Retryable /\ (r.start > state.range.start \/ r.end < state.range.end)
    THEN state ELSE [status |-> status, range |-> r]

\* recordRepairFailure; its own errors are ignored.
RecordFailure(status, r, force) ==
  \/ state' = Upsert(IF force THEN "replay" ELSE status, r)
  \/ state' = state

(***************************************************************************)
(* repairTimeframeRange for 1D.  failed says whether it returned an error. *)
(***************************************************************************)
\* A remembered repair_error that overlaps the range forces a replay.
ForceReplay(r, asked) == asked \/ (state.status = "replay" /\ Overlaps(r, state.range))

\* The request is clipped to the listing day.
Clip(r) == IF listed > 0 /\ r.start < listed THEN listed..r.end ELSE Days(r)

\* confirmNoTradeDays: no official bar, 24 empty official hours, no local trades.
NoTradeDays(r) == {d \in Clip(r) \cap Quiet : row[d] = "none"}

\* A day that is expected since the listing, or stored, is missing in the answer.
ResponseError(r, got) ==
  LET seen == got \cup NoTradeDays(r)
  IN \E d \in Clip(r) : d \notin seen /\ (listed > 0 \/ row[d] # "none")

\* No listing day is known, and some day has neither a bar nor evidence.
Unchecked(r, got) == listed = 0 /\ ~(Clip(r) \subseteq got \cup NoTradeDays(r))

NotListed(r, failed) ==
  /\ listed > 0 /\ r.end < listed
  /\ \/ ~failed /\ state' = Upsert("ok", r) /\ UNCHANGED faults
     \/ failed /\ Fault /\ UNCHANGED state
  /\ UNCHANGED rowVars

RestError(r, force, failed) ==
  /\ ~(listed > 0 /\ r.end < listed) /\ failed /\ Fault
  /\ RecordFailure("retry", r, force)
  /\ UNCHANGED rowVars

\* RepairFinalBars of the differing days, in order; it may stop at any of them,
\* before or after its row was written.
RepairStops(r, force, fix, failed) ==
  /\ failed /\ Fault
  /\ \E k \in fix : \E written \in BOOLEAN :
       LET before == {d \in fix : d < k}
       IN /\ row' = [d \in Day |-> IF d \in before \/ (d = k /\ written)
                                    THEN "right" ELSE row[d]]
          /\ behind' = IF written /\ row[k] # "right" THEN (behind \ before) \cup {k}
                       ELSE behind \ before
  /\ RecordFailure("replay", r, force)
\* RepairRollups rebuilds the upper frames of every answered day.
RepairEnds(r, got, failed) ==
  /\ ~ResponseError(r, got) /\ failed = Unchecked(r, got)
  /\ behind' = behind \ got
  /\ state' = Upsert(IF failed THEN "retry" ELSE "ok", r)

\* The answer does not hold every day: what it holds is written all the same.
RepairIncomplete(r, force, got, fix, failed) ==
  /\ ResponseError(r, got) /\ failed
  /\ behind' = behind \ fix
  /\ RecordFailure("retry", r, force)

\* The rows are written, and insertEvents, RepairRollups or the upsert fails.
RepairBreaks(r, force, got, fix, failed) ==
  /\ failed /\ Fault
  /\ \/ behind' = behind \ fix /\ UNCHANGED state
     \/ /\ ~ResponseError(r, got)
        /\ \E done \in SUBSET (got \cap behind) : behind' = (behind \ fix) \ done
        /\ RecordFailure("replay", r, force)

\* An empty answer without evidence of quiet days is a failure.
RepairEmpty(r, force, got, failed) ==
  /\ got \cup NoTradeDays(r) = {} /\ failed
  /\ RecordFailure("retry", r, force)
  /\ UNCHANGED rowVars

\* A complete or short answer got, compared with the rows and written.
RepairAnswer(r, force, got, failed) ==
  LET fix == {d \in got : row[d] # "right" \/ force}
      write == row' = [d \in Day |-> IF d \in fix THEN "right" ELSE row[d]]
      nonEmpty == got \cup NoTradeDays(r) # {}
      whole == got = Clip(r) \cap Bars
      calm == IF whole THEN UNCHANGED faults ELSE Fault
  IN \/ RepairEmpty(r, force, got, failed) /\ calm
     \/ nonEmpty /\ RepairEnds(r, got, failed) /\ write /\ calm
     \/ nonEmpty /\ RepairIncomplete(r, force, got, fix, failed) /\ write /\ calm
     \/ nonEmpty /\ whole /\ RepairStops(r, force, fix, failed)
     \/ nonEmpty /\ whole /\ RepairBreaks(r, force, got, fix, failed) /\ write

RepairTimeframeRange(r, asked, failed) ==
  LET bars == Clip(r) \cap Bars
  IN \/ NotListed(r, failed)
     \/ RestError(r, ForceReplay(r, asked), failed)
     \/ /\ ~(listed > 0 /\ r.end < listed)
        /\ \E got \in {bars} \cup {bars \ {d} : d \in bars} :
             RepairAnswer(r, ForceReplay(r, asked), got, failed)

(***************************************************************************)
(* repairDailyAuditRange: at most PieceDays days a request.                *)
(***************************************************************************)
\* The outcome of a whole range, in the retries and in the history.
Settle(r, failed) ==
  /\ retries' = IF failed THEN retries \cup {r} ELSE retries \ {r}
  /\ cleared' = IF failed THEN {} ELSE Days(r)
  /\ pass' = [pass EXCEPT !.pc = "ranges", !.todo = Tail(@), !.failed = FALSE]

InOnePiece(r) == r.end - r.start < PieceDays \/ (listed > 0 /\ r.end < listed)

AuditRange(failed) ==
  /\ pass.pc = "ranges" /\ pass.todo # <<>>
  /\ LET r == Head(pass.todo)
     IN /\ InOnePiece(r)
        /\ RepairTimeframeRange(r, r \in pass.force, failed)
        /\ Settle(r, failed)
  /\ UNCHANGED <<lastDay, passes, cursor, covered, listed>>

AuditPieces ==
  /\ pass.pc = "ranges" /\ pass.todo # <<>> /\ ~InOnePiece(Head(pass.todo))
  /\ pass' = [pass EXCEPT !.pc = "pieces", !.piece = Head(pass.todo).start]
  /\ UNCHANGED <<lastDay, passes, rowVars, cursor, retries, state, faults, cleared,
                 covered, listed>>

\* Mutant: a piece that failed is asked again before the next one.
AuditPieceSticks(failed) ==
  /\ pass.pc = "pieces" /\ pass.piece <= Head(pass.todo).end
  /\ LET r == Head(pass.todo)
         p == [start |-> pass.piece, end |-> Min({pass.piece + PieceDays - 1, r.end})]
     IN RepairTimeframeRange(p, r \in pass.force, failed)
  /\ pass' = IF failed THEN [pass EXCEPT !.failed = TRUE]
             ELSE [pass EXCEPT !.piece = @ + PieceDays]
  /\ UNCHANGED <<lastDay, passes, cursor, retries, cleared, covered, listed>>

AuditPiece(failed) ==
  /\ pass.pc = "pieces" /\ pass.piece <= Head(pass.todo).end
  /\ LET r == Head(pass.todo)
         p == [start |-> pass.piece, end |-> Min({pass.piece + PieceDays - 1, r.end})]
     IN RepairTimeframeRange(p, r \in pass.force, failed)
  /\ pass' = [pass EXCEPT !.piece = @ + PieceDays, !.failed = @ \/ failed]
  /\ UNCHANGED <<lastDay, passes, cursor, retries, cleared, covered, listed>>
\* Mutant: the outcome of the last piece is the outcome of the range.
AuditPiecesEndLast(failed) ==
  /\ pass.pc = "pieces" /\ pass.piece > Head(pass.todo).end
  /\ ~failed
  /\ state' = Upsert("ok", Head(pass.todo)) /\ UNCHANGED faults
  /\ Settle(Head(pass.todo), failed)
  /\ UNCHANGED <<lastDay, passes, rowVars, cursor, covered, listed>>

\* The state of the whole range is written; the write may fail.
AuditPiecesEnd(failed) ==
  /\ pass.pc = "pieces" /\ pass.piece > Head(pass.todo).end
  /\ \/ /\ failed = pass.failed
        /\ state' = Upsert(IF failed THEN "retry" ELSE "ok", Head(pass.todo))
        /\ UNCHANGED faults
     \/ failed /\ Fault /\ UNCHANGED state
  /\ Settle(Head(pass.todo), failed)
  /\ UNCHANGED <<lastDay, passes, rowVars, cursor, covered, listed>>

(***************************************************************************)
(* Environment.                                                            *)
(***************************************************************************)
\* A UTC day closes; the live path stored it, stored it wrongly or not at all.
DayCloses ==
  /\ lastDay < MaxDay /\ passes = PassesPerDay /\ pass.pc = "idle"
  /\ lastDay' = lastDay + 1 /\ passes' = 0
  /\ \E v \in ClosedDay(lastDay + 1) : row' = [row EXCEPT ![lastDay + 1] = v]
  /\ UNCHANGED <<behind, cursor, retries, state, pass, faults, cleared, covered, listed>>

\* The process is restarted: cursor, retries and the pass are gone.
Restart ==
  /\ Fault
  /\ cursor' = 0 /\ retries' = {} /\ pass' = PassIdle
  /\ cleared' = {} /\ covered' = AllCovered
  /\ UNCHANGED <<lastDay, passes, rowVars, state, listed>>

PassStep ==
  \/ PassBegin \/ PassEnd \/ AuditPieces
  \/ \E failed \in BOOLEAN : AuditRange(failed) \/ AuditPiece(failed) \/ AuditPiecesEnd(failed)

Next == PassStep \/ PassSkips \/ DayCloses \/ Restart

Spec == Init /\ [][Next]_vars

(***************************************************************************)
(* Fairness: the hourly ticker runs passes to their end, and days close.   *)
(***************************************************************************)
FairSpec == Spec /\ WF_vars(PassStep) /\ WF_vars(DayCloses)

(***************************************************************************)
(* Properties.                                                             *)
(***************************************************************************)
\* A range whose audit returned without an error holds the official row of every
\* listed day that traded, with the frames above it rebuilt: a short answer, a
\* piece that failed or a rebuild that stopped is never taken for a success.
ClearedDaysRight ==
  \A d \in cleared \cap Bars : row[d] = "right" /\ d \notin behind

\* A remembered failure leaves kline_guardian_state only when a range that covers
\* it was audited: the success of another range cannot erase it.
FailureKept ==
  [][(Retryable /\ state' # state) =>
        /\ state'.range.start <= state.range.start
        /\ state'.range.end >= state.range.end]_vars

\* While no pass is skipped and the process runs on, every day of the lookback window
\* was audited in this rotation or in one of the two before it, although the blocks
\* move by a day whenever a day closes, so that the day on the seam of two blocks is
\* passed over.
RotationCovers ==
  passes > 0 => \A d \in (lastDay - LookbackDays)..lastDay : \E i \in 1..3 : d \in covered[i]

\* Every closed day that differs from the official one is repaired, with its upper
\* frames, through any finite number of failures and restarts, or leaves the window.
WrongDayRepaired ==
  \A d \in Bars :
    (d <= lastDay /\ (row[d] # "right" \/ d \in behind))
      ~> ((row[d] = "right" /\ d \notin behind) \/ d < lastDay - LookbackDays)
=============================================================================
