----------------------------- MODULE KlinePages -----------------------------
(***************************************************************************)
(* One call of FetchKlines of an exchange adapter                          *)
(* (internal/exchange/rest_kline.go): official history read page by page,  *)
(* from the oldest bar upwards at Binance, from the newest downwards at    *)
(* OKX, with the retries of doKlineGET.  Audits, the corporate-action      *)
(* worker, the gap filler and the backfill tool all read through it, and   *)
(* the worker deletes every stored row between the first and the last bar  *)
(* of an answer before it writes the answer.                               *)
(*                                                                         *)
(* Time is counted in bars of the requested timeframe.  A row of the       *)
(* exchange is what the page parsers tell apart: usable, in progress, or   *)
(* dropped (validOHLC, too few fields).  A step is one HTTP request with   *)
(* what the loop makes of its answer; bars close between the steps.        *)
(***************************************************************************)
EXTENDS Integers, Sequences, FiniteSets, FiniteSetsExt, SequencesExt

CONSTANTS
  Exchange,      \* subset of {"binance", "okx"}
  Request,       \* [start, end, limit]; 0 where the caller sets none
  LastBar,       \* bound: the last bar that may begin
  FirstOpen,     \* bar in progress when the call is made
  Listing,       \* first bars a history may have
  MaxDropped,    \* bound: unusable rows
  BinanceLimit,  \* binanceMaxKlineLimit
  HistoryLimit,  \* okxHistoryKlineLimit
  RecentLimit,   \* okxRecentKlineLimit
  DefaultLimit,  \* defaultKlineLimit
  Attempts,      \* attempts of doKlineGET
  MaxFaults      \* bound: failed requests and short pages

Bar == 1..LastBar

ASSUME RequestAssumption ==
  /\ Exchange \subseteq {"binance", "okx"}
  /\ Request \subseteq [start: Nat, end: Nat, limit: Nat]
  /\ FirstOpen \in Bar /\ Listing \subseteq Bar
ASSUME LimitAssumption ==
  /\ {BinanceLimit, HistoryLimit, RecentLimit, DefaultLimit, Attempts} \subseteq Nat \ {0}
  /\ {MaxDropped, MaxFaults} \subseteq Nat

VARIABLES
  rows,         \* bars the exchange has rows of, in progress or not
  dropped,      \* rows the page parsers skip although they are closed
  open,         \* the bar in progress
  forwardable,  \* OKX serves adjust=forward of this symbol
  exchange, request,  \* arguments of the call
  pc,           \* "call", "page", "done" or "failed"
  cursorStart, cursorEnd,  \* Binance: first and last bar still wanted
  after,        \* OKX: bars before this one are wanted next; 0 for the newest
  recent,       \* OKX: useRecentEndpoint
  remaining,    \* remaining
  adjustment,   \* adjustment of the next page
  attempt,      \* attempt of doKlineGET
  all,          \* the bars collected so far
  faults        \* failures so far

worldVars == <<rows, dropped, forwardable, exchange, request>>
loopVars == <<cursorStart, cursorEnd, after, recent, remaining, adjustment, all>>
vars == <<worldVars, open, pc, loopVars, attempt, faults>>

\* Every variable stays in its type.
TypeOK ==
  /\ rows \subseteq Bar /\ dropped \subseteq rows /\ open \in Bar
  /\ forwardable \in BOOLEAN /\ exchange \in Exchange /\ request \in Request
  /\ pc \in {"call", "page", "done", "failed"}
  /\ cursorStart \in 0..(LastBar + 1) /\ cursorEnd \in Nat
  /\ after \in Nat /\ recent \in BOOLEAN
  /\ remaining \in Int /\ ((pc = "page" /\ request.limit > 0) => remaining > 0)
  /\ adjustment \in {"raw", "forward", "auto"}
  /\ attempt \in 1..Attempts
  /\ all \in Seq(Bar) /\ Len(all) <= LastBar
  /\ faults \in 0..MaxFaults

\* A listed symbol, perhaps with a bar the exchange never had and rows that are
\* not usable.
Init ==
  /\ exchange \in Exchange /\ request \in Request
  /\ \E first \in Listing : \E gap \in {0} \cup Bar : rows = (first..LastBar) \ {gap}
  /\ dropped \in {D \in SUBSET rows : Cardinality(D) <= MaxDropped}
  /\ open = FirstOpen
  /\ forwardable \in BOOLEAN /\ (exchange = "binance" => ~forwardable)
  /\ adjustment \in {"raw", "forward", "auto"} /\ (exchange = "binance" => adjustment = "raw")
  /\ pc = "call" /\ cursorStart = 0 /\ cursorEnd = 0 /\ after = 0 /\ recent = FALSE
  /\ remaining = 0 /\ attempt = 1 /\ all = <<>> /\ faults = 0

Fault == faults < MaxFaults /\ faults' = faults + 1

Smaller(m, n) == IF m < n THEN m ELSE n

\* The rows the exchange has by now.
Served == {b \in rows : b <= open}

Newest(S, n) == {b \in S : Cardinality({c \in S : c > b}) < n}
Oldest(S, n) == {b \in S : Cardinality({c \in S : c < b}) < n}

Requested(b) ==
  /\ request.start > 0 => b >= request.start
  /\ request.end > 0 => b <= request.end

Ascending(S) == SetToSortSeq(S, <)

(***************************************************************************)
(* The call, and doKlineGET.                                               *)
(***************************************************************************)
Limit == IF request.limit = 0 /\ request.start = 0 THEN DefaultLimit ELSE request.limit

\* FetchKlines and FetchContinuousKlines of Binance up to the loop.
BinanceBegin ==
  /\ pc = "call" /\ exchange = "binance"
  /\ pc' = "page"
  /\ remaining' = Limit
  /\ cursorStart' = request.start
  /\ cursorEnd' = IF request.end > 0 THEN request.end ELSE open - 1
  /\ UNCHANGED <<worldVars, open, after, recent, adjustment, all, attempt, faults>>

\* FetchKlines of OKX up to the loop.
OKXBegin ==
  /\ pc = "call" /\ exchange = "okx"
  /\ pc' = "page"
  /\ remaining' = Limit
  /\ after' = IF request.end > 0 THEN request.end + 2 ELSE 0
  /\ recent' = (request.start = 0 /\ request.end = 0)
  /\ UNCHANGED <<worldVars, open, cursorStart, cursorEnd, adjustment, all, attempt, faults>>

\* A timeframe the exchange does not serve: ErrUnsupportedKlineInterval.
BeginUnsupported ==
  /\ pc = "call"
  /\ pc' = "failed"
  /\ UNCHANGED <<worldVars, open, loopVars, attempt, faults>>

\* Status 429 or 5xx: the same request again, and after the last attempt an error.
Transient ==
  /\ pc = "page" /\ Fault
  /\ IF attempt < Attempts THEN attempt' = attempt + 1 /\ UNCHANGED pc
     ELSE attempt' = 1 /\ pc' = "failed"
  /\ UNCHANGED <<worldVars, open, loopVars>>

\* A transport error, another status, an undecodable body, an invalid activity
\* field, or the context ends while the loop waits for the next page.
PageFails ==
  /\ pc = "page" /\ Fault
  /\ pc' = "failed"
  /\ UNCHANGED <<worldVars, open, loopVars, attempt>>

(***************************************************************************)
(* fetchBinanceKlines.                                                     *)
(***************************************************************************)
PageLimit(n) == IF remaining > 0 THEN Smaller(remaining, n) ELSE n

\* The endpoint: the first rows from startTime on, or the last ones up to endTime.
BinanceAnswer ==
  LET inRange == {b \in Served : b >= cursorStart /\ b <= cursorEnd}
  IN IF cursorStart > 0 THEN Oldest(inRange, PageLimit(BinanceLimit))
     ELSE Newest(inRange, PageLimit(BinanceLimit))

\* Conditions that leave the loop after a page.
BinanceLast(page) ==
  LET next == Max(page) + 1
  IN \/ page = {} \/ request.start = 0
     \/ remaining > 0 /\ remaining - Cardinality(page) <= 0
     \/ next > cursorEnd \/ next <= cursorStart
     \/ Cardinality(page) < PageLimit(BinanceLimit)

\* fetchBinanceKlinePage keeps the rows that are complete, closed by the local clock
\* and have four prices.
BinanceBars(S) == {b \in S : b < open /\ b \notin dropped}

BinancePage ==
  /\ pc = "page" /\ exchange = "binance"
  /\ LET page == BinanceBars(BinanceAnswer)
     IN /\ all' = all \o Ascending({b \in page : Requested(b)})
        /\ remaining' = IF remaining > 0 THEN remaining - Cardinality(page) ELSE remaining
        /\ IF BinanceLast(page) THEN pc' = "done" /\ UNCHANGED cursorStart
           ELSE pc' = "page" /\ cursorStart' = Max(page) + 1
  /\ attempt' = 1
  /\ UNCHANGED <<worldVars, open, cursorEnd, after, recent, adjustment, faults>>

(***************************************************************************)
(* FetchKlines of OKX.                                                     *)
(***************************************************************************)
\* The recent endpoint serves the newest bars only, the other one all of them.
RecentEndpoint == recent /\ after = 0
OKXLimit == PageLimit(IF RecentEndpoint THEN RecentLimit ELSE HistoryLimit)
OKXRows == {b \in Served : after > 0 => b < after}

\* ErrUnsupportedKlineAdjustment: "auto" asks again without adjustment.
OKXUnsupported ==
  /\ pc = "page" /\ exchange = "okx"
  /\ adjustment \in {"forward", "auto"} /\ ~forwardable
  /\ IF adjustment = "auto" THEN adjustment' = "raw" /\ UNCHANGED pc
     ELSE pc' = "failed" /\ UNCHANGED adjustment
  /\ attempt' = 1
  /\ UNCHANGED <<worldVars, open, cursorStart, cursorEnd, after, recent, remaining, all, faults>>

\* Mutant: a page below the limit is taken for the last one.
OKXNextShort(page) ==
  LET fresh == {b \in page : Requested(b)} \ ToSet(all)
      left == remaining - Cardinality(fresh)
      oldest == Min(page)
  IN /\ all' = all \o Ascending(fresh)
     /\ remaining' = IF remaining > 0 THEN left ELSE remaining
     /\ IF \/ remaining > 0 /\ left <= 0
           \/ request.start > 0 /\ oldest <= request.start
           \/ Cardinality(page) < OKXLimit
          THEN pc' = "done" /\ UNCHANGED <<after, recent>>
          ELSE pc' = "page" /\ after' = oldest /\ recent' = FALSE

\* Mutant: the oldest bar of a page is asked for as if "after" were inclusive.
OKXNextInclusive(page) ==
  LET fresh == {b \in page : Requested(b)} \ ToSet(all)
      left == remaining - Cardinality(fresh)
      oldest == Min(page)
  IN /\ all' = all \o Ascending(fresh)
     /\ remaining' = IF remaining > 0 THEN left ELSE remaining
     /\ IF \/ remaining > 0 /\ left <= 0
           \/ request.start > 0 /\ oldest <= request.start
           \/ after = oldest
          THEN pc' = "done" /\ UNCHANGED <<after, recent>>
          ELSE pc' = "page" /\ after' = oldest - 1 /\ recent' = FALSE

\* The loop after a page that holds bars.
OKXNext(page) ==
  LET fresh == {b \in page : Requested(b)} \ ToSet(all)
      left == remaining - Cardinality(fresh)
      oldest == Min(page)
  IN /\ all' = all \o Ascending(fresh)
     /\ remaining' = IF remaining > 0 THEN left ELSE remaining
     /\ IF \/ remaining > 0 /\ left <= 0
           \/ request.start > 0 /\ oldest <= request.start
           \/ after = oldest
          THEN pc' = "done" /\ UNCHANGED <<after, recent>>
          ELSE pc' = "page" /\ after' = oldest /\ recent' = FALSE

\* Mutant: an empty recent page is asked for again.
OKXEmptyAgain ==
  /\ pc' = IF RecentEndpoint THEN "page" ELSE "done"
  /\ UNCHANGED <<after, recent, remaining, all>>

\* A page without a usable bar: the history endpoint instead of the recent one, or
\* the end.
OKXEmpty ==
  /\ recent' = (recent /\ ~RecentEndpoint)
  /\ pc' = IF RecentEndpoint THEN "page" ELSE "done"
  /\ UNCHANGED <<after, remaining, all>>

\* fetchOKXKlinePage keeps the rows that are confirmed, closed by the local clock and
\* have four prices.
OKXBars(S) == {b \in S : b < open /\ b \notin dropped}

OKXPage(n) ==
  /\ pc = "page" /\ exchange = "okx"
  /\ adjustment = "raw" \/ forwardable
  /\ LET page == OKXBars(Newest(OKXRows, n))
     IN IF page = {} THEN OKXEmpty ELSE OKXNext(page)
  /\ attempt' = 1
  /\ UNCHANGED <<worldVars, open, cursorStart, cursorEnd, adjustment>>

OKXFullPage == OKXPage(OKXLimit) /\ UNCHANGED faults

\* OKX may answer with fewer rows than the limit although older ones exist; a closed
\* bar is among them.
OKXShortPage ==
  \E n \in 1..(OKXLimit - 1) :
    OKXPage(n) /\ {b \in Newest(OKXRows, n) : b < open} # {} /\ Fault

(***************************************************************************)
(* The result, and time.                                                   *)
(***************************************************************************)
\* sortBars, trimBars.
Result ==
  LET sorted == SortSeq(all, <)
  IN IF request.limit = 0 \/ Len(sorted) <= request.limit THEN sorted
     ELSE SubSeq(sorted, Len(sorted) - request.limit + 1, Len(sorted))

\* The bar in progress closes, and the next one begins.
BarCloses ==
  /\ pc = "page" /\ open < LastBar
  /\ open' = open + 1
  /\ UNCHANGED <<worldVars, pc, loopVars, attempt, faults>>

Returned ==
  /\ pc \in {"done", "failed"}
  /\ UNCHANGED vars

PageStep == BinancePage \/ OKXFullPage \/ OKXUnsupported

Next ==
  \/ BinanceBegin \/ OKXBegin \/ BeginUnsupported \/ PageStep \/ OKXShortPage \/ Transient \/ PageFails
  \/ BarCloses \/ Returned

Spec == Init /\ [][Next]_vars

(***************************************************************************)
(* Fairness: the caller's goroutine runs, and a request is answered in the *)
(* end (the HTTP client has a timeout).                                    *)
(***************************************************************************)
FairSpec == Spec /\ WF_vars(BinanceBegin \/ OKXBegin) /\ WF_vars(PageStep)

(***************************************************************************)
(* Properties.                                                             *)
(***************************************************************************)
\* The usable bars of the request that are closed when bar n is in progress.
Wanted(n) == {b \in rows \ dropped : b < n /\ Requested(b)}

\* An answer lists bars of the request once each, in order, and leaves none out
\* between its first and its last: whatever pages were short, retried or held rows
\* that were dropped, the caller that deletes that range rewrites every usable bar.
HoleFree ==
  pc = "done" =>
    /\ \A i \in 2..Len(Result) : Result[i - 1] < Result[i]
    /\ ToSet(Result) \subseteq Wanted(open)
    /\ \A b \in Wanted(open) \ ToSet(Result) :
         ToSet(Result) # {} => b < Result[1] \/ b > Result[Len(Result)]

\* How many bars a request with a limit asks for, whether it is read from its old
\* end, and whether the bar in progress may take the place of one of them.
Asked ==
  IF exchange = "binance" /\ request.start = 0 THEN Smaller(Limit, BinanceLimit) ELSE Limit
FromOldest == exchange = "binance" /\ request.start > 0
OpenCounted ==
  IF exchange = "binance" THEN request.start = 0 /\ request.end >= FirstOpen
  ELSE Asked = 1 /\ (request.end = 0 \/ request.end + 1 >= FirstOpen)

\* An answer without an error is complete, when no row was dropped: a range has all
\* of its bars that were closed at the call; a limited one has that many, the newest
\* ones, except that Binance reads a range from its old end, and without a start
\* reads one page only.
AllReturned ==
  (pc = "done" /\ dropped = {}) =>
    LET wanted == Wanted(FirstOpen)
        got == ToSet(Result)
    IN IF request.limit = 0 /\ request.start > 0 THEN wanted \subseteq got
       ELSE /\ Len(Result) <= Asked
            /\ Len(Result) >= Smaller(Asked, Cardinality(wanted)) - (IF OpenCounted THEN 1 ELSE 0)
            /\ (wanted # {} /\ got # {}) =>
                 IF FromOldest THEN Min(got) = Min(wanted) ELSE Max(got) >= Max(wanted)

\* The call returns: every page moves the loop on.
Terminates == <>(pc \in {"done", "failed"})
=============================================================================
