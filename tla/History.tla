------------------------------ MODULE History ------------------------------
(***************************************************************************)
(* The daily closes behind the simulated book (warehouse/history.py): a    *)
(* backfill downloads them in batches, each tried again for what it still  *)
(* lacks, keeps them in one cache file per window, aligns them on the      *)
(* trading days and fills short gaps; then the book is drawn from the      *)
(* tickers that came (prepare_inputs in warehouse/backfill.py).            *)
(*                                                                         *)
(* A close is written as the day it was printed on: what matters of a      *)
(* price is which day's it is.                                             *)
(***************************************************************************)
EXTENDS Calendar, Sequences, Functions, SequencesExt

CONSTANTS
  Constituents, VIX_SYMBOL,
  Symbols,                   \* the tickers in order, then VIX_SYMBOL
  Series,                    \* per symbol, the days it may have closed on
  BATCH_SIZE, MAX_ATTEMPTS, MAX_FILL_DAYS,
  MaxRuns, MaxCrashes        \* bounds: backfills started, and those killed

ASSUME SymbolsAssumption ==
  /\ VIX_SYMBOL \notin Constituents /\ Symbols \in Seq(Constituents \cup {VIX_SYMBOL})
  /\ ToSet(Symbols) = Constituents \cup {VIX_SYMBOL} /\ IsInjective(Symbols)
  /\ \A s \in ToSet(Symbols) : \A days \in Series[s] : days \subseteq Nat \ {0} /\ IsFiniteSet(days)
ASSUME LimitsAssumption ==
  /\ BATCH_SIZE \in Nat \ {0} /\ MAX_ATTEMPTS \in Nat \ {0} /\ MAX_FILL_DAYS \in Nat
  /\ MaxRuns \in Nat /\ MaxCrashes \in Nat

VARIABLES
  printed,   \* the days each symbol closed on, as Yahoo has them
  cache,     \* the file: none, torn by a kill while it was written, or whole
  backfill,  \* the one under way: where it is, offset, attempt, result
  outcomes,  \* history: what backfills got since the file was last deleted
  refused,   \* history: per symbol, the attempts of this download in vain
  runs, kills

historyVars == <<printed, cache, backfill, outcomes, refused, runs, kills>>

NaN == 0
NoCloses == <<>>  \* the empty dict
NoCache == [state |-> "none", closes |-> NoCloses]
Idle == [at |-> "idle", offset |-> 0, attempt |-> 0, result |-> NoCloses]

HistoryInit ==
  /\ printed \in {p \in [ToSet(Symbols) -> UNION {Series[s] : s \in ToSet(Symbols)}] :
                    \A s \in ToSet(Symbols) : p[s] \in Series[s]}
  /\ cache = NoCache /\ backfill = Idle /\ outcomes = {}
  /\ refused = [s \in ToSet(Symbols) |-> 0]
  /\ runs = 0 /\ kills = 0

(***************************************************************************)
(* The price matrix.                                                       *)
(***************************************************************************)

\* The days missing in a row are counted; up to the limit each takes over the
\* day before.  Nothing is filled before the first close.
_forward_fill(column) ==
  LET closes == {i \in DOMAIN column : column[i] # NaN}
      gap[i \in DOMAIN column] ==
        IF i \in closes THEN 0 ELSE 1 + IF i = 1 THEN 0 ELSE gap[i - 1]
      fill[i \in DOMAIN column] ==
        IF i \in closes THEN column[i]
        ELSE IF (\E j \in closes : j < i) /\ gap[i] <= MAX_FILL_DAYS THEN fill[i - 1] ELSE NaN
  IN fill

\* The days on which half the tickers closed, MIN_COVERAGE, and VIX printed.
trading_days(closes, present) ==
  {d \in closes[VIX_SYMBOL] :
     LET n == Cardinality({t \in present : d \in closes[t]}) IN n > 0 /\ 2 * n >= Cardinality(present)}

Failed == [ok |-> FALSE]

build_matrix(closes, present, dates) ==
  [t \in present |-> _forward_fill([i \in DOMAIN dates |-> IF dates[i] \in closes[t] THEN dates[i] ELSE NaN])]

\* The tickers the book may hold, each with the close its positions are sized on.
first_close(matrix) ==
  LET First(t) == CHOOSE i \in DOMAIN matrix[t] :
                    matrix[t][i] # NaN /\ \A j \in 1..(i - 1) : matrix[t][j] = NaN
  IN [t \in {u \in DOMAIN matrix : \E i \in DOMAIN matrix[u] : matrix[u][i] # NaN} |-> matrix[t][First(t)]]

\* What a backfill makes of its closes: HistoryError, or the inputs.
prepare_inputs(closes) ==
  LET present == DOMAIN closes \cap Constituents
      dates == ascending(trading_days(closes, present))
      matrix == build_matrix(closes, present, dates)
  IN IF VIX_SYMBOL \notin DOMAIN closes \/ present = {} \/ dates = <<>> THEN Failed
     ELSE [ok |-> TRUE, dates |-> dates, closes |-> matrix, book |-> first_close(matrix)]

(***************************************************************************)
(* One backfill.                                                           *)
(***************************************************************************)
Ends(outcome) == backfill' = Idle /\ outcomes' = outcomes \cup {outcome}

\* A file that is there is read, whatever is in it; a torn one raises.
LoadHistory ==
  /\ backfill.at = "idle" /\ runs < MaxRuns
  /\ runs' = runs + 1
  /\ CASE cache.state = "none" ->
            /\ backfill' = [at |-> "download", offset |-> 0, attempt |-> 1, result |-> NoCloses]
            /\ refused' = [s \in DOMAIN refused |-> 0] /\ UNCHANGED outcomes
       [] cache.state = "whole" ->
            backfill' = [Idle EXCEPT !.at = "prepare", !.result = cache.closes] /\ UNCHANGED <<outcomes, refused>>
       [] cache.state = "torn" -> Ends(Failed) /\ UNCHANGED refused
  /\ UNCHANGED <<printed, cache, kills>>

batch(offset) == {Symbols[i] : i \in {j \in DOMAIN Symbols : offset < j /\ j <= offset + BATCH_SIZE}}

\* The next batch once this one is complete or was tried often enough.
NextAttempt(result) ==
  IF batch(backfill.offset) \subseteq DOMAIN result \/ backfill.attempt = MAX_ATTEMPTS
  THEN [backfill EXCEPT !.offset = @ + BATCH_SIZE, !.attempt = 1, !.result = result]
  ELSE [backfill EXCEPT !.attempt = @ + 1, !.result = result]

\* Any of the symbols still missing may come; a request that raises brings
\* none of them, and an empty series counts as missing.
DownloadCloses ==
  /\ backfill.at = "download" /\ backfill.offset < Len(Symbols)
  /\ LET pending == batch(backfill.offset) \ DOMAIN backfill.result IN
     \E came \in SUBSET {s \in pending : printed[s] # {}} :
       /\ backfill' = NextAttempt([s \in DOMAIN backfill.result \cup came |-> printed[s]])
       /\ refused' = [s \in DOMAIN refused |-> refused[s] + IF s \in pending \ came THEN 1 ELSE 0]
  /\ UNCHANGED <<printed, cache, outcomes, runs, kills>>

\* The file holds the tickers' closes only.
SaveCache_Tickers ==
  /\ backfill.at = "save"
  /\ cache' = [state |-> "whole", closes |-> Restrict(backfill.result, DOMAIN backfill.result \cap Constituents)]
  /\ backfill' = [backfill EXCEPT !.at = "prepare"]
  /\ UNCHANGED <<printed, outcomes, refused, runs, kills>>

\* The file is opened, which truncates it, and then written.
OpenCache ==
  /\ backfill.at = "download" /\ backfill.offset >= Len(Symbols)
  /\ cache' = [state |-> "torn", closes |-> NoCloses]
  /\ backfill' = [backfill EXCEPT !.at = "save"]
  /\ UNCHANGED <<printed, outcomes, refused, runs, kills>>

SaveCache ==
  /\ backfill.at = "save"
  /\ cache' = [state |-> "whole", closes |-> backfill.result]
  /\ backfill' = [backfill EXCEPT !.at = "prepare"]
  /\ UNCHANGED <<printed, outcomes, refused, runs, kills>>

Prepare ==
  /\ backfill.at = "prepare"
  /\ Ends(prepare_inputs(backfill.result))
  /\ UNCHANGED <<printed, cache, refused, runs, kills>>

Kill ==
  /\ backfill.at # "idle" /\ kills < MaxCrashes
  /\ kills' = kills + 1 /\ backfill' = Idle
  /\ UNCHANGED <<printed, cache, outcomes, refused, runs>>

\* "delete the file to re-download"
DeleteCache ==
  /\ backfill.at = "idle" /\ cache # NoCache
  /\ cache' = NoCache /\ outcomes' = {}
  /\ UNCHANGED <<printed, backfill, refused, runs, kills>>

HistoryNext ==
  LoadHistory \/ DownloadCloses \/ OpenCache \/ SaveCache \/ Prepare \/ Kill \/ DeleteCache

HistorySpec == HistoryInit /\ [][HistoryNext]_historyVars

-----------------------------------------------------------------------------
(* Properties. *)

\* A price is the ticker's newest close on a trading day up to then, and at
\* most MAX_FILL_DAYS trading days old; a day without one is before the first
\* close or after a longer gap (_forward_fill: no look ahead, no stale price).
PricesAreRecent ==
  \A o \in outcomes : o.ok =>
    \A t \in DOMAIN o.closes, i \in DOMAIN o.dates :
      LET past == {j \in 1..i : o.dates[j] \in printed[t] /\ i - j <= MAX_FILL_DAYS}
      IN o.closes[t][i] = IF past = {} THEN NaN
                          ELSE o.dates[CHOOSE j \in past : \A k \in past : k <= j]

\* As long as the cache file is there every backfill gets the same prices and
\* so draws the same book, chunk by chunk, or fails the same way: a symbol
\* that did not come, VIX included, and a file cut short stay so.
SameBookUntilDeleted == Cardinality(outcomes) <= 1

\* A symbol left out of the file was asked for MAX_ATTEMPTS times in vain; one
\* that came was not dropped again by a later attempt (download_closes).
LeftOutAfterRetries ==
  cache.state = "whole" /\ backfill.at \in {"idle", "prepare"} =>
    \A s \in ToSet(Symbols) :
      IF s \in DOMAIN cache.closes THEN cache.closes[s] = printed[s] ELSE refused[s] = MAX_ATTEMPTS

\* Two backfills draw the same book from prices nobody could quarrel with.
BookIsRepeatable == PricesAreRecent /\ SameBookUntilDeleted /\ LeftOutAfterRetries
=============================================================================
