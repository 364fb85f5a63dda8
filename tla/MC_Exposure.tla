---------------------------- MODULE MC_Exposure ----------------------------
(***************************************************************************)
(* Three parts, explored one at a time: the exposure's rows under every    *)
(* order of changes; one run and its notice, from rows that are all there; *)
(* and the requests of the standalone tools, which never change.           *)
(***************************************************************************)
EXTENDS Breakdown, Tools

VARIABLE part

\* Two counterparties share a ticker; one of them is short the other ticker.
MCBook == <<[cp |-> "CP-1", ticker |-> "A", quantity |-> 2],
            [cp |-> "CP-1", ticker |-> "B", quantity |-> -1],
            [cp |-> "CP-2", ticker |-> "A", quantity |-> 1]>>
MCWeights == [t \in {"A", "B"} |-> IF t = "A" THEN 15 ELSE 30]

\* Thresholds in units: with prices of 1 to 3 the exposure runs from about
\* -12000 to 15000.  The second's triggers are looser for a worse grade, and
\* its MTA is a shortfall the first day can have exactly.
MCCSAs ==
  {[threshold |-> 6000, mta |-> 1000,
    rating_triggers |-> {[below_grade |-> 1, reduced_threshold |-> 0]}],
   [threshold |-> 4600, mta |-> 100,
    rating_triggers |-> {[below_grade |-> 0, reduced_threshold |-> 1000],
                         [below_grade |-> 1, reduced_threshold |-> 3000]}]}

MCItems == {[collateral_type |-> "cash", value_usd |-> 1000, haircut_pct |-> 0],
            [collateral_type |-> "treasury", value_usd |-> 2000, haircut_pct |-> 10],
            [collateral_type |-> "treasury", value_usd |-> 1000, haircut_pct |-> 50]}
MCQuantities == {-1, 1, 2}
MCPrice == [t \in {"A", "B"} |-> IF t = "A" THEN 3 ELSE 5]

NoRequest ==
  /\ inventory = <<>> /\ eligible = {} /\ haircuts = <<>> /\ required_amount = 0
  /\ ours = <<>> /\ theirs = <<>>

\* Every ticker closed at 1 and trades there.
RowsThere ==
  /\ latest = [t \in Tickers |-> 1] /\ quotes = latest /\ closes = latest /\ vix = 40
  /\ rating = NoRating /\ items = {} /\ documents \in CSAs /\ cached = Uncached /\ move = NoMove

\* The feed has a price for the ticker whose quotes do not change.
Quoted == quotes = [t \in Tickers |-> IF t \in Moving THEN NoPrice ELSE 3]

MCInit ==
  \/ part = "rows" /\ Init /\ Quoted /\ run = NoRun /\ NoRequest
  \/ part = "notice" /\ RowsThere /\ BreakdownInit /\ NoRequest
  \/ part = "tools" /\ Init /\ Quoted /\ documents = NoTerms /\ run = NoRun /\ (OptimizerRequests \/ ReconcileRequests)

\* bound: the prices stored catch up with the feed before a run reads its terms.
CaughtUp == run.stage \in {"idle", "terms"} \/ latest = quotes

MCNext ==
  /\ UNCHANGED <<part, toolVars>>
  /\ \/ part = "rows" /\ Next /\ UNCHANGED run
     \/ part = "notice" /\ BreakdownNext /\ CaughtUp'

MCSpec == MCInit /\ [][MCNext]_<<vars, run, toolVars, part>>
=============================================================================
