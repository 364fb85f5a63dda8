------------------------------ MODULE Exposure ------------------------------
(***************************************************************************)
(* One counterparty's exposure as the system computes it in four places:   *)
(* the run of the orchestrator (compute_exposure, evaluate_breach_node),   *)
(* the materiality of an event, the exposure board (api/exposure.py) and   *)
(* the arrays of the backfill.  The state is what they read: the market    *)
(* feed, which a run asks for its prices, the rows of the database, which  *)
(* the board takes its prices from, the CSA documents, and the board's     *)
(* per-process cache of the terms it extracted.                            *)
(***************************************************************************)
EXTENDS Calc

CONSTANTS
  Book,         \* [position -> [cp, ticker, quantity]]
  CP,           \* the counterparty whose terms and collateral are modelled
  Prices,       \* what a ticker can trade at
  VixLevels,
  Ratings,      \* ranks
  CSAs,         \* terms a set of CSA documents yields
  Items,        \* collateral items: [collateral_type, value_usd, haircut_pct]
  Moving        \* bound: the tickers whose quotes change

CPs == {Book[k].cp : k \in DOMAIN Book}
Tickers == {Book[k].ticker : k \in DOMAIN Book}
NoPrice == 0
NoTerms == [none |-> TRUE]
Uncached == [uncached |-> TRUE]
NoVix == 0

\* Positions are unique per counterparty and ticker.
ASSUME BookAssumption ==
  /\ CP \in CPs /\ IsFiniteSet(DOMAIN Book)
  /\ \A k \in DOMAIN Book : Book[k].quantity \in Int /\ RISK_WEIGHTS[Book[k].ticker] \in Nat
  /\ \A k, l \in DOMAIN Book : Book[k].cp = Book[l].cp /\ Book[k].ticker = Book[l].ticker => k = l
ASSUME NumbersAssumption ==
  /\ Prices \subseteq Nat \ {NoPrice} /\ VixLevels \subseteq Nat \ {NoVix} /\ Ratings \subseteq Nat
  /\ \A i \in Items : i.value_usd \in Nat /\ i.haircut_pct \in 0..100
  /\ CSAs \subseteq [threshold : Nat, mta : Nat,
                     rating_triggers : SUBSET [below_grade : Nat, reduced_threshold : Nat]]
  /\ \A c \in CSAs : \A r \in c.rating_triggers : r.reduced_threshold <= c.threshold
  /\ Moving \subseteq Tickers

VARIABLES
  quotes,     \* what the market feed quotes now, a simulation's shocked prices too:
              \* per ticker, or NoPrice
  latest,     \* latest_prices: per ticker, or NoPrice
  closes,     \* the last close before today: per ticker, or NoPrice
  vix,        \* the newest VIXCLS, or NoVix
  rating,     \* the newest rating
  items,      \* collateral held
  documents,  \* the terms the CSA documents yield, or NoTerms
  cached,     \* _cached_csa_terms of one board process
  move        \* the last shock: the ticker and the close it was measured from

vars == <<quotes, latest, closes, vix, rating, items, documents, cached, move>>
market == <<quotes, latest, closes, vix, move>>
account == <<rating, items, documents>>

NoMove == [ticker |-> "none"]

Init ==
  /\ quotes \in [Tickers -> Prices \cup {NoPrice}]
  /\ latest = [t \in Tickers |-> NoPrice]
  /\ closes = [t \in Tickers |-> NoPrice]
  /\ vix = NoVix
  /\ rating = NoRating
  /\ items = {}
  /\ documents \in CSAs \cup {NoTerms}
  /\ cached = Uncached
  /\ move = NoMove

(***************************************************************************)
(* What the feed and the queries return.                                   *)
(***************************************************************************)
Known(rows) == Restrict(rows, {t \in Tickers : rows[t] # NoPrice})
get_prices == Known(quotes)
latest_prices == Known(latest)
latest_closes_before == Known(closes)

load_positions(cp) ==
  [t \in {Book[k].ticker : k \in {j \in DOMAIN Book : Book[j].cp = cp}} |->
     Book[CHOOSE k \in DOMAIN Book : Book[k].cp = cp /\ Book[k].ticker = t].quantity]

post_haircut(value, haircut) == (value * (100 - haircut)) \div 100

post_haircut_sum(held) == MapThenSumSet(LAMBDA i : post_haircut(i.value_usd, i.haircut_pct), held)

collateral_held == post_haircut_sum(items)

\* The notice's breakdown: one line per type and haircut.
collateral_lines ==
  {[collateral_type |-> g[1], haircut_pct |-> g[2],
    value_after_haircut |->
      post_haircut_sum({i \in items : <<i.collateral_type, i.haircut_pct>> = g})] :
   g \in {<<i.collateral_type, i.haircut_pct>> : i \in items}}

(***************************************************************************)
(* The orchestrator's run, with the feed's prices and these rows.          *)
(***************************************************************************)
\* MarketDataUnavailableError: a price the feed has not.  PricingError: no
\* positions, a close missing, no VIX.
compute_exposure_ok(cp) ==
  /\ CanPrice(load_positions(cp), get_prices)
  /\ CanPrice(load_positions(cp), latest_closes_before)
  /\ vix # NoVix

compute_exposure(cp, prices) ==
  LET today == compute_mtm(load_positions(cp), prices)
      prior == compute_mtm(load_positions(cp), latest_closes_before)
  IN compute_variation_margin(today, prior) + compute_initial_margin(today, vix)

evaluate_breach_node(csa) ==
  evaluate_breach(compute_exposure(CP, get_prices), collateral_held,
                  effective_threshold(csa, rating), csa.mta)

\* The event's own move, over this counterparty's book.
event_impact_for ==
  event_exposure_impact(load_positions(CP), [t \in {move.ticker} |-> move.from],
                        [t \in {move.ticker} |-> move.to], vix)

(***************************************************************************)
(* The board.                                                              *)
(***************************************************************************)
\* Cached per process, a failure too.
csa_terms == IF cached = Uncached THEN documents ELSE cached

\* The light is at risk from 80% of the threshold on.
classify_status(exposure, threshold, breach) ==
  IF breach.breached THEN "breached"
  ELSE IF threshold > 0 /\ 10 * exposure >= 8 * threshold THEN "at_risk" ELSE "healthy"

Unavailable == [status |-> "unavailable", call_amount |-> 0]

\* The counterparty's entry missing from the batch: 0.
collateral_held_for_counterparties_Missing == 0

\* The batched query, with the same formula.
collateral_held_for_counterparties ==
  FoldSet(LAMBDA i, sum : sum + post_haircut(i.value_usd, i.haircut_pct), 0, items)

board_available ==
  /\ CanPrice(load_positions(CP), latest_prices)
  /\ \A t \in DOMAIN load_positions(CP) : t \in DOMAIN latest_closes_before
  /\ csa_terms # NoTerms
  /\ vix # NoVix

\* The terms without their rating triggers, and no rating.
board_exposure ==
  LET exposure == compute_exposure(CP, latest_prices)
      breach == evaluate_breach(exposure, collateral_held_for_counterparties, csa_terms.threshold, csa_terms.mta)
  IN IF ~board_available THEN Unavailable
     ELSE [status |-> classify_status(exposure, csa_terms.threshold, breach),
           call_amount |-> breach.call_amount]

(***************************************************************************)
(* Actions.                                                                *)
(***************************************************************************)
\* The feed quotes a ticker anew, or has no price for it.
Quote(t, p) ==
  /\ quotes' = [quotes EXCEPT ![t] = p]
  /\ UNCHANGED <<latest, closes, vix, move, account, cached>>

\* upsert_latest_price, of a quote the consumer was sent earlier; a shock is a
\* tick measured from the prior close.
Tick(t, p) ==
  /\ latest' = [latest EXCEPT ![t] = p]
  /\ move' = IF closes[t] = NoPrice THEN NoMove ELSE [ticker |-> t, from |-> closes[t], to |-> p]
  /\ UNCHANGED <<quotes, closes, vix, account, cached>>

\* Today's close of a ticker becomes its prior close the day after.
NextDay(t) ==
  /\ latest[t] # NoPrice
  /\ closes' = [closes EXCEPT ![t] = latest[t]]
  /\ move' = NoMove
  /\ UNCHANGED <<quotes, latest, vix, account, cached>>

PublishVix(v) ==
  /\ vix' = v
  /\ UNCHANGED <<quotes, latest, closes, move, account, cached>>

Rate(r) ==
  /\ rating' = r
  /\ UNCHANGED <<market, items, documents, cached>>

Post(i) ==
  /\ items' = items \cup {i}
  /\ UNCHANGED <<market, rating, documents, cached>>

Ingest(csa) ==
  /\ documents' = csa
  /\ UNCHANGED <<market, rating, items, cached>>

ViewBoard ==
  /\ cached = Uncached
  /\ cached' = documents
  /\ UNCHANGED <<market, account>>

RestartBoard ==
  /\ cached' = Uncached
  /\ UNCHANGED <<market, account>>

Next ==
  \/ \E t \in Tickers : NextDay(t) \/ \E p \in Prices : Tick(t, p)
  \/ \E t \in Moving, p \in Prices \cup {NoPrice} : Quote(t, p)
  \/ \E v \in VixLevels : PublishVix(v)
  \/ \E r \in Ratings : Rate(r)
  \/ \E i \in Items : Post(i)
  \/ \E csa \in CSAs : Ingest(csa)
  \/ ViewBoard
  \/ RestartBoard

Spec == Init /\ [][Next]_vars

(***************************************************************************)
(* Properties.                                                             *)
(***************************************************************************)
Evaluable == compute_exposure_ok(CP) /\ documents # NoTerms

\* From the same prices, the backfill's arrays give every counterparty the
\* exposure, and this one the threshold and the call, that the calculation
\* engine gives it.
TwinsAgree ==
  Evaluable /\ (\A cp \in CPs : compute_exposure_ok(cp)) =>
    LET vm == vc_variation_margin(vc_portfolio_mtm(Book, CPs, get_prices),
                                  vc_portfolio_mtm(Book, CPs, latest_closes_before))
        im == vc_initial_margin(Book, CPs, get_prices, vix)
    IN /\ \A cp \in CPs : vm[cp] + im[cp] = compute_exposure(cp, get_prices)
       /\ \A r \in documents.rating_triggers :
            LET csa == [documents EXCEPT !.rating_triggers = {r}]
                threshold == vc_effective_threshold(csa.threshold, rating, r.below_grade, r.reduced_threshold)
                twin == vc_evaluate_breach(vm[CP] + im[CP], collateral_held, threshold, csa.mta)
            IN /\ threshold = effective_threshold(csa, rating)
               /\ [breached |-> twin.breached, call_amount |-> twin.call_amount] = evaluate_breach_node(csa)

\* What an event did to the exposure is what the whole book's exposure would
\* be without it, subtracted: positions it did not move cancel out, whatever
\* the feed quotes for them.
ImpactIsTheDifference ==
  Evaluable /\ move # NoMove /\ move.ticker \in DOMAIN load_positions(CP) =>
    event_impact_for = compute_exposure(CP, [get_prices EXCEPT ![move.ticker] = move.to])
                         - compute_exposure(CP, [get_prices EXCEPT ![move.ticker] = move.from])

\* With the terms it has not cached from older documents, and the feed quoting
\* the prices stored for the book, the board is available exactly when a run
\* could evaluate, and never shows a call that a run would not raise, or a
\* larger one.  A feed that has moved on, failed or been shocked is excepted:
\* the board keeps the stored prices (exposure.py), a run asks the feed.
BoardWithinRun ==
  csa_terms = documents /\ (\A t \in DOMAIN load_positions(CP) : quotes[t] = latest[t]) =>
    /\ Evaluable <=> board_exposure.status # "unavailable"
    /\ Evaluable => board_exposure.call_amount <= evaluate_breach_node(documents).call_amount

=============================================================================
