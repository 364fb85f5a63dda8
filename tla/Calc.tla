-------------------------------- MODULE Calc --------------------------------
(***************************************************************************)
(* The calculation engine (calc/) and its two other readings of the same   *)
(* rules: the vectorised twin of the backfill (warehouse/vector_calc.py)   *)
(* and the exposure board's (api/exposure.py).                             *)
(*                                                                         *)
(* Money is an integer number of 1 / UNIT dollars, so that percent risk    *)
(* weights and a VIX multiplier in twentieths are exact.  Positions are a  *)
(* function from the tickers held to quantities, prices one from the       *)
(* tickers that have a price.                                              *)
(***************************************************************************)
EXTENDS Integers, FiniteSets, FiniteSetsExt, Functions

CONSTANT RISK_WEIGHTS   \* percent, per ticker

VIX_BASELINE == 20
UNIT == 100 * VIX_BASELINE

Largest(a, b) == IF a >= b THEN a ELSE b
Smallest(a, b) == IF a <= b THEN a ELSE b
Size(a) == IF a >= 0 THEN a ELSE -a

\* PricingError otherwise: no positions, or one without a price.
CanPrice(positions, prices) ==
  DOMAIN positions # {} /\ DOMAIN positions \subseteq DOMAIN prices

compute_mtm(positions, prices) == [t \in DOMAIN positions |-> positions[t] * prices[t]]

total_mtm(mtm) == SumFunction(mtm)

compute_variation_margin(today, prior) == UNIT * (total_mtm(today) - total_mtm(prior))

\* VIX / baseline between 0.5 and 3, in twentieths.
vix_multiplier(vix) == Largest(VIX_BASELINE \div 2, Smallest(3 * VIX_BASELINE, vix))

compute_initial_margin(mtm, vix) ==
  SumFunction([t \in DOMAIN mtm |-> Size(mtm[t]) * RISK_WEIGHTS[t]]) * vix_multiplier(vix)

(***************************************************************************)
(* The breach check.  Ratings are ranks in RATING_ORDER, 0 the best;       *)
(* NoRating when the counterparty has none.                                *)
(***************************************************************************)
NoRating == -1

fired(csa, rating) == {c \in csa.rating_triggers : rating > c.below_grade}

effective_threshold(csa, rating) ==
  LET reduced == {c.reduced_threshold : c \in fired(csa, rating)}
  IN IF reduced = {} THEN csa.threshold ELSE CHOOSE a \in reduced : \A b \in reduced : a <= b

required_support(exposure, threshold) == Largest(0, exposure - threshold)

evaluate_breach(exposure, held, threshold, mta) ==
  LET delivery == required_support(exposure, threshold) - held
      due == delivery > 0 /\ delivery >= mta
  IN [breached |-> due, call_amount |-> IF due THEN delivery ELSE 0]

(***************************************************************************)
(* The materiality of one event: the tickers it moved, priced before and   *)
(* after, over the positions in them.                                      *)
(***************************************************************************)
\* Without the change in initial margin.
event_exposure_impact_Mtm(positions, from, to, vix) ==
  LET affected == Restrict(positions, DOMAIN positions \cap DOMAIN to)
  IN compute_variation_margin(compute_mtm(affected, to), compute_mtm(affected, from))

event_exposure_impact(positions, from, to, vix) ==
  LET affected == Restrict(positions, DOMAIN positions \cap DOMAIN to)
      before == compute_mtm(affected, from)
      after == compute_mtm(affected, to)
  IN compute_variation_margin(after, before)
       + compute_initial_margin(after, vix) - compute_initial_margin(before, vix)

is_material(impact, mta) == impact > mta

(***************************************************************************)
(* The vectorised twin: a book is a function from positions to             *)
(* [cp, ticker, quantity], a result is a function of the counterparties.   *)
(***************************************************************************)
\* numpy's bincount: the weights of the positions, added up per counterparty.
bincount(book, cps, weight) ==
  [i \in cps |-> SumFunctionOnSet(weight, {k \in DOMAIN book : book[k].cp = i})]

vc_portfolio_mtm(book, cps, price) ==
  bincount(book, cps, [k \in DOMAIN book |-> book[k].quantity * price[book[k].ticker]])

vc_variation_margin(today, prior) == [i \in DOMAIN today |-> UNIT * (today[i] - prior[i])]

vc_initial_margin(book, cps, price, vix) ==
  LET base == bincount(book, cps,
                [k \in DOMAIN book |->
                   Size(book[k].quantity * price[book[k].ticker]) * RISK_WEIGHTS[book[k].ticker]])
  IN [i \in cps |-> base[i] * vix_multiplier(vix)]

\* One trigger per CSA, fired at its grade and not only below it.
vc_effective_threshold_AtGrade(threshold, rating, trigger, reduced) ==
  IF rating >= 0 /\ rating >= trigger THEN reduced ELSE threshold

\* One trigger per CSA; a negative rating is none.
vc_effective_threshold(threshold, rating, trigger, reduced) ==
  IF rating >= 0 /\ rating > trigger THEN reduced ELSE threshold

vc_evaluate_breach(exposure, collateral, threshold, mta) ==
  LET required == Largest(0, exposure - threshold)
      delivery == required - collateral
      breached == delivery > 0 /\ delivery >= mta
  IN [breached |-> breached, call_amount |-> IF breached THEN delivery ELSE 0, required |-> required]

\* The CSA return amount: the excess, if it clears the MTA.
return_amount(collateral, required, mta) ==
  LET excess == collateral - required
  IN IF excess > 0 /\ excess >= mta THEN excess ELSE 0
=============================================================================
