------------------------------ MODULE Breakdown -----------------------------
(***************************************************************************)
(* The arithmetic a PDF notice sets out (agents/notice_pdf.py): a run's    *)
(* nodes read the rows of Exposure one after the other and keep what they  *)
(* read, a person approves or adjusts the call, and the notice is built    *)
(* from what was kept, while the rows go on changing.  A run checkpointed  *)
(* before its state had the collateral and the threshold reads them when   *)
(* it sends.                                                               *)
(***************************************************************************)
EXTENDS Exposure

CONSTANT Adjustments   \* what an approver may change the call to

VARIABLE run

runVars == <<quotes, latest, closes, vix, rating, items, documents, cached, move>>

NoRows == [vm |-> 0, im |-> 0, threshold |-> 0, held |-> 0, mta |-> 0, call |-> 0, adjusted |-> {}, lines |-> 0]

NoImpact == {}

NoRun == [stage |-> "idle", vm |-> 0, im |-> 0, csa |-> NoTerms, threshold |-> 0, held |-> 0,
          lines |-> 0, torn |-> FALSE, call |-> 0, amount |-> 0, impact |-> NoImpact, older |-> FALSE, notice |-> NoRows]

BreakdownInit == run \in {NoRun, [NoRun EXCEPT !.older = TRUE]}

\* What the lines of the collateral table come to.
lines_sum(lines) == MapThenSumSet(LAMBDA l : l.value_after_haircut, lines)

ComputeExposure ==
  /\ run.stage \in {"idle", "approval"}
  /\ compute_exposure_ok(CP)
  /\ LET today == compute_mtm(load_positions(CP), get_prices)
         prior == compute_mtm(load_positions(CP), latest_closes_before)
     IN run' = [run EXCEPT !.stage = "terms", !.vm = compute_variation_margin(today, prior),
                           !.im = compute_initial_margin(today, vix),
                           !.impact = IF move = NoMove THEN NoImpact ELSE {event_impact_for}]
  /\ UNCHANGED runVars

\* CSATermsUnavailableError otherwise.
FetchTerms ==
  /\ run.stage = "terms" /\ documents # NoTerms
  /\ run' = [run EXCEPT !.stage = "evaluate", !.csa = documents]
  /\ UNCHANGED runVars

\* evaluate_breach_node: the collateral and the rating, then the call.
EvaluateBreach ==
  /\ run.stage = "evaluate"
  /\ LET threshold == effective_threshold(run.csa, rating)
     IN run' = [run EXCEPT !.stage = "lines", !.held = collateral_held, !.threshold = threshold, !.torn = FALSE,
                  !.call = evaluate_breach(run.vm + run.im, collateral_held, threshold, run.csa.mta).call_amount]
  /\ UNCHANGED runVars

\* An event's own move must exceed the MTA to raise a call.
material == \A impact \in run.impact : is_material(impact, run.csa.mta)

\* The node's second query of the collateral.
ReadLines ==
  /\ run.stage = "lines"
  /\ run' = IF run.call > 0 /\ material
            THEN [run EXCEPT !.stage = "approval",
                    !.lines = lines_sum(collateral_lines)]
            ELSE [NoRun EXCEPT !.older = run.older]
  /\ UNCHANGED runVars

\* A line was posted between the two queries.
PostMeanwhile(i) ==
  /\ i \notin items
  /\ Post(i) /\ run' = [run EXCEPT !.torn = @ \/ run.stage = "lines"]

Approve(amount) ==
  /\ run.stage = "approval"
  /\ run' = [run EXCEPT !.stage = "approved", !.amount = amount]
  /\ UNCHANGED runVars

\* Every run reads the collateral and the threshold when it sends.
breakdown_Now(r) ==
  [held |-> collateral_held, threshold |-> effective_threshold(r.csa, rating),
   lines |-> lines_sum(collateral_lines)]

\* _notice_pdf_inputs: what the run kept, or for an older run _breakdown_at_send.
breakdown(r) ==
  IF ~r.older THEN [held |-> r.held, threshold |-> r.threshold, lines |-> r.lines]
  ELSE [held |-> collateral_held, threshold |-> effective_threshold(r.csa, rating),
        lines |-> lines_sum(collateral_lines)]

\* _breakdown_rows: an adjusted amount gets a row of its own.
BuildNotice ==
  /\ run.stage = "approved"
  /\ LET shown == breakdown(run)
     IN run' = [run EXCEPT !.stage = "notice", !.notice =
          [vm |-> run.vm, im |-> run.im, threshold |-> shown.threshold, held |-> shown.held,
           mta |-> run.csa.mta, call |-> run.call, lines |-> shown.lines,
           adjusted |-> IF run.amount # run.call THEN {run.amount} ELSE {}]]
  /\ UNCHANGED runVars

BreakdownNext ==
  \/ ComputeExposure \/ FetchTerms \/ EvaluateBreach \/ ReadLines \/ BuildNotice
  \/ \E amount \in Adjustments \cup {run.call} : Approve(amount)
  \/ \E i \in Items : PostMeanwhile(i)
  \/ /\ \/ \E t \in Moving, p \in Prices : Quote(t, p) \/ Tick(t, p)
        \/ \E r \in Ratings : Rate(r)
        \/ \E csa \in CSAs : Ingest(csa)
     /\ run' = run

\* The rows of a notice lead from one to the next: exposure, less threshold,
\* less collateral, is the call it states, and that reaches the MTA it states,
\* whatever changed between the run's nodes, its approval and the sending.
\* Only for runs that kept their collateral and threshold: an older run's are
\* read when it sends, and its rows need not add up.
NoticeAddsUp ==
  run.stage = "notice" /\ ~run.older =>
    LET n == run.notice IN
    /\ n.call = required_support(n.vm + n.im, n.threshold) - n.held
    /\ n.call >= n.mta /\ n.call > 0
    /\ run.torn \/ n.lines = n.held
=============================================================================
