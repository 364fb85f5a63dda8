-------------------------------- MODULE Feed --------------------------------
(***************************************************************************)
(* The margin-call feed (api/margin_calls.py): every run's status derived  *)
(* from its checkpointed values, the flat list, the buckets with one row   *)
(* per counterparty, a counterparty's history and the public totals, read  *)
(* by a signed-in user while the runs move.                                *)
(*                                                                         *)
(* A run is the values its nodes wrote; None is NONE.  A read lists the    *)
(* threads in the caller's session, then fetches each one's state in a     *)
(* pool, with the graph's own firm-wide session.                           *)
(***************************************************************************)
EXTENDS Access, Integers, SequencesExt

CONSTANTS
  Elite,     \* the counterparties of the elite tier
  Amounts,   \* call amounts
  Adjusted,  \* amounts an approver may set
  Retriggered,  \* bound: the events whose runs later triggers reach
  MaxRuns    \* bound

ASSUME FeedAssumption == Elite \subseteq Cps /\ Amounts \cup Adjusted \subseteq Nat /\ MaxRuns \in Nat

VARIABLES
  runs,  \* the orchestrator's runs, in the order they were raised
  read   \* the read under way

feedVars == <<access, granted, runs, read>>

NONE == "none"
NoAmount == -1
NotReading == [stage |-> "idle"]

FeedInit ==
  /\ AccessInit
  /\ runs = <<>>
  /\ read = NotReading

(***************************************************************************)
(* The runs.  What each node writes, and the node queued next.             *)
(***************************************************************************)
\* looked: a dispatch read the run as a call at its first gate.  crossed is
\* history: it was restarted after that gate had been answered.
NewRun(cp, at) ==
  [cp |-> cp, at |-> at, next |-> "evaluate", breach |-> NONE, amount |-> 0, decision |-> NONE, adjusted |-> 0,
   manager |-> NONE, notified |-> FALSE, sla |-> NONE, escalated |-> FALSE,
   looked |-> FALSE, crossed |-> FALSE]

\* Events are numbered by when they occurred, not when they were consumed.
StartFeedRun(cp, at) ==
  /\ Len(runs) < MaxRuns
  /\ \A i \in DOMAIN runs : runs[i].at # at
  /\ runs' = Append(runs, NewRun(cp, at))
  /\ UNCHANGED <<access, granted, read>>

Write(i, v) ==
  /\ runs' = [runs EXCEPT ![i] = v]
  /\ UNCHANGED <<access, granted, read>>

Approved(v) == v.decision \in {"approved", "adjusted"}

NeedsManager(v) == v.cp \in Elite /\ Approved(v) /\ v.manager = NONE

\* evaluate_breach, the first time or for a later trigger; only the first
\* evaluation is held by the materiality gate.
EvaluateRun(i) ==
  /\ runs[i].next = "evaluate"
  /\ \/ Write(i, [runs[i] EXCEPT !.breach = "no_breach", !.amount = 0, !.next = "end"])
     \/ \E f \in Amounts :
          Write(i, [runs[i] EXCEPT !.breach = "breached", !.amount = f, !.next = "await_approval"])
     \/ runs[i].breach = NONE /\ \E f \in Amounts :
          Write(i, [runs[i] EXCEPT !.breach = "below_mta", !.amount = f, !.next = "end"])

Signed(i) == IF runs[i].cp \in Elite THEN "await_manager_approval" ELSE "send"

ApproveRun(i) ==
  /\ runs[i].next = "await_approval"
  /\ \/ Write(i, [runs[i] EXCEPT !.decision = "rejected", !.next = "end"])
     \/ Write(i, [runs[i] EXCEPT !.decision = "approved", !.next = Signed(i)])
     \/ \E f \in Adjusted :
          Write(i, [runs[i] EXCEPT !.decision = "adjusted", !.adjusted = f, !.next = Signed(i)])

\* A manager's rejection is recorded as a dispute.
ManagerApproveRun(i) ==
  /\ runs[i].next = "await_manager_approval"
  /\ \/ Write(i, [runs[i] EXCEPT !.manager = "approved", !.next = "send"])
     \/ Write(i, [runs[i] EXCEPT !.manager = "rejected", !.decision = "disputed", !.next = "end"])

\* A notice that never left counts as a missed deadline, and escalates at
\* once; so does a later notice of the same run, as the failure is kept.
NotifyRun(i) ==
  /\ runs[i].next = "send"
  /\ \/ Write(i, [runs[i] EXCEPT !.notified = TRUE, !.next = "await_sla_response"])
     \/ Write(i, [runs[i] EXCEPT !.notified = TRUE, !.sla = "breached", !.next = "escalate"])

ResolveRun(i) ==
  /\ runs[i].next = "await_sla_response"
  /\ \/ Write(i, [runs[i] EXCEPT !.sla = "met", !.next = "end"])
     \/ Write(i, [runs[i] EXCEPT !.sla = "breached", !.next = "escalate"])

EscalateRun(i) ==
  /\ runs[i].next = "escalate"
  /\ Write(i, [runs[i] EXCEPT !.escalated = TRUE, !.next = "end"])

(***************************************************************************)
(* A run's row.                                                            *)
(***************************************************************************)

lifecycle_status(v) ==
  IF v.escalated \/ v.sla = "breached" THEN "escalated"
  ELSE IF v.sla = "met" THEN "sla_met"
  ELSE IF v.notified THEN "awaiting_sla_response"
  ELSE IF v.decision \in {"rejected", "disputed"} THEN v.decision
  ELSE IF NeedsManager(v) THEN "awaiting_manager_approval"
  ELSE IF v.breach = "below_mta" THEN "below_materiality"
  ELSE IF v.breach = "breached" THEN "awaiting_approval"
  ELSE IF v.breach = "no_breach" THEN "no_breach"
  ELSE "evaluating"

\* The policy's own reading of the same values (orchestrator.py).
open_call_stage(v) ==
  IF v.breach # "breached" \/ v.escalated \/ v.sla # NONE THEN NONE
  ELSE IF v.notified THEN "awaiting_sla_response"
  ELSE IF v.decision \in {"rejected", "disputed"} THEN NONE
  ELSE IF Approved(v) THEN "awaiting_manager_approval"
  ELSE "awaiting_approval"

effective_call_amount(v) ==
  IF v.breach = NONE THEN NoAmount
  ELSE IF v.decision = "adjusted" THEN v.adjusted ELSE v.amount

\* A breach the materiality gate held has no call amount.
call_amount(v) ==
  IF lifecycle_status(v) = "below_materiality" THEN NoAmount ELSE effective_call_amount(v)

summarize(v) ==
  [cp |-> v.cp, at |-> v.at, status |-> lifecycle_status(v), call_amount |-> call_amount(v)]

Ids == DOMAIN runs

(***************************************************************************)
(* The margin policy.  It reads the open call's values, and when they are  *)
(* at the first gate it later restarts the run; nothing keeps an approver  *)
(* from answering in between.                                              *)
(***************************************************************************)
\* find_open_call: the newest.
LookAtRun(i) ==
  /\ runs[i].at \in Retriggered
  /\ ~runs[i].looked /\ open_call_stage(runs[i]) = "awaiting_approval"
  /\ \A j \in Ids :
       runs[j].cp = runs[i].cp /\ open_call_stage(runs[j]) # NONE => runs[j].at <= runs[i].at
  /\ Write(i, [runs[i] EXCEPT !.looked = TRUE])

\* A run at rest: at a gate, or at its end.
AtRest(v) == v.next \notin {"evaluate", "send", "escalate"}

\* update_state: the values stay.
RestartRun(i) ==
  /\ runs[i].looked /\ AtRest(runs[i])
  /\ Write(i, [runs[i] EXCEPT !.next = "evaluate", !.looked = FALSE,
                  !.crossed = @ \/ runs[i].decision # NONE])

(***************************************************************************)
(* A read.                                                                 *)
(***************************************************************************)

\* user_session: the caller's scope.
OpenSession(u) ==
  /\ read = NotReading
  /\ Begins(u)
  /\ read' = [stage |-> "list", user |-> u, scope |-> scope_for(u), before |-> Ids]
  /\ UNCHANGED <<access, runs>>

\* One of the pool's reads of a run's state.
FetchState(i) ==
  /\ read.stage = "fetch"
  /\ i \in read.ids \ DOMAIN read.rows
  /\ read' = [read EXCEPT !.rows =
       [j \in DOMAIN @ \cup {i} |-> IF j = i THEN summarize(runs[i]) ELSE @[j]]]
  /\ UNCHANGED <<access, granted, runs>>

\* The thread ids, through the checkpoints' policy.
ListThreads ==
  /\ read.stage = "list"
  /\ read' = [stage |-> "fetch", user |-> read.user, scope |-> read.scope, before |-> read.before,
              ids |-> {i \in Ids : app_can_see(read.scope, runs[i].cp)}, rows |-> <<>>]
  /\ UNCHANGED <<access, granted, runs>>

ShowFeed ==
  /\ read.stage = "fetch"
  /\ DOMAIN read.rows = read.ids
  /\ read' = [read EXCEPT !.stage = "shown"]
  /\ UNCHANGED <<access, granted, runs>>

CloseFeed ==
  /\ read.stage = "shown"
  /\ read' = NotReading
  /\ granted' = [u \in Users |-> {}]
  /\ UNCHANGED <<access, runs>>

\* The list is ordered by when the events occurred; as no two occurred at
\* once, the set of its rows says the same.
list_margin_calls(rows) == {rows[i] : i \in DOMAIN rows}

list_margin_calls_for_counterparty(rows, cp) == {r \in list_margin_calls(rows) : r.cp = cp}

\* The first of the list.
MostRecent(calls) == CHOOSE r \in calls : \A q \in calls : q.at <= r.at

\* Ranked by urgency: an older pending call before a newer resolved one.
LatestOf_Urgent(calls) ==
  LET urgent == {r \in calls : r.status = "awaiting_approval"}
  IN MostRecent(IF urgent # {} THEN urgent ELSE calls)

LatestOf(calls) == MostRecent(calls)

list_margin_call_buckets(rows) ==
  LET of(cp) == list_margin_calls_for_counterparty(rows, cp)
  IN {[counterparty_id |-> cp, latest |-> LatestOf(of(cp)), total_count |-> Cardinality(of(cp))] :
        cp \in {rows[i].cp : i \in DOMAIN rows}}

\* Runs still evaluating count for nothing; those that raised no call are
\* in the total only.
counterparty_history(rows, cp) ==
  LET resolved == {r \in list_margin_calls_for_counterparty(rows, cp) : r.status # "evaluating"}
      breached == {r \in resolved : r.status \notin {"no_breach", "below_materiality"}}
  IN [total_calls |-> Cardinality(resolved), breached_calls |-> Cardinality(breached)]

public_stats(rows) ==
  [runs_evaluated |-> Cardinality(DOMAIN rows),
   calls_raised |-> Cardinality({i \in DOMAIN rows : rows[i].call_amount > 0})]

EditFeedRows(u, cp) == EditAccess(u, cp, read # NotReading /\ read.user = u) /\ UNCHANGED <<runs, read>>

FeedNext ==
  \/ \E cp \in Cps, at \in 1..MaxRuns : StartFeedRun(cp, at)
  \/ \E i \in Ids :
       \/ EvaluateRun(i) \/ ApproveRun(i) \/ ManagerApproveRun(i) \/ NotifyRun(i)
       \/ ResolveRun(i) \/ EscalateRun(i) \/ LookAtRun(i) \/ RestartRun(i) \/ FetchState(i)
  \/ \E u \in Users : OpenSession(u) \/ \E cp \in Cps : EditFeedRows(u, cp)
  \/ ListThreads \/ ShowFeed \/ CloseFeed

(***************************************************************************)
(* Properties.                                                             *)
(***************************************************************************)
\* The state has the shape the code gives it.
FeedTypeOK ==
  /\ access \in [Users -> SUBSET Cps]
  /\ \A i \in Ids : runs[i].decision \in {NONE, "approved", "adjusted", "rejected", "disputed"}
  /\ read.stage \in {"idle", "list", "fetch", "shown"}
  /\ read.stage \in {"fetch", "shown"} => DOMAIN read.rows \subseteq read.ids /\ read.ids \subseteq Ids

\* A user's feed holds only runs of counterparties they had at some time
\* during the read, though each run's state is fetched firm-wide and their
\* access rows may change meanwhile (user_session in main.py).
FeedWithinScope ==
  read.stage = "shown" => \A i \in read.ids : read.rows[i].cp \in granted[read.user]

\* A counterparty's bucket shows its newest run and counts all of those
\* raised before the read began, in whatever order their events came and
\* whatever is pending: an old call stuck at a gate hides nothing newer
\* (list_margin_call_buckets).
NewestIsShown ==
  read.stage = "shown" =>
    \A i \in {j \in read.before : can_see(read.scope, runs[j].cp)} :
      \E b \in list_margin_call_buckets(read.rows) :
        /\ b.counterparty_id = runs[i].cp
        /\ b.latest.at >= runs[i].at
        /\ b.total_count >= Cardinality({j \in read.before : runs[j].cp = runs[i].cp})

RowsOf(rows, cp) == [i \in {j \in DOMAIN rows : rows[j].cp = cp /\ ~runs[j].crossed} |-> rows[i]]

\* The public page counts a call by its amount, a counterparty's history by
\* its status: of no counterparty does the page count a call that its history
\* does not, a breach held by the materiality gate included (public_stats,
\* counterparty_history).  Runs restarted over an answer are left out.
PublicCountsCalls ==
  read.stage = "shown" =>
    \A cp \in Cps :
      public_stats(RowsOf(read.rows, cp)).calls_raised <= counterparty_history(read.rows, cp).breached_calls

\* The stage a run paused at a node is in.
StageAt(node) ==
  CASE node = "await_approval" -> "awaiting_approval"
    [] node = "await_manager_approval" -> "awaiting_manager_approval"
    [] node = "await_sla_response" -> "awaiting_sla_response"
    [] OTHER -> NONE

\* The two readings of one run's values name the gate it is paused at.
InStep(v) ==
  LET shown == lifecycle_status(v)
  IN /\ open_call_stage(v) = StageAt(v.next)
     /\ StageAt(v.next) =
          IF shown \in {"awaiting_approval", "awaiting_manager_approval", "awaiting_sla_response"}
          THEN shown ELSE NONE

\* A run at rest is open to the policy exactly when the feed shows it open, at
\* the same gate, the one it is paused at (open_call_stage in orchestrator.py),
\* unless it was restarted over an approver's answer.
StagesInStep == \A v \in ToSet(runs) : AtRest(v) /\ ~v.crossed => InStep(v)

\* A feed tells all and only what the runs say and its reader may see.
FeedIsTrue ==
  FeedTypeOK /\ FeedWithinScope /\ NewestIsShown /\ PublicCountsCalls /\ StagesInStep
=============================================================================
