---------------------------- MODULE MarginPolicy ----------------------------
(***************************************************************************)
(* From triggers to margin calls: the impact consumer, the daily run and   *)
(* the simulate panel (streaming/impact_consumer.py, api/main.py,          *)
(* api/simulate.py) each hand a trigger, counterparty by counterparty, to  *)
(* the margin-call policy (agents/margin_policy.py), which starts a run,   *)
(* re-evaluates the open call or leaves it alone.                          *)
(*                                                                         *)
(* A worker is one request in one Cloud Run instance.  Workers share two   *)
(* kinds of processed_events rows: the claim run:<event>:<cp>, which makes *)
(* a trigger exactly-once, and the lease cp-lease:<cp>, which serialises   *)
(* the triggers of a counterparty.  The run itself is Orchestrator's; here *)
(* a thread is the stage it shows to find_open_call.                       *)
(***************************************************************************)
EXTENDS Integers, FiniteSets, Sequences

CONSTANTS
  Workers,
  NumEvents,       \* events are numbered by occurred_at
  Simulated,       \* events of the simulate panel: no claim, no redelivery
  Daily,           \* events without price moves: no materiality gate
  CpLists,         \* per event, impact.counterparty_ids
  MaxDeliveries,   \* max_delivery_attempts, or Cloud Scheduler's retries
  MaxCrashes,      \* bound on workers lost
  MaxFailures,     \* bound on exceptions out of a dispatch
  Duplicates,      \* a message may be delivered again while being handled
  HumansOverlap    \* people may sign while a trigger is being dispatched

Events == 1..NumEvents
Listed == [e \in Events |-> {CpLists[e][i] : i \in DOMAIN CpLists[e]}]
Cps == UNION {Listed[e] : e \in Events}
Keys == UNION {{e} \X Listed[e] : e \in Events}

ASSUME WorkersAssumption == IsFiniteSet(Workers)
ASSUME EventsAssumption ==
  NumEvents \in Nat /\ Simulated \subseteq Events /\ Daily \subseteq Events \ Simulated
ASSUME CpListsAssumption ==
  \A e \in Events :
    /\ CpLists[e] \in Seq(Listed[e])
    /\ \A i, j \in 1..Len(CpLists[e]) : CpLists[e][i] = CpLists[e][j] => i = j
ASSUME BoundsAssumption ==
  /\ MaxDeliveries \in Nat \ {0} /\ MaxCrashes \in Nat /\ MaxFailures \in Nat
  /\ Duplicates \in BOOLEAN /\ HumansOverlap \in BOOLEAN

VARIABLES
  claims,    \* rows run:<event>:<cp>
  lease,     \* row cp-lease:<cp>: absent, live or past its TTL
  threads,   \* per <<event that started it, cp>>: what the checkpoints say
  work,      \* per worker: the request it handles
  messages,  \* per event: the subscription's view of its message; twice, a history:
             \* it was delivered while a worker had it in hand
  log,       \* history, per <<event, cp>>: what became of the trigger, and "raised"
             \* where an exception followed
  stranded,  \* history: what exceptions left behind: a "lease" row, a "claim" row, or a
             \* "decision" on the thread of a run that is started again
  crashes, failures

vars == <<claims, lease, threads, work, messages, log, stranded, crashes, failures>>

\* The channels open_call_stage reads, whether the approval gate is pending,
\* and the events in impact and updated_by.
Thread ==
  [breached: BOOLEAN, decision: {"none", "approved", "rejected"}, over: BOOLEAN,
   gate: BOOLEAN, applied: SUBSET Events]
NewThread ==
  [breached |-> FALSE, decision |-> "none", over |-> FALSE, gate |-> FALSE, applied |-> {}]
Outcomes == {"evaluated", "repeat", "immaterial", "absorbed", "held", "raised"}

Idle == [pc |-> "idle"]
InDispatch == {"find", "start", "update", "evaluate", "audit", "release"}
Work ==
  [pc: InDispatch \cup {"claim", "lease", "takeover", "unclaim"},
   event: Events, i: Nat \ {0},
   busy: BOOLEAN,                          \* some counterparty was busy
   result: {"none", "done", "busy", "failed"},
   thread: Events]

TypeOK ==
  /\ claims \subseteq Keys
  /\ lease \in [Cps -> {"free", "live", "expired"}]
  /\ threads \in [Keys -> Thread]
  /\ work \in [Workers -> Work \cup {Idle}]
  /\ messages \in [Events -> [state: {"new", "pending", "acked", "dead"},
                           attempts: 0..MaxDeliveries, twice: BOOLEAN]]
  /\ log \in [Keys -> Seq(Outcomes)]
  /\ stranded \subseteq {"lease", "claim", "decision"}
  /\ crashes \in Nat /\ failures \in Nat

-----------------------------------------------------------------------------
At(w, pc) == work[w].pc = pc
Cp(w) == CpLists[work[w].event][work[w].i]
Key(w) == <<work[w].event, Cp(w)>>
Goto(w, pc) == work' = [work EXCEPT ![w].pc = pc]
Result(w, result, pc) == work' = [work EXCEPT ![w].pc = pc, ![w].result = result]
Record(w, outcome) == log' = [log EXCEPT ![Key(w)] = Append(@, outcome)]
NextCp(w, busy) ==
  work' = [work EXCEPT ![w].pc = "claim", ![w].i = @ + 1, ![w].busy = @ \/ busy]

OpenCallStage(th) ==
  IF ~th.breached \/ th.over \/ th.decision = "rejected" THEN "none"
  ELSE IF th.decision = "approved" THEN "signed" ELSE "awaiting_approval"
Stage(t, cp) == OpenCallStage(threads[<<t, cp>>])
OpenCalls(cp) == {t \in Events : cp \in Listed[t] /\ Stage(t, cp) # "none"}
Holders(cp) == {w \in Workers : work[w].pc \in InDispatch /\ Cp(w) = cp}

Init ==
  /\ claims = {}
  /\ lease = [cp \in Cps |-> "free"]
  /\ threads = [k \in Keys |-> NewThread]
  /\ work = [w \in Workers |-> Idle]
  /\ messages = [e \in Events |-> [state |-> "new", attempts |-> 0, twice |-> FALSE]]
  /\ log = [k \in Keys |-> <<>>]
  /\ stranded = {}
  /\ crashes = 0 /\ failures = 0

\* A message may be pushed again until it is acknowledged or its attempts are
\* used up; the daily run may be asked for again.
Deliverable(e) ==
  /\ messages[e].attempts < MaxDeliveries
  /\ \/ messages[e].state \in {"new", "pending"}
     \/ messages[e].state = "acked" /\ Duplicates

Begin(w, e) ==
  /\ At(w, "idle")
  /\ work' = [work EXCEPT ![w] =
       [pc |-> "claim", event |-> e, i |-> 1, busy |-> FALSE, result |-> "none", thread |-> e]]
  /\ UNCHANGED <<claims, lease, threads, log, stranded, crashes, failures>>

\* Pub/Sub pushes the impact set, or Cloud Scheduler posts the daily run.
Deliver(w, e) ==
  /\ e \notin Simulated /\ Deliverable(e) /\ Begin(w, e)
  /\ LET inHand == \E v \in Workers : ~At(v, "idle") /\ work[v].event = e IN
     /\ inHand => Duplicates
     /\ messages' = [messages EXCEPT ![e] =
          [state |-> IF @.state = "new" THEN "pending" ELSE @.state, attempts |-> @.attempts + 1,
           twice |-> @.twice \/ inHand]]

(* trigger_simulation: an approver clicks simulate.  The impact set is made *)
(* and dispatched in the one request, with an id of its own.                *)
Simulate(w, e) ==
  /\ e \in Simulated /\ messages[e].state = "new" /\ Begin(w, e)
  /\ messages' = [messages EXCEPT ![e] = [state |-> "pending", attempts |-> 1, twice |-> FALSE]]

\* The request ends: 2xx acknowledges the message, 5xx has it redelivered
\* until its attempts are used up.
Settle(w, ok) ==
  /\ work' = [work EXCEPT ![w] = Idle]
  /\ messages' = [messages EXCEPT ![work[w].event] =
       IF @.state # "pending" THEN @
       ELSE IF ok \/ work[w].event \in Simulated THEN [@ EXCEPT !.state = "acked"]
       ELSE IF @.attempts = MaxDeliveries THEN [@ EXCEPT !.state = "dead"]
       ELSE @]

(* claim_run for the next counterparty, or the end of the list. *)
Claim_Unchecked(w) ==
  /\ At(w, "claim")
  /\ IF work[w].i > Len(CpLists[work[w].event])
     THEN Settle(w, ~work[w].busy) /\ UNCHANGED claims
     ELSE Goto(w, "lease") /\ UNCHANGED <<messages, claims>>
  /\ UNCHANGED <<lease, threads, log, stranded, crashes, failures>>

Claim(w) ==
  /\ At(w, "claim")
  /\ IF work[w].i > Len(CpLists[work[w].event])
     THEN Settle(w, ~work[w].busy) /\ UNCHANGED claims
     ELSE /\ IF work[w].event \in Simulated THEN Goto(w, "lease") /\ UNCHANGED claims
             ELSE IF Key(w) \in claims THEN NextCp(w, FALSE) /\ UNCHANGED claims
             ELSE Goto(w, "lease") /\ claims' = claims \cup {Key(w)}
          /\ UNCHANGED messages
  /\ UNCHANGED <<lease, threads, log, stranded, crashes, failures>>

\* A lease that never refuses.
TakeLease_NotExclusive(w) ==
  /\ At(w, "lease")
  /\ lease' = [lease EXCEPT ![Cp(w)] = "live"] /\ Goto(w, "find")
  /\ UNCHANGED <<claims, threads, messages, log, stranded, crashes, failures>>

(* _take_lease: insert the row, or look at the one there.  An expired row  *)
(* is taken over by a later, separate update.                              *)
TakeLease(w) ==
  /\ At(w, "lease")
  /\ CASE lease[Cp(w)] = "free" ->
            lease' = [lease EXCEPT ![Cp(w)] = "live"] /\ Goto(w, "find")
       [] lease[Cp(w)] = "live" ->
            Result(w, "busy", "unclaim") /\ UNCHANGED lease
       [] lease[Cp(w)] = "expired" ->
            Goto(w, "takeover") /\ UNCHANGED lease
  /\ UNCHANGED <<claims, threads, messages, log, stranded, crashes, failures>>

\* The update names the row's key and nothing else; with the row gone it
\* matches nothing and raises.
TakeOver(w) ==
  /\ At(w, "takeover")
  /\ IF lease[Cp(w)] = "free"
     THEN Result(w, "failed", "unclaim") /\ UNCHANGED lease
     ELSE lease' = [lease EXCEPT ![Cp(w)] = "live"] /\ Goto(w, "find")
  /\ UNCHANGED <<claims, threads, messages, log, stranded, crashes, failures>>

\* LEASE_TTL is longer than a dispatch: only a crashed worker's row expires.
Expire(cp) ==
  /\ lease[cp] = "live" /\ Holders(cp) = {}
  /\ lease' = [lease EXCEPT ![cp] = "expired"]
  /\ UNCHANGED <<claims, threads, work, messages, log, stranded, crashes, failures>>

\* The most recent of the counterparty's open calls.
FindOpenCall(cp) == {t \in OpenCalls(cp) : \A u \in OpenCalls(cp) : u <= t}

Leave(w, outcome) == Record(w, outcome) /\ Result(w, "done", "release")

(* _dispatch, up to its decision. *)
Dispatch(w) ==
  /\ At(w, "find")
  /\ \/ OpenCalls(Cp(w)) = {} /\ Goto(w, "start") /\ UNCHANGED log
     \/ \E t \in FindOpenCall(Cp(w)) :
          IF work[w].event \in threads[<<t, Cp(w)>>].applied THEN Leave(w, "repeat")
          ELSE \/ work[w].event \notin Daily /\ Leave(w, "immaterial")
               \/ Stage(t, Cp(w)) = "signed" /\ Leave(w, "absorbed")
               \/ /\ Stage(t, Cp(w)) = "awaiting_approval"
                  /\ work' = [work EXCEPT ![w].pc = "update", ![w].thread = t]
                  /\ UNCHANGED log
  /\ UNCHANGED <<claims, lease, threads, messages, stranded, crashes, failures>>

(* start_run's input checkpoint, on this event's own thread.  On a thread  *)
(* an earlier attempt left behind, it resets updated_by and keeps every    *)
(* channel the input leaves at None, approval_decision among them.         *)
StartRun(w) ==
  /\ At(w, "start")
  /\ threads' = [threads EXCEPT ![Key(w)] =
       [@ EXCEPT !.gate = FALSE, !.applied = {work[w].event}]]
  /\ work' = [work EXCEPT ![w].pc = "evaluate", ![w].thread = work[w].event]
  /\ stranded' = IF threads[Key(w)].decision = "none" THEN stranded
                 ELSE stranded \cup {"decision"}
  /\ UNCHANGED <<claims, lease, messages, log, crashes, failures>>

(* reevaluate_run's update_state: the pending approval is withdrawn and    *)
(* the trigger counts as applied, whatever happened to the call meanwhile. *)
UpdateState(w) ==
  /\ At(w, "update")
  /\ LET k == <<work[w].thread, Cp(w)>> IN
     threads' = [threads EXCEPT ![k].gate = FALSE, ![k].applied = @ \cup {work[w].event}]
  /\ Goto(w, "evaluate")
  /\ UNCHANGED <<claims, lease, messages, log, stranded, crashes, failures>>

(* The graph runs to its pause or its end; an update is then put on the     *)
(* call's audit trail.                                                      *)
Evaluate(w) ==
  /\ At(w, "evaluate")
  /\ \E breach \in BOOLEAN :
       threads' = [threads EXCEPT ![<<work[w].thread, Cp(w)>>] =
                     [@ EXCEPT !.breached = breach, !.gate = breach]]
  /\ Record(w, "evaluated")
  /\ Result(w, "done", IF work[w].thread = work[w].event THEN "release" ELSE "audit")
  /\ UNCHANGED <<claims, lease, messages, stranded, crashes, failures>>

(* _audit_on_call's "open_call_updated", after the re-evaluation. *)
AuditUpdate(w) ==
  /\ At(w, "audit")
  /\ Result(w, "done", "release")
  /\ UNCHANGED <<claims, lease, threads, messages, log, stranded, crashes, failures>>

\* An exception outside the consumer's try, or out of release_run itself: the
\* request fails there and then, and a claim already written stays.
FailRequest(w) ==
  /\ ~At(w, "idle") /\ work[w].event \notin Simulated
  /\ \/ /\ At(w, "claim") /\ work[w].i <= Len(CpLists[work[w].event])
        /\ UNCHANGED stranded
     \/ /\ At(w, "lease") /\ work[w].result = "none"      \* graph_factory, the first time
        /\ stranded' = stranded \cup {"claim"}
     \/ /\ At(w, "unclaim")
        /\ stranded' = stranded \cup {"claim"}
  /\ Settle(w, FALSE)
  /\ UNCHANGED <<threads, log>>

\* An exception out of the dispatch, before its decision is carried out: a
\* business error, which the consumer holds, or any other.  An evaluation that
\* raises stops where it is, before the breach check's checkpoint or after it.
FailDispatch(w) ==
  /\ \/ /\ work[w].pc \in {"lease", "takeover"}
        /\ Result(w, "failed", "unclaim") /\ UNCHANGED <<threads, log>>
     \/ /\ work[w].pc \in {"find", "start", "update", "evaluate"}
        /\ \/ UNCHANGED threads
           \/ /\ At(w, "evaluate")
              /\ threads' = [threads EXCEPT ![<<work[w].thread, Cp(w)>>] =
                               [@ EXCEPT !.breached = TRUE]]
        /\ \/ Result(w, "failed", "release") /\ UNCHANGED log
           \/ Result(w, "done", "release") /\ Record(w, "held")
  /\ UNCHANGED <<messages, stranded>>

\* An exception after it was: out of the update's audit record, or of the lease's
\* DELETE, which leaves the row.  The claim will be given back all the same.
FailLate(w) ==
  /\ \/ At(w, "audit") /\ Result(w, "failed", "release") /\ UNCHANGED stranded
     \/ /\ At(w, "release") /\ Result(w, "failed", "unclaim")
        /\ stranded' = stranded \cup {"lease"}
  /\ IF At(w, "release") /\ work[w].result = "failed" THEN UNCHANGED log ELSE Record(w, "raised")
  /\ UNCHANGED <<threads, messages>>

Fail(w) ==
  /\ failures < MaxFailures
  /\ failures' = failures + 1
  /\ FailRequest(w) \/ FailDispatch(w) \/ FailLate(w)
  /\ UNCHANGED <<claims, lease, crashes>>

(* counterparty_lease's finally: the row is deleted, whoever wrote it. *)
ReleaseLease_OnSuccess(w) ==
  /\ At(w, "release")
  /\ IF work[w].result = "failed"
     THEN Goto(w, "unclaim") /\ UNCHANGED lease
     ELSE NextCp(w, FALSE) /\ lease' = [lease EXCEPT ![Cp(w)] = "free"]
  /\ UNCHANGED <<claims, threads, messages, log, stranded, crashes, failures>>

ReleaseLease(w) ==
  /\ At(w, "release")
  /\ lease' = [lease EXCEPT ![Cp(w)] = "free"]
  /\ IF work[w].result = "failed" THEN Goto(w, "unclaim") ELSE NextCp(w, FALSE)
  /\ UNCHANGED <<claims, threads, messages, log, stranded, crashes, failures>>

(* release_run: after a busy lease the rest of the list is still tried,    *)
(* after any other exception the request fails at once.                    *)
ReleaseRun_BusyKeepsClaim(w) ==
  /\ At(w, "unclaim")
  /\ IF work[w].result = "busy"
     THEN NextCp(w, work[w].event \notin Simulated) /\ UNCHANGED <<messages, claims>>
     ELSE Settle(w, FALSE) /\ claims' = claims \ {Key(w)}
  /\ UNCHANGED <<lease, threads, log, stranded, crashes, failures>>

ReleaseRun(w) ==
  /\ At(w, "unclaim")
  /\ claims' = claims \ {Key(w)}
  /\ IF work[w].result = "busy"
     THEN NextCp(w, work[w].event \notin Simulated) /\ UNCHANGED messages
     ELSE Settle(w, FALSE)
  /\ UNCHANGED <<lease, threads, log, stranded, crashes, failures>>

\* The instance is lost.  Its rows stay, its message is redelivered.
Crash(w) ==
  /\ crashes < MaxCrashes
  /\ crashes' = crashes + 1
  /\ ~At(w, "idle")
  /\ Settle(w, FALSE)
  /\ UNCHANGED <<claims, lease, threads, log, stranded, failures>>

Undisturbed(cp) == HumansOverlap \/ Holders(cp) = {}

\* At the first gate an approver signs, or rejects the call.
Approve(t, cp) ==
  /\ threads[<<t, cp>>].gate /\ Undisturbed(cp)
  /\ \E decision \in {"approved", "rejected"} :
       threads' = [threads EXCEPT ![<<t, cp>>] = [@ EXCEPT !.gate = FALSE, !.decision = decision]]
  /\ UNCHANGED <<claims, lease, work, messages, log, stranded, crashes, failures>>

\* The manager overturns it, the client meets it, or it is escalated.
Resolve(t, cp) ==
  /\ Stage(t, cp) = "signed" /\ ~threads[<<t, cp>>].gate /\ Undisturbed(cp)
  /\ threads' = [threads EXCEPT ![<<t, cp>>].over = TRUE]
  /\ UNCHANGED <<claims, lease, work, messages, log, stranded, crashes, failures>>

-----------------------------------------------------------------------------
Worker(w) ==
  \/ Claim(w) \/ TakeLease(w) \/ TakeOver(w) \/ Dispatch(w) \/ StartRun(w)
  \/ UpdateState(w) \/ Evaluate(w) \/ AuditUpdate(w) \/ ReleaseLease(w) \/ ReleaseRun(w)

Next ==
  \/ \E w \in Workers : Worker(w) \/ Fail(w) \/ Crash(w) \/ \E e \in Events : Deliver(w, e) \/ Simulate(w, e)
  \/ \E cp \in Cps : Expire(cp)
  \/ \E t \in Events : \E cp \in Listed[t] : Approve(t, cp) \/ Resolve(t, cp)

Spec == Init /\ [][Next]_vars

-----------------------------------------------------------------------------
(* Properties. *)

\* A counterparty has one open call at most, however its triggers overlap:
\* a second trigger updates that call (margin_policy: "never a second call").
OneOpenCall == \A cp \in Cps : Cardinality(OpenCalls(cp)) <= 1

\* So it has while no exception leaves a lease row behind, which then expires
\* and may be taken over twice (_take_lease), or has a run started again on a
\* thread that another trigger brought to a decision meanwhile (start_run).
OneCallAtATime == stranded \cap {"lease", "decision"} = {} => OneOpenCall

\* While no worker is lost and every DELETE of a lease goes through, a row stands
\* for exactly one dispatch in progress: two never overlap, and none leaves its
\* row behind (counterparty_lease, _take_lease).
LeaseTracksHolder ==
  crashes = 0 /\ "lease" \notin stranded => \A cp \in Cps :
    Cardinality(Holders(cp)) = IF lease[cp] = "free" THEN 0 ELSE 1

\* A trigger that was dealt with for a counterparty is not dealt with again,
\* whatever is redelivered, duplicated, failed or lost, unless an exception
\* followed: the consumer then gives the claim back for what was done, and the
\* redelivery does it again (handle_impact, _audit_on_call, counterparty_lease).
AtMostOnce ==
  \A k \in Keys : \A i \in 2..Len(log[k]) : "raised" \in {log[k][i - 1], log[k][i]}

\* While no worker is lost, a trigger that is acknowledged, and in no worker's
\* hands, was dealt with for every counterparty: a busy or failed one gives
\* its claim back and is redelivered, or ends as a dead letter (handle_impact).
\* Except for one delivered while it was in hand: the duplicate skips what the
\* first delivery claimed, and acknowledges what that one may yet give back.
\* And except for a claim an exception left: the redelivery takes it for done.
NothingLost ==
  crashes = 0 /\ "claim" \notin stranded => \A e \in Events \ Simulated :
    /\ messages[e].state = "acked" /\ ~messages[e].twice
    /\ \A w \in Workers : At(w, "idle") \/ work[w].event # e
    => \A cp \in Listed[e] : log[<<e, cp>>] # <<>>

=============================================================================
