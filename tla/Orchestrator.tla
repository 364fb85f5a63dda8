---------------------------- MODULE Orchestrator ----------------------------
(***************************************************************************)
(* One margin-call run: the LangGraph graph of agents/orchestrator.py on   *)
(* one thread_id, driven by the requests the service receives for it       *)
(* (api/main.py, api/whatsapp_webhook.py, agents/margin_policy.py).        *)
(*                                                                         *)
(* A request checks the persisted state, then invokes the graph, and the   *)
(* graph runs one node per superstep on a private copy of the channels and *)
(* saves a checkpoint after each.  Requests of several Cloud Run instances *)
(* and threads interleave at every one of those points: nothing but the    *)
(* counterparty lease (MarginPolicy) serialises them.                      *)
(***************************************************************************)
EXTENDS Integers, FiniteSets, Sequences

CONSTANTS
  Requests,    \* the requests that may arrive: records, see RequestType
  Users,       \* people who sign
  NoUser,
  Amounts,     \* figures a breach check or an approver may come up with
  NoCall,      \* breach_result with breached = False
  Unset,       \* breach_result is None
  Elite,       \* counterparty_tier is ELITE: two signatures
  WhatsApp,    \* CLIENT_NOTIFIER = whatsapp, else slack
  MaxClock,    \* bound on idle ticks; a notice's deadline is one tick after it
  MaxFaults    \* bound on exceptions raised and instances lost

Ops == {"start", "reevaluate", "approve", "manager", "respond",
        "delivery_failed", "check", "timer"}

RequestType ==
  [op: Ops, by: Users \cup {NoUser},
   decision: {"none", "approved", "adjusted", "rejected"},
   amount: Amounts \cup {NoCall}, id: Nat]

ASSUME RequestsAssumption ==
  /\ Requests \subseteq RequestType
  /\ \A r \in Requests : r.op = "manager" => r.decision \in {"approved", "rejected"}
  /\ \A r \in Requests : r.op = "approve" => r.decision # "none"
\* Both signature endpoints take the signer from the verified JWT.
ASSUME SignersAssumption ==
  \A r \in Requests : r.op \in {"approve", "manager"} => r.by \in Users
ASSUME ValuesAssumption ==
  /\ NoUser \notin Users
  /\ NoCall \notin Amounts /\ Unset \notin Amounts /\ NoCall # Unset
  /\ Elite \in BOOLEAN /\ WhatsApp \in BOOLEAN
  /\ MaxClock \in Nat /\ MaxFaults \in Nat

Nodes == {"compute_exposure", "fetch_csa_terms", "evaluate_breach",
          "await_approval", "await_manager_approval", "send_notification",
          "await_sla_response", "send_sla_met_notification", "escalate"}
Gates == {"await_approval", "await_manager_approval", "await_sla_response"}
END == "END"

(* The channels of MarginCallState that later control flow reads.  The     *)
(* event that caused the latest evaluation is named by the request that    *)
(* brought it (trigger, updated_by).                                       *)
Channels ==
  [amount: Amounts \cup {NoCall, Unset},        \* breach_result
   below_mta: BOOLEAN,                          \* materiality
   trigger: Requests, updated_by: SUBSET Requests,
   decision: {"none", "approved", "adjusted", "rejected", "disputed"},
   adjusted: Amounts \cup {NoCall},             \* adjusted_call_amount
   first: Users \cup {NoUser},                  \* first_approver_username
   manager_decision: {"none", "approved", "rejected"},
   manager: Users \cup {NoUser},                \* manager_username
   sent_at: Nat,                                \* notification_sent_at, 0: None
   failure: BOOLEAN,                            \* delivery_failure
   sla: {"none", "met", "breached"},            \* sla_outcome
   escalated: BOOLEAN,                          \* escalation_result
   confirmed: BOOLEAN]                          \* sla_met_notification_result

NewChannels(r) ==
  [amount |-> Unset, below_mta |-> FALSE, trigger |-> r, updated_by |-> {},
   decision |-> "none", adjusted |-> NoCall, first |-> NoUser,
   manager_decision |-> "none", manager |-> NoUser, sent_at |-> 0,
   failure |-> FALSE, sla |-> "none", escalated |-> FALSE, confirmed |-> FALSE]

VARIABLES
  head,     \* the thread's latest checkpoint
  inv,      \* per request, its invocation: where it is and its private state
  clock,
  armed,    \* the SLA task exists in Cloud Tasks
  notices,  \* notices the client received, in order: when, on which channels
  incidents,\* ServiceNow incidents opened, in order
  posts,    \* internal posts claimed: key, and the figure quoted
  signed,   \* history: signatures given at the two gates
  faults

vars == <<head, inv, clock, armed, notices, incidents, posts, signed, faults>>
world == <<clock, armed, notices, incidents, posts, signed, faults>>

-----------------------------------------------------------------------------
(* Pure functions of the channels. *)

Effective(ch) ==
  IF ch.decision = "adjusted" /\ ch.adjusted # NoCall THEN ch.adjusted ELSE ch.amount

Deadline(ch) == ch.sent_at + 1

RouteAfterBreach_NoApproval(ch) ==
  IF ch.amount \in Amounts /\ ~ch.below_mta THEN "send_notification" ELSE END

RouteAfterBreach(ch) ==
  IF ch.amount \in Amounts /\ ~ch.below_mta THEN "await_approval" ELSE END

RouteAfterApproval(ch) ==
  IF ch.decision \notin {"approved", "adjusted"} THEN END
  ELSE IF Elite THEN "await_manager_approval" ELSE "send_notification"

RouteAfterManagerApproval(ch) ==
  IF ch.manager_decision = "approved" THEN "send_notification" ELSE END

RouteAfterSend(ch) == IF ch.failure THEN "escalate" ELSE "await_sla_response"

RouteAfterSla(ch) ==
  CASE ch.sla = "breached" -> "escalate"
    [] ch.sla = "met"      -> "send_sla_met_notification"
    [] OTHER               -> END

OpenCallStage(ch) ==
  IF ch.amount \notin Amounts \/ ch.below_mta THEN "none"
  ELSE IF ch.escalated \/ ch.sla # "none" THEN "none"
  ELSE IF ch.sent_at # 0 THEN "awaiting_sla_response"
  ELSE IF ch.decision \in {"rejected", "disputed"} THEN "none"
  ELSE IF ch.decision \in {"approved", "adjusted"} THEN "awaiting_manager_approval"
  ELSE "awaiting_approval"

\* Before MM-79: the second gate looked like the first one in the feed.
LifecycleStatus_NoManagerStep(ch) ==
  IF ch.escalated \/ ch.sla = "breached" THEN "escalated"
  ELSE IF ch.sla = "met" THEN "sla_met"
  ELSE IF ch.sent_at # 0 THEN "awaiting_sla_response"
  ELSE IF ch.decision \in {"rejected", "disputed"} THEN ch.decision
  ELSE IF ch.amount \in Amounts /\ ch.below_mta THEN "below_materiality"
  ELSE IF ch.amount \in Amounts THEN "awaiting_approval"
  ELSE IF ch.amount = NoCall THEN "no_breach"
  ELSE "evaluating"

LifecycleStatus(ch) ==
  IF ch.escalated \/ ch.sla = "breached" THEN "escalated"
  ELSE IF ch.sla = "met" THEN "sla_met"
  ELSE IF ch.sent_at # 0 THEN "awaiting_sla_response"
  ELSE IF ch.decision \in {"rejected", "disputed"} THEN ch.decision
  ELSE IF Elite /\ ch.decision \in {"approved", "adjusted"} /\ ch.manager_decision = "none"
       THEN "awaiting_manager_approval"
  ELSE IF ch.amount \in Amounts /\ ch.below_mta THEN "below_materiality"
  ELSE IF ch.amount \in Amounts THEN "awaiting_approval"
  ELSE IF ch.amount = NoCall THEN "no_breach"
  ELSE "evaluating"

-----------------------------------------------------------------------------
(* Checkpoints and invocations. *)

Tags == [by: Requests, at: Nodes \cup {"input", "update"}]
NoRun == [none |-> TRUE]      \* the thread has no checkpoint yet

Checkpoint ==
  [tag: Tags,                 \* who wrote it, after which node
   next: Nodes \cup {END},
   paused: BOOLEAN,           \* the task `next` has a recorded interrupt
   polled: BOOLEAN,           \* ... and a resume value it looped back on
   ch: Channels]

Idle == [pc |-> "idle"]
Active == {"checked", "stamped", "running", "saving"}
Invocation(pc) ==
  [pc: {pc}, node: Nodes \cup {END}, base: Tags, fresh: BOOLEAN,
   polled: BOOLEAN, ch: Channels]
InvocationType ==
  [pc: {"idle", "checked", "stamped", "done", "refused", "failed"}]
    \cup Invocation("running") \cup Invocation("saving")

Running(r, node) == inv[r].pc = "running" /\ inv[r].node = node

\* The check-then-act requests: which gate each one expects to be pending.
GateOf(op) ==
  CASE op = "approve" -> "await_approval"
    [] op = "manager" -> "await_manager_approval"
    [] OTHER          -> "await_sla_response"
ResumeOps == {"approve", "manager", "respond", "delivery_failed", "check", "timer"}

Goto(r, pc) == inv' = [inv EXCEPT ![r] = [pc |-> pc]]

\* A node returns: its updates are merged, the checkpoint is still to be saved.
Return(r, ch, next) ==
  inv' = [inv EXCEPT ![r] =
    [pc |-> "saving", node |-> next, base |-> [by |-> r, at |-> inv[r].node],
     fresh |-> FALSE, polled |-> FALSE, ch |-> ch]]

Pause_TimerAnswered(r, polled) ==
  /\ head' = IF head.tag = inv[r].base
             THEN [head EXCEPT !.paused = TRUE, !.polled = polled] ELSE head
  /\ inv' = [inv EXCEPT ![r] = [pc |-> "done"]]

\* interrupt() with no resume value left: recorded on the checkpoint the
\* invocation started its superstep from, which may no longer be the head.
Pause(r, polled) ==
  /\ head' = IF head.tag = inv[r].base
             THEN [head EXCEPT !.paused = TRUE, !.polled = polled] ELSE head
  /\ inv' = [inv EXCEPT ![r] = IF r.op = "timer" THEN Idle ELSE [pc |-> "done"]]

Post(key, amount) ==
  posts' = IF \E p \in posts : p.key = key THEN posts
           ELSE posts \cup {[key |-> key, amount |-> amount]}

-----------------------------------------------------------------------------
Init ==
  /\ head = NoRun
  /\ inv = [r \in Requests |-> Idle]
  /\ clock = 1
  /\ armed = FALSE
  /\ notices = <<>>
  /\ incidents = <<>>
  /\ posts = {}
  /\ signed = {}
  /\ faults = 0

\* Time passes freely up to MaxClock, and past any deadline being waited for.
Tick ==
  /\ clock < MaxClock \/ \E i \in DOMAIN notices : clock = notices[i].at
  /\ clock' = clock + 1
  /\ UNCHANGED <<head, inv, armed, notices, incidents, posts, signed, faults>>

\* The first attempt; or the next, on the same thread, when one failed before its
\* breach check was saved.  The values are those of a new thread then.
MayStart(r) ==
  /\ r.op = "start"
  /\ \/ inv[r].pc = "idle" /\ head = NoRun
     \/ inv[r].pc = "failed" /\ head # NoRun /\ head.ch.trigger = r /\ head.ch.amount = Unset

\* The graph is invoked with no checkpoint of its input.
StartRun_NotSaved(r) ==
  /\ MayStart(r)
  /\ inv' = [inv EXCEPT ![r] =
       [pc |-> "running", node |-> "compute_exposure", base |-> [by |-> r, at |-> "input"],
        fresh |-> FALSE, polled |-> FALSE, ch |-> NewChannels(r)]]
  /\ UNCHANGED <<head, world>>

(* start_run: the input checkpoint, then the first superstep. *)
StartRun(r) ==
  /\ MayStart(r)
  /\ LET tag == [by |-> r, at |-> "input"] IN
     /\ head' = [tag |-> tag, next |-> "compute_exposure", paused |-> FALSE,
                 polled |-> FALSE, ch |-> NewChannels(r)]
     /\ inv' = [inv EXCEPT ![r] =
          [pc |-> "running", node |-> "compute_exposure", base |-> tag,
           fresh |-> FALSE, polled |-> FALSE, ch |-> NewChannels(r)]]
  /\ UNCHANGED world

(* What the endpoint sees before it resumes: the gate it is for must be    *)
(* pending, and the second signatory must not be the first.                *)
Pending(gate) == head # NoRun /\ head.paused /\ head.next = gate

RequirePendingNode_SamePerson(r) ==
  /\ r.op \in ResumeOps \ {"timer"} /\ inv[r].pc = "idle" /\ head # NoRun
  /\ Goto(r, IF Pending(GateOf(r.op)) THEN "checked" ELSE "refused")
  /\ UNCHANGED <<head, world>>

RequirePendingNode(r) ==
  /\ r.op \in ResumeOps \ {"timer"} /\ inv[r].pc = "idle" /\ head # NoRun
  /\ Goto(r, IF /\ Pending(GateOf(r.op))
                /\ r.op = "manager" => head.ch.first # r.by
             THEN "checked" ELSE "refused")
  /\ UNCHANGED <<head, world>>

(* The SLA timer's target: resolved already is 200; not at the SLA step is *)
(* 409, which Cloud Tasks retries, so the request just waits.              *)
InternalSlaCheck(r) ==
  /\ r.op = "timer" /\ inv[r].pc = "idle" /\ armed
  /\ \/ Pending("await_sla_response") /\ Goto(r, "checked")
     \/ ~Pending("await_sla_response") /\ head.ch.sla # "none" /\ Goto(r, "done")
  /\ UNCHANGED <<head, world>>

(* The policy's look at the open call: only one still awaiting its first   *)
(* approval is re-evaluated, and a price event below the MTA is not        *)
(* applied.  The lease allows one re-evaluation at a time.                 *)
PolicyCheck(r) ==
  /\ r.op = "reevaluate" /\ inv[r].pc = "idle" /\ head # NoRun
  /\ \A q \in Requests : q.op \in {"start", "reevaluate"} => inv[q].pc \notin Active
  /\ \/ OpenCallStage(head.ch) = "awaiting_approval" /\ Goto(r, "checked")
     \/ Goto(r, "refused")
  /\ UNCHANGED <<head, world>>

(* graph.update_state(..., as_node=START) of reevaluate_run. *)
UpdateState(r) ==
  /\ r.op = "reevaluate" /\ inv[r].pc = "checked"
  /\ head' = [tag |-> [by |-> r, at |-> "update"], next |-> "compute_exposure",
              paused |-> FALSE, polled |-> FALSE,
              ch |-> [head.ch EXCEPT !.trigger = r, !.updated_by = @ \cup {r}]]
  /\ Goto(r, "stamped")
  /\ UNCHANGED world

(* graph.invoke: loads the head as it is now, not as it was checked, and   *)
(* runs whatever is next there.                                            *)
Invoke(r) ==
  /\ \/ r.op \in ResumeOps /\ inv[r].pc = "checked"
     \/ r.op = "reevaluate" /\ inv[r].pc = "stamped"
  /\ IF head.next = END THEN Goto(r, "done")
     ELSE inv' = [inv EXCEPT ![r] =
            [pc |-> "running", node |-> head.next, base |-> head.tag,
             fresh |-> r.op \in ResumeOps, polled |-> head.polled, ch |-> head.ch]]
  /\ UNCHANGED <<head, world>>

(* The checkpoint after a superstep becomes the head. *)
Save(r) ==
  /\ inv[r].pc = "saving"
  /\ head' = [tag |-> inv[r].base, next |-> inv[r].node, paused |-> FALSE,
              polled |-> FALSE, ch |-> inv[r].ch]
  /\ inv' = [inv EXCEPT ![r] =
       IF inv[r].node = END THEN [pc |-> "done"] ELSE [@ EXCEPT !.pc = "running"]]
  /\ UNCHANGED world

(* An exception out of a node, or the instance lost, before or after the   *)
(* node's effect but before its checkpoint.  Cloud Tasks retries the       *)
(* timer, Meta redelivers a status, Pub/Sub the trigger of a start.        *)
Fault(r) ==
  /\ faults < MaxFaults
  /\ inv[r].pc \in Active
  /\ Goto(r, IF r.op \in {"timer", "delivery_failed"} THEN "idle" ELSE "failed")
  /\ faults' = faults + 1
  /\ UNCHANGED <<head, clock, armed, notices, incidents, posts, signed>>

-----------------------------------------------------------------------------
(* The graph's nodes. *)

ComputeExposure(r) ==
  /\ Running(r, "compute_exposure")
  /\ Return(r, inv[r].ch, "fetch_csa_terms")
  /\ UNCHANGED <<head, world>>

FetchCsaTerms(r) ==
  /\ Running(r, "fetch_csa_terms")
  /\ Return(r, inv[r].ch, "evaluate_breach")
  /\ UNCHANGED <<head, world>>

\* The materiality gate applies to a price event that raises a call, never
\* to a re-evaluation of a call already raised.
EvaluateBreach(r) ==
  /\ Running(r, "evaluate_breach")
  /\ \E a \in Amounts \cup {NoCall}, low \in BOOLEAN :
       /\ low => inv[r].ch.updated_by = {}
       /\ LET ch == [inv[r].ch EXCEPT !.amount = a, !.below_mta = low]
          IN  Return(r, ch, RouteAfterBreach(ch))
  /\ UNCHANGED <<head, world>>

(* The payload of a request resumes the gate it is delivered to, whichever *)
(* gate that is.  A signature gate reads the key "decision", which only    *)
(* the two signature requests send, and the manager's decision must be one *)
(* of its literals.                                                        *)
Answers(r, gate) ==
  /\ inv[r].fresh
  /\ gate = "await_approval" => r.op \in {"approve", "manager"}
  /\ gate = "await_manager_approval" =>
       r.op \in {"approve", "manager"} /\ r.decision \in {"approved", "rejected"}

\* The payload does not fit the gate: the node raises, the run stays paused.
RejectPayload(r) ==
  /\ inv[r].pc = "running" /\ inv[r].fresh
  /\ inv[r].node \in Gates /\ ~Answers(r, inv[r].node)
  /\ Goto(r, IF r.op \in {"timer", "delivery_failed"} THEN "idle" ELSE "failed")
  /\ UNCHANGED <<head, world>>

ApprovalUpdate(ch, r) ==
  [ch EXCEPT !.decision = r.decision,
             !.adjusted = IF r.decision = "adjusted" THEN r.amount ELSE NoCall,
             !.first = IF r.op = "approve" THEN r.by ELSE NoUser]

\* Before the dispute state: a manager's rejection leaves the approver's decision.
ManagerUpdate_KeepsDecision(ch, r) ==
  [ch EXCEPT !.manager_decision = r.decision,
             !.manager = IF r.op = "manager" THEN r.by ELSE NoUser]

ManagerUpdate(ch, r) ==
  [ch EXCEPT !.manager_decision = r.decision,
             !.manager = IF r.op = "manager" THEN r.by ELSE NoUser,
             !.decision = IF r.decision = "rejected" THEN "disputed" ELSE @]

\* A gate: tell the approvers (once per key), then wait, or take the answer.
Gate(r, gate, key, amount, answered, next) ==
  /\ Running(r, gate)
  /\ Post(key, amount)
  /\ \/ /\ Answers(r, gate)
        /\ Return(r, answered, next)
        /\ signed' = IF r.decision = "rejected" THEN signed
                     ELSE signed \cup {[gate |-> gate, by |-> r, amount |-> Effective(answered)]}
        /\ UNCHANGED head
     \/ /\ ~inv[r].fresh
        /\ Pause(r, FALSE)
        /\ UNCHANGED signed
  /\ UNCHANGED <<clock, armed, notices, incidents, faults>>

AwaitApproval_OnePostPerCall(r) ==
  LET ch == ApprovalUpdate(inv[r].ch, r)
  IN  Gate(r, "await_approval", <<"approval_requested">>,
           inv[r].ch.amount, ch, RouteAfterApproval(ch))

AwaitApproval(r) ==
  LET ch == ApprovalUpdate(inv[r].ch, r)
  IN  Gate(r, "await_approval", <<"approval_requested", inv[r].ch.trigger>>,
           inv[r].ch.amount, ch, RouteAfterApproval(ch))

AwaitManagerApproval(r) ==
  LET ch == ManagerUpdate(inv[r].ch, r)
  IN  Gate(r, "await_manager_approval", <<"manager_approval_requested">>,
           Effective(inv[r].ch), ch, RouteAfterManagerApproval(ch))

SentUpdate(ch) == [ch EXCEPT !.sent_at = clock]
FailedSendUpdate(ch) ==
  [ch EXCEPT !.sent_at = clock, !.failure = TRUE, !.sla = "breached"]

\* The notice goes out and the timer is armed; a scheduling failure is
\* swallowed, and a task name already used is ignored.  On WhatsApp a send
\* that fails is a result; on Slack it raises (Fault).
SendNotification(r) ==
  /\ Running(r, "send_notification")
  /\ \/ /\ Return(r, SentUpdate(inv[r].ch), RouteAfterSend(SentUpdate(inv[r].ch)))
        /\ notices' = Append(notices, [at |-> clock, ch |-> inv[r].ch])
        /\ armed' \in {armed, TRUE}
        /\ IF WhatsApp THEN Post(<<"client_notified">>, Effective(inv[r].ch))
                       ELSE UNCHANGED posts
     \/ /\ WhatsApp
        /\ LET ch == FailedSendUpdate(inv[r].ch) IN Return(r, ch, RouteAfterSend(ch))
        /\ Post(<<"delivery_failed">>, Effective(inv[r].ch))
        /\ UNCHANGED <<notices, armed>>
  /\ UNCHANGED <<head, clock, incidents, signed, faults>>

(* await_sla_response loops on interrupt().  On resume LangGraph replays   *)
(* the node, so a resume value an earlier invocation looped back on is     *)
(* read again before this one's, against the clock as it is now.           *)
Late(ch) == clock >= Deadline(ch)

\* A timer that comes early counts as the deadline.
SlaResolves_AnyCheck(ch, r, fresh, polled) == fresh \/ (polled /\ Late(ch))

SlaResolves(ch, r, fresh, polled) ==
  \/ polled /\ Late(ch)
  \/ fresh /\ (r.op \in {"respond", "delivery_failed"} \/ Late(ch))

SlaOutcome(ch, r, polled) ==
  IF polled /\ Late(ch) THEN [ch EXCEPT !.sla = "breached"]
  ELSE IF r.op = "respond" THEN [ch EXCEPT !.sla = "met"]
  ELSE IF r.op = "delivery_failed" THEN [ch EXCEPT !.sla = "breached", !.failure = TRUE]
  ELSE [ch EXCEPT !.sla = "breached"]

AwaitSlaResponse(r) ==
  /\ Running(r, "await_sla_response")
  /\ IF SlaResolves(inv[r].ch, r, inv[r].fresh, inv[r].polled)
     THEN LET ch == SlaOutcome(inv[r].ch, r, inv[r].polled)
          IN  /\ Return(r, ch, RouteAfterSla(ch))
              /\ IF ch.failure THEN Post(<<"delivery_failed">>, Effective(ch))
                               ELSE UNCHANGED posts
              /\ UNCHANGED head
     ELSE Pause(r, inv[r].fresh \/ inv[r].polled) /\ UNCHANGED posts
  /\ UNCHANGED <<clock, armed, notices, incidents, signed, faults>>

SendSlaMetNotification(r) ==
  /\ Running(r, "send_sla_met_notification")
  /\ Return(r, [inv[r].ch EXCEPT !.confirmed = TRUE], END)
  /\ IF WhatsApp THEN Post(<<"client_acknowledged">>, Effective(inv[r].ch)) ELSE UNCHANGED posts
  /\ UNCHANGED <<head, clock, armed, notices, incidents, signed, faults>>

Escalate(r) ==
  /\ Running(r, "escalate")
  /\ Return(r, [inv[r].ch EXCEPT !.escalated = TRUE], END)
  /\ incidents' = Append(incidents, [at |-> clock, ch |-> inv[r].ch])
  /\ Post(<<"escalated">>, Effective(inv[r].ch))
  /\ UNCHANGED <<head, clock, armed, notices, signed, faults>>

-----------------------------------------------------------------------------
Step(r) ==
  \/ StartRun(r) \/ RequirePendingNode(r) \/ InternalSlaCheck(r) \/ PolicyCheck(r)
  \/ UpdateState(r) \/ Invoke(r) \/ Save(r) \/ RejectPayload(r)
  \/ ComputeExposure(r) \/ FetchCsaTerms(r) \/ EvaluateBreach(r)
  \/ AwaitApproval(r) \/ AwaitManagerApproval(r) \/ SendNotification(r)
  \/ AwaitSlaResponse(r) \/ SendSlaMetNotification(r) \/ Escalate(r)

Next == Tick \/ \E r \in Requests : Step(r) \/ Fault(r)

Spec == Init /\ [][Next]_vars

(* One request at a time: what a single worker with no overlapping         *)
(* requests would do.  Faults still happen.                                *)
AtRest == \A r \in Requests : inv[r].pc \notin Active
OneAtATime == \A q, r \in Requests : inv[q].pc \in Active /\ inv[r].pc \in Active => q = r
SerialSpec == Init /\ [][Next /\ OneAtATime']_vars

(* The service finishes the requests it has taken, time passes, and Cloud  *)
(* Tasks delivers the timer again until it is answered.  People need not   *)
(* act.                                                                    *)
Handle(r) == inv[r].pc \in Active /\ Step(r)
Fairness ==
  /\ WF_vars(Tick)
  /\ \A r \in Requests : WF_vars(Handle(r))
  /\ \A r \in Requests : r.op = "timer" => SF_vars(InternalSlaCheck(r))
FairSpec == SerialSpec /\ Fairness

-----------------------------------------------------------------------------
(* Properties. *)

EventType == [at: Nat, ch: Channels]
Figures == Amounts \cup {NoCall, Unset}
PostType ==
  [key: {<<"approval_requested", r>> : r \in Requests}
          \cup {<<k>> : k \in {"manager_approval_requested", "client_notified",
                               "delivery_failed", "client_acknowledged", "escalated"}},
   amount: Figures]
SignatureType == [gate: Gates, by: Requests, amount: Figures]

TypeOK ==
  /\ head \in Checkpoint \cup {NoRun}
  /\ inv \in [Requests -> InvocationType]
  /\ clock \in Nat /\ armed \in BOOLEAN /\ faults \in Nat
  /\ notices \in Seq(EventType) /\ incidents \in Seq(EventType)
  /\ posts \subseteq PostType
  /\ signed \subseteq SignatureType
  /\ head = NoRun => \A r \in Requests : inv[r].pc \notin Active

SignedAt(gate, amount) == \E s \in signed : s.gate = gate /\ s.amount = amount

\* A client is never told a figure that no approver signed, nor an elite
\* client one that did not pass the second gate (send_notification's "only
\* reached after await_approval"), however requests overlap or fail.
EveryNoticeSigned ==
  \A i \in DOMAIN notices :
    LET amount == Effective(notices[i].ch) IN
    /\ amount \in Amounts
    /\ SignedAt("await_approval", amount)
    /\ Elite => SignedAt("await_manager_approval", amount)

\* An incident is opened only on a missed deadline or an undelivered notice,
\* never while the client could still answer (await_sla_response, escalate).
NeverEscalatedEarly ==
  \A i \in DOMAIN incidents :
    LET e == incidents[i] IN
    e.ch.sla = "breached" /\ (e.ch.failure \/ e.at >= Deadline(e.ch))

\* The two signatures on an elite client's notice are two people's, the
\* second one's given at the manager's endpoint (manager_approve_margin_call).
TwoPeopleSigned ==
  Elite => \A i \in DOMAIN notices :
    LET ch == notices[i].ch IN ch.manager \in Users /\ ch.manager # ch.first

\* The feed's status, the policy's stage and the gate that is pending name
\* the same step, so every pending step is visible to who must take it.
StageOfGate == [await_approval |-> "awaiting_approval",
                await_manager_approval |-> "awaiting_manager_approval",
                await_sla_response |-> "awaiting_sla_response"]
PendingStepIsShown ==
  \A gate \in Gates : Pending(gate) =>
    OpenCallStage(head.ch) = StageOfGate[gate] /\ LifecycleStatus(head.ch) = StageOfGate[gate]

\* As long as nothing fails, an open call always waits at a gate someone can
\* answer (the comment of _require_pending_node: nothing pending means a
\* finished lifecycle), and a breached one has its incident, whichever of
\* timer, check, late answer and undelivered notice breached it
\* (_lifecycle_status: escalation_result "should already be set").  A fault may
\* leave either behind for good.
NoOpenCallStranded ==
  faults = 0 /\ AtRest /\ head # NoRun =>
    /\ ~head.paused => OpenCallStage(head.ch) = "none"
    /\ head.ch.sla = "breached" => head.ch.escalated /\ incidents # <<>>

\* Approvers are asked to sign the figure that is pending, once per
\* evaluation (_await_approval_node's post key names the trigger).
PendingFigureAnnounced ==
  Pending("await_approval") =>
    [key |-> <<"approval_requested", head.ch.trigger>>, amount |-> head.ch.amount] \in posts

\* A run paused on its SLA clock with the timer armed is resolved, though
\* checks may come early and fail.
SlaClockResolves ==
  (armed /\ Pending("await_sla_response")) ~> (head # NoRun /\ head.ch.sla # "none")

=============================================================================
