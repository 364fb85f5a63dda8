------------------------------- MODULE Status -------------------------------
(***************************************************************************)
(* What is shown of one margin call: the trace rebuilt from its            *)
(* checkpoints (api/margin_call_trace.py) and the status document pushed   *)
(* to Firestore after each invocation (_publish_status in orchestrator.py, *)
(* realtime/publisher.py).                                                 *)
(*                                                                         *)
(* A checkpoint keeps the node queued next, where it came from and the     *)
(* lifecycle status with its figure, which is all the document carries.    *)
(* A node may raise: the invocation ends there, its node still queued, and *)
(* a start that failed is made again on the same thread.                   *)
(* The API runs in several instances, each of several request threads.     *)
(***************************************************************************)
EXTENDS Naturals, Sequences, SequencesExt, FiniteSets

CONSTANTS
  Threads,      \* request threads
  InstanceOf(_),
  Figures,      \* call amounts
  MaxEvaluations,  \* bound
  MaxFaults     \* bound

Instances == {InstanceOf(k) : k \in Threads}

ASSUME StatusAssumption == MaxEvaluations \in Nat /\ MaxFaults \in Nat

VARIABLES
  log,       \* the thread's checkpoints, oldest first
  ran,       \* history: what wrote each checkpoint
  doc,       \* the Firestore document
  last,      \* _last of each instance's publisher
  pub,       \* what each request thread is publishing
  published, \* history: the instances that published this call
  overlap,   \* history: two publications or runs were under way at once
  missed,    \* history: the last invocation's publication did not end
  faults

statusVars == <<log, ran, doc, last, pub, published, overlap, missed, faults>>

NoDoc == <<"none", 0>>
Idle == [stage |-> "idle"]
End == ""

(***************************************************************************)
(* The runs.  One call's graph, a node at a time.                          *)
(***************************************************************************)
Evaluation == <<"compute_exposure", "fetch_csa_terms", "evaluate_breach">>

\* The checkpoints of nodes that ran: the next one queued, at last the gate it
\* pauses at or nothing.
Written(nodes, rest, statuses) ==
  [i \in DOMAIN nodes |->
     [next |-> IF i < Len(nodes) THEN nodes[i + 1] ELSE rest, source |-> "loop", status |-> statuses[i]]]

Evaluating == <<"evaluating", 0>>
Newest == IF log = <<>> THEN [next |-> End, source |-> "none", status |-> Evaluating] ELSE Last(log)
Status(cs) == Last(cs).status

\* What a start writes first: its input, over whatever was queued, then the
\* start.  The run's earlier values stay.
Started ==
  <<[next |-> End, source |-> "input", status |-> Newest.status],
    [next |-> "compute_exposure", source |-> "loop", status |-> Newest.status]>>

\* update_state's checkpoint.
Updated == <<[next |-> "compute_exposure", source |-> "update", status |-> Newest.status]>>

StatusInit ==
  /\ log = <<>>
  /\ ran = <<>>
  /\ doc = NoDoc
  /\ last = [p \in Instances |-> NoDoc]
  /\ pub = [k \in Threads |-> Idle]
  /\ published = {}
  /\ overlap = FALSE
  /\ missed = FALSE
  /\ faults = 0

\* An invocation's checkpoints appear at once: a publication under way
\* meanwhile counts as overlapping it.
Writes(k, checkpoints, nodes) ==
  /\ pub[k] = Idle
  /\ log' = log \o checkpoints
  /\ ran' = ran \o nodes
  /\ overlap' = (overlap \/ \E j \in Threads : pub[j] # Idle)
  /\ missed' = TRUE
  /\ UNCHANGED <<doc, last>>

\* _publish_status follows an invocation, in the same request.
Invocation(k, checkpoints, nodes) ==
  /\ Writes(k, checkpoints, nodes)
  /\ pub' = [pub EXCEPT ![k] = [stage |-> "read"]]
  /\ published' = published \cup {InstanceOf(k)}
  /\ UNCHANGED faults

\* A node raises, or its process is lost: nothing is published.
Failure(k, checkpoints, nodes) ==
  /\ faults < MaxFaults /\ faults' = faults + 1
  /\ Writes(k, checkpoints, nodes)
  /\ UNCHANGED <<pub, published>>

\* An evaluation ends at the first gate, or without a breach.
Outcomes == {<<"await_approval", <<"awaiting_approval", f>>>> : f \in Figures} \cup {<<End, <<"no_breach", 0>>>>}

\* The evaluation after what a start or an update wrote; only its last node
\* changes the status.
Evaluate(k, before, wrote) ==
  \E o \in Outcomes :
    LET checkpoints == Written(Evaluation, o[1], <<Newest.status, Newest.status, o[2]>>)
    IN \/ Invocation(k, before \o checkpoints, wrote \o Evaluation)
       \/ \E n \in 0..2 : Failure(k, before \o SubSeq(checkpoints, 1, n), wrote \o SubSeq(Evaluation, 1, n))

\* Starts and re-evaluations.
Evaluations == Len(SelectSeq(ran, LAMBDA n : n \in {"__start__", "__reevaluate__"}))

\* A trigger whose start failed, or ended without a breach, may be dispatched
\* again, on the same thread.
StartRun(k) ==
  /\ Newest.status[1] \in {"evaluating", "no_breach"}
  /\ Evaluations < MaxEvaluations
  /\ Evaluate(k, Started, <<"__input__", "__start__">>)

\* An open call, at its first gate or where its last re-evaluation failed.
ReevaluateRun(k) ==
  /\ Newest.next \in {"await_approval", "compute_exposure", "fetch_csa_terms", "evaluate_breach"}
  /\ Newest.status[1] = "awaiting_approval"
  /\ Evaluations < MaxEvaluations
  /\ Evaluate(k, Updated, <<"__reevaluate__">>)

\* The notice goes out at the figure approved, or fails and is escalated; until
\* then _lifecycle_status has an approved call await its approval.
Sent(gate, figures) ==
  UNION {{<<<<gate, "send_notification">>, "await_sla_response",
            <<<<"awaiting_approval", g>>, <<"awaiting_sla_response", g>>>>>>,
          <<<<gate, "send_notification", "escalate">>, End,
            <<<<"awaiting_approval", g>>, <<"escalated", g>>, <<"escalated", g>>>>>>} : g \in figures}

\* Each gate's answers: the nodes run, the gate then queued, the statuses.
AfterGate(gate, f) ==
  CASE gate = "await_approval" ->
         {<<<<gate>>, End, <<<<"rejected", f>>>>>>}
         \cup {<<<<gate>>, "await_manager_approval", <<<<"awaiting_manager_approval", g>>>>>> : g \in Figures}
         \cup Sent(gate, Figures)
    [] gate = "await_manager_approval" ->
         {<<<<gate>>, End, <<<<"disputed", f>>>>>>} \cup Sent(gate, {f})
    [] gate = "await_sla_response" ->
         {<<<<gate, "send_sla_met_notification">>, End, <<<<"sla_met", f>>, <<"sla_met", f>>>>>>,
          <<<<gate, "escalate">>, End, <<<<"escalated", f>>, <<"escalated", f>>>>>>}

\* A gate takes its answer; a node after it may raise.
ResumeRun(k) ==
  /\ Newest.next \in {"await_approval", "await_manager_approval", "await_sla_response"}
  /\ \E a \in AfterGate(Newest.next, Newest.status[2]) :
       LET checkpoints == Written(a[1], a[2], a[3])
       IN \/ Invocation(k, checkpoints, a[1])
          \/ \E n \in 1..Len(a[1]) - 1 : Failure(k, SubSeq(checkpoints, 1, n), SubSeq(a[1], 1, n))

(***************************************************************************)
(* The document.                                                           *)
(***************************************************************************)
\* The session behind the graph is internal: firm-wide unless told so.
ReadState(k) ==
  /\ pub[k].stage = "read"
  /\ pub' = [pub EXCEPT ![k] = [stage |-> "check", status |-> Status(log)]]
  /\ UNCHANGED <<log, ran, doc, last, published, overlap, missed, faults>>

Done(k) ==
  /\ pub' = [pub EXCEPT ![k] = Idle]
  /\ missed' = FALSE

\* Remembered before it is written.
CheckLast_Remembers(k) ==
  /\ pub[k].stage = "check"
  /\ IF last[InstanceOf(k)] = pub[k].status
     THEN Done(k) /\ UNCHANGED last
     ELSE /\ last' = [last EXCEPT ![InstanceOf(k)] = pub[k].status]
          /\ pub' = [pub EXCEPT ![k].stage = "set"]
          /\ UNCHANGED missed
  /\ UNCHANGED <<log, ran, doc, published, overlap, faults>>

\* An unchanged status is not written again; the lock is let go.
CheckLast(k) ==
  /\ pub[k].stage = "check"
  /\ IF last[InstanceOf(k)] = pub[k].status THEN Done(k)
     ELSE /\ pub' = [pub EXCEPT ![k].stage = "set"]
          /\ UNCHANGED missed
  /\ UNCHANGED <<log, ran, doc, last, published, overlap, faults>>

SetDoc(k) ==
  /\ pub[k].stage = "set"
  /\ doc' = pub[k].status
  /\ pub' = [pub EXCEPT ![k].stage = "remember"]
  /\ UNCHANGED <<log, ran, last, published, overlap, missed, faults>>

Remember(k) ==
  /\ pub[k].stage = "remember"
  /\ last' = [last EXCEPT ![InstanceOf(k)] = pub[k].status]
  /\ Done(k)
  /\ UNCHANGED <<log, ran, doc, published, overlap, faults>>

\* Best effort: a failed read or write of it is logged and forgotten.
FailPublish(k) ==
  /\ faults < MaxFaults /\ faults' = faults + 1
  /\ pub[k].stage \in {"read", "set"}
  /\ pub' = [pub EXCEPT ![k] = Idle]
  /\ UNCHANGED <<log, ran, doc, last, published, overlap, missed>>

\* Cleared when full of other calls.
ClearLast(p) ==
  /\ last[p] # NoDoc
  /\ last' = [last EXCEPT ![p] = NoDoc]
  /\ UNCHANGED <<log, ran, doc, pub, published, overlap, missed, faults>>

\* An instance is lost with the threads in it.
Crash(p) ==
  /\ faults < MaxFaults /\ faults' = faults + 1
  /\ pub' = [k \in Threads |-> IF InstanceOf(k) = p THEN Idle ELSE pub[k]]
  /\ last' = [last EXCEPT ![p] = NoDoc]
  /\ UNCHANGED <<log, ran, doc, published, overlap, missed>>

StatusNext ==
  \/ \E k \in Threads :
       \/ StartRun(k) \/ ReevaluateRun(k) \/ ResumeRun(k)
       \/ ReadState(k) \/ CheckLast(k) \/ SetDoc(k) \/ Remember(k) \/ FailPublish(k)
  \/ \E p \in Instances : ClearLast(p) \/ Crash(p)

StatusSpec == StatusInit /\ [][StatusNext]_statusVars

(***************************************************************************)
(* The trace.                                                              *)
(***************************************************************************)
\* A re-evaluation taken for the node queued before it.
StepNode_NoUpdate(older, newer) ==
  IF older.next = End THEN "__start__" ELSE older.next

\* get_margin_call_trace: what each checkpoint after the first completed is
\* what its predecessor had queued, an update apart.
StepNode(older, newer) ==
  IF newer.source = "update" THEN "__reevaluate__"
  ELSE IF older.next = End THEN "__start__" ELSE older.next

Trace(cs) ==
  [i \in 1..Len(cs) - 1 |-> [node |-> StepNode(cs[i], cs[i + 1]), status |-> "completed"]]
    \o IF Last(cs).next = End THEN <<>>
       ELSE <<[node |-> Last(cs).next, status |-> "in_progress"]>>

(***************************************************************************)
(* Properties.                                                             *)
(***************************************************************************)
\* The state has the shape the code gives it.
StatusTypeOK ==
  /\ \A i \in DOMAIN log : /\ log[i].source \in {"input", "loop", "update"}
                           /\ log[i].status[2] \in Figures \cup {0}
  /\ Len(ran) = Len(log)
  /\ \A k \in Threads : pub[k].stage \in {"idle", "read", "check", "set", "remember"}
  /\ published \subseteq Instances

\* At every checkpoint but a start's input, the trace's completed steps are the
\* nodes, the starts and the re-evaluations that ran, in the order they ran,
\* whatever raised between them; and a step is in progress exactly while a node
\* is queued: margin_call_trace.py works this out from neighbouring checkpoints
\* alone.  The step a later start's input adds is excepted.
TraceIsHistory ==
  /\ StatusTypeOK
  /\ \A n \in 2..Len(log) :
       LET steps == Trace(SubSeq(log, 1, n))
       IN /\ Len(steps) = IF log[n].next = End THEN n - 1 ELSE n
          /\ \A i \in 1..n - 1 :
               ran[i + 1] # "__input__" => steps[i] = [node |-> ran[i + 1], status |-> "completed"]
          /\ log[n].next # End => steps[n] = [node |-> log[n].next, status |-> "in_progress"]

Settled == ~missed /\ ~overlap /\ \A k \in Threads : pub[k] = Idle

\* When one instance has published the call and no two publications of it
\* overlapped, the document shows the call's status once the last
\* publication ended: a failed write is not taken for a published one, and
\* an entry lost from _last only costs a rewrite (publisher.py).
DocFollows ==
  Settled /\ Cardinality(published) = 1 => doc = Status(log)
=============================================================================
