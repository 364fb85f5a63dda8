----------------------- MODULE OrchestratorCall_proofs -----------------------
(***************************************************************************)
(* Proofs about Orchestrator, for any requests, users and figures, either  *)
(* tier, either channel and any number of faults.  First what holds        *)
(* however requests overlap, fail and are retried; then that, serving one  *)
(* request at a time, it implements MarginCall, and the properties that    *)
(* hold of a run only then.                                                *)
(***************************************************************************)
EXTENDS OrchestratorCall, TLAPS

-----------------------------------------------------------------------------
(* The updates of the nodes stay within the channels' types.               *)

\* A node's update of well-typed channels is well typed.
LEMMA UpdatesTyped ==
  ASSUME NEW ch \in Channels, NEW r \in Requests, clock \in Nat
  PROVE  /\ r.op \in {"approve", "manager"} => ApprovalUpdate(ch, r) \in Channels
         /\ r.decision \in {"approved", "rejected"} => ManagerUpdate(ch, r) \in Channels
         /\ SentUpdate(ch) \in Channels
         /\ FailedSendUpdate(ch) \in Channels
         /\ \A polled \in BOOLEAN : SlaOutcome(ch, r, polled) \in Channels
         /\ [ch EXCEPT !.confirmed = TRUE] \in Channels
         /\ [ch EXCEPT !.escalated = TRUE] \in Channels
         /\ [ch EXCEPT !.trigger = r, !.updated_by = @ \cup {r}] \in Channels
         /\ \A a \in Amounts \cup {NoCall}, low \in BOOLEAN :
              [ch EXCEPT !.amount = a, !.below_mta = low] \in Channels
         /\ NewChannels(r) \in Channels
<1>1. r \in RequestType
  BY RequestsAssumption
<1>2. ASSUME r.op \in {"approve", "manager"}
      PROVE  ApprovalUpdate(ch, r) \in Channels
  <2> DEFINE a == IF r.decision = "adjusted" THEN r.amount ELSE NoCall
             f == IF r.op = "approve" THEN r.by ELSE NoUser
  <2>1. r.decision \in {"approved", "adjusted", "rejected"}
    BY <1>1, <1>2, RequestsAssumption DEF RequestType
  <2>2. a \in Amounts \cup {NoCall} /\ f \in Users \cup {NoUser}
    BY <1>1 DEF RequestType
  <2>3. ApprovalUpdate(ch, r) =
          [ch EXCEPT !.decision = r.decision, !.adjusted = a, !.first = f]
    BY DEF ApprovalUpdate
  <2> HIDE DEF a, f
  <2> QED
    BY <2>1, <2>2, <2>3, ZenonT(60) DEF Channels
<1>3. ASSUME r.decision \in {"approved", "rejected"}
      PROVE  ManagerUpdate(ch, r) \in Channels
  <2> DEFINE m == IF r.op = "manager" THEN r.by ELSE NoUser
             d == IF r.decision = "rejected" THEN "disputed" ELSE ch.decision
  <2>1. m \in Users \cup {NoUser}
    BY <1>1 DEF RequestType
  <2>2. d \in {"none", "approved", "adjusted", "rejected", "disputed"}
    BY DEF Channels
  <2>3. ManagerUpdate(ch, r) =
          [ch EXCEPT !.manager_decision = r.decision, !.manager = m, !.decision = d]
    BY DEF ManagerUpdate
  <2> HIDE DEF m, d
  <2> QED
    BY <1>3, <2>1, <2>2, <2>3, ZenonT(60) DEF Channels
<1>4. SentUpdate(ch) \in Channels /\ FailedSendUpdate(ch) \in Channels
  BY DEF Channels, SentUpdate, FailedSendUpdate
<1>5. \A polled \in BOOLEAN : SlaOutcome(ch, r, polled) \in Channels
  BY DEF Channels, SlaOutcome
<1>6. /\ [ch EXCEPT !.confirmed = TRUE] \in Channels
      /\ [ch EXCEPT !.escalated = TRUE] \in Channels
      /\ [ch EXCEPT !.trigger = r, !.updated_by = @ \cup {r}] \in Channels
      /\ \A a \in Amounts \cup {NoCall}, low \in BOOLEAN :
           [ch EXCEPT !.amount = a, !.below_mta = low] \in Channels
  BY ZenonT(60) DEF Channels
<1>7. NewChannels(r) \in Channels
  BY DEF Channels, NewChannels
<1> QED
  BY <1>2, <1>3, <1>4, <1>5, <1>6, <1>7

\* The routes lead to nodes, and a figure is a figure or one of its absences.
LEMMA RoutesTyped ==
  ASSUME NEW ch \in Channels
  PROVE  /\ RouteAfterBreach(ch) \in Nodes \cup {END}
         /\ RouteAfterApproval(ch) \in Nodes \cup {END}
         /\ RouteAfterManagerApproval(ch) \in Nodes \cup {END}
         /\ RouteAfterSend(ch) \in Nodes \cup {END}
         /\ RouteAfterSla(ch) \in Nodes \cup {END}
         /\ Effective(ch) \in Figures
<1>1. /\ RouteAfterBreach(ch) \in Nodes \cup {END}
      /\ RouteAfterApproval(ch) \in Nodes \cup {END}
      /\ RouteAfterManagerApproval(ch) \in Nodes \cup {END}
      /\ RouteAfterSend(ch) \in Nodes \cup {END}
      /\ RouteAfterSla(ch) \in Nodes \cup {END}
  BY DEF RouteAfterBreach, RouteAfterApproval, RouteAfterManagerApproval,
         RouteAfterSend, RouteAfterSla, Nodes
<1>2. Effective(ch) \in Figures
  BY DEF Effective, Channels, Figures
<1> QED
  BY <1>1, <1>2

-----------------------------------------------------------------------------
(* Type correctness.                                                       *)

\* An invocation that runs or saves is of the record type its pc names.
LEMMA InvocationTyped ==
  ASSUME NEW v \in InvocationType
  PROVE  /\ v.pc = "running" => v \in Invocation("running")
         /\ v.pc = "saving" => v \in Invocation("saving")
  BY DEF InvocationType, Invocation

\* A request that is being served has a run to act on.
LEMMA ActiveHasRun ==
  ASSUME TypeOK, NEW r \in Requests, inv[r].pc \in Active
  PROVE  head \in Checkpoint
  BY DEF TypeOK

\* Goto to any of the resting or checked states is well typed.
LEMMA GotoTyped ==
  ASSUME TypeOK, NEW r \in Requests, UNCHANGED world, UNCHANGED head,
         NEW pc \in {"idle", "checked", "stamped", "done", "refused", "failed"},
         pc \in Active => head # NoRun,
         Goto(r, pc)
  PROVE  TypeOK'
  BY DEF TypeOK, Goto, InvocationType, world

\* What a node returns is well typed when its channels and its route are.
LEMMA ReturnTyped ==
  ASSUME TypeOK, NEW r \in Requests, NEW node \in Nodes, Running(r, node),
         NEW ch \in Channels, NEW next \in Nodes \cup {END}, Return(r, ch, next)
  PROVE  /\ inv' \in [Requests -> InvocationType]
         /\ head # NoRun
<1>1. inv[r].pc \in Active /\ inv[r].node = node
  BY DEF Running, Active
<1>2. head # NoRun
  BY <1>1 DEF TypeOK
<1>3. [by |-> r, at |-> node] \in Tags
  BY DEF Tags
<1> DEFINE v == [pc |-> "saving", node |-> next, base |-> [by |-> r, at |-> node],
                 fresh |-> FALSE, polled |-> FALSE, ch |-> ch]
<1>4. v \in InvocationType
  BY <1>3 DEF InvocationType, Invocation
<1>5. inv' = [inv EXCEPT ![r] = v]
  BY <1>1 DEF Return
<1> HIDE DEF v
<1> QED
  BY <1>2, <1>4, <1>5 DEF TypeOK

\* A pause is recorded on a well-typed checkpoint.
LEMMA PauseTyped ==
  ASSUME TypeOK, NEW r \in Requests, inv[r].pc \in Active, NEW p \in BOOLEAN, Pause(r, p)
  PROVE  /\ inv' \in [Requests -> InvocationType]
         /\ head' \in Checkpoint
<1>1. head \in Checkpoint
  BY ActiveHasRun
<1>2. [head EXCEPT !.paused = TRUE, !.polled = p] \in Checkpoint
  BY <1>1 DEF Checkpoint
<1>3. head' \in Checkpoint
  BY <1>1, <1>2 DEF Pause
<1> DEFINE v == IF r.op = "timer" THEN Idle ELSE [pc |-> "done"]
<1>4. v \in InvocationType
  BY DEF InvocationType, Idle
<1>5. inv' = [inv EXCEPT ![r] = v]
  BY DEF Pause
<1> HIDE DEF v
<1> QED
  BY <1>3, <1>4, <1>5 DEF TypeOK

\* Posting keeps the set of posts well typed.
LEMMA PostTyped ==
  ASSUME TypeOK, NEW key, NEW amount, [key |-> key, amount |-> amount] \in PostType,
         Post(key, amount)
  PROVE  posts' \subseteq PostType
  BY DEF TypeOK, Post

\* The keys of the posts the nodes make.
LEMMA PostKeys ==
  ASSUME NEW amount \in Figures
  PROVE  /\ \A r \in Requests :
              [key |-> <<"approval_requested", r>>, amount |-> amount] \in PostType
         /\ [key |-> <<"manager_approval_requested">>, amount |-> amount] \in PostType
         /\ [key |-> <<"client_notified">>, amount |-> amount] \in PostType
         /\ [key |-> <<"delivery_failed">>, amount |-> amount] \in PostType
         /\ [key |-> <<"client_acknowledged">>, amount |-> amount] \in PostType
         /\ [key |-> <<"escalated">>, amount |-> amount] \in PostType
  BY DEF PostType

\* The channels an invocation runs on, and the node, are well typed.
LEMMA RunningTyped ==
  ASSUME TypeOK, NEW r \in Requests, inv[r].pc = "running"
  PROVE  /\ inv[r].ch \in Channels /\ inv[r].fresh \in BOOLEAN /\ inv[r].polled \in BOOLEAN
         /\ inv[r].ch.amount \in Figures
         /\ head \in Checkpoint
         /\ inv[r].pc \in Active
<1>1. inv[r] \in Invocation("running")
  BY InvocationTyped DEF TypeOK
<1>2. inv[r].pc \in Active
  BY DEF Active
<1>3. head \in Checkpoint
  BY <1>2, ActiveHasRun
<1> QED
  BY <1>1, <1>2, <1>3 DEF Invocation, Channels, Figures

\* The thread without a run is told apart from every checkpoint.
LEMMA NoRunIsNoCheckpoint == NoRun \notin Checkpoint
<1> SUFFICES ASSUME NoRun \in Checkpoint PROVE FALSE
  OBVIOUS
<1>1. "tag" \in DOMAIN NoRun
  BY DEF Checkpoint
<1>2. DOMAIN NoRun = {"none"}
  BY DEF NoRun
<1> QED
  BY <1>1, <1>2

\* The parts of TypeOK put together when the run exists.
LEMMA TypeFromParts ==
  ASSUME head' \in Checkpoint, inv' \in [Requests -> InvocationType],
         clock' \in Nat, armed' \in BOOLEAN, faults' \in Nat,
         notices' \in Seq(EventType), incidents' \in Seq(EventType),
         posts' \subseteq PostType, signed' \subseteq SignatureType
  PROVE  TypeOK'
<1>1. head' # NoRun
  BY NoRunIsNoCheckpoint
<1> QED
  BY <1>1 DEF TypeOK

\* A node that only returns leaves the world as it is.
LEMMA QuietReturnTyped ==
  ASSUME TypeOK, NEW r \in Requests, NEW node \in Nodes, Running(r, node),
         NEW ch \in Channels, NEW next \in Nodes \cup {END}, Return(r, ch, next),
         UNCHANGED <<head, world>>
  PROVE  TypeOK'
  BY ReturnTyped, TypeFromParts DEF TypeOK, world

\* A gate that is answered, or raises, keeps the types.
LEMMA GateTyped ==
  ASSUME TypeOK, NEW r \in Requests, NEW gate \in Gates, NEW key, NEW amount \in Figures,
         [key |-> key, amount |-> amount] \in PostType,
         NEW answered, Answers(r, gate) => answered \in Channels,
         NEW next, answered \in Channels => next \in Nodes \cup {END},
         Gate(r, gate, key, amount, answered, next)
  PROVE  TypeOK'
<1>1. /\ Running(r, gate) /\ inv[r].pc = "running" /\ gate \in Nodes
      /\ UNCHANGED <<clock, armed, notices, incidents, faults>>
  BY DEF Gate, Running, Gates, Nodes
<1>2. posts' \subseteq PostType
  BY PostTyped DEF Gate
<1>3. head \in Checkpoint /\ inv[r].pc \in Active
  BY <1>1, RunningTyped
<1>4. CASE /\ Answers(r, gate) /\ Return(r, answered, next) /\ UNCHANGED head
           /\ signed' = IF r.decision = "rejected" THEN signed
                        ELSE signed \cup {[gate |-> gate, by |-> r, amount |-> Effective(answered)]}
  <2>1. answered \in Channels /\ next \in Nodes \cup {END}
    BY <1>4
  <2>2. inv' \in [Requests -> InvocationType]
    BY <1>1, <1>4, <2>1, ReturnTyped
  <2>3. Effective(answered) \in Figures
    BY <2>1, RoutesTyped
  <2>4. signed' \subseteq SignatureType
    BY <1>4, <2>3 DEF TypeOK, SignatureType
  <2> QED
    BY <1>1, <1>2, <1>3, <1>4, <2>2, <2>4, TypeFromParts DEF TypeOK
<1>5. CASE Pause(r, FALSE) /\ UNCHANGED signed
  <2>1. inv' \in [Requests -> InvocationType] /\ head' \in Checkpoint
    BY <1>3, <1>5, PauseTyped
  <2> QED
    BY <1>1, <1>2, <1>5, <2>1, TypeFromParts DEF TypeOK
<1> QED
  BY <1>4, <1>5 DEF Gate

-----------------------------------------------------------------------------
(* TypeOK is inductive: one step per action.                               *)

\* So does every step of the endpoints and of the runtime.
LEMMA RequestSteps ==
  ASSUME TypeOK, NEW r \in Requests
  PROVE  /\ StartRun(r) => TypeOK'
         /\ RequirePendingNode(r) => TypeOK'
         /\ InternalSlaCheck(r) => TypeOK'
         /\ PolicyCheck(r) => TypeOK'
         /\ UpdateState(r) => TypeOK'
         /\ Invoke(r) => TypeOK'
         /\ Save(r) => TypeOK'
         /\ RejectPayload(r) => TypeOK'
         /\ Fault(r) => TypeOK'
<1>1. ASSUME StartRun(r) PROVE TypeOK'
  <2> DEFINE tag == [by |-> r, at |-> "input"]
             c == NewChannels(r)
             v == [pc |-> "running", node |-> "compute_exposure", base |-> tag,
                   fresh |-> FALSE, polled |-> FALSE, ch |-> c]
             h == [tag |-> tag, next |-> "compute_exposure", paused |-> FALSE,
                   polled |-> FALSE, ch |-> c]
  <2>0. clock \in Nat
    BY DEF TypeOK
  <2>1. tag \in Tags /\ "compute_exposure" \in Nodes
    BY DEF Tags, Nodes
  <2>4. c \in Channels
    BY <2>0 DEF NewChannels, Channels
  <2>2. head' = h /\ inv' = [inv EXCEPT ![r] = v] /\ UNCHANGED world
    BY <1>1 DEF StartRun
  <2> HIDE DEF tag, c
  <2>3. v \in InvocationType /\ h \in Checkpoint
    BY <2>1, <2>4 DEF InvocationType, Invocation, Checkpoint
  <2> HIDE DEF v, h
  <2> QED
    BY <2>2, <2>3, TypeFromParts DEF TypeOK, world
<1>2. ASSUME RequirePendingNode(r) PROVE TypeOK'
  <2>1. PICK pc \in {"checked", "refused"} : Goto(r, pc)
    BY <1>2 DEF RequirePendingNode
  <2> QED
    BY <1>2, <2>1, GotoTyped DEF RequirePendingNode
<1>3. ASSUME InternalSlaCheck(r) PROVE TypeOK'
  <2>1. PICK pc \in {"checked", "done"} :
          Goto(r, pc) /\ (pc = "checked" => head # NoRun)
    BY <1>3 DEF InternalSlaCheck, Pending
  <2> QED
    BY <1>3, <2>1, GotoTyped DEF InternalSlaCheck, Active
<1>4. ASSUME PolicyCheck(r) PROVE TypeOK'
  <2>1. PICK pc \in {"checked", "refused"} : Goto(r, pc)
    BY <1>4 DEF PolicyCheck
  <2> QED
    BY <1>4, <2>1, GotoTyped DEF PolicyCheck
<1>5. ASSUME UpdateState(r) PROVE TypeOK'
  <2> DEFINE c == [head.ch EXCEPT !.trigger = r, !.updated_by = @ \cup {r}]
             t == [by |-> r, at |-> "update"]
             h == [tag |-> t, next |-> "compute_exposure", paused |-> FALSE,
                   polled |-> FALSE, ch |-> c]
             v == [pc |-> "stamped"]
  <2>1. head \in Checkpoint
    BY <1>5, ActiveHasRun DEF UpdateState, Active
  <2>2. head.ch \in Channels
    BY <2>1 DEF Checkpoint
  <2>3. c \in Channels /\ t \in Tags /\ "compute_exposure" \in Nodes
    BY <2>2, UpdatesTyped DEF TypeOK, Tags, Nodes
  <2>4. head' = h /\ inv' = [inv EXCEPT ![r] = v] /\ UNCHANGED world
    BY <1>5 DEF UpdateState, Goto
  <2> HIDE DEF c, t
  <2>5. h \in Checkpoint /\ v \in InvocationType
    BY <2>3 DEF Checkpoint, InvocationType
  <2> HIDE DEF h, v
  <2> QED
    BY <2>4, <2>5, TypeFromParts DEF TypeOK, world
<1>6. ASSUME Invoke(r) PROVE TypeOK'
  <2>1. head \in Checkpoint /\ UNCHANGED <<head, world>>
    BY <1>6, ActiveHasRun DEF Invoke, Active
  <2>2. CASE head.next = END
    BY <1>6, <2>1, <2>2, GotoTyped DEF Invoke, Active
  <2>3. CASE head.next # END
    <3> DEFINE f == r.op \in ResumeOps
               v == [pc |-> "running", node |-> head.next, base |-> head.tag,
                     fresh |-> f, polled |-> head.polled, ch |-> head.ch]
    <3>1. f \in BOOLEAN
      OBVIOUS
    <3>2. inv' = [inv EXCEPT ![r] = v]
      BY <1>6, <2>3 DEF Invoke
    <3> HIDE DEF f
    <3>3. v \in InvocationType
      BY <2>1, <3>1 DEF Checkpoint, InvocationType, Invocation
    <3> HIDE DEF v
    <3> QED
      BY <2>1, <3>2, <3>3, TypeFromParts DEF TypeOK, world
  <2> QED
    BY <2>2, <2>3
<1>7. ASSUME Save(r) PROVE TypeOK'
  <2>1. inv[r] \in Invocation("saving") /\ inv[r].pc \in Active
    BY <1>7, InvocationTyped DEF Save, TypeOK, Active
  <2> DEFINE h == [tag |-> inv[r].base, next |-> inv[r].node, paused |-> FALSE,
                   polled |-> FALSE, ch |-> inv[r].ch]
             v == IF inv[r].node = END THEN [pc |-> "done"] ELSE [inv[r] EXCEPT !.pc = "running"]
  <2>2. head' = h /\ inv' = [inv EXCEPT ![r] = v] /\ UNCHANGED world
    BY <1>7 DEF Save, TypeOK
  <2>3. h \in Checkpoint
    BY <2>1 DEF Checkpoint, Invocation
  <2>4. v \in InvocationType
    BY <2>1 DEF InvocationType, Invocation
  <2> HIDE DEF h, v
  <2> QED
    BY <2>2, <2>3, <2>4, TypeFromParts DEF TypeOK, world
<1>8. ASSUME RejectPayload(r) PROVE TypeOK'
  <2>1. PICK pc \in {"idle", "failed"} : Goto(r, pc)
    BY <1>8 DEF RejectPayload
  <2> QED
    BY <1>8, <2>1, GotoTyped DEF RejectPayload, Active
<1>9. ASSUME Fault(r) PROVE TypeOK'
  <2>1. PICK pc \in {"idle", "failed"} : Goto(r, pc)
    BY <1>9 DEF Fault
  <2>2. head \in Checkpoint
    BY <1>9, ActiveHasRun DEF Fault
  <2>3. inv' \in [Requests -> InvocationType]
    BY <2>1 DEF Goto, TypeOK, InvocationType
  <2> QED
    BY <1>9, <2>2, <2>3, TypeFromParts DEF TypeOK, Fault
<1> QED
  BY <1>1, <1>2, <1>3, <1>4, <1>5, <1>6, <1>7, <1>8, <1>9

\* So does every node.
LEMMA NodeSteps ==
  ASSUME TypeOK, NEW r \in Requests
  PROVE  /\ ComputeExposure(r) => TypeOK'
         /\ FetchCsaTerms(r) => TypeOK'
         /\ EvaluateBreach(r) => TypeOK'
         /\ AwaitApproval(r) => TypeOK'
         /\ AwaitManagerApproval(r) => TypeOK'
         /\ SendNotification(r) => TypeOK'
         /\ AwaitSlaResponse(r) => TypeOK'
         /\ SendSlaMetNotification(r) => TypeOK'
         /\ Escalate(r) => TypeOK'
<1> DEFINE c == inv[r].ch
<1>0. clock \in Nat /\ \A n : Running(r, n) => inv[r].pc = "running"
  BY DEF TypeOK, Running
<1>1. ASSUME ComputeExposure(r) PROVE TypeOK'
  BY <1>0, <1>1, RunningTyped, QuietReturnTyped DEF ComputeExposure, Nodes
<1>2. ASSUME FetchCsaTerms(r) PROVE TypeOK'
  BY <1>0, <1>2, RunningTyped, QuietReturnTyped DEF FetchCsaTerms, Nodes
<1>3. ASSUME EvaluateBreach(r) PROVE TypeOK'
  <2>1. PICK a \in Amounts \cup {NoCall}, low \in BOOLEAN :
          LET ch == [c EXCEPT !.amount = a, !.below_mta = low]
          IN  Return(r, ch, RouteAfterBreach(ch))
    BY <1>3 DEF EvaluateBreach
  <2> DEFINE ch == [c EXCEPT !.amount = a, !.below_mta = low]
  <2>2. /\ Running(r, "evaluate_breach") /\ UNCHANGED <<head, world>>
        /\ "evaluate_breach" \in Nodes
    BY <1>3 DEF EvaluateBreach, Nodes
  <2>3. c \in Channels
    BY <1>0, <2>2, RunningTyped
  <2>4. ch \in Channels
    BY <1>0, <2>3, UpdatesTyped
  <2>5. RouteAfterBreach(ch) \in Nodes \cup {END}
    BY <2>4, RoutesTyped
  <2>6. Return(r, ch, RouteAfterBreach(ch))
    BY <2>1
  <2> HIDE DEF ch
  <2> QED
    BY <2>2, <2>4, <2>5, <2>6, QuietReturnTyped
<1>4. ASSUME AwaitApproval(r) PROVE TypeOK'
  <2> DEFINE ch == ApprovalUpdate(c, r)
             key == <<"approval_requested", c.trigger>>
  <2>1. Gate(r, "await_approval", key, c.amount, ch, RouteAfterApproval(ch))
    BY <1>4 DEF AwaitApproval
  <2>2. c \in Channels /\ c.amount \in Figures /\ "await_approval" \in Gates
    BY <1>0, <2>1, RunningTyped DEF Gate, Gates
  <2>3. Answers(r, "await_approval") => ch \in Channels
    BY <1>0, <2>2, UpdatesTyped DEF Answers
  <2>4. [key |-> key, amount |-> c.amount] \in PostType
    BY <2>2, PostKeys DEF Channels
  <2>5. ch \in Channels => RouteAfterApproval(ch) \in Nodes \cup {END}
    BY RoutesTyped
  <2> HIDE DEF ch, key, c
  <2> QED
    BY <2>1, <2>2, <2>3, <2>4, <2>5, GateTyped
<1>5. ASSUME AwaitManagerApproval(r) PROVE TypeOK'
  <2> DEFINE ch == ManagerUpdate(c, r)
             key == <<"manager_approval_requested">>
  <2>1. Gate(r, "await_manager_approval", key, Effective(c), ch, RouteAfterManagerApproval(ch))
    BY <1>5 DEF AwaitManagerApproval
  <2>2. c \in Channels /\ "await_manager_approval" \in Gates
    BY <1>0, <2>1, RunningTyped DEF Gate, Gates
  <2>3. Answers(r, "await_manager_approval") => ch \in Channels
    BY <1>0, <2>2, UpdatesTyped DEF Answers
  <2>4. Effective(c) \in Figures
    BY <2>2, RoutesTyped
  <2>5. [key |-> key, amount |-> Effective(c)] \in PostType
    BY <2>4, PostKeys
  <2>6. ch \in Channels => RouteAfterManagerApproval(ch) \in Nodes \cup {END}
    BY RoutesTyped
  <2> HIDE DEF ch, key, c
  <2> QED
    BY <2>1, <2>2, <2>3, <2>4, <2>5, <2>6, GateTyped
<1>6. ASSUME SendNotification(r) PROVE TypeOK'
  <2>1. /\ Running(r, "send_notification") /\ "send_notification" \in Nodes
        /\ UNCHANGED <<head, clock, incidents, signed, faults>>
    BY <1>6 DEF SendNotification, Nodes
  <2>2. c \in Channels /\ head \in Checkpoint
    BY <1>0, <2>1, RunningTyped
  <2>3. Effective(c) \in Figures
    BY <2>2, RoutesTyped
  <2>4. PICK ch \in {SentUpdate(c), FailedSendUpdate(c)} :
          /\ Return(r, ch, RouteAfterSend(ch))
          /\ notices' \in {notices, Append(notices, [at |-> clock, ch |-> c])}
          /\ armed' \in {armed, TRUE}
          /\ \/ UNCHANGED posts
             \/ Post(<<"client_notified">>, Effective(c))
             \/ Post(<<"delivery_failed">>, Effective(c))
    BY <1>6 DEF SendNotification
  <2>5. ch \in Channels
    BY <1>0, <2>2, UpdatesTyped
  <2>6. RouteAfterSend(ch) \in Nodes \cup {END}
    BY <2>5, RoutesTyped
  <2>7. inv' \in [Requests -> InvocationType]
    BY <2>1, <2>4, <2>5, <2>6, ReturnTyped
  <2>8. posts' \subseteq PostType
    BY <2>3, <2>4, PostKeys, PostTyped DEF TypeOK
  <2>9. notices' \in Seq(EventType)
    <3>1. [at |-> clock, ch |-> c] \in EventType
      BY <1>0, <2>2 DEF EventType
    <3> HIDE DEF c
    <3>2. notices \in Seq(EventType)
      BY DEF TypeOK
    <3>3. Append(notices, [at |-> clock, ch |-> c]) \in Seq(EventType)
      BY <3>1, <3>2
    <3> QED
      BY <2>4, <3>2, <3>3
  <2> QED
    BY <2>1, <2>2, <2>4, <2>7, <2>8, <2>9, TypeFromParts DEF TypeOK
<1>7. ASSUME AwaitSlaResponse(r) PROVE TypeOK'
  <2>1. /\ Running(r, "await_sla_response") /\ "await_sla_response" \in Nodes
        /\ UNCHANGED <<clock, armed, notices, incidents, signed, faults>>
    BY <1>7 DEF AwaitSlaResponse, Nodes
  <2>2. /\ c \in Channels /\ head \in Checkpoint /\ inv[r].pc \in Active
        /\ inv[r].fresh \in BOOLEAN /\ inv[r].polled \in BOOLEAN
    BY <1>0, <2>1, RunningTyped
  <2>3. CASE SlaResolves(c, r, inv[r].fresh, inv[r].polled)
    <3> DEFINE ch == SlaOutcome(c, r, inv[r].polled)
    <3>1. /\ Return(r, ch, RouteAfterSla(ch)) /\ UNCHANGED head
          /\ UNCHANGED posts \/ Post(<<"delivery_failed">>, Effective(ch))
      BY <1>7, <2>3 DEF AwaitSlaResponse
    <3>2. ch \in Channels
      BY <1>0, <2>2, UpdatesTyped
    <3>3. RouteAfterSla(ch) \in Nodes \cup {END} /\ Effective(ch) \in Figures
      BY <3>2, RoutesTyped
    <3> HIDE DEF ch
    <3>4. inv' \in [Requests -> InvocationType]
      BY <2>1, <3>1, <3>2, <3>3, ReturnTyped
    <3>5. posts' \subseteq PostType
      BY <3>1, <3>3, PostKeys, PostTyped DEF TypeOK
    <3> QED
      BY <2>1, <2>2, <3>1, <3>4, <3>5, TypeFromParts DEF TypeOK
  <2>4. CASE ~SlaResolves(c, r, inv[r].fresh, inv[r].polled)
    <3>1. PICK p \in BOOLEAN : Pause(r, p) /\ UNCHANGED posts
      BY <1>7, <2>2, <2>4 DEF AwaitSlaResponse
    <3>2. inv' \in [Requests -> InvocationType] /\ head' \in Checkpoint
      BY <2>2, <3>1, PauseTyped
    <3> QED
      BY <2>1, <3>1, <3>2, TypeFromParts DEF TypeOK
  <2> QED
    BY <2>3, <2>4
<1>8. ASSUME SendSlaMetNotification(r) PROVE TypeOK'
  <2> DEFINE ch == [c EXCEPT !.confirmed = TRUE]
  <2>1. /\ Running(r, "send_sla_met_notification") /\ "send_sla_met_notification" \in Nodes
        /\ Return(r, ch, END)
        /\ UNCHANGED posts \/ Post(<<"client_acknowledged">>, Effective(c))
        /\ UNCHANGED <<head, clock, armed, notices, incidents, signed, faults>>
    BY <1>8 DEF SendSlaMetNotification, Nodes
  <2>2. c \in Channels /\ head \in Checkpoint
    BY <1>0, <2>1, RunningTyped
  <2>3. ch \in Channels /\ Effective(c) \in Figures
    BY <1>0, <2>2, UpdatesTyped, RoutesTyped
  <2> HIDE DEF ch
  <2>4. inv' \in [Requests -> InvocationType]
    BY <2>1, <2>3, ReturnTyped
  <2>5. posts' \subseteq PostType
    BY <2>1, <2>3, PostKeys, PostTyped DEF TypeOK
  <2> QED
    BY <2>1, <2>2, <2>4, <2>5, TypeFromParts DEF TypeOK
<1>9. ASSUME Escalate(r) PROVE TypeOK'
  <2> DEFINE ch == [c EXCEPT !.escalated = TRUE]
  <2>1. /\ Running(r, "escalate") /\ "escalate" \in Nodes
        /\ Return(r, ch, END)
        /\ incidents' = Append(incidents, [at |-> clock, ch |-> c])
        /\ Post(<<"escalated">>, Effective(c))
        /\ UNCHANGED <<head, clock, armed, notices, signed, faults>>
    BY <1>9 DEF Escalate, Nodes
  <2>2. c \in Channels /\ head \in Checkpoint
    BY <1>0, <2>1, RunningTyped
  <2>3. ch \in Channels /\ Effective(c) \in Figures
    BY <1>0, <2>2, UpdatesTyped, RoutesTyped
  <2> HIDE DEF ch
  <2>4. inv' \in [Requests -> InvocationType]
    BY <2>1, <2>3, ReturnTyped
  <2>5. posts' \subseteq PostType
    BY <2>1, <2>3, PostKeys, PostTyped
  <2>6. incidents' \in Seq(EventType)
    <3>1. [at |-> clock, ch |-> c] \in EventType
      BY <1>0, <2>2 DEF EventType
    <3> HIDE DEF c
    <3> QED
      BY <2>1, <3>1 DEF TypeOK
  <2> QED
    BY <2>1, <2>2, <2>4, <2>5, <2>6, TypeFromParts DEF TypeOK
<1> QED
  BY <1>1, <1>2, <1>3, <1>4, <1>5, <1>6, <1>7, <1>8, <1>9

\* Whatever requests arrive, overlap, fail and are retried, the thread's
\* checkpoint, every invocation and every record of the outside world stay
\* well typed, and no invocation is under way before the run exists.
THEOREM TypeCorrect == Spec => []TypeOK
<1>1. Init => TypeOK
  <2> SUFFICES ASSUME Init PROVE TypeOK
    OBVIOUS
  <2>1. Idle \in InvocationType /\ Idle.pc \notin Active
    BY DEF InvocationType, Idle, Active
  <2>2. <<>> \in Seq(EventType)
    OBVIOUS
  <2> HIDE DEF Idle
  <2>3. inv \in [Requests -> InvocationType] /\ \A r \in Requests : inv[r].pc \notin Active
    BY <2>1 DEF Init
  <2> QED
    BY <2>2, <2>3 DEF Init, TypeOK
<1>2. TypeOK /\ [Next]_vars => TypeOK'
  <2> SUFFICES ASSUME TypeOK, [Next]_vars PROVE TypeOK'
    OBVIOUS
  <2>1. CASE Tick
    BY <2>1 DEF TypeOK, Tick
  <2>2. CASE \E r \in Requests : Step(r) \/ Fault(r)
    <3>1. PICK r \in Requests : Step(r) \/ Fault(r)
      BY <2>2
    <3> QED
      BY <3>1, RequestSteps, NodeSteps DEF Step
  <2>3. CASE UNCHANGED vars
    BY <2>3 DEF TypeOK, vars
  <2> QED
    BY <2>1, <2>2, <2>3 DEF Next
<1> QED
  BY <1>1, <1>2, PTL DEF Spec

-----------------------------------------------------------------------------
(* The strengthening.  What the world was told follows from what the run   *)
(* carries, so every checkpoint and every private copy of the channels     *)
(* must already justify the node it stands before, whichever of them an    *)
(* overlapping request resumes or a fault throws away.                     *)

SignedIn(sigs, gate, amount) == \E s \in sigs : s.gate = gate /\ s.amount = amount

NoticeReady(ch, sigs) ==
  /\ Effective(ch) \in Amounts
  /\ SignedIn(sigs, "await_approval", Effective(ch))
  /\ Elite => SignedIn(sigs, "await_manager_approval", Effective(ch))

EscalationDue(ch, now) == ch.sla = "breached" /\ (ch.failure \/ now >= Deadline(ch))

Ready(node, ch, sigs, now) ==
  /\ ch.failure => ch.sla = "breached"
  /\ node = "await_approval" => ch.amount \in Amounts
  /\ node = "await_manager_approval" =>
       Effective(ch) \in Amounts /\ SignedIn(sigs, "await_approval", Effective(ch))
  /\ node = "send_notification" => NoticeReady(ch, sigs)
  /\ node = "await_sla_response" => ~ch.failure
  /\ node = "escalate" => EscalationDue(ch, now)

Private == {"running", "saving"}
HeadReady == head # NoRun => Ready(head.next, head.ch, signed, clock)
InvReady ==
  \A r \in Requests : inv[r].pc \in Private => Ready(inv[r].node, inv[r].ch, signed, clock)

IInv == TypeOK /\ HeadReady /\ InvReady /\ EveryNoticeSigned /\ NeverEscalatedEarly

\* Signatures are never taken back and the clock never runs back.
LEMMA ReadyMonotone ==
  ASSUME NEW node, NEW ch \in Channels, NEW s1, NEW s2, s1 \subseteq s2,
         NEW t1 \in Nat, NEW t2 \in Nat, t1 <= t2, Ready(node, ch, s1, t1)
  PROVE  Ready(node, ch, s2, t2)
<1>1. \A gate, amount : SignedIn(s1, gate, amount) => SignedIn(s2, gate, amount)
  BY DEF SignedIn
<1>2. NoticeReady(ch, s1) => NoticeReady(ch, s2)
  BY <1>1 DEF NoticeReady
<1>3. ch.sent_at \in Nat
  BY DEF Channels
<1>4. EscalationDue(ch, t1) => EscalationDue(ch, t2)
  BY <1>3 DEF EscalationDue, Deadline
<1> QED
  BY <1>1, <1>2, <1>4 DEF Ready

(* The nodes' updates justify the node their route leads to.               *)

\* What evaluate_breach routes to needs no signature yet, or has them.
LEMMA BreachReady ==
  ASSUME NEW ch \in Channels, NEW a, NEW low, NEW sigs, NEW now,
         Ready("evaluate_breach", ch, sigs, now)
  PROVE  LET new == [ch EXCEPT !.amount = a, !.below_mta = low]
         IN  Ready(RouteAfterBreach(new), new, sigs, now)
  BY DEF Ready, RouteAfterBreach, Channels, END

\* What await_approval routes to has the first signature.
LEMMA ApprovalReady ==
  ASSUME NEW ch \in Channels, NEW r \in Requests, NEW sigs, NEW now,
         r.op \in {"approve", "manager"}, Ready("await_approval", ch, sigs, now)
  PROVE  LET new == ApprovalUpdate(ch, r)
             all == IF r.decision = "rejected" THEN sigs
                    ELSE sigs \cup {[gate |-> "await_approval", by |-> r, amount |-> Effective(new)]}
         IN  Ready(RouteAfterApproval(new), new, all, now)
<1> DEFINE new == ApprovalUpdate(ch, r)
           s == [gate |-> "await_approval", by |-> r, amount |-> Effective(new)]
           all == IF r.decision = "rejected" THEN sigs ELSE sigs \cup {s}
           a == IF r.decision = "adjusted" THEN r.amount ELSE NoCall
           f == IF r.op = "approve" THEN r.by ELSE NoUser
<1>1. r \in RequestType /\ ch.amount \in Amounts /\ (ch.failure => ch.sla = "breached")
  BY RequestsAssumption DEF Ready
<1>2. a \in Amounts \cup {NoCall}
  BY <1>1 DEF RequestType
<1>3. new = [ch EXCEPT !.decision = r.decision, !.adjusted = a, !.first = f]
  BY DEF ApprovalUpdate
<1>4. /\ new.decision = r.decision /\ new.adjusted = a /\ new.amount = ch.amount
      /\ new.failure = ch.failure /\ new.sla = ch.sla
  <2> HIDE DEF a, f, new
  <2> QED
    BY <1>3 DEF Channels
<1>5. Effective(new) \in Amounts
  <2> HIDE DEF a, new
  <2> QED
    BY <1>1, <1>2, <1>4 DEF Effective
<1>6. r.decision \in {"approved", "adjusted"} => SignedIn(all, "await_approval", Effective(new))
  <2> SUFFICES ASSUME r.decision \in {"approved", "adjusted"}
               PROVE  SignedIn(all, "await_approval", Effective(new))
    OBVIOUS
  <2>1. s \in all /\ s.gate = "await_approval" /\ s.amount = Effective(new)
    OBVIOUS
  <2> HIDE DEF all, s, new
  <2> QED
    BY <2>1 DEF SignedIn
<1> HIDE DEF new, all, a, f
<1>7. RouteAfterApproval(new) \in {END, "await_manager_approval", "send_notification"}
  BY DEF RouteAfterApproval
<1>8. RouteAfterApproval(new) # END => r.decision \in {"approved", "adjusted"}
  BY <1>4 DEF RouteAfterApproval
<1>9. RouteAfterApproval(new) = "send_notification" => ~Elite
  BY DEF RouteAfterApproval, END
<1>10. Ready(RouteAfterApproval(new), new, all, now)
  BY <1>1, <1>4, <1>5, <1>6, <1>7, <1>8, <1>9 DEF Ready, NoticeReady, END
<1> QED
  BY <1>10 DEF new, all

\* What await_manager_approval routes to has the second.
LEMMA ManagerReady ==
  ASSUME NEW ch \in Channels, NEW r \in Requests, NEW sigs, NEW now,
         r.decision \in {"approved", "rejected"}, Ready("await_manager_approval", ch, sigs, now)
  PROVE  LET new == ManagerUpdate(ch, r)
             all == IF r.decision = "rejected" THEN sigs
                    ELSE sigs \cup {[gate |-> "await_manager_approval", by |-> r,
                                     amount |-> Effective(new)]}
         IN  Ready(RouteAfterManagerApproval(new), new, all, now)
<1> DEFINE new == ManagerUpdate(ch, r)
           s == [gate |-> "await_manager_approval", by |-> r, amount |-> Effective(new)]
           all == IF r.decision = "rejected" THEN sigs ELSE sigs \cup {s}
           m == IF r.op = "manager" THEN r.by ELSE NoUser
           d == IF r.decision = "rejected" THEN "disputed" ELSE ch.decision
<1>1. /\ Effective(ch) \in Amounts /\ SignedIn(sigs, "await_approval", Effective(ch))
      /\ ch.failure => ch.sla = "breached"
  BY DEF Ready
<1>2. new = [ch EXCEPT !.manager_decision = r.decision, !.manager = m, !.decision = d]
  BY DEF ManagerUpdate
<1>3. /\ new.manager_decision = r.decision /\ new.decision = d
      /\ new.adjusted = ch.adjusted /\ new.amount = ch.amount
      /\ new.failure = ch.failure /\ new.sla = ch.sla
  <2> HIDE DEF m, d, new
  <2> QED
    BY <1>2 DEF Channels
<1>4. r.decision = "approved" => Effective(new) = Effective(ch)
  <2> HIDE DEF new
  <2> QED
    BY <1>3 DEF Effective
<1>5. r.decision = "approved" =>
        /\ SignedIn(all, "await_manager_approval", Effective(new))
        /\ SignedIn(all, "await_approval", Effective(new))
  <2> SUFFICES ASSUME r.decision = "approved"
               PROVE  /\ SignedIn(all, "await_manager_approval", Effective(new))
                      /\ SignedIn(all, "await_approval", Effective(new))
    OBVIOUS
  <2>1. all = sigs \cup {s}
    OBVIOUS
  <2>2. s.gate = "await_manager_approval" /\ s.amount = Effective(new)
    OBVIOUS
  <2> HIDE DEF all, s, new
  <2> QED
    BY <1>1, <1>4, <2>1, <2>2 DEF SignedIn
<1> HIDE DEF new, all, m, d
<1>6. /\ RouteAfterManagerApproval(new) \in {END, "send_notification"}
      /\ RouteAfterManagerApproval(new) = "send_notification" => r.decision = "approved"
  BY <1>3 DEF RouteAfterManagerApproval, END
<1>7. Ready(RouteAfterManagerApproval(new), new, all, now)
  BY <1>1, <1>3, <1>4, <1>5, <1>6 DEF Ready, NoticeReady, END
<1> QED
  BY <1>7 DEF new, all

\* What send_notification routes to follows from the notice or its failure.
LEMMA SendReady ==
  ASSUME NEW ch \in Channels, clock \in Nat, NEW sigs,
         Ready("send_notification", ch, sigs, clock)
  PROVE  \A new \in {SentUpdate(ch), FailedSendUpdate(ch)} :
           Ready(RouteAfterSend(new), new, sigs, clock)
  BY DEF Ready, SentUpdate, FailedSendUpdate, RouteAfterSend, EscalationDue, Channels

\* What await_sla_response routes to follows from the deadline.
LEMMA SlaReady ==
  ASSUME NEW ch \in Channels, clock \in Nat, NEW sigs, NEW r \in Requests,
         NEW fresh \in BOOLEAN, NEW polled \in BOOLEAN,
         SlaResolves(ch, r, fresh, polled), Ready("await_sla_response", ch, sigs, clock)
  PROVE  LET new == SlaOutcome(ch, r, polled)
         IN  Ready(RouteAfterSla(new), new, sigs, clock)
<1> DEFINE new == SlaOutcome(ch, r, polled)
<1>1. ~ch.failure
  BY DEF Ready
<1>2. /\ new.sent_at = ch.sent_at
      /\ \/ new.sla = "met" /\ ~new.failure
         \/ new.sla = "breached" /\ (new.failure \/ clock >= Deadline(ch))
  BY <1>1 DEF SlaOutcome, SlaResolves, Late, Channels
<1> HIDE DEF new
<1>3. Ready(RouteAfterSla(new), new, sigs, clock)
  BY <1>2 DEF Ready, RouteAfterSla, EscalationDue, Deadline
<1> QED
  BY <1>3 DEF new

-----------------------------------------------------------------------------
(* The parts of the strengthening that a step leaves alone.                *)

Grows == signed \subseteq signed' /\ clock' \in Nat /\ clock <= clock'

\* One invocation moves to a state that is ready.
LEMMA InvUpdate ==
  ASSUME TypeOK, InvReady, Grows, NEW r \in Requests, NEW v, inv' = [inv EXCEPT ![r] = v],
         v.pc \in Private => Ready(v.node, v.ch, signed', clock')
  PROVE  InvReady'
<1> SUFFICES ASSUME NEW q \in Requests, inv'[q].pc \in Private
             PROVE  Ready(inv'[q].node, inv'[q].ch, signed', clock')
  BY DEF InvReady
<1>1. CASE q = r
  BY <1>1 DEF TypeOK
<1>2. CASE q # r
  <2>1. inv'[q] = inv[q]
    BY <1>2 DEF TypeOK
  <2>2. inv[q].ch \in Channels
    BY <2>1, InvocationTyped DEF TypeOK, Private, Invocation
  <2>3. Ready(inv[q].node, inv[q].ch, signed, clock)
    BY <2>1 DEF InvReady
  <2>4. Ready(inv[q].node, inv[q].ch, signed', clock')
    BY <2>2, <2>3, ReadyMonotone DEF Grows, TypeOK
  <2> QED
    BY <2>1, <2>4
<1> QED
  BY <1>1, <1>2

\* The head stays ready while the thread is where it was.
LEMMA HeadKept ==
  ASSUME TypeOK, HeadReady, Grows, head' # NoRun =>
           head # NoRun /\ head'.next = head.next /\ head'.ch = head.ch
  PROVE  HeadReady'
<1> SUFFICES ASSUME head' # NoRun PROVE Ready(head'.next, head'.ch, signed', clock')
  BY DEF HeadReady
<1>1. head \in Checkpoint /\ Ready(head.next, head.ch, signed, clock)
  BY DEF HeadReady, TypeOK
<1>2. Ready(head.next, head.ch, signed', clock')
  BY <1>1, ReadyMonotone DEF Grows, TypeOK, Checkpoint
<1> QED
  BY <1>2

\* The notices sent stay signed.
LEMMA NoticesKept ==
  ASSUME EveryNoticeSigned, UNCHANGED notices, signed \subseteq signed'
  PROVE  EveryNoticeSigned'
  BY DEF EveryNoticeSigned, SignedAt

\* The incidents opened stay due.
LEMMA IncidentsKept ==
  ASSUME NeverEscalatedEarly, UNCHANGED incidents
  PROVE  NeverEscalatedEarly'
  BY DEF NeverEscalatedEarly

\* A step that only moves one invocation, to a state with nothing private.
LEMMA RestReady ==
  ASSUME IInv, NEW r \in Requests, NEW pc, pc \notin Private, Goto(r, pc),
         UNCHANGED <<head, clock, notices, incidents, signed>>
  PROVE  HeadReady' /\ InvReady' /\ EveryNoticeSigned' /\ NeverEscalatedEarly'
<1>1. Grows
  BY DEF IInv, TypeOK, Grows
<1>2. HeadReady'
  BY <1>1, HeadKept DEF IInv
<1>3. InvReady'
  <2> DEFINE v == [pc |-> pc]
  <2>1. inv' = [inv EXCEPT ![r] = v] /\ v.pc \notin Private
    BY DEF Goto
  <2> HIDE DEF v
  <2> QED
    BY <1>1, <2>1, InvUpdate DEF IInv
<1> QED
  BY <1>2, <1>3, NoticesKept, IncidentsKept DEF IInv

\* A node's return, when its update justifies the node its route leads to.
LEMMA ReturnReady ==
  ASSUME IInv, NEW r \in Requests, NEW ch, NEW next, Return(r, ch, next),
         UNCHANGED <<head, clock>>, signed \subseteq signed',
         Ready(next, ch, signed', clock)
  PROVE  HeadReady' /\ InvReady'
<1>1. Grows
  BY DEF IInv, TypeOK, Grows
<1>2. HeadReady'
  BY <1>1, HeadKept DEF IInv
<1>3. InvReady'
  <2> DEFINE v == [pc |-> "saving", node |-> next, base |-> [by |-> r, at |-> inv[r].node],
                   fresh |-> FALSE, polled |-> FALSE, ch |-> ch]
  <2>1. inv' = [inv EXCEPT ![r] = v] /\ v.node = next /\ v.ch = ch
    BY DEF Return
  <2> HIDE DEF v
  <2> QED
    BY <1>1, <2>1, InvUpdate DEF IInv
<1> QED
  BY <1>2, <1>3

\* An invocation that pauses leaves the head at its gate.
LEMMA PauseReady ==
  ASSUME IInv, NEW r \in Requests, NEW p \in BOOLEAN, inv[r].pc = "running", Pause(r, p),
         UNCHANGED <<clock, signed>>
  PROVE  HeadReady' /\ InvReady'
<1>1. Grows
  BY DEF IInv, TypeOK, Grows
<1>2. head \in Checkpoint /\ head # NoRun
  BY ActiveHasRun, NoRunIsNoCheckpoint DEF IInv, Active
<1>3. head'.next = head.next /\ head'.ch = head.ch
  BY <1>2 DEF Pause, Checkpoint
<1>4. HeadReady'
  BY <1>1, <1>2, <1>3, HeadKept DEF IInv
<1>5. InvReady'
  <2> DEFINE v == IF r.op = "timer" THEN Idle ELSE [pc |-> "done"]
  <2>1. inv' = [inv EXCEPT ![r] = v] /\ v.pc \notin Private
    BY DEF Pause, Idle, Private
  <2> HIDE DEF v
  <2> QED
    BY <1>1, <2>1, InvUpdate DEF IInv
<1> QED
  BY <1>4, <1>5

\* The node an invocation runs is one its channels justify.
LEMMA RunningReady ==
  ASSUME IInv, NEW r \in Requests, NEW node, Running(r, node)
  PROVE  /\ Ready(node, inv[r].ch, signed, clock)
         /\ inv[r].ch \in Channels /\ inv[r].fresh \in BOOLEAN /\ inv[r].polled \in BOOLEAN
         /\ inv[r].pc = "running"
  BY RunningTyped DEF IInv, InvReady, Running, Private

\* One more entry at the end of a history.
LEMMA Appended ==
  ASSUME NEW S, NEW s \in Seq(S), NEW e \in S, NEW i \in DOMAIN Append(s, e)
  PROVE  \/ i \in DOMAIN s /\ Append(s, e)[i] = s[i]
         \/ Append(s, e)[i] = e
  OBVIOUS

-----------------------------------------------------------------------------
(* The strengthening is inductive.                                         *)

\* Every step of the endpoints and of the runtime keeps what is ready.
LEMMA RequestStepsReady ==
  ASSUME IInv, NEW r \in Requests,
         \/ StartRun(r) \/ RequirePendingNode(r) \/ InternalSlaCheck(r) \/ PolicyCheck(r)
         \/ UpdateState(r) \/ Invoke(r) \/ Save(r) \/ RejectPayload(r) \/ Fault(r)
  PROVE  HeadReady' /\ InvReady' /\ EveryNoticeSigned' /\ NeverEscalatedEarly'
<1>0. /\ Grows
      /\ UNCHANGED <<clock, notices, incidents, signed>>
  BY DEF IInv, TypeOK, Grows, StartRun, RequirePendingNode, InternalSlaCheck, PolicyCheck,
         UpdateState, Invoke, Save, RejectPayload, Fault, world
<1>1. EveryNoticeSigned' /\ NeverEscalatedEarly'
  BY <1>0, NoticesKept, IncidentsKept DEF IInv
<1>2. CASE StartRun(r)
  <2> DEFINE c == NewChannels(r)
             v == [pc |-> "running", node |-> "compute_exposure",
                   base |-> [by |-> r, at |-> "input"],
                   fresh |-> FALSE, polled |-> FALSE, ch |-> c]
  <2>1. Ready("compute_exposure", c, signed', clock')
    BY DEF Ready, NewChannels
  <2>2. /\ inv' = [inv EXCEPT ![r] = v] /\ v.node = "compute_exposure" /\ v.ch = c
        /\ head'.next = "compute_exposure" /\ head'.ch = c
    BY <1>2 DEF StartRun
  <2> HIDE DEF c, v
  <2>3. InvReady'
    BY <1>0, <2>1, <2>2, InvUpdate DEF IInv
  <2> QED
    BY <1>1, <2>1, <2>2, <2>3 DEF HeadReady
<1>3. CASE RequirePendingNode(r) \/ InternalSlaCheck(r) \/ PolicyCheck(r)
  <2>1. PICK pc \in {"checked", "refused", "done"} : Goto(r, pc)
    BY <1>3 DEF RequirePendingNode, InternalSlaCheck, PolicyCheck
  <2>2. UNCHANGED head
    BY <1>3 DEF RequirePendingNode, InternalSlaCheck, PolicyCheck
  <2> QED
    BY <1>0, <2>1, <2>2, RestReady DEF Private
<1>4. CASE RejectPayload(r) \/ Fault(r)
  <2>1. PICK pc \in {"idle", "failed"} : Goto(r, pc)
    BY <1>4 DEF RejectPayload, Fault
  <2>2. UNCHANGED head
    BY <1>4 DEF RejectPayload, Fault
  <2> QED
    BY <1>0, <2>1, <2>2, RestReady DEF Private
<1>5. CASE UpdateState(r)
  <2>1. head \in Checkpoint /\ head # NoRun
    BY <1>5, ActiveHasRun, NoRunIsNoCheckpoint DEF IInv, UpdateState, Active
  <2> DEFINE c == [head.ch EXCEPT !.trigger = r, !.updated_by = @ \cup {r}]
             v == [pc |-> "stamped"]
  <2>2. Ready("compute_exposure", c, signed, clock)
    BY <2>1 DEF IInv, HeadReady, Ready, Checkpoint, Channels
  <2>3. /\ inv' = [inv EXCEPT ![r] = v] /\ v.pc \notin Private
        /\ head'.next = "compute_exposure" /\ head'.ch = c
    BY <1>5 DEF UpdateState, Goto, Private
  <2> HIDE DEF c, v
  <2>4. InvReady'
    BY <1>0, <2>3, InvUpdate DEF IInv
  <2> QED
    BY <1>0, <1>1, <2>2, <2>3, <2>4 DEF HeadReady
<1>6. CASE Invoke(r)
  <2>1. UNCHANGED head /\ head # NoRun
    BY <1>6, ActiveHasRun, NoRunIsNoCheckpoint DEF IInv, Invoke, Active
  <2>2. CASE Goto(r, "done")
    BY <1>0, <2>1, <2>2, RestReady DEF Private
  <2>3. CASE ~Goto(r, "done")
    <3> DEFINE v == [pc |-> "running", node |-> head.next, base |-> head.tag,
                     fresh |-> r.op \in ResumeOps, polled |-> head.polled, ch |-> head.ch]
    <3>1. inv' = [inv EXCEPT ![r] = v] /\ v.node = head.next /\ v.ch = head.ch
      BY <1>6, <2>3 DEF Invoke
    <3> HIDE DEF v
    <3>2. Ready(head.next, head.ch, signed', clock')
      BY <1>0, <2>1 DEF IInv, HeadReady
    <3>3. InvReady'
      BY <1>0, <3>1, <3>2, InvUpdate DEF IInv
    <3> QED
      BY <1>0, <1>1, <2>1, <3>3, HeadKept DEF IInv
  <2> QED
    BY <2>2, <2>3
<1>7. CASE Save(r)
  <2>1. inv[r] \in Invocation("saving") /\ inv[r].pc \in Private
    BY <1>7, InvocationTyped DEF Save, IInv, TypeOK, Private
  <2>2. Ready(inv[r].node, inv[r].ch, signed', clock')
    BY <1>0, <2>1 DEF IInv, InvReady
  <2> DEFINE v == IF inv[r].node = END THEN [pc |-> "done"] ELSE [inv[r] EXCEPT !.pc = "running"]
  <2>3. inv' = [inv EXCEPT ![r] = v] /\ head'.next = inv[r].node /\ head'.ch = inv[r].ch
    BY <1>7 DEF Save, IInv, TypeOK
  <2>4. v.pc \in Private => v.node = inv[r].node /\ v.ch = inv[r].ch
    BY <2>1 DEF Invocation, Private
  <2> HIDE DEF v
  <2>5. InvReady'
    BY <1>0, <2>2, <2>3, <2>4, InvUpdate DEF IInv
  <2> QED
    BY <1>1, <2>2, <2>3, <2>5 DEF HeadReady
<1> QED
  BY <1>2, <1>3, <1>4, <1>5, <1>6, <1>7

\* A signature gate: a pause changes nothing, and an answer is one the
\* update's lemma (ApprovalReady, ManagerReady) is about.
LEMMA GateReady ==
  ASSUME IInv, NEW r \in Requests, NEW gate, NEW key, NEW amount, NEW answered, NEW next,
         Gate(r, gate, key, amount, answered, next),
         Answers(r, gate) =>
           Ready(next, answered,
                 IF r.decision = "rejected" THEN signed
                 ELSE signed \cup {[gate |-> gate, by |-> r, amount |-> Effective(answered)]},
                 clock)
  PROVE  HeadReady' /\ InvReady' /\ EveryNoticeSigned' /\ NeverEscalatedEarly'
<1>1. /\ inv[r].pc = "running" /\ signed \subseteq signed'
      /\ UNCHANGED <<clock, notices, incidents>>
  BY DEF Gate, Running
<1>2. EveryNoticeSigned' /\ NeverEscalatedEarly'
  BY <1>1, NoticesKept, IncidentsKept DEF IInv
<1>3. CASE Answers(r, gate) /\ Return(r, answered, next) /\ UNCHANGED head
           /\ signed' = IF r.decision = "rejected" THEN signed
                        ELSE signed \cup {[gate |-> gate, by |-> r, amount |-> Effective(answered)]}
  <2>1. Ready(next, answered, signed', clock)
    BY <1>3
  <2> QED
    BY <1>1, <1>2, <1>3, <2>1, ReturnReady
<1>4. CASE Pause(r, FALSE) /\ UNCHANGED signed
  BY <1>1, <1>2, <1>4, PauseReady
<1> QED
  BY <1>3, <1>4 DEF Gate

\* So does every node.
LEMMA NodeStepsReady ==
  ASSUME IInv, NEW r \in Requests
  PROVE  /\ \/ ComputeExposure(r) \/ FetchCsaTerms(r) \/ EvaluateBreach(r)
            \/ AwaitApproval(r) \/ AwaitManagerApproval(r) \/ SendNotification(r)
            \/ AwaitSlaResponse(r) \/ SendSlaMetNotification(r) \/ Escalate(r)
         => HeadReady' /\ InvReady' /\ EveryNoticeSigned' /\ NeverEscalatedEarly'
<1> DEFINE c == inv[r].ch
           Goal == HeadReady' /\ InvReady' /\ EveryNoticeSigned' /\ NeverEscalatedEarly'
<1>0. clock \in Nat
  BY DEF IInv, TypeOK
<1>1. ASSUME ComputeExposure(r) \/ FetchCsaTerms(r) PROVE Goal
  <2>1. PICK node \in {"compute_exposure", "fetch_csa_terms"},
             next \in {"fetch_csa_terms", "evaluate_breach"} :
          Running(r, node) /\ Return(r, c, next)
    BY <1>1 DEF ComputeExposure, FetchCsaTerms
  <2>2. UNCHANGED <<head, clock, notices, incidents, signed>>
    BY <1>1 DEF ComputeExposure, FetchCsaTerms, world
  <2>3. Ready(node, c, signed, clock)
    BY <2>1, RunningReady
  <2>4. Ready(next, c, signed', clock)
    BY <2>1, <2>2, <2>3 DEF Ready
  <2> QED
    BY <2>1, <2>2, <2>4, ReturnReady, NoticesKept, IncidentsKept DEF IInv
<1>2. ASSUME EvaluateBreach(r) PROVE Goal
  <2>1. PICK a \in Amounts \cup {NoCall}, low \in BOOLEAN :
          LET ch == [c EXCEPT !.amount = a, !.below_mta = low]
          IN  Return(r, ch, RouteAfterBreach(ch))
    BY <1>2 DEF EvaluateBreach
  <2> DEFINE ch == [c EXCEPT !.amount = a, !.below_mta = low]
  <2>2. Running(r, "evaluate_breach") /\ UNCHANGED <<head, clock, notices, incidents, signed>>
    BY <1>2 DEF EvaluateBreach, world
  <2>3. c \in Channels /\ Ready("evaluate_breach", c, signed, clock)
    BY <2>2, RunningReady
  <2>4. Ready(RouteAfterBreach(ch), ch, signed, clock)
    BY <2>3, BreachReady
  <2>5. Return(r, ch, RouteAfterBreach(ch))
    BY <2>1
  <2> HIDE DEF ch
  <2> QED
    BY <2>2, <2>4, <2>5, ReturnReady, NoticesKept, IncidentsKept DEF IInv
<1>3. ASSUME AwaitApproval(r) PROVE Goal
  <2> DEFINE ch == ApprovalUpdate(c, r)
             key == <<"approval_requested", c.trigger>>
  <2>1. Gate(r, "await_approval", key, c.amount, ch, RouteAfterApproval(ch))
    BY <1>3 DEF AwaitApproval
  <2>2. c \in Channels /\ Ready("await_approval", c, signed, clock)
    BY <2>1, RunningReady DEF Gate
  <2>3. Answers(r, "await_approval") =>
          Ready(RouteAfterApproval(ch), ch,
                IF r.decision = "rejected" THEN signed
                ELSE signed \cup {[gate |-> "await_approval", by |-> r, amount |-> Effective(ch)]},
                clock)
    <3>1. Answers(r, "await_approval") => r.op \in {"approve", "manager"}
      BY DEF Answers
    <3> QED
      BY <2>2, <3>1, ApprovalReady
  <2> HIDE DEF ch, key, c
  <2> QED
    BY <2>1, <2>3, GateReady
<1>4. ASSUME AwaitManagerApproval(r) PROVE Goal
  <2> DEFINE ch == ManagerUpdate(c, r)
             key == <<"manager_approval_requested">>
  <2>1. Gate(r, "await_manager_approval", key, Effective(c), ch, RouteAfterManagerApproval(ch))
    BY <1>4 DEF AwaitManagerApproval
  <2>2. c \in Channels /\ Ready("await_manager_approval", c, signed, clock)
    BY <2>1, RunningReady DEF Gate
  <2>3. Answers(r, "await_manager_approval") =>
          Ready(RouteAfterManagerApproval(ch), ch,
                IF r.decision = "rejected" THEN signed
                ELSE signed \cup {[gate |-> "await_manager_approval", by |-> r,
                                   amount |-> Effective(ch)]},
                clock)
    <3>1. Answers(r, "await_manager_approval") => r.decision \in {"approved", "rejected"}
      BY DEF Answers
    <3> QED
      BY <2>2, <3>1, ManagerReady
  <2> HIDE DEF ch, key, c
  <2> QED
    BY <2>1, <2>3, GateReady
<1>5. ASSUME SendNotification(r) PROVE Goal
  <2>1. Running(r, "send_notification") /\ UNCHANGED <<head, clock, incidents, signed>>
    BY <1>5 DEF SendNotification
  <2>2. c \in Channels /\ Ready("send_notification", c, signed, clock)
    BY <2>1, RunningReady
  <2> DEFINE e == [at |-> clock, ch |-> c]
  <2>3. PICK ch \in {SentUpdate(c), FailedSendUpdate(c)} :
          /\ Return(r, ch, RouteAfterSend(ch))
          /\ UNCHANGED notices \/ notices' = Append(notices, e)
    BY <1>5 DEF SendNotification
  <2>4. Ready(RouteAfterSend(ch), ch, signed, clock)
    BY <1>0, <2>2, <2>3, SendReady
  <2>5. HeadReady' /\ InvReady'
    BY <2>1, <2>3, <2>4, ReturnReady
  <2>6. e \in EventType /\ notices \in Seq(EventType) /\ e.ch = c
    BY <1>0, <2>2 DEF EventType, IInv, TypeOK
  <2> HIDE DEF e, c
  <2>7. NoticeReady(e.ch, signed)
    BY <2>2, <2>6 DEF Ready
  <2>8. EveryNoticeSigned'
    <3>1. CASE UNCHANGED notices
      BY <2>1, <3>1, NoticesKept DEF IInv
    <3>2. CASE notices' = Append(notices, e)
      <4> SUFFICES ASSUME NEW i \in DOMAIN notices'
                   PROVE  NoticeReady(notices'[i].ch, signed')
        BY DEF EveryNoticeSigned, NoticeReady, SignedAt, SignedIn
      <4>1. CASE i \in DOMAIN notices /\ notices'[i] = notices[i]
        BY <2>1, <4>1 DEF IInv, EveryNoticeSigned, NoticeReady, SignedAt, SignedIn
      <4>2. CASE notices'[i] = e
        BY <2>1, <2>7, <4>2
      <4> QED
        BY <2>6, <3>2, <4>1, <4>2, Appended
    <3> QED
      BY <2>3, <3>1, <3>2
  <2> QED
    BY <2>1, <2>5, <2>8, IncidentsKept DEF IInv
<1>6. ASSUME AwaitSlaResponse(r) PROVE Goal
  <2>1. /\ Running(r, "await_sla_response")
        /\ UNCHANGED <<clock, notices, incidents, signed>>
    BY <1>6 DEF AwaitSlaResponse
  <2>2. /\ c \in Channels /\ Ready("await_sla_response", c, signed, clock)
        /\ inv[r].fresh \in BOOLEAN /\ inv[r].polled \in BOOLEAN /\ inv[r].pc = "running"
    BY <2>1, RunningReady
  <2>3. HeadReady' /\ InvReady'
    <3>1. CASE SlaResolves(c, r, inv[r].fresh, inv[r].polled)
      <4> DEFINE ch == SlaOutcome(c, r, inv[r].polled)
      <4>1. Return(r, ch, RouteAfterSla(ch)) /\ UNCHANGED head
        BY <1>6, <3>1 DEF AwaitSlaResponse
      <4>2. Ready(RouteAfterSla(ch), ch, signed, clock)
        BY <1>0, <2>2, <3>1, SlaReady
      <4> HIDE DEF ch
      <4> QED
        BY <2>1, <4>1, <4>2, ReturnReady
    <3>2. CASE ~SlaResolves(c, r, inv[r].fresh, inv[r].polled)
      <4>1. PICK p \in BOOLEAN : Pause(r, p)
        BY <1>6, <2>2, <3>2 DEF AwaitSlaResponse
      <4> QED
        BY <2>1, <2>2, <4>1, PauseReady
    <3> QED
      BY <3>1, <3>2
  <2> QED
    BY <2>1, <2>3, NoticesKept, IncidentsKept DEF IInv
<1>7. ASSUME SendSlaMetNotification(r) PROVE Goal
  <2> DEFINE ch == [c EXCEPT !.confirmed = TRUE]
  <2>1. /\ Running(r, "send_sla_met_notification") /\ Return(r, ch, END)
        /\ UNCHANGED <<head, clock, notices, incidents, signed>>
    BY <1>7 DEF SendSlaMetNotification
  <2>2. c \in Channels /\ Ready("send_sla_met_notification", c, signed, clock)
    BY <2>1, RunningReady
  <2>3. Ready(END, ch, signed, clock)
    BY <2>2 DEF Ready, Channels, END
  <2> HIDE DEF ch
  <2> QED
    BY <2>1, <2>3, ReturnReady, NoticesKept, IncidentsKept DEF IInv
<1>8. ASSUME Escalate(r) PROVE Goal
  <2> DEFINE ch == [c EXCEPT !.escalated = TRUE]
             e == [at |-> clock, ch |-> c]
  <2>1. /\ Running(r, "escalate") /\ Return(r, ch, END)
        /\ incidents' = Append(incidents, e)
        /\ UNCHANGED <<head, clock, notices, signed>>
    BY <1>8 DEF Escalate
  <2>2. c \in Channels /\ Ready("escalate", c, signed, clock)
    BY <2>1, RunningReady
  <2>3. Ready(END, ch, signed, clock)
    BY <2>2 DEF Ready, Channels, END
  <2>4. e \in EventType /\ incidents \in Seq(EventType) /\ e.ch = c /\ e.at = clock
    BY <1>0, <2>2 DEF EventType, IInv, TypeOK
  <2> HIDE DEF ch, e, c
  <2>5. HeadReady' /\ InvReady'
    BY <2>1, <2>3, ReturnReady
  <2>6. EscalationDue(e.ch, e.at)
    BY <2>2, <2>4 DEF Ready
  <2>7. NeverEscalatedEarly'
    <3> SUFFICES ASSUME NEW i \in DOMAIN incidents'
                 PROVE  EscalationDue(incidents'[i].ch, incidents'[i].at)
      BY DEF NeverEscalatedEarly, EscalationDue
    <3>1. CASE i \in DOMAIN incidents /\ incidents'[i] = incidents[i]
      BY <3>1 DEF IInv, NeverEscalatedEarly, EscalationDue
    <3>2. CASE incidents'[i] = e
      BY <2>6, <3>2
    <3> QED
      BY <2>1, <2>4, <3>1, <3>2, Appended
  <2> QED
    BY <2>1, <2>5, <2>7, NoticesKept DEF IInv
<1> QED
  BY <1>1, <1>2, <1>3, <1>4, <1>5, <1>6, <1>7, <1>8

-----------------------------------------------------------------------------
(* The theorems.                                                           *)

\* The inductive invariant: where the head and every invocation stand, their
\* signatures, notices and deadlines say so.
THEOREM Inductive == Spec => []IInv
<1>1. Init => HeadReady /\ InvReady /\ EveryNoticeSigned /\ NeverEscalatedEarly
  BY DEF Init, HeadReady, InvReady, EveryNoticeSigned, NeverEscalatedEarly, Idle, Private
<1>2. IInv /\ TypeOK' /\ [Next]_vars =>
        HeadReady' /\ InvReady' /\ EveryNoticeSigned' /\ NeverEscalatedEarly'
  <2> SUFFICES ASSUME IInv, [Next]_vars
               PROVE  HeadReady' /\ InvReady' /\ EveryNoticeSigned' /\ NeverEscalatedEarly'
    OBVIOUS
  <2>1. CASE Tick
    <3>1. /\ Grows /\ UNCHANGED <<head, inv, notices, incidents, signed>>
      BY <2>1 DEF Tick, Grows, IInv, TypeOK
    <3>2. HeadReady'
      BY <3>1, HeadKept DEF IInv
    <3>3. InvReady'
      <4> SUFFICES ASSUME NEW r \in Requests, inv[r].pc \in Private
                   PROVE  Ready(inv[r].node, inv[r].ch, signed', clock')
        BY <3>1 DEF InvReady
      <4>1. inv[r].ch \in Channels
        BY InvocationTyped DEF IInv, TypeOK, Private, Invocation
      <4> QED
        BY <3>1, <4>1, ReadyMonotone DEF IInv, InvReady, Grows, TypeOK
    <3> QED
      BY <3>1, <3>2, <3>3, NoticesKept, IncidentsKept DEF IInv
  <2>2. CASE \E r \in Requests : Step(r) \/ Fault(r)
    <3>1. PICK r \in Requests : Step(r) \/ Fault(r)
      BY <2>2
    <3> QED
      BY <3>1, RequestStepsReady, NodeStepsReady DEF Step
  <2>3. CASE UNCHANGED vars
    BY <2>3 DEF IInv, HeadReady, InvReady, EveryNoticeSigned, SignedAt, NeverEscalatedEarly, vars
  <2> QED
    BY <2>1, <2>2, <2>3 DEF Next
<1> QED
  BY <1>1, <1>2, TypeCorrect, PTL DEF Spec, IInv

\* However requests overlap, fail and are retried: a client is never told a
\* figure that no approver signed, nor an elite client a figure that did not
\* pass the second gate.
THEOREM NoticesAreSigned == Spec => []EveryNoticeSigned
  BY Inductive, PTL DEF IInv

\* No incident is opened while the client could still answer in time, except
\* for a notice that was never delivered.
THEOREM EscalationsAreDue == Spec => []NeverEscalatedEarly
  BY Inductive, PTL DEF IInv


-----------------------------------------------------------------------------
(* What the channels of a run say when it stands before a node.            *)

NotCountersigned(ch) == ch.manager_decision = "none" /\ ch.manager = NoUser
Unsent(ch) == ch.sent_at = 0 /\ ~ch.failure /\ ch.sla = "none" /\ ~ch.escalated /\ ~ch.confirmed
NobodySigned(ch) ==
  ch.decision = "none" /\ ch.adjusted = NoCall /\ ch.first = NoUser /\ NotCountersigned(ch)
Raised(ch) == ch.amount \in Amounts /\ ~ch.below_mta
FirstSigned(ch) == Raised(ch) /\ ch.decision \in {"approved", "adjusted"} /\ ch.first \in Users
AllSigned(ch) ==
  /\ FirstSigned(ch)
  /\ IF Elite THEN ch.manager_decision = "approved" /\ ch.manager \in Users /\ ch.manager # ch.first
              ELSE NotCountersigned(ch)
Closed(ch) ==
  /\ Unsent(ch) /\ ch.amount # Unset
  /\ ch.amount = NoCall \/ ch.below_mta \/ ch.decision \in {"rejected", "disputed"}
Pursued(ch) == AllSigned(ch) /\ ch.sent_at # 0
Met(ch) == Pursued(ch) /\ ch.sla = "met" /\ ~ch.failure /\ ~ch.escalated
Breached(ch) == Pursued(ch) /\ ch.sla = "breached" /\ ~ch.confirmed

Evaluating == {"compute_exposure", "fetch_csa_terms", "evaluate_breach"}

Stands(node, ch) ==
  /\ node \in Evaluating => NobodySigned(ch) /\ Unsent(ch) /\ (Raised(ch) \/ ch.amount = Unset)
  /\ node = "await_approval" => NobodySigned(ch) /\ Unsent(ch) /\ Raised(ch)
  /\ node = "await_manager_approval" => Elite /\ FirstSigned(ch) /\ NotCountersigned(ch) /\ Unsent(ch)
  /\ node = "send_notification" => AllSigned(ch) /\ Unsent(ch)
  /\ node = "await_sla_response" =>
       Pursued(ch) /\ ~ch.failure /\ ch.sla = "none" /\ ~ch.escalated /\ ~ch.confirmed
  /\ node = "send_sla_met_notification" => Met(ch) /\ ~ch.confirmed
  /\ node = "escalate" => Breached(ch) /\ ~ch.escalated
  /\ node = END => \/ Closed(ch)
                   \/ Met(ch) /\ ch.confirmed
                   \/ Breached(ch) /\ ch.escalated

\* What the world was told, by what the channels say of it.
Told(ch, told) ==
  IF ch.sent_at = 0 THEN told = <<>>
  ELSE \/ Len(told) = 1 /\ told[1].at = ch.sent_at
       \/ ch.failure /\ told = <<>>
Opened(ch, opened) == Len(opened) = IF ch.escalated THEN 1 ELSE 0

\* What one node makes of the channels it was given.
SameCall(old, new) ==
  /\ new.amount = old.amount /\ new.decision = old.decision /\ new.adjusted = old.adjusted
  /\ new.first = old.first

Outcome(node, old, next, new, told, now) ==
  /\ node \in {"compute_exposure", "fetch_csa_terms"} => next \in Evaluating /\ new = old
  /\ node = "evaluate_breach" => next \in {"await_approval", END} /\ NobodySigned(new) /\ Unsent(new)
  /\ node = "await_approval" =>
       /\ next \in {"await_manager_approval", "send_notification", END} /\ Unsent(new)
       /\ next = "send_notification" => ~Elite
  /\ node = "await_manager_approval" =>
       /\ next \in {"send_notification", END} /\ Unsent(new)
       /\ next = "send_notification" => SameCall(old, new)
  /\ node = "send_notification" =>
       /\ next \in {"await_sla_response", "escalate"}
       /\ SameCall(old, new) /\ new.manager = old.manager
       /\ next = "escalate" => new.failure /\ told = <<>>
  /\ node = "await_sla_response" =>
       /\ next \in {"send_sla_met_notification", "escalate"}
       /\ SameCall(old, new) /\ new.manager = old.manager /\ new.sent_at = old.sent_at
       /\ next = "escalate" => new.failure \/ now >= Deadline(new)
  /\ node = "send_sla_met_notification" => next = END /\ new = [old EXCEPT !.confirmed = TRUE]
  /\ node = "escalate" => next = END /\ new = [old EXCEPT !.escalated = TRUE]

\* A node's result, before it is saved.
Returns(node, old, next, new, told, opened, now) ==
  /\ Stands(next, new) /\ Told(new, told) /\ Opened(new, opened)
  /\ Outcome(node, old, next, new, told, now)

-----------------------------------------------------------------------------
(* Each node returns that: lemmas free of state.                           *)

\* The channels of an unsent call say that nobody was told of it.
LEMMA UnsentTold ==
  ASSUME NEW ch, NEW told, NEW opened, Unsent(ch)
  PROVE  (Told(ch, told) <=> told = <<>>) /\ (Opened(ch, opened) <=> Len(opened) = 0)
  BY DEF Unsent, Told, Opened

\* evaluate_breach leads to the first gate or to the end of the run.
LEMMA BreachReturns ==
  ASSUME NEW ch \in Channels, NEW a \in Amounts \cup {NoCall}, NEW low \in BOOLEAN,
         NEW told, NEW opened, NEW now,
         Stands("evaluate_breach", ch), Told(ch, told), Opened(ch, opened)
  PROVE  LET new == [ch EXCEPT !.amount = a, !.below_mta = low]
         IN  Returns("evaluate_breach", ch, RouteAfterBreach(new), new, told, opened, now)
<1> DEFINE new == [ch EXCEPT !.amount = a, !.below_mta = low]
<1>1. NobodySigned(ch) /\ Unsent(ch)
  BY DEF Stands, Evaluating
<1>2. NobodySigned(new) /\ Unsent(new) /\ new.amount = a /\ new.below_mta = low
  BY <1>1 DEF NobodySigned, Unsent, NotCountersigned, Channels
<1>3. Told(new, told) /\ Opened(new, opened)
  BY <1>1, <1>2, UnsentTold
<1> HIDE DEF new
<1>4. CASE a \in Amounts /\ ~low
  <2>1. RouteAfterBreach(new) = "await_approval" /\ Raised(new)
    BY <1>2, <1>4 DEF RouteAfterBreach, Raised
  <2> QED
    BY <1>2, <1>3, <2>1 DEF new, Returns, Stands, Outcome, Evaluating, END
<1>5. CASE ~(a \in Amounts /\ ~low)
  <2>1. RouteAfterBreach(new) = END /\ Closed(new)
    BY <1>2, <1>5, ValuesAssumption DEF RouteAfterBreach, Closed
  <2> QED
    BY <1>2, <1>3, <2>1 DEF new, Returns, Stands, Outcome, Evaluating, END
<1> QED
  BY <1>4, <1>5

\* await_approval, answered at its own endpoint.
LEMMA ApprovalReturns ==
  ASSUME NEW ch \in Channels, NEW r \in Requests, r.op = "approve",
         NEW told, NEW opened, NEW now,
         Stands("await_approval", ch), Told(ch, told), Opened(ch, opened)
  PROVE  LET new == ApprovalUpdate(ch, r)
         IN  Returns("await_approval", ch, RouteAfterApproval(new), new, told, opened, now)
<1> DEFINE new == ApprovalUpdate(ch, r)
           a == IF r.decision = "adjusted" THEN r.amount ELSE NoCall
<1>1. NobodySigned(ch) /\ Unsent(ch) /\ Raised(ch)
  BY DEF Stands, Evaluating
<1>2. r.by \in Users /\ r.decision \in {"approved", "adjusted", "rejected"}
  BY SignersAssumption, RequestsAssumption DEF RequestType
<1>3. /\ new.decision = r.decision /\ new.first = r.by /\ new.amount = ch.amount
      /\ new.below_mta = ch.below_mta
      /\ NotCountersigned(new) /\ Unsent(new)
  <2>1. new = [ch EXCEPT !.decision = r.decision, !.adjusted = a, !.first = r.by]
    BY DEF ApprovalUpdate
  <2> HIDE DEF new, a
  <2> QED
    BY <1>1, <2>1 DEF NobodySigned, Unsent, NotCountersigned, Channels
<1>4. Told(new, told) /\ Opened(new, opened)
  BY <1>1, <1>3, UnsentTold
<1> HIDE DEF new
<1>5. CASE r.decision = "rejected"
  <2>1. RouteAfterApproval(new) = END /\ Closed(new)
    BY <1>1, <1>3, <1>5, ValuesAssumption DEF RouteAfterApproval, Closed, Raised
  <2> QED
    BY <1>3, <1>4, <2>1 DEF new, Returns, Stands, Outcome, Evaluating, END
<1>6. CASE r.decision # "rejected"
  <2>1. FirstSigned(new)
    BY <1>1, <1>2, <1>3, <1>6 DEF FirstSigned, Raised
  <2>2. CASE Elite
    <3>1. RouteAfterApproval(new) = "await_manager_approval"
      BY <1>2, <1>3, <1>6, <2>2 DEF RouteAfterApproval
    <3> QED
      BY <1>3, <1>4, <2>1, <2>2, <3>1 DEF new, Returns, Stands, Outcome, Evaluating, END
  <2>3. CASE ~Elite
    <3>1. RouteAfterApproval(new) = "send_notification" /\ AllSigned(new)
      BY <1>2, <1>3, <1>6, <2>1, <2>3 DEF RouteAfterApproval, AllSigned
    <3> QED
      BY <1>3, <1>4, <2>3, <3>1 DEF new, Returns, Stands, Outcome, Evaluating, END
  <2> QED
    BY <2>2, <2>3
<1> QED
  BY <1>5, <1>6

\* await_manager_approval, answered by a second person at its own endpoint.
LEMMA ManagerReturns ==
  ASSUME NEW ch \in Channels, NEW r \in Requests, r.op = "manager", ch.first # r.by,
         NEW told, NEW opened, NEW now,
         Stands("await_manager_approval", ch), Told(ch, told), Opened(ch, opened)
  PROVE  LET new == ManagerUpdate(ch, r)
         IN  Returns("await_manager_approval", ch, RouteAfterManagerApproval(new), new,
                     told, opened, now)
<1> DEFINE new == ManagerUpdate(ch, r)
           d == IF r.decision = "rejected" THEN "disputed" ELSE ch.decision
<1>1. Elite /\ FirstSigned(ch) /\ NotCountersigned(ch) /\ Unsent(ch)
  BY DEF Stands, Evaluating
<1>2. r.by \in Users /\ r.decision \in {"approved", "rejected"}
  BY SignersAssumption, RequestsAssumption DEF RequestType
<1>3. /\ new.decision = d /\ new.manager_decision = r.decision /\ new.manager = r.by
      /\ new.first = ch.first /\ new.amount = ch.amount /\ new.adjusted = ch.adjusted
      /\ new.below_mta = ch.below_mta /\ Unsent(new)
  <2>1. new = [ch EXCEPT !.manager_decision = r.decision, !.manager = r.by, !.decision = d]
    BY DEF ManagerUpdate
  <2> HIDE DEF new, d
  <2> QED
    BY <1>1, <2>1 DEF Unsent, Channels
<1>4. Told(new, told) /\ Opened(new, opened)
  BY <1>1, <1>3, UnsentTold
<1> HIDE DEF new
<1>5. CASE r.decision = "rejected"
  <2>1. RouteAfterManagerApproval(new) = END /\ Closed(new)
    BY <1>1, <1>3, <1>5, ValuesAssumption DEF RouteAfterManagerApproval, Closed, FirstSigned, Raised
  <2> QED
    BY <1>3, <1>4, <2>1 DEF new, Returns, Stands, Outcome, Evaluating, END
<1>6. CASE r.decision = "approved"
  <2>1. RouteAfterManagerApproval(new) = "send_notification" /\ SameCall(ch, new)
    BY <1>3, <1>6 DEF RouteAfterManagerApproval, SameCall
  <2>2. AllSigned(new)
    BY <1>1, <1>2, <1>3, <1>6 DEF AllSigned, FirstSigned, Raised
  <2> QED
    BY <1>3, <1>4, <2>1, <2>2 DEF new, Returns, Stands, Outcome, Evaluating, END
<1> QED
  BY <1>2, <1>5, <1>6

\* send_notification: the notice is out, or bounced and the client was told nothing.
LEMMA SendReturns ==
  ASSUME NEW ch \in Channels, clock \in Nat, clock >= 1, NEW told, NEW opened, NEW e, e.at = clock,
         Stands("send_notification", ch), Told(ch, told), Opened(ch, opened)
  PROVE  LET sent == SentUpdate(ch)
             failed == FailedSendUpdate(ch)
         IN  /\ Returns("send_notification", ch, RouteAfterSend(sent), sent,
                        Append(told, e), opened, clock)
             /\ Returns("send_notification", ch, RouteAfterSend(failed), failed,
                        told, opened, clock)
<1> DEFINE sent == SentUpdate(ch)
           failed == FailedSendUpdate(ch)
<1>1. AllSigned(ch) /\ Unsent(ch)
  BY DEF Stands, Evaluating
<1>2. told = <<>> /\ Len(opened) = 0
  BY <1>1, UnsentTold
<1>3. /\ SameCall(ch, sent) /\ sent.manager = ch.manager /\ AllSigned(sent)
      /\ sent.sent_at = clock /\ ~sent.failure /\ sent.sla = "none"
      /\ ~sent.escalated /\ ~sent.confirmed
  BY <1>1 DEF SentUpdate, Channels, SameCall, Unsent, AllSigned, FirstSigned, Raised, NotCountersigned
<1>4. /\ SameCall(ch, failed) /\ failed.manager = ch.manager /\ AllSigned(failed)
      /\ failed.sent_at = clock /\ failed.failure /\ failed.sla = "breached"
      /\ ~failed.escalated /\ ~failed.confirmed
  BY <1>1 DEF FailedSendUpdate, Channels, SameCall, Unsent, AllSigned, FirstSigned, Raised,
     NotCountersigned
<1>5. Len(Append(told, e)) = 1 /\ Append(told, e)[1].at = clock
  BY <1>2
<1> HIDE DEF sent, failed
<1>6. Returns("send_notification", ch, RouteAfterSend(sent), sent, Append(told, e), opened, clock)
  <2>1. RouteAfterSend(sent) = "await_sla_response"
    BY <1>3 DEF RouteAfterSend
  <2>2. Told(sent, Append(told, e)) /\ Opened(sent, opened)
    BY <1>2, <1>3, <1>5 DEF Told, Opened
  <2> QED
    BY <1>3, <2>1, <2>2 DEF Returns, Stands, Outcome, Pursued, Evaluating, END
<1>7. Returns("send_notification", ch, RouteAfterSend(failed), failed, told, opened, clock)
  <2>1. RouteAfterSend(failed) = "escalate"
    BY <1>4 DEF RouteAfterSend
  <2>2. Told(failed, told) /\ Opened(failed, opened)
    BY <1>2, <1>4 DEF Told, Opened
  <2> QED
    BY <1>2, <1>4, <2>1, <2>2 DEF Returns, Stands, Outcome, Pursued, Breached, Evaluating, END
<1> QED
  BY <1>6, <1>7 DEF sent, failed

\* await_sla_response: met, or breached by the deadline or by a failed delivery.
LEMMA SlaReturns ==
  ASSUME NEW ch \in Channels, NEW r \in Requests, clock \in Nat, NEW told, NEW opened,
         NEW fresh \in BOOLEAN, NEW polled \in BOOLEAN, SlaResolves(ch, r, fresh, polled),
         Stands("await_sla_response", ch), Told(ch, told), Opened(ch, opened)
  PROVE  LET new == SlaOutcome(ch, r, polled)
         IN  Returns("await_sla_response", ch, RouteAfterSla(new), new, told, opened, clock)
<1> DEFINE new == SlaOutcome(ch, r, polled)
<1>1. Pursued(ch) /\ ~ch.failure /\ ch.sla = "none" /\ ~ch.escalated /\ ~ch.confirmed
  BY DEF Stands, Evaluating
<1>2. /\ SameCall(ch, new) /\ new.manager = ch.manager /\ new.sent_at = ch.sent_at /\ Pursued(new)
      /\ ~new.escalated /\ ~new.confirmed
      /\ \/ new.sla = "met" /\ ~new.failure
         \/ new.sla = "breached" /\ (new.failure \/ clock >= Deadline(new))
  BY <1>1 DEF SlaOutcome, SlaResolves, Late, Deadline, Channels, SameCall, Pursued, AllSigned,
     FirstSigned, Raised, NotCountersigned
<1>3. Told(new, told) /\ Opened(new, opened)
  BY <1>1, <1>2 DEF Told, Opened, Pursued
<1> HIDE DEF new
<1>4. CASE new.sla = "met"
  <2>1. RouteAfterSla(new) = "send_sla_met_notification"
    BY <1>4 DEF RouteAfterSla
  <2> QED
    BY <1>2, <1>3, <1>4, <2>1 DEF new, Returns, Stands, Outcome, Met, Evaluating, END
<1>5. CASE new.sla = "breached"
  <2>1. RouteAfterSla(new) = "escalate"
    BY <1>5 DEF RouteAfterSla
  <2> QED
    BY <1>2, <1>3, <1>5, <2>1 DEF new, Returns, Stands, Outcome, Breached, Evaluating, END
<1> QED
  BY <1>2, <1>4, <1>5

\* The last nodes end the run; an escalation has its incident.
LEMMA LastReturns ==
  ASSUME NEW ch \in Channels, NEW told, NEW opened \in Seq(EventType), NEW e \in EventType, NEW now,
         Told(ch, told), Opened(ch, opened)
  PROVE  /\ Stands("send_sla_met_notification", ch) =>
              Returns("send_sla_met_notification", ch, END, [ch EXCEPT !.confirmed = TRUE],
                      told, opened, now)
         /\ Stands("escalate", ch) =>
              Returns("escalate", ch, END, [ch EXCEPT !.escalated = TRUE],
                      told, Append(opened, e), now)
<1>1. ASSUME Stands("send_sla_met_notification", ch)
      PROVE  Returns("send_sla_met_notification", ch, END, [ch EXCEPT !.confirmed = TRUE],
                     told, opened, now)
  <2> DEFINE new == [ch EXCEPT !.confirmed = TRUE]
  <2>1. Met(ch) /\ ~ch.confirmed
    BY <1>1 DEF Stands, Evaluating
  <2>2. Met(new) /\ new.confirmed /\ Told(new, told) /\ Opened(new, opened)
    BY <2>1 DEF Met, Pursued, AllSigned, FirstSigned, Raised, NotCountersigned, Told, Opened, Channels
  <2> HIDE DEF new
  <2> QED
    BY <2>2 DEF new, Returns, Stands, Outcome, Evaluating, END
<1>2. ASSUME Stands("escalate", ch)
      PROVE  Returns("escalate", ch, END, [ch EXCEPT !.escalated = TRUE],
                     told, Append(opened, e), now)
  <2> DEFINE new == [ch EXCEPT !.escalated = TRUE]
  <2>1. Breached(ch) /\ ~ch.escalated
    BY <1>2 DEF Stands, Evaluating
  <2>2. Breached(new) /\ new.escalated /\ Told(new, told)
    BY <2>1 DEF Breached, Pursued, AllSigned, FirstSigned, Raised, NotCountersigned, Told, Channels
  <2>3. Opened(new, Append(opened, e))
    BY <2>1, <2>2 DEF Opened
  <2> HIDE DEF new
  <2> QED
    BY <2>2, <2>3 DEF new, Returns, Stands, Outcome, Evaluating, END
<1> QED
  BY <1>1, <1>2

-----------------------------------------------------------------------------
(* The strengthening: the head stands where its channels say, the world    *)
(* knows what they say, and the one request under way is at the head.      *)

HeadStands == head # NoRun => Stands(head.next, head.ch) /\ (head.paused => head.next \in Gates)

\* The two nodes with an effect may have had it and lost their checkpoint.
WorldAgrees ==
  IF head = NoRun THEN notices = <<>> /\ incidents = <<>>
  ELSE /\ Len(notices) <= 1 /\ Len(incidents) <= 1
       /\ head.next # "send_notification" => Told(head.ch, notices)
       /\ head.next # "escalate" => Opened(head.ch, incidents)

MayAnswer(r) ==
  r.op \in ResumeOps /\ Pending(GateOf(r.op)) /\ (r.op = "manager" => head.ch.first # r.by)

Sound(r) ==
  /\ inv[r].pc = "checked" =>
       IF r.op = "reevaluate" THEN OpenCallStage(head.ch) = "awaiting_approval" ELSE MayAnswer(r)
  /\ inv[r].pc = "stamped" =>
       r.op = "reevaluate" /\ head.next = "compute_exposure" /\ ~head.paused
  /\ inv[r].pc = "running" =>
       /\ inv[r].node = head.next /\ inv[r].node # END
       /\ inv[r].base = head.tag /\ inv[r].ch = head.ch
       /\ Told(head.ch, notices) /\ Opened(head.ch, incidents)
       /\ IF inv[r].fresh THEN MayAnswer(r) ELSE ~head.paused
  /\ inv[r].pc = "saving" =>
       /\ Returns(head.next, head.ch, inv[r].node, inv[r].ch, notices, incidents, clock)
       /\ ~inv[r].fresh /\ head.next # END

AllSound == \A r \in Requests : Sound(r)

SerialInv == HeadStands /\ WorldAgrees /\ OneAtATime /\ AllSound /\ clock >= 1

\* One request moves and no other is under way, before and after.
LEMMA OthersRest ==
  ASSUME TypeOK, OneAtATime, OneAtATime', NEW r \in Requests, NEW v, inv' = [inv EXCEPT ![r] = v],
         inv[r].pc \in Active \/ v.pc \in Active, Sound(r)'
  PROVE  AllSound'
<1> SUFFICES ASSUME NEW q \in Requests, q # r PROVE Sound(q)'
  BY DEF AllSound
<1>1. inv'[r] = v /\ inv'[q] = inv[q]
  BY DEF TypeOK
<1>2. inv'[q].pc \notin Active
  <2>1. CASE inv[r].pc \in Active
    BY <1>1, <2>1 DEF OneAtATime
  <2>2. CASE v.pc \in Active
    BY <1>1, <2>2 DEF OneAtATime
  <2> QED
    BY <2>1, <2>2
<1> QED
  BY <1>2 DEF Sound, Active

\* A request comes to rest and nothing else changes.
LEMMA ComesToRest ==
  ASSUME TypeOK, SerialInv, OneAtATime', NEW r \in Requests, NEW pc, pc \notin Active, Goto(r, pc),
         UNCHANGED <<head, clock, notices, incidents>>
  PROVE  SerialInv'
<1>1. HeadStands' /\ WorldAgrees'
  BY DEF SerialInv, HeadStands, WorldAgrees
<1>2. AllSound'
  <2> SUFFICES ASSUME NEW q \in Requests PROVE Sound(q)'
    BY DEF AllSound
  <2>1. CASE q = r
    BY <2>1 DEF Goto, TypeOK, Sound, Active
  <2>2. CASE q # r
    <3>1. inv'[q] = inv[q]
      BY <2>2 DEF Goto, TypeOK
    <3>2. Sound(q) /\ (MayAnswer(q) => MayAnswer(q)')
      BY DEF SerialInv, AllSound, MayAnswer, Pending
    <3> QED
      BY <3>1, <3>2 DEF Sound
  <2> QED
    BY <2>1, <2>2
<1> QED
  BY <1>1, <1>2 DEF SerialInv

\* A node returns: the head is as it was, the result is one of the node's.
LEMMA ReturnSerial ==
  ASSUME TypeOK, SerialInv, OneAtATime', NEW r \in Requests, NEW node, Running(r, node),
         NEW ch, NEW next, Return(r, ch, next), UNCHANGED <<head, clock>>,
         Len(notices') <= 1, Len(incidents') <= 1,
         node # "send_notification" => UNCHANGED notices,
         node # "escalate" => UNCHANGED incidents,
         Returns(node, head.ch, next, ch, notices', incidents', clock)
  PROVE  SerialInv'
<1>1. /\ inv[r].pc = "running" /\ node = head.next /\ head # NoRun /\ head.next # END
  <2>1. inv[r].pc = "running" /\ inv[r].node = node /\ inv[r].pc \in Active
    BY DEF Running, Active
  <2>2. head # NoRun
    BY <2>1 DEF TypeOK
  <2> QED
    BY <2>1, <2>2 DEF SerialInv, AllSound, Sound
<1>2. HeadStands' /\ WorldAgrees'
  BY <1>1 DEF SerialInv, HeadStands, WorldAgrees
<1> DEFINE v == [pc |-> "saving", node |-> next, base |-> [by |-> r, at |-> inv[r].node],
                 fresh |-> FALSE, polled |-> FALSE, ch |-> ch]
<1>3. inv' = [inv EXCEPT ![r] = v]
  BY DEF Return
<1>4. v.pc = "saving" /\ v.node = next /\ v.ch = ch /\ ~v.fresh
  OBVIOUS
<1> HIDE DEF v
<1>5. inv'[r] = v
  BY <1>3 DEF TypeOK
<1>6. Sound(r)'
  BY <1>1, <1>4, <1>5 DEF Sound
<1>7. AllSound'
  BY <1>1, <1>3, <1>6, OthersRest DEF SerialInv, Active
<1> QED
  BY <1>2, <1>7 DEF SerialInv

\* A gate pauses: it is recorded on the head, which is the one it started from.
LEMMA PauseSerial ==
  ASSUME TypeOK, SerialInv, OneAtATime', NEW r \in Requests, NEW p \in BOOLEAN,
         NEW gate \in Gates, Running(r, gate), Pause(r, p),
         UNCHANGED <<clock, notices, incidents>>
  PROVE  /\ SerialInv'
         /\ head \in Checkpoint /\ head' = [head EXCEPT !.paused = TRUE, !.polled = p]
<1>1. /\ inv[r].pc = "running" /\ inv[r].base = head.tag /\ head.next = gate
  BY DEF Running, SerialInv, AllSound, Sound
<1>2. head \in Checkpoint /\ head # NoRun
  BY <1>1, RunningTyped, NoRunIsNoCheckpoint
<1>3. head' = [head EXCEPT !.paused = TRUE, !.polled = p]
  BY <1>1 DEF Pause
<1>4. head' # NoRun /\ head'.next = head.next /\ head'.ch = head.ch /\ head'.tag = head.tag
  BY <1>2, <1>3, NoRunIsNoCheckpoint DEF Checkpoint
<1>5. HeadStands' /\ WorldAgrees'
  BY <1>1, <1>2, <1>4 DEF SerialInv, HeadStands, WorldAgrees
<1> DEFINE v == IF r.op = "timer" THEN Idle ELSE [pc |-> "done"]
<1>6. inv' = [inv EXCEPT ![r] = v] /\ v.pc \notin Active
  BY DEF Pause, Idle, Active
<1> HIDE DEF v
<1>7. Sound(r)'
  BY <1>6 DEF TypeOK, Sound, Active
<1>8. AllSound'
  BY <1>1, <1>6, <1>7, OthersRest DEF SerialInv, Active
<1> QED
  BY <1>2, <1>3, <1>5, <1>8 DEF SerialInv

\* A call that awaits its first approval is one nobody signed.
LEMMA AwaitingApproval ==
  ASSUME NEW node \in Nodes \cup {END}, NEW ch, Stands(node, ch),
         OpenCallStage(ch) = "awaiting_approval"
  PROVE  /\ NobodySigned(ch) /\ Unsent(ch) /\ Raised(ch)
         /\ node \in Evaluating \cup {"await_approval"}
<1>1. /\ ch.amount \in Amounts /\ ~ch.below_mta /\ ch.sla = "none" /\ ch.sent_at = 0
      /\ ch.decision \notin {"approved", "adjusted", "rejected", "disputed"}
  BY DEF OpenCallStage
<1>2. node \in Evaluating \cup {"await_approval"}
  BY <1>1, ValuesAssumption DEF Stands, Nodes, Evaluating, END, Closed, Met, Breached, AllSigned,
     FirstSigned, Pursued
<1> QED
  BY <1>1, <1>2 DEF Stands, Raised, Evaluating

\* A run that may be started has no breach check behind it: nobody was told.
LEMMA StartsClean ==
  ASSUME TypeOK, SerialInv, NEW r \in Requests, MayStart(r)
  PROVE  /\ notices = <<>> /\ incidents = <<>>
         /\ head # NoRun => /\ head.ch.trigger = r /\ head.ch.amount = Unset
                            /\ ~head.paused /\ head.next \in Evaluating
<1>1. CASE head = NoRun
  BY <1>1 DEF SerialInv, WorldAgrees
<1>2. CASE head # NoRun
  <2>1. /\ head.ch.trigger = r /\ head.ch.amount = Unset
        /\ head \in Checkpoint /\ head.next \in Nodes \cup {END}
    BY <1>2 DEF MayStart, TypeOK, Checkpoint
  <2>2. Stands(head.next, head.ch) /\ (head.paused => head.next \in Gates)
    BY <1>2 DEF SerialInv, HeadStands
  <2>3. ~Raised(head.ch) /\ ~Closed(head.ch)
    BY <2>1, ValuesAssumption DEF Raised, Closed
  <2>4. ~FirstSigned(head.ch) /\ ~AllSigned(head.ch) /\ ~Pursued(head.ch) /\ ~Met(head.ch) /\ ~Breached(head.ch)
    BY <2>3 DEF FirstSigned, AllSigned, Pursued, Met, Breached
  <2>5. head.next \in Evaluating
    BY <2>1, <2>2, <2>3, <2>4 DEF Stands, Nodes, Evaluating
  <2>6. Unsent(head.ch) /\ ~head.paused
    BY <2>2, <2>5 DEF Stands, Evaluating, Gates
  <2>7. Told(head.ch, notices) /\ Opened(head.ch, incidents) /\ incidents \in Seq(EventType)
    BY <1>2, <2>5 DEF SerialInv, WorldAgrees, Evaluating, TypeOK
  <2>8. notices = <<>> /\ Len(incidents) = 0
    BY <2>6, <2>7, UnsentTold
  <2> QED
    BY <2>1, <2>5, <2>6, <2>7, <2>8
<1> QED
  BY <1>1, <1>2

\* The steps of the endpoints and of the runtime keep the strengthening.
LEMMA RequestStepsSerial ==
  ASSUME TypeOK, SerialInv, OneAtATime', NEW r \in Requests,
         \/ StartRun(r) \/ RequirePendingNode(r) \/ InternalSlaCheck(r) \/ PolicyCheck(r)
         \/ UpdateState(r) \/ Invoke(r) \/ Save(r) \/ RejectPayload(r) \/ Fault(r)
  PROVE  SerialInv'
<1>0. UNCHANGED <<clock, notices, incidents>> /\ OneAtATime
  BY DEF SerialInv, StartRun, RequirePendingNode, InternalSlaCheck, PolicyCheck,
         UpdateState, Invoke, Save, RejectPayload, Fault, world
<1>1. CASE StartRun(r)
  <2> DEFINE c == NewChannels(r)
             tag == [by |-> r, at |-> "input"]
             v == [pc |-> "running", node |-> "compute_exposure", base |-> tag,
                   fresh |-> FALSE, polled |-> FALSE, ch |-> c]
             h == [tag |-> tag, next |-> "compute_exposure", paused |-> FALSE,
                   polled |-> FALSE, ch |-> c]
  <2>1. MayStart(r) /\ head' = h /\ inv' = [inv EXCEPT ![r] = v]
    BY <1>1 DEF StartRun
  <2>2. NobodySigned(c) /\ Unsent(c) /\ c.amount = Unset
    BY DEF NewChannels, NobodySigned, NotCountersigned, Unsent
  <2>3. notices = <<>> /\ incidents = <<>>
    BY <2>1, StartsClean
  <2>4. Stands("compute_exposure", c) /\ Told(c, notices) /\ Opened(c, incidents)
    BY <2>2, <2>3, UnsentTold DEF Stands, Evaluating, END
  <2>5. /\ v.pc = "running" /\ v.node = h.next /\ v.base = h.tag /\ v.ch = h.ch
        /\ ~v.fresh /\ ~h.paused /\ h.next = "compute_exposure" /\ h.ch = c
    OBVIOUS
  <2> HIDE DEF c, tag, v, h
  <2>6. inv'[r] = v
    BY <2>1 DEF TypeOK
  <2>7. HeadStands' /\ WorldAgrees'
    BY <1>0, <2>1, <2>3, <2>4, <2>5 DEF HeadStands, WorldAgrees
  <2>8. Sound(r)'
    BY <1>0, <2>1, <2>4, <2>5, <2>6 DEF Sound, END
  <2> QED
    BY <1>0, <2>1, <2>5, <2>7, <2>8, OthersRest DEF SerialInv, Active
<1>2. CASE RequirePendingNode(r) \/ InternalSlaCheck(r) \/ PolicyCheck(r)
  <2>1. PICK pc \in {"checked", "refused", "done"} :
          /\ Goto(r, pc) /\ UNCHANGED head
          /\ pc = "checked" => IF r.op = "reevaluate" THEN OpenCallStage(head.ch) = "awaiting_approval"
                              ELSE MayAnswer(r)
    BY <1>2 DEF RequirePendingNode, InternalSlaCheck, PolicyCheck, MayAnswer, ResumeOps, GateOf
  <2>2. CASE pc # "checked"
    BY <1>0, <2>1, <2>2, ComesToRest DEF Active
  <2>3. CASE pc = "checked"
    <3> DEFINE v == [pc |-> pc]
    <3>1. inv' = [inv EXCEPT ![r] = v] /\ v.pc = "checked"
      BY <2>1, <2>3 DEF Goto
    <3> HIDE DEF v
    <3>2. inv'[r] = v
      BY <3>1 DEF TypeOK
    <3>3. Sound(r)'
      BY <2>1, <2>3, <3>1, <3>2 DEF Sound, MayAnswer, Pending
    <3>4. AllSound'
      BY <1>0, <3>1, <3>3, OthersRest DEF Active
    <3> QED
      BY <1>0, <2>1, <3>4 DEF SerialInv, HeadStands, WorldAgrees
  <2> QED
    BY <2>2, <2>3
<1>3. CASE RejectPayload(r) \/ Fault(r)
  <2>1. PICK pc \in {"idle", "failed"} : Goto(r, pc) /\ UNCHANGED head
    BY <1>3 DEF RejectPayload, Fault
  <2> QED
    BY <1>0, <2>1, ComesToRest DEF Active
<1>4. CASE UpdateState(r)
  <2>1. inv[r].pc = "checked" /\ r.op = "reevaluate"
    BY <1>4 DEF UpdateState
  <2>2. head \in Checkpoint /\ head # NoRun
    BY <2>1, ActiveHasRun, NoRunIsNoCheckpoint DEF Active
  <2>3. OpenCallStage(head.ch) = "awaiting_approval"
    BY <2>1 DEF SerialInv, AllSound, Sound
  <2>4. head.ch \in Channels /\ head.next \in Nodes \cup {END} /\ Stands(head.next, head.ch)
    BY <2>2 DEF SerialInv, HeadStands, Checkpoint
  <2>5. /\ NobodySigned(head.ch) /\ Unsent(head.ch) /\ Raised(head.ch)
        /\ head.next \in Evaluating \cup {"await_approval"}
    BY <2>3, <2>4, AwaitingApproval
  <2>6. Told(head.ch, notices) /\ Opened(head.ch, incidents)
    BY <2>2, <2>5 DEF SerialInv, WorldAgrees, Evaluating
  <2> DEFINE c == [head.ch EXCEPT !.trigger = r, !.updated_by = @ \cup {r}]
             h == [tag |-> [by |-> r, at |-> "update"], next |-> "compute_exposure",
                   paused |-> FALSE, polled |-> FALSE, ch |-> c]
             v == [pc |-> "stamped"]
  <2>7. NobodySigned(c) /\ Unsent(c) /\ Raised(c)
    BY <2>4, <2>5 DEF NobodySigned, NotCountersigned, Unsent, Raised, Channels
  <2>8. Told(c, notices) /\ Opened(c, incidents) /\ Stands("compute_exposure", c)
    BY <2>5, <2>6, <2>7, UnsentTold DEF Stands, Evaluating, END
  <2>9. /\ inv' = [inv EXCEPT ![r] = v] /\ v.pc = "stamped"
        /\ head' = h /\ h.next = "compute_exposure" /\ h.ch = c /\ ~h.paused
    BY <1>4 DEF UpdateState, Goto
  <2>11. h # NoRun
    BY DEF NoRun
  <2> HIDE DEF c, v, h
  <2>10. inv'[r] = v
    BY <2>9 DEF TypeOK
  <2>12. Len(notices) <= 1 /\ Len(incidents) <= 1
    BY <2>2 DEF SerialInv, WorldAgrees
  <2>13. HeadStands' /\ WorldAgrees'
    BY <1>0, <2>8, <2>9, <2>11, <2>12 DEF HeadStands, WorldAgrees
  <2>14. Sound(r)'
    BY <2>1, <2>9, <2>10 DEF Sound
  <2> QED
    BY <1>0, <2>9, <2>13, <2>14, OthersRest DEF SerialInv, Active
<1>5. CASE Invoke(r)
  <2>1. inv[r].pc \in {"checked", "stamped"} /\ inv[r].pc \in Active /\ UNCHANGED head
    BY <1>5 DEF Invoke, Active
  <2>2. head \in Checkpoint /\ head # NoRun
    BY <2>1, ActiveHasRun, NoRunIsNoCheckpoint
  <2>3. /\ r.op \in ResumeOps => MayAnswer(r)
        /\ r.op \notin ResumeOps => head.next = "compute_exposure" /\ ~head.paused
    BY <1>5 DEF SerialInv, AllSound, Sound, Invoke, ResumeOps
  <2>4. head.next \in Gates \cup {"compute_exposure"} /\ head.next # END
    BY <2>3 DEF MayAnswer, Pending, GateOf, Gates, END
  <2>5. Told(head.ch, notices) /\ Opened(head.ch, incidents)
    BY <2>2, <2>4 DEF SerialInv, WorldAgrees, Gates
  <2> DEFINE v == [pc |-> "running", node |-> head.next, base |-> head.tag,
                   fresh |-> r.op \in ResumeOps, polled |-> head.polled, ch |-> head.ch]
  <2>6. /\ inv' = [inv EXCEPT ![r] = v]
        /\ v.pc = "running" /\ v.node = head.next /\ v.base = head.tag /\ v.ch = head.ch
        /\ v.fresh <=> r.op \in ResumeOps
    BY <1>5, <2>4 DEF Invoke
  <2> HIDE DEF v
  <2>7. inv'[r] = v
    BY <2>6 DEF TypeOK
  <2>8. Sound(r)'
    BY <1>0, <2>1, <2>3, <2>4, <2>5, <2>6, <2>7 DEF Sound, MayAnswer, Pending
  <2>9. AllSound'
    BY <1>0, <2>6, <2>8, OthersRest DEF Active
  <2> QED
    BY <1>0, <2>1, <2>9 DEF SerialInv, HeadStands, WorldAgrees
<1>6. CASE Save(r)
  <2>1. inv[r] \in Invocation("saving") /\ inv[r].pc = "saving"
    BY <1>6, InvocationTyped DEF Save, TypeOK
  <2>2. /\ Stands(inv[r].node, inv[r].ch) /\ Told(inv[r].ch, notices) /\ Opened(inv[r].ch, incidents)
        /\ ~inv[r].fresh
    BY <2>1 DEF SerialInv, AllSound, Sound, Returns
  <2>3. head # NoRun /\ Len(notices) <= 1 /\ Len(incidents) <= 1
    BY <2>1 DEF TypeOK, Active, SerialInv, WorldAgrees
  <2>4. /\ head' = [tag |-> inv[r].base, next |-> inv[r].node, paused |-> FALSE,
                    polled |-> FALSE, ch |-> inv[r].ch]
        /\ head'.tag = inv[r].base /\ head'.next = inv[r].node /\ ~head'.paused /\ head'.ch = inv[r].ch
    BY <1>6 DEF Save
  <2>5. head' # NoRun
    BY <2>4 DEF NoRun
  <2> DEFINE v == IF inv[r].node = END THEN [pc |-> "done"] ELSE [inv[r] EXCEPT !.pc = "running"]
  <2>6. inv' = [inv EXCEPT ![r] = v]
    BY <1>6 DEF Save, TypeOK
  <2>7. \/ v.pc = "done"
        \/ /\ v.pc = "running" /\ v.node = inv[r].node /\ v.node # END /\ v.base = inv[r].base
           /\ v.ch = inv[r].ch /\ ~v.fresh
    BY <2>1, <2>2 DEF Invocation
  <2> HIDE DEF v
  <2>8. inv'[r] = v
    BY <2>6 DEF TypeOK
  <2>9. HeadStands' /\ WorldAgrees'
    BY <1>0, <2>2, <2>3, <2>4, <2>5 DEF HeadStands, WorldAgrees
  <2>10. Sound(r)'
    BY <1>0, <2>2, <2>4, <2>7, <2>8 DEF Sound
  <2> QED
    BY <1>0, <2>1, <2>6, <2>9, <2>10, OthersRest DEF SerialInv, Active
<1> QED
  BY <1>1, <1>2, <1>3, <1>4, <1>5, <1>6

\* A request that runs a node stands at the head, with what the head knows.
LEMMA RunnerStands ==
  ASSUME TypeOK, SerialInv, NEW r \in Requests, NEW node, Running(r, node)
  PROVE  /\ node = head.next /\ inv[r].ch = head.ch /\ head.ch \in Channels
         /\ Stands(node, head.ch) /\ Told(head.ch, notices) /\ Opened(head.ch, incidents)
         /\ Len(notices) <= 1 /\ Len(incidents) <= 1 /\ head # NoRun
         /\ inv[r].fresh \in BOOLEAN /\ inv[r].polled \in BOOLEAN
         /\ inv[r].fresh => MayAnswer(r)
         /\ ~inv[r].fresh => ~head.paused
<1>1. inv[r].pc = "running" /\ inv[r].node = node
  BY DEF Running
<1>2. head # NoRun
  BY <1>1, RunningTyped, NoRunIsNoCheckpoint
<1> QED
  BY <1>1, <1>2, RunningTyped DEF SerialInv, AllSound, Sound, HeadStands, WorldAgrees

\* A signature gate keeps the strengthening, given what its answer returns.
LEMMA GateSerial ==
  ASSUME TypeOK, SerialInv, OneAtATime', NEW r \in Requests, NEW gate \in Gates,
         gate # "await_sla_response", NEW key, NEW amount, NEW answered, NEW next,
         Gate(r, gate, key, amount, answered, next),
         inv[r].fresh => Returns(gate, head.ch, next, answered, notices, incidents, clock)
  PROVE  SerialInv'
<1>1. Running(r, gate) /\ UNCHANGED <<clock, notices, incidents>>
  BY DEF Gate
<1>2. CASE Answers(r, gate) /\ Return(r, answered, next) /\ UNCHANGED head
  <2>1. Returns(gate, head.ch, next, answered, notices', incidents', clock)
    BY <1>1, <1>2 DEF Answers
  <2>2. Len(notices') <= 1 /\ Len(incidents') <= 1
    BY <1>1, RunnerStands
  <2> QED
    BY <1>1, <1>2, <2>1, <2>2, ReturnSerial
<1>3. CASE Pause(r, FALSE)
  BY <1>1, <1>3, PauseSerial
<1> QED
  BY <1>2, <1>3 DEF Gate

\* So does every node.
LEMMA NodeStepsSerial ==
  ASSUME TypeOK, SerialInv, OneAtATime', NEW r \in Requests,
         \/ ComputeExposure(r) \/ FetchCsaTerms(r) \/ EvaluateBreach(r)
         \/ AwaitApproval(r) \/ AwaitManagerApproval(r) \/ SendNotification(r)
         \/ AwaitSlaResponse(r) \/ SendSlaMetNotification(r) \/ Escalate(r)
  PROVE  SerialInv'
<1> DEFINE c == head.ch
<1>0. clock \in Nat /\ clock >= 1 /\ notices \in Seq(EventType) /\ incidents \in Seq(EventType)
  BY DEF TypeOK, SerialInv
<1>1. CASE ComputeExposure(r) \/ FetchCsaTerms(r)
  <2>1. PICK node \in {"compute_exposure", "fetch_csa_terms"},
             next \in {"fetch_csa_terms", "evaluate_breach"} :
          Running(r, node) /\ Return(r, inv[r].ch, next)
    BY <1>1 DEF ComputeExposure, FetchCsaTerms
  <2>2. UNCHANGED <<head, clock, notices, incidents>>
    BY <1>1 DEF ComputeExposure, FetchCsaTerms, world
  <2>3. /\ inv[r].ch = c /\ Stands(node, c) /\ Told(c, notices) /\ Opened(c, incidents)
        /\ Len(notices) <= 1 /\ Len(incidents) <= 1
    BY <2>1, RunnerStands
  <2>4. Returns(node, c, next, c, notices, incidents, clock)
    BY <2>1, <2>3 DEF Returns, Stands, Outcome, Evaluating, END
  <2> QED
    BY <2>1, <2>2, <2>3, <2>4, ReturnSerial
<1>2. CASE EvaluateBreach(r)
  <2>1. Running(r, "evaluate_breach") /\ UNCHANGED <<head, clock, notices, incidents>>
    BY <1>2 DEF EvaluateBreach, world
  <2>2. /\ inv[r].ch = c /\ c \in Channels /\ Stands("evaluate_breach", c)
        /\ Told(c, notices) /\ Opened(c, incidents)
        /\ Len(notices) <= 1 /\ Len(incidents) <= 1
    BY <2>1, RunnerStands
  <2>3. PICK a \in Amounts \cup {NoCall}, low \in BOOLEAN :
          LET ch == [c EXCEPT !.amount = a, !.below_mta = low]
          IN  Return(r, ch, RouteAfterBreach(ch))
    BY <1>2, <2>2 DEF EvaluateBreach
  <2> DEFINE ch == [c EXCEPT !.amount = a, !.below_mta = low]
  <2>4. Returns("evaluate_breach", c, RouteAfterBreach(ch), ch, notices, incidents, clock)
    BY <2>2, BreachReturns
  <2>5. Return(r, ch, RouteAfterBreach(ch))
    BY <2>3
  <2> HIDE DEF ch
  <2> QED
    BY <2>1, <2>2, <2>4, <2>5, ReturnSerial
<1>3. CASE AwaitApproval(r)
  <2> DEFINE ch == ApprovalUpdate(inv[r].ch, r)
             key == <<"approval_requested", inv[r].ch.trigger>>
  <2>1. Gate(r, "await_approval", key, inv[r].ch.amount, ch, RouteAfterApproval(ch))
    BY <1>3 DEF AwaitApproval
  <2>2. Running(r, "await_approval") /\ "await_approval" \in Gates
    BY <2>1 DEF Gate, Gates
  <2>3. inv[r].fresh => Returns("await_approval", c, RouteAfterApproval(ch), ch,
                                notices, incidents, clock)
    <3> SUFFICES ASSUME inv[r].fresh
                 PROVE  Returns("await_approval", c, RouteAfterApproval(ch), ch,
                                notices, incidents, clock)
      OBVIOUS
    <3>1. r.op = "approve"
      BY <2>2, RunnerStands DEF MayAnswer, Pending, GateOf, ResumeOps
    <3> QED
      BY <2>2, <3>1, RunnerStands, ApprovalReturns
  <2> HIDE DEF ch, key
  <2> QED
    BY <2>1, <2>2, <2>3, GateSerial
<1>4. CASE AwaitManagerApproval(r)
  <2> DEFINE ch == ManagerUpdate(inv[r].ch, r)
             key == <<"manager_approval_requested">>
  <2>1. Gate(r, "await_manager_approval", key, Effective(inv[r].ch), ch,
             RouteAfterManagerApproval(ch))
    BY <1>4 DEF AwaitManagerApproval
  <2>2. Running(r, "await_manager_approval") /\ "await_manager_approval" \in Gates
    BY <2>1 DEF Gate, Gates
  <2>3. inv[r].fresh => Returns("await_manager_approval", c, RouteAfterManagerApproval(ch), ch,
                                notices, incidents, clock)
    <3> SUFFICES ASSUME inv[r].fresh
                 PROVE  Returns("await_manager_approval", c, RouteAfterManagerApproval(ch), ch,
                                notices, incidents, clock)
      OBVIOUS
    <3>1. r.op = "manager" /\ c.first # r.by
      BY <2>2, RunnerStands DEF MayAnswer, Pending, GateOf, ResumeOps
    <3> QED
      BY <2>2, <3>1, RunnerStands, ManagerReturns
  <2> HIDE DEF ch, key
  <2> QED
    BY <2>1, <2>2, <2>3, GateSerial
<1>5. CASE SendNotification(r)
  <2>1. Running(r, "send_notification") /\ UNCHANGED <<head, clock, incidents>>
    BY <1>5 DEF SendNotification
  <2>2. /\ inv[r].ch = c /\ c \in Channels /\ Stands("send_notification", c)
        /\ Told(c, notices) /\ Opened(c, incidents)
        /\ Len(notices) <= 1 /\ Len(incidents) <= 1
    BY <2>1, RunnerStands
  <2> DEFINE e == [at |-> clock, ch |-> c]
             sent == SentUpdate(c)
             failed == FailedSendUpdate(c)
  <2>3. e.at = clock
    OBVIOUS
  <2>4. notices = <<>>
    BY <2>2, UnsentTold DEF Stands, Evaluating
  <2> HIDE DEF e
  <2>5. /\ Returns("send_notification", c, RouteAfterSend(sent), sent,
                   Append(notices, e), incidents, clock)
        /\ Returns("send_notification", c, RouteAfterSend(failed), failed,
                   notices, incidents, clock)
    BY <1>0, <2>2, <2>3, SendReturns
  <2>6. Len(Append(notices, e)) <= 1
    BY <2>4
  <2>7. CASE Return(r, sent, RouteAfterSend(sent)) /\ notices' = Append(notices, e)
    <3> HIDE DEF sent, failed
    <3> QED
      BY <2>1, <2>2, <2>5, <2>6, <2>7, ReturnSerial
  <2>8. CASE Return(r, failed, RouteAfterSend(failed)) /\ UNCHANGED notices
    <3> HIDE DEF sent, failed
    <3> QED
      BY <2>1, <2>2, <2>5, <2>8, ReturnSerial
  <2> QED
    BY <1>5, <2>2, <2>7, <2>8 DEF SendNotification, e
<1>6. CASE AwaitSlaResponse(r)
  <2>1. /\ Running(r, "await_sla_response") /\ "await_sla_response" \in Gates
        /\ UNCHANGED <<clock, notices, incidents>>
    BY <1>6 DEF AwaitSlaResponse, Gates
  <2>2. /\ inv[r].ch = c /\ c \in Channels /\ Stands("await_sla_response", c)
        /\ Told(c, notices) /\ Opened(c, incidents)
        /\ Len(notices) <= 1 /\ Len(incidents) <= 1
        /\ inv[r].fresh \in BOOLEAN /\ inv[r].polled \in BOOLEAN
    BY <2>1, RunnerStands
  <2>3. CASE SlaResolves(c, r, inv[r].fresh, inv[r].polled)
    <3> DEFINE ch == SlaOutcome(c, r, inv[r].polled)
    <3>1. Return(r, ch, RouteAfterSla(ch)) /\ UNCHANGED head
      BY <1>6, <2>2, <2>3 DEF AwaitSlaResponse
    <3>2. Returns("await_sla_response", c, RouteAfterSla(ch), ch, notices, incidents, clock)
      BY <1>0, <2>2, <2>3, SlaReturns
    <3> HIDE DEF ch
    <3> QED
      BY <2>1, <2>2, <3>1, <3>2, ReturnSerial
  <2>4. CASE ~SlaResolves(c, r, inv[r].fresh, inv[r].polled)
    <3>1. PICK p \in BOOLEAN : Pause(r, p)
      BY <1>6, <2>2, <2>4 DEF AwaitSlaResponse
    <3> QED
      BY <2>1, <3>1, PauseSerial
  <2> QED
    BY <2>3, <2>4
<1>7. CASE SendSlaMetNotification(r)
  <2> DEFINE ch == [c EXCEPT !.confirmed = TRUE]
  <2>1. /\ Running(r, "send_sla_met_notification") /\ Return(r, [inv[r].ch EXCEPT !.confirmed = TRUE], END)
        /\ UNCHANGED <<head, clock, notices, incidents>>
    BY <1>7 DEF SendSlaMetNotification
  <2>2. /\ inv[r].ch = c /\ c \in Channels /\ Stands("send_sla_met_notification", c)
        /\ Told(c, notices) /\ Opened(c, incidents)
        /\ Len(notices) <= 1 /\ Len(incidents) <= 1
    BY <2>1, RunnerStands
  <2>3. [at |-> clock, ch |-> c] \in EventType
    BY <1>0, <2>2 DEF EventType
  <2>4. Returns("send_sla_met_notification", c, END, ch, notices, incidents, clock)
    BY <1>0, <2>2, <2>3, LastReturns
  <2>5. Return(r, ch, END)
    BY <2>1, <2>2
  <2> HIDE DEF ch
  <2> QED
    BY <2>1, <2>2, <2>4, <2>5, ReturnSerial
<1>8. CASE Escalate(r)
  <2> DEFINE ch == [c EXCEPT !.escalated = TRUE]
             e == [at |-> clock, ch |-> c]
  <2>1. /\ Running(r, "escalate") /\ Return(r, [inv[r].ch EXCEPT !.escalated = TRUE], END)
        /\ incidents' = Append(incidents, [at |-> clock, ch |-> inv[r].ch])
        /\ UNCHANGED <<head, clock, notices>>
    BY <1>8 DEF Escalate
  <2>2. /\ inv[r].ch = c /\ c \in Channels /\ Stands("escalate", c)
        /\ Told(c, notices) /\ Opened(c, incidents)
        /\ Len(notices) <= 1 /\ Len(incidents) <= 1
    BY <2>1, RunnerStands
  <2>3. e \in EventType
    BY <1>0, <2>2 DEF EventType
  <2>4. incidents' = Append(incidents, e) /\ Return(r, ch, END)
    BY <2>1, <2>2
  <2> HIDE DEF e
  <2>5. Returns("escalate", c, END, ch, notices, Append(incidents, e), clock)
    BY <1>0, <2>2, <2>3, LastReturns
  <2>6. Len(incidents) = 0
    BY <2>2 DEF Stands, Opened
  <2>7. Len(Append(incidents, e)) <= 1
    BY <1>0, <2>3, <2>6
  <2> HIDE DEF ch
  <2> QED
    BY <2>1, <2>2, <2>4, <2>5, <2>7, ReturnSerial
<1> QED
  BY <1>1, <1>2, <1>3, <1>4, <1>5, <1>6, <1>7, <1>8

\* One request at a time is one of the schedules of the overlapping service.
LEMMA SerialIsSpec == SerialSpec => Spec
<1>1. [Next /\ OneAtATime']_vars => [Next]_vars
  OBVIOUS
<1> QED
  BY <1>1, PTL DEF SerialSpec, Spec

\* One request at a time, the head stands where its channels say, and nothing
\* was told or opened that they do not say, but for the effect of the node a
\* fault interrupted.
THEOREM SerialInductive == SerialSpec => []SerialInv
<1>1. Init => SerialInv
  BY DEF Init, SerialInv, HeadStands, WorldAgrees, OneAtATime, AllSound, Sound, Idle, Active
<1>2. TypeOK /\ SerialInv /\ [Next /\ OneAtATime']_vars => SerialInv'
  <2> SUFFICES ASSUME TypeOK, SerialInv, [Next /\ OneAtATime']_vars
               PROVE  SerialInv'
    OBVIOUS
  <2>1. CASE Tick /\ OneAtATime'
    <3>1. UNCHANGED <<head, inv, notices, incidents>> /\ clock' = clock + 1 /\ clock \in Nat
      BY <2>1 DEF Tick, TypeOK
    <3>2. AllSound'
      <4> SUFFICES ASSUME NEW r \in Requests PROVE Sound(r)'
        BY DEF AllSound
      <4>1. Sound(r) /\ (MayAnswer(r) <=> MayAnswer(r)')
        BY <3>1 DEF SerialInv, AllSound, MayAnswer, Pending
      <4>2. CASE inv[r].pc = "saving"
        <5>1. inv[r].ch.sent_at \in Nat
          BY <4>2, InvocationTyped DEF TypeOK, Invocation, Channels
        <5>2. Returns(head.next, head.ch, inv[r].node, inv[r].ch, notices, incidents, clock')
          BY <3>1, <4>1, <4>2, <5>1 DEF Sound, Returns, Outcome, Deadline
        <5> QED
          BY <3>1, <4>1, <4>2, <5>2 DEF Sound
      <4>3. CASE inv[r].pc # "saving"
        BY <3>1, <4>1, <4>3 DEF Sound
      <4> QED
        BY <4>2, <4>3
    <3> QED
      BY <2>1, <3>1, <3>2 DEF SerialInv, HeadStands, WorldAgrees
  <2>2. CASE (\E r \in Requests : Step(r) \/ Fault(r)) /\ OneAtATime'
    <3>1. PICK r \in Requests : Step(r) \/ Fault(r)
      BY <2>2
    <3> QED
      BY <2>2, <3>1, RequestStepsSerial, NodeStepsSerial DEF Step
  <2>3. CASE UNCHANGED vars
    BY <2>3 DEF SerialInv, HeadStands, WorldAgrees, OneAtATime, AllSound, Sound, MayAnswer, Pending, vars
  <2> QED
    BY <2>1, <2>2, <2>3 DEF Next
<1> QED
  BY <1>1, <1>2, SerialIsSpec, TypeCorrect, PTL DEF SerialSpec

-----------------------------------------------------------------------------
(* What the properties of a serial run need beyond that.                   *)

\* The feed's status, the policy's stage and the pending gate name one step.
THEOREM StepShown == SerialSpec => []PendingStepIsShown
<1>1. TypeOK /\ SerialInv => PendingStepIsShown
  <2> SUFFICES ASSUME TypeOK, SerialInv, NEW gate \in Gates, Pending(gate)
               PROVE  /\ OpenCallStage(head.ch) = StageOfGate[gate]
                      /\ LifecycleStatus(head.ch) = StageOfGate[gate]
    BY DEF PendingStepIsShown
  <2>1. head.next = gate /\ Stands(gate, head.ch)
    BY DEF Pending, SerialInv, HeadStands
  <2>2. CASE gate = "await_approval"
    BY <2>1, <2>2, ValuesAssumption DEF Stands, Evaluating, NobodySigned, NotCountersigned, Unsent, Raised,
       OpenCallStage, LifecycleStatus, StageOfGate
  <2>3. CASE gate = "await_manager_approval"
    BY <2>1, <2>3, ValuesAssumption DEF Stands, Evaluating, FirstSigned, NotCountersigned, Unsent, Raised,
       OpenCallStage, LifecycleStatus, StageOfGate
  <2>4. CASE gate = "await_sla_response"
    BY <2>1, <2>4, ValuesAssumption DEF Stands, Evaluating, Pursued, AllSigned, FirstSigned, Raised,
       OpenCallStage, LifecycleStatus, StageOfGate
  <2> QED
    BY <2>2, <2>3, <2>4 DEF Gates
<1> QED
  BY <1>1, SerialInductive, SerialIsSpec, TypeCorrect, PTL

\* The two signatures on an elite client's notice are two people's.
THEOREM TwoPeople == SerialSpec => []TwoPeopleSigned
<1>1. Init => TwoPeopleSigned
  BY DEF Init, TwoPeopleSigned
<1>2. TypeOK /\ SerialInv /\ TwoPeopleSigned /\ [Next /\ OneAtATime']_vars => TwoPeopleSigned'
  <2> SUFFICES ASSUME TypeOK, SerialInv, TwoPeopleSigned, [Next]_vars
               PROVE  TwoPeopleSigned'
    OBVIOUS
  <2>1. CASE UNCHANGED notices
    BY <2>1 DEF TwoPeopleSigned
  <2>2. ASSUME NEW r \in Requests, SendNotification(r)
        PROVE  TwoPeopleSigned'
    <3>1. Running(r, "send_notification")
      BY <2>2 DEF SendNotification
    <3>2. inv[r].ch \in Channels /\ AllSigned(inv[r].ch)
      BY <3>1, RunnerStands DEF Stands, Evaluating
    <3> DEFINE e == [at |-> clock, ch |-> inv[r].ch]
    <3>3. e \in EventType /\ AllSigned(e.ch) /\ notices \in Seq(EventType)
      BY <3>2 DEF EventType, TypeOK
    <3>4. notices' = Append(notices, e) \/ UNCHANGED notices
      BY <2>2 DEF SendNotification
    <3> HIDE DEF e
    <3>5. CASE notices' = Append(notices, e)
      <4> SUFFICES ASSUME Elite, NEW i \in DOMAIN notices'
                   PROVE  notices'[i].ch.manager \in Users /\ notices'[i].ch.manager # notices'[i].ch.first
        BY DEF TwoPeopleSigned
      <4>1. CASE i \in DOMAIN notices /\ notices'[i] = notices[i]
        BY <4>1 DEF TwoPeopleSigned
      <4>2. CASE notices'[i] = e
        BY <3>3, <4>2 DEF AllSigned
      <4> QED
        BY <3>3, <3>5, <4>1, <4>2, Appended
    <3> QED
      BY <2>1, <3>4, <3>5
  <2>3. (\E r \in Requests : SendNotification(r)) \/ UNCHANGED notices
    <3>1. CASE Tick \/ UNCHANGED vars
      BY <3>1 DEF Tick, vars
    <3>2. ASSUME NEW r \in Requests, Step(r) \/ Fault(r), ~SendNotification(r)
          PROVE  UNCHANGED notices
      <4>1. CASE \/ StartRun(r) \/ RequirePendingNode(r) \/ InternalSlaCheck(r) \/ PolicyCheck(r)
                 \/ UpdateState(r) \/ Invoke(r) \/ Save(r) \/ RejectPayload(r) \/ Fault(r)
        BY <4>1 DEF StartRun, RequirePendingNode, InternalSlaCheck, PolicyCheck, UpdateState, Invoke, Save,
           RejectPayload, Fault, world
      <4>2. CASE ComputeExposure(r) \/ FetchCsaTerms(r) \/ EvaluateBreach(r)
        BY <4>2 DEF ComputeExposure, FetchCsaTerms, EvaluateBreach, world
      <4>3. CASE AwaitApproval(r) \/ AwaitManagerApproval(r)
        BY <4>3 DEF AwaitApproval, AwaitManagerApproval, Gate, world
      <4>4. CASE AwaitSlaResponse(r) \/ SendSlaMetNotification(r) \/ Escalate(r)
        BY <4>4 DEF AwaitSlaResponse, SendSlaMetNotification, Escalate, world
      <4> QED
        BY <3>2, <4>1, <4>2, <4>3, <4>4 DEF Step
    <3> QED
      BY <3>1, <3>2 DEF Next
  <2> QED
    BY <2>1, <2>2, <2>3
<1> QED
  BY <1>1, <1>2, SerialInductive, SerialIsSpec, TypeCorrect, PTL DEF SerialSpec

\* While nothing failed, a run that is neither over nor at a gate is being served.
Attended ==
  faults = 0 /\ head # NoRun /\ head.next # END /\ ~head.paused =>
    \E r \in Requests : inv[r].pc \in {"stamped", "running", "saving"}

\* Each step leaves the run served, at a gate or over.
LEMMA AttendedKept ==
  ASSUME TypeOK, SerialInv, Attended, [Next]_vars
  PROVE  Attended'
<1>1. CASE Tick \/ UNCHANGED vars
  BY <1>1 DEF Attended, Tick, vars
<1>2. ASSUME NEW r \in Requests, Step(r) \/ Fault(r)
      PROVE  Attended'
  <2>1. CASE inv'[r].pc \in {"stamped", "running", "saving"}
    BY <2>1 DEF Attended
  <2>2. CASE Fault(r)
    BY <2>2 DEF Fault, TypeOK, Attended
  <2>3. CASE RequirePendingNode(r) \/ InternalSlaCheck(r) \/ PolicyCheck(r)
    <3>1. PICK pc \in {"checked", "refused", "done"} :
            Goto(r, pc) /\ inv[r].pc = "idle" /\ UNCHANGED <<head, faults>>
      BY <2>3 DEF RequirePendingNode, InternalSlaCheck, PolicyCheck, world
    <3> QED
      BY <3>1 DEF Attended, Goto
  <2>4. CASE RejectPayload(r)
    <3>1. head.paused /\ UNCHANGED head
      BY <2>4 DEF RejectPayload, SerialInv, AllSound, Sound, MayAnswer, Pending
    <3> QED
      BY <3>1 DEF Attended
  <2>5. CASE Invoke(r)
    <3>1. UNCHANGED <<head, faults>> /\ (head.next = END \/ inv'[r].pc = "running")
      BY <2>5 DEF Invoke, world, TypeOK
    <3> QED
      BY <2>1, <3>1 DEF Attended
  <2>6. CASE Save(r)
    <3>1. inv[r] \in Invocation("saving")
      BY <2>6, InvocationTyped DEF Save, TypeOK
    <3>2. head'.next = END \/ inv'[r].pc = "running"
      BY <2>6, <3>1 DEF Save, TypeOK, Invocation
    <3> QED
      BY <2>1, <3>2 DEF Attended
  <2>7. CASE StartRun(r) \/ UpdateState(r)
    <3>1. inv'[r].pc \in {"running", "stamped"}
      BY <2>7 DEF StartRun, UpdateState, Goto, TypeOK
    <3> QED
      BY <2>1, <3>1
  <2>8. ASSUME NEW gate \in Gates, NEW p \in BOOLEAN, Running(r, gate), Pause(r, p)
        PROVE  Attended'
    <3>1. head \in Checkpoint /\ inv[r].base = head.tag
      BY <2>8, RunningTyped DEF Running, SerialInv, AllSound, Sound
    <3>2. head'.paused
      BY <2>8, <3>1 DEF Pause, Checkpoint
    <3> QED
      BY <3>2 DEF Attended
  <2>9. ASSUME NEW ch, NEW next, Return(r, ch, next)
        PROVE  Attended'
    <3>1. inv'[r].pc = "saving"
      BY <2>9 DEF Return, TypeOK
    <3> QED
      BY <2>1, <3>1
  <2>10. CASE \/ ComputeExposure(r) \/ FetchCsaTerms(r) \/ EvaluateBreach(r) \/ SendNotification(r)
             \/ SendSlaMetNotification(r) \/ Escalate(r)
    BY <2>9, <2>10 DEF ComputeExposure, FetchCsaTerms, EvaluateBreach, SendNotification,
       SendSlaMetNotification, Escalate
  <2>11. CASE AwaitApproval(r) \/ AwaitManagerApproval(r)
    <3>1. PICK gate \in Gates : Running(r, gate) /\ (Pause(r, FALSE) \/ \E ch, next : Return(r, ch, next))
      BY <2>11 DEF AwaitApproval, AwaitManagerApproval, Gate, Gates
    <3> QED
      BY <2>8, <2>9, <3>1
  <2>12. CASE AwaitSlaResponse(r)
    <3>1. Running(r, "await_sla_response") /\ "await_sla_response" \in Gates
      BY <2>12 DEF AwaitSlaResponse, Gates
    <3>2. inv[r].fresh \in BOOLEAN /\ inv[r].polled \in BOOLEAN
      BY <3>1, RunnerStands
    <3>3. \/ \E p \in BOOLEAN : Pause(r, p)
          \/ \E ch, next : Return(r, ch, next)
      BY <2>12, <3>2 DEF AwaitSlaResponse
    <3> QED
      BY <2>8, <2>9, <3>1, <3>3
  <2> QED
    BY <1>2, <2>2, <2>3, <2>4, <2>5, <2>6, <2>7, <2>10, <2>11, <2>12 DEF Step
<1> QED
  BY <1>1, <1>2 DEF Next

\* As long as nothing fails, an open call waits at a gate, and a breach has
\* its incident once the service is at rest.
THEOREM NothingStranded == SerialSpec => []NoOpenCallStranded
<1>1. Init => Attended
  BY DEF Init, Attended
<1>2. TypeOK /\ SerialInv /\ Attended /\ [Next /\ OneAtATime']_vars => Attended'
  BY AttendedKept
<1>3. TypeOK /\ SerialInv /\ Attended => NoOpenCallStranded
  <2> SUFFICES ASSUME TypeOK, SerialInv, Attended, faults = 0, AtRest, head # NoRun
               PROVE  /\ ~head.paused => OpenCallStage(head.ch) = "none"
                      /\ head.ch.sla = "breached" => head.ch.escalated /\ incidents # <<>>
    BY DEF NoOpenCallStranded
  <2>1. Stands(head.next, head.ch) /\ (head.next = END \/ (head.next \in Gates /\ head.paused))
    <3>1. Stands(head.next, head.ch) /\ (head.paused => head.next \in Gates)
      BY DEF SerialInv, HeadStands
    <3>2. \A r \in Requests : inv[r].pc \notin {"stamped", "running", "saving"}
      BY DEF AtRest, Active
    <3>3. head.next = END \/ head.paused
      BY <3>2 DEF Attended
    <3> QED
      BY <3>1, <3>3
  <2>2. CASE head.next = END
    <3>1. Closed(head.ch) \/ Met(head.ch) \/ (Breached(head.ch) /\ head.ch.escalated)
      BY <2>1, <2>2 DEF Stands
    <3>2. OpenCallStage(head.ch) = "none"
      BY <3>1, ValuesAssumption DEF OpenCallStage, Closed, Met, Breached, Unsent
    <3>3. head.ch.sla = "breached" => head.ch.escalated
      BY <3>1 DEF Closed, Unsent, Met
    <3>4. Opened(head.ch, incidents)
      BY <2>2 DEF SerialInv, WorldAgrees, END
    <3>5. head.ch.escalated => incidents # <<>>
      BY <3>4 DEF Opened
    <3> QED
      BY <3>2, <3>3, <3>5
  <2>3. CASE head.next \in Gates /\ head.paused
    <3>1. head.ch.sla = "none"
      BY <2>1, <2>3 DEF Gates, Stands, Unsent
    <3> QED
      BY <2>3, <3>1
  <2> QED
    BY <2>1, <2>2, <2>3
<1> QED
  BY <1>1, <1>2, <1>3, SerialInductive, SerialIsSpec, TypeCorrect, PTL DEF SerialSpec

\* The request for a first signature is keyed by the trigger of the evaluation
\* it is about, and each trigger is evaluated at most once.
EvaluationOps == {"start", "reevaluate"}
AnnouncedAs(r, amount) == [key |-> <<"approval_requested", r>>, amount |-> amount] \in posts
Unannounced(r) == \A p \in posts : p.key # <<"approval_requested", r>>

TriggersWait ==
  \A r \in Requests : r.op \in EvaluationOps /\ inv[r].pc \in {"idle", "checked"} => Unannounced(r)
HeadAnnounced ==
  head # NoRun =>
    /\ head.ch.trigger.op \in EvaluationOps
    /\ inv[head.ch.trigger].pc \notin {"idle", "checked"}
    /\ ~head.paused /\ head.next \in Evaluating \cup {"await_approval"} => Unannounced(head.ch.trigger)
    /\ head.paused /\ head.next = "await_approval" => AnnouncedAs(head.ch.trigger, head.ch.amount)
TriggerKept == \A r \in Requests : inv[r].pc = "saving" => inv[r].ch.trigger = head.ch.trigger
Announcement == TriggersWait /\ HeadAnnounced /\ TriggerKept

\* Posts with other keys do not matter here.
OtherPosts == posts \subseteq posts' /\ \A r \in Requests : Unannounced(r) => Unannounced(r)'

\* A post under one of the other keys is such a post.
LEMMA OtherKeys ==
  ASSUME NEW k \in {"manager_approval_requested", "client_notified", "delivery_failed",
                   "client_acknowledged", "escalated"},
         NEW amount, Post(<<k>>, amount)
  PROVE  OtherPosts
<1>1. \A r : <<k>> # <<"approval_requested", r>>
  OBVIOUS
<1> QED
  BY <1>1 DEF Post, OtherPosts, Unannounced

\* One request moves, the head stays.
LEMMA AnnouncedMove ==
  ASSUME TypeOK, Announcement, NEW r \in Requests, NEW v, inv' = [inv EXCEPT ![r] = v],
         UNCHANGED head, OtherPosts,
         r.op \in EvaluationOps /\ v.pc \in {"idle", "checked"} => inv[r].pc = "idle",
         v.pc = "saving" => v.ch.trigger = head.ch.trigger
  PROVE  Announcement'
<1>1. inv'[r] = v /\ \A q \in Requests : q # r => inv'[q] = inv[q]
  BY DEF TypeOK
<1>2. TriggersWait'
  BY <1>1 DEF Announcement, TriggersWait, OtherPosts
<1>3. HeadAnnounced'
  <2> SUFFICES ASSUME head # NoRun PROVE HeadAnnounced'
    BY DEF HeadAnnounced
  <2>1. head.ch.trigger \in Requests
    BY DEF TypeOK, Checkpoint, Channels
  <2>2. inv'[head.ch.trigger].pc \notin {"idle", "checked"}
    BY <1>1, <2>1 DEF Announcement, HeadAnnounced
  <2> QED
    BY <2>1, <2>2 DEF Announcement, HeadAnnounced, OtherPosts, AnnouncedAs
<1>4. TriggerKept'
  BY <1>1 DEF Announcement, TriggerKept
<1> QED
  BY <1>2, <1>3, <1>4 DEF Announcement

\* The same for a step that only sends the request somewhere.
LEMMA AnnouncedGoto ==
  ASSUME TypeOK, Announcement, NEW r \in Requests, NEW pc, Goto(r, pc), UNCHANGED <<head, posts>>,
         r.op \in EvaluationOps /\ pc \in {"idle", "checked"} => inv[r].pc = "idle",
         pc # "saving"
  PROVE  Announcement'
<1> DEFINE v == [pc |-> pc]
<1>1. inv' = [inv EXCEPT ![r] = v] /\ v.pc = pc
  BY DEF Goto
<1> HIDE DEF v
<1>2. OtherPosts
  BY DEF OtherPosts, Unannounced
<1> QED
  BY <1>1, <1>2, AnnouncedMove

\* A node's return that keeps the trigger.
LEMMA AnnouncedReturn ==
  ASSUME TypeOK, Announcement, NEW r \in Requests, NEW ch, NEW next, Return(r, ch, next),
         UNCHANGED head, OtherPosts, ch.trigger = head.ch.trigger
  PROVE  Announcement'
<1> DEFINE v == [pc |-> "saving", node |-> next, base |-> [by |-> r, at |-> inv[r].node],
                 fresh |-> FALSE, polled |-> FALSE, ch |-> ch]
<1>1. inv' = [inv EXCEPT ![r] = v] /\ v.pc = "saving" /\ v.ch = ch
  BY DEF Return
<1> HIDE DEF v
<1> QED
  BY <1>1, AnnouncedMove

\* A pause at one of the later gates.
LEMMA AnnouncedPause ==
  ASSUME TypeOK, SerialInv, Announcement, NEW r \in Requests, NEW p \in BOOLEAN,
         NEW gate \in Gates \ {"await_approval"}, Running(r, gate), Pause(r, p), OtherPosts
  PROVE  Announcement'
<1>1. inv[r].pc = "running" /\ inv[r].base = head.tag /\ head.next = gate
  BY DEF Running, SerialInv, AllSound, Sound
<1>2. head \in Checkpoint /\ head # NoRun
  BY <1>1, RunningTyped, NoRunIsNoCheckpoint
<1>3. head'.paused /\ head'.next = gate /\ head'.ch = head.ch
  BY <1>1, <1>2 DEF Pause, Checkpoint
<1> DEFINE v == IF r.op = "timer" THEN Idle ELSE [pc |-> "done"]
<1>4. inv' = [inv EXCEPT ![r] = v] /\ v.pc \in {"idle", "done"} /\ (v.pc = "idle" => r.op = "timer")
  BY DEF Pause, Idle
<1> HIDE DEF v
<1>5. inv'[r] = v /\ \A q \in Requests : q # r => inv'[q] = inv[q]
  BY <1>4 DEF TypeOK
<1>6. r.op = "timer" => r.op \notin EvaluationOps
  BY DEF EvaluationOps
<1>7. TriggersWait'
  BY <1>4, <1>5, <1>6 DEF Announcement, TriggersWait, OtherPosts
<1>8. head.ch.trigger \in Requests
  BY <1>2 DEF Checkpoint, Channels
<1>9. HeadAnnounced'
  BY <1>2, <1>3, <1>4, <1>5, <1>6, <1>8 DEF Announcement, HeadAnnounced
<1>10. TriggerKept'
  BY <1>3, <1>4, <1>5 DEF Announcement, TriggerKept
<1> QED
  BY <1>7, <1>9, <1>10 DEF Announcement

\* The first gate tells the approvers before it waits, and once.
LEMMA AnnouncedApproval ==
  ASSUME TypeOK, SerialInv, Announcement, NEW r \in Requests, AwaitApproval(r)
  PROVE  Announcement'
<1> DEFINE ch == ApprovalUpdate(inv[r].ch, r)
           t == head.ch.trigger
           key == <<"approval_requested", t>>
<1>1. Running(r, "await_approval")
  BY DEF AwaitApproval, Gate
<1>2. /\ head.next = "await_approval" /\ inv[r].ch = head.ch /\ head.ch \in Channels /\ head # NoRun
      /\ inv[r].fresh \in BOOLEAN /\ (inv[r].fresh => MayAnswer(r)) /\ (~inv[r].fresh => ~head.paused)
  BY <1>1, RunnerStands
<1>3. t \in Requests
  BY <1>2 DEF Channels
<1>4. Post(key, head.ch.amount)
  BY <1>2 DEF AwaitApproval, Gate
<1>5. CASE inv[r].fresh
  <2>1. head.paused
    BY <1>2, <1>5 DEF MayAnswer, Pending
  <2>2. AnnouncedAs(t, head.ch.amount)
    BY <1>2, <2>1 DEF Announcement, HeadAnnounced
  <2>3. \E p \in posts : p.key = key
    BY <2>2 DEF AnnouncedAs
  <2>4. UNCHANGED posts
    BY <1>4, <2>3 DEF Post
  <2>5. OtherPosts
    BY <2>4 DEF OtherPosts, Unannounced
  <2>6. Return(r, ch, RouteAfterApproval(ch)) /\ UNCHANGED head
    BY <1>5 DEF AwaitApproval, Gate
  <2>7. ch.trigger = t
    BY <1>2 DEF ApprovalUpdate, Channels
  <2> HIDE DEF ch, t, key
  <2> QED
    BY <2>5, <2>6, <2>7, AnnouncedReturn DEF t
<1>6. CASE ~inv[r].fresh
  <2>1. Pause(r, FALSE)
    BY <1>6 DEF AwaitApproval, Gate, Answers
  <2>2. head \in Checkpoint /\ inv[r].base = head.tag /\ inv[r].pc = "running"
    BY <1>1, RunningTyped DEF Running, SerialInv, AllSound, Sound
  <2>3. head'.paused /\ head'.next = "await_approval" /\ head'.ch = head.ch
    BY <1>2, <2>1, <2>2 DEF Pause, Checkpoint
  <2> DEFINE v == IF r.op = "timer" THEN Idle ELSE [pc |-> "done"]
  <2>4. inv' = [inv EXCEPT ![r] = v] /\ v.pc \in {"idle", "done"} /\ (v.pc = "idle" => r.op = "timer")
    BY <2>1 DEF Pause, Idle
  <2> HIDE DEF v
  <2>5. inv'[r] = v /\ \A q \in Requests : q # r => inv'[q] = inv[q]
    BY <2>4 DEF TypeOK
  <2>6. r.op = "timer" => r.op \notin EvaluationOps
    BY DEF EvaluationOps
  <2>7. Unannounced(t) /\ t.op \in EvaluationOps /\ inv[t].pc \notin {"idle", "checked"}
    BY <1>2, <1>6 DEF Announcement, HeadAnnounced
  <2>8. posts' = posts \cup {[key |-> key, amount |-> head.ch.amount]}
    BY <1>4, <2>7 DEF Post, Unannounced
  <2>9. \A q \in Requests : q # t /\ Unannounced(q) => Unannounced(q)'
    <3> SUFFICES ASSUME NEW q \in Requests, q # t, Unannounced(q), NEW p \in posts'
                 PROVE  p.key # <<"approval_requested", q>>
      BY DEF Unannounced
    <3>1. key # <<"approval_requested", q>>
      OBVIOUS
    <3> HIDE DEF key
    <3> QED
      BY <2>8, <3>1 DEF Unannounced
  <2>10. TriggersWait'
    <3> SUFFICES ASSUME NEW q \in Requests, q.op \in EvaluationOps, inv'[q].pc \in {"idle", "checked"}
                 PROVE  Unannounced(q)'
      BY DEF TriggersWait
    <3>1. q # r
      BY <2>4, <2>5, <2>6
    <3>2. inv[q].pc \in {"idle", "checked"} /\ q # t
      BY <2>5, <2>7, <3>1
    <3> HIDE DEF t
    <3> QED
      BY <2>9, <3>2 DEF Announcement, TriggersWait
  <2>11. AnnouncedAs(t, head.ch.amount)'
    BY <2>3, <2>8 DEF AnnouncedAs
  <2>12. inv'[t].pc \notin {"idle", "checked"}
    BY <1>3, <2>4, <2>5, <2>6, <2>7
  <2>13. HeadAnnounced'
    BY <2>3, <2>7, <2>11, <2>12 DEF HeadAnnounced
  <2>14. TriggerKept'
    BY <2>3, <2>4, <2>5 DEF Announcement, TriggerKept
  <2> QED
    BY <2>10, <2>13, <2>14 DEF Announcement
<1> QED
  BY <1>2, <1>5, <1>6

\* The steps of the endpoints and of the runtime.
LEMMA AnnouncedRequests ==
  ASSUME TypeOK, SerialInv, Announcement, OneAtATime', NEW r \in Requests,
         \/ StartRun(r) \/ RequirePendingNode(r) \/ InternalSlaCheck(r) \/ PolicyCheck(r)
         \/ UpdateState(r) \/ Invoke(r) \/ Save(r) \/ RejectPayload(r) \/ Fault(r)
  PROVE  Announcement'
<1>0. UNCHANGED posts /\ OtherPosts
  BY DEF StartRun, RequirePendingNode, InternalSlaCheck, PolicyCheck, UpdateState, Invoke, Save,
     RejectPayload, Fault, world, OtherPosts, Unannounced
<1>1. CASE StartRun(r)
  <2> DEFINE v == [pc |-> "running", node |-> "compute_exposure", base |-> [by |-> r, at |-> "input"],
                   fresh |-> FALSE, polled |-> FALSE, ch |-> NewChannels(r)]
  <2>1. /\ MayStart(r) /\ r.op = "start" /\ inv' = [inv EXCEPT ![r] = v]
        /\ v.pc = "running" /\ head'.ch.trigger = r /\ head'.next = "compute_exposure" /\ ~head'.paused
    BY <1>1 DEF StartRun, MayStart, NewChannels
  <2> HIDE DEF v
  <2>2. inv'[r] = v /\ \A q \in Requests : q # r => inv'[q] = inv[q]
    BY <2>1 DEF TypeOK
  <2>3. Unannounced(r)
    <3>1. CASE head = NoRun
      BY <2>1, <3>1 DEF MayStart, Announcement, TriggersWait, EvaluationOps
    <3>2. CASE head # NoRun
      BY <2>1, <3>2, StartsClean DEF Announcement, HeadAnnounced
    <3> QED
      BY <3>1, <3>2
  <2>4. TriggersWait'
    BY <1>0, <2>1, <2>2 DEF Announcement, TriggersWait, OtherPosts
  <2>5. HeadAnnounced'
    BY <1>0, <2>1, <2>2, <2>3 DEF HeadAnnounced, EvaluationOps, OtherPosts
  <2>6. \A q \in Requests : inv'[q].pc # "saving"
    BY <2>1, <2>2 DEF OneAtATime, Active
  <2> QED
    BY <2>4, <2>5, <2>6 DEF Announcement, TriggerKept
<1>2. CASE \/ RequirePendingNode(r) \/ InternalSlaCheck(r) \/ PolicyCheck(r)
           \/ RejectPayload(r) \/ Fault(r)
  <2>1. PICK pc \in {"idle", "checked", "refused", "done", "failed"} :
          /\ Goto(r, pc) /\ UNCHANGED head
          /\ pc = "checked" => inv[r].pc = "idle"
          /\ pc = "idle" => r.op \in {"timer", "delivery_failed"}
    BY <1>2 DEF RequirePendingNode, InternalSlaCheck, PolicyCheck, RejectPayload, Fault
  <2>2. pc = "idle" => r.op \notin EvaluationOps
    BY <2>1 DEF EvaluationOps
  <2> QED
    BY <1>0, <2>1, <2>2, AnnouncedGoto
<1>3. CASE UpdateState(r)
  <2>1. r.op = "reevaluate" /\ inv[r].pc = "checked"
    BY <1>3 DEF UpdateState
  <2>2. head.ch \in Channels
    BY <2>1, ActiveHasRun DEF Active, Checkpoint
  <2> DEFINE v == [pc |-> "stamped"]
  <2>3. /\ inv' = [inv EXCEPT ![r] = v] /\ v.pc = "stamped"
        /\ head'.ch.trigger = r /\ head'.next = "compute_exposure" /\ ~head'.paused
    BY <1>3, <2>2 DEF UpdateState, Goto, Channels
  <2> HIDE DEF v
  <2>4. inv'[r] = v /\ \A q \in Requests : q # r => inv'[q] = inv[q]
    BY <2>3 DEF TypeOK
  <2>5. Unannounced(r)
    BY <2>1 DEF Announcement, TriggersWait, EvaluationOps
  <2>6. TriggersWait'
    BY <1>0, <2>3, <2>4 DEF Announcement, TriggersWait, OtherPosts
  <2>7. HeadAnnounced'
    BY <1>0, <2>1, <2>3, <2>4, <2>5 DEF HeadAnnounced, EvaluationOps, OtherPosts
  <2>8. \A q \in Requests : inv'[q].pc # "saving"
    BY <2>1, <2>3, <2>4 DEF SerialInv, OneAtATime, Active
  <2> QED
    BY <2>6, <2>7, <2>8 DEF Announcement, TriggerKept
<1>4. CASE Invoke(r)
  <2> DEFINE w == [pc |-> "running", node |-> head.next, base |-> head.tag,
                   fresh |-> r.op \in ResumeOps, polled |-> head.polled, ch |-> head.ch]
  <2>1. Goto(r, "done") \/ (inv' = [inv EXCEPT ![r] = w] /\ w.pc = "running")
    BY <1>4 DEF Invoke
  <2> HIDE DEF w
  <2>2. UNCHANGED head
    BY <1>4 DEF Invoke
  <2>3. CASE Goto(r, "done")
    BY <1>0, <2>2, <2>3, AnnouncedGoto
  <2>4. ASSUME NEW v, inv' = [inv EXCEPT ![r] = v], v.pc = "running"
        PROVE  Announcement'
    BY <1>0, <2>2, <2>4, AnnouncedMove
  <2> QED
    BY <2>1, <2>3, <2>4
<1>5. CASE Save(r)
  <2>1. inv[r] \in Invocation("saving") /\ inv[r].pc = "saving"
    BY <1>5, InvocationTyped DEF Save, TypeOK
  <2>2. /\ Outcome(head.next, head.ch, inv[r].node, inv[r].ch, notices, clock) /\ head.next # END
        /\ inv[r].ch.trigger = head.ch.trigger
    BY <2>1 DEF SerialInv, AllSound, Sound, Returns, Announcement, TriggerKept
  <2>3. head \in Checkpoint /\ head # NoRun
    BY <2>1, ActiveHasRun, NoRunIsNoCheckpoint DEF Active
  <2>4. head'.next = inv[r].node /\ ~head'.paused /\ head'.ch = inv[r].ch
    BY <1>5 DEF Save
  <2> DEFINE v == IF inv[r].node = END THEN [pc |-> "done"] ELSE [inv[r] EXCEPT !.pc = "running"]
  <2>5. inv' = [inv EXCEPT ![r] = v] /\ v.pc \in {"done", "running"}
    BY <1>5, <2>1 DEF Save, TypeOK, Invocation
  <2> HIDE DEF v
  <2>0. PICK t \in Requests : t = head.ch.trigger
    BY <2>3 DEF Checkpoint, Channels
  <2>6. inv'[r] = v /\ \A q \in Requests : q # r => inv'[q] = inv[q]
    BY <2>5 DEF TypeOK
  <2>7. inv[r].node \in Evaluating \cup {"await_approval"} => ~head.paused /\ head.next \in Evaluating
    <3>1. head.next \in Nodes
      BY <2>2, <2>3 DEF Checkpoint
    <3>2. inv[r].node \in Evaluating \cup {"await_approval"} => head.next \in Evaluating
      BY <2>2, <3>1 DEF Outcome, Nodes, Evaluating, END
    <3>3. head.next \in Evaluating => ~head.paused
      BY <2>3 DEF SerialInv, HeadStands, Evaluating, Gates
    <3> QED
      BY <3>2, <3>3
  <2>8. /\ t \in Requests /\ t.op \in EvaluationOps /\ inv[t].pc \notin {"idle", "checked"}
        /\ inv[r].node \in Evaluating \cup {"await_approval"} => Unannounced(t)
    BY <2>0, <2>3, <2>7 DEF Announcement, HeadAnnounced
  <2>9. TriggersWait'
    BY <1>0, <2>5, <2>6 DEF Announcement, TriggersWait, OtherPosts
  <2>10. inv'[t].pc \notin {"idle", "checked"} /\ head'.ch.trigger = t
    BY <2>0, <2>2, <2>4, <2>5, <2>6, <2>8
  <2>11. inv[r].node \in Evaluating \cup {"await_approval"} => Unannounced(t)'
    BY <1>0, <2>8 DEF OtherPosts
  <2>12. HeadAnnounced'
    BY <2>4, <2>8, <2>10, <2>11 DEF HeadAnnounced, Unannounced
  <2>13. \A q \in Requests : inv'[q].pc # "saving"
    BY <2>1, <2>5, <2>6 DEF SerialInv, OneAtATime, Active
  <2> QED
    BY <2>9, <2>12, <2>13 DEF Announcement, TriggerKept
<1> QED
  BY <1>1, <1>2, <1>3, <1>4, <1>5

\* The nodes.
LEMMA AnnouncedNodes ==
  ASSUME TypeOK, SerialInv, Announcement, NEW r \in Requests,
         \/ ComputeExposure(r) \/ FetchCsaTerms(r) \/ EvaluateBreach(r)
         \/ AwaitManagerApproval(r) \/ SendNotification(r)
         \/ AwaitSlaResponse(r) \/ SendSlaMetNotification(r) \/ Escalate(r)
  PROVE  Announcement'
<1>1. UNCHANGED posts => OtherPosts
  BY DEF OtherPosts, Unannounced
<1>2. ASSUME NEW node, Running(r, node)
      PROVE  inv[r].ch = head.ch /\ head.ch \in Channels /\ inv[r].fresh \in BOOLEAN
             /\ inv[r].polled \in BOOLEAN
  BY <1>2, RunnerStands
<1>3. CASE ComputeExposure(r) \/ FetchCsaTerms(r)
  <2>1. PICK node, next : Running(r, node) /\ Return(r, inv[r].ch, next) /\ UNCHANGED <<head, posts>>
    BY <1>3 DEF ComputeExposure, FetchCsaTerms, world
  <2> QED
    BY <1>1, <1>2, <2>1, AnnouncedReturn
<1>4. CASE EvaluateBreach(r)
  <2>1. Running(r, "evaluate_breach") /\ UNCHANGED <<head, posts>>
    BY <1>4 DEF EvaluateBreach, world
  <2>2. inv[r].ch = head.ch /\ head.ch \in Channels
    BY <1>2, <2>1
  <2>3. PICK a \in Amounts \cup {NoCall}, low \in BOOLEAN :
          LET ch == [head.ch EXCEPT !.amount = a, !.below_mta = low]
          IN  Return(r, ch, RouteAfterBreach(ch))
    BY <1>4, <2>2 DEF EvaluateBreach
  <2> DEFINE ch == [head.ch EXCEPT !.amount = a, !.below_mta = low]
  <2>4. Return(r, ch, RouteAfterBreach(ch)) /\ ch.trigger = head.ch.trigger
    BY <2>2, <2>3 DEF Channels
  <2> HIDE DEF ch
  <2> QED
    BY <1>1, <2>1, <2>4, AnnouncedReturn
<1>5. CASE AwaitManagerApproval(r)
  <2> DEFINE ch == ManagerUpdate(inv[r].ch, r)
  <2>1. Running(r, "await_manager_approval") /\ Post(<<"manager_approval_requested">>, Effective(inv[r].ch))
    BY <1>5 DEF AwaitManagerApproval, Gate
  <2>2. OtherPosts
    BY <2>1, OtherKeys
  <2>3. ch.trigger = head.ch.trigger
    BY <1>2, <2>1 DEF ManagerUpdate, Channels
  <2>4. (Return(r, ch, RouteAfterManagerApproval(ch)) /\ UNCHANGED head) \/ Pause(r, FALSE)
    BY <1>5 DEF AwaitManagerApproval, Gate
  <2> HIDE DEF ch
  <2> QED
    BY <2>1, <2>2, <2>3, <2>4, AnnouncedReturn, AnnouncedPause DEF Gates
<1>6. CASE SendNotification(r)
  <2>1. Running(r, "send_notification") /\ UNCHANGED head
    BY <1>6 DEF SendNotification
  <2>2. PICK ch \in {SentUpdate(inv[r].ch), FailedSendUpdate(inv[r].ch)} : Return(r, ch, RouteAfterSend(ch))
    BY <1>6 DEF SendNotification
  <2>3. ch.trigger = head.ch.trigger
    <3>1. inv[r].ch = head.ch /\ head.ch \in Channels
      BY <1>2, <2>1
    <3>2. SentUpdate(head.ch).trigger = head.ch.trigger
      BY <3>1 DEF SentUpdate, Channels
    <3>3. FailedSendUpdate(head.ch).trigger = head.ch.trigger
      BY <3>1 DEF FailedSendUpdate, Channels
    <3> QED
      BY <2>2, <3>1, <3>2, <3>3
  <2>4. \/ UNCHANGED posts \/ Post(<<"client_notified">>, Effective(inv[r].ch))
        \/ Post(<<"delivery_failed">>, Effective(inv[r].ch))
    BY <1>6 DEF SendNotification
  <2>5. OtherPosts
    BY <1>1, <2>4, OtherKeys
  <2> QED
    BY <2>1, <2>2, <2>3, <2>5, AnnouncedReturn
<1>7. CASE AwaitSlaResponse(r)
  <2> DEFINE ch == SlaOutcome(inv[r].ch, r, inv[r].polled)
  <2>1. Running(r, "await_sla_response")
    BY <1>7 DEF AwaitSlaResponse
  <2>2. UNCHANGED posts \/ Post(<<"delivery_failed">>, Effective(ch))
    BY <1>7 DEF AwaitSlaResponse
  <2>3. OtherPosts
    BY <1>1, <2>2, OtherKeys
  <2>4. ch.trigger = head.ch.trigger
    BY <1>2, <2>1 DEF SlaOutcome, Channels
  <2>5. (Return(r, ch, RouteAfterSla(ch)) /\ UNCHANGED head) \/ \E p \in BOOLEAN : Pause(r, p)
    BY <1>2, <1>7, <2>1 DEF AwaitSlaResponse
  <2> HIDE DEF ch
  <2> QED
    BY <2>1, <2>3, <2>4, <2>5, AnnouncedReturn, AnnouncedPause DEF Gates
<1>8. CASE SendSlaMetNotification(r) \/ Escalate(r)
  <2>1. PICK ch \in {[inv[r].ch EXCEPT !.confirmed = TRUE], [inv[r].ch EXCEPT !.escalated = TRUE]} :
          Return(r, ch, END) /\ UNCHANGED head
    BY <1>8 DEF SendSlaMetNotification, Escalate
  <2>0. Running(r, "send_sla_met_notification") \/ Running(r, "escalate")
    BY <1>8 DEF SendSlaMetNotification, Escalate
  <2>2. ch.trigger = head.ch.trigger
    BY <1>2, <2>0, <2>1 DEF Channels
  <2>3. \/ UNCHANGED posts \/ Post(<<"client_acknowledged">>, Effective(inv[r].ch))
        \/ Post(<<"escalated">>, Effective(inv[r].ch))
    BY <1>8 DEF SendSlaMetNotification, Escalate
  <2>4. OtherPosts
    BY <1>1, <2>3, OtherKeys
  <2> QED
    BY <2>1, <2>2, <2>4, AnnouncedReturn
<1> QED
  BY <1>3, <1>4, <1>5, <1>6, <1>7, <1>8

\* Approvers are asked to sign the figure that is pending.
THEOREM FigureAnnounced == SerialSpec => []PendingFigureAnnounced
<1>1. Init => Announcement
  BY DEF Init, Announcement, TriggersWait, HeadAnnounced, TriggerKept, Unannounced, Idle
<1>2. TypeOK /\ SerialInv /\ Announcement /\ [Next /\ OneAtATime']_vars => Announcement'
  <2> SUFFICES ASSUME TypeOK, SerialInv, Announcement, [Next /\ OneAtATime']_vars
               PROVE  Announcement'
    OBVIOUS
  <2>1. CASE Tick \/ UNCHANGED vars
    BY <2>1 DEF Tick, vars, Announcement, TriggersWait, HeadAnnounced, TriggerKept, Unannounced, AnnouncedAs
  <2>2. ASSUME NEW r \in Requests, Step(r) \/ Fault(r), OneAtATime'
        PROVE  Announcement'
    BY <2>2, AnnouncedRequests, AnnouncedNodes, AnnouncedApproval DEF Step
  <2> QED
    BY <2>1, <2>2 DEF Next
<1>3. Announcement => PendingFigureAnnounced
  BY DEF Announcement, HeadAnnounced, AnnouncedAs, Pending, PendingFigureAnnounced
<1> QED
  BY <1>1, <1>2, <1>3, SerialInductive, SerialIsSpec, TypeCorrect, PTL DEF SerialSpec

-----------------------------------------------------------------------------
(* The call, seen from the channels of the head and from the world.        *)

StageIn(ch, told, opened) ==
  IF ch.amount # Unset /\ ch.confirmed THEN "met"
  ELSE IF opened # <<>> THEN "escalated"
  ELSE IF ch.amount = Unset THEN "none"
  ELSE IF ch.sla # "none" THEN ch.sla
  ELSE IF told # <<>> THEN "told"
  ELSE IF ch.amount = NoCall \/ ch.below_mta \/ ch.decision \in {"rejected", "disputed"}
       THEN "closed"
  ELSE IF ch.decision \in {"approved", "adjusted"} /\ (Elite => ch.manager_decision = "approved")
       THEN "signed"
  ELSE IF ch.decision # "none" THEN "countersigning"
  ELSE "raised"
NoCallIn == {"none", "closed"}
FigureIn(stage, ch) == IF stage \notin NoCallIn THEN Effective(ch) ELSE NoCall
SignersIn(stage, ch) == IF stage \notin NoCallIn THEN {ch.first, ch.manager} \ {NoUser} ELSE {}
BouncedIn(ch) == ch.amount # Unset /\ ch.failure

\* The refinement mapping is that view.
LEMMA CallSeen ==
  ASSUME head # NoRun
  PROVE  /\ CallStage = StageIn(head.ch, notices, incidents)
         /\ CallFigure = FigureIn(CallStage, head.ch) /\ CallSigners = SignersIn(CallStage, head.ch)
         /\ CallBounced = BouncedIn(head.ch)
<1>1. Now = head.ch
  BY DEF Now
<1>2. CallStage = StageIn(head.ch, notices, incidents)
  BY <1>1 DEF CallStage, FullySigned, StageIn
<1> QED
  BY <1>1, <1>2 DEF CallFigure, CallSigners, CallBounced, IsCall, FigureIn, SignersIn, BouncedIn, NoCallIn

\* After a step as before it.
LEMMA CallSeenNext ==
  ASSUME head' # NoRun
  PROVE  /\ CallStage' = StageIn(head'.ch, notices', incidents')
         /\ CallFigure' = FigureIn(CallStage', head'.ch) /\ CallSigners' = SignersIn(CallStage', head'.ch)
         /\ CallBounced' = BouncedIn(head'.ch)
<1>1. Now' = head'.ch
  BY DEF Now
<1>2. CallStage' = StageIn(head'.ch, notices', incidents')
  BY <1>1 DEF CallStage, FullySigned, StageIn
<1> QED
  BY <1>1, <1>2 DEF CallFigure, CallSigners, CallBounced, IsCall, FigureIn, SignersIn, BouncedIn, NoCallIn

\* Where the run stands says what stage the call is at.
LEMMA StageAt ==
  ASSUME NEW node, NEW ch, Stands(node, ch), NEW told, NEW opened, Len(told) \in Nat,
         node # "send_notification" => Told(ch, told),
         node # "escalate" => Opened(ch, opened)
  PROVE  /\ node \in Evaluating => StageIn(ch, told, opened) = IF ch.amount = Unset THEN "none" ELSE "raised"
         /\ node = "await_approval" => StageIn(ch, told, opened) = "raised"
         /\ node = "await_manager_approval" => StageIn(ch, told, opened) = "countersigning"
         /\ node = "send_notification" =>
              StageIn(ch, told, opened) = IF told = <<>> THEN "signed" ELSE "told"
         /\ node = "await_sla_response" => StageIn(ch, told, opened) = "told"
         /\ node = "send_sla_met_notification" => StageIn(ch, told, opened) = "met"
         /\ node = "escalate" =>
              StageIn(ch, told, opened) = IF opened = <<>> THEN "breached" ELSE "escalated"
         /\ node = END => StageIn(ch, told, opened) \in {"closed", "met", "escalated"}
         /\ node = END /\ Unsent(ch) => StageIn(ch, told, opened) = "closed"
<1>1. /\ node # "send_notification" /\ ch.sent_at = 0 => told = <<>>
      /\ node # "send_notification" /\ ch.sent_at # 0 /\ ~ch.failure => told # <<>>
  BY DEF Told
<1>2. node # "escalate" => (ch.escalated <=> opened # <<>>)
  BY DEF Opened
<1>3. CASE node \in Evaluating
  BY <1>1, <1>2, <1>3, ValuesAssumption DEF Stands, StageIn, NobodySigned, NotCountersigned, Unsent, Raised, Evaluating, END
<1>4. CASE node = "await_approval"
  BY <1>1, <1>2, <1>4, ValuesAssumption DEF Stands, StageIn, NobodySigned, NotCountersigned, Unsent, Raised, Evaluating, END
<1>5. CASE node = "await_manager_approval"
  BY <1>1, <1>2, <1>5, ValuesAssumption DEF Stands, StageIn, FirstSigned, NotCountersigned, Unsent, Raised, Evaluating, END
<1>6. CASE node = "send_notification"
  BY <1>1, <1>2, <1>6, ValuesAssumption DEF Stands, StageIn, AllSigned, FirstSigned, NotCountersigned, Unsent, Raised, Evaluating, END
<1>7. CASE node = "await_sla_response"
  BY <1>1, <1>2, <1>7, ValuesAssumption DEF Stands, StageIn, Pursued, AllSigned, FirstSigned, Raised, Evaluating, END
<1>8. CASE node = "send_sla_met_notification"
  BY <1>1, <1>2, <1>8, ValuesAssumption DEF Stands, StageIn, Met, Pursued, AllSigned, FirstSigned, Raised, Evaluating, END
<1>9. CASE node = "escalate"
  BY <1>1, <1>2, <1>9, ValuesAssumption DEF Stands, StageIn, Breached, Pursued, AllSigned, FirstSigned, Raised, Evaluating, END
<1>10. CASE node = END
  <2>1. CASE Closed(ch)
    BY <1>1, <1>2, <1>10, <2>1, ValuesAssumption DEF StageIn, Closed, Unsent, Evaluating, END
  <2>2. CASE Met(ch) /\ ch.confirmed
    BY <1>1, <1>2, <1>10, <2>2, ValuesAssumption DEF StageIn, Met, Pursued, Unsent, AllSigned, FirstSigned, Raised, Evaluating, END
  <2>3. CASE Breached(ch) /\ ch.escalated
    BY <1>1, <1>2, <1>10, <2>3, ValuesAssumption DEF StageIn, Breached, Pursued, Unsent, AllSigned, FirstSigned, Raised, Evaluating, END
  <2> QED
    BY <1>10, <2>1, <2>2, <2>3 DEF Stands
<1> QED
  BY <1>3, <1>4, <1>5, <1>6, <1>7, <1>8, <1>9, <1>10

\* Who signed, by how far the signatures have come.
LEMMA SignersAt ==
  ASSUME NEW ch \in Channels, NEW stage, stage \notin NoCallIn
  PROVE  /\ NobodySigned(ch) => SignersIn(stage, ch) = {} /\ FigureIn(stage, ch) = ch.amount
         /\ FirstSigned(ch) => FigureIn(stage, ch) \in Amounts
         /\ FirstSigned(ch) /\ NotCountersigned(ch) => SignersIn(stage, ch) = {ch.first}
         /\ AllSigned(ch) /\ Elite => SignersIn(stage, ch) = {ch.first, ch.manager}
         /\ ch.amount \in Amounts => (BouncedIn(ch) <=> ch.failure)
<1>1. NobodySigned(ch) => SignersIn(stage, ch) = {} /\ FigureIn(stage, ch) = ch.amount
  BY DEF NobodySigned, NotCountersigned, SignersIn, FigureIn, Effective
<1>2. FirstSigned(ch) => FigureIn(stage, ch) \in Amounts
  BY DEF FirstSigned, Raised, FigureIn, Effective, Channels
<1>3. FirstSigned(ch) /\ NotCountersigned(ch) => SignersIn(stage, ch) = {ch.first}
  BY ValuesAssumption DEF FirstSigned, NotCountersigned, SignersIn
<1>4. AllSigned(ch) /\ Elite => SignersIn(stage, ch) = {ch.first, ch.manager}
  BY ValuesAssumption DEF AllSigned, FirstSigned, SignersIn
<1>5. ch.amount \in Amounts => (BouncedIn(ch) <=> ch.failure)
  BY ValuesAssumption DEF BouncedIn
<1> QED
  BY <1>1, <1>2, <1>3, <1>4, <1>5

\* Channels that differ only in what no stage is read from.
Alike(old, new) ==
  /\ SameCall(old, new) /\ new.below_mta = old.below_mta
  /\ new.manager_decision = old.manager_decision /\ new.manager = old.manager
  /\ new.failure = old.failure /\ new.sla = old.sla /\ new.confirmed = old.confirmed

\* A step of the run between such channels is no step of the call.
LEMMA Quiet ==
  ASSUME head # NoRun, head' # NoRun, Alike(head.ch, head'.ch), UNCHANGED <<clock, notices, incidents>>
  PROVE  UNCHANGED Call!callVars
<1> DEFINE old == head.ch
           new == head'.ch
<1>1. /\ CallStage = StageIn(old, notices, incidents) /\ CallStage' = StageIn(new, notices, incidents)
      /\ CallFigure = FigureIn(CallStage, old) /\ CallFigure' = FigureIn(CallStage', new)
      /\ CallSigners = SignersIn(CallStage, old) /\ CallSigners' = SignersIn(CallStage', new)
      /\ CallBounced = BouncedIn(old) /\ CallBounced' = BouncedIn(new)
  BY CallSeen, CallSeenNext
<1>2. Alike(old, new)
  OBVIOUS
<1> HIDE DEF old, new
<1>3. CallStage' = CallStage
  BY <1>1, <1>2 DEF StageIn, Alike, SameCall
<1>4. CallFigure' = CallFigure /\ CallSigners' = CallSigners /\ CallBounced' = CallBounced
  BY <1>1, <1>2, <1>3 DEF FigureIn, SignersIn, BouncedIn, Effective, Alike, SameCall
<1>5. CallTold' = CallTold /\ Len(incidents)' = Len(incidents) /\ clock' = clock
  BY DEF CallTold
<1> QED
  BY <1>3, <1>4, <1>5 DEF Call!callVars

\* A checkpoint saved is a step of the call, or none.
LEMMA SaveIsCall ==
  ASSUME TypeOK, SerialInv, NEW r \in Requests, Save(r)
  PROVE  [Call!Next]_(Call!callVars)
<1> DEFINE old == head.ch
           new == inv[r].ch
           node == head.next
           next == inv[r].node
<1>1. inv[r] \in Invocation("saving") /\ inv[r].pc = "saving"
  BY InvocationTyped DEF Save, TypeOK
<1>2. head \in Checkpoint /\ head # NoRun /\ head'.ch = new /\ head' # NoRun
      /\ UNCHANGED <<clock, notices, incidents>>
  BY <1>1, ActiveHasRun, NoRunIsNoCheckpoint DEF Active, Save, NoRun, world
<1>3. /\ Stands(next, new) /\ Told(new, notices) /\ Opened(new, incidents) /\ node # END
      /\ Outcome(node, old, next, new, notices, clock)
  BY <1>1 DEF SerialInv, AllSound, Sound, Returns
<1>4. /\ Stands(node, old) /\ Len(notices) \in Nat
      /\ node # "send_notification" => Told(old, notices)
      /\ node # "escalate" => Opened(old, incidents)
  BY <1>2 DEF SerialInv, HeadStands, WorldAgrees, TypeOK
<1>5. old \in Channels /\ new \in Channels /\ node \in Nodes
  BY <1>1, <1>2, <1>3 DEF Checkpoint, Invocation
<1>6. /\ CallStage = StageIn(old, notices, incidents) /\ CallStage' = StageIn(new, notices, incidents)
      /\ CallFigure = FigureIn(CallStage, old) /\ CallFigure' = FigureIn(CallStage', new)
      /\ CallSigners = SignersIn(CallStage, old) /\ CallSigners' = SignersIn(CallStage', new)
      /\ CallBounced = BouncedIn(old) /\ CallBounced' = BouncedIn(new)
  BY <1>2, CallSeen, CallSeenNext
<1>7. CallTold' = CallTold /\ Len(incidents)' = Len(incidents) /\ clock' = clock
  BY <1>2 DEF CallTold
<1>8. Alike(old, new) => UNCHANGED Call!callVars
  BY <1>2, Quiet
<1> HIDE DEF old, new, node, next
<1>9. CASE node \in {"compute_exposure", "fetch_csa_terms"}
  BY <1>3, <1>8, <1>9 DEF Outcome, Alike, SameCall
<1>10. CASE node = "evaluate_breach"
  <2>1. /\ next \in {"await_approval", END} /\ NobodySigned(new) /\ Unsent(new)
        /\ NobodySigned(old) /\ Unsent(old) /\ (old.amount \in Amounts \/ old.amount = Unset)
    BY <1>3, <1>4, <1>10 DEF Outcome, Stands, Evaluating, Raised
  <2>2. CallStage \in {"none", "raised"} /\ (CallStage = "raised" => old.amount \in Amounts)
    BY <1>4, <1>6, <1>10, <2>1, StageAt, ValuesAssumption DEF Evaluating, END
  <2>3. CallSigners = {} /\ ~CallBounced
    BY <1>5, <1>6, <2>1, <2>2, SignersAt DEF SignersIn, BouncedIn, NoCallIn, Unsent
  <2>4. ~CallBounced'
    BY <1>6, <2>1 DEF BouncedIn, Unsent
  <2>5. CASE next = "await_approval"
    <3>0. new.amount \in Amounts
      BY <1>3, <2>5 DEF Stands, Raised, Evaluating, END
    <3>1. CallStage' = "raised"
      BY <1>3, <1>4, <1>6, <2>5, StageAt DEF END
    <3>2. CallFigure' = new.amount /\ CallSigners' = {}
      BY <1>5, <1>6, <2>1, <3>1, SignersAt DEF NoCallIn
    <3>3. Call!Evaluate(new.amount)
      BY <1>7, <2>2, <2>3, <2>4, <3>1, <3>2 DEF Call!Evaluate, CallBounced
    <3> QED
      BY <3>0, <3>3 DEF Call!Next
  <2>6. CASE next = END
    <3>1. CallStage' = "closed"
      BY <1>3, <1>4, <1>6, <2>1, <2>6, StageAt DEF END
    <3>2. CallFigure' = NoCall /\ CallSigners' = {}
      BY <1>6, <3>1 DEF FigureIn, SignersIn, NoCallIn
    <3>3. Call!Close
      BY <1>7, <2>2, <2>3, <2>4, <3>1, <3>2 DEF Call!Close, CallBounced
    <3> QED
      BY <3>3 DEF Call!Next
  <2> QED
    BY <2>1, <2>5, <2>6
<1>11. CASE node = "await_approval"
  <2>1. /\ next \in {"await_manager_approval", "send_notification", END} /\ Unsent(new)
        /\ next = "send_notification" => ~Elite
        /\ NobodySigned(old) /\ Unsent(old) /\ Raised(old)
    BY <1>3, <1>4, <1>11 DEF Outcome, Stands, Evaluating, END
  <2>0. CallStage = "raised"
    BY <1>4, <1>6, <1>11, StageAt DEF END
  <2>2. CallSigners = {} /\ ~CallBounced
    BY <1>5, <1>6, <2>0, <2>1, SignersAt DEF NoCallIn, BouncedIn, Unsent
  <2>3. ~CallBounced'
    BY <1>6, <2>1 DEF BouncedIn, Unsent
  <2>4. CASE next # END
    <3>1. FirstSigned(new) /\ NotCountersigned(new) /\ (next = "await_manager_approval" <=> Elite)
      BY <1>3, <2>1, <2>4 DEF Stands, AllSigned, END
    <3>2. CallStage' = IF Elite THEN "countersigning" ELSE "signed"
      BY <1>3, <1>4, <1>6, <2>1, <2>4, <3>1, UnsentTold, StageAt DEF END
    <3>3. CallFigure' \in Amounts /\ CallSigners' = {new.first} /\ new.first \in Users
      BY <1>5, <1>6, <3>1, <3>2, SignersAt DEF NoCallIn, FirstSigned
    <3>4. Call!Sign(new.first, CallFigure')
      BY <1>7, <2>0, <2>2, <2>3, <3>2, <3>3 DEF Call!Sign, CallBounced
    <3> QED
      BY <3>3, <3>4 DEF Call!Next
  <2>5. CASE next = END
    <3>1. CallStage' = "closed"
      BY <1>3, <1>4, <1>6, <2>1, <2>5, StageAt DEF END
    <3>2. CallFigure' = NoCall /\ CallSigners' = {}
      BY <1>6, <3>1 DEF FigureIn, SignersIn, NoCallIn
    <3>3. Call!Close
      BY <1>7, <2>0, <2>2, <2>3, <3>1, <3>2 DEF Call!Close, CallBounced
    <3> QED
      BY <3>3 DEF Call!Next
  <2> QED
    BY <2>4, <2>5
<1>12. CASE node = "await_manager_approval"
  <2>1. /\ next \in {"send_notification", END} /\ Unsent(new)
        /\ next = "send_notification" => SameCall(old, new)
        /\ Elite /\ FirstSigned(old) /\ NotCountersigned(old) /\ Unsent(old)
    BY <1>3, <1>4, <1>12 DEF Outcome, Stands, Evaluating, END
  <2>0. CallStage = "countersigning"
    BY <1>4, <1>6, <1>12, StageAt DEF END
  <2>2. CallSigners = {old.first} /\ ~CallBounced
    BY <1>5, <1>6, <2>0, <2>1, SignersAt DEF NoCallIn, BouncedIn, Unsent
  <2>3. ~CallBounced'
    BY <1>6, <2>1 DEF BouncedIn, Unsent
  <2>4. CASE next # END
    <3>1. AllSigned(new) /\ SameCall(old, new) /\ next = "send_notification"
      BY <1>3, <2>1, <2>4 DEF Stands, END
    <3>2. CallStage' = "signed"
      BY <1>3, <1>4, <1>6, <2>1, <3>1, UnsentTold, StageAt DEF END
    <3>3. CallFigure' = CallFigure
      BY <1>6, <2>0, <3>1, <3>2 DEF FigureIn, NoCallIn, Effective, SameCall
    <3>4. CallSigners' = {new.first, new.manager} /\ new.manager \in Users /\ new.manager # old.first
          /\ new.first = old.first
      BY <1>5, <1>6, <2>1, <3>1, <3>2, SignersAt DEF NoCallIn, AllSigned, SameCall
    <3>5. Call!Countersign(new.manager)
      BY <1>7, <2>0, <2>2, <2>3, <3>2, <3>3, <3>4 DEF Call!Countersign, CallBounced
    <3> QED
      BY <3>4, <3>5 DEF Call!Next
  <2>5. CASE next = END
    <3>1. CallStage' = "closed"
      BY <1>3, <1>4, <1>6, <2>1, <2>5, StageAt DEF END
    <3>2. CallFigure' = NoCall /\ CallSigners' = {}
      BY <1>6, <3>1 DEF FigureIn, SignersIn, NoCallIn
    <3>3. Call!Close
      BY <1>7, <2>0, <2>2, <2>3, <3>1, <3>2 DEF Call!Close, CallBounced
    <3> QED
      BY <3>3 DEF Call!Next
  <2> QED
    BY <2>4, <2>5
<1>13. CASE node = "send_notification"
  <2>1. /\ next \in {"await_sla_response", "escalate"}
        /\ SameCall(old, new) /\ new.manager = old.manager
        /\ next = "escalate" => new.failure /\ notices = <<>>
        /\ AllSigned(old) /\ Unsent(old) /\ AllSigned(new)
    BY <1>3, <1>4, <1>13 DEF Outcome, Stands, Pursued, Breached, Evaluating, END
  <2>0. CallStage = IF notices = <<>> THEN "signed" ELSE "told"
    BY <1>4, <1>6, <1>13, StageAt DEF END
  <2>2. ~CallBounced
    BY <1>6, <2>1 DEF BouncedIn, Unsent
  <2>3. CASE next = "await_sla_response"
    <3>0. ~new.failure /\ new.sent_at # 0
      BY <1>3, <2>3 DEF Stands, Pursued, Evaluating, END
    <3>1. CallStage' = "told"
      BY <1>3, <1>4, <1>6, <2>3, StageAt DEF END
    <3>2. notices # <<>>
      BY <1>3, <3>0 DEF Told
    <3>3. CallFigure' = CallFigure /\ CallSigners' = CallSigners
      BY <1>6, <2>0, <2>1, <2>2, <3>1, <3>2 DEF FigureIn, SignersIn, NoCallIn, Effective, SameCall
    <3>4. ~CallBounced'
      BY <1>6, <3>0 DEF BouncedIn
    <3> QED
      BY <1>7, <2>0, <2>2, <3>1, <3>2, <3>3, <3>4 DEF Call!callVars, CallBounced
  <2>4. CASE next = "escalate"
    <3>1. Breached(new) /\ ~new.escalated
      BY <1>3, <2>4 DEF Stands
    <3>2. CallStage' = "breached"
      BY <1>3, <1>4, <1>6, <2>4, <3>1, StageAt DEF Opened, END
    <3>3. CallFigure' = CallFigure /\ CallSigners' = CallSigners
      BY <1>6, <2>0, <2>1, <2>2, <3>2 DEF FigureIn, SignersIn, NoCallIn, Effective, SameCall
    <3>4. CallBounced'
      BY <1>6, <2>1, <2>4, ValuesAssumption DEF BouncedIn, AllSigned, FirstSigned, Raised
    <3>5. Call!Bounce
      BY <1>7, <2>0, <2>2, <3>2, <3>3, <3>4 DEF Call!Bounce, CallBounced
    <3> QED
      BY <3>5 DEF Call!Next
  <2> QED
    BY <2>1, <2>3, <2>4
<1>14. CASE node = "await_sla_response"
  <2>1. /\ next \in {"send_sla_met_notification", "escalate"}
        /\ SameCall(old, new) /\ new.manager = old.manager /\ new.sent_at = old.sent_at
        /\ next = "escalate" => new.failure \/ clock >= Deadline(new)
        /\ Pursued(old) /\ ~old.failure /\ Pursued(new)
    BY <1>3, <1>4, <1>14 DEF Outcome, Stands, Met, Breached, Evaluating, END
  <2>0. CallStage = "told"
    BY <1>4, <1>6, <1>14, StageAt DEF END
  <2>2. ~CallBounced
    BY <1>6, <2>1 DEF BouncedIn
  <2>3. CASE next = "send_sla_met_notification"
    <3>0. ~new.failure
      BY <1>3, <2>3 DEF Stands, Met, Evaluating, END
    <3>1. CallStage' = "met"
      BY <1>3, <1>4, <1>6, <2>3, StageAt DEF END
    <3>2. CallFigure' = CallFigure /\ CallSigners' = CallSigners
      BY <1>6, <2>0, <2>1, <2>2, <3>1 DEF FigureIn, SignersIn, NoCallIn, Effective, SameCall
    <3>3. ~CallBounced'
      BY <1>6, <3>0 DEF BouncedIn
    <3>4. Call!Meet
      BY <1>7, <2>0, <2>2, <3>1, <3>2, <3>3 DEF Call!Meet, CallBounced
    <3> QED
      BY <3>4 DEF Call!Next
  <2>4. CASE next = "escalate"
    <3>1. Breached(new) /\ ~new.escalated
      BY <1>3, <2>4 DEF Stands
    <3>2. CallStage' = "breached"
      BY <1>3, <1>4, <1>6, <2>4, <3>1, StageAt DEF Opened, END
    <3>3. CallFigure' = CallFigure /\ CallSigners' = CallSigners
      BY <1>6, <2>0, <2>1, <2>2, <3>2 DEF FigureIn, SignersIn, NoCallIn, Effective, SameCall
    <3>4. CallBounced' <=> new.failure
      BY <1>6, <2>1, ValuesAssumption DEF BouncedIn, Pursued, AllSigned, FirstSigned, Raised
    <3>5. CASE new.failure
      <4>1. Call!Bounce
        BY <1>7, <2>0, <2>2, <3>2, <3>3, <3>4, <3>5 DEF Call!Bounce, CallBounced
      <4> QED
        BY <4>1 DEF Call!Next
    <3>6. CASE ~new.failure
      <4>1. Len(notices) = 1 /\ notices[1].at = old.sent_at
        BY <1>4, <1>14, <2>1 DEF Told, Pursued
      <4>2. clock > old.sent_at
        BY <1>5, <2>1, <2>4, <3>6 DEF Deadline, TypeOK, Channels
      <4>3. CallTold[1] = old.sent_at
        BY <4>1 DEF CallTold, TypeOK
      <4>4. Call!Lapse
        BY <1>7, <2>0, <2>2, <3>2, <3>3, <3>4, <3>6, <4>2, <4>3 DEF Call!Lapse, CallBounced
      <4> QED
        BY <4>4 DEF Call!Next
    <3> QED
      BY <3>5, <3>6
  <2> QED
    BY <2>1, <2>3, <2>4
<1>15. CASE node = "send_sla_met_notification"
  <2>1. /\ next = END /\ new = [old EXCEPT !.confirmed = TRUE] /\ Met(old)
    BY <1>3, <1>4, <1>15 DEF Outcome, Stands, Evaluating, END
  <2>2. /\ SameCall(old, new) /\ new.manager = old.manager /\ new.failure = old.failure /\ new.confirmed
    BY <1>5, <2>1 DEF SameCall, Channels
  <2>3. CallStage = "met"
    BY <1>4, <1>6, <1>15, StageAt DEF END
  <2>4. CallStage' = "met"
    BY <1>6, <2>1, <2>2, ValuesAssumption DEF StageIn, SameCall, Met, Pursued, AllSigned, FirstSigned, Raised
  <2>5. CallFigure' = CallFigure /\ CallSigners' = CallSigners /\ CallBounced' = CallBounced
    BY <1>6, <2>2, <2>3, <2>4 DEF FigureIn, SignersIn, BouncedIn, NoCallIn, Effective, SameCall
  <2> QED
    BY <1>7, <2>3, <2>4, <2>5 DEF Call!callVars
<1>16. CASE node = "escalate"
  <2>1. new = [old EXCEPT !.escalated = TRUE]
    BY <1>3, <1>16 DEF Outcome
  <2>2. Alike(old, new)
    BY <1>5, <2>1 DEF Alike, SameCall, Channels
  <2> QED
    BY <1>8, <2>2
<1> QED
  BY <1>5, <1>9, <1>10, <1>11, <1>12, <1>13, <1>14, <1>15, <1>16 DEF Nodes

\* The times the client was told, one notice later.
LEMMA ToldAgain ==
  ASSUME NEW told \in Seq(EventType), NEW e \in EventType
  PROVE  [i \in DOMAIN Append(told, e) |-> Append(told, e)[i].at]
           = Append([i \in DOMAIN told |-> told[i].at], e.at)
<1> DEFINE before == [i \in DOMAIN told |-> told[i].at]
           after == [i \in DOMAIN Append(told, e) |-> Append(told, e)[i].at]
<1>1. Len(told) \in Nat /\ DOMAIN told = 1..Len(told) /\ DOMAIN Append(told, e) = 1..(Len(told) + 1)
  OBVIOUS
<1>2. before \in Seq(Nat) /\ Len(before) = Len(told) /\ after \in Seq(Nat) /\ Len(after) = Len(told) + 1
  <2>0. \A v \in EventType : v.at \in Nat
    BY DEF EventType
  <2>1. \A i \in 1..Len(told) : told[i].at \in Nat
    <3>1. \A i \in 1..Len(told) : told[i] \in EventType
      OBVIOUS
    <3> QED
      BY <2>0, <3>1
  <2>2. \A i \in 1..(Len(told) + 1) : Append(told, e)[i].at \in Nat
    <3>1. \A i \in 1..(Len(told) + 1) : Append(told, e)[i] \in EventType
      OBVIOUS
    <3> QED
      BY <2>0, <3>1
  <2> QED
    BY <1>1, <2>1, <2>2
<1>3. \A i \in 1..(Len(told) + 1) : after[i] = Append(before, e.at)[i]
  BY <1>1, <1>2 DEF EventType
<1> QED
  BY <1>1, <1>2, <1>3 DEF EventType

\* The two effects on the world are the steps in which the call is told of
\* and escalated; no other node is one.
LEMMA NodesAreCall ==
  ASSUME TypeOK, SerialInv, NEW r \in Requests,
         \/ ComputeExposure(r) \/ FetchCsaTerms(r) \/ EvaluateBreach(r)
         \/ AwaitApproval(r) \/ AwaitManagerApproval(r) \/ SendNotification(r)
         \/ AwaitSlaResponse(r) \/ SendSlaMetNotification(r) \/ Escalate(r)
  PROVE  [Call!Next]_(Call!callVars)
<1>1. ASSUME UNCHANGED <<head, clock, notices, incidents>>
      PROVE  [Call!Next]_(Call!callVars)
  BY <1>1 DEF Call!callVars, CallStage, CallFigure, CallSigners, CallTold, CallBounced, IsCall, Now, FullySigned
<1>2. ASSUME NEW gate \in Gates, Running(r, gate), NEW p \in BOOLEAN, Pause(r, p),
             UNCHANGED <<clock, notices, incidents>>
      PROVE  [Call!Next]_(Call!callVars)
  <2>1. inv[r].base = head.tag
    BY <1>2 DEF Running, SerialInv, AllSound, Sound
  <2>2. head \in Checkpoint /\ head # NoRun
    BY <1>2, RunningTyped, NoRunIsNoCheckpoint DEF Running
  <2>3. head' \in Checkpoint /\ head'.ch = head.ch
    BY <1>2, <2>1, <2>2 DEF Pause, Checkpoint
  <2>4. Alike(head.ch, head'.ch)
    BY <2>3 DEF Alike, SameCall
  <2> QED
    BY <1>2, <2>2, <2>3, <2>4, Quiet, NoRunIsNoCheckpoint
<1>3. CASE \/ ComputeExposure(r) \/ FetchCsaTerms(r) \/ EvaluateBreach(r) \/ SendSlaMetNotification(r)
  BY <1>1, <1>3 DEF ComputeExposure, FetchCsaTerms, EvaluateBreach, SendSlaMetNotification, world
<1>4. CASE AwaitApproval(r) \/ AwaitManagerApproval(r)
  <2>1. PICK gate \in Gates : Running(r, gate) /\ (Pause(r, FALSE) \/ UNCHANGED head)
    BY <1>4 DEF AwaitApproval, AwaitManagerApproval, Gate, Gates
  <2>2. UNCHANGED <<clock, notices, incidents>>
    BY <1>4 DEF AwaitApproval, AwaitManagerApproval, Gate
  <2> QED
    BY <1>1, <1>2, <2>1, <2>2
<1>5. CASE AwaitSlaResponse(r)
  <2>1. Running(r, "await_sla_response") /\ "await_sla_response" \in Gates
        /\ UNCHANGED <<clock, notices, incidents>>
    BY <1>5 DEF AwaitSlaResponse, Gates
  <2>2. inv[r].fresh \in BOOLEAN /\ inv[r].polled \in BOOLEAN
    BY <2>1, RunnerStands
  <2>3. UNCHANGED head \/ \E p \in BOOLEAN : Pause(r, p)
    BY <1>5, <2>2 DEF AwaitSlaResponse
  <2> QED
    BY <1>1, <1>2, <2>1, <2>3
<1>6. CASE SendNotification(r)
  <2>1. Running(r, "send_notification") /\ UNCHANGED <<head, clock, incidents>>
    BY <1>6 DEF SendNotification
  <2>2. /\ inv[r].ch = head.ch /\ head.ch \in Channels /\ Stands("send_notification", head.ch)
        /\ Told(head.ch, notices) /\ Opened(head.ch, incidents) /\ head # NoRun
    BY <2>1, RunnerStands
  <2> DEFINE e == [at |-> clock, ch |-> inv[r].ch]
  <2>3. e \in EventType /\ e.at = clock /\ notices \in Seq(EventType)
    BY <2>2 DEF EventType, TypeOK
  <2>4. UNCHANGED notices \/ notices' = Append(notices, e)
    BY <1>6 DEF SendNotification
  <2> HIDE DEF e
  <2>5. CASE notices' = Append(notices, e)
    <3>1. notices = <<>>
      BY <2>2, UnsentTold DEF Stands, Evaluating, END
    <3>2. notices' # <<>> /\ Len(notices') \in Nat
      BY <2>3, <2>5
    <3>3. CallStage = StageIn(head.ch, notices, incidents) /\ CallStage' = StageIn(head.ch, notices', incidents)
      BY <2>1, <2>2, CallSeen, CallSeenNext
    <3>4. CallStage = "signed"
      BY <2>2, <3>1, <3>3, StageAt DEF END
    <3>5. CallStage' = "told"
      BY <2>2, <3>2, <3>3, StageAt DEF END
    <3>6. CallFigure' = CallFigure /\ CallSigners' = CallSigners /\ CallBounced' = CallBounced
      BY <2>1, <2>2, <3>4, <3>5, CallSeen, CallSeenNext DEF FigureIn, SignersIn, NoCallIn
    <3>7. CallTold' = Append(CallTold, clock)
      BY <2>3, <2>5, ToldAgain DEF CallTold
    <3>8. Call!Notify
      BY <2>1, <3>4, <3>5, <3>6, <3>7 DEF Call!Notify
    <3> QED
      BY <3>8 DEF Call!Next
  <2> QED
    BY <1>1, <2>1, <2>4, <2>5
<1>7. CASE Escalate(r)
  <2>1. /\ Running(r, "escalate") /\ UNCHANGED <<head, clock, notices>>
        /\ incidents' = Append(incidents, [at |-> clock, ch |-> inv[r].ch])
    BY <1>7 DEF Escalate
  <2>2. /\ inv[r].ch = head.ch /\ head.ch \in Channels /\ Stands("escalate", head.ch)
        /\ Told(head.ch, notices) /\ Opened(head.ch, incidents) /\ head # NoRun
    BY <2>1, RunnerStands
  <2>3. [at |-> clock, ch |-> inv[r].ch] \in EventType /\ incidents \in Seq(EventType) /\ Len(notices) \in Nat
    BY <2>2 DEF EventType, TypeOK
  <2>4. incidents = <<>> /\ incidents' # <<>> /\ Len(incidents') = Len(incidents) + 1
    BY <2>1, <2>2, <2>3 DEF Opened, Stands
  <2>5. CallStage = StageIn(head.ch, notices, incidents) /\ CallStage' = StageIn(head.ch, notices, incidents')
    BY <2>1, <2>2, CallSeen, CallSeenNext
  <2>6. CallStage = "breached"
    BY <2>2, <2>3, <2>4, <2>5, StageAt DEF END
  <2>7. CallStage' = "escalated"
    BY <2>2, <2>3, <2>4, <2>5, StageAt DEF END
  <2>8. CallFigure' = CallFigure /\ CallSigners' = CallSigners /\ CallBounced' = CallBounced
    BY <2>1, <2>2, <2>6, <2>7, CallSeen, CallSeenNext DEF FigureIn, SignersIn, NoCallIn
  <2>9. CallTold' = CallTold
    BY <2>1 DEF CallTold
  <2>10. Call!Escalate
    BY <2>1, <2>4, <2>6, <2>7, <2>8, <2>9 DEF Call!Escalate
  <2> QED
    BY <2>10 DEF Call!Next
<1> QED
  BY <1>3, <1>4, <1>5, <1>6, <1>7

\* Nor is a request that comes in, is checked, resumes the run or fails.
LEMMA RequestsAreCall ==
  ASSUME TypeOK, SerialInv, NEW r \in Requests,
         \/ StartRun(r) \/ RequirePendingNode(r) \/ InternalSlaCheck(r) \/ PolicyCheck(r)
         \/ UpdateState(r) \/ Invoke(r) \/ RejectPayload(r) \/ Fault(r)
  PROVE  UNCHANGED Call!callVars
<1>0. UNCHANGED <<clock, notices, incidents>>
  BY DEF StartRun, RequirePendingNode, InternalSlaCheck, PolicyCheck, UpdateState, Invoke,
     RejectPayload, Fault, world
<1>1. CASE UNCHANGED head
  BY <1>0, <1>1 DEF Call!callVars, CallStage, CallFigure, CallSigners, CallTold, CallBounced, IsCall,
     Now, FullySigned
<1>2. CASE StartRun(r)
  <2> DEFINE c == NewChannels(r)
  <2>1. /\ head = NoRun \/ head.ch.amount = Unset
        /\ head'.ch = c /\ head' # NoRun /\ MayStart(r)
    BY <1>2 DEF StartRun, MayStart, NoRun
  <2>2. c.amount = Unset /\ ~c.confirmed
    BY DEF NewChannels
  <2> HIDE DEF c
  <2>3. Now.amount = Unset /\ Now'.amount = Unset
    BY <2>1, <2>2 DEF Now
  <2>4. notices = <<>> /\ incidents = <<>>
    BY <2>1, StartsClean
  <2>5. CallStage = "none" /\ CallStage' = "none"
    BY <1>0, <2>3, <2>4 DEF CallStage
  <2>6. ~CallBounced /\ ~CallBounced'
    BY <2>3 DEF CallBounced
  <2>7. CallFigure' = CallFigure /\ CallSigners' = CallSigners /\ CallTold' = CallTold /\ CallBounced' = CallBounced
    BY <1>0, <2>5, <2>6 DEF CallFigure, CallSigners, CallTold, IsCall, CallBounced
  <2> QED
    BY <1>0, <2>5, <2>7 DEF Call!callVars
<1>3. CASE UpdateState(r)
  <2>1. inv[r].pc = "checked"
    BY <1>3 DEF UpdateState
  <2>2. head \in Checkpoint /\ head # NoRun
    BY <2>1, ActiveHasRun, NoRunIsNoCheckpoint DEF Active
  <2>3. head'.ch = [head.ch EXCEPT !.trigger = r, !.updated_by = @ \cup {r}] /\ head' # NoRun
    BY <1>3 DEF UpdateState, NoRun
  <2>4. Alike(head.ch, head'.ch)
    BY <2>2, <2>3 DEF Alike, SameCall, Checkpoint, Channels
  <2> QED
    BY <1>0, <2>2, <2>3, <2>4, Quiet
<1> QED
  BY <1>1, <1>2, <1>3 DEF RequirePendingNode, InternalSlaCheck, PolicyCheck, Invoke, RejectPayload, Fault

\* One request at a time, whatever fails, the run is the call: every step of
\* the graph and of the endpoints is a step of MarginCall or none.
THEOREM Refines == SerialSpec => ImplementsMarginCall
<1>1. Init => Call!Init
  <2> SUFFICES ASSUME Init PROVE Call!Init
    OBVIOUS
  <2>1. Now.amount = Unset /\ notices = <<>> /\ incidents = <<>> /\ clock = 1
    BY DEF Init, Now
  <2>2. CallStage = "none"
    BY <2>1 DEF CallStage
  <2>3. CallTold = <<>>
    BY <2>1 DEF CallTold
  <2>4. CallFigure = NoCall /\ CallSigners = {} /\ CallBounced = FALSE
    BY <2>1, <2>2 DEF CallFigure, CallSigners, CallBounced, IsCall
  <2> QED
    BY <2>1, <2>2, <2>3, <2>4 DEF Call!Init
<1>2. TypeOK /\ SerialInv /\ [Next /\ OneAtATime']_vars => [Call!Next]_(Call!callVars)
  <2> SUFFICES ASSUME TypeOK, SerialInv, [Next]_vars
               PROVE  [Call!Next]_(Call!callVars)
    OBVIOUS
  <2>1. CASE UNCHANGED vars
    BY <2>1 DEF vars, Call!callVars, CallStage, CallFigure, CallSigners, CallTold, CallBounced, IsCall, Now, FullySigned
  <2>2. CASE Tick
    <3>1. UNCHANGED <<CallStage, CallFigure, CallSigners, CallTold, CallBounced, Len(incidents)>>
      BY <2>2 DEF Tick, CallStage, CallFigure, CallSigners, CallTold, CallBounced, IsCall, Now, FullySigned
    <3>2. Call!Tick
      BY <2>2, <3>1 DEF Tick, Call!Tick
    <3> QED
      BY <3>2 DEF Call!Next
  <2>3. ASSUME NEW r \in Requests, Step(r) \/ Fault(r)
        PROVE  [Call!Next]_(Call!callVars)
    BY <2>3, SaveIsCall, NodesAreCall, RequestsAreCall DEF Step
  <2> QED
    BY <2>1, <2>2, <2>3 DEF Next
<1> QED
  BY <1>1, <1>2, SerialInductive, SerialIsSpec, TypeCorrect, PTL DEF SerialSpec, ImplementsMarginCall, Call!Spec
=============================================================================
