----------------------------- MODULE Console_proofs ----------------------------
(***************************************************************************)
(* Proofs about the parts around the margin call.  Status, for any request *)
(* threads, instances, figures and faults: the trace rebuilt from the      *)
(* checkpoints is what ran, and the document shows the call's status once  *)
(* its publications ended.  Reports, for any users, scopes and expiry: a   *)
(* report is served to whom, and as long as, it may be.  Feed, for any     *)
(* runs and edits of access: it tells what they say.  Notices, for any     *)
(* names, editions and durations: what a model is told and what is sent.   *)
(***************************************************************************)
EXTENDS Status, Feed, Reports, Notices, TLAPS, FiniteSetTheorems, SequenceTheorems, WellFoundedInduction

-----------------------------------------------------------------------------
(* Status: the invariant.                                                  *)

NodeNames ==
  {"compute_exposure", "fetch_csa_terms", "evaluate_breach", "await_approval",
   "await_manager_approval", "await_sla_response", "send_notification", "escalate",
   "send_sla_met_notification"}
StatusNames ==
  {"evaluating", "no_breach", "awaiting_approval", "awaiting_manager_approval",
   "awaiting_sla_response", "rejected", "disputed", "sla_met", "escalated"}
Statuses == StatusNames \X (Figures \cup {0})
Checkpoint ==
  [next: NodeNames \cup {End}, source: {"input", "loop", "update"}, status: Statuses]
StepNames == NodeNames \cup {"__input__", "__start__", "__reevaluate__"}
Publication == {Idle, [stage |-> "read"]} \cup [stage: {"check", "set", "remember"}, status: Statuses]

Busy(k) == pub[k].stage # "idle"

\* A publication follows an invocation.
Typed ==
  /\ log \in Seq(Checkpoint)
  /\ doc \in Statuses \cup {NoDoc}
  /\ last \in [Instances -> Statuses \cup {NoDoc}]
  /\ pub \in [Threads -> Publication]
  /\ \A k \in Threads : Busy(k) => log # <<>>
  /\ published \subseteq Instances /\ IsFiniteSet(published)
  /\ overlap \in BOOLEAN /\ missed \in BOOLEAN

\* The checkpoints cs follow q: but for a start's input, what was queued
\* before each of them tells what ran.
Chain(q, cs, steps) ==
  /\ cs \in Seq(Checkpoint) /\ steps \in Seq(StepNames)
  /\ Len(cs) = Len(steps)
  /\ \A i \in 1..Len(steps) :
       steps[i] = "__input__" \/ StepNode(IF i = 1 THEN q ELSE cs[i - 1], cs[i]) = steps[i]

\* Before the first checkpoint.
Nothing == [next |-> End, source |-> "none", status |-> Evaluating]

OneInstance == \A p, q \in published : p = q

\* While one instance publishes, one publication at a time ...
OneAtATime ==
  /\ \A j, k \in Threads : Busy(j) /\ Busy(k) => j = k
  /\ \A k \in Threads : Busy(k) => missed /\ InstanceOf(k) \in published
\* ... it carries the call's status, which is written before it is
\* remembered ...
Carries ==
  \A k \in Threads :
    /\ pub[k].stage \in {"check", "set", "remember"} => pub[k].status = Status(log)
    /\ pub[k].stage = "remember" => doc = Status(log)
\* ... so that what the instance remembers is what the document says, but
\* between the write and the remembering ...
Remembered ==
  /\ \A p \in published : last[p] \in {NoDoc, doc} \/ \E k \in Threads : pub[k].stage = "remember"
  /\ \A p \in Instances \ published : last[p] = NoDoc
\* ... and a publication that ended is on show.
OnShow == ~missed /\ published # {} => doc = Status(log)

DocInv == ~overlap /\ OneInstance => OneAtATime /\ Carries /\ Remembered /\ OnShow

StatusInv == Typed /\ Chain(Nothing, log, ran) /\ DocInv

-----------------------------------------------------------------------------
(* The trace.                                                              *)

\* One chain after another.
LEMMA ChainJoin ==
  ASSUME NEW q, NEW a, NEW m, NEW b, NEW n, Chain(q, a, m),
         Chain(IF a = <<>> THEN q ELSE Last(a), b, n)
  PROVE  Chain(q, a \o b, m \o n)
<1> DEFINE c == a \o b
           r == m \o n
           t == IF a = <<>> THEN q ELSE Last(a)
<1>0. /\ a \in Seq(Checkpoint) /\ m \in Seq(StepNames) /\ Len(a) = Len(m)
      /\ b \in Seq(Checkpoint) /\ n \in Seq(StepNames) /\ Len(b) = Len(n)
  BY DEF Chain
<1>1. /\ c \in Seq(Checkpoint) /\ Len(c) = Len(a) + Len(b)
      /\ \A i \in 1..Len(a) + Len(b) : c[i] = IF i <= Len(a) THEN a[i] ELSE b[i - Len(a)]
  BY <1>0, ConcatProperties
<1>2. /\ r \in Seq(StepNames) /\ Len(r) = Len(m) + Len(n)
      /\ \A i \in 1..Len(m) + Len(n) : r[i] = IF i <= Len(m) THEN m[i] ELSE n[i - Len(m)]
  BY <1>0, ConcatProperties
<1>3. Len(a) \in Nat /\ Len(b) \in Nat /\ (a = <<>> <=> Len(a) = 0) /\ (a # <<>> => Last(a) = a[Len(a)])
  BY <1>0, LenProperties, EmptySeq DEF Last
<1>4. \A i \in 1..Len(a) : m[i] = "__input__" \/ StepNode(IF i = 1 THEN q ELSE a[i - 1], a[i]) = m[i]
  BY <1>0 DEF Chain
<1>5. \A i \in 1..Len(b) : n[i] = "__input__" \/ StepNode(IF i = 1 THEN t ELSE b[i - 1], b[i]) = n[i]
  BY <1>0 DEF Chain
<1> HIDE DEF c, r
<1>6. ASSUME NEW i \in 1..Len(r)
      PROVE  r[i] = "__input__" \/ StepNode(IF i = 1 THEN q ELSE c[i - 1], c[i]) = r[i]
  <2>1. CASE i <= Len(a)
    <3>1. c[i] = a[i] /\ r[i] = m[i] /\ i \in 1..Len(a) /\ (i # 1 => c[i - 1] = a[i - 1])
      BY <1>0, <1>1, <1>2, <1>3, <2>1
    <3> QED
      BY <1>4, <3>1
  <2>2. CASE i > Len(a)
    <3> DEFINE j == i - Len(a)
    <3>0. Len(a) \in Nat /\ Len(b) \in Nat /\ i \in 1..Len(a) + Len(b) /\ i > Len(a) /\ Len(m) = Len(a)
          /\ Len(n) = Len(b)
      BY <1>0, <1>2, <1>3, <2>2
    <3>1. j \in 1..Len(b) /\ c[i] = b[j] /\ r[i] = n[j]
      <4>1. j \in 1..Len(b) /\ ~(i <= Len(a))
        BY <3>0
      <4> QED
        BY <1>1, <1>2, <3>0, <4>1
    <3>2. CASE j = 1
      <4>1. (IF i = 1 THEN q ELSE c[i - 1]) = t
        BY <1>0, <1>1, <1>2, <1>3, <2>2, <3>2
      <4> HIDE DEF t
      <4> QED
        BY <1>5, <3>1, <3>2, <4>1
    <3>3. CASE j # 1
      <4>1. i # 1 /\ i - 1 \in 1..Len(a) + Len(b) /\ i - 1 - Len(a) = j - 1 /\ ~(i - 1 <= Len(a))
        BY <3>0, <3>3
      <4>2. c[i - 1] = b[j - 1]
        BY <1>1, <4>1
      <4> HIDE DEF t, j
      <4> QED
        BY <1>5, <3>1, <3>3, <4>1, <4>2
    <3> QED
      BY <3>2, <3>3
  <2> QED
    BY <1>2, <1>3, <2>1, <2>2
<1>7. Chain(q, c, r)
  BY <1>0, <1>1, <1>2, <1>6, Zenon DEF Chain
<1> QED
  BY <1>7 DEF c, r

\* The beginning of a chain.
LEMMA ChainStart ==
  ASSUME NEW q, NEW cs, NEW steps, Chain(q, cs, steps), NEW n \in 0..Len(cs)
  PROVE  Chain(q, SubSeq(cs, 1, n), SubSeq(steps, 1, n))
<1> DEFINE c == SubSeq(cs, 1, n)
           r == SubSeq(steps, 1, n)
<1>1. cs \in Seq(Checkpoint) /\ steps \in Seq(StepNames) /\ Len(cs) = Len(steps) /\ Len(cs) \in Nat
  BY LenProperties DEF Chain
<1>2. /\ c \in Seq(Checkpoint) /\ Len(c) = n /\ \A i \in 1..n : c[i] = cs[i]
      /\ r \in Seq(StepNames) /\ Len(r) = n /\ \A i \in 1..n : r[i] = steps[i]
  BY <1>1
<1> HIDE DEF c, r
<1>3. \A i \in 1..Len(r) : r[i] = "__input__" \/ StepNode(IF i = 1 THEN q ELSE c[i - 1], c[i]) = r[i]
  <2> TAKE i \in 1..Len(r)
  <2>1. i \in 1..Len(steps) /\ r[i] = steps[i] /\ c[i] = cs[i] /\ (i # 1 => c[i - 1] = cs[i - 1])
    BY <1>1, <1>2
  <2> QED
    BY <2>1 DEF Chain
<1>4. Chain(q, c, r)
  BY <1>2, <1>3, Zenon DEF Chain
<1> QED
  BY <1>4 DEF c, r

\* The checkpoints of nodes that ran, the first of which was queued.
LEMMA WrittenChain ==
  ASSUME NEW nodes \in Seq(NodeNames), NEW rest \in NodeNames \cup {End}, NEW statuses \in Seq(Statuses),
         Len(statuses) = Len(nodes), NEW q, Len(nodes) >= 1 => q.next = nodes[1]
  PROVE  Chain(q, Written(nodes, rest, statuses), nodes)
<1> DEFINE W == Written(nodes, rest, statuses)
<1>1. DOMAIN nodes = 1..Len(nodes) /\ Len(nodes) \in Nat
  OBVIOUS
<1>2. W = [i \in 1..Len(nodes) |->
             [next |-> IF i < Len(nodes) THEN nodes[i + 1] ELSE rest, source |-> "loop", status |-> statuses[i]]]
  BY <1>1 DEF Written
<1>3. \A i \in 1..Len(nodes) : W[i] \in Checkpoint
  <2> TAKE i \in 1..Len(nodes)
  <2>1. (i < Len(nodes) => nodes[i + 1] \in NodeNames) /\ statuses[i] \in Statuses
    BY <1>1, ElementOfSeq
  <2> HIDE DEF W
  <2> QED
    BY <1>2, <2>1 DEF Checkpoint
<1> HIDE DEF W
<1>4. W \in Seq(Checkpoint) /\ Len(W) = Len(nodes)
  BY <1>1, <1>2, <1>3
<1>5. \A i \in 1..Len(nodes) : W[i].source = "loop" /\ (i < Len(nodes) => W[i].next = nodes[i + 1])
  BY <1>2
<1>6. \A i \in 1..Len(nodes) : nodes[i] \in NodeNames /\ nodes[i] # End
  <2>1. \A i \in 1..Len(nodes) : nodes[i] \in NodeNames
    BY ElementOfSeq
  <2> QED
    BY <2>1 DEF NodeNames, End
<1>7. ASSUME NEW i \in 1..Len(nodes)
      PROVE  StepNode(IF i = 1 THEN q ELSE W[i - 1], W[i]) = nodes[i]
  <2>1. CASE i = 1
    BY <1>1, <1>5, <1>6, <2>1 DEF StepNode
  <2>2. CASE i # 1
    <3>1. W[i - 1].next = nodes[i]
      <4>1. i - 1 \in 1..Len(nodes) /\ i - 1 < Len(nodes) /\ i - 1 + 1 = i
        BY <1>1, <2>2
      <4> QED
        BY <1>5, <4>1
    <3> QED
      BY <1>5, <1>6, <2>2, <3>1 DEF StepNode
  <2> QED
    BY <2>1, <2>2
<1>8. nodes \in Seq(StepNames)
  BY SeqMonotonic DEF StepNames
<1>9. Chain(q, W, nodes)
  BY <1>4, <1>7, <1>8, Zenon DEF Chain
<1> QED
  BY <1>9 DEF W

\* The newest checkpoint's status.
LEMMA NewestSets ==
  ASSUME Typed
  PROVE  Newest.status \in Statuses
<1>1. CASE log = <<>>
  BY <1>1 DEF Newest, Evaluating, Statuses, StatusNames
<1>2. CASE log # <<>>
  <2>1. log \in Seq(Checkpoint) /\ Len(log) \in 1..Len(log)
    BY <1>2, LenProperties, EmptySeq DEF Typed
  <2>2. log[Len(log)] \in Checkpoint
    BY <2>1, ElementOfSeq
  <2> QED
    BY <1>2, <2>2 DEF Newest, Last, Checkpoint
<1> QED
  BY <1>1, <1>2

\* What an evaluation is given and its nodes write.
LEMMA EvaluationSets ==
  ASSUME NEW o \in Outcomes, NEW s \in Statuses
  PROVE  /\ Evaluation \in Seq(NodeNames) /\ Len(Evaluation) = 3 /\ Evaluation[1] = "compute_exposure"
         /\ o[1] \in NodeNames \cup {End}
         /\ <<s, s, o[2]>> \in Seq(Statuses) /\ Len(<<s, s, o[2]>>) = 3
<1>1. o[1] \in NodeNames \cup {End} /\ o[2] \in Statuses
  BY DEF Outcomes, NodeNames, Statuses, StatusNames
<1>2. Evaluation \in Seq(NodeNames) /\ Len(Evaluation) = 3 /\ Evaluation[1] = "compute_exposure"
  BY DEF Evaluation, NodeNames
<1> QED
  BY <1>1, <1>2

\* What is written before an evaluation follows the newest checkpoint.
LEMMA BeforeSets ==
  ASSUME Typed, NEW before, NEW wrote,
         \/ before = Started /\ wrote = <<"__input__", "__start__">>
         \/ before = Updated /\ wrote = <<"__reevaluate__">>
  PROVE  Chain(Newest, before, wrote) /\ before # <<>> /\ Last(before).next = "compute_exposure"
<1>0. Newest.status \in Statuses
  BY NewestSets
<1>1. CASE before = Started /\ wrote = <<"__input__", "__start__">>
  <2> DEFINE c == [next |-> End, source |-> "input", status |-> Newest.status]
             d == [next |-> "compute_exposure", source |-> "loop", status |-> Newest.status]
  <2>1. c \in Checkpoint /\ d \in Checkpoint /\ StepNode(c, d) = "__start__" /\ d.next = "compute_exposure"
    BY <1>0 DEF Checkpoint, NodeNames, StepNode
  <2>2. before = <<c, d>> /\ wrote = <<"__input__", "__start__">>
    BY <1>1 DEF Started
  <2> HIDE DEF c, d
  <2>3. before \in Seq(Checkpoint) /\ Len(before) = 2 /\ before[1] = c /\ before[2] = d
    BY <2>1, <2>2
  <2>4. /\ wrote \in Seq(StepNames) /\ Len(wrote) = 2 /\ wrote[1] = "__input__" /\ wrote[2] = "__start__"
    BY <2>2 DEF StepNames
  <2>5. \A i \in 1..Len(wrote) :
          wrote[i] = "__input__" \/ StepNode(IF i = 1 THEN Newest ELSE before[i - 1], before[i]) = wrote[i]
    <3>1. 1..Len(wrote) = {1, 2} /\ 2 - 1 = 1
      BY <2>4
    <3>2. StepNode(before[2 - 1], before[2]) = wrote[2]
      BY <2>1, <2>3, <2>4
    <3> QED
      BY <2>4, <3>1, <3>2
  <2> QED
    BY <2>1, <2>3, <2>4, <2>5, SMTT(30) DEF Chain, Last
<1>2. CASE before = Updated /\ wrote = <<"__reevaluate__">>
  <2> DEFINE d == [next |-> "compute_exposure", source |-> "update", status |-> Newest.status]
  <2>1. d \in Checkpoint /\ d.next = "compute_exposure" /\ d.source = "update"
    BY <1>0 DEF Checkpoint, NodeNames
  <2>2. before = <<d>> /\ wrote = <<"__reevaluate__">>
    BY <1>2 DEF Updated
  <2> HIDE DEF d
  <2>3. before \in Seq(Checkpoint) /\ Len(before) = 1 /\ before[1] = d
    BY <2>1, <2>2
  <2>4. wrote \in Seq(StepNames) /\ Len(wrote) = 1 /\ wrote[1] = "__reevaluate__"
    BY <2>2 DEF StepNames
  <2>5. StepNode(Newest, before[1]) = wrote[1]
    BY <2>1, <2>3, <2>4 DEF StepNode
  <2> QED
    BY <2>1, <2>3, <2>4, <2>5 DEF Chain, Last
<1> QED
  BY <1>1, <1>2

\* What an invocation, ended or not, appended.
Ran(k, cs, nodes) ==
  /\ Chain(Newest, cs, nodes)
  /\ (Invocation(k, cs, nodes) /\ cs # <<>>) \/ Failure(k, cs, nodes)

\* An evaluation runs its nodes, or the first of them.
LEMMA EvaluateRuns ==
  ASSUME Typed, NEW k \in Threads, NEW before, NEW wrote, Evaluate(k, before, wrote),
         \/ before = Started /\ wrote = <<"__input__", "__start__">>
         \/ before = Updated /\ wrote = <<"__reevaluate__">>
  PROVE  \E cs, nodes : Ran(k, cs, nodes)
<1>0. Chain(Newest, before, wrote) /\ before # <<>> /\ Last(before).next = "compute_exposure"
  BY BeforeSets
<1>1. PICK o \in Outcomes :
        LET checkpoints == Written(Evaluation, o[1], <<Newest.status, Newest.status, o[2]>>)
        IN \/ Invocation(k, before \o checkpoints, wrote \o Evaluation)
           \/ \E n \in 0..2 : Failure(k, before \o SubSeq(checkpoints, 1, n), wrote \o SubSeq(Evaluation, 1, n))
  BY DEF Evaluate
<1> DEFINE W == Written(Evaluation, o[1], <<Newest.status, Newest.status, o[2]>>)
<1>2. Chain(Last(before), W, Evaluation) /\ Len(Evaluation) = 3
  BY <1>0, NewestSets, EvaluationSets, WrittenChain
<1> HIDE DEF W
<1>3. Len(W) = 3
  BY <1>2 DEF Chain
<1>4. CASE Invocation(k, before \o W, wrote \o Evaluation)
  <2>1. Chain(Newest, before \o W, wrote \o Evaluation)
    BY <1>0, <1>2, ChainJoin
  <2>2. before \o W # <<>>
    <3>1. before \in Seq(Checkpoint) /\ W \in Seq(Checkpoint)
      BY <1>0, <1>2 DEF Chain
    <3>2. Len(before \o W) = Len(before) + Len(W) /\ Len(before) \in Nat
      BY <3>1, ConcatProperties, LenProperties
    <3> QED
      BY <1>3, <3>2, EmptySeq
  <2> QED
    BY <1>4, <2>1, <2>2 DEF Ran
<1>5. ASSUME NEW n \in 0..2, Failure(k, before \o SubSeq(W, 1, n), wrote \o SubSeq(Evaluation, 1, n))
      PROVE  \E cs, nodes : Ran(k, cs, nodes)
  <2>1. Chain(Last(before), SubSeq(W, 1, n), SubSeq(Evaluation, 1, n))
    <3>1. n \in 0..Len(W)
      BY <1>3
    <3> QED
      BY <1>2, <3>1, ChainStart
  <2>2. Chain(Newest, before \o SubSeq(W, 1, n), wrote \o SubSeq(Evaluation, 1, n))
    BY <1>0, <2>1, ChainJoin
  <2> QED
    BY <1>5, <2>2 DEF Ran
<1> QED
  BY <1>1, <1>4, <1>5 DEF W

\* What runs after a gate begins with the gate.
Answer(gate, a) ==
  /\ a[1] \in Seq(NodeNames) /\ Len(a[1]) >= 1 /\ a[1][1] = gate
  /\ a[2] \in NodeNames \cup {End}
  /\ a[3] \in Seq(Statuses) /\ Len(a[3]) = Len(a[1])

\* Answers of one node, two and three.
LEMMA AnswerSets ==
  ASSUME NEW gate \in NodeNames, NEW rest \in NodeNames \cup {End},
         NEW m \in NodeNames, NEW n \in NodeNames, NEW s \in Statuses, NEW t \in Statuses, NEW u \in Statuses
  PROVE  /\ Answer(gate, <<<<gate>>, rest, <<s>>>>)
         /\ Answer(gate, <<<<gate, m>>, rest, <<s, t>>>>)
         /\ Answer(gate, <<<<gate, m, n>>, rest, <<s, t, u>>>>)
<1>1. Answer(gate, <<<<gate>>, rest, <<s>>>>)
  BY DEF Answer
<1>2. Answer(gate, <<<<gate, m>>, rest, <<s, t>>>>)
  BY DEF Answer
<1>3. Answer(gate, <<<<gate, m, n>>, rest, <<s, t, u>>>>)
  BY DEF Answer
<1> QED
  BY <1>1, <1>2, <1>3

\* So of every answer.
LEMMA AfterGateSets ==
  ASSUME NEW gate \in {"await_approval", "await_manager_approval", "await_sla_response"},
         NEW f \in Figures \cup {0}, NEW a \in AfterGate(gate, f)
  PROVE  Answer(gate, a)
<1>0. /\ gate \in NodeNames /\ "send_notification" \in NodeNames /\ "escalate" \in NodeNames
      /\ "await_sla_response" \in NodeNames /\ "await_manager_approval" \in NodeNames
      /\ "send_sla_met_notification" \in NodeNames
  BY DEF NodeNames
<1>1. \A s \in StatusNames, g \in Figures \cup {0} : <<s, g>> \in Statuses
  BY DEF Statuses
<1>2. /\ "awaiting_approval" \in StatusNames /\ "awaiting_sla_response" \in StatusNames
      /\ "escalated" \in StatusNames /\ "rejected" \in StatusNames /\ "disputed" \in StatusNames
      /\ "awaiting_manager_approval" \in StatusNames /\ "sla_met" \in StatusNames
  BY DEF StatusNames
<1>3. ASSUME NEW figures, figures \subseteq Figures \cup {0}, a \in Sent(gate, figures)
      PROVE  Answer(gate, a)
  <2>1. PICK g \in figures :
             \/ a = <<<<gate, "send_notification">>, "await_sla_response",
                      <<<<"awaiting_approval", g>>, <<"awaiting_sla_response", g>>>>>>
             \/ a = <<<<gate, "send_notification", "escalate">>, End,
                      <<<<"awaiting_approval", g>>, <<"escalated", g>>, <<"escalated", g>>>>>>
    BY <1>3 DEF Sent
  <2>2. g \in Figures \cup {0}
    BY <1>3, <2>1
  <2>3. /\ <<"awaiting_approval", g>> \in Statuses /\ <<"awaiting_sla_response", g>> \in Statuses
        /\ <<"escalated", g>> \in Statuses
    BY <1>1, <1>2, <2>2
  <2>4. End \in NodeNames \cup {End}
    OBVIOUS
  <2>5. CASE a = <<<<gate, "send_notification">>, "await_sla_response",
                   <<<<"awaiting_approval", g>>, <<"awaiting_sla_response", g>>>>>>
    <3>1. Answer(gate, <<<<gate, "send_notification">>, "await_sla_response",
                         <<<<"awaiting_approval", g>>, <<"awaiting_sla_response", g>>>>>>)
      BY <1>0, <2>3, AnswerSets
    <3> QED
      BY <2>5, <3>1, Zenon
  <2>6. CASE a = <<<<gate, "send_notification", "escalate">>, End,
                   <<<<"awaiting_approval", g>>, <<"escalated", g>>, <<"escalated", g>>>>>>
    <3>1. Answer(gate, <<<<gate, "send_notification", "escalate">>, End,
                         <<<<"awaiting_approval", g>>, <<"escalated", g>>, <<"escalated", g>>>>>>)
      BY <1>0, <2>3, <2>4, AnswerSets
    <3> QED
      BY <2>6, <3>1, Zenon
  <2> QED
    BY <2>1, <2>5, <2>6
<1>4. CASE gate = "await_approval"
  <2>1. \/ a = <<<<gate>>, End, <<<<"rejected", f>>>>>>
        \/ \E g \in Figures : a = <<<<gate>>, "await_manager_approval", <<<<"awaiting_manager_approval", g>>>>>>
        \/ a \in Sent(gate, Figures)
    BY <1>4 DEF AfterGate
  <2>2. <<"rejected", f>> \in Statuses /\ \A g \in Figures : <<"awaiting_manager_approval", g>> \in Statuses
    BY <1>1, <1>2
  <2>3. Answer(gate, <<<<gate>>, End, <<<<"rejected", f>>>>>>)
    <3>1. End \in NodeNames \cup {End}
      OBVIOUS
    <3> QED
      BY <1>0, <2>2, <3>1, AnswerSets
  <2>4. \A g \in Figures : Answer(gate, <<<<gate>>, "await_manager_approval", <<<<"awaiting_manager_approval", g>>>>>>)
    BY <1>0, <2>2, AnswerSets
  <2>5. Figures \subseteq Figures \cup {0}
    OBVIOUS
  <2> QED
    BY <1>3, <2>1, <2>3, <2>4, <2>5, Zenon
<1>5. CASE gate = "await_manager_approval"
  <2>1. a = <<<<gate>>, End, <<<<"disputed", f>>>>>> \/ a \in Sent(gate, {f})
    BY <1>5 DEF AfterGate
  <2>2. <<"disputed", f>> \in Statuses
    BY <1>1, <1>2
  <2>3. Answer(gate, <<<<gate>>, End, <<<<"disputed", f>>>>>>)
    <3>1. End \in NodeNames \cup {End}
      OBVIOUS
    <3> QED
      BY <1>0, <2>2, <3>1, AnswerSets
  <2>4. {f} \subseteq Figures \cup {0}
    OBVIOUS
  <2> QED
    BY <1>3, <2>1, <2>3, <2>4, Zenon
<1>6. CASE gate = "await_sla_response"
  <2>1. \/ a = <<<<gate, "send_sla_met_notification">>, End, <<<<"sla_met", f>>, <<"sla_met", f>>>>>>
        \/ a = <<<<gate, "escalate">>, End, <<<<"escalated", f>>, <<"escalated", f>>>>>>
    BY <1>6 DEF AfterGate
  <2>2. <<"sla_met", f>> \in Statuses /\ <<"escalated", f>> \in Statuses
    BY <1>1, <1>2
  <2>3. /\ Answer(gate, <<<<gate, "send_sla_met_notification">>, End, <<<<"sla_met", f>>, <<"sla_met", f>>>>>>)
        /\ Answer(gate, <<<<gate, "escalate">>, End, <<<<"escalated", f>>, <<"escalated", f>>>>>>)
    <3>1. End \in NodeNames \cup {End}
      OBVIOUS
    <3> QED
      BY <1>0, <2>2, <3>1, AnswerSets
  <2> QED
    BY <2>1, <2>3, Zenon
<1> QED
  BY <1>4, <1>5, <1>6

\* The steps that run nodes.
RunStep(k) == StartRun(k) \/ ReevaluateRun(k) \/ ResumeRun(k)

\* Each appends a chain.
LEMMA RunSets ==
  ASSUME Typed, NEW k \in Threads, RunStep(k)
  PROVE  \E cs, nodes : Ran(k, cs, nodes)
<1>1. CASE StartRun(k)
  BY <1>1, EvaluateRuns DEF StartRun
<1>2. CASE ReevaluateRun(k)
  BY <1>2, EvaluateRuns DEF ReevaluateRun
<1>3. CASE ResumeRun(k)
  <2>1. Newest.next \in {"await_approval", "await_manager_approval", "await_sla_response"}
    BY <1>3 DEF ResumeRun
  <2>2. Newest.status[2] \in Figures \cup {0}
    BY NewestSets DEF Statuses
  <2>3. PICK a \in AfterGate(Newest.next, Newest.status[2]) :
          LET checkpoints == Written(a[1], a[2], a[3])
          IN \/ Invocation(k, checkpoints, a[1])
             \/ \E n \in 1..Len(a[1]) - 1 : Failure(k, SubSeq(checkpoints, 1, n), SubSeq(a[1], 1, n))
    BY <1>3 DEF ResumeRun
  <2> DEFINE W == Written(a[1], a[2], a[3])
  <2>4. Chain(Newest, W, a[1]) /\ Len(a[1]) \in Nat /\ Len(a[1]) >= 1
    <3>1. Answer(Newest.next, a)
      BY <2>1, <2>2, <2>3, AfterGateSets
    <3> HIDE DEF W
    <3>2. /\ a[1] \in Seq(NodeNames) /\ Len(a[1]) >= 1 /\ a[1][1] = Newest.next
          /\ a[2] \in NodeNames \cup {End} /\ a[3] \in Seq(Statuses) /\ Len(a[3]) = Len(a[1])
      BY <3>1 DEF Answer
    <3> QED
      BY <3>2, WrittenChain, LenProperties DEF W
  <2> HIDE DEF W
  <2>5. W # <<>> /\ Len(W) = Len(a[1])
    BY <2>4 DEF Chain
  <2>6. CASE Invocation(k, W, a[1])
    BY <2>4, <2>5, <2>6 DEF Ran
  <2>7. ASSUME NEW n \in 1..Len(a[1]) - 1, Failure(k, SubSeq(W, 1, n), SubSeq(a[1], 1, n))
        PROVE  \E cs, nodes : Ran(k, cs, nodes)
    <3>1. Chain(Newest, SubSeq(W, 1, n), SubSeq(a[1], 1, n))
      BY <2>4, <2>5, ChainStart
    <3> QED
      BY <2>7, <3>1 DEF Ran
  <2> QED
    BY <2>3, <2>6, <2>7 DEF W
<1> QED
  BY <1>1, <1>2, <1>3 DEF RunStep

-----------------------------------------------------------------------------
(* The document.                                                           *)

\* What a thread publishes, stage by stage.
LEMMA StageSets ==
  ASSUME Typed, NEW k \in Threads
  PROVE  /\ pub[k].stage \in {"idle", "read", "check", "set", "remember"}
         /\ pub[k].stage = "idle" <=> pub[k] = Idle
         /\ pub[k].stage \in {"check", "set", "remember"} =>
              pub[k] \in [stage: {"check", "set", "remember"}, status: Statuses]
  <1>1. pub[k] \in Publication
    BY DEF Typed
  <1> QED
    BY <1>1 DEF Publication, Idle

\* A call's status is no missing document.
LEMMA StatusIsOne ==
  ASSUME Typed, log # <<>>
  PROVE  Status(log) \in Statuses /\ Status(log) # NoDoc
<1>1. log \in Seq(Checkpoint) /\ Len(log) \in 1..Len(log)
  BY LenProperties, EmptySeq DEF Typed
<1>2. log[Len(log)] \in Checkpoint
  BY <1>1, ElementOfSeq
<1> QED
  BY <1>2 DEF Status, Last, Checkpoint, Statuses, StatusNames, NoDoc

\* What ran is explained, and while one instance publishes the document is not
\* yet due.
LEMMA RunKeeps ==
  ASSUME StatusInv, NEW k \in Threads, NEW cs, NEW nodes, Ran(k, cs, nodes)
  PROVE  StatusInv'
<1>1. /\ pub[k] = Idle /\ log' = log \o cs /\ ran' = ran \o nodes
      /\ overlap' = (overlap \/ \E j \in Threads : pub[j] # Idle)
      /\ missed' = TRUE /\ doc' = doc /\ last' = last
      /\ \/ /\ pub' = [pub EXCEPT ![k] = [stage |-> "read"]] /\ cs # <<>>
            /\ published' = published \cup {InstanceOf(k)}
         \/ pub' = pub /\ published' = published
  BY DEF Ran, Invocation, Failure, Writes
<1>2. Typed /\ pub \in [Threads -> Publication]
  BY DEF StatusInv, Typed
<1>3. Chain(Nothing, log', ran')
  <2>1. Chain(Nothing, log, ran) /\ Chain(IF log = <<>> THEN Nothing ELSE Last(log), cs, nodes)
    BY DEF StatusInv, Ran, Newest, Nothing
  <2> QED
    BY <1>1, <2>1, ChainJoin
<1>4. log' \in Seq(Checkpoint) /\ (log # <<>> \/ cs # <<>> => log' # <<>>)
  <2>1. log \in Seq(Checkpoint) /\ cs \in Seq(Checkpoint)
    BY <1>2 DEF Ran, Chain, Typed
  <2>2. Len(log \o cs) = Len(log) + Len(cs) /\ log \o cs \in Seq(Checkpoint)
    BY <2>1, ConcatProperties
  <2>3. /\ Len(log) \in Nat /\ (log # <<>> => Len(log) # 0)
        /\ Len(cs) \in Nat /\ (cs # <<>> => Len(cs) # 0)
        /\ (log \o cs = <<>> => Len(log \o cs) = 0)
    BY <2>1, EmptySeq, LenProperties
  <2> QED
    BY <1>1, <2>2, <2>3
<1>5. Typed'
  <2>1. published' \subseteq Instances /\ IsFiniteSet(published')
    BY <1>1, <1>2, FS_AddElement, ZenonT(60) DEF Typed, Instances
  <2>2. pub' \in [Threads -> Publication]
    BY <1>1, <1>2 DEF Publication
  <2>3. overlap' \in BOOLEAN
    BY <1>1, <1>2, Zenon DEF Typed
  <2>4. \A j \in Threads : Busy(j)' => log' # <<>>
    BY <1>1, <1>2, <1>4 DEF Typed, Busy
  <2> QED
    BY <1>1, <1>2, <1>4, <2>1, <2>2, <2>3, <2>4 DEF Typed
<1>6. DocInv'
  <2> SUFFICES ASSUME ~overlap', OneInstance'
               PROVE  OneAtATime' /\ Carries' /\ Remembered' /\ OnShow'
    BY DEF DocInv
  <2>1. /\ ~overlap /\ OneInstance
        /\ \A j \in Threads : pub[j] = Idle /\ pub[j].stage = "idle"
    BY <1>1, <1>2, StageSets DEF OneInstance
  <2>2. /\ \A j \in Threads \ {k} : pub'[j].stage = "idle"
        /\ pub'[k].stage = "idle" \/ (pub'[k].stage = "read" /\ InstanceOf(k) \in published')
    BY <1>1, <1>2, <2>1
  <2>3. OneAtATime' /\ Carries'
    BY <1>1, <2>2 DEF OneAtATime, Carries, Busy
  <2>4. Remembered
    BY <2>1 DEF StatusInv, DocInv
  <2>5. Remembered'
    <3>1. ASSUME NEW p \in published'
          PROVE  last'[p] \in {NoDoc', doc'}
      <4>1. CASE p \in published
        BY <1>1, <2>1, <2>4, <4>1 DEF Remembered, NoDoc
      <4>2. CASE p \notin published
        <5>1. p \in Instances \ published
          BY <1>5, <4>2 DEF Typed
        <5> QED
          BY <1>1, <2>4, <5>1 DEF Remembered, NoDoc
      <4> QED
        BY <4>1, <4>2
    <3>2. \A p \in Instances \ published' : last'[p] = NoDoc'
      BY <1>1, <2>4 DEF Remembered, NoDoc
    <3> QED
      BY <3>1, <3>2 DEF Remembered
  <2> QED
    BY <1>1, <2>3, <2>5 DEF OnShow
<1> QED
  BY <1>3, <1>5, <1>6 DEF StatusInv, Nothing, Evaluating, End

\* The steps of a publication.
PublishStep(k) == ReadState(k) \/ CheckLast(k) \/ SetDoc(k) \/ Remember(k) \/ FailPublish(k)

\* They leave the call alone and move their own thread.
LEMMA PublishSets ==
  ASSUME Typed, NEW k \in Threads, PublishStep(k)
  PROVE  /\ Typed' /\ UNCHANGED <<log, ran, published, overlap>> /\ Busy(k)
         /\ \A j \in Threads \ {k} : pub'[j] = pub[j]
         /\ \/ missed' = missed
            \/ missed' = FALSE /\ pub'[k] = Idle
<1>0. /\ pub \in [Threads -> Publication] /\ last \in [Instances -> Statuses \cup {NoDoc}]
      /\ InstanceOf(k) \in Instances
  BY DEF Typed, Instances
<1>1. Status(log) \in Statuses /\ log # <<>>
  <2>1. Busy(k)
    BY DEF PublishStep, ReadState, CheckLast, SetDoc, Remember, FailPublish, Busy
  <2> QED
    BY <2>1, StatusIsOne DEF Typed
<1>2. Idle \in Publication
  BY DEF Publication
<1>3. CASE ReadState(k)
  <2>1. [stage |-> "check", status |-> Status(log)] \in Publication
    BY <1>1 DEF Publication
  <2> QED
    BY <1>0, <1>3, <2>1 DEF ReadState, Typed, Busy
<1>4. CASE CheckLast(k)
  <2>1. [pub[k] EXCEPT !.stage = "set"] \in Publication
    BY <1>4, StageSets DEF CheckLast, Publication
  <2>2. \/ pub' = [pub EXCEPT ![k] = Idle] /\ missed' = FALSE
        \/ pub' = [pub EXCEPT ![k] = [pub[k] EXCEPT !.stage = "set"]] /\ missed' = missed
    BY <1>4 DEF CheckLast, Done
  <2> QED
    BY <1>0, <1>2, <1>4, <2>1, <2>2 DEF CheckLast, Typed, Busy
<1>5. CASE SetDoc(k)
  <2>1. pub[k].status \in Statuses /\ [pub[k] EXCEPT !.stage = "remember"] \in Publication
    BY <1>5, StageSets DEF SetDoc, Publication
  <2> QED
    BY <1>0, <1>5, <2>1 DEF SetDoc, Typed, Busy
<1>6. CASE Remember(k)
  <2>1. pub[k].status \in Statuses
    BY <1>6, StageSets DEF Remember
  <2> QED
    BY <1>0, <1>2, <1>6, <2>1 DEF Remember, Done, Typed, Busy
<1>7. CASE FailPublish(k)
  BY <1>0, <1>2, <1>7 DEF FailPublish, Typed, Busy
<1> QED
  BY <1>3, <1>4, <1>5, <1>6, <1>7 DEF PublishStep

\* And keep what is shown true.
LEMMA PublishKeeps ==
  ASSUME StatusInv, NEW k \in Threads, PublishStep(k)
  PROVE  StatusInv'
<1>0. Typed /\ Chain(Nothing, log, ran) /\ pub \in [Threads -> Publication]
  BY DEF StatusInv, Typed
<1>1. /\ Typed' /\ UNCHANGED <<log, ran, published, overlap>> /\ Busy(k)
      /\ \A j \in Threads \ {k} : pub'[j] = pub[j]
      /\ missed' = missed \/ (missed' = FALSE /\ pub'[k] = Idle)
  BY <1>0, PublishSets
<1>2. ASSUME ~overlap', OneInstance'
      PROVE  OneAtATime' /\ Carries' /\ Remembered' /\ OnShow'
  <2>1. OneAtATime /\ Carries /\ Remembered /\ OnShow
    BY <1>1, <1>2 DEF StatusInv, DocInv, OneInstance
  <2>2. /\ \A j \in Threads \ {k} : pub'[j] = pub[j] /\ pub[j].stage = "idle"
        /\ InstanceOf(k) \in published /\ missed
    <3>1. \A j \in Threads \ {k} : pub'[j] = pub[j] /\ ~Busy(j)
      BY <1>1, <2>1 DEF OneAtATime
    <3> QED
      BY <1>1, <2>1, <3>1 DEF OneAtATime, Busy
  <2>3. \A p \in published : p = InstanceOf(k)
    BY <1>1, <1>2, <2>2 DEF OneInstance
  <2>4. OneAtATime'
    <3>1. Busy(k)' => missed'
      <4>1. CASE missed' = missed
        BY <2>2, <4>1
      <4>2. CASE pub'[k] = Idle
        BY <4>2 DEF Busy, Idle
      <4> QED
        BY <1>1, <4>1, <4>2
    <3> QED
      BY <1>1, <2>2, <3>1 DEF OneAtATime, Busy
  <2>5. Status(log)' = Status(log) /\ Status(log) # NoDoc /\ NoDoc' = NoDoc
    <3>1. log # <<>>
      BY <1>0, <1>1 DEF Typed
    <3> QED
      BY <1>0, <1>1, <3>1, StatusIsOne DEF Status, NoDoc
  <2>6. InstanceOf(k) \in Instances /\ last \in [Instances -> Statuses \cup {NoDoc}]
    BY <1>0 DEF Typed, Instances
  <2>7. \A q \in Instances \ published : last[q] = NoDoc
    BY <2>1 DEF Remembered
  \* It is enough to say what becomes of this thread and its instance.
  <2>8. ASSUME last' = last \/ \E v : last' = [last EXCEPT ![InstanceOf(k)] = v],
               pub'[k].stage \in {"check", "set", "remember"} => pub'[k].status = Status(log),
               pub'[k].stage = "remember" => doc' = Status(log),
               last'[InstanceOf(k)] \in {NoDoc, doc'} \/ pub'[k].stage = "remember",
               missed' \/ doc' = Status(log)
        PROVE  Carries' /\ Remembered' /\ OnShow'
    <3>1. Carries'
      BY <2>2, <2>5, <2>8 DEF Carries
    <3>2. Remembered'
      <4>1. \A q \in Instances \ published' : last'[q] = NoDoc
        BY <1>1, <2>2, <2>6, <2>7, <2>8
      <4>2. \A p \in published' : p = InstanceOf(k)
        BY <1>1, <2>3
      <4>3. NoDoc' = NoDoc
        BY <2>5
      <4> QED
        BY <2>8, <4>1, <4>2, <4>3 DEF Remembered
    <3>3. OnShow'
      BY <2>5, <2>8 DEF OnShow
    <3> QED
      BY <3>1, <3>2, <3>3
  <2>9. ASSUME pub[k].stage # "remember"
        PROVE  last[InstanceOf(k)] \in {NoDoc, doc}
    <3>1. ~ \E j \in Threads : pub[j].stage = "remember"
      BY <2>2, <2>9
    <3> QED
      BY <2>1, <2>2, <3>1 DEF Remembered
  <2>10. CASE ReadState(k)
    <3>1. pub'[k] = [stage |-> "check", status |-> Status(log)] /\ last' = last /\ doc' = doc /\ missed'
      BY <1>0, <2>2, <2>10 DEF ReadState
    <3>2. pub[k].stage # "remember"
      BY <2>10 DEF ReadState
    <3> QED
      BY <2>4, <2>8, <2>9, <3>1, <3>2
  <2>11. CASE CheckLast(k)
    <3>1. pub[k].stage = "check" /\ last' = last /\ doc' = doc /\ pub[k].status = Status(log)
      BY <2>1, <2>11 DEF CheckLast, Carries
    <3>2. CASE last[InstanceOf(k)] = pub[k].status
      <4>1. pub'[k] = Idle /\ doc = Status(log)
        BY <1>0, <2>5, <2>9, <2>11, <3>1, <3>2 DEF CheckLast, Done
      <4>2. pub'[k].stage = "idle" /\ last[InstanceOf(k)] \in {NoDoc, doc}
        BY <2>9, <3>1, <4>1 DEF Idle
      <4> QED
        BY <2>4, <2>8, <3>1, <4>1, <4>2
    <3>3. CASE last[InstanceOf(k)] # pub[k].status
      <4>1. pub' = [pub EXCEPT ![k].stage = "set"] /\ missed'
        BY <2>2, <2>11, <3>3 DEF CheckLast
      <4>2. pub'[k].stage = "set" /\ pub'[k].status = Status(log)
        BY <1>0, <3>1, <4>1, StageSets
      <4>3. last[InstanceOf(k)] \in {NoDoc, doc}
        BY <2>9, <3>1
      <4> QED
        BY <2>4, <2>8, <3>1, <4>1, <4>2, <4>3
    <3> QED
      BY <3>2, <3>3
  <2>12. CASE SetDoc(k)
    <3>1. pub[k].stage = "set" /\ last' = last /\ pub[k].status = Status(log)
          /\ pub' = [pub EXCEPT ![k].stage = "remember"] /\ doc' = Status(log) /\ missed'
      BY <2>1, <2>2, <2>12 DEF SetDoc, Carries
    <3>2. pub'[k].stage = "remember" /\ pub'[k].status = Status(log)
      BY <1>0, <3>1, StageSets
    <3> QED
      BY <2>4, <2>8, <3>1, <3>2
  <2>13. CASE Remember(k)
    <3>1. /\ pub[k].stage = "remember" /\ doc' = doc /\ pub[k].status = Status(log) /\ doc = Status(log)
          /\ last' = [last EXCEPT ![InstanceOf(k)] = Status(log)] /\ pub'[k] = Idle
      BY <1>0, <2>1, <2>13 DEF Remember, Done, Carries
    <3>2. last'[InstanceOf(k)] = doc' /\ pub'[k].stage = "idle"
      BY <2>6, <3>1 DEF Idle
    <3> QED
      BY <2>4, <2>8, <3>1, <3>2
  <2>14. CASE FailPublish(k)
    <3>1. /\ pub[k].stage # "remember" /\ last' = last /\ doc' = doc /\ missed' /\ pub'[k] = Idle
      BY <1>0, <2>2, <2>14 DEF FailPublish
    <3>2. pub'[k].stage = "idle"
      BY <3>1 DEF Idle
    <3> QED
      BY <2>4, <2>8, <2>9, <3>1, <3>2
  <2> QED
    BY <2>10, <2>11, <2>12, <2>13, <2>14 DEF PublishStep
<1> QED
  BY <1>0, <1>1, <1>2 DEF StatusInv, DocInv

\* An instance forgets, with its threads when it is lost.
LEMMA InstanceKeeps ==
  ASSUME StatusInv, NEW p \in Instances, ClearLast(p) \/ Crash(p)
  PROVE  StatusInv'
<1>0. /\ Typed /\ pub \in [Threads -> Publication] /\ last \in [Instances -> Statuses \cup {NoDoc}]
      /\ Idle \in Publication
  BY DEF StatusInv, Typed, Publication
<1>1. /\ UNCHANGED <<log, ran, doc, published, overlap, missed>>
      /\ last' = [last EXCEPT ![p] = NoDoc]
      /\ pub' \in [Threads -> Publication]
      /\ \A k \in Threads : pub'[k] = pub[k] \/ (InstanceOf(k) = p /\ pub'[k] = Idle)
  BY <1>0 DEF ClearLast, Crash
<1>2. Typed'
  <2>1. \A k \in Threads : Busy(k)' => log' # <<>>
    BY <1>0, <1>1 DEF Typed, Busy, Idle
  <2> QED
    BY <1>0, <1>1, <2>1 DEF Typed, NoDoc
<1>3. ASSUME ~overlap', OneInstance'
      PROVE  OneAtATime' /\ Carries' /\ Remembered' /\ OnShow'
  <2>1. OneAtATime /\ Carries /\ Remembered /\ OnShow
    BY <1>1, <1>3 DEF StatusInv, DocInv, OneInstance
  <2>2. \A k \in Threads : pub'[k] = pub[k] \/ (InstanceOf(k) = p /\ pub'[k].stage = "idle")
    BY <1>1 DEF Idle
  <2>3. OneAtATime' /\ Carries' /\ OnShow'
    BY <1>1, <2>1, <2>2 DEF OneAtATime, Carries, OnShow, Busy, Status
  <2>4. ASSUME NEW q \in published
        PROVE  last'[q] \in {NoDoc, doc} \/ \E k \in Threads : pub'[k].stage = "remember"
    <3>1. CASE q = p
      BY <1>0, <1>1, <3>1
    <3>2. CASE q # p
      <4>1. last'[q] = last[q]
        BY <1>0, <1>1, <3>2
      <4>2. ASSUME NEW k \in Threads, pub[k].stage = "remember"
            PROVE  pub'[k] = pub[k]
        <5>1. InstanceOf(k) = q
          BY <1>1, <1>3, <2>1, <4>2 DEF OneAtATime, OneInstance, Busy
        <5> QED
          BY <2>2, <3>2, <5>1
      <4> QED
        BY <2>1, <4>1, <4>2 DEF Remembered
    <3> QED
      BY <3>1, <3>2
  <2>5. \A q \in Instances \ published : last'[q] = NoDoc
    BY <1>0, <1>1, <2>1 DEF Remembered
  <2>6. Remembered'
    BY <1>1, <2>4, <2>5 DEF Remembered, NoDoc
  <2> QED
    BY <2>3, <2>6
<1> QED
  BY <1>1, <1>2, <1>3 DEF StatusInv, DocInv

-----------------------------------------------------------------------------
(* The theorems.                                                           *)

\* The invariant holds at first.
LEMMA StatusInitially ==
  ASSUME StatusInit
  PROVE  StatusInv
<1>1. /\ log = <<>> /\ ran = <<>> /\ doc = NoDoc /\ published = {}
      /\ last = [p \in Instances |-> NoDoc] /\ pub = [k \in Threads |-> Idle]
      /\ overlap = FALSE /\ missed = FALSE
  BY DEF StatusInit
<1>2. \A k \in Threads : ~Busy(k)
  BY <1>1 DEF Busy, Idle
<1>3. Chain(Nothing, log, ran)
  BY <1>1 DEF Chain
<1>4. IsFiniteSet(published) /\ published \subseteq Instances
  BY <1>1, FS_EmptySet
<1>5. Typed
  <2>1. <<>> \in Seq(Checkpoint) /\ Idle \in Publication
    BY DEF Publication
  <2>2. log \in Seq(Checkpoint) /\ pub \in [Threads -> Publication]
    BY <1>1, <2>1
  <2>3. last \in [Instances -> Statuses \cup {NoDoc}] /\ doc \in Statuses \cup {NoDoc}
    BY <1>1
  <2> QED
    BY <1>1, <1>2, <1>4, <2>2, <2>3 DEF Typed
<1>6. DocInv
  BY <1>1 DEF DocInv, OneAtATime, Carries, Remembered, OnShow, Busy, Idle
<1> QED
  BY <1>3, <1>5, <1>6 DEF StatusInv

\* The checkpoints tell what ran, and the document follows while one instance
\* publishes, whatever is lost, fails or is forgotten.
THEOREM StatusInductive == StatusSpec => []StatusInv
<1>1. StatusInit => StatusInv
  BY StatusInitially
<1>2. StatusInv /\ [StatusNext]_statusVars => StatusInv'
  <2> SUFFICES ASSUME StatusInv, [StatusNext]_statusVars
               PROVE  StatusInv'
    OBVIOUS
  <2>1. CASE UNCHANGED statusVars
    BY <2>1 DEF statusVars, StatusInv, Typed, Chain, DocInv, OneInstance, OneAtATime, Carries, Remembered, OnShow,
                Busy, Status, NoDoc, StepNode, Nothing, Evaluating, End
  <2>2. ASSUME NEW k \in Threads, RunStep(k)
        PROVE  StatusInv'
    BY <2>2, RunSets, RunKeeps DEF StatusInv
  <2>3. ASSUME NEW k \in Threads, PublishStep(k)
        PROVE  StatusInv'
    BY <2>3, PublishKeeps
  <2>4. ASSUME NEW p \in Instances, ClearLast(p) \/ Crash(p)
        PROVE  StatusInv'
    BY <2>4, InstanceKeeps
  <2> QED
    BY <2>1, <2>2, <2>3, <2>4 DEF StatusNext, RunStep, PublishStep
<1> QED
  BY <1>1, <1>2, PTL DEF StatusSpec

\* Of a chain, the trace tells what ran.
LEMMA TraceTells ==
  ASSUME Typed, Chain(Nothing, log, ran), NEW n \in 2..Len(log)
  PROVE  LET steps == Trace(SubSeq(log, 1, n))
         IN /\ Len(steps) = IF log[n].next = End THEN n - 1 ELSE n
            /\ \A i \in 1..n - 1 :
                 ran[i + 1] # "__input__" => steps[i] = [node |-> ran[i + 1], status |-> "completed"]
            /\ log[n].next # End => steps[n] = [node |-> log[n].next, status |-> "in_progress"]
<1> DEFINE cs == SubSeq(log, 1, n)
           done == [i \in 1..n - 1 |-> [node |-> StepNode(cs[i], cs[i + 1]), status |-> "completed"]]
           rest == IF log[n].next = End THEN <<>>
                   ELSE <<[node |-> log[n].next, status |-> "in_progress"]>>
           Shape == [node: StepNames, status: {"completed", "in_progress"}]
<1>0. /\ log \in Seq(Checkpoint) /\ Len(log) \in Nat /\ n \in 1..Len(log) /\ Len(ran) = Len(log)
      /\ \A i \in 1..Len(log) : log[i] \in Checkpoint
  BY LenProperties, ElementOfSeq DEF Typed, Chain
<1>1. Len(cs) = n /\ \A i \in 1..n : cs[i] = log[i]
  BY <1>0
<1> HIDE DEF cs
<1>2. \A i \in 1..n - 1 :
        /\ StepNode(cs[i], cs[i + 1]) \in StepNames
        /\ ran[i + 1] # "__input__" => StepNode(cs[i], cs[i + 1]) = ran[i + 1]
  <2> TAKE i \in 1..n - 1
  <2>1. i \in 1..n /\ i + 1 \in 1..n /\ i + 1 \in 1..Len(ran) /\ i \in 1..Len(log) /\ i + 1 # 1 /\ i + 1 - 1 = i
    BY <1>0
  <2>2. StepNode(log[i], log[i + 1]) \in StepNames
    <3>1. log[i].next \in NodeNames \cup {End}
      BY <1>0, <2>1 DEF Checkpoint
    <3> QED
      BY <3>1 DEF StepNode, StepNames
  <2>3. ran[i + 1] # "__input__" => StepNode(log[i], log[i + 1]) = ran[i + 1]
    BY <2>1 DEF Chain
  <2> QED
    BY <1>1, <2>1, <2>2, <2>3
<1>3. \A i \in 1..n - 1 : ran[i + 1] # "__input__" => done[i] = [node |-> ran[i + 1], status |-> "completed"]
  BY <1>2
<1>4. done \in Seq(Shape) /\ Len(done) = n - 1
  BY <1>0, <1>2
<1>5. rest \in Seq(Shape) /\ Len(rest) = IF log[n].next = End THEN 0 ELSE 1
  <2>1. log[n].next \in NodeNames \cup {End}
    BY <1>0 DEF Checkpoint
  <2>2. log[n].next # End => [node |-> log[n].next, status |-> "in_progress"] \in Shape
    BY <2>1 DEF StepNames
  <2> HIDE DEF Shape
  <2> QED
    BY <2>2
<1>6. log[n].next # End => rest[1] = [node |-> log[n].next, status |-> "in_progress"]
  OBVIOUS
<1>7. Trace(cs) = done \o rest
  <2>1. Len(cs) - 1 = n - 1 /\ Last(cs) = log[n]
    BY <1>0, <1>1 DEF Last
  <2>2. [i \in 1..Len(cs) - 1 |-> [node |-> StepNode(cs[i], cs[i + 1]), status |-> "completed"]] = done
    BY <2>1, Zenon
  <2>3. (IF Last(cs).next = End THEN <<>> ELSE <<[node |-> Last(cs).next, status |-> "in_progress"]>>) = rest
    BY <2>1, Zenon
  <2> HIDE DEF done, rest
  <2> QED
    BY <2>2, <2>3, Zenon DEF Trace
<1> HIDE DEF done, rest, Shape
<1>8. /\ Len(done \o rest) = Len(done) + Len(rest)
      /\ \A i \in 1..Len(done) + Len(rest) :
           (done \o rest)[i] = IF i <= Len(done) THEN done[i] ELSE rest[i - Len(done)]
  BY <1>4, <1>5, ConcatProperties
<1>9. Len(Trace(cs)) = IF log[n].next = End THEN n - 1 ELSE n
  BY <1>0, <1>4, <1>5, <1>7, <1>8
<1>10. \A i \in 1..n - 1 : Trace(cs)[i] = done[i]
  BY <1>0, <1>4, <1>5, <1>7, <1>8
<1>11. log[n].next # End => Trace(cs)[n] = [node |-> log[n].next, status |-> "in_progress"]
  BY <1>0, <1>4, <1>5, <1>6, <1>7, <1>8
<1> QED
  BY <1>3, <1>9, <1>10, <1>11 DEF cs

\* At every checkpoint but a start's input, of any history, however often it
\* is started again or re-evaluated and whatever node raises, the trace lists
\* what ran and what is queued (margin_call_trace.py).
THEOREM TraceTellsHistory == StatusSpec => []TraceIsHistory
<1>1. StatusInv => TraceIsHistory
  <2> SUFFICES ASSUME StatusInv
               PROVE  TraceIsHistory
    OBVIOUS
  <2>1. Typed /\ Chain(Nothing, log, ran)
    BY DEF StatusInv
  <2>2. StatusTypeOK
    <3>1. \A i \in DOMAIN log : log[i] \in Checkpoint
      BY <2>1, LenProperties, ElementOfSeq DEF Typed
    <3>2. \A i \in DOMAIN log : log[i].source \in {"input", "loop", "update"} /\ log[i].status[2] \in Figures \cup {0}
      BY <3>1 DEF Checkpoint, Statuses
    <3> QED
      BY <2>1, <3>2, StageSets DEF StatusTypeOK, Typed, Chain
  <2>3. \A n \in 2..Len(log) :
          LET steps == Trace(SubSeq(log, 1, n))
          IN /\ Len(steps) = IF log[n].next = End THEN n - 1 ELSE n
             /\ \A i \in 1..n - 1 :
                  ran[i + 1] # "__input__" => steps[i] = [node |-> ran[i + 1], status |-> "completed"]
             /\ log[n].next # End => steps[n] = [node |-> log[n].next, status |-> "in_progress"]
    BY <2>1, TraceTells
  <2> QED
    BY <2>2, <2>3 DEF TraceIsHistory
<1> QED
  BY <1>1, StatusInductive, PTL

\* With one instance publishing, one publication at a time, the document is
\* the call's status once the last of them ended (publisher.py,
\* _publish_status), for any number of threads, failures and lost instances.
THEOREM DocumentFollows == StatusSpec => []DocFollows
<1>1. StatusInv => DocFollows
  <2> SUFFICES ASSUME StatusInv, Settled, Cardinality(published) = 1
               PROVE  doc = Status(log)
    BY DEF DocFollows
  <2>1. PICK p : published = {p}
    <3>1. IsFiniteSet(published)
      BY DEF StatusInv, Typed
    <3> QED
      BY <3>1, FS_Singleton
  <2>2. OneInstance /\ ~overlap /\ ~missed
    BY <2>1 DEF OneInstance, Settled
  <2> QED
    BY <2>1, <2>2 DEF StatusInv, DocInv, OnShow
<1> QED
  BY <1>1, StatusInductive, PTL

-----------------------------------------------------------------------------
(* Reports.                                                                *)

Row == [cps : SUBSET Cps, at : Nat]
Report == {rows \in Seq(Row) : Len(rows) <= 2}
Request ==
  {NoRequest} \cup [stage : {"look"}, book : Books, scope : Scopes]
    \cup [stage : {"query", "query again", "store"}, began : Nat, rows : Report, book : Books, scope : Scopes]
    \cup [stage : {"shown"}, book : Books, rows : Report, began : Nat]

\* Whose rows a query of a scope returns.
SeenBy(scope) == {cp \in Cps : scope = FIRM_WIDE \/ cp \in scope.cps}

\* The rows of a report are of its scope and no older than a time.
Holds(rows, scope, since) ==
  \A i \in DOMAIN rows : rows[i].cps \subseteq SeenBy(scope) /\ rows[i].at >= since

ReportsTyped ==
  /\ access \in [Users -> SUBSET Cps] /\ granted \in [Users -> SUBSET Cps]
  /\ clock \in 1..MaxClock
  /\ cache \in [Keys -> [until : Nat, rows : Report]]
  /\ req \in [Users -> Request]

\* A cached report is of its key's scope, which may see its book, and expires
\* CACHE_SECONDS after its oldest row at the latest.
CacheInv ==
  \A scope \in Scopes : \A book \in Books :
    LET entry == cache[<<scope, book>>] IN
    /\ entry.until <= clock + CACHE_SECONDS
    /\ entry.until > 0 => book \in visible_books(scope)
    /\ \A i \in DOMAIN entry.rows :
         entry.rows[i].cps \subseteq SeenBy(scope) /\ entry.until <= entry.rows[i].at + CACHE_SECONDS

\* A request's scope is one its user had, and its rows are of that scope.
RequestInv(u) ==
  /\ req[u].stage \in {"look", "query", "query again", "store"} =>
       /\ SeenBy(req[u].scope) \subseteq granted[u]
       /\ req[u].scope = FIRM_WIDE => RoleOf(u) \in FIRM_WIDE_ROLES
  /\ req[u].stage \in {"query", "query again", "store"} =>
       /\ req[u].book \in visible_books(req[u].scope) /\ req[u].began <= clock
       /\ Holds(req[u].rows, req[u].scope, req[u].began)
  /\ req[u].stage = "query" => req[u].rows = <<>>
  /\ req[u].stage = "query again" => Len(req[u].rows) <= 1
  /\ req[u].stage = "shown" =>
       /\ \A i \in DOMAIN req[u].rows :
            req[u].rows[i].cps \subseteq granted[u] /\ req[u].rows[i].at + CACHE_SECONDS > req[u].began
       /\ req[u].book = "live" \/ RoleOf(u) \in FIRM_WIDE_ROLES

ReportsInv == ReportsTyped /\ CacheInv /\ \A u \in Users : RequestInv(u)

\* One user's request goes on.
LEMMA RequestStep ==
  ASSUME ReportsInv, NEW u \in Users, NEW r \in Request, req' = [req EXCEPT ![u] = r],
         UNCHANGED <<access, clock, cache>>, granted' \in [Users -> SUBSET Cps],
         \A v \in Users \ {u} : granted'[v] = granted[v], RequestInv(u)'
  PROVE  ReportsInv'
<1>1. ReportsTyped'
  BY DEF ReportsInv, ReportsTyped
<1>2. CacheInv'
  BY DEF ReportsInv, CacheInv
<1>3. ASSUME NEW v \in Users \ {u} PROVE RequestInv(v)'
  <2>1. req'[v] = req[v] /\ granted'[v] = granted[v] /\ clock' = clock
    BY DEF ReportsInv, ReportsTyped
  <2> QED
    BY <2>1 DEF ReportsInv, RequestInv, Holds
<1> QED
  BY <1>1, <1>2, <1>3 DEF ReportsInv

\* What each stage of a request keeps.
LEMMA RequestFields ==
  ASSUME ReportsTyped, NEW u \in Users
  PROVE  /\ req[u].stage \in {"idle", "look", "query", "query again", "store", "shown"}
         /\ req[u].stage = "look" => req[u] \in [stage : {"look"}, book : Books, scope : Scopes]
         /\ req[u].stage \in {"query", "query again", "store"} =>
              req[u] \in [stage : {"query", "query again", "store"}, began : Nat, rows : Report, book : Books, scope : Scopes]
<1>1. req[u] \in Request
  BY DEF ReportsTyped
<1>2. CASE req[u] = NoRequest
  BY <1>2 DEF NoRequest
<1>3. CASE req[u] \in [stage : {"look"}, book : Books, scope : Scopes]
  BY <1>3
<1>4. CASE req[u] \in [stage : {"query", "query again", "store"}, began : Nat, rows : Report, book : Books, scope : Scopes]
  BY <1>4
<1>5. CASE req[u] \in [stage : {"shown"}, book : Books, rows : Report, began : Nat]
  BY <1>5
<1> QED
  BY <1>1, <1>2, <1>3, <1>4, <1>5 DEF Request

\* A scope looked up for a user.
LEMMA ScopeSets ==
  ASSUME access \in [Users -> SUBSET Cps], NEW u \in Users
  PROVE  /\ scope_for(u) \in Scopes /\ SeenBy(scope_for(u)) = Visible(u)
         /\ scope_for(u) = FIRM_WIDE => RoleOf(u) \in FIRM_WIDE_ROLES
<1>1. access[u] \in SUBSET Cps
  OBVIOUS
<1>2. scope_for(u) \in Scopes
  BY <1>1 DEF scope_for, Scopes
<1>3. scope_for(u) = FIRM_WIDE => RoleOf(u) \in FIRM_WIDE_ROLES
  BY DEF scope_for, FIRM_WIDE
<1> QED
  BY <1>2, <1>3 DEF SeenBy, Visible, can_see

\* A request that starts, or is over.
LEMMA AskStep ==
  ASSUME ReportsInv, NEW u \in Users,
         (\E book \in Books : AskReport(u, book)) \/ Denied(u) \/ QueryFails(u) \/ Read(u)
  PROVE  ReportsInv'
<1>1. CASE \E book \in Books : AskReport(u, book)
  <2>1. PICK book \in Books : AskReport(u, book)
    BY <1>1
  <2> DEFINE r == [stage |-> "look", book |-> book, scope |-> scope_for(u)]
  <2>2. /\ req' = [req EXCEPT ![u] = r] /\ UNCHANGED <<access, clock, cache>>
        /\ granted' = [granted EXCEPT ![u] = Visible(u)]
    BY <2>1 DEF AskReport, Begins
  <2>3. /\ scope_for(u) \in Scopes /\ SeenBy(scope_for(u)) = Visible(u)
        /\ scope_for(u) = FIRM_WIDE => RoleOf(u) \in FIRM_WIDE_ROLES
    BY ScopeSets DEF ReportsInv, ReportsTyped
  <2>4. r \in Request
    BY <2>3 DEF Request
  <2>5. granted' \in [Users -> SUBSET Cps] /\ granted'[u] = Visible(u) /\ \A v \in Users \ {u} : granted'[v] = granted[v]
    BY <2>2 DEF ReportsInv, ReportsTyped, Visible
  <2>6. req'[u].stage = "look" /\ req'[u].scope = scope_for(u)
    BY <2>2 DEF ReportsInv, ReportsTyped
  <2>7. RequestInv(u)'
    BY <2>3, <2>5, <2>6 DEF RequestInv
  <2> HIDE DEF r
  <2> QED
    BY <2>2, <2>4, <2>5, <2>7, RequestStep
<1>2. CASE Denied(u) \/ QueryFails(u) \/ Read(u)
  <2>1. /\ req' = [req EXCEPT ![u] = NoRequest] /\ UNCHANGED <<access, clock, cache>>
        /\ granted' = [granted EXCEPT ![u] = {}]
    BY <1>2 DEF Denied, QueryFails, Read, Ends
  <2>2. granted' \in [Users -> SUBSET Cps] /\ \A v \in Users \ {u} : granted'[v] = granted[v]
    BY <2>1 DEF ReportsInv, ReportsTyped
  <2>3. req'[u].stage = "idle"
    BY <2>1 DEF ReportsInv, ReportsTyped, NoRequest
  <2>4. RequestInv(u)'
    BY <2>3 DEF RequestInv
  <2>5. NoRequest \in Request
    BY DEF Request
  <2> QED
    BY <2>1, <2>2, <2>4, <2>5, RequestStep
<1> QED
  BY <1>1, <1>2

\* What a look at the cache finds.
LEMMA LookStep ==
  ASSUME ReportsInv, NEW u \in Users, Hit(u) \/ Miss(u)
  PROVE  ReportsInv'
<1>1. /\ req[u].stage = "look" /\ req[u].book \in Books /\ req[u].scope \in Scopes
      /\ req[u] \in [stage : {"look"}, book : Books, scope : Scopes]
  BY RequestFields DEF ReportsInv, Hit, Miss
<1>2. /\ SeenBy(req[u].scope) \subseteq granted[u]
      /\ req[u].scope = FIRM_WIDE => RoleOf(u) \in FIRM_WIDE_ROLES
      /\ clock \in Nat \ {0} /\ granted \in [Users -> SUBSET Cps]
  <2>1. RequestInv(u)
    BY DEF ReportsInv
  <2>2. clock \in Nat \ {0} /\ granted \in [Users -> SUBSET Cps]
    BY ReportsAssumption DEF ReportsInv, ReportsTyped
  <2> QED
    BY <1>1, <2>1, <2>2 DEF RequestInv
<1>3. UNCHANGED <<access, clock, cache, granted>>
  BY DEF Hit, Miss
<1>4. CASE Hit(u)
  <2> DEFINE entry == cache[<<req[u].scope, req[u].book>>]
             r == [stage |-> "shown", book |-> req[u].book, rows |-> entry.rows, began |-> clock]
  <2>1. entry \in [until : Nat, rows : Report]
    BY <1>1 DEF ReportsInv, ReportsTyped, Keys
  <2>2. entry.until > clock /\ req' = [req EXCEPT ![u] = r]
    BY <1>4 DEF Hit, KeyOf, Key, Shown
  <2>3. /\ req[u].book \in visible_books(req[u].scope)
        /\ \A i \in DOMAIN entry.rows :
             entry.rows[i].cps \subseteq SeenBy(req[u].scope) /\ entry.until <= entry.rows[i].at + CACHE_SECONDS
    BY <1>1, <1>2, <2>1, <2>2 DEF ReportsInv, CacheInv
  <2>4. \A i \in DOMAIN entry.rows : entry.rows[i].cps \subseteq granted[u] /\ entry.rows[i].at + CACHE_SECONDS > clock
    <3> TAKE i \in DOMAIN entry.rows
    <3>1. entry.rows[i] \in Row
      BY <2>1 DEF Report
    <3> QED
      BY <1>2, <2>1, <2>2, <2>3, <3>1, ReportsAssumption, SMTT(30) DEF Row
  <2>5. req[u].book = "live" \/ RoleOf(u) \in FIRM_WIDE_ROLES
    BY <1>2, <2>3 DEF visible_books
  <2>6. r \in Request
    BY <1>1, <1>2, <2>1 DEF Request
  <2>7. req'[u] = r
    BY <2>2 DEF ReportsInv, ReportsTyped
  <2> HIDE DEF entry
  <2>8. RequestInv(u)'
    BY <1>3, <2>4, <2>5, <2>7 DEF RequestInv
  <2> HIDE DEF r
  <2> QED
    BY <1>2, <1>3, <2>2, <2>6, <2>8, RequestStep
<1>5. CASE Miss(u)
  <2> DEFINE r == [stage |-> "query", began |-> clock, rows |-> <<>>, book |-> req[u].book, scope |-> req[u].scope]
  <2>1. req[u].book \in visible_books(req[u].scope)
    BY <1>5 DEF Miss
  <2>3. req' = [req EXCEPT ![u] = r]
    BY <1>5 DEF Miss
  <2>4. r \in Request
    BY <1>1, <1>2 DEF Request, Report
  <2>5. req'[u] = r
    BY <2>3 DEF ReportsInv, ReportsTyped
  <2>6. RequestInv(u)'
    BY <1>2, <1>3, <2>1, <2>5 DEF RequestInv, Holds
  <2> HIDE DEF r
  <2> QED
    BY <1>2, <1>3, <2>3, <2>4, <2>6, RequestStep
<1> QED
  BY <1>4, <1>5

\* A query's rows are of the scope it was given, and read now.
LEMMA RowsSets ==
  ASSUME ReportsInv, NEW u \in Users, req[u].scope \in Scopes
  PROVE  Rows(u) \in Row /\ Rows(u).cps \subseteq SeenBy(req[u].scope) /\ Rows(u).at = clock
<1>1. clock \in Nat
  BY ReportsAssumption DEF ReportsInv, ReportsTyped
<1> QED
  BY <1>1 DEF Rows, Row, SeenBy, report_scope, Scopes

\* The queries of the five reports.
LEMMA QueryStep ==
  ASSUME ReportsInv, NEW u \in Users,
         \/ exposure_trend(u) \/ collateral_adequacy(u) \/ concentration(u)
         \/ margin_call_performance(u) \/ stress_backtest(u)
  PROVE  ReportsInv'
<1>1. req[u].stage \in {"query", "query again"}
  BY DEF exposure_trend, collateral_adequacy, concentration, margin_call_performance, stress_backtest
<1>2. req[u] \in [stage : {"query", "query again", "store"}, began : Nat, rows : Report, book : Books, scope : Scopes]
  BY <1>1, RequestFields DEF ReportsInv
<1>3. /\ SeenBy(req[u].scope) \subseteq granted[u]
      /\ req[u].scope = FIRM_WIDE => RoleOf(u) \in FIRM_WIDE_ROLES
      /\ req[u].book \in visible_books(req[u].scope) /\ req[u].began <= clock
      /\ Holds(req[u].rows, req[u].scope, req[u].began)
      /\ Len(req[u].rows) <= 1
      /\ req[u].stage = "query" => req[u].rows = <<>>
      /\ clock \in Nat /\ granted \in [Users -> SUBSET Cps]
  <2>1. RequestInv(u)
    BY DEF ReportsInv
  <2>2. clock \in Nat /\ granted \in [Users -> SUBSET Cps]
    BY ReportsAssumption DEF ReportsInv, ReportsTyped
  <2>3. Len(req[u].rows) <= 1
    <3>1. CASE req[u].stage = "query"
      <4>1. req[u].rows = <<>>
        BY <2>1, <3>1 DEF RequestInv
      <4> QED
        BY <4>1, EmptySeq
    <3>2. CASE req[u].stage = "query again"
      BY <2>1, <3>2 DEF RequestInv
    <3> QED
      BY <1>1, <3>1, <3>2
  <2> QED
    BY <1>1, <2>1, <2>2, <2>3 DEF RequestInv
<1>4. Rows(u) \in Row /\ Rows(u).cps \subseteq SeenBy(req[u].scope) /\ Rows(u).at = clock
  BY <1>2, RowsSets
<1>5. PICK stage, rows :
        /\ QueryTo(u, stage, rows)
        /\ \/ stage = "store" /\ rows = <<Rows(u)>>
           \/ stage = "store" /\ rows = req[u].rows \o <<Rows(u)>>
           \/ stage = "query again" /\ rows \in {<<>>, <<Rows(u)>>}
  BY DEF exposure_trend, collateral_adequacy, concentration, margin_call_performance, stress_backtest
<1>6. /\ rows \in Report /\ Holds(rows, req[u].scope, req[u].began)
      /\ stage \in {"query again", "store"}
      /\ stage = "query again" => Len(rows) <= 1
  <2>1. PICK row \in Row : row = Rows(u)
    BY <1>4
  <2>2. PICK old \in Seq(Row) : old = req[u].rows /\ Len(old) <= 1 /\ Len(old) \in Nat
    BY <1>2, <1>3, LenProperties DEF Report
  <2>3. PICK since \in Nat : since = req[u].began
    BY <1>2
  <2>4. row.cps \subseteq SeenBy(req[u].scope) /\ row.at >= since
    BY <1>3, <1>4, <2>1, <2>3
  <2>5. <<row>> \in Report /\ Len(<<row>>) <= 1 /\ Holds(<<row>>, req[u].scope, since)
    BY <2>4 DEF Report, Holds
  <2>6. <<>> \in Report /\ Len(<<>>) <= 1 /\ Holds(<<>>, req[u].scope, since)
    BY DEF Report, Holds
  <2>7. old \o <<row>> \in Report /\ Holds(old \o <<row>>, req[u].scope, since)
    <3>1. old \o <<row>> \in Seq(Row) /\ Len(old \o <<row>>) = Len(old) + 1
          /\ \A i \in 1..Len(old) + 1 : (old \o <<row>>)[i] = IF i <= Len(old) THEN old[i] ELSE row
      BY <2>2
    <3>2. \A i \in DOMAIN old : old[i].cps \subseteq SeenBy(req[u].scope) /\ old[i].at >= since
      BY <1>3, <2>2, <2>3 DEF Holds
    <3> QED
      BY <2>2, <2>4, <3>1, <3>2 DEF Report, Holds
  <2>8. CASE stage = "store" /\ rows = <<Rows(u)>>
    BY <2>1, <2>3, <2>5, <2>8
  <2>9. CASE stage = "store" /\ rows = req[u].rows \o <<Rows(u)>>
    BY <2>1, <2>2, <2>3, <2>7, <2>9
  <2>10. CASE stage = "query again" /\ rows = <<>>
    BY <2>3, <2>6, <2>10
  <2>11. CASE stage = "query again" /\ rows = <<Rows(u)>>
    BY <2>1, <2>3, <2>5, <2>11
  <2> QED
    BY <1>5, <2>8, <2>9, <2>10, <2>11
<1>7. /\ req' = [req EXCEPT ![u] = [@ EXCEPT !.stage = stage, !.rows = rows]]
      /\ UNCHANGED <<access, granted, clock, cache>>
  BY <1>5 DEF QueryTo
<1> DEFINE r == [stage |-> stage, began |-> req[u].began, rows |-> rows, book |-> req[u].book, scope |-> req[u].scope]
<1>8. [req[u] EXCEPT !.stage = stage, !.rows = rows] = r
  <2>1. PICK a, b, c, d, e : req[u] = [stage |-> a, began |-> b, rows |-> c, book |-> d, scope |-> e]
    BY <1>2
  <2> DEFINE q == [stage |-> a, began |-> b, rows |-> c, book |-> d, scope |-> e]
             q1 == [q EXCEPT !.stage = stage]
             q2 == [q1 EXCEPT !.rows = rows]
  <2>4. q1 = [stage |-> stage, began |-> b, rows |-> c, book |-> d, scope |-> e]
    OBVIOUS
  <2>5. q2 = [stage |-> stage, began |-> b, rows |-> rows, book |-> d, scope |-> e]
    <3> HIDE DEF q1
    <3> QED
      BY <2>4
  <2>2. [q EXCEPT !.stage = stage, !.rows = rows] = q2
    <3> HIDE DEF q
    <3> QED
      OBVIOUS
  <2>3. req[u].began = b /\ req[u].book = d /\ req[u].scope = e
    BY <2>1
  <2> HIDE DEF q2
  <2> QED
    BY <2>1, <2>2, <2>3, <2>5
<1>9. r \in Request
  <2>1. PICK began \in Nat, book \in Books, scope \in Scopes :
          began = req[u].began /\ book = req[u].book /\ scope = req[u].scope
    BY <1>2
  <2>2. stage \in {"query", "query again", "store"} /\ rows \in Report
    BY <1>6
  <2>3. r \in [stage : {"query", "query again", "store"}, began : Nat, rows : Report, book : Books, scope : Scopes]
    BY <2>1, <2>2
  <2> QED
    BY <2>3 DEF Request
<1>10. req' = [req EXCEPT ![u] = r] /\ req'[u] = r
  BY <1>7, <1>8 DEF ReportsInv, ReportsTyped
<1>11. RequestInv(u)'
  <2>1. /\ r.stage = stage /\ r.began = req[u].began /\ r.rows = rows
        /\ r.book = req[u].book /\ r.scope = req[u].scope
    OBVIOUS
  <2> HIDE DEF r
  <2>2. stage # "query" /\ stage # "shown" /\ stage # "look"
    BY <1>6
  <2>3. UNCHANGED <<granted, clock>>
    BY <1>7
  <2> QED
    BY <1>3, <1>6, <1>10, <2>1, <2>2, <2>3 DEF RequestInv, Holds
<1> HIDE DEF r
<1> QED
  BY <1>3, <1>7, <1>9, <1>10, <1>11, RequestStep

\* The report is kept, and shown.
LEMMA StoreStep ==
  ASSUME ReportsInv, NEW u \in Users, Store(u)
  PROVE  ReportsInv'
<1>1. /\ req[u].stage = "store"
      /\ req[u] \in [stage : {"query", "query again", "store"}, began : Nat, rows : Report, book : Books, scope : Scopes]
  BY RequestFields DEF ReportsInv, Store
<1>2. /\ SeenBy(req[u].scope) \subseteq granted[u]
      /\ req[u].scope = FIRM_WIDE => RoleOf(u) \in FIRM_WIDE_ROLES
      /\ req[u].book \in visible_books(req[u].scope) /\ req[u].began <= clock
      /\ Holds(req[u].rows, req[u].scope, req[u].began)
      /\ clock \in Nat /\ granted \in [Users -> SUBSET Cps] /\ CACHE_SECONDS \in Nat \ {0}
  <2>1. RequestInv(u)
    BY DEF ReportsInv
  <2>2. clock \in Nat /\ granted \in [Users -> SUBSET Cps] /\ CACHE_SECONDS \in Nat \ {0}
    BY ReportsAssumption DEF ReportsInv, ReportsTyped
  <2> QED
    BY <1>1, <2>1, <2>2 DEF RequestInv
<1>3. PICK scope \in Scopes, book \in Books, rows \in Report, began \in Nat :
        scope = req[u].scope /\ book = req[u].book /\ rows = req[u].rows /\ began = req[u].began
  BY <1>1
<1> DEFINE entry == [until |-> began + CACHE_SECONDS, rows |-> rows]
           r == [stage |-> "shown", book |-> book, rows |-> rows, began |-> began]
<1>4. /\ cache' = [cache EXCEPT ![<<scope, book>>] = entry] /\ req' = [req EXCEPT ![u] = r]
      /\ UNCHANGED <<access, granted, clock>>
  BY <1>3 DEF Store, KeyOf, Key, Expiry, Shown
<1>5. r \in Request /\ entry \in [until : Nat, rows : Report] /\ <<scope, book>> \in Keys
  <2>1. r \in [stage : {"shown"}, book : Books, rows : Report, began : Nat]
    OBVIOUS
  <2>2. entry \in [until : Nat, rows : Report]
    BY <1>2
  <2> QED
    BY <2>1, <2>2 DEF Request, Keys
<1>6. \A i \in DOMAIN rows : rows[i].at \in Nat /\ rows[i].cps \subseteq SeenBy(scope) /\ rows[i].at >= began
  <2> TAKE i \in DOMAIN rows
  <2>1. rows[i] \in Row
    BY DEF Report
  <2>2. rows[i].at \in Nat
    BY <2>1 DEF Row
  <2> QED
    BY <1>2, <1>3, <2>2 DEF Holds
<1>7. ReportsTyped'
  BY <1>4, <1>5 DEF ReportsInv, ReportsTyped
<1>8. CacheInv'
  <2> SUFFICES ASSUME NEW s \in Scopes, NEW b \in Books
               PROVE  LET e == cache'[<<s, b>>] IN
                      /\ e.until <= clock + CACHE_SECONDS
                      /\ e.until > 0 => b \in visible_books(s)
                      /\ \A i \in DOMAIN e.rows :
                           e.rows[i].cps \subseteq SeenBy(s) /\ e.until <= e.rows[i].at + CACHE_SECONDS
    BY <1>4 DEF CacheInv
  <2>1. CASE s = scope /\ b = book
    <3>1. cache'[<<s, b>>] = entry
      BY <1>4, <1>5, <2>1 DEF ReportsInv, ReportsTyped
    <3> QED
      BY <1>2, <1>3, <1>6, <2>1, <3>1
  <2>2. CASE ~(s = scope /\ b = book)
    <3>1. cache'[<<s, b>>] = cache[<<s, b>>]
      BY <1>4, <2>2 DEF ReportsInv, ReportsTyped, Keys
    <3> QED
      BY <3>1 DEF ReportsInv, CacheInv
  <2> QED
    BY <2>1, <2>2
<1>9. ASSUME NEW v \in Users PROVE RequestInv(v)'
  <2>1. CASE v = u
    <3>1. req'[u] = r
      BY <1>4 DEF ReportsInv, ReportsTyped
    <3>2. \A i \in DOMAIN rows : rows[i].cps \subseteq granted[u] /\ rows[i].at + CACHE_SECONDS > began
      BY <1>2, <1>3, <1>6
    <3>3. book = "live" \/ RoleOf(u) \in FIRM_WIDE_ROLES
      BY <1>2, <1>3 DEF visible_books
    <3>4. r.stage = "shown" /\ r.rows = rows /\ r.began = began /\ r.book = book
      OBVIOUS
    <3>5. granted' = granted
      BY <1>4
    <3> HIDE DEF r
    <3> QED
      BY <2>1, <3>1, <3>2, <3>3, <3>4, <3>5 DEF RequestInv
  <2>2. CASE v # u
    <3>1. req'[v] = req[v] /\ granted'[v] = granted[v] /\ clock' = clock
      BY <1>4, <2>2 DEF ReportsInv, ReportsTyped
    <3> QED
      BY <3>1 DEF ReportsInv, RequestInv, Holds
  <2> QED
    BY <2>1, <2>2
<1> QED
  BY <1>7, <1>8, <1>9 DEF ReportsInv

\* Accounts, loads and the clock.
LEMMA OutsideStep ==
  ASSUME ReportsInv, (\E u \in Users : \E cp \in Cps : EditRows(u, cp)) \/ LoadReportTables \/ Tick
  PROVE  ReportsInv'
<1>1. UNCHANGED <<cache, req>>
  BY DEF EditRows, LoadReportTables, Tick
<1>2. CASE LoadReportTables \/ Tick
  <2>1. /\ UNCHANGED <<access, granted>> /\ clock' \in 1..MaxClock /\ clock' >= clock /\ clock \in Nat /\ clock' \in Nat
        /\ CACHE_SECONDS \in Nat
    BY <1>2, ReportsAssumption DEF LoadReportTables, Tick, ReportsInv, ReportsTyped
  <2>2. ReportsTyped'
    BY <1>1, <2>1 DEF ReportsInv, ReportsTyped
  <2>3. CacheInv'
    <3> SUFFICES ASSUME NEW s \in Scopes, NEW b \in Books
                 PROVE  LET e == cache[<<s, b>>] IN
                        /\ e.until <= clock' + CACHE_SECONDS
                        /\ e.until > 0 => b \in visible_books(s)
                        /\ \A i \in DOMAIN e.rows :
                             e.rows[i].cps \subseteq SeenBy(s) /\ e.until <= e.rows[i].at + CACHE_SECONDS
      BY <1>1 DEF CacheInv
    <3> DEFINE e == cache[<<s, b>>]
    <3>1. e.until \in Nat
      BY DEF ReportsInv, ReportsTyped, Keys
    <3>2. /\ e.until <= clock + CACHE_SECONDS
          /\ e.until > 0 => b \in visible_books(s)
          /\ \A i \in DOMAIN e.rows :
               e.rows[i].cps \subseteq SeenBy(s) /\ e.until <= e.rows[i].at + CACHE_SECONDS
      BY DEF ReportsInv, CacheInv
    <3> HIDE DEF e
    <3>3. e.until <= clock' + CACHE_SECONDS
      BY <2>1, <3>1, <3>2
    <3> QED
      BY <3>2, <3>3 DEF e
  <2>4. ASSUME NEW u \in Users PROVE RequestInv(u)'
    <3>1. req[u].stage \in {"query", "query again", "store"} => req[u].began \in Nat
      BY RequestFields DEF ReportsInv
    <3>2. RequestInv(u)
      BY DEF ReportsInv
    <3>3. ASSUME req[u].stage \in {"query", "query again", "store"} PROVE req[u].began <= clock'
      <4>1. PICK began \in Nat : began = req[u].began
        BY <3>1, <3>3
      <4>2. began <= clock
        BY <3>2, <3>3, <4>1 DEF RequestInv
      <4> QED
        BY <2>1, <4>1, <4>2
    <3> QED
      BY <1>1, <2>1, <3>2, <3>3 DEF RequestInv, Holds
  <2> QED
    BY <2>2, <2>3, <2>4 DEF ReportsInv
<1>3. ASSUME NEW u \in Users, NEW cp \in Cps, EditRows(u, cp) PROVE ReportsInv'
  <2>1. /\ access' = [access EXCEPT ![u] = IF cp \in @ THEN @ \ {cp} ELSE @ \cup {cp}]
        /\ granted' = IF req[u] # NoRequest THEN [granted EXCEPT ![u] = @ \cup access'[u]] ELSE granted
        /\ clock' = clock
    BY <1>3 DEF EditRows, EditAccess
  <2>2. access' \in [Users -> SUBSET Cps]
    BY <2>1 DEF ReportsInv, ReportsTyped
  <2>3. granted' \in [Users -> SUBSET Cps] /\ \A v \in Users : granted[v] \subseteq granted'[v]
    BY <2>1, <2>2 DEF ReportsInv, ReportsTyped
  <2>4. ReportsTyped'
    BY <1>1, <2>1, <2>2, <2>3 DEF ReportsInv, ReportsTyped
  <2>5. CacheInv'
    BY <1>1, <2>1 DEF ReportsInv, CacheInv
  <2>6. ASSUME NEW v \in Users PROVE RequestInv(v)'
    BY <1>1, <2>1, <2>3 DEF ReportsInv, RequestInv
  <2> QED
    BY <2>4, <2>5, <2>6 DEF ReportsInv
<1> QED
  BY <1>2, <1>3

ReportsSpec == ReportsInit /\ [][ReportsNext]_reportVars

\* The invariant: a cache entry is of its key's scope and expires with its
\* oldest row, and a request's rows are of a scope its user had meanwhile.
THEOREM ReportsInductive == ReportsSpec => []ReportsInv
<1>1. ReportsInit => ReportsInv
  <2> SUFFICES ASSUME ReportsInit PROVE ReportsInv
    OBVIOUS
  <2>1. ReportsTyped
    BY ReportsAssumption DEF ReportsInit, AccessInit, ReportsTyped, NoReport, Report, Request
  <2>2. CacheInv
    BY ReportsAssumption DEF ReportsInit, CacheInv, NoReport, Keys
  <2>3. \A u \in Users : RequestInv(u)
    BY DEF ReportsInit, RequestInv, NoRequest
  <2> QED
    BY <2>1, <2>2, <2>3 DEF ReportsInv
<1>2. ReportsInv /\ [ReportsNext]_reportVars => ReportsInv'
  <2> SUFFICES ASSUME ReportsInv, [ReportsNext]_reportVars PROVE ReportsInv'
    OBVIOUS
  <2>1. CASE UNCHANGED reportVars
    BY <2>1 DEF reportVars, ReportsInv, ReportsTyped, CacheInv, RequestInv, Holds
  <2>2. CASE ReportsNext
    BY <2>2, AskStep, LookStep, QueryStep, StoreStep, OutsideStep DEF ReportsNext
  <2> QED
    BY <2>1, <2>2
<1> QED
  BY <1>1, <1>2, PTL DEF ReportsSpec

\* A user is only shown rows of counterparties they had during the request, of
\* the simulated book only firm-wide, read less than CACHE_SECONDS before it
\* began; and every reader of a scope lets the same counterparties through.
THEOREM ServedDue == ReportsSpec => []ServedAsDue
<1>1. ReportsInv => ServedAsDue
  <2> SUFFICES ASSUME ReportsInv PROVE ServedAsDue
    OBVIOUS
  <2>1. ReportsTypeOK
    <3>1. ASSUME NEW k \in Keys PROVE cache[k].until \in 0..MaxClock + CACHE_SECONDS /\ Len(cache[k].rows) <= 2
      <4>1. PICK scope \in Scopes, book \in Books : k = <<scope, book>>
        BY DEF Keys
      <4>2. cache[k] \in [until : Nat, rows : Report]
        BY DEF ReportsInv, ReportsTyped
      <4>3. cache[k].until <= clock + CACHE_SECONDS
        BY <4>1 DEF ReportsInv, CacheInv
      <4> QED
        BY <4>2, <4>3, ReportsAssumption DEF ReportsInv, ReportsTyped, Report
    <3> QED
      BY <3>1, RequestFields DEF ReportsTypeOK, ReportsInv, ReportsTyped
  <2>2. ScopesAgree
    <3> SUFFICES ASSUME NEW u \in Users, NEW cp \in Cps
                 PROVE  LET scope == scope_for(u)
                            sees == app_can_see(scope, cp)
                            report_of == report_scope(scope)
                        IN /\ sees = can_see(scope, cp)
                           /\ sees = allow_read(scope_claims(scope), cp)
                           /\ sees = (report_of.scope_all \/ cp \in report_of.counterparty_ids)
      BY DEF ScopesAgree
    <3>1. CASE scope_for(u) = FIRM_WIDE
      BY <3>1 DEF FIRM_WIDE, app_can_see, can_see, allow_read, scope_claims, report_scope
    <3>2. CASE scope_for(u) # FIRM_WIDE
      <4>1. scope_for(u).all = FALSE
        BY <3>2 DEF scope_for
      <4> QED
        BY <3>2, <4>1 DEF app_can_see, can_see, allow_read, scope_claims, report_scope
    <3> QED
      BY <3>1, <3>2
  <2>3. ReportsWithinScope /\ ReportFresh
    BY DEF ReportsInv, RequestInv, ReportsWithinScope, ReportFresh
  <2> QED
    BY <2>1, <2>2, <2>3 DEF ServedAsDue
<1> QED
  BY <1>1, ReportsInductive, PTL

-----------------------------------------------------------------------------
(* Feed: the invariant.                                                    *)

FeedRun ==
  [cp : Cps, at : Nat,
   next : {"evaluate", "await_approval", "await_manager_approval", "send", "await_sla_response", "escalate", "end"},
   breach : {NONE, "no_breach", "below_mta", "breached"}, amount : Nat,
   decision : {NONE, "approved", "adjusted", "rejected", "disputed"}, adjusted : Nat,
   manager : {NONE, "approved", "rejected"}, notified : BOOLEAN, sla : {NONE, "met", "breached"},
   escalated : BOOLEAN, looked : BOOLEAN, crossed : BOOLEAN]

\* What a node wrote, those before it had written ...
Ordered(v) ==
  /\ v.breach = "no_breach" => v.amount = 0
  /\ v.decision # NONE => v.breach = "breached"
  /\ v.manager # NONE => v.cp \in Elite /\ v.decision # NONE
  /\ v.manager = "rejected" <=> v.decision = "disputed"
  /\ v.notified => Approved(v) /\ ~NeedsManager(v)
  /\ v.sla # NONE => v.notified
  /\ v.escalated => v.sla = "breached"

\* ... and the node queued is the one whose values are missing.
Stands(v) ==
  /\ v.next = "evaluate" => v.decision = NONE
  /\ v.next = "await_approval" => v.breach = "breached" /\ v.decision = NONE
  /\ v.next = "await_manager_approval" => NeedsManager(v)
  /\ v.next = "send" => Approved(v) /\ ~NeedsManager(v) /\ ~v.notified
  /\ v.next = "await_sla_response" => v.notified /\ v.sla = NONE
  /\ v.next = "escalate" => v.sla = "breached"
  /\ v.next = "end" =>
       \/ v.breach \in {"no_breach", "below_mta"}
       \/ v.decision \in {"rejected", "disputed"}
       \/ v.sla # NONE

\* So of every run that no restart took back over an answer.
Sound(v) == ~v.crossed => Ordered(v) /\ Stands(v)

RunsInv ==
  /\ runs \in Seq(FeedRun)
  /\ \A i \in DOMAIN runs : Sound(runs[i])
  /\ \A i, j \in DOMAIN runs : runs[i].at = runs[j].at => i = j

\* A row is of its run, and shows a call amount only of a call, or of a run
\* restarted over an answer since.
RowInv(row, i) ==
  /\ row.cp = runs[i].cp /\ row.at = runs[i].at
  /\ row.call_amount > 0 /\ ~runs[i].crossed => row.status \notin {"evaluating", "no_breach", "below_materiality"}

\* A read's scope is one its user had, and its ids all that the scope had
\* when it began, or more.
ReadInv ==
  \/ read = NotReading
  \/ /\ read.stage \in {"list", "fetch", "shown"}
     /\ read.user \in Users /\ read.scope \in Scopes
     /\ SeenBy(read.scope) \subseteq granted[read.user]
     /\ read.before \subseteq Ids
     /\ read.stage \in {"fetch", "shown"} =>
          /\ read.ids \subseteq Ids /\ DOMAIN read.rows \subseteq read.ids
          /\ \A i \in read.ids : can_see(read.scope, runs[i].cp)
          /\ \A i \in read.before : can_see(read.scope, runs[i].cp) => i \in read.ids
          /\ \A i \in DOMAIN read.rows : RowInv(read.rows[i], i)
          /\ read.rows = [i \in DOMAIN read.rows |-> read.rows[i]]
     /\ read.stage = "shown" => DOMAIN read.rows = read.ids
     /\ read.stage = "list" =>
          read = [stage |-> read.stage, user |-> read.user, scope |-> read.scope, before |-> read.before]
     /\ read.stage \in {"fetch", "shown"} =>
          read = [stage |-> read.stage, user |-> read.user, scope |-> read.scope, before |-> read.before,
                  ids |-> read.ids, rows |-> read.rows]

FeedInv ==
  /\ access \in [Users -> SUBSET Cps] /\ granted \in [Users -> SUBSET Cps]
  /\ RunsInv /\ ReadInv

\* A run is a record of typed fields.
LEMMA FieldsOfRun ==
  ASSUME NEW v \in FeedRun
  PROVE  /\ v.cp \in Cps /\ v.at \in Nat /\ v.amount \in Nat /\ v.adjusted \in Nat
         /\ v.breach \in {NONE, "no_breach", "below_mta", "breached"}
         /\ v.decision \in {NONE, "approved", "adjusted", "rejected", "disputed"}
         /\ v.manager \in {NONE, "approved", "rejected"}
         /\ v.notified \in BOOLEAN /\ v.sla \in {NONE, "met", "breached"} /\ v.escalated \in BOOLEAN
         /\ v.next \in {"evaluate", "await_approval", "await_manager_approval", "send", "await_sla_response",
                        "escalate", "end"}
         /\ v.looked \in BOOLEAN /\ v.crossed \in BOOLEAN
BY DEF FeedRun

\* A node's values written to a run that keeps its counterparty and event.
LEMMA FeedRunStep ==
  ASSUME FeedInv, NEW i \in Ids, NEW v \in FeedRun, Sound(v),
         v.cp = runs[i].cp, v.at = runs[i].at, runs[i].crossed => v.crossed, Write(i, v)
  PROVE  FeedInv'
<1>1. runs \in Seq(FeedRun) /\ runs' = [runs EXCEPT ![i] = v] /\ UNCHANGED <<access, granted, read>>
  BY DEF FeedInv, RunsInv, Write
<1>2. runs' \in Seq(FeedRun) /\ DOMAIN runs' = DOMAIN runs
      /\ \A j \in DOMAIN runs : runs'[j] = IF j = i THEN v ELSE runs[j]
  BY <1>1 DEF Ids
<1>3. \A j \in DOMAIN runs :
        runs'[j].cp = runs[j].cp /\ runs'[j].at = runs[j].at /\ (runs[j].crossed => runs'[j].crossed)
  BY <1>2
<1>4. RunsInv'
  BY <1>2, <1>3 DEF FeedInv, RunsInv
<1>5. ReadInv'
  <2>1. CASE read = NotReading
    BY <1>1, <2>1 DEF ReadInv
  <2>2. CASE read # NotReading
    <3>1. read.stage \in {"fetch", "shown"} =>
            \A j \in DOMAIN read.rows : j \in DOMAIN runs /\ RowInv(read.rows[j], j)
      BY <2>2 DEF FeedInv, ReadInv, Ids
    <3>2. read.stage \in {"fetch", "shown"} => \A j \in DOMAIN read.rows : RowInv(read.rows[j], j)'
      BY <1>1, <1>3, <3>1 DEF RowInv
    <3> QED
      BY <1>1, <1>2, <1>3, <2>2, <3>2 DEF FeedInv, ReadInv, Ids
  <2> QED
    BY <2>1, <2>2
<1> QED
  BY <1>1, <1>4, <1>5 DEF FeedInv

\* What a node or a look writes to a run ...
Walks(r, v) ==
  \/ /\ r.next = "evaluate"
     /\ \/ v = [r EXCEPT !.breach = "no_breach", !.amount = 0, !.next = "end"]
        \/ \E f \in Nat : v = [r EXCEPT !.breach = "breached", !.amount = f, !.next = "await_approval"]
        \/ \E f \in Nat : v = [r EXCEPT !.breach = "below_mta", !.amount = f, !.next = "end"]
  \/ /\ r.next = "await_approval"
     /\ \/ v = [r EXCEPT !.decision = "rejected", !.next = "end"]
        \/ \E node \in {"await_manager_approval", "send"} :
             /\ node = "await_manager_approval" <=> r.cp \in Elite
             /\ \/ v = [r EXCEPT !.decision = "approved", !.next = node]
                \/ \E f \in Nat : v = [r EXCEPT !.decision = "adjusted", !.adjusted = f, !.next = node]
  \/ /\ r.next = "await_manager_approval"
     /\ \/ v = [r EXCEPT !.manager = "approved", !.next = "send"]
        \/ v = [r EXCEPT !.manager = "rejected", !.decision = "disputed", !.next = "end"]
  \/ /\ r.next = "send"
     /\ \/ v = [r EXCEPT !.notified = TRUE, !.next = "await_sla_response"]
        \/ v = [r EXCEPT !.notified = TRUE, !.sla = "breached", !.next = "escalate"]
  \/ /\ r.next = "await_sla_response"
     /\ \/ v = [r EXCEPT !.sla = "met", !.next = "end"]
        \/ v = [r EXCEPT !.sla = "breached", !.next = "escalate"]
  \/ r.next = "escalate" /\ v = [r EXCEPT !.escalated = TRUE, !.next = "end"]
  \/ v = [r EXCEPT !.looked = TRUE]

\* ... and a restart.
Restarted(r) == [r EXCEPT !.next = "evaluate", !.looked = FALSE, !.crossed = @ \/ r.decision # NONE]

Moves(r, v) == Walks(r, v) \/ v = Restarted(r)

\* They keep its counterparty and event ...
LEMMA MovesSets ==
  ASSUME NEW r \in FeedRun, NEW v, Moves(r, v)
  PROVE  v \in FeedRun /\ v.cp = r.cp /\ v.at = r.at /\ (r.crossed => v.crossed)
<1>1. r.crossed \in BOOLEAN /\ (r.crossed \/ r.decision # NONE) \in BOOLEAN
  BY FieldsOfRun
<1>2. CASE v = Restarted(r)
  <2> DEFINE c == r.crossed \/ r.decision # NONE
  <2>1. v = [r EXCEPT !.next = "evaluate", !.looked = FALSE, !.crossed = c] /\ c \in BOOLEAN /\ (r.crossed => c)
    BY <1>1, <1>2 DEF Restarted
  <2> HIDE DEF c
  <2> QED
    BY <2>1 DEF FeedRun
<1>3. CASE Walks(r, v)
  <2>1. CASE r.next = "evaluate"
    <3>1. ASSUME NEW breach \in {"no_breach", "below_mta", "breached"}, NEW f \in Nat,
                 NEW node \in {"end", "await_approval"}, v = [r EXCEPT !.breach = breach, !.amount = f, !.next = node]
          PROVE  v \in FeedRun /\ v.cp = r.cp /\ v.at = r.at /\ (r.crossed => v.crossed)
      BY <3>1 DEF FeedRun
    <3>2. CASE v = [r EXCEPT !.looked = TRUE]
      BY <3>2 DEF FeedRun
    <3>3. CASE v # [r EXCEPT !.looked = TRUE]
      BY <1>3, <2>1, <3>1, <3>3 DEF Walks
    <3> QED
      BY <3>2, <3>3
  <2>2. CASE r.next = "await_approval"
    BY <1>3, <2>2, ZenonT(60) DEF Walks, FeedRun
  <2>3. CASE r.next \in {"await_manager_approval", "send"}
    BY <1>3, <2>3, ZenonT(60) DEF Walks, FeedRun
  <2>4. CASE r.next \in {"await_sla_response", "escalate", "end"}
    BY <1>3, <2>4, ZenonT(60) DEF Walks, FeedRun
  <2> QED
    BY <2>1, <2>2, <2>3, <2>4, FieldsOfRun
<1> QED
  BY <1>2, <1>3 DEF Moves

\* ... and leave it sound.
LEMMA MovesSound ==
  ASSUME NEW r \in FeedRun, Sound(r), NEW v, Moves(r, v)
  PROVE  Sound(v)
<1> SUFFICES ASSUME ~v.crossed
             PROVE  Ordered(v) /\ Stands(v)
  BY DEF Sound
<1>1. Ordered(r) /\ Stands(r)
  BY MovesSets DEF Sound
<1>2. /\ r.breach \in {NONE, "no_breach", "below_mta", "breached"}
      /\ r.decision \in {NONE, "approved", "adjusted", "rejected", "disputed"}
      /\ r.manager \in {NONE, "approved", "rejected"} /\ r.notified \in BOOLEAN
      /\ r.sla \in {NONE, "met", "breached"} /\ r.escalated \in BOOLEAN
  BY FieldsOfRun
\* Of a run nobody answered, nothing later is written.
<1>3. r.decision = NONE => r.manager = NONE /\ ~r.notified /\ r.sla = NONE /\ ~r.escalated
  BY <1>1, <1>2 DEF Ordered, Approved, NONE
<1>4. CASE r.next = "evaluate" /\ v.next # "evaluate"
  <2>0. r.decision = NONE
    BY <1>1, <1>4 DEF Stands
  <2>1. PICK breach \in {"no_breach", "below_mta", "breached"}, f \in Nat, node \in {"end", "await_approval"} :
          /\ v = [r EXCEPT !.breach = breach, !.amount = f, !.next = node]
          /\ breach = "no_breach" => f = 0
          /\ node = "await_approval" <=> breach = "breached"
    BY <1>4 DEF Moves, Walks, Restarted, FeedRun
  <2>2. /\ v.breach = breach /\ v.amount = f /\ v.next = node /\ v.decision = r.decision
        /\ v.manager = r.manager /\ v.notified = r.notified /\ v.sla = r.sla /\ v.escalated = r.escalated
    BY <2>1 DEF FeedRun
  <2> QED
    BY <1>3, <2>0, <2>1, <2>2 DEF Ordered, Stands, Approved, NONE
<1>5. CASE r.next = "await_approval" /\ v.next \notin {"evaluate", "await_approval"}
  <2>0. r.breach = "breached" /\ r.decision = NONE
    BY <1>1, <1>5 DEF Stands
  <2>1. PICK decision \in {"approved", "adjusted", "rejected"} :
          /\ v.decision = decision
          /\ v.next = IF decision = "rejected" THEN "end"
                      ELSE IF r.cp \in Elite THEN "await_manager_approval" ELSE "send"
          /\ v.cp = r.cp /\ v.breach = r.breach /\ v.amount = r.amount /\ v.manager = r.manager
          /\ v.notified = r.notified /\ v.sla = r.sla /\ v.escalated = r.escalated
    BY <1>5, ZenonT(60) DEF Moves, Walks, Restarted, FeedRun
  <2> QED
    BY <1>3, <2>0, <2>1 DEF Ordered, Stands, NeedsManager, Approved, NONE
<1>6. CASE r.next = "await_manager_approval" /\ v.next \notin {"evaluate", "await_manager_approval"}
  <2>0. r.cp \in Elite /\ r.decision \in {"approved", "adjusted"} /\ r.manager = NONE
    BY <1>1, <1>6 DEF Stands, NeedsManager, Approved
  <2>1. r.breach = "breached" /\ ~r.notified /\ r.sla = NONE /\ ~r.escalated
    BY <1>1, <1>2, <2>0 DEF Ordered, NeedsManager, Approved, NONE
  <2>2. /\ v.cp = r.cp /\ v.breach = r.breach /\ v.amount = r.amount
        /\ v.notified = r.notified /\ v.sla = r.sla /\ v.escalated = r.escalated
        /\ \/ v.manager = "approved" /\ v.decision = r.decision /\ v.next = "send"
           \/ v.manager = "rejected" /\ v.decision = "disputed" /\ v.next = "end"
    BY <1>6, ZenonT(60) DEF Moves, Walks, Restarted, FeedRun
  <2> QED
    BY <2>0, <2>1, <2>2 DEF Ordered, Stands, NeedsManager, Approved, NONE
<1>7. CASE r.next = "send" /\ v.next \notin {"evaluate", "send"}
  <2>0. Approved(r) /\ ~NeedsManager(r) /\ ~r.notified
    BY <1>1, <1>7 DEF Stands
  <2>1. r.breach = "breached" /\ r.sla = NONE /\ ~r.escalated
    BY <1>1, <1>2, <2>0 DEF Ordered, Approved, NONE
  <2>2. /\ v.cp = r.cp /\ v.breach = r.breach /\ v.amount = r.amount /\ v.decision = r.decision
        /\ v.manager = r.manager /\ v.notified = TRUE /\ v.escalated = r.escalated
        /\ \/ v.sla = r.sla /\ v.next = "await_sla_response"
           \/ v.sla = "breached" /\ v.next = "escalate"
    BY <1>7 DEF Moves, Walks, Restarted, FeedRun
  <2> QED
    BY <1>1, <2>0, <2>1, <2>2 DEF Ordered, Stands, NeedsManager, Approved, NONE
<1>8. CASE r.next = "await_sla_response" /\ v.next \notin {"evaluate", "await_sla_response"}
  <2>0. r.notified /\ r.sla = NONE
    BY <1>1, <1>8 DEF Stands
  <2>2. /\ v.cp = r.cp /\ v.breach = r.breach /\ v.amount = r.amount /\ v.decision = r.decision
        /\ v.manager = r.manager /\ v.notified = r.notified /\ v.escalated = r.escalated
        /\ \/ v.sla = "met" /\ v.next = "end"
           \/ v.sla = "breached" /\ v.next = "escalate"
    BY <1>8 DEF Moves, Walks, Restarted, FeedRun
  <2> QED
    BY <1>1, <2>0, <2>2 DEF Ordered, Stands, NeedsManager, Approved, NONE
<1>9. CASE r.next = "escalate" /\ v.next \notin {"evaluate", "escalate"}
  <2>0. r.sla = "breached"
    BY <1>1, <1>9 DEF Stands
  <2>2. /\ v.cp = r.cp /\ v.breach = r.breach /\ v.amount = r.amount /\ v.decision = r.decision
        /\ v.manager = r.manager /\ v.notified = r.notified /\ v.sla = r.sla /\ v.escalated = TRUE /\ v.next = "end"
    BY <1>9 DEF Moves, Walks, Restarted, FeedRun
  <2> QED
    BY <1>1, <2>0, <2>2 DEF Ordered, Stands, NeedsManager, Approved, NONE
<1>10. CASE v = [r EXCEPT !.looked = TRUE]
  <2>2. /\ v.cp = r.cp /\ v.breach = r.breach /\ v.amount = r.amount /\ v.decision = r.decision
        /\ v.manager = r.manager /\ v.notified = r.notified /\ v.sla = r.sla /\ v.escalated = r.escalated
        /\ v.next = r.next
    BY <1>10 DEF FeedRun
  <2> QED
    BY <1>1, <2>2 DEF Ordered, Stands, NeedsManager, Approved
<1>11. CASE v = Restarted(r)
  <2>1. v.crossed = (r.crossed \/ r.decision # NONE)
    BY <1>11 DEF Restarted, FeedRun
  <2>2. /\ v.cp = r.cp /\ v.breach = r.breach /\ v.amount = r.amount /\ v.decision = r.decision
        /\ v.manager = r.manager /\ v.notified = r.notified /\ v.sla = r.sla /\ v.escalated = r.escalated
        /\ v.next = "evaluate"
    BY <1>11 DEF Restarted, FeedRun
  <2> QED
    BY <1>1, <2>1, <2>2 DEF Ordered, Stands, NeedsManager, Approved
<1> QED
  <2>1. \/ r.next = "evaluate" /\ v.next # "evaluate"
        \/ r.next = "await_approval" /\ v.next \notin {"evaluate", "await_approval"}
        \/ r.next = "await_manager_approval" /\ v.next \notin {"evaluate", "await_manager_approval"}
        \/ r.next = "send" /\ v.next \notin {"evaluate", "send"}
        \/ r.next = "await_sla_response" /\ v.next \notin {"evaluate", "await_sla_response"}
        \/ r.next = "escalate" /\ v.next \notin {"evaluate", "escalate"}
        \/ v = [r EXCEPT !.looked = TRUE]
        \/ v = Restarted(r)
    BY ZenonT(60) DEF Moves, Walks, FeedRun
  <2> QED
    BY <1>4, <1>5, <1>6, <1>7, <1>8, <1>9, <1>10, <1>11, <2>1

\* What each node writes, a look and a restart keep the runs sound.
LEMMA NodeStep ==
  ASSUME FeedInv, NEW i \in Ids,
         \/ EvaluateRun(i) \/ ApproveRun(i) \/ ManagerApproveRun(i) \/ NotifyRun(i)
         \/ ResolveRun(i) \/ EscalateRun(i) \/ LookAtRun(i) \/ RestartRun(i)
  PROVE  FeedInv'
<1>1. runs[i] \in FeedRun /\ Sound(runs[i])
  BY DEF FeedInv, RunsInv, Ids
<1>2. PICK v : Moves(runs[i], v) /\ Write(i, v)
  <2>1. Adjusted \subseteq Nat /\ Amounts \subseteq Nat
    BY FeedAssumption
  <2> DEFINE r == runs[i]
  <2>2. CASE EvaluateRun(i)
    <3>1. r.next = "evaluate"
      BY <2>2 DEF EvaluateRun
    <3>2. PICK v : /\ Write(i, v)
                   /\ \/ v = [r EXCEPT !.breach = "no_breach", !.amount = 0, !.next = "end"]
                      \/ \E f \in Nat : v = [r EXCEPT !.breach = "breached", !.amount = f, !.next = "await_approval"]
                      \/ \E f \in Nat : v = [r EXCEPT !.breach = "below_mta", !.amount = f, !.next = "end"]
      BY <2>1, <2>2 DEF EvaluateRun
    <3> HIDE DEF r
    <3> QED
      BY <3>1, <3>2 DEF Moves, Walks, r
  <2>3. CASE ApproveRun(i)
    <3>1. r.next = "await_approval"
      BY <2>3 DEF ApproveRun
    <3>2. /\ Signed(i) \in {"await_manager_approval", "send"}
          /\ Signed(i) = "await_manager_approval" <=> r.cp \in Elite
      BY DEF Signed
    <3>3. PICK v : /\ Write(i, v)
                   /\ \/ v = [r EXCEPT !.decision = "rejected", !.next = "end"]
                      \/ v = [r EXCEPT !.decision = "approved", !.next = Signed(i)]
                      \/ \E f \in Nat : v = [r EXCEPT !.decision = "adjusted", !.adjusted = f, !.next = Signed(i)]
      BY <2>1, <2>3 DEF ApproveRun
    <3> HIDE DEF r
    <3> QED
      BY <3>1, <3>2, <3>3 DEF Moves, Walks, r
  <2>4. CASE ManagerApproveRun(i)
    BY <2>4 DEF ManagerApproveRun, Moves, Walks
  <2>5. CASE NotifyRun(i)
    BY <2>5 DEF NotifyRun, Moves, Walks
  <2>6. CASE ResolveRun(i)
    BY <2>6 DEF ResolveRun, Moves, Walks
  <2>7. CASE EscalateRun(i)
    BY <2>7 DEF EscalateRun, Moves, Walks
  <2>8. CASE LookAtRun(i)
    BY <2>8 DEF LookAtRun, Moves, Walks
  <2>9. CASE RestartRun(i)
    BY <2>9 DEF RestartRun, Moves, Restarted
  <2> QED
    BY <2>2, <2>3, <2>4, <2>5, <2>6, <2>7, <2>8, <2>9
<1> QED
  BY <1>1, <1>2, MovesSets, MovesSound, FeedRunStep

\* A run is raised, for an event of its own.
LEMMA StartStep ==
  ASSUME FeedInv, NEW cp \in Cps, NEW at \in 1..MaxRuns, StartFeedRun(cp, at)
  PROVE  FeedInv'
<1> DEFINE r == NewRun(cp, at)
<1>1. r \in FeedRun /\ Sound(r) /\ r.at = at
  BY FeedAssumption DEF NewRun, FeedRun, Sound, Ordered, Stands, Approved, NONE
<1> HIDE DEF r
<1>2. /\ runs \in Seq(FeedRun) /\ runs' = Append(runs, r) /\ UNCHANGED <<access, granted, read>>
      /\ \A i \in DOMAIN runs : runs[i].at # at
  BY DEF FeedInv, RunsInv, StartFeedRun, r
<1>3. /\ runs' \in Seq(FeedRun) /\ Len(runs) \in Nat /\ DOMAIN runs = 1..Len(runs)
      /\ DOMAIN runs' = 1..Len(runs) + 1 /\ runs'[Len(runs) + 1] = r
      /\ \A i \in 1..Len(runs) : runs'[i] = runs[i]
  BY <1>1, <1>2, LenProperties, AppendProperties
<1>4. RunsInv'
  <2>1. ASSUME NEW i \in DOMAIN runs', NEW j \in DOMAIN runs', runs'[i].at = runs'[j].at PROVE i = j
    <3>1. CASE i = Len(runs) + 1 \/ j = Len(runs) + 1
      BY <1>1, <1>2, <1>3, <2>1, <3>1
    <3>2. CASE i \in 1..Len(runs) /\ j \in 1..Len(runs)
      BY <1>3, <2>1, <3>2 DEF FeedInv, RunsInv
    <3> QED
      BY <1>3, <3>1, <3>2
  <2>2. ASSUME NEW i \in DOMAIN runs' PROVE Sound(runs'[i])
    <3>1. CASE i = Len(runs) + 1
      BY <1>1, <1>3, <3>1
    <3>2. CASE i \in 1..Len(runs)
      BY <1>3, <3>2 DEF FeedInv, RunsInv
    <3> QED
      BY <1>3, <3>1, <3>2
  <2> QED
    BY <1>3, <2>1, <2>2 DEF RunsInv
<1>5. ReadInv'
  <2>1. \A i \in DOMAIN runs : i \in DOMAIN runs' /\ runs'[i] = runs[i]
    BY <1>3
  <2>2. CASE read = NotReading
    BY <1>2, <2>2 DEF ReadInv
  <2>3. CASE read # NotReading
    <3>1. read.stage \in {"fetch", "shown"} =>
            \A j \in DOMAIN read.rows : j \in DOMAIN runs /\ RowInv(read.rows[j], j)
      BY <2>3 DEF FeedInv, ReadInv, Ids
    <3>2. read.stage \in {"fetch", "shown"} => \A j \in DOMAIN read.rows : RowInv(read.rows[j], j)'
      BY <1>2, <2>1, <3>1 DEF RowInv
    <3> QED
      BY <1>2, <2>1, <2>3, <3>2 DEF FeedInv, ReadInv, Ids
  <2> QED
    BY <2>2, <2>3
<1> QED
  BY <1>2, <1>4, <1>5 DEF FeedInv

\* What a row of a run shows.
LEMMA RowOfRun ==
  ASSUME FeedInv, NEW i \in Ids
  PROVE  RowInv(summarize(runs[i]), i)
<1> DEFINE r == runs[i]
           row == summarize(r)
<1>1. r \in FeedRun /\ Sound(r)
  BY DEF FeedInv, RunsInv, Ids
<1>2. /\ row.cp = r.cp /\ row.at = r.at /\ row.status = lifecycle_status(r)
      /\ row.call_amount = call_amount(r)
  BY DEF summarize
<1> HIDE DEF r, row
<1>3. lifecycle_status(r) = "below_materiality" => call_amount(r) = -1
  BY DEF call_amount, NoAmount
<1>4. lifecycle_status(r) = "evaluating" => r.breach = NONE
  BY <1>1, FieldsOfRun DEF lifecycle_status
<1>5. lifecycle_status(r) = "no_breach" => r.breach = "no_breach"
  BY <1>1, FieldsOfRun DEF lifecycle_status
<1>6. r.breach = NONE => call_amount(r) = -1
  BY DEF call_amount, effective_call_amount, NoAmount
<1>7. ~r.crossed /\ r.breach = "no_breach" => r.decision = NONE /\ r.amount = 0
  BY <1>1, FieldsOfRun DEF Sound, Ordered
<1>8. ~r.crossed /\ r.breach = "no_breach" => call_amount(r) \in {-1, 0}
  BY <1>7 DEF call_amount, effective_call_amount, NoAmount, NONE
<1> QED
  BY <1>2, <1>3, <1>4, <1>5, <1>6, <1>8 DEF RowInv, r, row

\* A read's steps.
LEMMA ReadStep ==
  ASSUME FeedInv,
         (\E u \in Users : OpenSession(u)) \/ ListThreads \/ (\E i \in Ids : FetchState(i)) \/ ShowFeed \/ CloseFeed
  PROVE  FeedInv'
<1>1. UNCHANGED <<access, runs>>
  BY DEF OpenSession, ListThreads, FetchState, ShowFeed, CloseFeed
<1>2. RunsInv'
  BY <1>1 DEF FeedInv, RunsInv
<1>3. ASSUME NEW u \in Users, OpenSession(u) PROVE granted' \in [Users -> SUBSET Cps] /\ ReadInv'
  <2>1. /\ granted' = [granted EXCEPT ![u] = Visible(u)]
        /\ read' = [stage |-> "list", user |-> u, scope |-> scope_for(u), before |-> Ids]
    BY <1>3 DEF OpenSession, Begins
  <2>2. scope_for(u) \in Scopes /\ SeenBy(scope_for(u)) = Visible(u) /\ Visible(u) \in SUBSET Cps
    BY ScopeSets DEF FeedInv, Visible
  <2>3. granted' \in [Users -> SUBSET Cps] /\ granted'[u] = Visible(u)
    BY <2>1, <2>2 DEF FeedInv
  <2>4. Ids' = Ids
    BY <1>1 DEF Ids
  <2>5. /\ read'.stage = "list" /\ read'.user = u /\ read'.scope = scope_for(u) /\ read'.before = Ids
    BY <2>1
  <2>6. read' = [stage |-> read'.stage, user |-> read'.user, scope |-> read'.scope, before |-> read'.before]
    BY <2>1
  <2> QED
    BY <2>2, <2>3, <2>4, <2>5, <2>6 DEF ReadInv
<1>4. ASSUME ListThreads PROVE granted' = granted /\ ReadInv'
  <2>1. /\ read.stage = "list" /\ UNCHANGED granted /\ read # NotReading
        /\ read' = [stage |-> "fetch", user |-> read.user, scope |-> read.scope, before |-> read.before,
                    ids |-> {i \in Ids : app_can_see(read.scope, runs[i].cp)}, rows |-> <<>>]
    BY <1>4 DEF ListThreads, NotReading
  <2>2. /\ read.user \in Users /\ read.scope \in Scopes /\ SeenBy(read.scope) \subseteq granted[read.user]
        /\ read.before \subseteq Ids
    BY <2>1 DEF FeedInv, ReadInv
  <2>3. \A cp : app_can_see(read.scope, cp) <=> can_see(read.scope, cp)
    <3>1. CASE read.scope = FIRM_WIDE
      BY <3>1 DEF app_can_see, can_see, FIRM_WIDE
    <3>2. CASE read.scope # FIRM_WIDE
      <4>1. read.scope.all = FALSE
        BY <2>2, <3>2 DEF Scopes
      <4> QED
        BY <3>2, <4>1 DEF app_can_see, can_see
    <3> QED
      BY <3>1, <3>2
  <2>4. /\ read'.stage = "fetch" /\ read'.user = read.user /\ read'.scope = read.scope
        /\ read'.before = read.before /\ read'.rows = <<>>
        /\ read'.ids = {i \in Ids : can_see(read.scope, runs[i].cp)}
    BY <2>1, <2>3
  <2>5. DOMAIN read'.rows = {} /\ read'.rows = [i \in DOMAIN read'.rows |-> read'.rows[i]]
    BY <2>4
  <2>6. Ids' = Ids
    BY <1>1 DEF Ids
  <2> QED
    BY <1>1, <2>1, <2>2, <2>4, <2>5, <2>6 DEF ReadInv
<1>5. ASSUME NEW i \in Ids, FetchState(i) PROVE granted' = granted /\ ReadInv'
  <2> DEFINE new == [j \in DOMAIN read.rows \cup {i} |-> IF j = i THEN summarize(runs[i]) ELSE read.rows[j]]
  <2>1. /\ read.stage = "fetch" /\ i \in read.ids /\ UNCHANGED granted /\ read # NotReading
        /\ read' = [read EXCEPT !.rows = new]
    BY <1>5 DEF FetchState, NotReading
  <2>2. DOMAIN new = DOMAIN read.rows \cup {i} /\ new = [j \in DOMAIN new |-> new[j]]
    OBVIOUS
  <2>3. \A j \in DOMAIN new : RowInv(new[j], j)
    <3>1. RowInv(summarize(runs[i]), i)
      BY RowOfRun
    <3>2. \A j \in DOMAIN read.rows : RowInv(read.rows[j], j)
      BY <2>1 DEF FeedInv, ReadInv
    <3> QED
      BY <3>1, <3>2
  <2> HIDE DEF new
  <2>4. /\ read'.stage = read.stage /\ read'.user = read.user /\ read'.scope = read.scope
        /\ read'.before = read.before /\ read'.ids = read.ids /\ read'.rows = new
    <3>1. PICK stage, user, scope, before, ids, rows :
            read = [stage |-> stage, user |-> user, scope |-> scope, before |-> before, ids |-> ids, rows |-> rows]
      BY <2>1 DEF FeedInv, ReadInv
    <3>2. [read EXCEPT !.rows = new] =
            [stage |-> stage, user |-> user, scope |-> scope, before |-> before, ids |-> ids, rows |-> new]
      BY <3>1
    <3> QED
      BY <2>1, <3>1, <3>2
  <2>5. Ids' = Ids /\ \A j \in DOMAIN new : RowInv(read.rows[j], j)'
    BY <1>1, <2>3, <2>4 DEF Ids, RowInv
  <2>6. read' = [stage |-> read'.stage, user |-> read'.user, scope |-> read'.scope, before |-> read'.before,
                 ids |-> read'.ids, rows |-> read'.rows]
    BY <2>1, <2>4 DEF FeedInv, ReadInv
  <2>7. /\ read.user \in Users /\ read.scope \in Scopes /\ SeenBy(read.scope) \subseteq granted[read.user]
        /\ read.before \subseteq Ids /\ read.ids \subseteq Ids /\ DOMAIN read.rows \subseteq read.ids
        /\ \A k \in read.ids : can_see(read.scope, runs[k].cp)
        /\ \A k \in read.before : can_see(read.scope, runs[k].cp) => k \in read.ids
    BY <2>1 DEF FeedInv, ReadInv
  <2>8. DOMAIN new \subseteq read.ids
    BY <2>1, <2>2, <2>7
  <2> QED
    BY <1>1, <2>1, <2>2, <2>4, <2>5, <2>6, <2>7, <2>8 DEF ReadInv
<1>6. ASSUME ShowFeed PROVE granted' = granted /\ ReadInv'
  <2>1. /\ read.stage = "fetch" /\ DOMAIN read.rows = read.ids /\ UNCHANGED granted /\ read # NotReading
        /\ read' = [read EXCEPT !.stage = "shown"]
    BY <1>6 DEF ShowFeed, NotReading
  <2>2. /\ read'.stage = "shown" /\ read'.user = read.user /\ read'.scope = read.scope
        /\ read'.before = read.before /\ read'.ids = read.ids /\ read'.rows = read.rows
        /\ read' = [stage |-> read'.stage, user |-> read'.user, scope |-> read'.scope, before |-> read'.before,
                    ids |-> read'.ids, rows |-> read'.rows]
    <3>1. PICK stage, user, scope, before, ids, rows :
            read = [stage |-> stage, user |-> user, scope |-> scope, before |-> before, ids |-> ids, rows |-> rows]
      BY <2>1 DEF FeedInv, ReadInv
    <3>2. [read EXCEPT !.stage = "shown"] =
            [stage |-> "shown", user |-> user, scope |-> scope, before |-> before, ids |-> ids, rows |-> rows]
      BY <3>1
    <3> QED
      BY <2>1, <3>1, <3>2
  <2> QED
    BY <1>1, <2>1, <2>2 DEF FeedInv, ReadInv, Ids, RowInv
<1>7. ASSUME CloseFeed PROVE granted' \in [Users -> SUBSET Cps] /\ ReadInv'
  BY <1>7 DEF CloseFeed, ReadInv
<1> QED
  BY <1>1, <1>2, <1>3, <1>4, <1>5, <1>6, <1>7 DEF FeedInv

\* A nonempty set of naturals has a least element.
LEMMA LeastOf ==
  ASSUME NEW T \in SUBSET Nat, T # {}
  PROVE  \E t \in T : \A u \in T : t <= u
<1> DEFINE R == OpToRel(<, Nat)
<1>1. IsWellFoundedOn(R, Nat)
  BY NatLessThanWellFounded, Zenon
<1>2. \A i, j \in Nat : <<j, i>> \in R <=> j < i
  BY DEF OpToRel
<1> HIDE DEF R
<1>3. \E t \in T : \A u \in T : ~(<<u, t>> \in R)
  BY <1>1, WFMin
<1>4. PICK t \in T : \A u \in T : ~(<<u, t>> \in R)
  BY <1>3
<1>5. \A u \in T : ~(u < t)
  BY <1>2, <1>4
<1> QED
  BY <1>5

\* Access rows change; what a reader was given meanwhile only grows.
LEMMA EditFeedStep ==
  ASSUME FeedInv, NEW u \in Users, NEW cp \in Cps, EditFeedRows(u, cp)
  PROVE  FeedInv'
<1>1. /\ access' = [access EXCEPT ![u] = IF cp \in @ THEN @ \ {cp} ELSE @ \cup {cp}]
      /\ granted' = IF read # NotReading /\ read.user = u THEN [granted EXCEPT ![u] = @ \cup access'[u]] ELSE granted
      /\ UNCHANGED <<runs, read>>
  BY DEF EditFeedRows, EditAccess
<1>2. access' \in [Users -> SUBSET Cps]
  BY <1>1 DEF FeedInv
<1>3. granted' \in [Users -> SUBSET Cps] /\ \A v \in Users : granted[v] \subseteq granted'[v]
  BY <1>1, <1>2 DEF FeedInv
<1>4. RunsInv'
  BY <1>1 DEF FeedInv, RunsInv
<1>5. ReadInv'
  BY <1>1, <1>3 DEF FeedInv, ReadInv, Ids, RowInv
<1> QED
  BY <1>2, <1>3, <1>4, <1>5 DEF FeedInv

FeedSpec == FeedInit /\ [][FeedNext]_feedVars

\* The invariant: what a node writes comes after what was written before it,
\* events are told apart by when they occurred, and a read lists all that its
\* scope had when it began, a scope its user had.
THEOREM FeedInductive == FeedSpec => []FeedInv
<1>1. FeedInit => FeedInv
  <2> SUFFICES ASSUME FeedInit PROVE FeedInv
    OBVIOUS
  <2>1. access \in [Users -> SUBSET Cps] /\ granted \in [Users -> SUBSET Cps]
    BY DEF FeedInit, AccessInit
  <2>2. runs = <<>> /\ runs \in Seq(FeedRun) /\ DOMAIN runs = {}
    BY DEF FeedInit
  <2> QED
    BY <2>1, <2>2 DEF FeedInit, FeedInv, RunsInv, ReadInv
<1>2. FeedInv /\ [FeedNext]_feedVars => FeedInv'
  <2> SUFFICES ASSUME FeedInv, [FeedNext]_feedVars PROVE FeedInv'
    OBVIOUS
  <2>1. CASE UNCHANGED feedVars
    BY <2>1 DEF feedVars, FeedInv, RunsInv, ReadInv, Ids, RowInv
  <2>2. CASE FeedNext
    BY <2>2, StartStep, NodeStep, ReadStep, EditFeedStep DEF FeedNext
  <2> QED
    BY <2>1, <2>2
<1> QED
  BY <1>1, <1>2, PTL DEF FeedSpec

\* An injection into a finite set bounds its domain.
LEMMA InjectionBounds ==
  ASSUME NEW S, NEW T, NEW f \in [S -> T], IsFiniteSet(T), \A a, b \in S : f[a] = f[b] => a = b
  PROVE  IsFiniteSet(S) /\ Cardinality(S) <= Cardinality(T)
<1>1. f \in Injection(S, T)
  BY DEF Injection, IsInjective
<1> QED
  BY <1>1, FS_Injection

\* Of finitely many rows, one is the most recent.
LEMMA MostRecentIs ==
  ASSUME NEW calls, calls # {}, IsFiniteSet(calls), \A r \in calls : r.at \in Nat
  PROVE  MostRecent(calls) \in calls /\ \A q \in calls : q.at <= MostRecent(calls).at
<1> DEFINE newer == [r \in calls |-> {q \in calls : q.at > r.at}]
           sizes == {Cardinality(newer[r]) : r \in calls}
<1>1. \A r \in calls : IsFiniteSet(newer[r]) /\ Cardinality(newer[r]) \in Nat
  BY FS_Subset, FS_CardinalityType
<1>2. PICK r \in calls : \A q \in calls : Cardinality(newer[r]) <= Cardinality(newer[q])
  <2>1. sizes \in SUBSET Nat /\ sizes # {}
    BY <1>1
  <2>2. PICK t \in sizes : \A n \in sizes : t <= n
    BY <2>1, LeastOf
  <2> QED
    BY <2>2
<1>3. \A q \in calls : q.at <= r.at
  <2> SUFFICES ASSUME NEW q \in calls, q.at > r.at PROVE FALSE
    OBVIOUS
  <2>1. newer[q] \in SUBSET newer[r] /\ q \in newer[r] /\ ~(q \in newer[q])
    OBVIOUS
  <2>2. Cardinality(newer[q]) < Cardinality(newer[r])
    <3>1. /\ Cardinality(newer[q]) <= Cardinality(newer[r])
          /\ Cardinality(newer[r]) = Cardinality(newer[q]) => newer[r] = newer[q]
      BY <1>1, <2>1, FS_Subset
    <3> HIDE DEF newer
    <3> QED
      BY <1>1, <2>1, <3>1
  <2> HIDE DEF newer
  <2> QED
    BY <1>1, <1>2, <2>2
<1> QED
  BY <1>3 DEF MostRecent

\* The rows of a read are finitely many, and told apart.
LEMMA RowsApart ==
  ASSUME FeedInv, read.stage = "shown"
  PROVE  /\ IsFiniteSet(list_margin_calls(read.rows))
         /\ DOMAIN read.rows = read.ids /\ IsFiniteSet(read.ids)
         /\ \A i \in read.ids : RowInv(read.rows[i], i) /\ i \in DOMAIN runs /\ runs[i] \in FeedRun
         /\ \A i, j \in read.ids : read.rows[i] = read.rows[j] => i = j
<1>1. read # NotReading
  BY DEF NotReading
<1>2. DOMAIN read.rows = read.ids /\ read.ids \subseteq Ids /\ \A i \in read.ids : RowInv(read.rows[i], i)
  BY <1>1 DEF FeedInv, ReadInv
<1>3. /\ runs \in Seq(FeedRun) /\ Len(runs) \in Nat /\ Ids = 1..Len(runs)
      /\ \A i, j \in DOMAIN runs : runs[i].at = runs[j].at => i = j
  BY LenProperties DEF FeedInv, RunsInv, Ids
<1>4. IsFiniteSet(read.ids)
  <2>1. IsFiniteSet(Ids)
    BY <1>3, FS_Interval
  <2> QED
    BY <1>2, <2>1, FS_Subset
<1>5. \A i \in read.ids : RowInv(read.rows[i], i) /\ i \in DOMAIN runs /\ runs[i] \in FeedRun
  BY <1>2, <1>3, ElementOfSeq DEF Ids
<1>6. \A i, j \in read.ids : read.rows[i] = read.rows[j] => i = j
  BY <1>3, <1>5 DEF RowInv
<1>7. IsFiniteSet(list_margin_calls(read.rows))
  <2> DEFINE T == list_margin_calls(read.rows)
             f == [i \in read.ids |-> read.rows[i]]
  <2>1. f \in Surjection(read.ids, T)
    BY <1>2 DEF Surjection, list_margin_calls
  <2> HIDE DEF f, T
  <2>2. IsFiniteSet(T)
    BY <1>4, <2>1, FS_Surjection
  <2> QED
    BY <2>2 DEF T
<1> QED
  BY <1>2, <1>4, <1>5, <1>6, <1>7

\* A bucket is of the newest run of its counterparty and counts all of them.
LEMMA BucketsTell ==
  ASSUME FeedInv PROVE NewestIsShown
<1> SUFFICES ASSUME read.stage = "shown", NEW i \in read.before, can_see(read.scope, runs[i].cp)
             PROVE  \E b \in list_margin_call_buckets(read.rows) :
                      /\ b.counterparty_id = runs[i].cp
                      /\ b.latest.at >= runs[i].at
                      /\ b.total_count >= Cardinality({j \in read.before : runs[j].cp = runs[i].cp})
  BY DEF NewestIsShown
<1> DEFINE rows == read.rows
           cp == runs[i].cp
           calls == list_margin_calls_for_counterparty(rows, cp)
           mine == {j \in read.before : runs[j].cp = cp}
           b == [counterparty_id |-> cp, latest |-> LatestOf(calls), total_count |-> Cardinality(calls)]
<1>1. read # NotReading
  BY DEF NotReading
<1>2. \A j \in read.before : can_see(read.scope, runs[j].cp) => j \in read.ids
  BY <1>1 DEF FeedInv, ReadInv
<1>3. /\ IsFiniteSet(list_margin_calls(rows)) /\ DOMAIN rows = read.ids
      /\ \A j \in read.ids : RowInv(rows[j], j) /\ j \in DOMAIN runs /\ runs[j] \in FeedRun
      /\ \A j, k \in read.ids : rows[j] = rows[k] => j = k
  BY RowsApart
<1>4. \A j \in mine : j \in read.ids /\ rows[j] \in calls
  BY <1>2, <1>3 DEF list_margin_calls_for_counterparty, list_margin_calls, RowInv
<1>5. IsFiniteSet(calls) /\ \A r \in calls : r.at \in Nat
  <2>1. calls \in SUBSET list_margin_calls(rows)
    BY DEF list_margin_calls_for_counterparty
  <2>2. ASSUME NEW r \in calls PROVE r.at \in Nat
    <3>1. PICK j \in read.ids : r = rows[j]
      BY <1>3 DEF list_margin_calls_for_counterparty, list_margin_calls
    <3> QED
      BY <1>3, <3>1, FieldsOfRun DEF RowInv
  <2> QED
    BY <1>3, <2>1, <2>2, FS_Subset
<1>6. i \in mine /\ rows[i] \in calls /\ rows[i].at = runs[i].at
  BY <1>2, <1>3, <1>4 DEF RowInv
<1>7. b \in list_margin_call_buckets(rows)
  BY <1>3, <1>4, <1>6 DEF list_margin_call_buckets, RowInv
<1>8. Cardinality(mine) <= Cardinality(calls) /\ Cardinality(mine) \in Nat /\ Cardinality(calls) \in Nat
  <2> DEFINE f == [j \in mine |-> rows[j]]
  <2>1. f \in [mine -> calls] /\ \A j, k \in mine : f[j] = f[k] => j = k
    BY <1>3, <1>4
  <2> HIDE DEF f, mine, calls
  <2>2. IsFiniteSet(mine) /\ Cardinality(mine) <= Cardinality(calls)
    BY <1>5, <2>1, InjectionBounds
  <2> QED
    BY <1>5, <2>2, FS_CardinalityType
<1>9. LatestOf(calls).at >= rows[i].at
  <2>1. MostRecent(calls) \in calls /\ \A q \in calls : q.at <= MostRecent(calls).at
    <3> HIDE DEF calls
    <3> QED
      BY <1>5, <1>6, MostRecentIs
  <2> QED
    BY <1>5, <1>6, <2>1 DEF LatestOf
<1>10. b.counterparty_id = cp /\ b.latest = LatestOf(calls) /\ b.total_count = Cardinality(calls)
  OBVIOUS
<1> HIDE DEF b, calls
<1> QED
  BY <1>6, <1>7, <1>8, <1>9, <1>10

\* Every row the public page counts is one its counterparty's history counts.
LEMMA PageWithinHistory ==
  ASSUME FeedInv PROVE PublicCountsCalls
<1> SUFFICES ASSUME read.stage = "shown", NEW cp \in Cps
             PROVE  public_stats(RowsOf(read.rows, cp)).calls_raised
                      <= counterparty_history(read.rows, cp).breached_calls
  BY DEF PublicCountsCalls
<1> DEFINE rows == read.rows
           paged == {i \in DOMAIN RowsOf(rows, cp) : RowsOf(rows, cp)[i].call_amount > 0}
           told == {r \in {q \in list_margin_calls_for_counterparty(rows, cp) : q.status # "evaluating"} :
                      r.status \notin {"no_breach", "below_materiality"}}
<1>1. /\ IsFiniteSet(list_margin_calls(rows)) /\ DOMAIN rows = read.ids
      /\ \A j \in read.ids : RowInv(rows[j], j)
      /\ \A j, k \in read.ids : rows[j] = rows[k] => j = k
  BY RowsApart
<1>2. \A i \in paged : i \in read.ids /\ rows[i].cp = cp /\ rows[i].call_amount > 0 /\ ~runs[i].crossed
  BY <1>1 DEF RowsOf
<1>3. \A i \in paged : rows[i] \in told
  BY <1>1, <1>2 DEF RowInv, list_margin_calls_for_counterparty, list_margin_calls
<1>4. IsFiniteSet(told)
  <2>1. told \in SUBSET list_margin_calls(rows)
    BY DEF list_margin_calls_for_counterparty
  <2> QED
    BY <1>1, <2>1, FS_Subset
<1>5. Cardinality(paged) <= Cardinality(told)
  <2> DEFINE f == [j \in paged |-> rows[j]]
  <2>1. f \in [paged -> told] /\ \A j, k \in paged : f[j] = f[k] => j = k
    BY <1>1, <1>2, <1>3
  <2> HIDE DEF f, paged, told
  <2> QED
    BY <1>4, <2>1, InjectionBounds
<1>6. public_stats(RowsOf(rows, cp)).calls_raised = Cardinality(paged)
  BY DEF public_stats
<1>7. counterparty_history(rows, cp).breached_calls = Cardinality(told)
  BY DEF counterparty_history
<1> QED
  BY <1>5, <1>6, <1>7

\* The feed's status and the policy's stage of a run at rest name the gate it
\* is paused at.
LEMMA StagesAgree ==
  ASSUME FeedInv PROVE StagesInStep
<1> SUFFICES ASSUME NEW v \in ToSet(runs), AtRest(v), ~v.crossed
             PROVE  InStep(v)
  BY DEF StagesInStep
<1>1. PICK i \in DOMAIN runs : v = runs[i]
  BY DEF ToSet
<1>2. v \in FeedRun /\ Ordered(v) /\ Stands(v)
  BY <1>1 DEF FeedInv, RunsInv, Sound
<1>3. CASE v.next = "await_approval"
  <2>1. v.breach = "breached" /\ v.decision = NONE /\ ~v.notified /\ v.sla = NONE /\ ~v.escalated
    BY <1>2, <1>3, FieldsOfRun DEF Ordered, Stands, Approved, NONE
  <2>2. lifecycle_status(v) = "awaiting_approval" /\ open_call_stage(v) = "awaiting_approval"
    BY <2>1 DEF lifecycle_status, open_call_stage, NeedsManager, Approved, NONE
  <2> QED
    BY <1>3, <2>2 DEF InStep, StageAt
<1>4. CASE v.next = "await_manager_approval"
  <2>1. NeedsManager(v) /\ v.breach = "breached" /\ ~v.notified /\ v.sla = NONE /\ ~v.escalated
    BY <1>2, <1>4, FieldsOfRun DEF Ordered, Stands, NeedsManager, Approved, NONE
  <2>2. lifecycle_status(v) = "awaiting_manager_approval" /\ open_call_stage(v) = "awaiting_manager_approval"
    BY <2>1 DEF lifecycle_status, open_call_stage, NeedsManager, Approved, NONE
  <2> QED
    BY <1>4, <2>2 DEF InStep, StageAt
<1>5. CASE v.next = "await_sla_response"
  <2>1. v.notified /\ v.breach = "breached" /\ v.sla = NONE /\ ~v.escalated
    BY <1>2, <1>5, FieldsOfRun DEF Ordered, Stands, Approved, NONE
  <2>2. lifecycle_status(v) = "awaiting_sla_response" /\ open_call_stage(v) = "awaiting_sla_response"
    BY <2>1 DEF lifecycle_status, open_call_stage, NONE
  <2> QED
    BY <1>5, <2>2 DEF InStep, StageAt
<1>6. CASE v.next = "end"
  <2>1. CASE v.sla # NONE
    BY <1>2, <1>6, <2>1, FieldsOfRun DEF Ordered, lifecycle_status, open_call_stage, InStep, StageAt, NONE
  <2>2. CASE v.sla = NONE /\ v.decision \in {"rejected", "disputed"}
    <3>1. ~v.notified /\ ~v.escalated
      BY <1>2, <2>2, FieldsOfRun DEF Ordered, Approved, NONE
    <3> QED
      BY <1>2, <1>6, <2>2, <3>1 DEF lifecycle_status, open_call_stage, InStep, StageAt, NONE
  <2>3. CASE v.sla = NONE /\ v.breach \in {"no_breach", "below_mta"}
    <3>1. v.decision = NONE /\ ~v.notified /\ ~v.escalated
      BY <1>2, <2>3, FieldsOfRun DEF Ordered, Approved, NONE
    <3> QED
      BY <1>2, <1>6, <2>3, <3>1 DEF lifecycle_status, open_call_stage, InStep, StageAt, NeedsManager, Approved, NONE
  <2> QED
    BY <1>2, <1>6, <2>1, <2>2, <2>3 DEF Stands
<1> QED
  BY <1>2, <1>3, <1>4, <1>5, <1>6, FieldsOfRun DEF AtRest

\* What a user is shown is of counterparties they had during the read, newest
\* first and complete; the public page counts no call that the histories do
\* not; and the feed and the policy name the same gate of a run at rest.
THEOREM FeedTells == FeedSpec => []FeedIsTrue
<1>1. FeedInv => FeedIsTrue
  <2> SUFFICES ASSUME FeedInv PROVE FeedIsTrue
    OBVIOUS
  <2>1. FeedTypeOK
    <3>1. \A i \in Ids : runs[i].decision \in {NONE, "approved", "adjusted", "rejected", "disputed"}
      BY FieldsOfRun DEF FeedInv, RunsInv, Ids
    <3>2. read = NotReading => read.stage = "idle"
      BY DEF NotReading
    <3> QED
      BY <3>1, <3>2 DEF FeedTypeOK, FeedInv, ReadInv
  <2>2. FeedWithinScope
    <3> SUFFICES ASSUME read.stage = "shown", NEW i \in read.ids PROVE read.rows[i].cp \in granted[read.user]
      BY DEF FeedWithinScope
    <3>1. read # NotReading
      BY DEF NotReading
    <3>2. can_see(read.scope, runs[i].cp) /\ SeenBy(read.scope) \subseteq granted[read.user]
      BY <3>1 DEF FeedInv, ReadInv
    <3>3. read.rows[i].cp = runs[i].cp /\ runs[i].cp \in Cps
      BY RowsApart, FieldsOfRun DEF RowInv
    <3> QED
      BY <3>2, <3>3 DEF SeenBy, can_see
  <2> QED
    BY <2>1, <2>2, BucketsTell, PageWithinHistory, StagesAgree DEF FeedIsTrue
<1> QED
  BY <1>1, FeedInductive, PTL

-----------------------------------------------------------------------------
(* Notices.                                                                *)

NameRec == [read : Nat, at : Nat, names : SUBSET Names, stored : BOOLEAN]
Chunk == [section : UNION {ToSet(Editions[e].sections) : e \in DOMAIN Editions}, of : Nat]
Notice == [used : SUBSET {"DEADLINE", "REFERENCE", "MTA"}, digits : BOOLEAN, document : BOOLEAN, deadline : Int]
CallStages ==
  {"new", "terms", "priced", "approved", "clauses", "draft", "redraft", "send", "sent", "failed",
   "overdue", "returned", "escalated"}
CallFields ==
  [stage |-> call.stage, step |-> call.step, text |-> call.text, names |-> call.names,
   looked |-> call.looked, passed |-> call.passed, grounds |-> call.grounds, clauses |-> call.clauses,
   sent_at |-> call.sent_at, notice |-> call.notice, incident |-> call.incident, reported |-> call.reported]

\* The chunk at a position is of the newest edition, if that reaches it.
OnFile(of, at, newest) == of = newest \/ at > Len(Editions[newest].sections)

FileInv ==
  /\ chunks \in Seq(Chunk) /\ ingested \in 0..edition /\ edition \in DOMAIN Editions
  /\ ingesting \in [Runs -> 0..edition]
  /\ \A i \in DOMAIN chunks : OnFile(chunks[i].of, i, ingested)

\* A name that pairs do not mask was added after they were read.
Covers(pairs) == \A n \in Names : n \in pairs.names \/ added[n] >= pairs.read

PairsInv ==
  /\ added \in [Names -> Nat] /\ now \in 1..MaxTime /\ mode \in Channels
  /\ pseudonyms \in NameRec /\ Covers(pseudonyms)
  /\ pseudonyms.read <= pseudonyms.at /\ pseudonyms.at <= now

CallTyped ==
  /\ call = CallFields /\ call.stage \in CallStages
  /\ call.step \in {"none", "filter", "keep", "mask", "screen", "answer"}
  /\ call.step # "none" <=> call.stage \in {"terms", "draft", "redraft"}
  /\ call.names \in NameRec /\ Covers(call.names) /\ call.names.read <= now
  /\ call.reported \in {"nothing", "failed"}
  /\ call.reported = "nothing" \/ call.stage = "returned" \/ call.stage = "escalated"
  /\ call.looked \in Int /\ call.sent_at \in 0..now /\ call.notice \in Notice
  /\ call.clauses = {} \/ mode = "pdf"
  /\ call.stage = "clauses" => mode = "pdf"
  /\ call.stage \in {"draft", "redraft"} => mode # "whatsapp"

\* What each step of a prompt has made sure of ...
Masked ==
  /\ call.step \in {"keep", "mask", "screen", "answer"} => "denied" \notin call.text
  /\ call.step \in {"mask", "screen", "answer"} => call.looked - call.names.at < TTL
  /\ call.step \in {"screen", "answer"} => call.text \cap (call.names.names \cup Account) = {}
  /\ call.step = "answer" =>
       call.passed = Guards /\ call.text \cap (Finds.modelarmor \cup Finds.incode) = {}

Whole(notice) ==
  /\ notice.document <=> mode = "pdf"
  /\ ~notice.digits
  /\ mode # "whatsapp" => Required(mode) \subseteq notice.used /\ notice.used \subseteq Allowed(mode)

\* ... and each stage of a notice.
Noticed ==
  /\ call.stage \in {"clauses", "draft", "redraft", "send", "sent"} =>
       call.sent_at >= 1 /\ call.notice.deadline = call.sent_at + SLA
  /\ call.stage \in {"send", "sent"} => Whole(call.notice)
  /\ call.stage = "failed" => call.notice = NoNotice
  /\ call.stage = "overdue" => call.notice # NoNotice /\ now >= call.notice.deadline
  /\ call.stage = "returned" => call.reported = "failed"
  /\ call.stage # "escalated" => call.incident.what = "none"
  /\ call.incident.what = "missed" =>
       call.notice # NoNotice /\ call.incident.at >= call.notice.deadline /\ call.reported = "nothing"
  /\ call.incident.what = "undelivered" => call.notice = NoNotice \/ call.reported = "failed"

NoticeInv == FileInv /\ PairsInv /\ CallTyped /\ Masked /\ Noticed /\ GroundedOnFile

\* The editions are sequences of sections, whose chunks are typed.
LEMMA EditionsTyped ==
  /\ DOMAIN Editions = 1..Len(Editions) /\ Len(Editions) \in Nat \ {0}
  /\ \A e \in DOMAIN Editions : Len(Editions[e].sections) \in Nat /\ DOMAIN Editions[e].sections = 1..Len(Editions[e].sections)
<1>1. Editions \in Seq(ToSet(Editions)) /\ Editions # <<>>
  BY NoticesAssumption
<1>2. Len(Editions) \in Nat \ {0} /\ DOMAIN Editions = 1..Len(Editions)
  BY <1>1, EmptySeq, LenProperties
<1>3. ASSUME NEW e \in DOMAIN Editions
      PROVE  Len(Editions[e].sections) \in Nat /\ DOMAIN Editions[e].sections = 1..Len(Editions[e].sections)
  <2>1. Editions[e].sections \in Seq(ToSet(Editions[e].sections))
    BY NoticesAssumption
  <2> QED
    BY <2>1, LenProperties
<1> QED
  BY <1>2, <1>3

\* A text's step changes the run and nothing else.
LEMMA CallKeeps ==
  ASSUME NoticeInv, UNCHANGED <<now, others, pseudonyms>>, CallTyped', Masked', Noticed', GroundedOnFile'
  PROVE  NoticeInv'
<1>1. FileInv'
  BY DEF NoticeInv, FileInv, others
<1>2. PairsInv'
  BY DEF NoticeInv, PairsInv, others, Covers
<1> QED
  BY <1>1, <1>2 DEF NoticeInv

\* A run that rests has left the model call it was in.
LEMMA RestsSets ==
  ASSUME CallTyped, NEW stage
  PROVE  Rests(stage) =
           [stage |-> stage, step |-> "none", text |-> {}, names |-> Missing,
            looked |-> 0, passed |-> {}, grounds |-> call.grounds, clauses |-> call.clauses,
            sent_at |-> call.sent_at, notice |-> call.notice, incident |-> call.incident, reported |-> call.reported]
<1> DEFINE D == {"stage", "step", "text", "names", "looked", "passed", "grounds", "clauses", "sent_at", "notice", "incident",
                  "reported"}
           q == [stage |-> stage, step |-> "none", text |-> {}, names |-> Missing,
            looked |-> 0, passed |-> {}, grounds |-> call.grounds, clauses |-> call.clauses,
            sent_at |-> call.sent_at, notice |-> call.notice, incident |-> call.incident, reported |-> call.reported]
           r == Rests(stage)
<1>1. DOMAIN call = D /\ call = [x \in D |-> call[x]]
  BY DEF CallTyped, CallFields
<1>2. DOMAIN r = D /\ r = [x \in D |-> r[x]]
  BY <1>1 DEF Rests
<1>3. q = [x \in D |-> q[x]]
  OBVIOUS
<1>4. ASSUME NEW x \in D PROVE r[x] = q[x]
  <2>1. r[x] = IF x = "stage" THEN stage ELSE IF x = "step" THEN "none" ELSE IF x = "text" THEN {}
               ELSE IF x = "names" THEN Missing ELSE IF x = "looked" THEN 0 ELSE IF x = "passed" THEN {} ELSE call[x]
    BY <1>1 DEF Rests
  <2>2. q[x] = IF x = "stage" THEN stage ELSE IF x = "step" THEN "none" ELSE IF x = "text" THEN {}
               ELSE IF x = "names" THEN Missing ELSE IF x = "looked" THEN 0 ELSE IF x = "passed" THEN {} ELSE call[x]
    OBVIOUS
  <2> QED
    BY <2>1, <2>2
<1> HIDE DEF D, q, r
<1>5. r = q
  BY <1>2, <1>3, <1>4
<1> QED
  BY <1>5 DEF q, r

\* At rest, with another notice.
LEMMA RestsNotice ==
  ASSUME CallTyped, NEW stage, NEW notice
  PROVE  [Rests(stage) EXCEPT !.notice = notice] =
           [stage |-> stage, step |-> "none", text |-> {}, names |-> Missing,
            looked |-> 0, passed |-> {}, grounds |-> call.grounds, clauses |-> call.clauses,
            sent_at |-> call.sent_at, notice |-> notice, incident |-> call.incident, reported |-> call.reported]
<1> DEFINE D == {"stage", "step", "text", "names", "looked", "passed", "grounds", "clauses", "sent_at", "notice", "incident",
                  "reported"}
           r == Rests(stage)
           e == [r EXCEPT !.notice = notice]
           q == [stage |-> stage, step |-> "none", text |-> {}, names |-> Missing,
                 looked |-> 0, passed |-> {}, grounds |-> call.grounds, clauses |-> call.clauses,
                 sent_at |-> call.sent_at, notice |-> notice, incident |-> call.incident, reported |-> call.reported]
<1>1. r = [stage |-> stage, step |-> "none", text |-> {}, names |-> Missing,
           looked |-> 0, passed |-> {}, grounds |-> call.grounds, clauses |-> call.clauses,
           sent_at |-> call.sent_at, notice |-> call.notice, incident |-> call.incident, reported |-> call.reported]
  BY RestsSets
<1>2. DOMAIN r = D
  BY <1>1
<1> HIDE DEF r
<1>3. DOMAIN e = D /\ e = [x \in D |-> e[x]]
  BY <1>2
<1>4. q = [x \in D |-> q[x]]
  OBVIOUS
<1>5. ASSUME NEW x \in D PROVE e[x] = q[x]
  <2>1. e[x] = IF x = "notice" THEN notice ELSE r[x]
    BY <1>2
  <2> HIDE DEF e
  <2> QED
    BY <1>1, <2>1
<1> HIDE DEF D, q, e
<1>6. e = q
  BY <1>3, <1>4, <1>5
<1> QED
  BY <1>6 DEF e, q, r

\* At rest, the time of sending kept.
LEMMA RestsSent ==
  ASSUME CallTyped, NEW stage
  PROVE  [Rests(stage) EXCEPT !.sent_at = call.sent_at] =
           [stage |-> stage, step |-> "none", text |-> {}, names |-> Missing,
            looked |-> 0, passed |-> {}, grounds |-> call.grounds, clauses |-> call.clauses,
            sent_at |-> call.sent_at, notice |-> call.notice, incident |-> call.incident, reported |-> call.reported]
<1> DEFINE D == {"stage", "step", "text", "names", "looked", "passed", "grounds", "clauses", "sent_at", "notice", "incident",
                  "reported"}
           r == Rests(stage)
           e == [r EXCEPT !.sent_at = call.sent_at]
           q == [stage |-> stage, step |-> "none", text |-> {}, names |-> Missing,
                 looked |-> 0, passed |-> {}, grounds |-> call.grounds, clauses |-> call.clauses,
                 sent_at |-> call.sent_at, notice |-> call.notice, incident |-> call.incident, reported |-> call.reported]
<1>1. r = [stage |-> stage, step |-> "none", text |-> {}, names |-> Missing,
           looked |-> 0, passed |-> {}, grounds |-> call.grounds, clauses |-> call.clauses,
           sent_at |-> call.sent_at, notice |-> call.notice, incident |-> call.incident, reported |-> call.reported]
  BY RestsSets
<1>2. DOMAIN r = D
  BY <1>1
<1> HIDE DEF r
<1>3. DOMAIN e = D /\ e = [x \in D |-> e[x]]
  BY <1>2
<1>4. q = [x \in D |-> q[x]]
  OBVIOUS
<1>5. ASSUME NEW x \in D PROVE e[x] = q[x]
  <2>1. e[x] = IF x = "sent_at" THEN call.sent_at ELSE r[x]
    BY <1>2
  <2> HIDE DEF e
  <2> QED
    BY <1>1, <2>1
<1> HIDE DEF D, q, e
<1>6. e = q
  BY <1>3, <1>4, <1>5
<1> QED
  BY <1>6 DEF e, q, r

\* At rest, the notice reported failed.
LEMMA RestsReturned ==
  ASSUME CallTyped, NEW stage
  PROVE  [Rests(stage) EXCEPT !.reported = "failed"] =
           [stage |-> stage, step |-> "none", text |-> {}, names |-> Missing,
            looked |-> 0, passed |-> {}, grounds |-> call.grounds, clauses |-> call.clauses,
            sent_at |-> call.sent_at, notice |-> call.notice, incident |-> call.incident, reported |-> "failed"]
<1> DEFINE D == {"stage", "step", "text", "names", "looked", "passed", "grounds", "clauses", "sent_at", "notice", "incident",
                  "reported"}
           r == Rests(stage)
           e == [r EXCEPT !.reported = "failed"]
           q == [stage |-> stage, step |-> "none", text |-> {}, names |-> Missing,
                 looked |-> 0, passed |-> {}, grounds |-> call.grounds, clauses |-> call.clauses,
                 sent_at |-> call.sent_at, notice |-> call.notice, incident |-> call.incident, reported |-> "failed"]
<1>1. r = [stage |-> stage, step |-> "none", text |-> {}, names |-> Missing,
           looked |-> 0, passed |-> {}, grounds |-> call.grounds, clauses |-> call.clauses,
           sent_at |-> call.sent_at, notice |-> call.notice, incident |-> call.incident, reported |-> call.reported]
  BY RestsSets
<1>2. DOMAIN r = D
  BY <1>1
<1> HIDE DEF r
<1>3. DOMAIN e = D /\ e = [x \in D |-> e[x]]
  BY <1>2
<1>4. q = [x \in D |-> q[x]]
  OBVIOUS
<1>5. ASSUME NEW x \in D PROVE e[x] = q[x]
  <2>1. e[x] = IF x = "reported" THEN "failed" ELSE r[x]
    BY <1>2
  <2> HIDE DEF e
  <2> QED
    BY <1>1, <2>1
<1> HIDE DEF D, q, e
<1>6. e = q
  BY <1>3, <1>4, <1>5
<1> QED
  BY <1>6 DEF e, q, r

\* At rest, an incident opened.
LEMMA RestsIncident ==
  ASSUME CallTyped, NEW stage, NEW incident
  PROVE  [Rests(stage) EXCEPT !.incident = incident] =
           [stage |-> stage, step |-> "none", text |-> {}, names |-> Missing,
            looked |-> 0, passed |-> {}, grounds |-> call.grounds, clauses |-> call.clauses,
            sent_at |-> call.sent_at, notice |-> call.notice, incident |-> incident, reported |-> call.reported]
<1> DEFINE D == {"stage", "step", "text", "names", "looked", "passed", "grounds", "clauses", "sent_at", "notice", "incident",
                  "reported"}
           r == Rests(stage)
           e == [r EXCEPT !.incident = incident]
           q == [stage |-> stage, step |-> "none", text |-> {}, names |-> Missing,
                 looked |-> 0, passed |-> {}, grounds |-> call.grounds, clauses |-> call.clauses,
                 sent_at |-> call.sent_at, notice |-> call.notice, incident |-> incident, reported |-> call.reported]
<1>1. r = [stage |-> stage, step |-> "none", text |-> {}, names |-> Missing,
           looked |-> 0, passed |-> {}, grounds |-> call.grounds, clauses |-> call.clauses,
           sent_at |-> call.sent_at, notice |-> call.notice, incident |-> call.incident, reported |-> call.reported]
  BY RestsSets
<1>2. DOMAIN r = D
  BY <1>1
<1> HIDE DEF r
<1>3. DOMAIN e = D /\ e = [x \in D |-> e[x]]
  BY <1>2
<1>4. q = [x \in D |-> q[x]]
  OBVIOUS
<1>5. ASSUME NEW x \in D PROVE e[x] = q[x]
  <2>1. e[x] = IF x = "incident" THEN incident ELSE r[x]
    BY <1>2
  <2> HIDE DEF e
  <2> QED
    BY <1>1, <2>1
<1> HIDE DEF D, q, e
<1>6. e = q
  BY <1>3, <1>4, <1>5
<1> QED
  BY <1>6 DEF e, q, r

\* What is missing is no pair, and what is not sent is no notice.
LEMMA NothingYet ==
  /\ Missing \in NameRec /\ (NoticeInv => Covers(Missing))
  /\ NoNotice \in Notice /\ NoNotice.deadline = 0
<1>1. Missing \in NameRec /\ NoNotice \in Notice /\ NoNotice.deadline = 0
  BY DEF Missing, NameRec, NoNotice, Notice
<1>2. ASSUME NoticeInv PROVE Covers(Missing)
  BY <1>2 DEF Missing, Covers, NoticeInv, PairsInv
<1> QED
  BY <1>1, <1>2

\* A node that raises starts over, or its notice has failed.
LEMMA RaiseStep ==
  ASSUME NoticeInv, NEW kind, Raise(kind), call.stage \notin {"returned", "escalated"}
  PROVE  NoticeInv'
<1>1. UNCHANGED <<now, others, pseudonyms>> /\ CallTyped /\ mode' = mode /\ now \in 1..MaxTime
  BY DEF Raise, NoticeInv, others, PairsInv
<1>2. MaxTime \in Nat /\ call.sent_at \in 0..now /\ call.names \in NameRec /\ call.notice \in Notice
  BY <1>1, NoticesAssumption DEF CallTyped
<1>3. call.incident.what = "none" /\ call.reported = "nothing" /\ GroundedOnFile
  BY DEF NoticeInv, Noticed, CallTyped
<1>4. Missing \in NameRec /\ Covers(Missing)' /\ Missing.read = 0
  BY <1>1, NothingYet DEF Missing, Covers, others
<1>5. CASE call.stage = "terms"
  <2>1. call' = NoCall
    BY <1>5 DEF Raise, Raised
  <2>2. CallTyped'
    BY <1>1, <1>2, <1>4, <2>1, NothingYet DEF CallTyped, NoCall, CallFields, CallStages
  <2>3. Masked' /\ Noticed'
    BY <2>1 DEF Masked, Noticed, NoCall
  <2>4. GroundedOnFile'
    BY <2>1 DEF GroundedOnFile, NoCall
  <2> QED
    BY <1>1, <2>2, <2>3, <2>4, CallKeeps
<1>6. CASE call.stage # "terms" /\ Turned(kind)
  <2>1. call' = [stage |-> "failed", step |-> "none", text |-> {}, names |-> Missing,
                 looked |-> 0, passed |-> {}, grounds |-> call.grounds, clauses |-> call.clauses,
                 sent_at |-> call.sent_at, notice |-> NoNotice, incident |-> call.incident, reported |-> call.reported]
    BY <1>1, <1>6, RestsSets, SMTT(30) DEF Raise, Raised, Failed
  <2>2. CallTyped'
    BY <1>1, <1>2, <1>3, <1>4, <2>1, NothingYet DEF CallTyped, CallFields, CallStages
  <2>3. Masked' /\ Noticed'
    BY <1>3, <2>1 DEF Masked, Noticed
  <2>4. GroundedOnFile'
    BY <1>3, <2>1 DEF GroundedOnFile
  <2> QED
    BY <1>1, <2>2, <2>3, <2>4, CallKeeps
<1>7. CASE call.stage # "terms" /\ ~Turned(kind)
  <2>1. call' = [stage |-> "approved", step |-> "none", text |-> {}, names |-> Missing,
                 looked |-> 0, passed |-> {}, grounds |-> call.grounds, clauses |-> {},
                 sent_at |-> 0, notice |-> NoNotice, incident |-> call.incident, reported |-> call.reported]
    <3>1. call' = [Rests("approved") EXCEPT !.sent_at = 0, !.clauses = {}, !.notice = NoNotice]
      BY <1>7 DEF Raise, Raised
    <3> DEFINE D == {"stage", "step", "text", "names", "looked", "passed", "grounds", "clauses", "sent_at",
                     "notice", "incident", "reported"}
               q == [stage |-> "approved", step |-> "none", text |-> {}, names |-> Missing,
                     looked |-> 0, passed |-> {}, grounds |-> call.grounds, clauses |-> {},
                     sent_at |-> 0, notice |-> NoNotice, incident |-> call.incident, reported |-> call.reported]
    <3>2. Rests("approved") =
            [stage |-> "approved", step |-> "none", text |-> {}, names |-> Missing,
             looked |-> 0, passed |-> {}, grounds |-> call.grounds, clauses |-> call.clauses,
             sent_at |-> call.sent_at, notice |-> call.notice, incident |-> call.incident, reported |-> call.reported]
      BY <1>1, RestsSets
    <3>3. DOMAIN Rests("approved") = D
      BY <3>2
    <3>4. DOMAIN call' = D /\ call' = [x \in D |-> call'[x]]
      BY <3>1, <3>3
    <3>5. q = [x \in D |-> q[x]]
      OBVIOUS
    <3>6. ASSUME NEW x \in D PROVE call'[x] = q[x]
      <4>1. call'[x] = IF x = "sent_at" THEN 0 ELSE IF x = "clauses" THEN {} ELSE IF x = "notice" THEN NoNotice
                       ELSE Rests("approved")[x]
        BY <3>1, <3>3
      <4> QED
        BY <3>2, <4>1
    <3> HIDE DEF D, q
    <3>7. call' = q
      BY <3>4, <3>5, <3>6
    <3> QED
      BY <3>7 DEF q
  <2>2. CallTyped'
    BY <1>1, <1>2, <1>3, <1>4, <2>1, NothingYet DEF CallTyped, CallFields, CallStages
  <2>3. Masked' /\ Noticed'
    BY <1>3, <2>1 DEF Masked, Noticed
  <2>4. GroundedOnFile'
    BY <1>3, <2>1 DEF GroundedOnFile
  <2> QED
    BY <1>1, <2>2, <2>3, <2>4, CallKeeps
<1> QED
  BY <1>5, <1>6, <1>7

\* Retrieved chunks are on file.
LEMMA RetrievedOnFile ==
  ASSUME FileInv, NEW sections, NEW c \in Retrieved(sections)
  PROVE  OnFile(c.of, c.at, c.last)
BY DEF FileInv, Retrieved, OnFile

\* The steps of a prompt.
LEMMA PromptStep ==
  ASSUME NoticeInv, PromptNext
  PROVE  NoticeInv'
<1>1. /\ CallTyped /\ Masked /\ Noticed /\ GroundedOnFile /\ PairsInv
      /\ call.sent_at \in 0..now /\ MaxTime \in Nat /\ now \in 1..MaxTime
      /\ call = CallFields /\ call.names \in NameRec
  BY NoticesAssumption DEF NoticeInv, CallTyped, PairsInv
<1>2. ASSUME UNCHANGED <<now, others, pseudonyms>>,
             NEW step, NEW text, NEW names, NEW looked, NEW passed,
             call' = [stage |-> call.stage, step |-> step, text |-> text, names |-> names,
                      looked |-> looked, passed |-> passed, grounds |-> call.grounds, clauses |-> call.clauses,
                      sent_at |-> call.sent_at, notice |-> call.notice, incident |-> call.incident, reported |-> call.reported],
             call.step # "none", step \in {"filter", "keep", "mask", "screen", "answer"},
             names \in NameRec, Covers(names), names.read <= now, looked \in Int,
             step \in {"keep", "mask", "screen", "answer"} => "denied" \notin text,
             step \in {"mask", "screen", "answer"} => looked - names.at < TTL,
             step \in {"screen", "answer"} => text \cap (names.names \cup Account) = {},
             step = "answer" => passed = Guards /\ text \cap (Finds.modelarmor \cup Finds.incode) = {}
      PROVE  NoticeInv'
  <2>1. mode' = mode /\ added' = added /\ now' = now
    BY <1>2 DEF others
  <2>2. CallTyped'
    BY <1>1, <1>2, <2>1 DEF CallTyped, CallFields, Covers
  <2>3. Masked'
    BY <1>2 DEF Masked
  <2>4. Noticed'
    BY <1>1, <1>2, <2>1 DEF Noticed, Whole
  <2>5. GroundedOnFile'
    BY <1>1, <1>2 DEF GroundedOnFile
  <2> QED
    BY <1>2, <2>2, <2>3, <2>4, <2>5, CallKeeps
<1>3. call.step # "none" => call.stage \notin {"returned", "escalated"}
  BY <1>1 DEF CallTyped
<1>4. CASE BlockPrompt \/ FailPseudonyms \/ FailRedactor \/ FailModel \/ BlockAnswer
  BY <1>3, <1>4, RaiseStep DEF BlockPrompt, FailPseudonyms, FailRedactor, FailModel, BlockAnswer
<1>5. CASE UsePseudonyms
  <2>1. call' = [stage |-> call.stage, step |-> "mask", text |-> call.text, names |-> pseudonyms,
                 looked |-> now, passed |-> call.passed, grounds |-> call.grounds, clauses |-> call.clauses,
                 sent_at |-> call.sent_at, notice |-> call.notice, incident |-> call.incident, reported |-> call.reported]
    BY <1>1, <1>5 DEF UsePseudonyms, CallFields
  <2>2. now - pseudonyms.at < TTL /\ call.step = "filter" /\ "denied" \notin call.text
        /\ UNCHANGED <<now, others, pseudonyms>>
    BY <1>5 DEF UsePseudonyms, PairsHeld
  <2>3. pseudonyms \in NameRec /\ Covers(pseudonyms) /\ pseudonyms.read <= now /\ now \in Int
    BY <1>1 DEF PairsInv, NameRec
  <2> QED
    BY <1>2, <2>1, <2>2, <2>3
<1>6. CASE ReadPseudonyms
  <2> DEFINE names == [read |-> now, at |-> 0, names |-> {n \in Names : added[n] <= now}, stored |-> FALSE]
  <2>1. call' = [stage |-> call.stage, step |-> "keep", text |-> call.text, names |-> names,
                 looked |-> call.looked, passed |-> call.passed, grounds |-> call.grounds, clauses |-> call.clauses,
                 sent_at |-> call.sent_at, notice |-> call.notice, incident |-> call.incident, reported |-> call.reported]
    BY <1>1, <1>6 DEF ReadPseudonyms, CallFields, Missing
  <2>2. names \in NameRec /\ Covers(names) /\ names.read <= now
    BY <1>1 DEF PairsInv, NameRec, Covers
  <2>3. call.step = "filter" /\ "denied" \notin call.text /\ UNCHANGED <<now, others, pseudonyms>> /\ call.looked \in Int
    BY <1>1, <1>6 DEF ReadPseudonyms, CallTyped
  <2> HIDE DEF names
  <2> QED
    BY <1>2, <2>1, <2>2, <2>3
<1>7. CASE KeepPseudonyms
  <2> DEFINE names == [read |-> call.names.read, at |-> now, names |-> call.names.names, stored |-> TRUE]
  <2>1. pseudonyms' = names /\ UNCHANGED <<now, others>>
    BY <1>1, <1>7 DEF KeepPseudonyms, NameRec
  <2>2. call' = [stage |-> call.stage, step |-> "mask", text |-> call.text, names |-> names,
                 looked |-> now, passed |-> call.passed, grounds |-> call.grounds, clauses |-> call.clauses,
                 sent_at |-> call.sent_at, notice |-> call.notice, incident |-> call.incident, reported |-> call.reported]
    BY <1>1, <1>7, <2>1 DEF KeepPseudonyms, CallFields
  <2>3. names \in NameRec /\ Covers(names) /\ names.read <= now /\ names.at = now /\ now \in Int
    BY <1>1 DEF CallTyped, NameRec, Covers
  <2>4. mode' = mode /\ added' = added /\ now' = now
    BY <2>1 DEF others
  <2> HIDE DEF names
  <2>5. call.step = "keep" /\ "denied" \notin call.text
    BY <1>1, <1>7 DEF KeepPseudonyms, Masked
  <2>6. FileInv'
    BY <2>1 DEF NoticeInv, FileInv, others
  <2>7. PairsInv'
    BY <1>1, <2>1, <2>3, <2>4 DEF PairsInv, Covers
  <2>8. CallTyped'
    BY <1>1, <2>2, <2>3, <2>4, <2>5 DEF CallTyped, CallFields, Covers
  <2>9. Masked'
    BY <2>2, <2>3, <2>5, NoticesAssumption DEF Masked
  <2>10. Noticed'
    BY <1>1, <2>2, <2>4 DEF Noticed, Whole
  <2>11. GroundedOnFile'
    BY <1>1, <2>2 DEF GroundedOnFile
  <2> QED
    BY <2>6, <2>7, <2>8, <2>9, <2>10, <2>11 DEF NoticeInv
<1>8. CASE MaskPrompt
  <2> DEFINE text == call.text \ (call.names.names \cup Account)
  <2>1. call' = [stage |-> call.stage, step |-> "screen", text |-> text, names |-> call.names,
                 looked |-> call.looked, passed |-> call.passed, grounds |-> call.grounds, clauses |-> call.clauses,
                 sent_at |-> call.sent_at, notice |-> call.notice, incident |-> call.incident, reported |-> call.reported]
    BY <1>1, <1>8 DEF MaskPrompt, CallFields
  <2>2. call.step = "mask" /\ UNCHANGED <<now, others, pseudonyms>>
    BY <1>8 DEF MaskPrompt
  <2>3. "denied" \notin text /\ text \cap (call.names.names \cup Account) = {} /\ call.looked - call.names.at < TTL
    BY <1>1, <2>2 DEF Masked
  <2>4. Covers(call.names) /\ call.names.read <= now /\ call.looked \in Int
    BY <1>1 DEF CallTyped
  <2> HIDE DEF text
  <2> QED
    BY <1>1, <1>2, <2>1, <2>2, <2>3, <2>4
<1>9. ASSUME NEW answered \in SUBSET Guards, ScreenPrompt(answered) PROVE NoticeInv'
  <2>1. call.step = "screen"
    BY <1>9 DEF ScreenPrompt
  <2>2. CASE Screen(call.text, answered) = Guards
    <3> DEFINE passed == {g \in answered : Finds[g] \cap call.text = {}}
    <3>1. call' = [stage |-> call.stage, step |-> "answer", text |-> call.text, names |-> call.names,
                   looked |-> call.looked, passed |-> passed, grounds |-> call.grounds, clauses |-> call.clauses,
                   sent_at |-> call.sent_at, notice |-> call.notice, incident |-> call.incident, reported |-> call.reported]
      BY <1>1, <1>9, <2>2 DEF ScreenPrompt, CallFields
    <3>2. UNCHANGED <<now, others, pseudonyms>>
      BY <1>9, <2>2 DEF ScreenPrompt
    <3>3. passed = Guards
      BY <2>2 DEF Screen
    <3>4. call.text \cap (Finds.modelarmor \cup Finds.incode) = {}
      <4>1. Finds["modelarmor"] \cap call.text = {} /\ Finds["incode"] \cap call.text = {}
        BY <3>3 DEF Guards
      <4> QED
        BY <4>1
    <3>5. /\ "denied" \notin call.text /\ call.text \cap (call.names.names \cup Account) = {}
          /\ call.looked - call.names.at < TTL
      BY <1>1, <2>1 DEF Masked
    <3>6. Covers(call.names) /\ call.names.read <= now /\ call.looked \in Int
      BY <1>1 DEF CallTyped
    <3> HIDE DEF passed
    <3> QED
      BY <1>1, <1>2, <2>1, <3>1, <3>2, <3>3, <3>4, <3>5, <3>6
  <2>3. CASE Screen(call.text, answered) # Guards
    BY <1>3, <1>9, <2>1, <2>3, RaiseStep DEF ScreenPrompt
  <2> QED
    BY <2>2, <2>3
<1> QED
  BY <1>4, <1>5, <1>6, <1>7, <1>8, <1>9 DEF PromptNext

\* The steps of a notice.
LEMMA NoticeStep ==
  ASSUME NoticeInv, NoticeNext
  PROVE  NoticeInv'
<1>1. /\ CallTyped /\ Masked /\ Noticed /\ GroundedOnFile /\ PairsInv /\ FileInv
      /\ call.sent_at \in 0..now /\ MaxTime \in Nat /\ now \in 1..MaxTime /\ SLA \in Nat
      /\ call = CallFields /\ call.names \in NameRec /\ call.notice \in Notice
      /\ call.reported \in {"nothing", "failed"} /\ (call.reported = "nothing" \/ call.stage = "returned" \/ call.stage = "escalated")
  BY NoticesAssumption DEF NoticeInv, CallTyped, PairsInv
<1>2. Missing \in NameRec /\ Covers(Missing) /\ Missing.read = 0 /\ NoNotice \in Notice /\ NoNotice.deadline = 0
  BY NothingYet DEF Missing
<1>3. ASSUME UNCHANGED <<now, others, pseudonyms>>, call' = CallFields',
             call'.step = "none", call'.text = {}, call'.names = Missing, call'.looked = 0, call'.passed = {},
             call'.grounds = call.grounds, call'.clauses = call.clauses,
             call'.stage \in CallStages \ {"terms", "draft", "redraft"}, call'.stage = "clauses" => mode = "pdf",
             call'.sent_at \in 0..now, call'.notice \in Notice,
             call'.reported \in {"nothing", "failed"},
             call'.reported = "nothing" \/ call'.stage = "returned" \/ call'.stage = "escalated",
             Noticed'
      PROVE  NoticeInv'
  <2>1. mode' = mode /\ added' = added /\ now' = now
    BY <1>3 DEF others
  <2>2. CallTyped'
    BY <1>1, <1>2, <1>3, <2>1 DEF CallTyped, Covers
  <2>3. Masked'
    BY <1>3 DEF Masked
  <2>4. GroundedOnFile'
    BY <1>1, <1>3 DEF GroundedOnFile
  <2> QED
    BY <1>3, <2>2, <2>3, <2>4, CallKeeps
<1>4. CASE RetrieveTerms
  <2> DEFINE grounds == Retrieved(AllSections)
  <2>1. call' = [stage |-> "terms", step |-> "filter", text |-> TextOf(grounds), names |-> call.names,
                 looked |-> call.looked, passed |-> call.passed, grounds |-> grounds, clauses |-> call.clauses,
                 sent_at |-> call.sent_at, notice |-> call.notice, incident |-> call.incident, reported |-> call.reported]
    BY <1>1, <1>4 DEF RetrieveTerms, CallFields
  <2>2. UNCHANGED <<now, others, pseudonyms>> /\ call.stage = "new"
    BY <1>4 DEF RetrieveTerms
  <2>3. \A c \in grounds : OnFile(c.of, c.at, c.last)
    BY <1>1, RetrievedOnFile
  <2> HIDE DEF grounds
  <2>4. mode' = mode /\ added' = added /\ now' = now
    BY <2>2 DEF others
  <2>5. CallTyped'
    BY <1>1, <2>1, <2>2, <2>4 DEF CallTyped, CallFields, CallStages, Covers
  <2>6. Masked' /\ Noticed'
    BY <1>1, <2>1, <2>2, <2>4 DEF Masked, Noticed
  <2>7. GroundedOnFile'
    BY <1>1, <2>1, <2>3 DEF GroundedOnFile, OnFile
  <2> QED
    BY <2>2, <2>5, <2>6, <2>7, CallKeeps
<1>5. CASE NoTerms \/ FailRetrieval
  BY <1>5, RaiseStep DEF NoTerms, FailRetrieval
<1>6. CASE ExtractTerms \/ Approve
  <2>1. PICK stage \in {"priced", "approved"} : call' = Rests(stage)
    BY <1>6 DEF ExtractTerms, Approve
  <2>2. call' = [stage |-> stage, step |-> "none", text |-> {}, names |-> Missing,
                 looked |-> 0, passed |-> {}, grounds |-> call.grounds, clauses |-> call.clauses,
                 sent_at |-> call.sent_at, notice |-> call.notice, incident |-> call.incident, reported |-> call.reported]
    BY <1>1, <2>1, RestsSets
  <2>3. UNCHANGED <<now, others, pseudonyms>> /\ call.stage \in {"terms", "priced"}
    BY <1>6 DEF ExtractTerms, Approve
  <2>4. Noticed'
    BY <1>1, <2>1, <2>2, <2>3 DEF Noticed
  <2> QED
    BY <1>1, <1>3, <2>1, <2>2, <2>3, <2>4 DEF CallStages, CallFields
<1>7. CASE StartNotice
  <2> DEFINE stage == CASE mode = "slack" -> "draft" [] mode = "pdf" -> "clauses" [] OTHER -> "send"
             step == IF mode = "slack" THEN "filter" ELSE "none"
             notice == [NoNotice EXCEPT !.deadline = now + SLA]
  <2>1. /\ call.stage = "approved" /\ UNCHANGED <<now, others, pseudonyms>>
        /\ call' = [call EXCEPT !.sent_at = now, !.stage = stage, !.step = step, !.notice = notice]
    BY <1>7 DEF StartNotice
  <2>2. \/ mode = "slack" /\ stage = "draft" /\ step = "filter"
        \/ mode = "pdf" /\ stage = "clauses" /\ step = "none"
        \/ mode = "whatsapp" /\ stage = "send" /\ step = "none"
    <3>1. mode = "slack" => stage = "draft" /\ step = "filter"
      OBVIOUS
    <3>2. mode = "pdf" => stage = "clauses" /\ step = "none"
      OBVIOUS
    <3>3. mode = "whatsapp" => stage = "send" /\ step = "none"
      OBVIOUS
    <3>4. mode \in {"slack", "whatsapp", "pdf"}
      BY <1>1 DEF PairsInv, Channels
    <3> HIDE DEF stage, step
    <3> QED
      BY <3>1, <3>2, <3>3, <3>4
  <2>3. /\ notice \in Notice /\ notice.deadline = now + SLA /\ ~notice.digits /\ notice.document = FALSE
    <3>1. PICK due \in Int : due = now + SLA
      BY <1>1
    <3>2. notice \in Notice
      BY <3>1 DEF NoNotice, Notice
    <3> QED
      BY <3>1, <3>2 DEF NoNotice
  <2> HIDE DEF stage, step, notice
  <2>4. call' = [stage |-> stage, step |-> step, text |-> call.text, names |-> call.names,
                 looked |-> call.looked, passed |-> call.passed, grounds |-> call.grounds, clauses |-> call.clauses,
                 sent_at |-> now, notice |-> notice, incident |-> call.incident, reported |-> call.reported]
    BY <1>1, <2>1 DEF CallFields
  <2>5. mode' = mode /\ added' = added /\ now' = now
    BY <2>1 DEF others
  <2>6. CallTyped'
    <3>1. call' = CallFields'
      BY <2>4 DEF CallFields
    <3>2. /\ call'.stage = stage /\ call'.step = step /\ call'.names = call.names /\ call'.looked = call.looked
          /\ call'.clauses = call.clauses /\ call'.sent_at = now /\ call'.notice = notice
          /\ call'.reported = call.reported
      BY <2>4
    <3>3. call.looked \in Int /\ Covers(call.names)' /\ call.names.read <= now /\ (call.clauses = {} \/ mode = "pdf")
      BY <1>1, <2>5, <3>2 DEF CallTyped, Covers
    <3>4. /\ stage \in CallStages /\ step \in {"none", "filter"}
          /\ step # "none" <=> stage \in {"terms", "draft", "redraft"}
          /\ stage = "clauses" => mode = "pdf"
          /\ stage \in {"draft", "redraft"} => mode # "whatsapp"
      BY <2>2 DEF CallStages
    <3>5. call.reported = "nothing"
      BY <1>1, <2>1
    <3> QED
      BY <1>1, <2>3, <2>5, <3>1, <3>2, <3>3, <3>4, <3>5 DEF CallTyped, Covers
  <2>7. Masked'
    BY <2>2, <2>4 DEF Masked
  <2>8. Noticed'
    BY <1>1, <2>1, <2>2, <2>3, <2>4, <2>5 DEF Noticed, Whole
  <2>9. GroundedOnFile'
    BY <1>1, <2>4 DEF GroundedOnFile
  <2> QED
    BY <2>1, <2>6, <2>7, <2>8, <2>9, CallKeeps
<1>8. CASE RetrieveClauses
  <2>1. PICK found \in SUBSET Retrieved(Clauses) :
          call' = [call EXCEPT !.stage = "draft", !.step = "filter", !.clauses = found]
    BY <1>8 DEF RetrieveClauses
  <2>2. call.stage = "clauses" /\ UNCHANGED <<now, others, pseudonyms>>
    BY <1>8 DEF RetrieveClauses
  <2>3. call' = [stage |-> "draft", step |-> "filter", text |-> call.text, names |-> call.names,
                 looked |-> call.looked, passed |-> call.passed, grounds |-> call.grounds, clauses |-> found,
                 sent_at |-> call.sent_at, notice |-> call.notice, incident |-> call.incident, reported |-> call.reported]
    BY <1>1, <2>1 DEF CallFields
  <2>4. \A c \in found : OnFile(c.of, c.at, c.last)
    BY <1>1, RetrievedOnFile
  <2>5. mode' = mode /\ added' = added /\ now' = now /\ mode = "pdf"
    BY <1>1, <2>2 DEF others, CallTyped
  <2>6. CallTyped'
    BY <1>1, <2>2, <2>3, <2>5 DEF CallTyped, CallFields, CallStages, Covers
  <2>7. Masked'
    BY <2>3 DEF Masked
  <2>8. Noticed'
    BY <1>1, <2>2, <2>3, <2>5 DEF Noticed
  <2>9. GroundedOnFile'
    BY <1>1, <2>3, <2>4 DEF GroundedOnFile, OnFile
  <2> QED
    BY <2>2, <2>6, <2>7, <2>8, <2>9, CallKeeps
<1>9. ASSUME NEW draft \in Drafts, Draft(draft) PROVE NoticeInv'
  <2>1. call.stage \in {"draft", "redraft"} /\ mode # "whatsapp"
    BY <1>1, <1>9 DEF Draft, CallTyped
  <2>2. CASE Usable(draft)
    <3> DEFINE notice == Filled(draft)
    <3>1. /\ notice.used = draft.used /\ notice.digits = draft.digits /\ notice.deadline = call.notice.deadline
          /\ notice.document <=> mode = "pdf"
      BY <1>1 DEF Filled, Notice
    <3>2. notice \in Notice
      BY <1>1 DEF Filled, Notice, Drafts
    <3>7. Whole(notice)
      BY <2>2, <3>1 DEF Usable, Whole, Drafts
    <3> HIDE DEF notice
    <3>3. UNCHANGED <<now, others, pseudonyms>> /\ call' = [Rests("send") EXCEPT !.notice = notice]
      BY <1>9, <2>2 DEF Draft, notice
    <3>4. call' = [stage |-> "send", step |-> "none", text |-> {}, names |-> Missing,
                   looked |-> 0, passed |-> {}, grounds |-> call.grounds, clauses |-> call.clauses,
                   sent_at |-> call.sent_at, notice |-> notice, incident |-> call.incident, reported |-> call.reported]
      BY <1>1, <3>3, RestsNotice
    <3>5. Noticed'
      <4>1. mode' = mode
        BY <3>3 DEF others
      <4> QED
        BY <1>1, <2>1, <3>1, <3>7, <3>4, <4>1 DEF Noticed, Whole
    <3> QED
      BY <1>1, <1>3, <2>1, <3>2, <3>3, <3>4, <3>5 DEF CallStages, CallFields
  <2>3. CASE ~Usable(draft) /\ call.stage = "draft"
    <3>1. UNCHANGED <<now, others, pseudonyms>>
          /\ call' = [call EXCEPT !.stage = "redraft", !.step = "filter", !.text = {}, !.passed = {}]
      BY <1>9, <2>3 DEF Draft
    <3>2. call' = [stage |-> "redraft", step |-> "filter", text |-> {}, names |-> call.names,
                   looked |-> call.looked, passed |-> {}, grounds |-> call.grounds, clauses |-> call.clauses,
                   sent_at |-> call.sent_at, notice |-> call.notice, incident |-> call.incident, reported |-> call.reported]
      BY <1>1, <3>1 DEF CallFields
    <3>3. mode' = mode /\ added' = added /\ now' = now
      BY <3>1 DEF others
    <3>4. CallTyped'
      BY <1>1, <2>1, <3>2, <3>3 DEF CallTyped, CallFields, CallStages, Covers
    <3>5. Masked' /\ Noticed'
      BY <1>1, <2>1, <3>2, <3>3 DEF Masked, Noticed
    <3>6. GroundedOnFile'
      BY <1>1, <3>2 DEF GroundedOnFile
    <3> QED
      BY <3>1, <3>4, <3>5, <3>6, CallKeeps
  <2>4. CASE ~Usable(draft) /\ call.stage # "draft"
    BY <1>9, <2>1, <2>4, RaiseStep DEF Draft
  <2> QED
    BY <2>2, <2>3, <2>4
<1>10. CASE Send
  <2>1. call.stage = "send" /\ UNCHANGED <<now, others, pseudonyms>> /\ call' = [Rests("sent") EXCEPT !.sent_at = call.sent_at]
    BY <1>10 DEF Send, SentAt
  <2>2. call' = [stage |-> "sent", step |-> "none", text |-> {}, names |-> Missing,
                 looked |-> 0, passed |-> {}, grounds |-> call.grounds, clauses |-> call.clauses,
                 sent_at |-> call.sent_at, notice |-> call.notice, incident |-> call.incident, reported |-> call.reported]
    BY <1>1, <2>1, RestsSent
  <2>3. Noticed'
    <3>1. mode' = mode
      BY <2>1 DEF others
    <3> QED
      BY <1>1, <2>1, <2>2, <3>1 DEF Noticed, Whole
  <2> QED
    BY <1>1, <1>3, <2>1, <2>2, <2>3 DEF CallStages, CallFields
<1>11. CASE FailSend
  <2>1. CASE mode = "slack"
    BY <1>11, <2>1, RaiseStep DEF FailSend
  <2>2. CASE mode # "slack"
    <3>1. call.stage = "send" /\ UNCHANGED <<now, others, pseudonyms>> /\ call' = [Rests("failed") EXCEPT !.notice = NoNotice]
      BY <1>11, <2>2 DEF FailSend, Failed
    <3>2. call' = [stage |-> "failed", step |-> "none", text |-> {}, names |-> Missing,
                   looked |-> 0, passed |-> {}, grounds |-> call.grounds, clauses |-> call.clauses,
                   sent_at |-> call.sent_at, notice |-> NoNotice, incident |-> call.incident, reported |-> call.reported]
      BY <1>1, <3>1, RestsNotice
    <3>3. Noticed'
      BY <1>1, <3>1, <3>2 DEF Noticed
    <3> QED
      BY <1>1, <1>2, <1>3, <3>1, <3>2, <3>3 DEF CallStages, CallFields
  <2> QED
    BY <2>1, <2>2
<1>12. CASE Overdue
  <2>1. call.stage = "sent" /\ now >= call.sent_at + SLA /\ UNCHANGED <<now, others, pseudonyms>> /\ call' = Rests("overdue")
    BY <1>12 DEF Overdue
  <2>2. call' = [stage |-> "overdue", step |-> "none", text |-> {}, names |-> Missing,
                 looked |-> 0, passed |-> {}, grounds |-> call.grounds, clauses |-> call.clauses,
                 sent_at |-> call.sent_at, notice |-> call.notice, incident |-> call.incident, reported |-> call.reported]
    BY <1>1, <2>1, RestsSets
  <2>3. call.notice.deadline = call.sent_at + SLA /\ call.sent_at >= 1
    BY <1>1, <2>1 DEF Noticed
  <2>4. call.notice # NoNotice /\ now >= call.notice.deadline
    BY <1>1, <1>2, <2>1, <2>3
  <2>5. Noticed'
    BY <1>1, <2>1, <2>2, <2>4 DEF Noticed
  <2>6. call.reported = "nothing"
    BY <1>1, <2>1 DEF CallTyped
  <2> QED
    BY <1>1, <1>3, <2>1, <2>2, <2>5, <2>6 DEF CallStages, CallFields
<1>13. CASE ReportFailed
  <2>1. call.stage = "sent" /\ UNCHANGED <<now, others, pseudonyms>> /\ call' = [Rests("returned") EXCEPT !.reported = "failed"]
    BY <1>13 DEF ReportFailed
  <2>2. call' = [stage |-> "returned", step |-> "none", text |-> {}, names |-> Missing,
                 looked |-> 0, passed |-> {}, grounds |-> call.grounds, clauses |-> call.clauses,
                 sent_at |-> call.sent_at, notice |-> call.notice, incident |-> call.incident, reported |-> "failed"]
    BY <1>1, <2>1, RestsReturned
  <2>3. Noticed'
    BY <1>1, <2>1, <2>2 DEF Noticed
  <2> QED
    BY <1>1, <1>3, <2>1, <2>2, <2>3 DEF CallStages, CallFields
<1>14. CASE Escalate
  <2> DEFINE what == IF delivery_failure THEN "undelivered" ELSE "missed"
             incident == [what |-> what, at |-> now]
  <2>1. /\ delivery_failure \/ call.stage = "overdue"
        /\ UNCHANGED <<now, others, pseudonyms>>
        /\ call' = [Rests("escalated") EXCEPT !.incident = incident]
    BY <1>14 DEF Escalate
  <2>2. incident.what = what /\ incident.at = now
    OBVIOUS
  <2> HIDE DEF incident
  <2>3. call' = [stage |-> "escalated", step |-> "none", text |-> {}, names |-> Missing,
                 looked |-> 0, passed |-> {}, grounds |-> call.grounds, clauses |-> call.clauses,
                 sent_at |-> call.sent_at, notice |-> call.notice, incident |-> incident, reported |-> call.reported]
    BY <1>1, <2>1, RestsIncident
  <2>4. CASE delivery_failure
    <3>1. call.stage = "failed" \/ call.stage = "returned"
      BY <2>4 DEF delivery_failure
    <3>2. incident.what = "undelivered" /\ (call.notice = NoNotice \/ call.reported = "failed")
      BY <1>1, <2>2, <2>4, <3>1 DEF Noticed
    <3>3. Noticed'
      BY <1>1, <2>3, <3>2 DEF Noticed
    <3> QED
      BY <1>1, <1>3, <2>1, <2>3, <3>3 DEF CallStages, CallFields
  <2>5. CASE ~delivery_failure
    <3>1. call.stage = "overdue" /\ incident.what = "missed"
      BY <2>1, <2>2, <2>5
    <3>2. call.notice # NoNotice /\ now >= call.notice.deadline /\ call.reported = "nothing"
      BY <1>1, <3>1 DEF Noticed, CallTyped
    <3>3. Noticed'
      BY <1>1, <2>2, <2>3, <3>1, <3>2 DEF Noticed
    <3> QED
      BY <1>1, <1>3, <2>1, <2>3, <3>3 DEF CallStages, CallFields
  <2> QED
    BY <2>4, <2>5
<1> QED
  BY <1>4, <1>5, <1>6, <1>7, <1>8, <1>9, <1>10, <1>11, <1>12, <1>13, <1>14 DEF NoticeNext

\* A chunk that is upserted is of its edition, and what stays is beyond it.
LEMMA UpsertSets ==
  ASSUME FileInv, NEW e \in 1..edition
  PROVE  /\ upsert(chunks, chunk_markdown(e)) \in Seq(Chunk)
         /\ \A i \in DOMAIN upsert(chunks, chunk_markdown(e)) :
              OnFile(upsert(chunks, chunk_markdown(e))[i].of, i, e)
<1> DEFINE new == chunk_markdown(e)
           n == Len(Editions[e].sections)
           rest == SubSeq(chunks, Len(new) + 1, Len(chunks))
<1>1. e \in DOMAIN Editions /\ e \in Nat /\ n \in Nat /\ DOMAIN Editions[e].sections = 1..n
  BY EditionsTyped DEF FileInv
<1>2. new \in [1..n -> Chunk] /\ \A i \in 1..n : new[i].of = e
  <2>1. \A i \in 1..n : Editions[e].sections[i] \in UNION {ToSet(Editions[f].sections) : f \in DOMAIN Editions}
    BY <1>1 DEF ToSet
  <2> QED
    BY <1>1, <2>1 DEF chunk_markdown, Chunk
<1> HIDE DEF new
<1>3. new \in Seq(Chunk) /\ Len(new) = n
  <2>1. new \in Seq(Chunk)
    BY <1>1, <1>2, SeqDef
  <2> QED
    BY <1>1, <1>2, <2>1, LenProperties
<1>4. rest \in Seq(Chunk)
  <2>1. chunks \in Seq(Chunk) /\ Len(chunks) \in Nat
    BY LenProperties DEF FileInv
  <2> QED
    BY <1>1, <1>3, <2>1, SubSeqProperties
<1>5. new \o rest \in Seq(Chunk) /\ Len(new \o rest) = n + Len(rest) /\ Len(rest) \in Nat
      /\ \A i \in 1..n : (new \o rest)[i] = new[i]
  <2>1. Len(rest) \in Nat
    BY <1>4, LenProperties
  <2> HIDE DEF rest
  <2>2. new \o rest \in Seq(Chunk) /\ Len(new \o rest) = Len(new) + Len(rest)
        /\ \A i \in 1..Len(new) + Len(rest) : (new \o rest)[i] = IF i <= Len(new) THEN new[i] ELSE rest[i - Len(new)]
    BY <1>3, <1>4, ConcatProperties
  <2> QED
    BY <1>1, <1>3, <2>1, <2>2
<1>6. ASSUME NEW i \in DOMAIN (new \o rest) PROVE OnFile((new \o rest)[i].of, i, e)
  <2>1. i \in 1..n + Len(rest)
    BY <1>5, LenProperties
  <2>2. CASE i <= n
    BY <1>1, <1>2, <1>5, <2>1, <2>2 DEF OnFile
  <2>3. CASE i > n
    BY <2>3 DEF OnFile
  <2> QED
    BY <1>1, <1>5, <2>1, <2>2, <2>3
<1> QED
  BY <1>5, <1>6 DEF upsert, new

\* The CSA changes, names are added, time passes: the run keeps what it has.
LEMMA AroundStepKeeps ==
  ASSUME NoticeInv, TimePasses \/ (\E n \in Names : AddName(n)) \/ CsaNext
  PROVE  NoticeInv'
<1>1. CASE TimePasses
  <2>1. UNCHANGED <<others, pseudonyms, call>> /\ now' = now + 1 /\ now < MaxTime
    BY <1>1 DEF TimePasses
  <2>2. FileInv'
    BY <2>1 DEF NoticeInv, FileInv, others
  <2>3. PairsInv'
    BY <2>1, NoticesAssumption DEF NoticeInv, PairsInv, others, Covers, NameRec
  <2>4. CallTyped'
    BY <2>1, NoticesAssumption DEF NoticeInv, PairsInv, CallTyped, CallFields, others, Covers, NameRec
  <2>5. Masked' /\ GroundedOnFile'
    BY <2>1 DEF NoticeInv, Masked, GroundedOnFile, others
  <2>6. call.notice.deadline \in Int /\ now \in Int
    BY DEF NoticeInv, CallTyped, Notice, PairsInv
  <2>7. Noticed'
    BY <2>1, <2>6 DEF NoticeInv, Noticed, Whole, others
  <2> QED
    BY <2>2, <2>3, <2>4, <2>5, <2>7 DEF NoticeInv
<1>2. ASSUME NEW n \in Names, AddName(n) PROVE NoticeInv'
  <2>1. /\ added[n] = Never /\ added' = [added EXCEPT ![n] = now] /\ added \in [Names -> Nat] /\ now \in Nat
        /\ UNCHANGED <<now, edition, ingesting, chunks, ingested, pseudonyms, mode, call>>
    BY <1>2, NoticesAssumption DEF AddName, NoticeInv, PairsInv
  <2>3. PairsInv'
    <3>1. pseudonyms.read <= now
      BY NoticesAssumption DEF NoticeInv, PairsInv, NameRec
    <3>2. Covers(pseudonyms)'
      BY <2>1, <3>1 DEF Covers, NoticeInv, PairsInv
    <3> QED
      BY <2>1, <3>2 DEF NoticeInv, PairsInv
  <2>4. CallTyped'
    <3>1. Covers(call.names)'
      BY <2>1 DEF NoticeInv, CallTyped, Covers
    <3> QED
      BY <2>1, <3>1 DEF NoticeInv, CallTyped, CallFields
  <2>5. FileInv' /\ Masked' /\ Noticed' /\ GroundedOnFile'
    BY <2>1 DEF NoticeInv, FileInv, Masked, Noticed, Whole, GroundedOnFile
  <2> QED
    BY <2>3, <2>4, <2>5 DEF NoticeInv
<1>3. CASE CsaNext
  <2>1. UNCHANGED <<now, added, pseudonyms, mode, call>>
    BY <1>3 DEF CsaNext, EditCsa, ReadCorpus, Upsert, FailIngestion
  <2>2. PairsInv' /\ CallTyped' /\ Masked' /\ Noticed' /\ GroundedOnFile'
    BY <2>1 DEF NoticeInv, PairsInv, CallTyped, CallFields, Masked, Noticed, Whole, GroundedOnFile, Covers
  <2>3. FileInv /\ edition \in 1..Len(Editions) /\ DOMAIN Editions = 1..Len(Editions) /\ Len(Editions) \in Nat
    BY EditionsTyped DEF NoticeInv, FileInv
  <2>4. ASSUME EditCsa PROVE FileInv'
    <3>1. edition' = edition + 1 /\ edition' \in DOMAIN Editions /\ UNCHANGED <<ingesting, chunks, ingested>>
      BY <2>3, <2>4 DEF EditCsa
    <3>2. 0..edition \subseteq 0..edition'
      BY <2>3, <3>1
    <3>3. ingesting \in [Runs -> 0..edition'] /\ ingested \in 0..edition'
      BY <2>3, <3>2 DEF FileInv
    <3> QED
      BY <2>3, <3>1, <3>3 DEF FileInv
  <2>5. ASSUME \E r \in Runs : ReadCorpus(r) \/ FailIngestion(r) PROVE FileInv'
    <3>1. PICK r \in Runs, e \in 0..edition : ingesting' = [ingesting EXCEPT ![r] = e]
      BY <2>3, <2>5 DEF ReadCorpus, FailIngestion
    <3>2. UNCHANGED <<edition, chunks, ingested>>
      BY <2>5 DEF ReadCorpus, FailIngestion
    <3> QED
      BY <2>3, <3>1, <3>2 DEF FileInv
  <2>6. ASSUME \E r \in Runs : Upsert(r) PROVE FileInv'
    <3>1. PICK r \in Runs : Upsert(r)
      BY <2>6
    <3>2. ingesting[r] \in 1..edition
      BY <2>3, <3>1 DEF Upsert, FileInv
    <3>3. /\ ingested' = ingesting[r] /\ chunks' = upsert(chunks, chunk_markdown(ingesting[r]))
          /\ ingesting' = [ingesting EXCEPT ![r] = 0] /\ edition' = edition
      BY <3>1 DEF Upsert
    <3>4. chunks' \in Seq(Chunk) /\ \A i \in DOMAIN chunks' : OnFile(chunks'[i].of, i, ingested')
      BY <2>3, <3>2, <3>3, UpsertSets
    <3>5. ingesting' \in [Runs -> 0..edition] /\ ingested' \in 0..edition
      BY <2>3, <3>2, <3>3 DEF FileInv
    <3> QED
      BY <2>3, <3>3, <3>4, <3>5 DEF FileInv, OnFile
  <2>7. FileInv'
    BY <1>3, <2>4, <2>5, <2>6 DEF CsaNext
  <2> QED
    BY <2>2, <2>7 DEF NoticeInv
<1> QED
  BY <1>1, <1>2, <1>3

NoticesSpec == NoticesInit /\ [][NoticesNext]_noticeVars

\* The invariant: pairs mask all names that were there when they were read,
\* each step of a prompt has done its part, and a stage of a notice has the
\* deadline and the placeholders of its channel.
THEOREM NoticesInductive == NoticesSpec => []NoticeInv
<1>1. NoticesInit => NoticeInv
  <2> SUFFICES ASSUME NoticesInit PROVE NoticeInv
    OBVIOUS
  <2>1. /\ now = 1 /\ edition = 1 /\ ingesting = [r \in Runs |-> 0] /\ chunks = <<>> /\ ingested = 0
        /\ added = [n \in Names |-> IF n \in KnownNames THEN 0 ELSE Never]
        /\ pseudonyms = Missing /\ mode \in Channels /\ call = NoCall
    BY DEF NoticesInit
  <2>2. FileInv
    BY <2>1, EditionsTyped, EmptySeq DEF FileInv
  <2>3. added \in [Names -> Nat]
    BY <2>1, NoticesAssumption DEF Never
  <2>4. Covers(Missing)
    BY <2>3 DEF Covers, Missing
  <2>5. PairsInv
    BY <2>1, <2>3, <2>4, NothingYet, NoticesAssumption DEF PairsInv, Missing
  <2>6. CallTyped
    BY <2>1, <2>4, NothingYet DEF CallTyped, CallFields, CallStages, NoCall, Missing
  <2>7. Masked /\ Noticed /\ GroundedOnFile
    BY <2>1 DEF Masked, Noticed, GroundedOnFile, NoCall
  <2> QED
    BY <2>2, <2>5, <2>6, <2>7 DEF NoticeInv
<1>2. NoticeInv /\ [NoticesNext]_noticeVars => NoticeInv'
  <2> SUFFICES ASSUME NoticeInv, [NoticesNext]_noticeVars PROVE NoticeInv'
    OBVIOUS
  <2>1. CASE TimePasses \/ (\E n \in Names : AddName(n)) \/ CsaNext
    BY <2>1, AroundStepKeeps
  <2>2. CASE PromptNext
    BY <2>2, PromptStep
  <2>3. CASE NoticeNext
    BY <2>3, NoticeStep
  <2>4. CASE UNCHANGED noticeVars
    BY <2>4 DEF noticeVars, NoticeInv, FileInv, PairsInv, CallTyped, CallFields, Masked, Noticed, Whole,
                GroundedOnFile, Covers
  <2> QED
    BY <2>1, <2>2, <2>3, <2>4 DEF NoticesNext
<1> QED
  BY <1>1, <1>2, PTL DEF NoticesSpec

\* Nothing reaches a model that masking and screening should have held back:
\* no account data, no denied value, nothing a guardrail finds, and no name
\* that was on file when pairs younger than their TTL were read.
THEOREM ToldScreened == NoticesSpec => []ToldIsScreened
<1>1. NoticeInv => ToldIsScreened
  <2> SUFFICES ASSUME NoticeInv PROVE ToldIsScreened
    OBVIOUS
  <2>1. NoticesTypeOK
    BY NoticesAssumption, SMTT(30) DEF NoticeInv, FileInv, PairsInv, CallTyped, NoticesTypeOK, NameRec
  <2>2. OnlyScreenedIsTold
    BY DEF NoticeInv, Masked, OnlyScreenedIsTold
  <2>3. NamesAreMasked
    BY DEF NoticeInv, Masked, CallTyped, Covers, NamesAreMasked
  <2> QED
    BY <2>1, <2>2, <2>3 DEF ToldIsScreened
<1> QED
  BY <1>1, NoticesInductive, PTL

\* A notice that left is whole and its deadline the one enforced, an incident
\* says what happened, and terms and clauses are of the newest edition on file
\* wherever that edition reaches.
THEOREM NoticeTrue == NoticesSpec => []NoticeIsTrue
<1>1. NoticeInv => NoticeIsTrue
  BY DEF NoticeInv, Noticed, Whole, NoticeIsTrue, SentIsWhole, DeadlineIsEnforced
<1> QED
  BY <1>1, NoticesInductive, PTL
=============================================================================
