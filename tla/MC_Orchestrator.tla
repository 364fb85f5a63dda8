-------------------------- MODULE MC_Orchestrator --------------------------
(* Small instances of Orchestrator. *)
EXTENDS OrchestratorCall

CONSTANTS alice, bob, carol, a70, a100

MC_Users == {alice, bob, carol}
MC_Amounts == {a70, a100}

Req(op, by, decision, amount, id) ==
  [op |-> op, by |-> by, decision |-> decision, amount |-> amount, id |-> id]
Unsigned(op, id) == Req(op, NoUser, "none", NoCall, id)

Start == Unsigned("start", 1)
Reevaluate == Unsigned("reevaluate", 1)
Timer == Unsigned("timer", 1)
Check == Unsigned("check", 1)
Respond == Unsigned("respond", 1)
DeliveryFailed == Unsigned("delivery_failed", 1)
AliceApproves == Req("approve", alice, "approved", NoCall, 1)
BobAdjusts == Req("approve", bob, "adjusted", a70, 1)
BobSigns == Req("manager", bob, "approved", NoCall, 1)
AliceSigns == Req("manager", alice, "approved", NoCall, 1)
CarolOverturns == Req("manager", carol, "rejected", NoCall, 1)

\* Requests that race for one elite call.
MC_Overlap == {Start, AliceApproves, BobSigns, Reevaluate, Timer, Respond}
\* What can reach one elite call, one request at a time: signatures by the
\* right and by the wrong person, an adjusted figure, a dispute,
\* an early check, the timer, a failed delivery and an answer.
MC_Serial == {Start, AliceApproves, BobAdjusts, AliceSigns, CarolOverturns,
              Reevaluate, Timer, Check, Respond, DeliveryFailed}

\* The smallest set for the disagreement.
AliceAgain == Req("approve", alice, "approved", NoCall, 2)
MC_DoubleClick == {Start, AliceApproves, AliceAgain}
=============================================================================
