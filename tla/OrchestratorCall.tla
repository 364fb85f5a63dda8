-------------------------- MODULE OrchestratorCall --------------------------
(***************************************************************************)
(* Orchestrator as an implementation of MarginCall: the call is what the   *)
(* thread's head checkpoint says, except that the client is told when the  *)
(* notice goes out and the call is escalated when the incident is opened,  *)
(* whether or not the node's checkpoint follows.                           *)
(***************************************************************************)
EXTENDS Orchestrator

\* The channels of the head, before and after the first evaluation.
Now == IF head = NoRun THEN [amount |-> Unset] ELSE head.ch

FullySigned == Now.decision \in {"approved", "adjusted"} /\ (Elite => Now.manager_decision = "approved")

CallStage ==
  IF Now.amount # Unset /\ Now.confirmed THEN "met"
  ELSE IF incidents # <<>> THEN "escalated"
  ELSE IF Now.amount = Unset THEN "none"
  ELSE IF Now.sla # "none" THEN Now.sla
  ELSE IF notices # <<>> THEN "told"
  ELSE IF Now.amount = NoCall \/ Now.below_mta \/ Now.decision \in {"rejected", "disputed"}
       THEN "closed"
  ELSE IF FullySigned THEN "signed"
  ELSE IF Now.decision # "none" THEN "countersigning"
  ELSE "raised"

IsCall == CallStage \notin {"none", "closed"}
CallFigure == IF IsCall THEN Effective(Now) ELSE NoCall
CallSigners == IF IsCall THEN {Now.first, Now.manager} \ {NoUser} ELSE {}
CallTold == [i \in DOMAIN notices |-> notices[i].at]
CallBounced == Now.amount # Unset /\ Now.failure

Call == INSTANCE MarginCall WITH
  People <- Users,
  stage <- CallStage,
  figure <- CallFigure,
  signers <- CallSigners,
  told <- CallTold,
  bounced <- CallBounced,
  incidents <- Len(incidents)

\* One request at a time, whatever fails, every step of the graph, of the
\* endpoints and of the policy is a step of the call or changes nothing of it:
\* the life cycle open_call_stage and _lifecycle_status report is the only one.
ImplementsMarginCall == Call!Spec
=============================================================================
