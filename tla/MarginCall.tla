----------------------------- MODULE MarginCall -----------------------------
(***************************************************************************)
(* What one margin call promises to those who see it: its figure may be    *)
(* revised until a person signs it, and not after; an elite client's needs *)
(* a second person; the client is told the signed figure, once; and then   *)
(* the call is met, or breached and escalated, once, a breach being a      *)
(* deadline that passed or a notice that did not arrive.  No graph, no     *)
(* checkpoints and no requests: Orchestrator implements it.                *)
(***************************************************************************)
EXTENDS Naturals, Sequences

CONSTANTS Amounts, NoCall, People, Elite

VARIABLES
  stage,
  figure,      \* what the call is for, while there is a call
  signers,     \* who signed that figure
  told,        \* when the client was told: once at most
  bounced,     \* the client could not be reached
  incidents,   \* how many were opened: one at most
  clock

callVars == <<stage, figure, signers, told, bounced, incidents, clock>>

Init ==
  /\ stage = "none" /\ figure = NoCall /\ signers = {}
  /\ told = <<>> /\ bounced = FALSE /\ incidents = 0 /\ clock = 1

\* An evaluation, the first one or a later one of a call nobody has signed.
Evaluate(amount) ==
  /\ stage \in {"none", "raised"}
  /\ stage' = "raised" /\ figure' = amount
  /\ UNCHANGED <<signers, told, bounced, incidents, clock>>

Sign(person, amount) ==
  /\ stage = "raised"
  /\ stage' = IF Elite THEN "countersigning" ELSE "signed"
  /\ figure' = amount /\ signers' = {person}
  /\ UNCHANGED <<told, bounced, incidents, clock>>

Countersign(person) ==
  /\ stage = "countersigning" /\ person \notin signers
  /\ stage' = "signed" /\ signers' = signers \cup {person}
  /\ UNCHANGED <<figure, told, bounced, incidents, clock>>

\* No breach, a rejection, or a manager's dispute.
Close ==
  /\ stage \in {"none", "raised", "countersigning"}
  /\ stage' = "closed" /\ figure' = NoCall /\ signers' = {}
  /\ UNCHANGED <<told, bounced, incidents, clock>>

Notify ==
  /\ stage = "signed"
  /\ stage' = "told" /\ told' = Append(told, clock)
  /\ UNCHANGED <<figure, signers, bounced, incidents, clock>>

Meet ==
  /\ stage = "told"
  /\ stage' = "met"
  /\ UNCHANGED <<figure, signers, told, bounced, incidents, clock>>

Lapse ==
  /\ stage = "told" /\ clock > told[1]
  /\ stage' = "breached"
  /\ UNCHANGED <<figure, signers, told, bounced, incidents, clock>>

\* The notice could not be sent, or was reported as not delivered.
Bounce ==
  /\ stage \in {"signed", "told"}
  /\ stage' = "breached" /\ bounced' = TRUE
  /\ UNCHANGED <<figure, signers, told, incidents, clock>>

Escalate ==
  /\ stage = "breached"
  /\ stage' = "escalated" /\ incidents' = incidents + 1
  /\ UNCHANGED <<figure, signers, told, bounced, clock>>

Tick == clock' = clock + 1 /\ UNCHANGED <<stage, figure, signers, told, bounced, incidents>>

Next ==
  \/ \E amount \in Amounts : Evaluate(amount)
  \/ \E person \in People, amount \in Amounts : Sign(person, amount)
  \/ \E person \in People : Countersign(person)
  \/ Close \/ Notify \/ Meet \/ Lapse \/ Bounce \/ Escalate \/ Tick

Spec == Init /\ [][Next]_callVars
=============================================================================
