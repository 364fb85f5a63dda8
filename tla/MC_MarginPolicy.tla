-------------------------- MODULE MC_MarginPolicy --------------------------
(***************************************************************************)
(* Parts of MarginPolicy, explored one at a time: a trigger of two         *)
(* counterparties against one of the first of them, redelivered, with an   *)
(* exception and a lost instance; three triggers of one counterparty,      *)
(* delivered again and again, when nothing fails; and the same three with  *)
(* a lost instance.                                                        *)
(***************************************************************************)
EXTENDS MarginPolicy, TLC

CONSTANTS w1, w2, cp1, cp2

MC_TwoWorkers == {w1, w2}
MC_Symmetry == Permutations(MC_TwoWorkers)
MC_Simulated == {4}
MC_Daily == {1, 3}
MC_Lists == [e \in 1..4 |-> IF e = 1 THEN <<cp1, cp2>> ELSE <<cp1>>]
MC_Quiet == {"faults", "triggers"}
MC_Crash == {"crash"}

CONSTANT Parts

VARIABLE part

Untouched(e) == messages[e].state = "new"
FaultsPart ==
  /\ \A e \in 3..4 : Untouched(e)
  /\ \A e \in 1..2 :
       /\ messages[e].attempts <= 2
       /\ Cardinality({w \in Workers : work[w].pc # "idle" /\ work[w].event = e}) <= 1
\* Redelivered until it is acknowledged, and given up at its second attempt.
NotAgain == \A e \in 1..2 :
  messages[e].state \in {"acked", "dead"} => messages'[e] = messages[e]
TriggersPart ==
  /\ failures = 0 /\ (part = "triggers" => crashes = 0)
  /\ Untouched(1)

MCInit == Init /\ part \in Parts
MCNext ==
  /\ Next /\ UNCHANGED part
  /\ part = "faults" => FaultsPart' /\ NotAgain
  /\ part # "faults" => TriggersPart'
MCSpec == MCInit /\ [][MCNext]_<<vars, part>>
=============================================================================
