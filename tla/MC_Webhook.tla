----------------------------- MODULE MC_Webhook -----------------------------
(***************************************************************************)
(* Two parts of Webhook, explored one at a time: what Meta reports about   *)
(* one notice, to two workers, with faults; and the taps on the notices of *)
(* two overlapping sends, while the contact is edited.                     *)
(***************************************************************************)
EXTENDS Webhook, TLC

CONSTANTS w1, w2, a1, ann, bob

MC_Workers == {w1, w2}
MC_OneAdmin == {a1}
MC_Phones == {ann, bob}
MC_Symmetry == Permutations(MC_Workers)

MC_Failed(s) ==
  [type |-> "failed", notice |-> s, from |-> ann, carries |-> TRUE, quotes |-> TRUE]
MC_Delivered ==
  [type |-> "delivered", notice |-> 1, from |-> ann, carries |-> TRUE, quotes |-> TRUE]
\* A tap as Meta delivered it on 2026-10-05: no payload, quoting the notice.
MC_BareTap(p) ==
  [type |-> "tap", notice |-> 1, from |-> p, carries |-> FALSE, quotes |-> TRUE]
MC_Tap(p, s) ==
  [type |-> "tap", notice |-> s, from |-> p, carries |-> TRUE, quotes |-> TRUE]

MC_Reports == {<<MC_Failed(1), MC_BareTap(ann)>>, <<MC_Delivered, MC_Tap(bob, 1)>>}
MC_Taps == {<<MC_BareTap(ann)>>, <<MC_Tap(bob, 2)>>}

MC_Items == {MC_Failed(1), MC_Delivered, MC_BareTap(ann), MC_Tap(bob, 1), MC_Tap(bob, 2)}
MC_Payloads == MC_Reports \cup MC_Taps

VARIABLE part

DeliveryPart ==
  /\ edits = 0 /\ send[2].pc = "idle"
  /\ \A p \in MC_Taps : meta[p] = "new"
ContactsPart ==
  /\ faults + crashes + timeouts = 0
  /\ Cardinality({w \in Workers : ~At(w, "idle")}) <= 1
  /\ \A p \in MC_Reports : meta[p] = "new"

MCInit == Init /\ part \in {"delivery", "contacts"}
MCNext ==
  /\ Next /\ UNCHANGED part
  /\ part = "delivery" => DeliveryPart'
  /\ part = "contacts" => ContactsPart'
MCSpec == MCInit /\ [][MCNext]_<<vars, part>>
=============================================================================
