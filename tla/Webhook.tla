------------------------------- MODULE Webhook -------------------------------
(***************************************************************************)
(* The WhatsApp webhook (api/whatsapp_webhook.py) against the send of the  *)
(* notices it reports on (agents/orchestrator.py, send_notification) and   *)
(* the contacts they go to (persistence/contacts.py), for one call.        *)
(*                                                                         *)
(* A send reads the contact, posts to Meta, writes its audit row, and only *)
(* then becomes the call's current notice and a pending SLA gate.  Meta    *)
(* delivers payloads, sequences of items, until it gets a 200.  A worker   *)
(* claims each item, looks at the run, judges the item and may resume the  *)
(* run.  An administrator edits the contact meanwhile.                     *)
(***************************************************************************)
EXTENDS Integers, Sequences, FiniteSets, SequencesExt

CONSTANTS
  Workers, Admins,
  Phones,          \* numbers of people
  DefaultPhone,    \* WHATSAPP_RECIPIENT
  NumSends,        \* sends of the call's notice: overlapping approvals send two
  Items,           \* what Meta has to report, see Item
  Payloads,        \* the sequences of items it posts
  Times,           \* what the clock may read, in seconds
  MaxEdits, MaxFaults, MaxCrashes, MaxTimeouts

Sends == 1..NumSends
NoNotice == 0

\* A status (delivered, failed) or a message (a tap on Acknowledge, a text)
\* about a notice.  carries: it has our callback data or button payload;
\* quotes: it names the notice it answers, which a status always does.
Item ==
  [type: {"delivered", "failed", "tap", "text"}, notice: Sends,
   from: Phones, carries: BOOLEAN, quotes: BOOLEAN]

ASSUME SendsAssumption == NumSends \in Nat
ASSUME ItemsAssumption == Items \subseteq Item /\ IsFiniteSet(Items)
ASSUME PayloadsAssumption == IsFiniteSet(Payloads) /\ \A p \in Payloads : p \in Seq(Items)
ASSUME PhonesAssumption == DefaultPhone \in Phones
ASSUME TimesAssumption == Times \subseteq Nat

VARIABLES
  contact,   \* the counterparty's row, or NoContact
  editing,   \* per administrator: the edit between its read and its commit
  rows,      \* history: every <<id, version, phone>> that was committed
  send,      \* per send: how far it is and whom it goes to
  head,      \* of the run's channels: current notice, gate pending, outcome
  claims,    \* rows wa-status:... and wa-msg:...
  work,      \* per worker: the payload it handles
  meta,      \* per payload: Meta's view of its delivery
  log,       \* history, per item
  met,       \* history: <<tap, notice it was judged against>>
  edits, faults, crashes, timeouts

db == <<contact, editing, rows, edits>>
run == <<send, head, met>>
bounds == <<faults, crashes, timeouts>>
vars == <<contact, editing, rows, send, head, claims, work, meta, log, met,
          edits, faults, crashes, timeouts>>

NoContact == [id |-> 0]
Contact == [id: Nat \ {0}, version: Nat, phone: Phones, active: BOOLEAN]
NoEdit == [row |-> NoContact]
Recipient == [contact: Nat, version: Nat, phone: Phones]   \* contact = 0: the default
Snapshot == [notice: Sends \cup {NoNotice}, waiting: BOOLEAN, outcome: {"none", "met", "breached"}]
Idle == [pc |-> "idle"]
Handling == {"look", "judge", "resume", "running", "audit"}
Work ==
  [pc: Handling \cup {"claim"}, payload: Payloads, i: Nat \ {0},
   late: BOOLEAN,       \* Meta has given up waiting for this response
   saw: Snapshot,       \* _values
   early: BOOLEAN,      \* history: it was before the gate of the item's notice
   loaded: Sends \cup {NoNotice}]   \* the notice of the checkpoint being resumed

TypeOK ==
  /\ contact \in Contact \cup {NoContact}
  /\ \A a \in Admins : editing[a] = Idle \/ editing[a].row \in Contact \cup {NoContact}
  /\ send \in [Sends -> [pc: {"idle", "addressed", "sent", "refused", "audited", "saved", "over"},
                         to: Recipient, out: BOOLEAN, audited: BOOLEAN]]
  /\ head \in Snapshot /\ (head.waiting => head.notice \in Sends /\ head.outcome = "none")
  /\ claims \subseteq Items
  /\ work \in [Workers -> Work \cup {Idle}]
  /\ meta \in [Payloads -> {"new", "pending", "acked"}]
  /\ log \in [Items -> [last: {"none", "early", "ignored", "applied"}, applied: Nat]]
  /\ met \subseteq (Items \X (Sends \cup {NoNotice}))

Init ==
  /\ \E p \in Phones : contact = [id |-> 1, version |-> 0, phone |-> p, active |-> TRUE]
  /\ rows = {<<contact.id, contact.version, contact.phone>>}
  /\ editing = [a \in Admins |-> Idle]
  /\ send = [s \in Sends |->
       [pc |-> "idle", out |-> FALSE, audited |-> FALSE,
        to |-> [contact |-> 0, version |-> 0, phone |-> DefaultPhone]]]
  /\ head = [notice |-> NoNotice, waiting |-> FALSE, outcome |-> "none"]
  /\ claims = {}
  /\ work = [w \in Workers |-> Idle]
  /\ meta = [p \in Payloads |-> "new"]
  /\ log = [i \in Items |-> [last |-> "none", applied |-> 0]]
  /\ met = {}
  /\ edits = 0 /\ faults = 0 /\ crashes = 0 /\ timeouts = 0

-----------------------------------------------------------------------------
(* Contacts. *)

\* _next_update_time: later than the row's version, whatever the clock says.
NextUpdateTime(row, now) ==
  IF row # NoContact /\ now <= row.version THEN row.version + 1 ELSE now

\* set_contact reads the row and computes the new version ...
ReadContact(a) ==
  /\ editing[a] = Idle /\ edits < MaxEdits
  /\ edits' = edits + 1
  /\ \E phone \in Phones, active \in BOOLEAN, now \in Times :
       editing' = [editing EXCEPT ![a] =
         [row |-> contact, phone |-> phone, active |-> active,
          version |-> NextUpdateTime(contact, now)]]
  /\ UNCHANGED <<contact, rows, run, claims, work, meta, log, bounds>>

\* The columns an edit changed, written over the row as it is by then.
Written(e, row) ==
  [row EXCEPT !.phone = IF e.phone = e.row.phone THEN @ ELSE e.phone,
              !.active = IF e.active = e.row.active THEN @ ELSE e.active,
              !.version = e.version]

\* ... and commits.  An insert fails if there is a row by now, an update if
\* the one it read is gone.
CommitContact(a) ==
  /\ editing[a] # Idle
  /\ LET e == editing[a]
         id == 1 + Cardinality({r[1] : r \in rows})
     IN \/ /\ e.row = NoContact /\ contact = NoContact
           /\ contact' = [id |-> id, version |-> e.version, phone |-> e.phone, active |-> e.active]
        \/ /\ e.row # NoContact /\ contact.id = e.row.id
           /\ contact' = Written(e, contact)
        \/ /\ contact.id # e.row.id
           /\ UNCHANGED contact
  /\ rows' = rows \cup (IF contact' = NoContact THEN {}
                        ELSE {<<contact'.id, contact'.version, contact'.phone>>})
  /\ editing' = [editing EXCEPT ![a] = Idle]
  /\ UNCHANGED <<edits, run, claims, work, meta, log, bounds>>

RemoveContact(a) ==
  /\ editing[a] = Idle /\ edits < MaxEdits /\ contact # NoContact
  /\ edits' = edits + 1
  /\ contact' = NoContact
  /\ UNCHANGED <<editing, rows, run, claims, work, meta, log, bounds>>

\* active_contact, or the default.
ActiveContact ==
  IF contact # NoContact /\ contact.active
  THEN [contact |-> contact.id, version |-> contact.version, phone |-> contact.phone]
  ELSE [contact |-> 0, version |-> 0, phone |-> DefaultPhone]

-----------------------------------------------------------------------------
(* _send_notification_node, and the gate after it. *)

Sending(s, from, to) == send[s].pc = from /\ send' = [send EXCEPT ![s].pc = to]
Other == <<claims, work, meta, log, met, bounds>>

Address(s) ==
  /\ send[s].pc = "idle"
  /\ send' = [send EXCEPT ![s].pc = "addressed", ![s].to = ActiveContact]
  /\ UNCHANGED <<head, db, Other>>

\* Meta takes the notice or refuses it.
Send(s) ==
  /\ send[s].pc = "addressed"
  /\ \/ send' = [send EXCEPT ![s].pc = "sent", ![s].out = TRUE]
     \/ send' = [send EXCEPT ![s].pc = "refused"]
  /\ UNCHANGED <<head, db, Other>>

\* The audit row that thread_for_message looks for, in its own transaction.
AuditSend(s) ==
  /\ send[s].pc = "sent"
  /\ send' = [send EXCEPT ![s].pc = "audited", ![s].audited = TRUE]
  /\ UNCHANGED <<head, db, Other>>

\* The node's checkpoint.  A refused notice has no gate: the run escalates.
SaveNotice(s) ==
  /\ \/ /\ Sending(s, "audited", "saved")
        /\ head' = [notice |-> s, waiting |-> FALSE, outcome |-> "none"]
     \/ /\ Sending(s, "refused", "over")
        /\ head' = [notice |-> NoNotice, waiting |-> FALSE, outcome |-> "breached"]
  /\ UNCHANGED <<db, Other>>

\* await_sla_response's interrupt, recorded on the checkpoint it began from.
AwaitSla(s) ==
  /\ Sending(s, "saved", "over")
  /\ head' = IF head = [notice |-> s, waiting |-> FALSE, outcome |-> "none"]
             THEN [head EXCEPT !.waiting = TRUE] ELSE head
  /\ UNCHANGED <<db, Other>>

LoseSend(s) ==
  /\ crashes < MaxCrashes
  /\ crashes' = crashes + 1
  /\ send[s].pc \notin {"idle", "over"}
  /\ send' = [send EXCEPT ![s].pc = "over"]
  /\ UNCHANGED <<head, db, claims, work, meta, log, met, faults, timeouts>>

\* The deadline passes and the timer resumes the run.
SlaLapses ==
  /\ head.waiting
  /\ head' = [head EXCEPT !.waiting = FALSE, !.outcome = "breached"]
  /\ UNCHANGED <<send, db, Other>>

-----------------------------------------------------------------------------
(* The webhook. *)

At(w, pc) == work[w].pc = pc
ItemOf(w) == work[w].payload[work[w].i]
Goto(w, pc) == work' = [work EXCEPT ![w].pc = pc]
NextItem(w) == work' = [work EXCEPT ![w].pc = "claim", ![w].i = @ + 1]
Logged(i, outcome) == log' = [log EXCEPT ![i].last = outcome]

\* Meta posts what has happened, and again after an error or when the answer
\* does not come in time; it then no longer listens for that one.
Deliver(w, p) ==
  LET others == {v \in Workers : ~At(v, "idle") /\ work[v].payload = p}
  IN /\ At(w, "idle") /\ meta[p] # "acked"
     /\ \A i \in 1..Len(p) : send[p[i].notice].out
     /\ IF others = {} THEN UNCHANGED timeouts
        ELSE timeouts < MaxTimeouts /\ timeouts' = timeouts + 1
     /\ meta' = [meta EXCEPT ![p] = "pending"]
     /\ work' = [v \in Workers |->
          IF v = w
          THEN [pc |-> "claim", payload |-> p, i |-> 1, late |-> FALSE, saw |-> head,
                early |-> FALSE, loaded |-> NoNotice]
          ELSE IF v \in others THEN [work[v] EXCEPT !.late = TRUE] ELSE work[v]]
     /\ UNCHANGED <<db, run, claims, log, faults, crashes>>

\* A 200, if Meta still listens for it, ends the delivery.
Answer(w, ok) ==
  /\ work' = [work EXCEPT ![w] = Idle]
  /\ meta' = [meta EXCEPT ![work[w].payload] = IF ok /\ ~work[w].late THEN "acked" ELSE @]

\* Redeliveries are handled like first ones.
Claim_Unchecked(w) ==
  /\ At(w, "claim")
  /\ IF work[w].i > Len(work[w].payload) THEN Answer(w, TRUE) /\ UNCHANGED claims
     ELSE Goto(w, "look") /\ claims' = claims \cup {ItemOf(w)} /\ UNCHANGED meta
  /\ UNCHANGED <<db, run, log, bounds>>

(* _once: claim_once for the payload's next item, or its end. *)
Claim(w) ==
  /\ At(w, "claim")
  /\ IF work[w].i > Len(work[w].payload) THEN Answer(w, TRUE) /\ UNCHANGED claims
     ELSE /\ IF ItemOf(w) \in claims THEN NextItem(w) /\ UNCHANGED claims
             ELSE Goto(w, "look") /\ claims' = claims \cup {ItemOf(w)}
          /\ UNCHANGED meta
  /\ UNCHANGED <<db, run, log, bounds>>

\* Before the tap of 2026-10-05: only the payload named the call.
ThreadKnown_PayloadOnly(i) == i.carries

\* The item names its call, or the audit trail knows the notice it is about.
ThreadKnown(i) ==
  i.carries \/ ((i.quotes \/ i.type = "failed") /\ send[i.notice].audited)

\* The send the item is about has not come to its gate.
Early(i) == send[i.notice].pc # "over"

(* _values, for a failed status or a tap whose call is known.  Any other   *)
(* item is recorded and flagged to a person.                               *)
Look(w) ==
  /\ At(w, "look")
  /\ LET i == ItemOf(w)
     IN IF i.type \in {"failed", "tap"} /\ ThreadKnown(i)
        THEN /\ work' = [work EXCEPT ![w].pc = "judge", ![w].saw = head,
                                    ![w].early = Early(i)]
             /\ UNCHANGED log
        ELSE NextItem(w) /\ Logged(i, IF Early(i) THEN "early" ELSE "ignored")
  /\ UNCHANGED <<db, run, claims, meta, bounds>>

\* The contact's number as it is now.
NoticeRecipient_Current(s) ==
  IF s = NoNotice \/ send[s].to.contact = 0 THEN {DefaultPhone}
  ELSE IF contact # NoContact /\ contact.active THEN {contact.phone} ELSE {}

(* _notice_recipient: the number notice s went to; none if the contact was *)
(* changed since.                                                          *)
NoticeRecipient(s) ==
  IF s = NoNotice \/ send[s].to.contact = 0 THEN {DefaultPhone}
  ELSE IF /\ contact # NoContact /\ contact.active
          /\ contact.id = send[s].to.contact /\ contact.version = send[s].to.version
       THEN {contact.phone} ELSE {}

\* The checks of _handle_status and _handle_ack, on the snapshot of Look and
\* the contact of now.
Counts(i, saw) ==
  /\ saw.waiting
  /\ CASE i.type = "failed" -> i.notice = saw.notice
       [] i.type = "tap" ->
            /\ i.from \in NoticeRecipient(saw.notice)
            /\ i.quotes => i.notice = saw.notice

Judge(w) ==
  /\ At(w, "judge")
  /\ LET i == ItemOf(w)
     IN IF Counts(i, work[w].saw) THEN Goto(w, "resume") /\ UNCHANGED log
        ELSE NextItem(w) /\ Logged(i, IF work[w].early THEN "early" ELSE "ignored")
  /\ UNCHANGED <<db, run, claims, meta, bounds>>

\* resume_run loads the head; a run that is over stays as it is.
Resume(w) ==
  /\ At(w, "resume")
  /\ IF head.outcome = "none"
     THEN /\ work' = [work EXCEPT ![w].pc = "running", ![w].loaded = head.notice]
          /\ UNCHANGED log
     ELSE Goto(w, "audit") /\ Logged(ItemOf(w), "ignored")
  /\ UNCHANGED <<db, run, claims, meta, bounds>>

\* await_sla_response takes the answer and its checkpoint is saved.
SlaAnswered(w) ==
  /\ At(w, "running")
  /\ LET i == ItemOf(w)
     IN /\ head' = [notice |-> work[w].loaded, waiting |-> FALSE,
                    outcome |-> IF i.type = "tap" THEN "met" ELSE "breached"]
        /\ met' = IF i.type = "tap" THEN met \cup {<<i, work[w].saw.notice>>} ELSE met
        /\ log' = [log EXCEPT ![i] = [last |-> "applied", applied |-> @.applied + 1]]
  /\ Goto(w, "audit")
  /\ UNCHANGED <<db, send, claims, meta, bounds>>

\* The audit row, and the next item.
Audit(w) ==
  /\ At(w, "audit")
  /\ NextItem(w)
  /\ UNCHANGED <<db, run, claims, meta, log, bounds>>

(* An exception out of a handler: release_claim, and a 500 for the payload. *)
Fault(w) ==
  /\ faults < MaxFaults
  /\ faults' = faults + 1
  /\ work[w].pc \in Handling
  /\ claims' = claims \ {ItemOf(w)}
  /\ Answer(w, FALSE)
  /\ UNCHANGED <<db, run, log, crashes, timeouts>>

\* The instance is lost and its claim stays.
Crash(w) ==
  /\ crashes < MaxCrashes
  /\ crashes' = crashes + 1
  /\ ~At(w, "idle")
  /\ Answer(w, FALSE)
  /\ UNCHANGED <<db, run, claims, log, faults, timeouts>>

-----------------------------------------------------------------------------
Next ==
  \/ SlaLapses
  \/ \E a \in Admins : ReadContact(a) \/ CommitContact(a) \/ RemoveContact(a)
  \/ \E s \in Sends : Address(s) \/ Send(s) \/ AuditSend(s) \/ SaveNotice(s) \/ AwaitSla(s) \/ LoseSend(s)
  \/ \E w \in Workers :
       \/ \E p \in Payloads : Deliver(w, p)
       \/ Claim(w) \/ Look(w) \/ Judge(w) \/ Resume(w) \/ SlaAnswered(w) \/ Audit(w)
       \/ Fault(w) \/ Crash(w)

Spec == Init /\ [][Next]_vars

-----------------------------------------------------------------------------
(* Properties. *)

\* An SLA is met on WhatsApp only by the number the judged notice was sent
\* to, whatever happened to the contact since (_notice_recipient: "so nobody
\* else's tap counts").
AckByRecipient == \A m \in met : m[1].from = send[m[2]].to.phone

\* An item resolves the call once at most, however often it is delivered,
\* concurrently or after an error (whatsapp_webhook: "each exactly once").
AppliedOnce == \A i \in Items : log[i].applied <= 1

\* Once Meta got a 200 for a payload and no worker has it in hand, every item
\* of it was handled.
Delivered ==
  \A p \in Payloads :
    meta[p] = "acked" /\ (\A w \in Workers : At(w, "idle") \/ work[w].payload # p) =>
      \A i \in 1..Len(p) : log[p[i]].last # "none"

\* That holds while no instance is lost, unless an error and a timeout meet
\* (_once: the claim is released and "Meta redelivers").
NothingDropped == crashes = 0 /\ (faults = 0 \/ timeouts = 0) => Delivered

\* A version of a contact stands for one number, so that a notice's recorded
\* version vouches for the number (_next_update_time: "every change gives the
\* contact a new version").
VersionNamesNumber == \A q, r \in rows : q[1] = r[1] /\ q[2] = r[2] => q[3] = r[3]

AtRest ==
  /\ \A w \in Workers : At(w, "idle")
  /\ \A s \in Sends : send[s].pc \in {"idle", "over"}

\* At rest, a call does not go on waiting for an answer it was given: a
\* failure of its current notice, or a tap by the recipient, that was dealt
\* with once the notice's gate was there (_handle_status, _handle_ack).
AnswerCounts ==
  (AtRest /\ crashes = 0 /\ (faults = 0 \/ timeouts = 0) /\ head.waiting) =>
    \A p \in Payloads : meta[p] = "acked" =>
      \A n \in 1..Len(p) :
        LET i == p[n]
        IN i.notice = head.notice /\ log[i].last # "early" =>
             /\ i.type # "failed"
             /\ ~(i.type = "tap" /\ i.quotes /\ i.from \in NoticeRecipient(head.notice))

\* Every item of a payload is handled to its end, and once ("each exactly
\* once"), but for the lost instances and the errors Delivered tells of.
HandledOnce == TypeOK /\ AppliedOnce /\ NothingDropped

\* Nobody else's answer counts, as the number tells and as the recorded
\* version of the contact vouches for.
OnlyRecipientAnswers == AckByRecipient /\ VersionNamesNumber
=============================================================================
